----------------------------- MODULE VmBytecode -----------------------------
(* The RandomX instruction set as the interpreter of src/vm.cpp gives it     *)
(* meaning: compile_instruction() turns a program instruction into bytecode, *)
(* execute_bytecode() runs it.                                               *)
(*                                                                           *)
(* Words are scaled: RegBits for 64, ImmBits for 32.  The scratchpad has     *)
(* L3Words aligned words with nested L2 and L1 windows, and an address is a  *)
(* byte address of WordBytes-byte words.  Floating-point arithmetic is the   *)
(* same hardware operation on both execution paths, so a lane is a word and  *)
(* an FP operation an arbitrary fixed function of it and the rounding mode.  *)
EXTENDS VmInstructions, Integers, Sequences, Bitwise

CONSTANTS
  RegBits, ImmBits,             \* width of a register and of an immediate
  WordBytes,                    \* bytes of a scratchpad word (8)
  L1Words, L2Words, L3Words,    \* scratchpad windows, in words
  ConditionOffset,              \* lowest CBRANCH shift (8)
  ConditionBits                 \* width of the CBRANCH mask (8)

Word == 2^RegBits
Imm == 2^ImmBits
Regs == 0 .. 7
Lanes == 0 .. 3

Mask(words) == (words - 1) * WordBytes      \* kScratchpadL1Mask and friends
Invert(x) == Word - 1 - x
Signed(x, bits) == IF x < 2^(bits - 1) THEN x ELSE x - 2^bits
signExtend2sCompl(imm) == Signed(imm, ImmBits) % Word
IsZeroOrPowerOf2(x) == x = 0 \/ \E n \in 0 .. ImmBits : x = 2^n
rotr(x, n) == (x \div 2^(n % RegBits) + x * 2^(RegBits - (n % RegBits))) % Word
mulh(x, y) == (x * y) \div Word
smulh(x, y) == ((Signed(x, RegBits) * Signed(y, RegBits)) \div Word) % Word

\* Number of bits of d.
BitLength(d) == CHOOSE n \in 0 .. ImmBits : 2^n > d /\ (n = 0 \/ 2^(n - 1) <= d)

\* randomx_reciprocal(): quotient and remainder of 2^63 / d, then both shifted.
randomx_reciprocal(d) ==
  LET quotient == (Word \div 2) \div d
      remainder == (Word \div 2) % d
      shift == BitLength(d)
  IN (quotient * 2^shift + (remainder * 2^shift) \div d) % Word

\* The two-operand integer operations, by the instruction's root name.
Alu(fn, d, s) ==
  CASE fn = "add" -> (d + s) % Word
    [] fn = "sub" -> (d - s) % Word
    [] fn = "mul" -> (d * s) % Word
    [] fn = "umulh" -> mulh(d, s)
    [] fn = "smulh" -> smulh(d, s)
    [] fn = "eor" -> d ^^ s
    [] fn = "ror" -> rotr(d, s)
    [] fn = "rol" -> rotr(d, RegBits - (s % RegBits))

\* FP arithmetic on the lanes <<lo, hi>>; only that it is a function matters.
LaneOp(fn, x, y, rm) ==
  LET k == CASE fn = "fadd" -> 1 [] fn = "fsub" -> 3 [] fn = "fmul" -> 5 [] fn = "fdiv" -> 7
  IN (k * x + (k + 4) * y + 11 * k * rm) % Word
FpOp(fn, x, y, rm) == <<LaneOp(fn, x[1], y[1], rm), LaneOp(fn, x[2], y[2], rm)>>
Scale(x) == <<x[1] ^^ (Word \div 2), x[2] ^^ (Word \div 2)>>       \* FSCAL_R
Sqrt(x, rm) == FpOp("fmul", x, <<3, 3>>, rm)                       \* FSQRT_R
FromInts(w) == LET h == 2^(RegBits \div 2) IN <<w % h, w \div h>>  \* two int32 as doubles
EMask(x) == <<(x[1] % 4) + 8, (x[2] % 4) + 16>>                    \* mantissa mask, e_mask_

AluFn == [IADD_M |-> "add", ISUB_R |-> "sub", ISUB_M |-> "sub", IMUL_R |-> "mul",
          IMUL_M |-> "mul", IMULH_R |-> "umulh", IMULH_M |-> "umulh",
          ISMULH_R |-> "smulh", ISMULH_M |-> "smulh", IXOR_R |-> "eor",
          IXOR_M |-> "eor", IROR_R |-> "ror", IROL_R |-> "rol"]
FpRegFn == [FADD_R |-> "fadd", FSUB_R |-> "fsub", FMUL_R |-> "fmul"]

-----------------------------------------------------------------------------
(* Compilation.  A bytecode entry names the registers it writes for          *)
(* register_usage_ in `marks`; source `lit` is a pointer to ibc.imm.         *)
lit == -1
NOP == [type |-> "NOP", marks |-> {}]

MemMask(i) == IF i.mem THEN Mask(L1Words) ELSE Mask(L2Words)

compile_mem_op(i) ==
  LET same == i.src = i.dst
  IN [type |-> i.op, d |-> i.dst, s |-> IF same THEN lit ELSE i.src,
      imm |-> signExtend2sCompl(i.imm),
      mask |-> IF same THEN Mask(L3Words) ELSE MemMask(i), marks |-> {i.dst}]

compile_alu_reg(i, imm) ==
  [type |-> "ALU", fn |-> AluFn[i.op], d |-> i.dst,
   s |-> IF i.src = i.dst THEN lit ELSE i.src, imm |-> imm, marks |-> {i.dst}]

\* h_IADD_RS ... h_IMUL_RCP
CompileArith(i) ==
  CASE i.op = "IADD_RS" ->
         [type |-> i.op, d |-> i.dst, s |-> i.src, shift |-> i.shift,
          imm |-> IF i.dst = 5 THEN signExtend2sCompl(i.imm) ELSE 0, marks |-> {i.dst}]
    [] i.op \in MemOps -> compile_mem_op(i)
    [] i.op \in {"ISUB_R", "IMUL_R"} -> compile_alu_reg(i, signExtend2sCompl(i.imm))
    [] i.op \in {"IMULH_R", "ISMULH_R"} ->
         [type |-> "ALU", fn |-> AluFn[i.op], d |-> i.dst, s |-> i.src, imm |-> 0,
          marks |-> {i.dst}]
    [] i.op = "IMUL_RCP" ->
         IF IsZeroOrPowerOf2(i.imm) THEN NOP
         ELSE [type |-> "ALU", fn |-> "mul", d |-> i.dst, s |-> lit,
               imm |-> randomx_reciprocal(i.imm), marks |-> {i.dst}]

\* h_INEG_R ... h_ISWAP_R.  Rotation counts are not sign-extended.
CompileLogic(i) ==
  CASE i.op = "INEG_R" -> [type |-> i.op, d |-> i.dst, marks |-> {i.dst}]
    [] i.op = "IXOR_R" -> compile_alu_reg(i, signExtend2sCompl(i.imm))
    [] i.op \in {"IROR_R", "IROL_R"} -> compile_alu_reg(i, i.imm)
    [] i.op = "ISWAP_R" -> IF i.src = i.dst THEN NOP
                           ELSE [type |-> i.op, d |-> i.dst, s |-> i.src,
                                 marks |-> {i.dst, i.src}]

\* h_FSWAP_R ... h_FSQRT_R
CompileFloat(i) ==
  CASE i.op = "FSWAP_R" -> [type |-> i.op, file |-> IF i.dst < 4 THEN "f" ELSE "e",
                            d |-> i.dst % 4, marks |-> {}]
    [] i.op \in DOMAIN FpRegFn \cup {"FSCAL_R", "FSQRT_R"} ->
         [type |-> i.op, d |-> i.dst % 4, s |-> i.src % 4, marks |-> {}]
    [] i.op \in DOMAIN FpMemFn ->
         [type |-> i.op, d |-> i.dst % 4, s |-> i.src, mask |-> MemMask(i),
          imm |-> signExtend2sCompl(i.imm), marks |-> {}]

BranchShift(i) == i.cond + ConditionOffset

\* Mutant: the bit below the condition window is left in the addend.
BranchImm_keepBit(imm, shift) == imm | 2^shift

\* The addend: bit `shift` set, bit `shift - 1` cleared.
BranchImm(imm, shift) ==
  LET set == imm | 2^shift IN IF set & 2^(shift - 1) = 0 THEN set ELSE set - 2^(shift - 1)

h_CBRANCH(i, usage) ==
  [type |-> i.op, d |-> i.dst, target |-> usage[i.dst],
   imm |-> BranchImm(signExtend2sCompl(i.imm), BranchShift(i)),
   mask |-> (2^ConditionBits - 1) * 2^BranchShift(i), marks |-> Regs]

h_CFROUND(i) == [type |-> i.op, s |-> i.src, imm |-> i.imm % RegBits, marks |-> {}]

h_ISTORE(i) ==
  [type |-> i.op, d |-> i.dst, s |-> i.src, imm |-> signExtend2sCompl(i.imm),
   mask |-> IF i.cond < 14 THEN MemMask(i) ELSE Mask(L3Words), marks |-> {}]

compile_instruction(i, usage) ==
  CASE i.op \in ArithOps -> CompileArith(i)
    [] i.op \in LogicOps -> CompileLogic(i)
    [] i.op = "CBRANCH" -> h_CBRANCH(i, usage)
    [] i.op = "CFROUND" -> h_CFROUND(i)
    [] i.op = "ISTORE" -> h_ISTORE(i)
    [] OTHER -> CompileFloat(i)

\* register_usage_ before instruction n: the last marking instruction, or 0.
compile_program(p) ==
  LET bc[n \in 0 .. Len(p)] ==
        IF n = 0 THEN [code |-> <<>>, usage |-> [r \in Regs |-> 0]]
        ELSE LET ibc == compile_instruction(p[n], bc[n - 1].usage)
             IN [code |-> Append(bc[n - 1].code, ibc),
                 usage |-> [r \in Regs |-> IF r \in ibc.marks THEN n
                                           ELSE bc[n - 1].usage[r]]]
  IN bc[Len(p)].code

-----------------------------------------------------------------------------
(* Execution on m = [r, f, e, a, mem, rm].                                   *)
Src(m, ibc) == IF ibc.s = lit THEN ibc.imm ELSE m.r[ibc.s]
getScratchpadAddress(m, ibc) ==
  LET base == IF ibc.s = lit THEN 0 ELSE m.r[ibc.s]
  IN (base + ibc.imm) & ibc.mask
Load(m, addr) == m.mem[addr \div WordBytes]

\* The integer cases of execute_bytecode().
ExecInt(m, ibc) ==
  CASE ibc.type = "IADD_RS" ->
         [m EXCEPT !.r[ibc.d] = (@ + m.r[ibc.s] * 2^ibc.shift + ibc.imm) % Word]
    [] ibc.type \in MemOps ->
         [m EXCEPT !.r[ibc.d] = Alu(AluFn[ibc.type], @, Load(m, getScratchpadAddress(m, ibc)))]
    [] ibc.type = "ALU" -> [m EXCEPT !.r[ibc.d] = Alu(ibc.fn, @, Src(m, ibc))]
    [] ibc.type = "INEG_R" -> [m EXCEPT !.r[ibc.d] = (Invert(@) + 1) % Word]
    [] ibc.type = "ISWAP_R" -> [m EXCEPT !.r[ibc.d] = m.r[ibc.s], !.r[ibc.s] = m.r[ibc.d]]
    [] ibc.type = "ISTORE" ->
         [m EXCEPT !.mem[((m.r[ibc.d] + ibc.imm) & ibc.mask) \div WordBytes] = m.r[ibc.s]]
    [] ibc.type = "CBRANCH" -> [m EXCEPT !.r[ibc.d] = (@ + ibc.imm) % Word]

\* The floating-point cases.
ExecFloat(m, ibc) ==
  CASE ibc.type = "FSWAP_R" /\ ibc.file = "f" -> [m EXCEPT !.f[ibc.d] = <<@[2], @[1]>>]
    [] ibc.type = "FSWAP_R" /\ ibc.file = "e" -> [m EXCEPT !.e[ibc.d] = <<@[2], @[1]>>]
    [] ibc.type \in {"FADD_R", "FSUB_R"} ->
         [m EXCEPT !.f[ibc.d] = FpOp(FpRegFn[ibc.type], @, m.a[ibc.s], m.rm)]
    [] ibc.type = "FMUL_R" -> [m EXCEPT !.e[ibc.d] = FpOp("fmul", @, m.a[ibc.s], m.rm)]
    [] ibc.type \in {"FADD_M", "FSUB_M"} ->
         [m EXCEPT !.f[ibc.d] = FpOp(FpMemFn[ibc.type], @,
                                     FromInts(Load(m, getScratchpadAddress(m, ibc))), m.rm)]
    [] ibc.type = "FDIV_M" ->
         [m EXCEPT !.e[ibc.d] = FpOp("fdiv", @,
                                EMask(FromInts(Load(m, getScratchpadAddress(m, ibc)))), m.rm)]
    [] ibc.type = "FSCAL_R" -> [m EXCEPT !.f[ibc.d] = Scale(@)]
    [] ibc.type = "FSQRT_R" -> [m EXCEPT !.e[ibc.d] = Sqrt(@, m.rm)]
    [] ibc.type = "CFROUND" -> [m EXCEPT !.rm = rotr(m.r[ibc.s], ibc.imm) % 4]

IntTypes == MemOps \cup {"IADD_RS", "ALU", "INEG_R", "ISWAP_R", "ISTORE", "CBRANCH"}

Execute(m, ibc) == IF ibc.type = "NOP" THEN m
                   ELSE IF ibc.type \in IntTypes THEN ExecInt(m, ibc) ELSE ExecFloat(m, ibc)

\* A CBRANCH whose condition window is zero after the addition jumps.
BranchTaken(m, ibc) == ibc.type = "CBRANCH" /\ m.r[ibc.d] & ibc.mask = 0
=============================================================================
