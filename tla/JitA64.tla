------------------------------- MODULE JitA64 -------------------------------
(* The AArch64 code generator of src/jit_compiler_a64.cpp: the handlers that *)
(* emit code for one VM instruction, in the order of JitSchedule.            *)
(*                                                                           *)
(* Emitted code is a sequence of machine operations on physical registers,   *)
(* with the temporaries x19 and x20, the literal pools and the FP temporary  *)
(* v28 of the real code; a code offset is a number of operations.  The       *)
(* compiler state is c = [code, changed, rcp, lits]: the code so far,        *)
(* reg_changed_offset, and the two literal pools.                            *)
EXTENDS VmBytecode, JitSchedule, FiniteSets

CONSTANTS
  HalfBits,        \* bits a MOVZ/MOVK sets (16)
  AddBits,         \* bits an ADD immediate holds (12)
  MaxLits,         \* 32-bit literals kept in v0..v15 (64)
  MaxRcpRegs       \* IMUL_RCP literals kept in registers (12)

-----------------------------------------------------------------------------
(* Emission.  A machine operation is a tuple; its first component names it   *)
(* and module JitEquivalence gives it meaning.                               *)
IntRegMap == <<4, 5, 6, 7, 12, 13, 14, 15>>
X(r) == IntRegMap[r + 1]
Tmp == 20                                   \* x20
FpAddr == 19                                \* x19
FpTmp == 28                                 \* v28
V(file, n) == n + (CASE file = "f" -> 16 [] file = "e" -> 20 [] file = "a" -> 24)

Put(c, ops) == [c EXCEPT !.code = @ \o ops]
Changed(c, regs) == [c EXCEPT !.changed = [r \in Regs |-> IF r \in regs THEN Len(c.code) ELSE @[r]]]
Negative(imm) == imm >= Imm \div 2
Lo(imm) == imm % 2^HalfBits
Hi(imm) == imm - Lo(imm)

\* The MOVZ/MOVN + MOVK pair, sign-extending like SMOV does.
MovPair(d, imm) ==
  << IF Negative(imm) THEN <<"movn", d, Hi(Imm - 1 - imm)>> ELSE <<"movz", d, Hi(imm)>>,
     <<"movk", d, Lo(imm)>> >>

emitMovImmediate(c, d, imm) ==
  IF imm < 2^HalfBits THEN Put(c, << <<"movz", d, imm>> >>)
  ELSE IF Len(c.lits) < MaxLits
       THEN Put([c EXCEPT !.lits = Append(@, imm)],
                << <<"lane", d, Len(c.lits) + 1, Negative(imm)>> >>)
       ELSE Put(c, MovPair(d, imm))

emitAddImmediate(c, d, n, imm) ==
  LET lo == imm % 2^AddBits
      hi == imm - lo
  IN IF imm >= 2^(2 * AddBits)
     THEN Put(emitMovImmediate(c, Tmp, imm), << <<"alu", "add", d, n, Tmp>> >>)
     ELSE IF lo # 0 /\ hi # 0
          THEN Put(c, << <<"addi", d, n, lo>>, <<"addi", d, d, hi>> >>)
          ELSE Put(c, << <<"addi", d, n, lo + hi>> >>)

Window(i) == IF i.mem THEN L1Words ELSE L2Words
Offset(imm, words) == imm % (words * WordBytes)

\* The address is src + imm masked to L1 or L2, or a literal word of L3.
emitMemLoad(c, i) ==
  LET off == Offset(i.imm, Window(i))
      base == IF off = 0 THEN Put(c, << <<"and", Tmp, X(i.src), Mask(Window(i))>> >>)
              ELSE Put(emitAddImmediate(c, Tmp, X(i.src), off),
                       << <<"and", Tmp, Tmp, Mask(Window(i))>> >>)
  IN IF i.src # i.dst THEN Put(base, << <<"ldr", Tmp, Tmp, 1>> >>)
     ELSE Put(emitMovImmediate(c, Tmp, (i.imm & Mask(L3Words)) \div WordBytes),
              << <<"ldr", Tmp, Tmp, WordBytes>> >>)

\* A zero offset skips the ADD, but x19 is masked all the same.
emitMemLoadFP(c, i) ==
  LET off == Offset(i.imm, Window(i))
      base == IF off # 0 THEN emitAddImmediate(c, FpAddr, X(i.src), off) ELSE c
  IN Put(base, << <<"and", FpAddr, FpAddr, Mask(Window(i))>>, <<"ldrfp", FpTmp, FpAddr>> >>)

-----------------------------------------------------------------------------
(* The handlers.                                                             *)
AluTmp(c, i) == Put(c, << <<"alu", AluFn[i.op], X(i.dst), X(i.dst), Tmp>> >>)
AluReg(c, i) == Put(c, << <<"alu", AluFn[i.op], X(i.dst), X(i.dst), X(i.src)>> >>)
NegImm(i) == (Imm - i.imm) % Imm

\* -INT_MIN has no 32-bit two's complement, so it is added as a positive number.
h_ISUB_R(c, i) ==
  IF i.src # i.dst THEN AluReg(c, i)
  ELSE IF i.imm = Imm \div 2
       THEN Put(c, << <<"movz", Tmp, Imm \div 2>>, <<"alu", "add", X(i.dst), X(i.dst), Tmp>> >>)
       ELSE emitAddImmediate(c, X(i.dst), X(i.dst), NegImm(i))

h_IADD_RS(c, i) ==
  LET add == Put(c, << <<"addlsl", X(i.dst), X(i.src), i.shift>> >>)
  IN IF i.dst = 5 THEN emitAddImmediate(add, X(i.dst), X(i.dst), i.imm) ELSE add

\* h_IMUL_R and h_IXOR_R: the immediate goes through x20.
RegOrImm(c, i) == IF i.src # i.dst THEN AluReg(c, i)
                  ELSE AluTmp(emitMovImmediate(c, Tmp, i.imm), i)

h_IMUL_RCP(c, i) ==
  LET id == Len(c.rcp)
      mul(m) == <<"alu", "mul", X(i.dst), X(i.dst), m>>
      pooled == [c EXCEPT !.rcp = Append(@, randomx_reciprocal(i.imm))]
  IN IF IsZeroOrPowerOf2(i.imm) THEN c
     ELSE IF id < MaxRcpRegs THEN Put(pooled, << mul(30 - id) >>)
     ELSE Put(pooled, << <<"ldrlit", Tmp, id + 1>>, mul(Tmp) >>)

Rotate(c, i) ==
  CASE i.op = "IROR_R" /\ i.src # i.dst -> AluReg(c, i)
    [] i.op = "IROR_R" /\ i.src = i.dst -> Put(c, << <<"rori", X(i.dst), X(i.dst), i.imm % RegBits>> >>)
    [] i.op = "IROL_R" /\ i.src # i.dst ->
         Put(c, << <<"neg", Tmp, X(i.src)>>, <<"alu", "ror", X(i.dst), X(i.dst), Tmp>> >>)
    [] i.op = "IROL_R" /\ i.src = i.dst ->
         Put(c, << <<"rori", X(i.dst), X(i.dst), NegImm(i) % RegBits>> >>)

h_ISWAP_R(c, i) ==
  IF i.src = i.dst THEN c
  ELSE Put(c, << <<"mov", Tmp, X(i.dst)>>, <<"mov", X(i.dst), X(i.src)>>, <<"mov", X(i.src), Tmp>> >>)

EmitFloat(c, i) ==
  CASE i.op = "FSWAP_R" -> Put(c, << <<"fswap", 16 + i.dst>> >>)
    [] i.op \in {"FADD_R", "FSUB_R"} ->
         Put(c, << <<"fop", FpRegFn[i.op], V("f", i.dst % 4), V("a", i.src % 4)>> >>)
    [] i.op = "FMUL_R" -> Put(c, << <<"fop", "fmul", V("e", i.dst % 4), V("a", i.src % 4)>> >>)
    [] i.op \in {"FADD_M", "FSUB_M"} ->
         Put(emitMemLoadFP(c, i), << <<"fop", FpMemFn[i.op], V("f", i.dst % 4), FpTmp>> >>)
    [] i.op = "FDIV_M" ->
         Put(emitMemLoadFP(c, i), << <<"bif", FpTmp>>, <<"fop", "fdiv", V("e", i.dst % 4), FpTmp>> >>)
    [] i.op = "FSCAL_R" -> Put(c, << <<"feor", V("f", i.dst % 4)>> >>)
    [] i.op = "FSQRT_R" -> Put(c, << <<"fsqrt", V("e", i.dst % 4)>> >>)

\* ADD, then TST / BNE / B back to the code after the last write of the register.
EmitCBRANCH(c, i) ==
  LET shift == BranchShift(i)
      add == emitAddImmediate(c, X(i.dst), X(i.dst), BranchImm(i.imm, shift))
  IN Put(add, << <<"tstb", X(i.dst), (2^ConditionBits - 1) * 2^shift, c.changed[i.dst]>> >>)

EmitCFROUND(c, i) == Put(c, << <<"rori", Tmp, X(i.src), i.imm % RegBits>>, <<"msr", Tmp>> >>)

EmitISTORE(c, i) ==
  LET words == IF i.cond < 14 THEN Window(i) ELSE L3Words
  IN Put(emitAddImmediate(c, Tmp, X(i.dst), Offset(i.imm, words)),
         << <<"and", Tmp, Tmp, Mask(words)>>, <<"str", X(i.src), Tmp>> >>)

\* Code of one instruction, before reg_changed_offset is updated.
Handler(c, i) ==
  CASE i.op = "IADD_RS" -> h_IADD_RS(c, i)
    [] i.op = "ISUB_R" -> h_ISUB_R(c, i)
    [] i.op \in {"IMUL_R", "IXOR_R"} -> RegOrImm(c, i)
    [] i.op \in {"IMULH_R", "ISMULH_R"} -> AluReg(c, i)
    [] i.op \in MemOps -> AluTmp(emitMemLoad(c, i), i)
    [] i.op = "IMUL_RCP" -> h_IMUL_RCP(c, i)
    [] i.op = "INEG_R" -> Put(c, << <<"neg", X(i.dst), X(i.dst)>> >>)
    [] i.op \in {"IROR_R", "IROL_R"} -> Rotate(c, i)
    [] i.op = "ISWAP_R" -> h_ISWAP_R(c, i)
    [] i.op = "CBRANCH" -> EmitCBRANCH(c, i)
    [] i.op = "CFROUND" -> EmitCFROUND(c, i)
    [] i.op = "ISTORE" -> EmitISTORE(c, i)
    [] OTHER -> EmitFloat(c, i)

\* The registers whose reg_changed_offset the handler sets.
Touched(i) == CASE i.op = "CBRANCH" -> Regs
                [] i.op = "ISWAP_R" -> {i.dst, i.src}
                [] i.op \in ArithOps \cup LogicOps -> {i.dst}
                [] OTHER -> {}

\* Handlers that emit no code return before they touch reg_changed_offset.
Emit(c, i) ==
  LET emitted == Handler(c, i)
  IN IF emitted.code = c.code THEN c ELSE Changed(emitted, Touched(i))

\* emitPrologueMix(): reset, schedule, emit in the scheduled order.
generateProgram(p, order) ==
  LET emit[n \in 0 .. Len(p)] ==
        IF n = 0 THEN [code |-> <<>>, changed |-> [r \in Regs |-> 0], rcp |-> <<>>, lits |-> <<>>]
        ELSE Emit(emit[n - 1], p[order[n]])
  IN emit[Len(p)]
=============================================================================
