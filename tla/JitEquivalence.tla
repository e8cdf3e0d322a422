--------------------------- MODULE JitEquivalence ---------------------------
(* One pass over a program (the inner loop body of a hash) executed twice:   *)
(* by the interpreter and by the code the JIT emits for it.  The machines    *)
(* must end in the same architectural state: the hash of a nonce may not     *)
(* depend on which path computed it (tests/test_jit_equivalence.cpp).        *)
(*                                                                           *)
(* A program is any sequence drawn slot by slot from Families, a set of      *)
(* sequences of instruction sets.                                            *)
EXTENDS JitA64

CONSTANTS
  Families,          \* sequences of sets of instructions
  Seeds,             \* numbers that fix the initial registers and memory
  Stale              \* what earlier code left in x19 and x20

VARIABLES
  family,            \* the slots still to draw from; prog is the program so far
  phase,             \* "draw", "interpret", "execute", "done"
  bytecode_, pc, vm, \* the interpreter
  jit, ip, cpu,      \* the compiler's result, and the machine running it
  streak             \* taken branches in a row of the branch last taken

interpreter == <<bytecode_, pc, vm, streak>>
native == <<jit, ip, cpu>>
vars == <<family, prog, phase, interpreter, native>>

\* initialize_vm_state() leaves arbitrary words; fixed ones, spread out.
Spread(seed, n) == (seed * (2 * n + 1) + n * n) % Word
Pair(seed, n) == <<Spread(seed, n), Spread(seed, n + 1)>>
InitVm(seed) ==
  [r |-> [r \in Regs |-> Spread(seed, r)], f |-> [n \in Lanes |-> Pair(seed, n + 20)],
   e |-> [n \in Lanes |-> Pair(seed, n + 30)], a |-> [n \in Lanes |-> Pair(seed, n + 40)],
   mem |-> [w \in 0 .. L3Words - 1 |-> Spread(seed, w + 50)], rm |-> 0]

\* The prologue loads the VM registers and the first IMUL_RCP literals.
LoadCpu(m, c) ==
  [x |-> [n \in 0 .. 30 |-> IF n \in {Tmp, FpAddr} THEN Stale
                            ELSE IF \E r \in Regs : X(r) = n THEN m.r[CHOOSE r \in Regs : X(r) = n]
                            ELSE IF 30 - n < Len(c.rcp) THEN c.rcp[31 - n] ELSE 0],
   v |-> [n \in 16 .. 28 |-> CASE n < 20 -> m.f[n - 16] [] n \in 20 .. 23 -> m.e[n - 20]
                               [] n \in 24 .. 27 -> m.a[n - 24] [] OTHER -> <<0, 0>>],
   mem |-> m.mem, rm |-> m.rm]

-----------------------------------------------------------------------------
(* What a machine operation does.                                            *)
RunInt(m, c, o) ==
  CASE o[1] = "alu" -> [m EXCEPT !.x[o[3]] = Alu(o[2], m.x[o[4]], m.x[o[5]])]
    [] o[1] = "addlsl" -> [m EXCEPT !.x[o[2]] = (@ + m.x[o[3]] * 2^o[4]) % Word]
    [] o[1] = "addi" -> [m EXCEPT !.x[o[2]] = (m.x[o[3]] + o[4]) % Word]
    [] o[1] = "neg" -> [m EXCEPT !.x[o[2]] = (Word - m.x[o[3]]) % Word]
    [] o[1] = "mov" -> [m EXCEPT !.x[o[2]] = m.x[o[3]]]
    [] o[1] = "movz" -> [m EXCEPT !.x[o[2]] = o[3]]
    [] o[1] = "movn" -> [m EXCEPT !.x[o[2]] = Invert(o[3])]
    [] o[1] = "movk" -> [m EXCEPT !.x[o[2]] = @ - (@ % 2^HalfBits) + o[3]]
    [] o[1] = "lane" -> [m EXCEPT !.x[o[2]] = IF o[4] THEN signExtend2sCompl(c.lits[o[3]])
                                              ELSE c.lits[o[3]]]
    [] o[1] = "rori" -> [m EXCEPT !.x[o[2]] = rotr(m.x[o[3]], o[4])]
    [] o[1] = "and" -> [m EXCEPT !.x[o[2]] = m.x[o[3]] & o[4]]
    [] o[1] = "ldr" -> [m EXCEPT !.x[o[2]] = m.mem[(m.x[o[3]] * o[4]) \div WordBytes]]
    [] o[1] = "ldrlit" -> [m EXCEPT !.x[o[2]] = c.rcp[o[3]]]
    [] o[1] = "str" -> [m EXCEPT !.mem[m.x[o[3]] \div WordBytes] = m.x[o[2]]]

RunFloat(m, o) ==
  CASE o[1] = "fswap" -> [m EXCEPT !.v[o[2]] = <<@[2], @[1]>>]
    [] o[1] = "fop" -> [m EXCEPT !.v[o[3]] = FpOp(o[2], @, m.v[o[4]], m.rm)]
    [] o[1] = "feor" -> [m EXCEPT !.v[o[2]] = Scale(@)]
    [] o[1] = "fsqrt" -> [m EXCEPT !.v[o[2]] = Sqrt(@, m.rm)]
    [] o[1] = "ldrfp" -> [m EXCEPT !.v[o[2]] = FromInts(m.mem[m.x[o[3]] \div WordBytes])]
    [] o[1] = "bif" -> [m EXCEPT !.v[o[2]] = EMask(@)]
    [] o[1] = "msr" -> [m EXCEPT !.rm = m.x[o[2]] % 4]

FloatOps == {"fswap", "fop", "feor", "fsqrt", "ldrfp", "bif", "msr"}
RunOp(m, c, o) == IF o[1] \in FloatOps THEN RunFloat(m, o) ELSE RunInt(m, c, o)

-----------------------------------------------------------------------------
Empty == [code |-> <<>>, changed |-> [r \in Regs |-> 0], rcp |-> <<>>, lits |-> <<>>]

Init == /\ family \in Families
        /\ prog = <<>> /\ phase = "draw"
        /\ bytecode_ = <<>> /\ pc = 1 /\ streak = 0
        /\ \E seed \in Seeds : vm = InitVm(seed)
        /\ jit = Empty /\ ip = 1 /\ cpu = LoadCpu(vm, Empty)

Draw == /\ phase = "draw" /\ family # <<>>
        /\ \E i \in Head(family) : prog' = Append(prog, i)
        /\ family' = Tail(family)
        /\ UNCHANGED <<phase, interpreter, native>>

\* compile_program() and generateProgram() on the same program and state.
Compile == /\ phase = "draw" /\ family = <<>>
           /\ phase' = "interpret"
           /\ bytecode_' = compile_program(prog)
           /\ jit' = generateProgram(prog, scheduleProgram(prog))
           /\ cpu' = LoadCpu(vm, jit')
           /\ UNCHANGED <<family, prog, pc, vm, streak, ip>>

\* One iteration of execute_bytecode().
Interpret == /\ phase = "interpret" /\ pc <= Len(prog)
             /\ vm' = Execute(vm, bytecode_[pc])
             /\ IF BranchTaken(vm', bytecode_[pc])
                THEN pc' = bytecode_[pc].target + 1 /\ streak' = streak + 1
                ELSE pc' = pc + 1 /\ streak' = IF prog[pc].op = "CBRANCH" THEN 0 ELSE streak
             /\ UNCHANGED <<family, prog, phase, bytecode_, native>>

Interpreted == /\ phase = "interpret" /\ pc > Len(prog)
               /\ phase' = "execute"
               /\ UNCHANGED <<family, prog, interpreter, native>>

\* One emitted operation; TST / BNE / B is one of them.
ExecuteNative ==
  /\ phase = "execute" /\ ip <= Len(jit.code)
  /\ LET o == jit.code[ip]
     IN IF o[1] = "tstb"
        THEN cpu' = cpu /\ ip' = IF cpu.x[o[2]] & o[3] = 0 THEN o[4] + 1 ELSE ip + 1
        ELSE cpu' = RunOp(cpu, jit, o) /\ ip' = ip + 1
  /\ UNCHANGED <<family, prog, phase, interpreter, jit>>

Executed == /\ phase = "execute" /\ ip > Len(jit.code)
            /\ phase' = "done"
            /\ UNCHANGED <<family, prog, interpreter, native>>

Next == Draw \/ Compile \/ Interpret \/ Interpreted \/ ExecuteNative \/ Executed

Spec == Init /\ [][Next]_vars

-----------------------------------------------------------------------------
SameResult == /\ \A r \in Regs : cpu.x[X(r)] = vm.r[r]
              /\ \A n \in Lanes : cpu.v[V("f", n)] = vm.f[n] /\ cpu.v[V("e", n)] = vm.e[n]
              /\ cpu.mem = vm.mem /\ cpu.rm = vm.rm

\* An FP load whose masked offset is zero (emitMemLoadFP's skipped ADD).
ZeroOffsetFpLoad(p) == \E n \in DOMAIN p :
  p[n].op \in DOMAIN FpMemFn /\ Offset(p[n].imm, Window(p[n])) = 0

\* An instruction that counts as a writer of a register but emits no code.
FalseWriter(i) == \/ i.op = "ISWAP_R" /\ i.src = i.dst
                  \/ i.op = "IMUL_RCP" /\ IsZeroOrPowerOf2(i.imm)

\* A CBRANCH whose anchor is such an instruction.
ShadowedAnchor(p) == \E j \in Anchors(p) : FalseWriter(p[j])

\* Registers, vectors and words stay in range and both machines stay inside
\* their code.
TypeOK == /\ phase \in {"draw", "interpret", "execute", "done"}
          /\ pc \in 1 .. Len(prog) + 1 /\ ip \in 1 .. Len(jit.code) + 1
          /\ vm.r \in [Regs -> 0 .. Word - 1] /\ cpu.x \in [0 .. 30 -> 0 .. Word - 1]

\* The JIT and the interpreter produce the same result for every program
\* (tests/test_jit_equivalence.cpp), zero-offset FP loads and shadowed anchors
\* aside: whatever the scheduler reorders and however immediates are loaded.
JitMatchesInterpreter ==
  phase = "done" /\ ~ZeroOffsetFpLoad(prog) /\ ~ShadowedAnchor(prog) => SameResult

\* The same for every program without a shadowed anchor: an FP load with a zero
\* offset reads the word the source register addresses.
FpLoadMatches == phase = "done" /\ ~ShadowedAnchor(prog) => SameResult

\* The same for every program without a zero-offset FP load: over-approximating
\* what an instruction writes never causes an incorrect reorder.
ReorderIsSafe == phase = "done" /\ ~ZeroOffsetFpLoad(prog) => SameResult

\* No CBRANCH loops more than twice in a row: the cleared bit below the
\* condition window absorbs the carry that made the window zero again.
BranchLoopsAtMostTwice == streak <= 2
=============================================================================
