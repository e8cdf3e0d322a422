------------------------- MODULE SuperscalarProgram -------------------------
(***************************************************************************)
(* What becomes of a superscalar program, whoever drew it: the register it  *)
(* takes its address from, its interpretation (execute_superscalar) and the *)
(* code generateSuperscalarHash emits, in the order                         *)
(* scheduleSuperscalarProgram picks and with its pool of reciprocals.       *)
(* Register values are terms, so that two orders agree exactly when they    *)
(* apply the same operations to the same operands.                          *)
(***************************************************************************)
EXTENDS Integers, Sequences

CONSTANT Machines         \* the sizes to draw programs with; in the code, one:
                          \* regs 8, latency 170, size 512, look 4, throws 256

(* AArch64's two-way code has room for eight registers per stream.          *)
ASSUME MachinesAssumption ==
  \A m \in Machines : /\ m.regs \in 1..8 /\ m.latency \in Nat /\ m.look \in Nat
                      /\ m.size \in Nat /\ m.throws \in Nat

VARIABLE machine          \* one of Machines, and never another

SsRegs == 0..(machine.regs - 1)

isMultiplication(type) == type \in {"IMUL_R", "IMULH_R", "ISMULH_R", "IMUL_RCP"}

(* The instructions a program may hold, whoever drew it: one that takes no
   source register names its destination twice (toInstr).                   *)
OneRegister == {"IROR_C", "IADD_C", "IXOR_C", "IMUL_RCP"}
TwoRegisters == {"ISUB_R", "IXOR_R", "IADD_RS", "IMUL_R", "IMULH_R", "ISMULH_R"}
Instructions(regs) ==
  {i \in [type : OneRegister \union TwoRegisters, src : 0..(regs - 1), dst : 0..(regs - 1),
          par : Int, imm : Int] : i.type \in OneRegister => i.src = i.dst}

(* asic_latencies: the longest chain of operations into each register.      *)
AsicLatencies(p) ==
  LET Longer(x, y) == IF x > y THEN x ELSE y
      lat[n \in 0..Len(p)] ==
        IF n = 0 THEN [r \in SsRegs |-> 0]
        ELSE LET i == p[n] l == lat[n - 1]
             IN [l EXCEPT ![i.dst] = Longer(@ + 1, IF i.src = i.dst THEN 0 ELSE l[i.src] + 1)]
  IN lat[Len(p)]

AddressRegister(p) ==
  LET l == AsicLatencies(p)
  IN CHOOSE r \in SsRegs : \A q \in SsRegs : l[q] < l[r] \/ (l[q] = l[r] /\ r <= q)

-----------------------------------------------------------------------------
(* Interpretation and emission.                                             *)
Apply(regs, i, literal) ==
  [regs EXCEPT ![i.dst] = <<i.type, @, IF i.src = i.dst THEN @ ELSE regs[i.src], literal>>]

execute_superscalar(rl, p) ==
  LET r[n \in 0..Len(p)] == IF n = 0 THEN rl ELSE Apply(r[n - 1], p[n], p[n].imm)
  IN r[Len(p)]

(* computeSuperscalarFootprint(), hasHazard(): no memory, no barriers.      *)
SsReads(i) == {i.dst} \union IF i.type \in TwoRegisters THEN {i.src} ELSE {}
SsHazard(i, j) == i.dst \in SsReads(j) \/ j.dst \in SsReads(i)

IsRcp(i) == i.type = "IMUL_RCP"

(* The literals of the reciprocal multiplies among the first n instructions
   of p, pushed in program order behind those that are there.               *)
Reciprocals(p, before) ==
  LET pushed[n \in 0..Len(p)] ==
        IF n = 0 THEN before
        ELSE IF IsRcp(p[n]) THEN Append(pushed[n - 1], p[n].imm) ELSE pushed[n - 1]
  IN pushed

(* Mutant: reciprocal multiplies are moved like any other instruction.      *)
StaysPut_never(i) == FALSE

StaysPut(i) == IsRcp(i)

(* A multiplication whose result the next instruction waits for, and after it
   an instruction that waits for neither.                                   *)
Swaps(p, n) ==
  /\ isMultiplication(p[n].type) /\ n + 2 <= Len(p)
  /\ ~StaysPut(p[n + 1]) /\ ~StaysPut(p[n + 2])
  /\ SsHazard(p[n], p[n + 1])
  /\ ~SsHazard(p[n], p[n + 2]) /\ ~SsHazard(p[n + 1], p[n + 2])

(* i and order after so many turns of the loop; it takes at most Len(p).    *)
scheduleSuperscalarProgram(p) ==
  LET loop[k \in 0..Len(p)] ==
        IF k = 0 THEN [i |-> 1, order |-> <<>>]
        ELSE LET s == loop[k - 1] IN
             IF s.i > Len(p) THEN s
             ELSE IF Swaps(p, s.i)
             THEN [i |-> s.i + 3, order |-> s.order \o <<s.i, s.i + 2, s.i + 1>>]
             ELSE [i |-> s.i + 1, order |-> Append(s.order, s.i)]
  IN loop[Len(p)].order

(* generateSuperscalarHash(): the pool is filled in program order and used up
   in emission order.                                                       *)
generateSuperscalarHash(rl, p) ==
  LET pool == Reciprocals(p, <<>>)[Len(p)]
      order == scheduleSuperscalarProgram(p)
      r[n \in 0..Len(p)] ==
        IF n = 0 THEN [regs |-> rl, used |-> 0]
        ELSE LET i == p[order[n]] s == r[n - 1] IN
             [regs |-> Apply(s.regs, i, IF IsRcp(i) THEN pool[s.used + 1] ELSE i.imm),
              used |-> s.used + IF IsRcp(i) THEN 1 ELSE 0]
  IN r[Len(p)].regs
=============================================================================
