---------------------------- MODULE JitSchedule ----------------------------
(* The emission order of src/jit_compiler_a64.cpp: the footprints of the VM's *)
(* instructions, which of two instructions must keep their order, and the two *)
(* schedulers.  A program is a sequence of instructions with op, dst and src. *)
EXTENDS VmInstructions, Integers, Sequences

VARIABLE prog   \* the program a virtual machine compiles

-----------------------------------------------------------------------------
(* Footprints: registers are <<file, index>>.                                *)
IntReg(r) == <<"r", r>>
FpDst(i) == CASE i.op = "FSWAP_R" -> <<IF i.dst < 4 THEN "f" ELSE "e", i.dst % 4>>
              [] i.op \in {"FMUL_R", "FSQRT_R", "FDIV_M"} -> <<"e", i.dst % 4>>
              [] OTHER -> <<"f", i.dst % 4>>
IsMemoryOp(i) == i.op \in MemOps \cup DOMAIN FpMemFn \cup {"ISTORE"}
IsBarrier(i) == i.op \in {"CBRANCH", "CFROUND"}
IsLongLatency(i) == i.op \in MulOps \cup {"IMUL_RCP"}

Reads(i) ==
  CASE i.op \in {"IMUL_RCP", "INEG_R", "CBRANCH"} -> {IntReg(i.dst)}
    [] i.op = "CFROUND" -> {IntReg(i.src)}
    [] i.op \in FpOps -> {FpDst(i)}
    [] i.op \in DOMAIN FpMemFn -> {FpDst(i), IntReg(i.src)}
    [] OTHER -> {IntReg(i.dst), IntReg(i.src)}

\* ISWAP_R writes both registers and IMUL_RCP its destination even when the
\* handler emits nothing.
Writes(i) ==
  CASE i.op \in {"ISTORE", "CFROUND"} -> {}
    [] i.op \in FpOps \cup DOMAIN FpMemFn -> {FpDst(i)}
    [] i.op = "ISWAP_R" -> {IntReg(i.dst), IntReg(i.src)}
    [] OTHER -> {IntReg(i.dst)}

hasHazard(a, b) ==
  \/ IsBarrier(a) \/ IsBarrier(b)
  \/ IsMemoryOp(a) /\ IsMemoryOp(b)
  \/ Writes(a) \cap (Reads(b) \cup Writes(b)) # {}
  \/ Reads(a) \cap Writes(b) # {}

\* Mutant: no instruction is an anchor.
Anchors_none(p) == {}

\* For each CBRANCH, the last instruction of its domain (since the previous
\* CBRANCH) whose footprint writes the branch register.
Anchors(p) ==
  {j \in DOMAIN p :
     \E b \in DOMAIN p :
        /\ p[b].op = "CBRANCH" /\ j < b
        /\ IntReg(p[b].dst) \in Writes(p[j])
        /\ \A k \in j .. b - 1 : p[k].op # "CBRANCH"
        /\ \A k \in j + 1 .. b - 1 : IntReg(p[b].dst) \notin Writes(p[k])}

Movable(p, n) == /\ n \in DOMAIN p
                 /\ ~IsBarrier(p[n]) /\ n \notin Anchors(p)
                 /\ p[n].src # p[n].dst

Independent(p, m, n) == ~hasHazard(p[m], p[n])

\* At i a multiply whose result the next instruction waits for.
Stalls(p, i) == /\ IsLongLatency(p[i])
                /\ Movable(p, i + 1) /\ Movable(p, i + 2)
                /\ hasHazard(p[i], p[i + 1])
Near(p, i) == /\ Stalls(p, i) /\ Independent(p, i, i + 2)
              /\ Independent(p, i + 1, i + 2)
Far(p, i) == /\ Stalls(p, i) /\ Movable(p, i + 3)
             /\ \A k \in i .. i + 2 : Independent(p, k, i + 3)

\* A turn of the greedy loop: P R Q for a stalled pair P Q, else P R2 Q R1,
\* else P.  The swap budget is unlimited (ARMRX_MAX_SWAPS is a bisection aid).
GreedyTurn(p, s) ==
  LET Emit(block) == [i |-> s.i + Len(block), order |-> s.order \o block]
  IN IF s.i > Len(p) THEN s
     ELSE IF Near(p, s.i) THEN Emit(<<s.i, s.i + 2, s.i + 1>>)
     ELSE IF Far(p, s.i) THEN Emit(<<s.i, s.i + 3, s.i + 1, s.i + 2>>)
     ELSE Emit(<<s.i>>)

\* i and order after so many turns; the loop takes at most Len(p).
scheduleProgram(p) ==
  LET loop[k \in 0 .. Len(p)] ==
        IF k = 0 THEN [i |-> 1, order |-> <<>>] ELSE GreedyTurn(p, loop[k - 1])
  IN loop[Len(p)].order

-----------------------------------------------------------------------------
(* The list scheduler behind ARMRX_DAG_SCHED=1.                              *)
Fixed(p, n) == IsLongLatency(p[n]) \/ IsBarrier(p[n]) \/ n \in Anchors(p)
Tied(p, n) == p[n].src = p[n].dst
Ready(p, done, n) ==
  n \notin done /\ \A k \in 1 .. n - 1 : k \in done \/ Independent(p, k, n)

\* A later instruction that may fill the slot after the multiply `active`.
Fillers(p, done, slot, active) ==
  {j \in slot + 1 .. Len(p) :
     /\ \A k \in slot + 1 .. j : ~Fixed(p, k)
     /\ Ready(p, done, j) /\ ~Tied(p, j)
     /\ \A k \in (slot .. j - 1) \ done : ~Tied(p, k) /\ ~Fixed(p, k)
                                           /\ Independent(p, k, j)
     /\ Independent(p, active, j)}

Earliest(S) == CHOOSE n \in S : \A k \in S : n <= k

\* Mutant: the fallback also considers the instructions displaced earlier.
Fallbacks_fromStart(p, done, slot) ==
  {j \in DOMAIN p : Ready(p, done, j) /\ ~Tied(p, j) /\ ~Fixed(p, j)}

\* When the slot's own instruction went earlier: the ready ones from the slot on.
Fallbacks(p, done, slot) ==
  {j \in slot .. Len(p) : /\ \A k \in slot .. j : ~Fixed(p, k)
                          /\ Ready(p, done, j) /\ ~Tied(p, j)}

Identity(p) == [n \in DOMAIN p |-> n]

\* The order with slot k filled, or <<0>>: give up.
DagSlot(p, k, order) ==
  LET done == {order[n] : n \in DOMAIN order}
      active == IF order = <<>> THEN 0 ELSE order[Len(order)]
      stalled == /\ ~Fixed(p, k) /\ Ready(p, done, k)
                 /\ active > 0 /\ IsLongLatency(p[active])
                 /\ hasHazard(p[active], p[k])
  IN IF order = <<0>> THEN <<0>>
     ELSE IF stalled /\ Fillers(p, done, k, active) # {}
     THEN Append(order, Earliest(Fillers(p, done, k, active)))
     ELSE IF Ready(p, done, k) THEN Append(order, k)
     ELSE IF Fallbacks(p, done, k) = {} THEN <<0>>
     ELSE Append(order, Earliest(Fallbacks(p, done, k)))

scheduleProgramDag(p) ==
  LET fill[k \in 0 .. Len(p)] == IF k = 0 THEN <<>> ELSE DagSlot(p, k, fill[k - 1])
  IN IF fill[Len(p)] = <<0>> THEN Identity(p) ELSE fill[Len(p)]

\* The list scheduler gives up on every program in which it moved something:
\* an instruction displaced from its slot is never offered again.
DagNeverReorders == scheduleProgramDag(prog) = Identity(prog)
=============================================================================
