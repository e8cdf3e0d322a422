------------------------- MODULE DatasetBuild_proofs -------------------------
(***************************************************************************)
(* What becomes of superscalar programs, for every program, list of         *)
(* programs and range of items.                                             *)
(*                                                                          *)
(* The loops of the code are recursive functions, so first: a function      *)
(* defined by a step from n - 1 to n exists, and unfolds.  Then the code of *)
(* one program: the order it is emitted in is made of blocks that compute   *)
(* what the program's own order does.  Then the items: every way of         *)
(* deriving them gives those of the programs as drawn.                      *)
(***************************************************************************)
EXTENDS DatasetBuild, WellFoundedInduction, TLAPS

(* Induction over the naturals, the predicate given as a set.               *)
LEMMA SetInduction ==
  ASSUME NEW S, 0 \in S, \A n \in Nat : n \in S => n + 1 \in S
  PROVE  \A n \in Nat : n \in S
<1> DEFINE R == OpToRel(<, Nat)
           T == Nat \ S
<1>1. IsWellFoundedOn(R, Nat)
  BY Zenon, NatLessThanWellFounded
<1>2. \A x, y \in Nat : x < y => <<x, y>> \in R
  BY Zenon DEF OpToRel
<1> HIDE DEF R
<1>3. SUFFICES ASSUME T # {} PROVE FALSE
  BY Zenon
<1>4. PICK x \in T : \A y \in T : ~(<<y, x>> \in R)
  <2> HIDE DEF T
  <2>1. T \subseteq Nat
    BY Zenon DEF T
  <2> QED
    BY Zenon, <1>1, <1>3, <2>1, WFMin
<1>5. x \in Nat \ {0} /\ x - 1 \in Nat /\ x - 1 < x
  BY <1>4
<1>6. x - 1 \in S
  BY Zenon, <1>2, <1>4, <1>5
<1> QED
  BY <1>4, <1>5, <1>6

(* Every nonempty set of natural numbers has a least element.                *)
LEMMA Least ==
  ASSUME NEW T, T \subseteq Nat, T # {}
  PROVE  \E m \in T : \A k \in T : m <= k
<1> DEFINE R == OpToRel(<, Nat)
<1>1. IsWellFoundedOn(R, Nat)
  BY Zenon, NatLessThanWellFounded
<1>2. \A x, y \in Nat : x < y => <<x, y>> \in R
  BY Zenon DEF OpToRel
<1> HIDE DEF R
<1>3. PICK x \in T : \A y \in T : ~(<<y, x>> \in R)
  BY Zenon, <1>1, WFMin
<1>4. ASSUME NEW y \in T PROVE x <= y
  <2>1. x \in Nat /\ y \in Nat
    BY Zenon
  <2>2. ~(y < x)
    BY Zenon, <1>2, <1>3, <2>1
  <2> QED
    BY <2>1, <2>2
<1> QED
  BY Zenon, <1>3, <1>4

(* One step of each of the recursions: the chains of operations, the pre-pass,
   the interpreter, the scheduler's loop, the emission; the reciprocals of all
   programs, an item, a pair of items, the two streams through a program and
   through all of them.                                                      *)
Step(name, a, n, v) ==
  CASE name = "lat" -> LET i == a[n]
                           one == v[i.dst] + 1
                           other == IF i.src = i.dst THEN 0 ELSE v[i.src] + 1
                       IN [v EXCEPT ![i.dst] = IF one > other THEN one ELSE other]
    [] name = "push" -> IF IsRcp(a[n]) THEN Append(v, a[n].imm) ELSE v
    [] name = "run" -> Apply(v, a[n], a[n].imm)
    [] name = "loop" -> IF v.i > Len(a) THEN v
                        ELSE IF Swaps(a, v.i)
                        THEN [i |-> v.i + 3, order |-> v.order \o <<v.i, v.i + 2, v.i + 1>>]
                        ELSE [i |-> v.i + 1, order |-> Append(v.order, v.i)]
    [] name = "emit" ->
         LET i == a[1][a[2][n]] IN
         [regs |-> Apply(v.regs, i, IF IsRcp(i) THEN a[3][v.used + 1] ELSE i.imm),
          used |-> v.used + IF IsRcp(i) THEN 1 ELSE 0]
    [] name = "cache" -> Reciprocals(a[n], v)[Len(a[n])]
    [] name = "item" ->
         LET rl == Mixed(execute_superscalar(v.rl, a[n]), v.value)
         IN [rl |-> rl, value |-> rl[AddressRegister(a[n])]]
    [] name = "pair" ->
         LET vr == [lane \in 1..2 |->
                      Mixed(execute_superscalar(v.vr[lane], Resolved(a[n])), v.values[lane])]
         IN [vr |-> vr, values |-> RegisterValues(vr, AddressRegister(a[n]))]
    [] name = "round" ->
         LET i == a[1][a[2][n]]
         IN emitSuperscalarInstr(emitSuperscalarInstr(v, i, "A", a[3]), i, "B", a[3])
    [] name = "two" ->
         LET file == TwoWayRound(Loaded(v.rl), a[n])
             rl == [c \in Streams |->
                      Mixed([q \in SsRegs |-> file[Physical(c, q)]], v.value[c])]
         IN [rl |-> rl, value |-> [c \in Streams |-> rl[c][AddressRegister(a[n])]]]

Solves(f, name, a, first, last) ==
  f = [n \in 0..last |-> IF n = 0 THEN first ELSE Step(name, a, n, f[n - 1])]

(* Each recursion has a solution.                                            *)
LEMMA Recursion ==
  ASSUME NEW name, NEW a, NEW first, NEW last \in Nat
  PROVE  \E f : Solves(f, name, a, first, last)
<1> USE DEF Solves
<1> DEFINE Is(f, k) == Solves(f, name, a, first, k)
           S == {k \in Nat : \E f : Is(f, k)}
<1>1. 0 \in S
  <2> DEFINE f == [n \in 0..0 |-> first]
  <2>1. Is(f, 0)
    OBVIOUS
  <2> QED
    BY Zenon, <2>1
<1>2. ASSUME NEW k \in Nat, k \in S PROVE k + 1 \in S
  <2>1. PICK f : Is(f, k)
    BY Zenon, <1>2
  <2> DEFINE h == [n \in 0..(k + 1) |-> IF n = k + 1 THEN Step(name, a, k + 1, f[k]) ELSE f[n]]
  <2>2. \A n \in 0..k : h[n] = f[n]
    OBVIOUS
  <2>3. ASSUME NEW n \in 0..(k + 1)
        PROVE  h[n] = IF n = 0 THEN first ELSE Step(name, a, n, h[n - 1])
    <3>1. CASE n = k + 1
      BY <2>2, <3>1
    <3>2. CASE n # k + 1
      <4>1. n \in 0..k /\ (n # 0 => n - 1 \in 0..k)
        BY <3>2
      <4>2. f[n] = IF n = 0 THEN first ELSE Step(name, a, n, f[n - 1])
        BY Zenon, <2>1, <4>1
      <4> QED
        BY Zenon, <2>2, <4>1, <4>2
    <3> QED
      BY Zenon, <3>1, <3>2
  <2>4. h = [n \in 0..(k + 1) |-> h[n]]
    BY Zenon
  <2> HIDE DEF h
  <2>5. Is(h, k + 1)
    BY Zenon, <2>3, <2>4
  <2>6. k + 1 \in Nat
    OBVIOUS
  <2> QED
    BY Zenon, <2>5, <2>6
<1> HIDE DEF S
<1>3. last \in S
  BY Zenon, <1>1, <1>2, SetInduction
<1> QED
  BY Zenon, <1>3 DEF S

(* execute_superscalar() applies the instructions one after the other.       *)
LEMMA Runs ==
  ASSUME NEW rl, NEW Any, NEW p \in Seq(Any)
  PROVE  \E r : /\ r[0] = rl /\ \A n \in 1..Len(p) : r[n] = Apply(r[n - 1], p[n], p[n].imm)
                /\ execute_superscalar(rl, p) = r[Len(p)]
<1> DEFINE Is(f) == f = [n \in 0..Len(p) |-> IF n = 0 THEN rl ELSE Apply(f[n - 1], p[n], p[n].imm)]
           r == CHOOSE f : Is(f)
<1>0. Len(p) \in Nat
  OBVIOUS
<1>1. PICK f : Solves(f, "run", p, rl, Len(p))
  BY Zenon, <1>0, Recursion
<1>2. \A n, v : Step("run", p, n, v) = Apply(v, p[n], p[n].imm)
  BY ZenonT(60) DEF Step
<1>3. Is(f)
  BY Zenon, <1>1, <1>2 DEF Solves
<1>4. Is(r)
  BY Zenon, <1>3
<1>5. execute_superscalar(rl, p) = r[Len(p)]
  BY Zenon DEF execute_superscalar
<1> HIDE DEF r
<1>6. r[0] = rl /\ \A n \in 1..Len(p) : r[n] = Apply(r[n - 1], p[n], p[n].imm)
  BY <1>4
<1> QED
  BY Zenon, <1>5, <1>6

(* The pre-pass pushes the literal of every reciprocal multiply.             *)
LEMMA Pushes ==
  ASSUME NEW before, NEW Any, NEW p \in Seq(Any)
  PROVE  /\ Reciprocals(p, before)[0] = before
         /\ \A n \in 1..Len(p) :
              Reciprocals(p, before)[n] =
                IF IsRcp(p[n]) THEN Append(Reciprocals(p, before)[n - 1], p[n].imm)
                ELSE Reciprocals(p, before)[n - 1]
<1> DEFINE Is(f) == f = [n \in 0..Len(p) |->
                           IF n = 0 THEN before
                           ELSE IF IsRcp(p[n]) THEN Append(f[n - 1], p[n].imm) ELSE f[n - 1]]
           r == CHOOSE f : Is(f)
<1>0. Len(p) \in Nat
  OBVIOUS
<1>1. PICK f : Solves(f, "push", p, before, Len(p))
  BY Zenon, <1>0, Recursion
<1>2. \A n, v : Step("push", p, n, v) = IF IsRcp(p[n]) THEN Append(v, p[n].imm) ELSE v
  BY ZenonT(60) DEF Step
<1>3. Is(f)
  BY Zenon, <1>1, <1>2 DEF Solves
<1>4. Is(r)
  BY Zenon, <1>3
<1>5. Reciprocals(p, before) = r
  BY Zenon DEF Reciprocals
<1> HIDE DEF r
<1>6. r[0] = before
  BY <1>0, <1>4
<1>7. ASSUME NEW n \in 1..Len(p)
      PROVE  r[n] = IF IsRcp(p[n]) THEN Append(r[n - 1], p[n].imm) ELSE r[n - 1]
  <2>1. n \in 0..Len(p) /\ n # 0
    BY <1>0
  <2> QED
    BY Zenon, <1>4, <2>1
<1> QED
  BY Zenon, <1>5, <1>6, <1>7

(* The pool holds every literal behind those of the instructions before it.  *)
LEMMA Pool ==
  ASSUME NEW before \in Seq(Int), NEW regs, NEW p \in Seq(Instructions(regs))
  PROVE  LET c == Reciprocals(p, before)
         IN /\ \A n \in 0..Len(p) : c[n] \in Seq(Int)
            /\ \A n \in 1..Len(p) :
                 Len(c[n]) = Len(c[n - 1]) + IF IsRcp(p[n]) THEN 1 ELSE 0
            /\ Len(before) <= Len(c[Len(p)])
            /\ \A k \in 1..Len(before) : c[Len(p)][k] = before[k]
            /\ \A n \in 1..Len(p) :
                 IsRcp(p[n]) => /\ Len(c[n - 1]) + 1 \in 1..Len(c[Len(p)])
                                /\ c[Len(p)][Len(c[n - 1]) + 1] = p[n].imm
<1> DEFINE c == Reciprocals(p, before)
           S == {m \in Nat : m <= Len(p) =>
                   /\ c[m] \in Seq(Int)
                   /\ \A n \in 0..m : /\ c[n] \in Seq(Int) /\ Len(c[n]) <= Len(c[m])
                                      /\ \A k \in 1..Len(c[n]) : c[m][k] = c[n][k]}
<1>1. /\ c[0] = before
      /\ \A n \in 1..Len(p) : c[n] = IF IsRcp(p[n]) THEN Append(c[n - 1], p[n].imm) ELSE c[n - 1]
  BY Zenon, Pushes
<1>2. \A n \in 1..Len(p) : p[n].imm \in Int
  <2>1. \A n \in 1..Len(p) : p[n] \in Instructions(regs)
    OBVIOUS
  <2> QED
    BY Zenon, <2>1 DEF Instructions
<1> HIDE DEF c
<1>3. ASSUME NEW w \in 1..Len(p), c[w - 1] \in Seq(Int)
      PROVE  /\ c[w] \in Seq(Int) /\ Len(c[w]) = Len(c[w - 1]) + IF IsRcp(p[w]) THEN 1 ELSE 0
             /\ \A k \in 1..Len(c[w - 1]) : c[w][k] = c[w - 1][k]
             /\ IsRcp(p[w]) => c[w][Len(c[w - 1]) + 1] = p[w].imm
  <2>1. c[w] = IF IsRcp(p[w]) THEN Append(c[w - 1], p[w].imm) ELSE c[w - 1]
    BY Zenon, <1>1
  <2>2. p[w].imm \in Int
    BY Zenon, <1>2
  <2>3. CASE IsRcp(p[w])
    BY <1>3, <2>1, <2>2, <2>3
  <2>4. CASE ~IsRcp(p[w])
    BY <1>3, <2>1, <2>4
  <2> QED
    BY Zenon, <2>3, <2>4
<1>4. 0 \in S
  BY <1>1
<1>5. ASSUME NEW m \in Nat, m \in S PROVE m + 1 \in S
  <2> SUFFICES ASSUME m + 1 <= Len(p)
               PROVE  /\ c[m + 1] \in Seq(Int)
                      /\ \A n \in 0..(m + 1) :
                           /\ c[n] \in Seq(Int) /\ Len(c[n]) <= Len(c[m + 1])
                           /\ \A k \in 1..Len(c[n]) : c[m + 1][k] = c[n][k]
    OBVIOUS
  <2>1. /\ m + 1 \in 1..Len(p) /\ (m + 1) - 1 = m /\ m <= Len(p)
    OBVIOUS
  <2>2. /\ c[m] \in Seq(Int)
        /\ \A n \in 0..m : /\ c[n] \in Seq(Int) /\ Len(c[n]) <= Len(c[m])
                           /\ \A k \in 1..Len(c[n]) : c[m][k] = c[n][k]
    BY Zenon, <1>5, <2>1
  <2>3. /\ c[m + 1] \in Seq(Int) /\ Len(c[m + 1]) >= Len(c[m])
        /\ \A k \in 1..Len(c[m]) : c[m + 1][k] = c[m][k]
    <3>1. PICK q \in 1..Len(p) : q = m + 1 /\ q - 1 = m
      BY Zenon, <2>1
    <3>2. c[q - 1] \in Seq(Int)
      BY Zenon, <2>2, <3>1
    <3>3. /\ c[q] \in Seq(Int) /\ Len(c[q]) = Len(c[q - 1]) + IF IsRcp(p[q]) THEN 1 ELSE 0
          /\ \A k \in 1..Len(c[q - 1]) : c[q][k] = c[q - 1][k]
      BY Zenon, <1>3, <3>2
    <3>4. Len(c[q]) >= Len(c[q - 1])
      <4>1. Len(c[q - 1]) \in Nat
        BY <3>2
      <4> QED
        <5>1. Len(c[q]) = Len(c[q - 1]) + 1 \/ Len(c[q]) = Len(c[q - 1]) + 0
          BY Zenon, <3>3
        <5> QED
          BY <4>1, <5>1
    <3> QED
      BY Zenon, <3>1, <3>3, <3>4
  <2>4. ASSUME NEW n \in 0..(m + 1)
        PROVE  /\ c[n] \in Seq(Int) /\ Len(c[n]) <= Len(c[m + 1])
               /\ \A k \in 1..Len(c[n]) : c[m + 1][k] = c[n][k]
    <3>1. CASE n = m + 1
      BY <2>3, <3>1
    <3>2. CASE n \in 0..m
      BY SMTT(30), <2>2, <2>3, <3>2
    <3> QED
      BY <3>1, <3>2
  <2> QED
    BY Zenon, <2>3, <2>4
<1>6. \A m \in Nat : m \in S
  <2> HIDE DEF S
  <2> QED BY Zenon, <1>4, <1>5, SetInduction
<1>7. /\ \A n \in 0..Len(p) : c[n] \in Seq(Int)
      /\ \A m \in 0..Len(p) : \A n \in 0..m : /\ Len(c[n]) <= Len(c[m])
                                            /\ \A k \in 1..Len(c[n]) : c[m][k] = c[n][k]
  BY <1>6
<1>8. ASSUME NEW n \in 1..Len(p)
      PROVE  /\ Len(c[n]) = Len(c[n - 1]) + IF IsRcp(p[n]) THEN 1 ELSE 0
             /\ IsRcp(p[n]) => /\ Len(c[n - 1]) + 1 \in 1..Len(c[Len(p)])
                               /\ c[Len(p)][Len(c[n - 1]) + 1] = p[n].imm
  <2>1. n - 1 \in 0..Len(p) /\ n \in 0..Len(p) /\ Len(p) \in 0..Len(p)
    OBVIOUS
  <2>2. c[n - 1] \in Seq(Int) /\ c[n] \in Seq(Int)
    BY Zenon, <1>7, <2>1
  <2>3. /\ Len(c[n]) = Len(c[n - 1]) + IF IsRcp(p[n]) THEN 1 ELSE 0
        /\ IsRcp(p[n]) => c[n][Len(c[n - 1]) + 1] = p[n].imm
    BY Zenon, <1>3, <2>2
  <2>4. /\ Len(c[n]) <= Len(c[Len(p)]) /\ \A k \in 1..Len(c[n]) : c[Len(p)][k] = c[n][k]
        /\ c[Len(p)] \in Seq(Int)
    BY Zenon, <1>7, <2>1
  <2>5. IsRcp(p[n]) => Len(c[n - 1]) + 1 \in 1..Len(c[n])
    BY <2>2, <2>3
  <2>6. ASSUME IsRcp(p[n])
        PROVE  /\ Len(c[n - 1]) + 1 \in 1..Len(c[Len(p)])
               /\ c[Len(p)][Len(c[n - 1]) + 1] = p[n].imm
    <3>1. PICK k \in 1..Len(c[n]) : k = Len(c[n - 1]) + 1
      BY Zenon, <2>5, <2>6
    <3>2. c[Len(p)][k] = c[n][k]
      BY Zenon, <2>4
    <3>3. c[n][k] = p[n].imm
      BY Zenon, <2>3, <2>6, <3>1
    <3>4. k \in 1..Len(c[Len(p)])
      BY <2>2, <2>4
    <3> QED
      BY Zenon, <3>1, <3>2, <3>3, <3>4
  <2> QED
    BY Zenon, <2>3, <2>6
<1>9. Len(before) <= Len(c[Len(p)]) /\ \A k \in 1..Len(before) : c[Len(p)][k] = before[k]
  <2>1. 0 \in 0..Len(p) /\ Len(p) \in 0..Len(p)
    OBVIOUS
  <2> QED
    BY Zenon, <1>1, <1>7, <2>1
<1> QED
  BY Zenon, <1>7, <1>8, <1>9 DEF c

-----------------------------------------------------------------------------
(* The code of a program.                                                    *)

(* An order is made of blocks: an instruction in its place, or three of which
   the last two change places.  B holds where the blocks start, and where the
   next one would.                                                           *)
InPlace(o, B, b) == b - 1 \in B /\ o[b - 1] = b - 1
Swapped(p, o, B, b) ==
  b - 3 \in B /\ Swaps(p, b - 3) /\ o[b - 3] = b - 3 /\ o[b - 2] = b - 1 /\ o[b - 1] = b - 2
Blocks(p, o, B, end) ==
  /\ B \subseteq 1..end /\ 1 \in B /\ end \in B
  /\ \A b \in B : b # 1 => InPlace(o, B, b) \/ Swapped(p, o, B, b)

(* One block more after the blocks of an order, placed or swapped, makes
   blocks again.                                                             *)
LEMMA OneMore ==
  ASSUME NEW p, NEW o, NEW B, NEW end \in Nat, Blocks(p, o, B, end), NEW u, NEW next \in Nat, next > end,
         \A n \in 1..(end - 1) : u[n] = o[n],
         InPlace(u, B, next) \/ Swapped(p, u, B, next)
  PROVE  Blocks(p, u, B \union {next}, next)
<1>1. ASSUME NEW b \in B, b # 1
      PROVE InPlace(u, B, b) \/ Swapped(p, u, B, b)
  <2>1. b \in 1..end /\ B \subseteq 1..end
    BY Zenon DEF Blocks
  <2>2. InPlace(o, B, b) \/ Swapped(p, o, B, b)
    BY Zenon, <1>1 DEF Blocks
  <2>3. CASE InPlace(o, B, b)
    BY <2>1, <2>3 DEF InPlace
  <2>4. CASE Swapped(p, o, B, b)
    <3>1. b - 3 \in 1..(end - 1) /\ b - 2 \in 1..(end - 1) /\ b - 1 \in 1..(end - 1)
      BY <2>1, <2>4 DEF Swapped
    <3> QED BY Zenon, <2>4, <3>1 DEF Swapped
  <2> QED BY Zenon, <2>2, <2>3, <2>4
<1>2. \A b \in B \union {next} : b # 1 =>
        InPlace(u, B \union {next}, b) \/ Swapped(p, u, B \union {next}, b)
  BY Zenon, <1>1 DEF InPlace, Swapped
<1>3. B \union {next} \subseteq 1..next /\ 1 \in B
  BY DEF Blocks
<1> QED BY Zenon, <1>2, <1>3 DEF Blocks

(* i and order after a turn of the scheduler's loop.                         *)
LEMMA Turns ==
  ASSUME NEW Any, NEW p \in Seq(Any)
  PROVE  \E s : /\ s[0] = [i |-> 1, order |-> <<>>]
                /\ \A k \in 1..Len(p) : s[k] = Step("loop", p, k, s[k - 1])
                /\ scheduleSuperscalarProgram(p) = s[Len(p)].order
<1> DEFINE First == [i |-> 1, order |-> <<>>]
           Body(v) == IF v.i > Len(p) THEN v
                      ELSE IF Swaps(p, v.i)
                      THEN [i |-> v.i + 3, order |-> v.order \o <<v.i, v.i + 2, v.i + 1>>]
                      ELSE [i |-> v.i + 1, order |-> Append(v.order, v.i)]
           Is(f) == f = [k \in 0..Len(p) |-> IF k = 0 THEN First ELSE Body(f[k - 1])]
           r == CHOOSE f : Is(f)
<1>0. Len(p) \in Nat
  OBVIOUS
<1>1. PICK f : Solves(f, "loop", p, First, Len(p))
  BY Zenon, <1>0, Recursion
<1>2. \A k, v : Step("loop", p, k, v) = Body(v)
  BY DEF Step
<1>5. scheduleSuperscalarProgram(p) = r[Len(p)].order
  BY Zenon DEF scheduleSuperscalarProgram
<1> HIDE DEF First, Body
<1>3. Is(f)
  BY Zenon, <1>1, <1>2 DEF Solves
<1>4. Is(r)
  BY Zenon, <1>3
<1> HIDE DEF r
<1>6. r[0] = First
  BY <1>0, <1>4
<1>7. ASSUME NEW k \in 1..Len(p) PROVE r[k] = Step("loop", p, k, r[k - 1])
  <2>1. k \in 0..Len(p) /\ k # 0
    BY <1>0
  <2> QED
    BY Zenon, <1>2, <1>4, <2>1
<1> QED
  BY Zenon, <1>5, <1>6, <1>7 DEF First

(* Where the loop stands.                                                    *)
Standing(p, s, k) ==
  /\ s.i \in 1..(Len(p) + 1) /\ (s.i >= k + 1 \/ s.i = Len(p) + 1)
  /\ s.order \in Seq(Nat) /\ Len(s.order) = s.i - 1
  /\ \E B : Blocks(p, s.order, B, s.i)

(* A turn of scheduleSuperscalarProgram()'s loop keeps the order made of
   blocks and moves on by at least one instruction.                          *)
LEMMA StandingTurn ==
  ASSUME NEW Any, NEW p \in Seq(Any), NEW k \in Nat, NEW s, Standing(p, s, k)
  PROVE  Standing(p, Step("loop", p, k + 1, s), k + 1)
<1> DEFINE i == s.i
           o == s.order
           t == Step("loop", p, k + 1, s)
<1>0. Len(p) \in Nat
  OBVIOUS
<1>1. /\ i \in 1..(Len(p) + 1) /\ (i >= k + 1 \/ i = Len(p) + 1)
      /\ o \in Seq(Nat) /\ Len(o) = i - 1
  BY Zenon DEF Standing
<1>2. PICK B : Blocks(p, o, B, i)
  BY Zenon DEF Standing
<1>3. i \in B
  BY Zenon, <1>2 DEF Blocks
<1>4. t = IF i > Len(p) THEN s
          ELSE IF Swaps(p, i)
          THEN [i |-> i + 3, order |-> o \o <<i, i + 2, i + 1>>]
          ELSE [i |-> i + 1, order |-> Append(o, i)]
  BY Zenon DEF Step
<1> HIDE DEF i, o, t
<1>5. CASE i > Len(p)
  <2>1. t = s
    BY Zenon, <1>4, <1>5
  <2>2. i >= (k + 1) + 1 \/ i = Len(p) + 1
    BY <1>0, <1>1, <1>5
  <2> QED
    BY Zenon, <1>1, <1>2, <2>1, <2>2 DEF Standing, i, o, t
<1>6. CASE i <= Len(p) /\ Swaps(p, i)
  <2> DEFINE u == o \o <<i, i + 2, i + 1>>
             j == i + 3
  <2>1. t.i = j /\ t.order = u
    <3>1. ~(i > Len(p))
      BY <1>0, <1>1, <1>6
    <3>2. t = [i |-> j, order |-> u]
      BY Zenon, <1>4, <1>6, <3>1
    <3> HIDE DEF j, u
    <3> QED
      BY Zenon, <3>2
  <2>2. i + 2 <= Len(p)
    BY Zenon, <1>6 DEF Swaps
  <2>3. /\ u \in Seq(Nat) /\ Len(u) = j - 1
        /\ \A n \in 1..(i - 1) : u[n] = o[n]
        /\ u[i] = i /\ u[i + 1] = i + 2 /\ u[i + 2] = i + 1
    <3>1. i \in Nat /\ <<i, i + 2, i + 1>> \in Seq(Nat) /\ Len(<<i, i + 2, i + 1>>) = 3
      BY <1>1
    <3>2. u \in Seq(Nat) /\ Len(u) = j - 1
      BY <1>1, <3>1
    <3>3. ASSUME NEW n \in 1..(i - 1) PROVE u[n] = o[n]
      BY <1>1, <3>1
    <3>4. u[i] = i
      BY SMTT(30), <1>1, <3>1
    <3>5. u[i + 1] = i + 2
      BY SMTT(30), <1>1, <3>1
    <3>6. u[i + 2] = i + 1
      BY <1>1, <3>1
    <3> QED
      BY Zenon, <3>2, <3>3, <3>4, <3>5, <3>6
  <2>4. j - 3 = i /\ j - 2 = i + 1 /\ j - 1 = i + 2 /\ j \in Nat /\ j > i /\ i \in Nat
    BY <1>1
  <2>5. j \in 1..(Len(p) + 1) /\ (j >= (k + 1) + 1 \/ j = Len(p) + 1)
    BY <1>0, <1>1, <1>6, <2>2
  <2> HIDE DEF u, j
  <2>6. Swapped(p, u, B, j)
    BY Zenon, <1>3, <1>6, <2>3, <2>4 DEF Swapped
  <2>7. Blocks(p, u, B \union {j}, j)
    BY Zenon, <1>2, <2>3, <2>4, <2>6, OneMore
  <2> QED
    BY Zenon, <2>1, <2>3, <2>5, <2>7 DEF Standing, t
<1>7. CASE i <= Len(p) /\ ~Swaps(p, i)
  <2> DEFINE u == Append(o, i)
             j == i + 1
  <2>1. t.i = j /\ t.order = u
    BY <1>0, <1>1, <1>4, <1>7
  <2>2. /\ u \in Seq(Nat) /\ Len(u) = j - 1
        /\ \A n \in 1..(i - 1) : u[n] = o[n]
        /\ u[i] = i
    BY <1>1
  <2>3. j - 1 = i /\ j \in Nat /\ j > i /\ i \in Nat
    BY <1>1
  <2>4. j \in 1..(Len(p) + 1) /\ (j >= (k + 1) + 1 \/ j = Len(p) + 1)
    BY <1>0, <1>1, <1>7
  <2> HIDE DEF u, j
  <2>5. InPlace(u, B, j)
    BY Zenon, <1>3, <2>2, <2>3 DEF InPlace
  <2>6. Blocks(p, u, B \union {j}, j)
    BY Zenon, <1>2, <2>2, <2>3, <2>5, OneMore
  <2> QED
    BY Zenon, <2>1, <2>2, <2>4, <2>6 DEF Standing, t
<1>8. i <= Len(p) \/ i > Len(p)
  BY <1>0, <1>1
<1> QED
  BY Zenon, <1>5, <1>6, <1>7, <1>8

(* scheduleSuperscalarProgram() permutes the instructions block by block.    *)
LEMMA ScheduledInBlocks ==
  ASSUME NEW Any, NEW p \in Seq(Any)
  PROVE  LET o == scheduleSuperscalarProgram(p)
         IN Len(o) = Len(p) /\ \E B : Blocks(p, o, B, Len(p) + 1)
<1>0. Len(p) \in Nat
  OBVIOUS
<1>1. PICK s : /\ s[0] = [i |-> 1, order |-> <<>>]
               /\ \A k \in 1..Len(p) : s[k] = Step("loop", p, k, s[k - 1])
               /\ scheduleSuperscalarProgram(p) = s[Len(p)].order
  BY Zenon, Turns
<1> DEFINE S == {k \in Nat : k <= Len(p) => Standing(p, s[k], k)}
<1>2. 0 \in S
  <2>1. Blocks(p, <<>>, {1}, 1)
    BY DEF Blocks
  <2>2. s[0].i = 1 /\ s[0].order = <<>>
    BY <1>1
  <2>3. /\ 1 \in 1..(Len(p) + 1) /\ 1 >= 0 + 1 /\ <<>> \in Seq(Nat) /\ Len(<<>>) = 1 - 1
    BY <1>0
  <2>4. Standing(p, s[0], 0)
    BY Zenon, <2>1, <2>2, <2>3 DEF Standing
  <2> QED
    BY Zenon, <2>4
<1>3. ASSUME NEW k \in Nat, k \in S PROVE k + 1 \in S
  <2>1. SUFFICES ASSUME k + 1 <= Len(p) PROVE Standing(p, s[k + 1], k + 1)
    OBVIOUS
  <2>2. Standing(p, s[k], k)
    BY <1>0, <1>3, <2>1
  <2>3. k + 1 \in 1..Len(p) /\ (k + 1) - 1 = k
    BY <1>0, <2>1
  <2>4. s[k + 1] = Step("loop", p, k + 1, s[k])
    BY Zenon, <1>1, <2>3
  <2> QED
    BY Zenon, <2>2, <2>4, StandingTurn
<1>4. Len(p) \in S
  <2> HIDE DEF S
  <2> QED BY Zenon, <1>0, <1>2, <1>3, SetInduction
<1>5. Standing(p, s[Len(p)], Len(p))
  BY <1>0, <1>4
<1> DEFINE o == s[Len(p)].order
<1>6. s[Len(p)].i = Len(p) + 1 /\ Len(o) = Len(p)
  BY <1>0, <1>5 DEF Standing
<1>7. \E B : Blocks(p, o, B, Len(p) + 1)
  BY Zenon, <1>5, <1>6 DEF Standing
<1> QED
  BY Zenon, <1>1, <1>6, <1>7

(* A register file over the registers D.                                     *)
IsFile(r, D) == r = [x \in D |-> r[x]]

(* An instruction writes its destination and leaves every other register.    *)
LEMMA Applied ==
  ASSUME NEW D, NEW r, IsFile(r, D), NEW i, i.dst \in D, NEW l
  PROVE  /\ IsFile(Apply(r, i, l), D)
         /\ Apply(r, i, l)[i.dst] = <<i.type, r[i.dst], r[i.src], l>>
         /\ \A x \in D : x # i.dst => Apply(r, i, l)[x] = r[x]
<1> DEFINE d == i.dst
           v == <<i.type, r[d], IF i.src = d THEN r[d] ELSE r[i.src], l>>
           w == [r EXCEPT ![d] = v]
<1>1. v = <<i.type, r[d], r[i.src], l>>
  BY Zenon
<1>2. Apply(r, i, l) = w
  BY Zenon DEF Apply
<1> HIDE DEF v, d
<1>3. IsFile(w, D) /\ w[d] = v /\ \A x \in D : x # d => w[x] = r[x]
  BY Zenon DEF IsFile, d
<1> QED
  BY Zenon, <1>1, <1>2, <1>3 DEF d

(* Instructions without a hazard between them commute.                       *)
LEMMA Commute ==
  ASSUME NEW regs \in Nat, NEW r, IsFile(r, 0..(regs - 1)),
         NEW i \in Instructions(regs), NEW j \in Instructions(regs), ~SsHazard(i, j),
         NEW l, NEW m
  PROVE  Apply(Apply(r, i, l), j, m) = Apply(Apply(r, j, m), i, l)
<1> DEFINE D == 0..(regs - 1)
           a == Apply(r, i, l)
           b == Apply(r, j, m)
           ab == Apply(a, j, m)
           ba == Apply(b, i, l)
<1>1. /\ i.dst \in D /\ i.src \in D /\ j.dst \in D /\ j.src \in D
      /\ i.type \in OneRegister => i.src = i.dst
      /\ j.type \in OneRegister => j.src = j.dst
      /\ i.type \in OneRegister \union TwoRegisters /\ j.type \in OneRegister \union TwoRegisters
  BY Zenon DEF Instructions
<1>2. i.dst # j.dst /\ i.dst # j.src /\ j.dst # i.src
  BY Zenon, <1>1 DEF SsHazard, SsReads
<1> HIDE DEF D, a, b, ab, ba
<1>3. /\ IsFile(a, D) /\ a[i.dst] = <<i.type, r[i.dst], r[i.src], l>>
      /\ \A x \in D : x # i.dst => a[x] = r[x]
  BY <1>1, Applied DEF a, D
<1>4. /\ IsFile(b, D) /\ b[j.dst] = <<j.type, r[j.dst], r[j.src], m>>
      /\ \A x \in D : x # j.dst => b[x] = r[x]
  BY <1>1, Applied DEF b, D
<1>5. /\ IsFile(ab, D) /\ ab[j.dst] = <<j.type, a[j.dst], a[j.src], m>>
      /\ \A x \in D : x # j.dst => ab[x] = a[x]
  BY <1>1, <1>3, Applied DEF ab
<1>6. /\ IsFile(ba, D) /\ ba[i.dst] = <<i.type, b[i.dst], b[i.src], l>>
      /\ \A x \in D : x # i.dst => ba[x] = b[x]
  BY <1>1, <1>4, Applied DEF ba
<1>7. ab[j.dst] = ba[j.dst] /\ ab[i.dst] = ba[i.dst]
  BY Zenon, <1>1, <1>2, <1>3, <1>4, <1>5, <1>6
<1>8. ASSUME NEW x \in D PROVE ab[x] = ba[x]
  BY ZenonT(60), <1>3, <1>4, <1>5, <1>6, <1>7
<1>9. ab = ba
  BY Zenon, <1>5, <1>6, <1>8 DEF IsFile
<1> QED
  BY Zenon, <1>9 DEF ab, ba, a, b

(* Every file of a run is one.                                               *)
LEMMA RunFiles ==
  ASSUME NEW regs, NEW q \in Seq(Instructions(regs)), NEW run, IsFile(run[0], 0..(regs - 1)),
         \A n \in 1..Len(q) : run[n] = Apply(run[n - 1], q[n], q[n].imm)
  PROVE  \A n \in 0..Len(q) : IsFile(run[n], 0..(regs - 1))
<1> DEFINE F == 0..(regs - 1)
           S == {n \in Nat : n <= Len(q) => IsFile(run[n], F)}
<1>0. Len(q) \in Nat
  OBVIOUS
<1>1. 0 \in S
  BY Zenon
<1>2. ASSUME NEW n \in Nat, n \in S PROVE n + 1 \in S
  <2>1. SUFFICES ASSUME n + 1 <= Len(q) PROVE IsFile(run[n + 1], F)
    OBVIOUS
  <2>2. n + 1 \in 1..Len(q) /\ (n + 1) - 1 = n /\ n <= Len(q)
    BY <1>0, <2>1
  <2>3. run[n + 1] = Apply(run[n], q[n + 1], q[n + 1].imm)
    BY Zenon, <2>2
  <2>4. q[n + 1].dst \in F
    <3>1. q[n + 1] \in Instructions(regs)
      BY <2>2
    <3> QED
      BY Zenon, <3>1 DEF Instructions
  <2>5. IsFile(run[n], F)
    BY Zenon, <1>2, <2>2
  <2> HIDE DEF F
  <2> QED
    BY <2>3, <2>4, <2>5, Applied
<1> HIDE DEF S
<1>3. \A n \in Nat : n \in S
  BY Zenon, <1>1, <1>2, SetInduction
<1> QED
  BY <1>0, <1>3 DEF S

(* The register files between the instructions of a program, run as written
   and run in another order.                                                 *)
RunsInOrder(f, q) ==
  \A n \in 1..Len(q) : f[n] = Apply(f[n - 1], q[n], q[n].imm)
RunsReordered(f, q, o) ==
  \A n \in 1..Len(q) : f[n] = Apply(f[n - 1], q[o[n]], q[o[n]].imm)

(* The swaps are safe: in either order the registers are the same at the end
   of every block.                                                           *)
LEMMA SwapsAreSafe ==
  ASSUME NEW regs \in Nat, NEW q \in Seq(Instructions(regs)), NEW o, NEW B,
         Blocks(q, o, B, Len(q) + 1),
         NEW plain, NEW moved, IsFile(plain[0], 0..(regs - 1)), moved[0] = plain[0],
         RunsInOrder(plain, q), RunsReordered(moved, q, o)
  PROVE  moved[Len(q)] = plain[Len(q)]
<1> USE DEF RunsInOrder, RunsReordered
<1> DEFINE Wrong == {b \in B : moved[b - 1] # plain[b - 1]}
<1>0. Len(q) \in Nat
  OBVIOUS
<1>1. B \subseteq 1..(Len(q) + 1) /\ Len(q) + 1 \in B
  BY Zenon DEF Blocks
<1>2. SUFFICES Wrong = {}
  BY <1>0, <1>1
<1>3. SUFFICES ASSUME Wrong # {} PROVE FALSE
  BY Zenon
<1>4. PICK b \in Wrong : \A k \in Wrong : b <= k
  <2>1. Wrong \subseteq B /\ B \subseteq Nat
    BY <1>0, <1>1
  <2> HIDE DEF Wrong
  <2> QED
    BY Zenon, <1>3, <2>1, Least
<1>5. b \in B /\ b \in 1..(Len(q) + 1) /\ moved[b - 1] # plain[b - 1] /\ b # 1
  BY <1>0, <1>1, <1>4
<1>6. InPlace(o, B, b) \/ Swapped(q, o, B, b)
  BY Zenon, <1>5 DEF Blocks
<1>7. CASE InPlace(o, B, b)
  <2>1. PICK n \in Nat : n = b - 1 /\ n \in 1..Len(q) /\ n \in B /\ o[n] = n /\ n < b
    BY <1>0, <1>1, <1>5, <1>7 DEF InPlace
  <2>2. moved[n - 1] = plain[n - 1]
    BY <1>0, <1>4, <2>1, <1>1
  <2>3. moved[n] = plain[n]
    BY Zenon, <2>1, <2>2
  <2> QED
    BY Zenon, <1>5, <2>1, <2>3
<1>8. CASE Swapped(q, o, B, b)
  <2>1. PICK n \in Nat : n = b - 3
    BY <1>0, <1>1, <1>5, <1>8 DEF Swapped
  <2>2. /\ n \in B /\ Swaps(q, n) /\ o[n] = n /\ o[n + 1] = n + 2 /\ o[n + 2] = n + 1
        /\ n < b /\ n + 2 = b - 1 /\ n \in 1..Len(q) /\ n + 1 \in 1..Len(q) /\ n + 2 \in 1..Len(q)
        /\ (n + 1) - 1 = n /\ (n + 2) - 1 = n + 1 /\ n - 1 \in 0..Len(q) /\ n \in 0..Len(q)
    <3>1. b - 2 = n + 1 /\ b - 1 = n + 2 /\ b - 3 = n
      BY <1>5, <2>1
    <3>2. n \in B /\ Swaps(q, n) /\ o[n] = n /\ o[n + 1] = n + 2 /\ o[n + 2] = n + 1
      BY Zenon, <1>8, <3>1 DEF Swapped
    <3> QED
      BY <1>0, <1>1, <1>5, <3>1, <3>2
  <2>3. moved[n - 1] = plain[n - 1]
    <3>1. ~(b <= n)
      BY <1>5, <2>2
    <3> QED
      BY ZenonT(30), <1>4, <2>2, <3>1
  <2>4. moved[n] = plain[n]
    BY ZenonT(60), <2>2, <2>3
  <2> DEFINE e == q[n + 1]
             g == q[n + 2]
             rn == plain[n]
  <2>5. plain[n + 1] = Apply(rn, e, e.imm) /\ plain[n + 2] = Apply(plain[n + 1], g, g.imm)
    BY Zenon, <2>2
  <2>6. moved[n + 1] = Apply(rn, g, g.imm) /\ moved[n + 2] = Apply(moved[n + 1], e, e.imm)
    BY ZenonT(30), <2>2, <2>4
  <2>7. e \in Instructions(regs) /\ g \in Instructions(regs) /\ IsFile(rn, 0..(regs - 1))
    BY SMTT(30), <2>2, RunFiles
  <2>8. ~SsHazard(e, g)
    BY Zenon, <2>2 DEF Swaps
  <2>9. moved[n + 2] = plain[n + 2]
    <3> HIDE DEF e, g, rn
    <3>1. Apply(Apply(rn, e, e.imm), g, g.imm) = Apply(Apply(rn, g, g.imm), e, e.imm)
      BY <2>7, <2>8, Commute
    <3> QED
      BY Zenon, <2>5, <2>6, <3>1
  <2> QED
    BY Zenon, <1>5, <2>2, <2>9
<1> QED
  BY Zenon, <1>6, <1>7, <1>8

(* The pool is used up in the order it was filled: whenever a reciprocal
   multiply is emitted, the next literal is its own.                         *)
LEMMA PoolInOrder ==
  ASSUME NEW regs, NEW q \in Seq(Instructions(regs)), NEW o, NEW B, Blocks(q, o, B, Len(q) + 1),
         NEW used, used[0] = 0,
         \A n \in 1..Len(q) : used[n] = used[n - 1] + IF IsRcp(q[o[n]]) THEN 1 ELSE 0
  PROVE  \A n \in 1..Len(q) :
           /\ o[n] \in 1..Len(q)
           /\ IsRcp(q[o[n]]) => Reciprocals(q, <<>>)[Len(q)][used[n - 1] + 1] = q[o[n]].imm
<1> DEFINE c == Reciprocals(q, <<>>)
           Right(n) == /\ o[n] \in 1..Len(q)
                       /\ IsRcp(q[o[n]]) => c[Len(q)][used[n - 1] + 1] = q[o[n]].imm
           Good(b) == used[b - 1] = Len(c[b - 1]) /\ \A n \in 1..(b - 1) : Right(n)
           Wrong == {b \in B : ~Good(b)}
<1>0. Len(q) \in Nat /\ <<>> \in Seq(Int)
  OBVIOUS
<1>1. B \subseteq 1..(Len(q) + 1) /\ Len(q) + 1 \in B
  BY Zenon DEF Blocks
<1>2. /\ \A n \in 0..Len(q) : c[n] \in Seq(Int)
      /\ \A n \in 1..Len(q) : Len(c[n]) = Len(c[n - 1]) + IF IsRcp(q[n]) THEN 1 ELSE 0
      /\ \A n \in 1..Len(q) : IsRcp(q[n]) => c[Len(q)][Len(c[n - 1]) + 1] = q[n].imm
  BY ZenonT(60), <1>0, Pool
<1>3. c[0] = <<>>
  BY Zenon, Pushes
<1> HIDE DEF c
<1>4. ASSUME NEW n \in 1..Len(q), used[n - 1] = Len(c[n - 1]), o[n] = n
      PROVE  Right(n) /\ used[n] = Len(c[n])
  <2>1. used[n] = used[n - 1] + IF IsRcp(q[n]) THEN 1 ELSE 0
    BY Zenon, <1>4
  <2>2. used[n] = Len(c[n])
    BY Zenon, <1>2, <1>4, <2>1
  <2>3. IsRcp(q[n]) => c[Len(q)][used[n - 1] + 1] = q[n].imm
    BY Zenon, <1>2, <1>4
  <2>4. Right(n)
    BY Zenon, <1>4, <2>3
  <2> QED
    BY Zenon, <2>2, <2>4
<1>5. SUFFICES Wrong = {}
  <2>1. Good(Len(q) + 1)
    BY Zenon, <1>1, <1>5
  <2>2. (Len(q) + 1) - 1 = Len(q)
    BY <1>0
  <2>3. \A n \in 1..Len(q) : Right(n)
    BY Zenon, <2>1, <2>2
  <2> QED
    BY Zenon, <2>3 DEF c
<1>6. SUFFICES ASSUME Wrong # {} PROVE FALSE
  BY Zenon
<1>7. PICK b \in Wrong : \A k \in Wrong : b <= k
  <2>1. Wrong \subseteq B /\ B \subseteq Nat
    BY <1>0, <1>1
  <2> HIDE DEF Wrong
  <2> QED
    BY Zenon, <1>6, <2>1, Least
<1>8. b \in B /\ b \in 1..(Len(q) + 1) /\ ~Good(b)
  BY Zenon, <1>0, <1>1, <1>7
<1>9. b # 1
  <2>1. ASSUME b = 1 PROVE Good(b)
    BY <1>3, <2>1
  <2> QED
    BY Zenon, <1>8, <2>1
<1>10. InPlace(o, B, b) \/ Swapped(q, o, B, b)
  BY Zenon, <1>8, <1>9 DEF Blocks
<1> HIDE DEF Right
<1>11. CASE InPlace(o, B, b)
  <2>1. PICK n \in Nat : n = b - 1 /\ n \in 1..Len(q) /\ n \in B /\ o[n] = n /\ n < b
    BY <1>0, <1>1, <1>8, <1>9, <1>11 DEF InPlace
  <2>2. Good(n)
    <3>1. ~(b <= n)
      BY <1>8, <2>1
    <3> QED
      BY Zenon, <1>7, <2>1, <3>1
  <2>3. Right(n) /\ used[n] = Len(c[n])
    BY Zenon, <1>4, <2>1, <2>2
  <2>4. \A m \in 1..n : Right(m)
    BY <2>1, <2>2, <2>3
  <2> QED
    BY Zenon, <1>8, <2>1, <2>3, <2>4
<1>12. CASE Swapped(q, o, B, b)
  <2>1. PICK n \in Nat : n = b - 3
    BY <1>0, <1>1, <1>8, <1>12 DEF Swapped
  <2>2. b - 2 = n + 1 /\ b - 1 = n + 2 /\ b - 3 = n
    BY <1>8, <2>1
  <2>3. n \in B /\ Swaps(q, n) /\ o[n] = n /\ o[n + 1] = n + 2 /\ o[n + 2] = n + 1
    BY Zenon, <1>12, <2>2 DEF Swapped
  <2>4. /\ n < b /\ n \in 1..Len(q) /\ n + 1 \in 1..Len(q) /\ n + 2 \in 1..Len(q)
        /\ (n + 1) - 1 = n /\ (n + 2) - 1 = n + 1 /\ n - 1 \in 0..Len(q) /\ n \in 0..Len(q)
    BY <1>0, <1>1, <1>8, <2>2, <2>3
  <2>5. Good(n)
    <3>1. ~(b <= n)
      BY <1>8, <2>4
    <3> QED
      BY Zenon, <1>7, <2>3, <3>1
  <2>6. Right(n) /\ used[n] = Len(c[n])
    BY Zenon, <1>4, <2>3, <2>4, <2>5
  <2>7. ~IsRcp(q[n + 1]) /\ ~IsRcp(q[n + 2])
    BY Zenon, <2>3 DEF Swaps, StaysPut
  <2>8. Right(n + 1) /\ Right(n + 2)
    BY Zenon, <2>3, <2>4, <2>7 DEF Right
  <2>9. Len(c[n + 2]) = used[n + 2]
    <3>1. used[n + 1] = used[n] + 0 /\ used[n + 2] = used[n + 1] + 0
      BY Zenon, <2>3, <2>4, <2>7
    <3>2. Len(c[n + 1]) = Len(c[n]) + 0 /\ Len(c[n + 2]) = Len(c[n + 1]) + 0
      BY Zenon, <1>2, <2>4, <2>7
    <3>3. Len(c[n]) \in Nat
      BY <1>2, <2>4
    <3> QED
      BY Zenon, <2>6, <3>1, <3>2, <3>3
  <2>10. \A m \in 1..(n + 2) : Right(m)
    <3>1. \A m \in 1..(n + 2) : m \in 1..(n - 1) \/ m = n \/ m = n + 1 \/ m = n + 2
      BY <2>4
    <3> QED
      BY Zenon, <2>5, <2>6, <2>8, <3>1
  <2> QED
    BY Zenon, <1>8, <2>2, <2>9, <2>10
<1> QED
  BY Zenon, <1>10, <1>11, <1>12

(* What the emission of a program goes through.                              *)
Emission(p) == <<p, scheduleSuperscalarProgram(p), Reciprocals(p, <<>>)[Len(p)]>>

(* What generateSuperscalarHash() goes through: one emission per slot of
   the scheduled order, each a step from the one before.                     *)
LEMMA Emits ==
  ASSUME NEW rl, NEW Any, NEW p \in Seq(Any)
  PROVE  \E r : /\ r[0] = [regs |-> rl, used |-> 0]
                /\ \A n \in 1..Len(p) : r[n] = Step("emit", Emission(p), n, r[n - 1])
                /\ generateSuperscalarHash(rl, p) = r[Len(p)].regs
<1> DEFINE order == scheduleSuperscalarProgram(p)
           pool == Reciprocals(p, <<>>)[Len(p)]
           First == [regs |-> rl, used |-> 0]
           Body(n, v) ==
             [regs |-> Apply(v.regs, p[order[n]],
                             IF IsRcp(p[order[n]]) THEN pool[v.used + 1] ELSE p[order[n]].imm),
              used |-> v.used + IF IsRcp(p[order[n]]) THEN 1 ELSE 0]
           Is(f) == f = [n \in 0..Len(p) |-> IF n = 0 THEN First ELSE Body(n, f[n - 1])]
           r == CHOOSE f : Is(f)
           a == <<p, order, pool>>
<1>0. Len(p) \in Nat
  OBVIOUS
<1>1. generateSuperscalarHash(rl, p) = r[Len(p)].regs
  BY Zenon DEF generateSuperscalarHash
<1>2. \A n, v : Step("emit", a, n, v) = Body(n, v)
  <2>1. a[1] = p /\ a[2] = order /\ a[3] = pool
    BY Zenon
  <2> HIDE DEF a, order, pool
  <2> QED
    BY <2>1 DEF Step
<1> HIDE DEF a, order, pool, First, Body
<1>3. PICK f : Solves(f, "emit", a, First, Len(p))
  BY Zenon, <1>0, Recursion
<1>4. Is(f)
  BY Zenon, <1>2, <1>3 DEF Solves
<1>5. Is(r)
  BY Zenon, <1>4
<1> HIDE DEF r
<1>6. r[0] = First
  BY <1>0, <1>5
<1>7. ASSUME NEW n \in 1..Len(p) PROVE r[n] = Step("emit", a, n, r[n - 1])
  <2>1. n \in 0..Len(p) /\ n # 0
    BY <1>0
  <2> QED
    BY Zenon, <1>2, <1>5, <2>1
<1> QED
  BY Zenon, <1>1, <1>6, <1>7 DEF a, order, pool, First, Emission

Emitting(em, q, o, rl) ==
  /\ em[0] = [regs |-> rl, used |-> 0]
  /\ \A n \in 1..Len(q) :
       em[n] = Step("emit", <<q, o, Reciprocals(q, <<>>)[Len(q)]>>, n, em[n - 1])

(* Instructions emitted block by block, each reciprocal multiply with the next
   literal of the pool, compute what the program does.                       *)
LEMMA BlocksCompute ==
  ASSUME NEW regs \in Nat, NEW q \in Seq(Instructions(regs)), NEW o, NEW B,
         Blocks(q, o, B, Len(q) + 1),
         NEW file, IsFile(file, 0..(regs - 1)), NEW em, Emitting(em, q, o, file)
  PROVE  /\ em[Len(q)].regs = execute_superscalar(file, q)
         /\ \A n \in 1..Len(q) : o[n] \in 1..Len(q)
<1> DEFINE pool == Reciprocals(q, <<>>)[Len(q)]
           a == <<q, o, pool>>
<1>0. Len(q) \in Nat
  OBVIOUS
<1>2. PICK run : /\ run[0] = file /\ \A n \in 1..Len(q) : run[n] = Apply(run[n - 1], q[n], q[n].imm)
                 /\ execute_superscalar(file, q) = run[Len(q)]
  BY Runs
<1> DEFINE rf == [n \in 0..Len(q) |-> em[n].regs]
           used == [n \in 0..Len(q) |-> em[n].used]
<1>4. ASSUME NEW n \in 1..Len(q)
      PROVE  /\ used[n] = used[n - 1] + IF IsRcp(q[o[n]]) THEN 1 ELSE 0
             /\ rf[n] = Apply(rf[n - 1], q[o[n]],
                              IF IsRcp(q[o[n]]) THEN pool[used[n - 1] + 1] ELSE q[o[n]].imm)
  <2>1. n \in 0..Len(q) /\ n - 1 \in 0..Len(q)
    BY <1>0
  <2>2. a[1] = q /\ a[2] = o /\ a[3] = pool /\ em[n] = Step("emit", a, n, em[n - 1])
    BY Zenon DEF Emitting
  <2> HIDE DEF a, pool
  <2>3. em[n] = [regs |-> Apply(em[n - 1].regs, q[o[n]],
                               IF IsRcp(q[o[n]]) THEN pool[em[n - 1].used + 1] ELSE q[o[n]].imm),
                used |-> em[n - 1].used + IF IsRcp(q[o[n]]) THEN 1 ELSE 0]
    BY Zenon, <2>2 DEF Step
  <2> QED
    BY <2>1, <2>3
<1>5. rf[0] = file /\ used[0] = 0 /\ rf[Len(q)] = em[Len(q)].regs
  BY <1>0 DEF Emitting
<1> HIDE DEF rf, used
<1>6. \A n \in 1..Len(q) :
        /\ o[n] \in 1..Len(q)
        /\ IsRcp(q[o[n]]) => pool[used[n - 1] + 1] = q[o[n]].imm
  BY SMTT(30), <1>4, <1>5, PoolInOrder
<1>7. \A n \in 1..Len(q) : rf[n] = Apply(rf[n - 1], q[o[n]], q[o[n]].imm)
  BY Zenon, <1>4, <1>6
<1>8. rf[Len(q)] = run[Len(q)]
  <2>1. IsFile(run[0], 0..(regs - 1)) /\ rf[0] = run[0]
    BY Zenon, <1>2, <1>5
  <2>2. RunsInOrder(run, q) /\ RunsReordered(rf, q, o)
    BY Zenon, <1>2, <1>7 DEF RunsInOrder, RunsReordered
  <2> QED
    BY ZenonT(60), <2>1, <2>2, SwapsAreSafe
<1> QED
  BY Zenon, <1>2, <1>5, <1>6, <1>8

(* The compiler's code for any program, however it was drawn.                *)
LEMMA EmittedIsExecuted ==
  ASSUME NEW count \in Nat, NEW p \in Seq(Instructions(count)), NEW rl, IsFile(rl, 0..(count - 1))
  PROVE  generateSuperscalarHash(rl, p) = execute_superscalar(rl, p)
<1> DEFINE order == scheduleSuperscalarProgram(p)
           a == <<p, order, Reciprocals(p, <<>>)[Len(p)]>>
<1>1. PICK r : /\ r[0] = [regs |-> rl, used |-> 0]
               /\ \A n \in 1..Len(p) : r[n] = Step("emit", a, n, r[n - 1])
               /\ generateSuperscalarHash(rl, p) = r[Len(p)].regs
  BY Zenon, Emits DEF Emission
<1>2. PICK B : Blocks(p, order, B, Len(p) + 1)
  BY Zenon, ScheduledInBlocks
<1> HIDE DEF order
<1>3. r[Len(p)].regs = execute_superscalar(rl, p)
  <2>1. Emitting(r, p, order, rl)
    BY Zenon, <1>1 DEF Emitting
  <2> QED
    BY Zenon, <1>2, <2>1, BlocksCompute
<1> QED
  BY Zenon, <1>1, <1>3

-----------------------------------------------------------------------------
(* The items.                                                                *)

(* The chains of operations of a program. *)
LEMMA Chains ==
  ASSUME NEW Any, NEW p \in Seq(Any)
  PROVE  \E s : /\ s[0] = [r \in SsRegs |-> 0]
                /\ \A n \in 1..Len(p) : s[n] = Step("lat", p, n, s[n - 1])
                /\ AsicLatencies(p) = s[Len(p)]
<1> DEFINE First == [r \in SsRegs |-> 0]
           Body(n, v) == [v EXCEPT ![p[n].dst] = IF v[p[n].dst] + 1 > (IF p[n].src = p[n].dst THEN 0 ELSE v[p[n].src] + 1) THEN v[p[n].dst] + 1 ELSE IF p[n].src = p[n].dst THEN 0 ELSE v[p[n].src] + 1]
           Is(f) == f = [n \in 0..Len(p) |-> IF n = 0 THEN First ELSE Body(n, f[n - 1])]
           r == CHOOSE f : Is(f)
<1>0. Len(p) \in Nat
  OBVIOUS
<1>1. AsicLatencies(p) = r[Len(p)]
  BY Zenon DEF AsicLatencies
<1>2. \A n, v : Step("lat", p, n, v) = Body(n, v)
  BY DEF Step
<1> HIDE DEF First, Body
<1>3. PICK f : Solves(f, "lat", p, First, Len(p))
  BY Zenon, <1>0, Recursion
<1>4. Is(f)
  BY Zenon, <1>2, <1>3 DEF Solves
<1>5. Is(r)
  BY Zenon, <1>4
<1> HIDE DEF r
<1>6. r[0] = First
  BY <1>0, <1>5
<1>7. ASSUME NEW n \in 1..Len(p) PROVE r[n] = Step("lat", p, n, r[n - 1])
  <2>1. n \in 0..Len(p) /\ n # 0
    BY <1>0
  <2> QED
    BY Zenon, <1>2, <1>5, <2>1
<1> QED
  BY Zenon, <1>1, <1>6, <1>7 DEF First

(* An item goes through the programs of a list. *)
LEMMA Items ==
  ASSUME NEW item, NEW Any, NEW list \in Seq(Any)
  PROVE  \E s : /\ s[0] = [rl |-> Seeded(item), value |-> <<"item", item>>]
                /\ \A n \in 1..Len(list) : s[n] = Step("item", list, n, s[n - 1])
                /\ ItemOf(list, item) = s[Len(list)].rl
<1> DEFINE First == [rl |-> Seeded(item), value |-> <<"item", item>>]
           Body(n, v) == LET rl == Mixed(execute_superscalar(v.rl, list[n]), v.value)
                         IN [rl |-> rl, value |-> rl[AddressRegister(list[n])]]
           Is(f) == f = [k \in 0..Len(list) |-> IF k = 0 THEN First ELSE Body(k, f[k - 1])]
           r == CHOOSE f : Is(f)
<1>0. Len(list) \in Nat
  OBVIOUS
<1>1. ItemOf(list, item) = r[Len(list)].rl
  BY Zenon DEF ItemOf
<1>2. \A n, v : Step("item", list, n, v) = Body(n, v)
  BY DEF Step
<1> HIDE DEF First, Body
<1>3. PICK f : Solves(f, "item", list, First, Len(list))
  BY Zenon, <1>0, Recursion
<1>4. Is(f)
  BY Zenon, <1>2, <1>3 DEF Solves
<1>5. Is(r)
  BY Zenon, <1>4
<1> HIDE DEF r
<1>6. r[0] = First
  BY <1>0, <1>5
<1>7. ASSUME NEW n \in 1..Len(list) PROVE r[n] = Step("item", list, n, r[n - 1])
  <2>1. n \in 0..Len(list) /\ n # 0
    BY <1>0
  <2> QED
    BY Zenon, <1>2, <1>5, <2>1
<1> QED
  BY Zenon, <1>1, <1>6, <1>7 DEF First

(* Two items on the lanes. *)
LEMMA Pairs ==
  ASSUME NEW item0, NEW Any, programs \in Seq(Any)
  PROVE  \E s : /\ s[0] = [vr |-> <<Seeded(item0), Seeded(item0 + 1)>>,
                         values |-> <<<<"item", item0>>, <<"item", item0 + 1>>>>]
                /\ \A n \in 1..Len(programs) : s[n] = Step("pair", programs, n, s[n - 1])
                /\ NeonPair(item0) = s[Len(programs)].vr
<1> DEFINE First == [vr |-> <<Seeded(item0), Seeded(item0 + 1)>>,
                         values |-> <<<<"item", item0>>, <<"item", item0 + 1>>>>]
           Body(n, v) == LET vr == [lane \in 1..2 |->
                                     Mixed(execute_superscalar(v.vr[lane], Resolved(programs[n])),
                                           v.values[lane])]
                         IN [vr |-> vr, values |-> RegisterValues(vr, AddressRegister(programs[n]))]
           Is(f) == f = [k \in 0..Len(programs) |-> IF k = 0 THEN First ELSE Body(k, f[k - 1])]
           r == CHOOSE f : Is(f)
<1>0. Len(programs) \in Nat
  OBVIOUS
<1>1. NeonPair(item0) = r[Len(programs)].vr
  BY Zenon DEF NeonPair
<1>2. \A n, v : Step("pair", programs, n, v) = Body(n, v)
  BY DEF Step
<1> HIDE DEF First, Body
<1>3. PICK f : Solves(f, "pair", programs, First, Len(programs))
  BY Zenon, <1>0, Recursion
<1>4. Is(f)
  BY Zenon, <1>2, <1>3 DEF Solves
<1>5. Is(r)
  BY Zenon, <1>4
<1> HIDE DEF r
<1>6. r[0] = First
  BY <1>0, <1>5
<1>7. ASSUME NEW n \in 1..Len(programs) PROVE r[n] = Step("pair", programs, n, r[n - 1])
  <2>1. n \in 0..Len(programs) /\ n # 0
    BY <1>0
  <2> QED
    BY Zenon, <1>2, <1>5, <2>1
<1> QED
  BY Zenon, <1>1, <1>6, <1>7 DEF First

(* Two streams through the programs. *)
LEMMA TwoStreams ==
  ASSUME NEW itemA, NEW itemB, NEW Any, programs \in Seq(Any)
  PROVE  \E s : /\ s[0] = [rl |-> [A |-> Seeded(itemA), B |-> Seeded(itemB)],
                         value |-> [A |-> <<"item", itemA>>, B |-> <<"item", itemB>>]]
                /\ \A n \in 1..Len(programs) : s[n] = Step("two", programs, n, s[n - 1])
                /\ TwoWay(itemA, itemB) = s[Len(programs)].rl
<1> DEFINE First == [rl |-> [A |-> Seeded(itemA), B |-> Seeded(itemB)],
                         value |-> [A |-> <<"item", itemA>>, B |-> <<"item", itemB>>]]
           Body(n, v) == LET file == TwoWayRound(Loaded(v.rl), programs[n])
                             rl == [c \in Streams |->
                                      Mixed([q \in SsRegs |-> file[Physical(c, q)]], v.value[c])]
                         IN [rl |-> rl,
                             value |-> [c \in Streams |-> rl[c][AddressRegister(programs[n])]]]
           Is(f) == f = [k \in 0..Len(programs) |-> IF k = 0 THEN First ELSE Body(k, f[k - 1])]
           r == CHOOSE f : Is(f)
<1>0. Len(programs) \in Nat
  OBVIOUS
<1>1. TwoWay(itemA, itemB) = r[Len(programs)].rl
  BY Zenon DEF TwoWay
<1>2. \A n, v : Step("two", programs, n, v) = Body(n, v)
  BY DEF Step
<1> HIDE DEF First, Body
<1>3. PICK f : Solves(f, "two", programs, First, Len(programs))
  BY Zenon, <1>0, Recursion
<1>4. Is(f)
  BY Zenon, <1>2, <1>3 DEF Solves
<1>5. Is(r)
  BY Zenon, <1>4
<1> HIDE DEF r
<1>6. r[0] = First
  BY <1>0, <1>5
<1>7. ASSUME NEW n \in 1..Len(programs) PROVE r[n] = Step("two", programs, n, r[n - 1])
  <2>1. n \in 0..Len(programs) /\ n # 0
    BY <1>0
  <2> QED
    BY Zenon, <1>2, <1>5, <2>1
<1> QED
  BY Zenon, <1>1, <1>6, <1>7 DEF First

(* The reciprocals of one program after the other. *)
LEMMA Draws ==
  ASSUME NEW Any, NEW list \in Seq(Any), DrawPrograms(list)
  PROVE  \E s : /\ s[0] = <<>>
                /\ \A n \in 1..Len(list) : s[n] = Step("cache", list, n, s[n - 1])
                /\ programs' = [k \in DOMAIN list |-> setImm32(list[k], s[k - 1])]
                /\ reciprocal_cache' = s[Len(list)]
<1> DEFINE First == <<>>
           Body(n, v) == Reciprocals(list[n], v)[Len(list[n])]
           Is(f) == f = [k \in 0..Len(list) |-> IF k = 0 THEN First ELSE Body(k, f[k - 1])]
           r == CHOOSE f : Is(f)
<1>0. Len(list) \in Nat
  OBVIOUS
<1>1. programs' = [k \in DOMAIN list |-> setImm32(list[k], r[k - 1])]
                /\ reciprocal_cache' = r[Len(list)]
  BY Zenon DEF DrawPrograms
<1>2. \A n, v : Step("cache", list, n, v) = Body(n, v)
  BY ZenonT(60) DEF Step
<1> HIDE DEF First, Body
<1>3. PICK f : Solves(f, "cache", list, First, Len(list))
  BY Zenon, <1>0, Recursion
<1>4. Is(f)
  BY Zenon, <1>2, <1>3 DEF Solves
<1>5. Is(r)
  BY Zenon, <1>4
<1> HIDE DEF r
<1>6. r[0] = First
  BY <1>0, <1>5
<1>7. ASSUME NEW n \in 1..Len(list) PROVE r[n] = Step("cache", list, n, r[n - 1])
  <2>1. n \in 0..Len(list) /\ n # 0
    BY <1>0
  <2> QED
    BY Zenon, <1>2, <1>5, <2>1
<1> QED
  BY Zenon, <1>1, <1>6, <1>7 DEF First

(* What a round of the two streams goes through.                             *)
RoundOf(p) == <<p, scheduleSuperscalarProgram(p), Reciprocals(Resolved(p), <<>>)[Len(p)]>>

(* What a round of the two streams goes through: each slot's instruction
   emitted for both streams, a step from the slot before.                    *)
LEMMA Rounds ==
  ASSUME NEW file, NEW Any, NEW p \in Seq(Any)
  PROVE  \E s : /\ s[0] = [file |-> file, used |-> [stream \in Streams |-> 0]]
                /\ \A n \in 1..Len(p) : s[n] = Step("round", RoundOf(p), n, s[n - 1])
                /\ TwoWayRound(file, p) = s[Len(p)].file
<1> DEFINE order == scheduleSuperscalarProgram(p)
           pool == Reciprocals(Resolved(p), <<>>)[Len(p)]
           First == [file |-> file, used |-> [stream \in Streams |-> 0]]
           Body(n, v) ==
             emitSuperscalarInstr(emitSuperscalarInstr(v, p[order[n]], "A", pool), p[order[n]], "B",
                                  pool)
           Is(f) == f = [n \in 0..Len(order) |-> IF n = 0 THEN First ELSE Body(n, f[n - 1])]
           r == CHOOSE f : Is(f)
           a == RoundOf(p)
<1>0. Len(p) \in Nat /\ Len(order) = Len(p)
  BY ScheduledInBlocks
<1>1. TwoWayRound(file, p) = r[Len(order)].file
  BY Zenon DEF TwoWayRound
<1>2. \A n, v : Step("round", a, n, v) = Body(n, v)
  <2>1. a[1] = p /\ a[2] = order /\ a[3] = pool
    BY Zenon DEF RoundOf
  <2> HIDE DEF a, order, pool
  <2> QED
    BY <2>1 DEF Step
<1> HIDE DEF a, order, pool, First, Body
<1>3. PICK f : Solves(f, "round", a, First, Len(order))
  BY Zenon, <1>0, Recursion
<1>4. Is(f)
  BY Zenon, <1>2, <1>3 DEF Solves
<1>5. Is(r)
  BY Zenon, <1>4
<1> HIDE DEF r
<1>6. r[0] = First
  BY <1>0, <1>5
<1>7. ASSUME NEW n \in 1..Len(p) PROVE r[n] = Step("round", a, n, r[n - 1])
  <2>1. n \in 0..Len(order) /\ n # 0
    BY <1>0
  <2> QED
    BY Zenon, <1>2, <1>5, <2>1
<1> QED
  BY Zenon, <1>0, <1>1, <1>6, <1>7 DEF a, First

(* u is a prefix of w.                                                       *)
Prefix(u, w) == Len(u) <= Len(w) /\ \A x \in 1..Len(u) : w[x] = u[x]

(* A prefix of a prefix is a prefix.                                         *)
LEMMA PrefixTrans ==
  ASSUME NEW u \in Seq(Int), NEW v \in Seq(Int), NEW w \in Seq(Int), Prefix(u, v), Prefix(v, w)
  PROVE  Prefix(u, w)
  BY DEF Prefix

(* What Resolved makes of a program with a table.                            *)
ResolvedWith(q, table) ==
  [n \in DOMAIN q |->
     [q[n] EXCEPT !.imm = IF IsRcp(q[n]) THEN table[q[n].imm + 1] ELSE q[n].imm]]

(* A function on 1..n is a sequence of length n.                             *)
LEMMA FnIsSeq ==
  ASSUME NEW n \in Nat, NEW X, NEW f \in [1..n -> X]
  PROVE  f \in Seq(X) /\ Len(f) = n
  OBVIOUS

(* A program with the indices of its reciprocals, and what the table makes of
   it again.                                                                 *)
LEMMA Restored ==
  ASSUME NEW regs, NEW p \in Seq(Instructions(regs)), NEW b \in Seq(Int), NEW table,
         Prefix(Reciprocals(p, b)[Len(p)], table)
  PROVE  /\ setImm32(p, b) \in Seq(Instructions(regs)) /\ Len(setImm32(p, b)) = Len(p)
         /\ ResolvedWith(setImm32(p, b), table) = p
<1> DEFINE c == Reciprocals(p, b)
           q == setImm32(p, b)
           L == Len(p)
<1>0. L \in Nat /\ DOMAIN p = 1..L
  OBVIOUS
<1>1. /\ \A n \in 0..L : c[n] \in Seq(Int)
      /\ \A n \in 1..L : IsRcp(p[n]) => /\ Len(c[n - 1]) + 1 \in 1..Len(c[L])
                                        /\ c[L][Len(c[n - 1]) + 1] = p[n].imm
  BY Zenon, Pool
<1>2. \A x \in 1..Len(c[L]) : table[x] = c[L][x]
  BY Zenon DEF Prefix
<1>3. q = [n \in 1..L |-> IF IsRcp(p[n]) THEN [p[n] EXCEPT !.imm = Len(c[n - 1])] ELSE p[n]]
  BY Zenon, <1>0 DEF setImm32
<1> HIDE DEF c, q, L
<1>4. ASSUME NEW n \in 1..L
      PROVE  /\ q[n] \in Instructions(regs)
             /\ [q[n] EXCEPT !.imm = IF IsRcp(q[n]) THEN table[q[n].imm + 1] ELSE q[n].imm] = p[n]
  <2>0. p[n] \in Instructions(regs) /\ n - 1 \in 0..L
    BY <1>0
  <2>1. CASE ~IsRcp(p[n])
    <3>1. q[n] = p[n]
      BY Zenon, <1>3, <2>1
    <3> QED
      BY Zenon, <2>0, <2>1, <3>1 DEF Instructions
  <2>2. CASE IsRcp(p[n])
    <3>1. q[n] = [p[n] EXCEPT !.imm = Len(c[n - 1])]
      BY Zenon, <1>3, <2>2
    <3>2. Len(c[n - 1]) \in Nat
      BY <1>1, <2>0
    <3>3. table[Len(c[n - 1]) + 1] = p[n].imm
      BY Zenon, <1>1, <1>2, <2>2
    <3> DEFINE x == Len(c[n - 1])
    <3> HIDE DEF x
    <3>4. q[n] \in Instructions(regs) /\ q[n].type = p[n].type /\ q[n].imm = x
      <4>1. q[n] = [type |-> p[n].type, src |-> p[n].src, dst |-> p[n].dst, par |-> p[n].par,
                    imm |-> x]
        BY Zenon, <2>0, <3>1 DEF Instructions, x
      <4>2. x \in Int
        BY <3>2 DEF x
      <4>3. q[n].type = p[n].type /\ q[n].src = p[n].src /\ q[n].dst = p[n].dst /\ q[n].imm = x
        BY <4>1
      <4>4. q[n] \in [type : OneRegister \union TwoRegisters, src : 0..(regs - 1),
                     dst : 0..(regs - 1), par : Int, imm : Int]
        <5>1. /\ p[n].type \in OneRegister \union TwoRegisters
              /\ p[n].src \in 0..(regs - 1) /\ p[n].dst \in 0..(regs - 1) /\ p[n].par \in Int
          BY Zenon, <2>0 DEF Instructions
        <5>2. [type |-> p[n].type, src |-> p[n].src, dst |-> p[n].dst, par |-> p[n].par, imm |-> x]
                \in [type : OneRegister \union TwoRegisters, src : 0..(regs - 1),
                     dst : 0..(regs - 1), par : Int, imm : Int]
          BY Zenon, <4>2, <5>1
        <5> QED
          BY Zenon, <4>1, <5>2
      <4>5. p[n].type \in OneRegister => p[n].src = p[n].dst
        BY Zenon, <2>0 DEF Instructions
      <4> QED
        BY Zenon, <4>3, <4>4, <4>5 DEF Instructions
    <3>5. IsRcp(q[n])
      BY Zenon, <2>2, <3>4 DEF IsRcp
    <3>6. [q[n] EXCEPT !.imm = table[x + 1]] = p[n]
      BY Zenon, <2>0, <3>1, <3>3 DEF Instructions, x
    <3> QED
      BY Zenon, <2>2, <3>4, <3>5, <3>6
  <2> QED
    BY Zenon, <2>1, <2>2
<1>5. q \in Seq(Instructions(regs)) /\ Len(q) = L /\ DOMAIN q = 1..L
  <2>1. q \in [1..L -> Instructions(regs)]
    <3>1. \A n \in 1..L : q[n] \in Instructions(regs)
      BY Zenon, <1>4
    <3>2. q = [n \in 1..L |-> q[n]]
      BY Zenon, <1>3
    <3> QED
      BY Zenon, <3>1, <3>2
  <2>2. q \in Seq(Instructions(regs)) /\ Len(q) = L
    BY Zenon, <1>0, <2>1, FnIsSeq
  <2>3. DOMAIN q = 1..L
    BY Zenon, <2>1
  <2> QED
    BY Zenon, <2>2, <2>3
<1>6. p = [n \in 1..L |-> p[n]]
  BY <1>0
<1>7. [n \in DOMAIN q |->
         [q[n] EXCEPT !.imm = IF IsRcp(q[n]) THEN table[q[n].imm + 1] ELSE q[n].imm]] = p
  BY Zenon, <1>4, <1>5, <1>6
<1> QED
  BY Zenon, <1>5, <1>7 DEF q, L, ResolvedWith

(* The table only grows.                                                     *)
Tables(s, list) ==
  s[0] = <<>> /\ \A n \in 1..Len(list) : s[n] = Step("cache", list, n, s[n - 1])

(* The table after any number of programs is a prefix of the table after
   all of them: setImm32() never renumbers a literal.                        *)
LEMMA TableGrows ==
  ASSUME NEW regs, NEW list \in Seq(Seq(Instructions(regs))), NEW s, Tables(s, list)
  PROVE  \A k \in 0..Len(list) : s[k] \in Seq(Int) /\ Prefix(s[k], s[Len(list)])
<1> DEFINE Grown(n, m) == Prefix(s[n], s[m])
           S == {m \in Nat : m <= Len(list) =>
                   s[m] \in Seq(Int) /\ \A n \in 0..m : s[n] \in Seq(Int) /\ Grown(n, m)}
<1>0. Len(list) \in Nat
  OBVIOUS
<1>1. 0 \in S
  <2>1. s[0] \in Seq(Int) /\ Grown(0, 0)
    BY DEF Prefix, Tables
  <2>2. \A n \in 0..0 : n = 0
    OBVIOUS
  <2> QED
    BY Zenon, <2>1, <2>2
<1>2. ASSUME NEW w \in Nat, w \in S PROVE w + 1 \in S
  <2>1. SUFFICES ASSUME w + 1 <= Len(list)
                 PROVE  /\ s[w + 1] \in Seq(Int)
                        /\ \A n \in 0..(w + 1) : s[n] \in Seq(Int) /\ Grown(n, w + 1)
    OBVIOUS
  <2>2. s[w] \in Seq(Int) /\ \A n \in 0..w : s[n] \in Seq(Int) /\ Grown(n, w)
    BY <1>0, <1>2, <2>1
  <2>3. w + 1 \in 1..Len(list) /\ (w + 1) - 1 = w
    BY <1>0, <2>1
  <2> DEFINE q == list[w + 1]
             c == Reciprocals(q, s[w])
             L == Len(q)
  <2>4. s[w + 1] = c[L]
    <3>1. s[w + 1] = Step("cache", list, w + 1, s[w])
      BY Zenon, <2>3 DEF Tables
    <3> QED
      BY Zenon, <3>1 DEF Step
  <2>5. q \in Seq(Instructions(regs)) /\ L \in Nat
    BY <2>3
  <2>6. c[L] \in Seq(Int) /\ Len(s[w]) <= Len(c[L]) /\ \A x \in 1..Len(s[w]) : c[L][x] = s[w][x]
    <3>1. L \in 0..L
      BY <2>5
    <3> HIDE DEF q
    <3> QED
      BY Zenon, <2>2, <2>5, <3>1, Pool
  <2> HIDE DEF c, L
  <2>8. s[w + 1] \in Seq(Int) /\ Grown(w, w + 1)
    BY Zenon, <2>4, <2>6 DEF Prefix
  <2>9. ASSUME NEW n \in 0..(w + 1) PROVE s[n] \in Seq(Int) /\ Grown(n, w + 1)
    <3>1. CASE n = w + 1
      BY <2>8, <3>1 DEF Prefix
    <3>2. CASE n \in 0..w
      <4>1. s[n] \in Seq(Int) /\ Grown(n, w)
        BY Zenon, <2>2, <3>2
      <4> QED
        BY Zenon, <2>2, <2>8, <4>1, PrefixTrans
    <3> QED
      BY <3>1, <3>2
  <2> QED
    BY Zenon, <2>8, <2>9
<1>3. \A m \in Nat : m \in S
  <2> HIDE DEF S
  <2> QED
    BY Zenon, <1>1, <1>2, SetInduction
<1>4. Len(list) \in S
  BY Zenon, <1>0, <1>3
<1> QED
  BY <1>0, <1>4

(* The programs of the cache are those drawn, up to the literals the table
   holds.                                                                    *)
Prepared ==
  /\ drawn \in Seq(Seq(Instructions(machine.regs)))
  /\ programs \in Seq(Seq(Instructions(machine.regs))) /\ Len(programs) = Len(drawn)
  /\ \A k \in 1..Len(drawn) :
       Len(programs[k]) = Len(drawn[k]) /\ Resolved(programs[k]) = drawn[k]

(* Drawing the programs of the cache leaves them as drawn, once the indices
   into the table are read back as literals.                                 *)
LEMMA DrawPrepares ==
  ASSUME machine \in Machines, machine' = machine,
         NEW list \in ProgramLists, DrawPrograms(list)
  PROVE  Prepared'
<1> DEFINE regs == machine.regs
<1>1. list \in Seq(Seq(Instructions(regs))) /\ Len(list) \in Nat /\ DOMAIN list = 1..Len(list)
  BY ProgramsAssumption
<1> HIDE DEF regs
<1>2. PICK s : /\ Tables(s, list)
               /\ programs' = [k \in DOMAIN list |-> setImm32(list[k], s[k - 1])]
               /\ reciprocal_cache' = s[Len(list)]
  BY Zenon, <1>1, Draws DEF Tables
<1>3. \A k \in 0..Len(list) : s[k] \in Seq(Int) /\ Prefix(s[k], s[Len(list)])
  BY Zenon, <1>1, <1>2, TableGrows
<1>4. ASSUME NEW k \in 1..Len(list)
      PROVE  /\ programs'[k] \in Seq(Instructions(regs)) /\ Len(programs'[k]) = Len(list[k])
             /\ ResolvedWith(programs'[k], reciprocal_cache') = list[k]
  <2> DEFINE prog == list[k]
             old == s[k - 1]
             new == setImm32(prog, old)
  <2>1. programs'[k] = new
    BY Zenon, <1>1, <1>2
  <2>2. k - 1 \in 0..Len(list) /\ k \in 0..Len(list)
    BY <1>1
  <2>3. prog \in Seq(Instructions(regs)) /\ old \in Seq(Int)
    BY <1>1, <1>3, <2>2
  <2>4. Reciprocals(prog, old)[Len(prog)] = s[k]
    <3>1. s[k] = Step("cache", list, k, old)
      BY Zenon, <1>2 DEF Tables
    <3> QED
      BY Zenon, <3>1 DEF Step
  <2>5. Prefix(Reciprocals(prog, old)[Len(prog)], reciprocal_cache')
    BY Zenon, <1>2, <1>3, <2>2, <2>4
  <2> HIDE DEF prog, old
  <2>6. /\ new \in Seq(Instructions(regs)) /\ Len(new) = Len(prog)
        /\ ResolvedWith(new, reciprocal_cache') = prog
    BY Zenon, <2>3, <2>5, Restored
  <2> QED
    BY Zenon, <2>1, <2>6 DEF prog
<1>5. drawn' = list
  BY Zenon DEF DrawPrograms
<1>6. programs' \in Seq(Seq(Instructions(regs))) /\ Len(programs') = Len(list)
  <2>1. \A k \in 1..Len(list) : programs'[k] \in Seq(Instructions(regs))
    BY Zenon, <1>4
  <2>2. programs' = [k \in 1..Len(list) |-> programs'[k]]
    BY Zenon, <1>1, <1>2
  <2>3. programs' \in [1..Len(list) -> Seq(Instructions(regs))]
    BY Zenon, <2>1, <2>2
  <2> QED
    BY Zenon, <1>1, <2>3, FnIsSeq
<1>7. \A k \in 1..Len(list) : Len(programs'[k]) = Len(list[k]) /\ Resolved(programs[k])' = list[k]
  BY Zenon, <1>4 DEF Resolved, Cached, ResolvedWith
<1> QED
  BY Zenon, <1>1, <1>5, <1>6, <1>7 DEF Prepared, regs

(* What Prepared says of one instruction.                                    *)
LEMMA Alike ==
  ASSUME Prepared, NEW k \in 1..Len(drawn), NEW n \in 1..Len(drawn[k])
  PROVE  LET i == programs[k][n]
             j == drawn[k][n]
         IN /\ i \in Instructions(machine.regs) /\ j \in Instructions(machine.regs)
            /\ i.type = j.type /\ i.src = j.src /\ i.dst = j.dst /\ IsRcp(i) = IsRcp(j)
            /\ ~IsRcp(j) => i.imm = j.imm
<1> DEFINE p == programs[k]
           q == drawn[k]
<1>1. /\ p \in Seq(Instructions(machine.regs)) /\ q \in Seq(Instructions(machine.regs))
      /\ Len(p) = Len(q) /\ Resolved(p) = q
  BY DEF Prepared
<1> HIDE DEF p, q
<1>2. n \in DOMAIN p /\ n \in 1..Len(p) /\ n \in 1..Len(q)
  BY <1>1 DEF q
<1>3. p[n] \in Instructions(machine.regs) /\ q[n] \in Instructions(machine.regs)
  BY <1>1, <1>2
<1>4. q[n] = [p[n] EXCEPT !.imm = Cached(p[n])]
  BY Zenon, <1>1, <1>2 DEF Resolved
<1> DEFINE x == Cached(p[n])
<1> HIDE DEF x
<1>5. q[n] = [p[n] EXCEPT !.imm = x]
  BY Zenon, <1>4 DEF x
<1>6. p[n].type = q[n].type /\ p[n].src = q[n].src /\ p[n].dst = q[n].dst /\ q[n].imm = x
  BY Zenon, <1>3, <1>5 DEF Instructions
<1>7. IsRcp(p[n]) = IsRcp(q[n])
  BY Zenon, <1>6 DEF IsRcp
<1>8. ~IsRcp(q[n]) => p[n].imm = q[n].imm
  BY Zenon, <1>6, <1>7 DEF x, Cached
<1> QED
  BY Zenon, <1>3, <1>6, <1>7, <1>8 DEF p, q

(* The register that selects a line depends on the registers of the
   instructions alone.                                                       *)
LEMMA SameChains ==
  ASSUME NEW Any, NEW p \in Seq(Any), NEW q \in Seq(Any), Len(p) = Len(q),
         \A n \in 1..Len(q) : p[n].src = q[n].src /\ p[n].dst = q[n].dst
  PROVE  AsicLatencies(p) = AsicLatencies(q)
<1>0. Len(q) \in Nat /\ Len(p) = Len(q)
  OBVIOUS
<1>1. PICK s : /\ s[0] = [r \in SsRegs |-> 0]
               /\ \A n \in 1..Len(p) : s[n] = Step("lat", p, n, s[n - 1])
               /\ AsicLatencies(p) = s[Len(p)]
  BY Zenon, Chains
<1>2. PICK t : /\ t[0] = [r \in SsRegs |-> 0]
               /\ \A n \in 1..Len(q) : t[n] = Step("lat", q, n, t[n - 1])
               /\ AsicLatencies(q) = t[Len(q)]
  BY Zenon, Chains
<1>3. ASSUME NEW n \in 1..Len(q), NEW v PROVE Step("lat", p, n, v) = Step("lat", q, n, v)
  BY Zenon DEF Step
<1> DEFINE S == {n \in Nat : n <= Len(q) => s[n] = t[n]}
<1>4. 0 \in S
  BY Zenon, <1>1, <1>2
<1>5. ASSUME NEW n \in Nat, n \in S PROVE n + 1 \in S
  <2>1. SUFFICES ASSUME n + 1 <= Len(q) PROVE s[n + 1] = t[n + 1]
    OBVIOUS
  <2>2. n + 1 \in 1..Len(q) /\ (n + 1) - 1 = n /\ n <= Len(q)
    BY <1>0, <2>1
  <2>3. s[n] = t[n]
    BY Zenon, <1>5, <2>2
  <2>4. s[n + 1] = Step("lat", p, n + 1, s[n]) /\ t[n + 1] = Step("lat", q, n + 1, t[n])
    BY Zenon, <1>0, <1>1, <1>2, <2>2
  <2>5. Step("lat", p, n + 1, s[n]) = Step("lat", q, n + 1, s[n])
    BY Zenon, <1>3, <2>2
  <2> QED
    BY Zenon, <2>3, <2>4, <2>5
<1>6. Len(q) \in S
  <2> HIDE DEF S
  <2> QED
    BY Zenon, <1>0, <1>4, <1>5, SetInduction
<1>7. s[Len(q)] = t[Len(q)]
  BY <1>0, <1>6
<1> QED
  BY Zenon, <1>0, <1>1, <1>2, <1>7

(* Replacing literals by indices does not change which register addresses
   the cache.                                                                *)
LEMMA SameAddress ==
  ASSUME Prepared, NEW k \in 1..Len(drawn)
  PROVE  AddressRegister(programs[k]) = AddressRegister(drawn[k])
<1> DEFINE p == programs[k]
           q == drawn[k]
<1>1. /\ p \in Seq(Instructions(machine.regs)) /\ q \in Seq(Instructions(machine.regs))
      /\ Len(p) = Len(q)
  BY DEF Prepared
<1>2. \A n \in 1..Len(q) : p[n].src = q[n].src /\ p[n].dst = q[n].dst
  BY Zenon, Alike
<1> HIDE DEF p, q
<1>3. AsicLatencies(p) = AsicLatencies(q)
  BY Zenon, <1>1, <1>2, SameChains
<1>4. AddressRegister(p) = AddressRegister(q)
  BY Zenon, <1>3 DEF AddressRegister
<1> QED
  BY Zenon, <1>4 DEF p, q

(* generate_dataset_item(), with the table's literals.                       *)
LEMMA ItemAgrees ==
  ASSUME Prepared, NEW item
  PROVE  generate_dataset_item(item) = ItemOf(drawn, item)
<1> DEFINE list == [k \in DOMAIN programs |-> Resolved(programs[k])]
<1>1. DOMAIN programs = 1..Len(drawn) /\ drawn = [k \in 1..Len(drawn) |-> drawn[k]]
  BY DEF Prepared
<1>2. \A k \in 1..Len(drawn) : Resolved(programs[k]) = drawn[k]
  BY Zenon DEF Prepared
<1>3. list = drawn
  BY Zenon, <1>1, <1>2
<1> QED
  BY Zenon, <1>3 DEF generate_dataset_item

(* The lanes of a pair hold two items.                                       *)
LEMMA PairAgrees ==
  ASSUME Prepared, NEW item
  PROVE  /\ NeonPair(item)[1] = ItemOf(drawn, item)
         /\ NeonPair(item)[2] = ItemOf(drawn, item + 1)
<1> DEFINE L == Len(drawn)
<1>0. /\ L \in Nat /\ Len(programs) = L /\ drawn \in Seq(Seq(Instructions(machine.regs)))
      /\ programs \in Seq(Seq(Instructions(machine.regs)))
  BY DEF Prepared
<1>1. PICK a : /\ a[0] = [rl |-> Seeded(item), value |-> <<"item", item>>]
               /\ \A n \in 1..L : a[n] = Step("item", drawn, n, a[n - 1])
               /\ ItemOf(drawn, item) = a[L].rl
  BY Zenon, <1>0, Items
<1>2. PICK b : /\ b[0] = [rl |-> Seeded(item + 1), value |-> <<"item", item + 1>>]
               /\ \A n \in 1..L : b[n] = Step("item", drawn, n, b[n - 1])
               /\ ItemOf(drawn, item + 1) = b[L].rl
  BY Zenon, <1>0, Items
<1>3. PICK s : /\ s[0] = [vr |-> <<Seeded(item), Seeded(item + 1)>>,
                          values |-> <<<<"item", item>>, <<"item", item + 1>>>>]
               /\ \A n \in 1..L : s[n] = Step("pair", programs, n, s[n - 1])
               /\ NeonPair(item) = s[L].vr
  BY Zenon, <1>0, Pairs
<1> DEFINE Same(n) == /\ s[n].vr[1] = a[n].rl /\ s[n].vr[2] = b[n].rl
                      /\ s[n].values[1] = a[n].value /\ s[n].values[2] = b[n].value
           S == {n \in Nat : n <= L => Same(n)}
<1>4. 0 \in S
  <2>1. Same(0)
    BY <1>1, <1>2, <1>3
  <2> QED
    BY Zenon, <2>1
<1>5. ASSUME NEW n \in Nat, n \in S PROVE n + 1 \in S
  <2>1. SUFFICES ASSUME n + 1 <= L PROVE Same(n + 1)
    OBVIOUS
  <2>2. n + 1 \in 1..L /\ (n + 1) - 1 = n /\ n <= L
    BY <1>0, <2>1
  <2>3. Same(n)
    BY Zenon, <1>5, <2>2
  <2> DEFINE q == drawn[n + 1]
             p == programs[n + 1]
             at == AddressRegister(q)
             ra == Mixed(execute_superscalar(a[n].rl, q), a[n].value)
             rb == Mixed(execute_superscalar(b[n].rl, q), b[n].value)
             vr == [lane \in 1..2 |->
                      Mixed(execute_superscalar(s[n].vr[lane], q), s[n].values[lane])]
  <2>4. AddressRegister(p) = at /\ Resolved(p) = q
    BY Zenon, <2>2, SameAddress DEF Prepared
  <2>5. a[n + 1] = [rl |-> ra, value |-> ra[at]] /\ b[n + 1] = [rl |-> rb, value |-> rb[at]]
    <3>1. a[n + 1] = Step("item", drawn, n + 1, a[n]) /\ b[n + 1] = Step("item", drawn, n + 1, b[n])
      BY Zenon, <1>1, <1>2, <2>2
    <3> QED
      BY Zenon, <3>1 DEF Step
  <2>6. s[n + 1] = [vr |-> vr, values |-> <<vr[1][at], vr[2][at]>>]
    <3>1. s[n + 1] = Step("pair", programs, n + 1, s[n])
      BY Zenon, <1>3, <2>2
    <3>2. s[n + 1] = [vr |-> [lane \in 1..2 |->
                               Mixed(execute_superscalar(s[n].vr[lane], Resolved(p)),
                                     s[n].values[lane])],
                      values |-> RegisterValues([lane \in 1..2 |->
                               Mixed(execute_superscalar(s[n].vr[lane], Resolved(p)),
                                     s[n].values[lane])], AddressRegister(p))]
      BY Zenon, <3>1 DEF Step
    <3> HIDE DEF q, p, at
    <3> QED
      BY Zenon, <2>4, <3>2 DEF RegisterValues
  <2>7. vr[1] = ra /\ vr[2] = rb
    <3> HIDE DEF q
    <3> QED
      BY <2>3
  <2> HIDE DEF vr, ra, rb, at
  <2> QED
    BY <2>5, <2>6, <2>7
<1>6. L \in S
  <2> HIDE DEF S
  <2> QED
    BY Zenon, <1>0, <1>4, <1>5, SetInduction
<1>7. Same(L)
  BY <1>0, <1>6
<1> QED
  BY Zenon, <1>1, <1>2, <1>3, <1>7

(* The registers of a stream, in the file of both.                           *)
Half(file, c) == [q \in SsRegs |-> file[Physical(c, q)]]
View(s, c) == Half(s.file, c)
Both(s) == IsFile(s.file, 0..28) /\ s.used \in [Streams -> Nat]
Literal(s, i, c, pool) == IF IsRcp(i) THEN pool[s.used[c] + 1] ELSE i.imm

(* The streams share no register, and no temporary is one.                   *)
LEMMA Apart ==
  ASSUME machine \in Machines
  PROVE  /\ SsRegs \subseteq 0..7
         /\ \A c \in Streams : StreamTmp(c) \in 0..28
         /\ \A c \in Streams : \A q \in SsRegs : Physical(c, q) \in 0..28
         /\ \A c, d \in Streams : \A q \in SsRegs : Physical(c, q) # StreamTmp(d)
         /\ \A c \in Streams : \A q, r \in SsRegs : Physical(c, q) = Physical(c, r) => q = r
         /\ \A c, d \in Streams : \A q, r \in SsRegs : c # d => Physical(c, q) # Physical(d, r)
<1>1. SsRegs \subseteq 0..7
  BY MachinesAssumption DEF SsRegs
<1> QED
  BY <1>1 DEF Streams, StreamTmp, Physical

(* An instruction emitted for one stream: what it does there, and nothing in
   the other stream.                                                         *)
Emitted(t, was, ins, str, lits) ==
  /\ Both(t)
  /\ View(t, str) = Apply(View(was, str), ins, Literal(was, ins, str, lits))
  /\ t.used[str] = was.used[str] + IF IsRcp(ins) THEN 1 ELSE 0
  /\ \A d \in Streams : d # str => View(t, d) = View(was, d) /\ t.used[d] = was.used[d]

(* An instruction emitted for one stream computes what it does in that
   stream's registers, takes that stream's next literal when it is a
   reciprocal multiply, and leaves the other stream alone.                   *)
LEMMA EmitOne ==
  ASSUME machine \in Machines, NEW was, Both(was), NEW ins \in Instructions(machine.regs),
         NEW str \in Streams, NEW lits
  PROVE  Emitted(emitSuperscalarInstr(was, ins, str, lits), was, ins, str, lits)
<1> DEFINE t == emitSuperscalarInstr(was, ins, str, lits)
           tmp == StreamTmp(str)
           lit == Literal(was, ins, str, lits)
           f == IF UsesTmp(ins) THEN [was.file EXCEPT ![tmp] = lit] ELSE was.file
           dst == Physical(str, ins.dst)
           src == Physical(str, ins.src)
           val == <<ins.type, f[dst], IF ins.src = ins.dst THEN f[dst] ELSE f[src],
                    IF UsesTmp(ins) THEN f[tmp] ELSE ins.imm>>
           used == IF IsRcp(ins) THEN [was.used EXCEPT ![str] = was.used[str] + 1] ELSE was.used
<1>1. t = [file |-> [f EXCEPT ![dst] = val], used |-> used]
  BY Zenon DEF emitSuperscalarInstr, Literal
<1>2. ins.dst \in SsRegs /\ ins.src \in SsRegs
  BY Zenon DEF Instructions, SsRegs
<1>3. /\ tmp \in 0..28 /\ dst \in 0..28 /\ src \in 0..28 /\ dst # tmp /\ src # tmp
  BY Zenon, <1>2, Apart
<1>4. IsRcp(ins) => UsesTmp(ins)
  BY Zenon DEF UsesTmp
<1>5. lit = IF IsRcp(ins) THEN lits[was.used[str] + 1] ELSE ins.imm
  BY Zenon DEF Literal
<1>6. /\ IsFile(f, 0..28) /\ \A x \in 0..28 : x # tmp => f[x] = was.file[x]
      /\ UsesTmp(ins) => f[tmp] = lit
  <2> HIDE DEF lit, tmp
  <2> QED
    BY Zenon, <1>3 DEF Both, IsFile
<1>7. val = <<ins.type, was.file[dst], IF ins.src = ins.dst THEN was.file[dst] ELSE was.file[src], lit>>
  <2>1. f[dst] = was.file[dst] /\ f[src] = was.file[src]
    <3> HIDE DEF f, dst, src, tmp
    <3> QED
      BY Zenon, <1>3, <1>6
  <2>2. (IF UsesTmp(ins) THEN f[tmp] ELSE ins.imm) = lit
    <3> HIDE DEF f, tmp, lit
    <3> QED
      BY Zenon, <1>4, <1>5, <1>6
  <2> HIDE DEF f, dst, src, tmp, lit
  <2> QED
    BY Zenon, <2>1, <2>2 DEF val
<1> HIDE DEF t, tmp, lit, f, dst, src, val, used
<1>8. /\ IsFile(t.file, 0..28) /\ t.file[dst] = val /\ t.used = used
      /\ \A x \in 0..28 : x # dst /\ x # tmp => t.file[x] = was.file[x]
  <2>1. t.file = [f EXCEPT ![dst] = val] /\ t.used = used
    BY Zenon, <1>1
  <2> QED
    BY Zenon, <1>3, <1>6, <2>1 DEF IsFile
<1>9. /\ used \in [Streams -> Nat] /\ used[str] = was.used[str] + IF IsRcp(ins) THEN 1 ELSE 0
      /\ \A d \in Streams : d # str => used[d] = was.used[d]
  <2>0. was.used \in [Streams -> Nat]
    BY Zenon DEF Both
  <2>1. CASE IsRcp(ins)
    <3>1. used = [was.used EXCEPT ![str] = was.used[str] + 1]
      BY Zenon, <2>1 DEF used
    <3>2. /\ used \in [Streams -> Nat] /\ used[str] = was.used[str] + 1
          /\ \A d \in Streams : d # str => used[d] = was.used[d]
      BY <2>0, <3>1
    <3> QED
      BY Zenon, <2>1, <3>2
  <2>2. CASE ~IsRcp(ins)
    <3>1. used = was.used
      BY Zenon, <2>2 DEF used
    <3>2. was.used[str] = was.used[str] + 0
      BY <2>0
    <3> QED
      BY Zenon, <2>0, <2>2, <3>1, <3>2
  <2> QED
    BY Zenon, <2>1, <2>2
<1>10. View(t, str) = Apply(View(was, str), ins, lit)
  <2> DEFINE v == View(was, str)
             w == Apply(v, ins, lit)
  <2>1. \A q \in SsRegs : v[q] = was.file[Physical(str, q)]
    BY Zenon DEF View, Half
  <2>2. IsFile(v, SsRegs)
    BY Zenon DEF IsFile, View, Half
  <2> HIDE DEF v
  <2>3. /\ IsFile(w, SsRegs) /\ w[ins.dst] = <<ins.type, v[ins.dst], v[ins.src], lit>>
        /\ \A q \in SsRegs : q # ins.dst => w[q] = v[q]
    BY <1>2, <2>2, Applied
  <2> HIDE DEF w
  <2>4. t.file[dst] = w[ins.dst]
    <3>1. v[ins.dst] = was.file[dst] /\ v[ins.src] = was.file[src]
      BY Zenon, <1>2, <2>1 DEF dst, src
    <3>2. (IF ins.src = ins.dst THEN was.file[dst] ELSE was.file[src]) = was.file[src]
      BY Zenon DEF dst, src
    <3> QED
      BY Zenon, <1>7, <1>8, <2>3, <3>1, <3>2
  <2>5. ASSUME NEW q \in SsRegs, q # ins.dst PROVE t.file[Physical(str, q)] = w[q]
    <3>1. Physical(str, q) \in 0..28 /\ Physical(str, q) # dst /\ Physical(str, q) # tmp
      BY Zenon, <1>2, <2>5, Apart DEF dst, tmp
    <3> QED
      BY Zenon, <1>8, <2>1, <2>3, <2>5, <3>1
  <2>6. \A q \in SsRegs : t.file[Physical(str, q)] = w[q]
    BY Zenon, <2>4, <2>5 DEF dst
  <2>7. View(t, str) = w
    BY Zenon, <2>3, <2>6 DEF View, Half, IsFile
  <2> QED
    BY Zenon, <2>7 DEF w, v
<1>11. ASSUME NEW d \in Streams, d # str PROVE View(t, d) = View(was, d)
  <2>1. ASSUME NEW q \in SsRegs PROVE t.file[Physical(d, q)] = was.file[Physical(d, q)]
    <3>1. Physical(d, q) \in 0..28 /\ Physical(d, q) # dst /\ Physical(d, q) # tmp
      BY Zenon, <1>2, <1>11, Apart DEF dst, tmp
    <3> QED
      BY Zenon, <1>8, <3>1
  <2> QED
    BY Zenon, <2>1 DEF View, Half
<1> QED
  BY Zenon, <1>8, <1>9, <1>10, <1>11 DEF Emitted, Both, t, lit

(* The schedule only looks at types and registers, which resolving a program's
   literals leaves alone.                                                    *)
LEMMA SameBlocks ==
  ASSUME Prepared, NEW k \in 1..Len(drawn), NEW o, NEW B,
         Blocks(programs[k], o, B, Len(drawn[k]) + 1)
  PROVE  Blocks(drawn[k], o, B, Len(drawn[k]) + 1)
<1> DEFINE p == programs[k]
           q == drawn[k]
<1>1. /\ p \in Seq(Instructions(machine.regs)) /\ q \in Seq(Instructions(machine.regs))
      /\ Len(p) = Len(q) /\ Len(q) \in Nat
  BY SMTT(30) DEF Prepared
<1>2. \A n \in 1..Len(q) : /\ p[n].type = q[n].type /\ p[n].src = q[n].src
                           /\ p[n].dst = q[n].dst /\ IsRcp(p[n]) = IsRcp(q[n])
  BY Zenon, Alike
<1> HIDE DEF p, q
<1>3. ASSUME NEW b \in B, Swapped(p, o, B, b) PROVE Swapped(q, o, B, b)
  <2>1. /\ b - 3 \in B /\ Swaps(p, b - 3) /\ o[b - 3] = b - 3 /\ o[b - 2] = b - 1
        /\ o[b - 1] = b - 2
    BY Zenon, <1>3 DEF Swapped
  <2> DEFINE n == b - 3
  <2>2. B \subseteq 1..(Len(q) + 1)
    BY Zenon DEF Blocks, q
  <2>3. n \in 1..Len(q) /\ n + 1 \in 1..Len(q) /\ n + 2 \in 1..Len(q) /\ n + 2 <= Len(q)
    BY <1>1, <2>1, <2>2 DEF Swaps
  <2> HIDE DEF n
  <2>4. \A x, y \in 1..Len(q) : SsHazard(p[x], p[y]) = SsHazard(q[x], q[y])
    BY Zenon, <1>2 DEF SsHazard, SsReads
  <2>5. Swaps(q, n)
    BY Zenon, <1>2, <2>1, <2>3, <2>4 DEF Swaps, StaysPut, n
  <2> QED
    BY Zenon, <2>1, <2>5 DEF Swapped, n
<1> QED
  BY Zenon, <1>3 DEF Blocks, p, q

(* An instruction emitted for both streams, A and then B, computes in each
   what it does for one.                                                     *)
LEMMA EmitBoth ==
  ASSUME machine \in Machines, NEW before, Both(before), NEW instr \in Instructions(machine.regs), NEW words
  PROVE  LET t == emitSuperscalarInstr(emitSuperscalarInstr(before, instr, "A", words), instr, "B", words)
         IN /\ Both(t)
            /\ \A c \in Streams : /\ View(t, c) = Apply(View(before, c), instr, Literal(before, instr, c, words))
                                  /\ t.used[c] = before.used[c] + IF IsRcp(instr) THEN 1 ELSE 0
<1> DEFINE u == emitSuperscalarInstr(before, instr, "A", words)
           t == emitSuperscalarInstr(u, instr, "B", words)
<1>0. "A" \in Streams /\ "B" \in Streams /\ "A" # "B" /\ \A c \in Streams : c = "A" \/ c = "B"
  BY Zenon DEF Streams
<1>1. /\ Both(u) /\ View(u, "A") = Apply(View(before, "A"), instr, Literal(before, instr, "A", words))
      /\ u.used["A"] = before.used["A"] + IF IsRcp(instr) THEN 1 ELSE 0
      /\ View(u, "B") = View(before, "B") /\ u.used["B"] = before.used["B"]
  <2>1. Emitted(u, before, instr, "A", words)
    BY Zenon, <1>0, EmitOne
  <2> HIDE DEF u
  <2> QED
    BY Zenon, <1>0, <2>1 DEF Emitted
<1> HIDE DEF u
<1>2. /\ Both(t) /\ View(t, "B") = Apply(View(u, "B"), instr, Literal(u, instr, "B", words))
      /\ t.used["B"] = u.used["B"] + IF IsRcp(instr) THEN 1 ELSE 0
      /\ View(t, "A") = View(u, "A") /\ t.used["A"] = u.used["A"]
  <2>1. Emitted(t, u, instr, "B", words)
    BY Zenon, <1>0, <1>1, EmitOne
  <2> HIDE DEF t
  <2> QED
    BY Zenon, <1>0, <2>1 DEF Emitted
<1>3. Literal(u, instr, "B", words) = Literal(before, instr, "B", words)
  BY Zenon, <1>1 DEF Literal
<1> QED
  BY Zenon, <1>0, <1>1, <1>2, <1>3 DEF u

(* One round of the code for two streams is one program for each.            *)
LEMMA RoundComputes ==
  ASSUME machine \in Machines, Prepared, NEW turn \in 1..Len(drawn), NEW from, IsFile(from, 0..28),
         NEW c \in Streams
  PROVE  Half(TwoWayRound(from, programs[turn]), c) = execute_superscalar(Half(from, c), drawn[turn])
<1> DEFINE prog == programs[turn]
           res == drawn[turn]
           L == Len(res)
           ord == scheduleSuperscalarProgram(prog)
           pool == Reciprocals(res, <<>>)[L]
           a == <<res, ord, pool>>
           start == Half(from, c)
           first == [regs |-> start, used |-> 0]
<1>1. /\ prog \in Seq(Instructions(machine.regs)) /\ res \in Seq(Instructions(machine.regs))
      /\ Len(prog) = L /\ L \in Nat /\ Resolved(prog) = res
  BY DEF Prepared
<1>2. PICK s : /\ s[0] = [file |-> from, used |-> [stream \in Streams |-> 0]]
               /\ \A m \in 1..L : s[m] = Step("round", RoundOf(prog), m, s[m - 1])
               /\ TwoWayRound(from, prog) = s[L].file
  BY <1>1, Rounds
<1>3. PICK e : Solves(e, "emit", a, first, L)
  BY Zenon, <1>1, Recursion
<1>4. /\ e[0] = first /\ \A m \in 1..L : e[m] = Step("emit", a, m, e[m - 1])
  <2>1. \A m \in 1..L : m \in 0..L /\ m # 0
    BY <1>1
  <2>2. 0 \in 0..L
    BY <1>1
  <2> HIDE DEF a, first
  <2> QED
    BY Zenon, <1>3, <2>1, <2>2 DEF Solves
<1>5. PICK Bs : Blocks(res, ord, Bs, L + 1)
  <2>1. PICK Bs : Blocks(prog, ord, Bs, L + 1)
    BY Zenon, <1>1, ScheduledInBlocks
  <2> HIDE DEF ord
  <2> QED
    BY Zenon, <2>1, SameBlocks
<1>6. /\ machine.regs \in Nat /\ SsRegs = 0..(machine.regs - 1)
      /\ IsFile(start, 0..(machine.regs - 1))
  <2>1. machine.regs \in Nat /\ SsRegs = 0..(machine.regs - 1)
    BY SMTT(30), MachinesAssumption DEF SsRegs
  <2>2. IsFile(start, SsRegs)
    BY Zenon DEF IsFile, Half
  <2> QED
    BY Zenon, <2>1, <2>2
<1>7. e[L].regs = execute_superscalar(start, res) /\ \A m \in 1..L : ord[m] \in 1..L
  <2> HIDE DEF ord, start
  <2> QED
    <3>1. Emitting(e, res, ord, start)
      BY Zenon, <1>4 DEF Emitting
    <3> QED
      BY Zenon, <1>1, <1>5, <1>6, <3>1, BlocksCompute
<1> DEFINE Same(m) == /\ Both(s[m]) /\ View(s[m], c) = e[m].regs /\ s[m].used[c] = e[m].used
           S == {m \in Nat : m <= L => Same(m)}
<1>8. 0 \in S
  <2>1. s[0].file = from /\ s[0].used = [stream \in Streams |-> 0]
    BY <1>2
  <2>2. e[0].regs = start /\ e[0].used = 0
    BY <1>4
  <2>3. Both(s[0]) /\ s[0].used[c] = 0
    BY <2>1 DEF Both
  <2>4. View(s[0], c) = start
    BY Zenon, <2>1 DEF View, Half
  <2> QED
    BY Zenon, <2>2, <2>3, <2>4, 0 \in Nat
<1>9. ASSUME NEW m \in Nat, m \in S PROVE m + 1 \in S
  <2>1. SUFFICES ASSUME m + 1 <= L PROVE Same(m + 1)
    OBVIOUS
  <2>2. m + 1 \in 1..L /\ (m + 1) - 1 = m /\ m <= L
    BY <1>1, <2>1
  <2>3. Same(m)
    BY Zenon, <1>9, <2>2
  <2> DEFINE i == prog[ord[m + 1]]
             j == res[ord[m + 1]]
             t == s[m + 1]
  <2>4. /\ i \in Instructions(machine.regs)
        /\ i.type = j.type /\ i.src = j.src /\ i.dst = j.dst /\ IsRcp(i) = IsRcp(j)
        /\ ~IsRcp(j) => i.imm = j.imm
    <3>1. ord[m + 1] \in 1..L
      BY Zenon, <1>7, <2>2
    <3> HIDE DEF ord
    <3> QED
      BY Zenon, <3>1, Alike
  <2>5. t = emitSuperscalarInstr(emitSuperscalarInstr(s[m], i, "A", pool), i, "B", pool)
    <3>1. RoundOf(prog) = <<prog, ord, pool>>
      BY Zenon, <1>1 DEF RoundOf
    <3>2. t = Step("round", <<prog, ord, pool>>, m + 1, s[m])
      BY Zenon, <1>2, <2>2, <3>1
    <3> DEFINE b == <<prog, ord, pool>>
    <3>3. b[1] = prog /\ b[2] = ord /\ b[3] = pool
      BY Zenon
    <3> HIDE DEF b, prog, ord, pool
    <3>4. t = Step("round", b, m + 1, s[m])
      BY Zenon, <3>2 DEF b
    <3> QED
      BY Zenon, <3>3, <3>4 DEF Step
  <2> HIDE DEF i, j, t
  <2>6. /\ Both(t) /\ View(t, c) = Apply(View(s[m], c), i, Literal(s[m], i, c, pool))
        /\ t.used[c] = s[m].used[c] + IF IsRcp(i) THEN 1 ELSE 0
    <3> HIDE DEF pool
    <3> QED
      BY ZenonT(60), <2>3, <2>4, <2>5, EmitBoth
  <2>7. /\ e[m + 1].regs = Apply(e[m].regs, j, IF IsRcp(j) THEN pool[e[m].used + 1] ELSE j.imm)
        /\ e[m + 1].used = e[m].used + IF IsRcp(j) THEN 1 ELSE 0
    <3>1. e[m + 1] = Step("emit", a, m + 1, e[m])
      BY Zenon, <1>4, <2>2
    <3>2. a[1] = res /\ a[2] = ord /\ a[3] = pool
      BY Zenon
    <3> HIDE DEF a, ord, pool, res
    <3> QED
      BY <3>1, <3>2 DEF Step, j
  <2>8. Literal(s[m], i, c, pool) = IF IsRcp(j) THEN pool[e[m].used + 1] ELSE j.imm
    BY Zenon, <2>3, <2>4 DEF Literal
  <2>9. \A r, l : Apply(r, i, l) = Apply(r, j, l)
    BY Zenon, <2>4 DEF Apply
  <2> QED
    BY Zenon, <2>3, <2>4, <2>6, <2>7, <2>8, <2>9 DEF t
<1>10. L \in S
  <2> HIDE DEF S
  <2> QED
    BY Zenon, <1>1, <1>8, <1>9, SetInduction
<1>11. View(s[L], c) = execute_superscalar(start, res)
  <2>1. L <= L
    BY <1>1
  <2> QED
    BY Zenon, <1>7, <1>10, <2>1
<1> QED
  BY Zenon, <1>2, <1>11 DEF View, Half

(* Each stream of the two-way loop finds its registers where they were
   loaded.                                                                   *)
LEMMA LoadedViews ==
  ASSUME machine \in Machines, NEW rl, NEW str \in Streams, IsFile(rl[str], SsRegs)
  PROVE  /\ IsFile(Loaded(rl), 0..28)
         /\ Half(Loaded(rl), str) = rl[str]
<1>1. IsFile(Loaded(rl), 0..28)
  BY Zenon DEF IsFile, Loaded
<1>2. ASSUME NEW x \in SsRegs PROVE Loaded(rl)[Physical(str, x)] = rl[str][x]
  <2> DEFINE y == Physical(str, x)
  <2>1. x \in 0..7 /\ y \in 0..28 /\ \E d \in Streams, q \in SsRegs : y = Physical(d, q)
    BY Zenon, Apart
  <2>2. Loaded(rl)[y] = rl[IF y < 19 THEN "A" ELSE "B"][y % 19]
    <3> HIDE DEF y
    <3> QED
      BY Zenon, <2>1 DEF Loaded
  <2>3. (IF y < 19 THEN "A" ELSE "B") = str /\ y % 19 = x
    <3>1. CASE str = "A"
      BY <2>1, <3>1 DEF Physical
    <3>2. CASE str = "B"
      <4>1. y = 19 + x
        BY Zenon, <3>2, "A" # "B" DEF Physical
      <4>2. y % 19 = x /\ ~(y < 19)
        <5> HIDE DEF y
        <5> QED
          BY <2>1, <4>1
      <4> HIDE DEF y
      <4> QED
        BY Zenon, <3>2, <4>2
    <3> QED
      BY Zenon, <3>1, <3>2 DEF Streams
  <2>4. Loaded(rl)[y] = rl[str][x]
    <3> HIDE DEF y
    <3> QED
      BY Zenon, <2>2, <2>3
  <2> QED
    BY Zenon, <2>4
<1> QED
  BY Zenon, <1>1, <1>2 DEF IsFile, Half

(* The code for two streams gives the two items.                             *)
LEMMA TwoAgree ==
  ASSUME machine \in Machines, Prepared, NEW one, NEW other
  PROVE  TwoWay(one, other) = [A |-> ItemOf(drawn, one), B |-> ItemOf(drawn, other)]
<1> DEFINE L == Len(drawn)
<1>0. /\ L \in Nat /\ Len(programs) = L /\ drawn \in Seq(Seq(Instructions(machine.regs)))
      /\ programs \in Seq(Seq(Instructions(machine.regs)))
  BY DEF Prepared
<1>1. PICK a : /\ a[0] = [rl |-> Seeded(one), value |-> <<"item", one>>]
               /\ \A n \in 1..L : a[n] = Step("item", drawn, n, a[n - 1])
               /\ ItemOf(drawn, one) = a[L].rl
  BY Zenon, <1>0, Items
<1>2. PICK b : /\ b[0] = [rl |-> Seeded(other), value |-> <<"item", other>>]
               /\ \A n \in 1..L : b[n] = Step("item", drawn, n, b[n - 1])
               /\ ItemOf(drawn, other) = b[L].rl
  BY Zenon, <1>0, Items
<1>3. PICK s : /\ s[0] = [rl |-> [A |-> Seeded(one), B |-> Seeded(other)],
                          value |-> [A |-> <<"item", one>>, B |-> <<"item", other>>]]
               /\ \A n \in 1..L : s[n] = Step("two", programs, n, s[n - 1])
               /\ TwoWay(one, other) = s[L].rl
  <2>1. PICK s : /\ s[0] = [rl |-> [A |-> Seeded(one), B |-> Seeded(other)],
                            value |-> [A |-> <<"item", one>>, B |-> <<"item", other>>]]
                 /\ \A n \in 1..Len(programs) : s[n] = Step("two", programs, n, s[n - 1])
                 /\ TwoWay(one, other) = s[Len(programs)].rl
    BY ZenonT(60), <1>0, TwoStreams
  <2> QED
    BY Zenon, <1>0, <2>1
<1> DEFINE Same(n) == /\ s[n].rl = [A |-> a[n].rl, B |-> b[n].rl]
                      /\ s[n].value = [A |-> a[n].value, B |-> b[n].value]
                      /\ IsFile(a[n].rl, SsRegs) /\ IsFile(b[n].rl, SsRegs)
           S == {n \in Nat : n <= L => Same(n)}
<1>4. 0 \in S
  <2>1. /\ a[0].rl = Seeded(one) /\ b[0].rl = Seeded(other) /\ a[0].value = <<"item", one>>
        /\ b[0].value = <<"item", other>>
        /\ s[0].rl = [A |-> Seeded(one), B |-> Seeded(other)]
        /\ s[0].value = [A |-> <<"item", one>>, B |-> <<"item", other>>]
    BY <1>1, <1>2, <1>3
  <2>2. \A item : IsFile(Seeded(item), SsRegs)
    BY Zenon DEF IsFile, Seeded
  <2> QED
    BY Zenon, <2>1, <2>2, 0 \in Nat
<1>5. ASSUME NEW n \in Nat, n \in S PROVE n + 1 \in S
  <2>1. SUFFICES ASSUME n + 1 <= L PROVE Same(n + 1)
    OBVIOUS
  <2>2. n + 1 \in 1..L /\ (n + 1) - 1 = n /\ n <= L
    BY <1>0, <2>1
  <2>3. Same(n)
    BY Zenon, <1>5, <2>2
  <2> DEFINE q == drawn[n + 1]
             p == programs[n + 1]
             at == AddressRegister(q)
             ra == Mixed(execute_superscalar(a[n].rl, q), a[n].value)
             rb == Mixed(execute_superscalar(b[n].rl, q), b[n].value)
             file == TwoWayRound(Loaded(s[n].rl), p)
             rs == [c \in Streams |-> Mixed([x \in SsRegs |-> file[Physical(c, x)]], s[n].value[c])]
  <2>4. AddressRegister(p) = at
    BY Zenon, <2>2, SameAddress
  <2>5. a[n + 1] = [rl |-> ra, value |-> ra[at]] /\ b[n + 1] = [rl |-> rb, value |-> rb[at]]
    <3>1. a[n + 1] = Step("item", drawn, n + 1, a[n]) /\ b[n + 1] = Step("item", drawn, n + 1, b[n])
      BY Zenon, <1>1, <1>2, <2>2
    <3> QED
      BY Zenon, <3>1 DEF Step
  <2>6. s[n + 1] = [rl |-> rs, value |-> [c \in Streams |-> rs[c][at]]]
    <3>1. s[n + 1] = Step("two", programs, n + 1, s[n])
      BY Zenon, <1>3, <2>2
    <3>2. s[n + 1] = [rl |-> rs, value |-> [c \in Streams |-> rs[c][AddressRegister(p)]]]
      BY Zenon, <3>1 DEF Step
    <3> QED
      BY Zenon, <2>4, <3>2
  <2>7. "A" \in Streams /\ "B" \in Streams
    BY Zenon DEF Streams
  <2>8. /\ s[n].rl["A"] = a[n].rl /\ s[n].rl["B"] = b[n].rl
        /\ s[n].value["A"] = a[n].value /\ s[n].value["B"] = b[n].value
    BY <2>3
  <2>9. ASSUME NEW d \in Streams, IsFile(s[n].rl[d], SsRegs)
        PROVE  Half(file, d) = execute_superscalar(s[n].rl[d], q)
    <3> DEFINE both == s[n].rl
               loaded == Loaded(both)
    <3>1. IsFile(loaded, 0..28) /\ Half(loaded, d) = both[d]
      <4>1. IsFile(both[d], SsRegs)
        BY Zenon, <2>9
      <4> HIDE DEF both
      <4> QED
        BY Zenon, <4>1, LoadedViews
    <3> HIDE DEF loaded
    <3>2. Half(TwoWayRound(loaded, programs[n + 1]), d)
            = execute_superscalar(Half(loaded, d), drawn[n + 1])
      BY Zenon, <2>2, <3>1, RoundComputes
    <3> QED
      BY Zenon, <3>1, <3>2 DEF loaded
  <2>10. rs["A"] = ra /\ rs["B"] = rb
    <3> HIDE DEF file, q
    <3>1. /\ Half(file, "A") = execute_superscalar(a[n].rl, q)
          /\ Half(file, "B") = execute_superscalar(b[n].rl, q)
      BY Zenon, <2>3, <2>7, <2>8, <2>9
    <3> QED
      BY Zenon, <2>7, <2>8, <3>1 DEF Half
  <2>11. IsFile(ra, SsRegs) /\ IsFile(rb, SsRegs)
    BY Zenon DEF IsFile, Mixed
  <2>12. rs = [c \in Streams |-> rs[c]]
    BY Zenon
  <2> HIDE DEF rs, ra, rb, at
  <2>13. rs = [A |-> ra, B |-> rb] /\ [c \in Streams |-> rs[c][at]] = [A |-> ra[at], B |-> rb[at]]
    BY <2>10, <2>12 DEF Streams
  <2>14. /\ a[n + 1].rl = ra /\ a[n + 1].value = ra[at] /\ b[n + 1].rl = rb
         /\ b[n + 1].value = rb[at] /\ s[n + 1].rl = rs
         /\ s[n + 1].value = [c \in Streams |-> rs[c][at]]
    BY <2>5, <2>6
  <2> QED
    BY Zenon, <2>11, <2>13, <2>14
<1>6. L \in S
  <2> HIDE DEF S
  <2> QED
    BY Zenon, <1>0, <1>4, <1>5, SetInduction
<1>7. Same(L)
  BY <1>0, <1>6
<1> QED
  BY Zenon, <1>1, <1>2, <1>3, <1>7

(* What initialize_dataset leaves: the items of the programs as drawn.       *)
Built == output = [n \in 1..request[2] |-> ItemOf(drawn, request[1] + n - 1)]

(* What holds at each stage of the dataset's initialisation.                 *)
ItemsInv ==
  /\ machine \in Machines
  /\ dsPc \in {"items", "built"} => Prepared
  /\ dsPc = "built" => /\ request \in Nat \X Nat /\ request[1] + request[2] <= ItemCount
                       /\ Built

(* An item depends on the machine and the programs drawn alone.              *)
LEMMA SameItem ==
  ASSUME machine' = machine, drawn' = drawn, NEW item
  PROVE  ItemOf(drawn, item)' = ItemOf(drawn, item)
  BY DEF ItemOf, AddressRegister, AsicLatencies, SsRegs, Seeded, Mixed, execute_superscalar

(* The programs stay prepared while they, the table and the machine stay.    *)
LEMMA StaysPrepared ==
  ASSUME Prepared, UNCHANGED <<machine, drawn, programs, reciprocal_cache>>
  PROVE  Prepared'
  BY Zenon DEF Prepared, Resolved, Cached

(* Pairs while there are two items left, the odd one by itself: each place of
   the output has its own item.                                              *)
LEMMA Builds ==
  ASSUME machine \in Machines, machine' = machine, Prepared, NEW start \in Nat, NEW count \in Nat,
         initialize_dataset(start, count), dataset_range_is_valid(start, count)
  PROVE  Built'
<1> DEFINE Place(offset) == LET at == offset - 1
                                even == 2 * (at \div 2)
                            IN IF even + 1 < count THEN NeonPair(start + even)[at - even + 1]
                               ELSE generate_dataset_item(start + at)
<1>1. output' = [offset \in 1..count |-> Place(offset)] /\ request' = <<start, count>> /\ drawn' = drawn
  BY Zenon DEF initialize_dataset
<1>2. ASSUME NEW offset \in 1..count PROVE Place(offset) = ItemOf(drawn, start + offset - 1)
  <2> DEFINE at == offset - 1
             even == 2 * (at \div 2)
  <2>1. at \in Nat /\ even \in Nat /\ (at - even = 0 \/ at - even = 1) /\ start + at = start + offset - 1
    OBVIOUS
  <2>2. CASE ~(even + 1 < count)
    BY Zenon, <2>1, <2>2, ItemAgrees
  <2>3. CASE even + 1 < count /\ at - even = 0
    <3>1. at - even + 1 = 1 /\ start + even = start + offset - 1
      BY <2>1, <2>3
    <3>2. Place(offset) = NeonPair(start + even)[1]
      BY Zenon, <2>3, <3>1
    <3> QED
      BY Zenon, <3>1, <3>2, PairAgrees
  <2>4. CASE even + 1 < count /\ at - even = 1
    <3>1. at - even + 1 = 2 /\ start + even + 1 = start + offset - 1
      BY <2>1, <2>4
    <3>2. Place(offset) = NeonPair(start + even)[2]
      BY Zenon, <2>4, <3>1
    <3> QED
      BY Zenon, <3>1, <3>2, PairAgrees
  <2> QED
    BY Zenon, <2>1, <2>2, <2>3, <2>4
<1> HIDE DEF Place
<1>3. output' = [offset \in 1..count |-> ItemOf(drawn, start + offset - 1)]
  BY Zenon, <1>1, <1>2
<1>4. request'[1] = start /\ request'[2] = count
  BY Zenon, <1>1
<1>5. \A item : ItemOf(drawn, item)' = ItemOf(drawn, item)
  BY Zenon, <1>1, SameItem
<1> QED
  BY Zenon, <1>1, <1>3, <1>4, <1>5 DEF Built

(* The items stay built while the output, the request and the programs
   stay.                                                                     *)
LEMMA StaysBuilt ==
  ASSUME Built, UNCHANGED <<machine, drawn, output, request>>
  PROVE  Built'
<1>1. \A item : ItemOf(drawn, item)' = ItemOf(drawn, item)
  BY Zenon, SameItem
<1> QED
  BY Zenon, <1>1 DEF Built

(* Every step of the dataset's initialisation keeps the invariant.           *)
LEMMA ItemsNext ==
  ASSUME ItemsInv, [DsNext /\ UNCHANGED machine]_<<machine, dsVars>>
  PROVE  ItemsInv'
<1>0. machine' = machine /\ machine \in Machines
  BY Zenon DEF dsVars, ItemsInv
<1>2. CASE \E list \in ProgramLists : DrawPrograms(list)
  <2>1. PICK list \in ProgramLists : DrawPrograms(list)
    BY Zenon, <1>2
  <2>2. dsPc' = "items"
    BY Zenon, <2>1 DEF DrawPrograms
  <2>3. Prepared'
    BY Zenon, <1>0, <2>1, DrawPrepares
  <2> QED
    BY Zenon, <1>0, <2>2, <2>3 DEF ItemsInv
<1>3. CASE \E r \in Ranges : initialize_dataset(r[1], r[2])
  <2>1. PICK r \in Ranges : initialize_dataset(r[1], r[2])
    BY Zenon, <1>3
  <2>2. r[1] \in Nat /\ r[2] \in Nat /\ ItemCount \in Nat
    BY Zenon, RangesAssumption
  <2>3. /\ dsPc = "items" /\ UNCHANGED <<drawn, programs, reciprocal_cache>>
        /\ request' = <<r[1], r[2]>>
    BY Zenon, <2>1 DEF initialize_dataset
  <2>4. Prepared /\ Prepared'
    BY Zenon, <1>0, <2>3, StaysPrepared DEF ItemsInv
  <2>5. CASE dataset_range_is_valid(r[1], r[2])
    <3>1. Built'
      BY Zenon, <1>0, <2>1, <2>2, <2>4, <2>5, Builds
    <3>2. request' \in Nat \X Nat /\ request'[1] + request'[2] <= ItemCount
      BY <2>2, <2>3, <2>5 DEF dataset_range_is_valid
    <3> QED
      BY Zenon, <1>0, <2>4, <3>1, <3>2 DEF ItemsInv
  <2>6. CASE ~dataset_range_is_valid(r[1], r[2])
    <3>1. dsPc' = "invalid"
      BY Zenon, <2>1, <2>6 DEF initialize_dataset
    <3> QED
      BY Zenon, <1>0, <3>1 DEF ItemsInv
  <2> QED
    BY Zenon, <2>5, <2>6
<1>4. CASE UNCHANGED <<machine, dsVars>>
  <2>1. UNCHANGED <<dsPc, machine, drawn, programs, reciprocal_cache, output, request>>
    BY Zenon, <1>4 DEF dsVars
  <2>2. Prepared => Prepared'
    BY Zenon, <2>1, StaysPrepared
  <2>3. Built => Built'
    BY Zenon, <2>1, StaysBuilt
  <2> QED
    BY Zenon, <2>1, <2>2, <2>3 DEF ItemsInv
<1> QED
  BY Zenon, <1>2, <1>3, <1>4 DEF DsNext

(* Items as the drawn programs define them are the items of the reference.   *)
LEMMA ItemsAgree == ItemsInv => DatasetItemsAgree
<1>1. SUFFICES ASSUME ItemsInv, dsPc = "built" PROVE DatasetItemsAgree
  BY Zenon DEF DatasetItemsAgree
<1>2. /\ machine \in Machines /\ Prepared /\ Built /\ request \in Nat \X Nat
      /\ request[1] + request[2] <= ItemCount
  BY Zenon, <1>1 DEF ItemsInv
<1> DEFINE X == {output[n] : n \in 1..request[2]}
<1>3. request[2] \in Nat /\ output \in [1..request[2] -> X]
  BY Zenon, <1>2 DEF Built
<1>4. Len(output) = request[2] /\ DOMAIN output = 1..request[2]
  <2> HIDE DEF X
  <2> QED
    BY Zenon, <1>3, FnIsSeq
<1>5. \A n \in DOMAIN output : output[n] = ItemOf(drawn, request[1] + n - 1)
  BY Zenon, <1>2, <1>4 DEF Built
<1>6. TwoWay(request[1], request[1] + 1)
        = [A |-> ItemOf(drawn, request[1]), B |-> ItemOf(drawn, request[1] + 1)]
  BY Zenon, <1>2, TwoAgree
<1> QED
  BY Zenon, <1>2, <1>4, <1>5, <1>6 DEF DatasetItemsAgree

(* initialize_dataset() and the two-way code: for every list of programs and
   every range, the items are those of the programs as drawn.                *)
THEOREM ItemsAlwaysAgree == DsSpec => []DatasetItemsAgree
<1>1. machine \in Machines /\ DsStart("programs") => ItemsInv
  BY Zenon DEF DsStart, ItemsInv
<1> QED
  BY <1>1, ItemsNext, ItemsAgree, PTL DEF DsSpec
=============================================================================
