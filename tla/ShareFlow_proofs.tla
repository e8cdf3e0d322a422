--------------------------- MODULE ShareFlow_proofs ---------------------------
(***************************************************************************)
(* From the pool's messages to the shares: what is submitted carries the    *)
(* right hash and meets the pool's target, for any number of workers and    *)
(* messages.                                                                *)
(*                                                                          *)
(* First the client's target arithmetic, for every base, number of digits   *)
(* and word: the digitwise division, expansion and comparison are those of  *)
(* the numbers the digits stand for.                                        *)
(*                                                                          *)
(* Then one worker's hashing: from any state the worker can be in between   *)
(* two turns, the hash it looks at is the RandomX hash of its job's         *)
(* template with a nonce of its own, and the next turn starts from such a   *)
(* state.                                                                   *)
(*                                                                          *)
(* Then the whole: the inductive invariant has three parts, the workers'    *)
(* (every worker is between two turns), the targets' (client, engine and    *)
(* workers hold jobs with the target the pool announced for them) and the   *)
(* shares'.                                                                 *)
(***************************************************************************)
EXTENDS ShareFlow, WellFoundedInduction, TLAPS

(* Induction over the naturals, the predicate given as a set.               *)
LEMMA SetInduction ==
  ASSUME NEW S, 0 \in S, \A n \in Nat : n \in S => n + 1 \in S
  PROVE  \A n \in Nat : n \in S
<1> DEFINE R == OpToRel(<, Nat)
           T == Nat \ S
<1>1. IsWellFoundedOn(R, Nat)
  BY Zenon, NatLessThanWellFounded
<1>2. \A x, y \in Nat : x < y => <<x, y>> \in R
  BY Zenon DEF OpToRel
<1> HIDE DEF R
<1>3. SUFFICES ASSUME T # {} PROVE FALSE
  BY Zenon
<1>4. PICK x \in T : \A y \in T : ~(<<y, x>> \in R)
  <2> HIDE DEF T
  <2>1. T \subseteq Nat
    BY Zenon DEF T
  <2> QED
    BY Zenon, <1>1, <1>3, <2>1, WFMin
<1>5. x \in Nat \ {0} /\ x - 1 \in Nat /\ x - 1 < x
  BY <1>4
<1>6. x - 1 \in S
  BY Zenon, <1>2, <1>4, <1>5
<1> QED
  BY <1>4, <1>5, <1>6

(* Induction up to a bound.                                                 *)
LEMMA UpTo ==
  ASSUME NEW n \in Nat, NEW S, 0 \in S, \A k \in 0..(n - 1) : k \in S => k + 1 \in S
  PROVE  \A k \in 0..n : k \in S
<1> DEFINE T == {k \in Nat : k <= n => k \in S}
<1>1. 0 \in T /\ \A k \in Nat : k \in T => k + 1 \in T
  OBVIOUS
<1>2. \A k \in Nat : k \in T
  <2> HIDE DEF T
  <2> QED
    BY Zenon, <1>1, SetInduction
<1> QED
  BY <1>2

(* f is defined by recursion from first, one application of step per index. *)
Recurs(f, last, first, step) == f[0] = first /\ \A i \in 1..last : f[i] = step[i][f[i - 1]]

(* Primitive recursion on an interval has a solution: the recursive functions
   below satisfy the equations that define them.                            *)
LEMMA Recursion ==
  ASSUME NEW last \in Nat, NEW Val, NEW first \in Val, NEW step \in [1..last -> [Val -> Val]]
  PROVE  \E f \in [0..last -> Val] : Recurs(f, last, first, step)
<1> DEFINE Solves(f, k) == Recurs(f, k, first, step)
           S == {k \in 0..last : \E f \in [0..k -> Val] : Solves(f, k)}
<1> USE DEF Recurs
<1>1. 0 \in S
  <2> DEFINE f == [i \in 0..0 |-> first]
  <2>1. f \in [0..0 -> Val] /\ Solves(f, 0)
    OBVIOUS
  <2> HIDE DEF f, Solves
  <2> QED
    BY <2>1
<1>2. ASSUME NEW k \in 0..(last - 1), k \in S PROVE k + 1 \in S
  <2>1. PICK f \in [0..k -> Val] : Solves(f, k)
    BY Zenon, <1>2
  <2>2. f[k] \in Val /\ step[k + 1] \in [Val -> Val] /\ step[k + 1][f[k]] \in Val
    OBVIOUS
  <2> DEFINE h == [i \in 0..(k + 1) |-> IF i = k + 1 THEN step[k + 1][f[k]] ELSE f[i]]
  <2>3. h \in [0..(k + 1) -> Val]
    BY <2>2
  <2>4. \A i \in 0..k : h[i] = f[i]
    OBVIOUS
  <2>5. h[k + 1] = step[k + 1][f[k]]
    OBVIOUS
  <2> HIDE DEF h
  <2>6. ASSUME NEW i \in 1..(k + 1) PROVE h[i] = step[i][h[i - 1]]
    <3>1. CASE i = k + 1
      BY <2>4, <2>5, <3>1
    <3>2. CASE i # k + 1
      <4>1. i \in 1..k /\ i - 1 \in 0..k /\ i \in 0..k
        BY <3>2
      <4> QED
        BY Zenon, <2>1, <2>4, <4>1
    <3> QED
      BY Zenon, <3>1, <3>2
  <2>7. Solves(h, k + 1)
    BY <2>1, <2>4, <2>6
  <2>8. k + 1 \in 0..last
    OBVIOUS
  <2> HIDE DEF Solves
  <2> QED
    BY Zenon, <2>3, <2>7, <2>8
<1>3. \A k \in 0..last : k \in S
  <2> HIDE DEF S
  <2> QED
    BY Zenon, <1>1, <1>2, UpTo
<1> HIDE DEF Recurs
<1> QED
  BY <1>3

(* Power is the function its equation describes: powers of the base, positive. *)
LEMMA PowerDef ==
  /\ Power \in [0..Digits -> Nat \ {0}]
  /\ Power[0] = 1
  /\ \A n \in 1..Digits : Power[n] = Base * Power[n - 1]
<1> DEFINE Pos == Nat \ {0}
           one == 1
           g == [i \in 1..Digits |-> [v \in Pos |-> Base * v]]
<1>1. g \in [1..Digits -> [Pos -> Pos]]
  <2>1. \A v \in Pos : Base * v \in Pos
    BY TargetAssumption
  <2> QED
    BY Zenon, <2>1
<1>2. PICK f \in [0..Digits -> Pos] : Recurs(f, Digits, one, g)
  <2>1. one \in Pos /\ Digits \in Nat
    BY TargetAssumption
  <2> HIDE DEF g, Pos, one
  <2> QED
    BY Zenon, <1>1, <2>1, Recursion
<1>3. f = [n \in 0..Digits |-> IF n = 0 THEN 1 ELSE Base * f[n - 1]]
  <2>1. ASSUME NEW n \in 0..Digits PROVE f[n] = IF n = 0 THEN 1 ELSE Base * f[n - 1]
    <3>1. CASE n # 0
      <4>1. n \in 1..Digits /\ f[n - 1] \in Pos
        BY <3>1, TargetAssumption
      <4>2. g[n][f[n - 1]] = Base * f[n - 1]
        BY Zenon, <4>1
      <4> QED
        BY Zenon, <1>2, <3>1, <4>1, <4>2 DEF Recurs
    <3> QED
      BY Zenon, <1>2, <3>1 DEF Recurs
  <2> HIDE DEF g, Pos
  <2> QED
    BY Zenon, <2>1
<1>4. Power = [n \in 0..Digits |-> IF n = 0 THEN 1 ELSE Base * Power[n - 1]]
  BY Zenon, <1>3 DEF Power
<1>5. Power[0] = 1
  BY <1>4, TargetAssumption
<1>6. \A n \in 1..Digits : Power[n] = Base * Power[n - 1]
  BY <1>4, TargetAssumption
<1>7. \A k \in 0..Digits : Power[k] \in Nat \ {0}
  <2> DEFINE S == {k \in 0..Digits : Power[k] \in Nat \ {0}}
  <2>1. 0 \in S
    BY <1>5, TargetAssumption
  <2>2. \A k \in 0..(Digits - 1) : k \in S => k + 1 \in S
    BY SMTT(30), <1>6, TargetAssumption
  <2>3. \A k \in 0..Digits : k \in S
    <3> HIDE DEF S
    <3> QED
      BY Zenon, <2>1, <2>2, UpTo, TargetAssumption
  <2> QED
    BY Zenon, <2>3
<1> QED
  BY Zenon, <1>4, <1>5, <1>6, <1>7

(* What a digit of a target may be (a byte of the code).                    *)
Digit == 0..(Base - 1)

(* The partial sums of a digit sequence satisfy their equation.             *)
LEMMA LowUnfolds ==
  ASSUME NEW ds \in Seq(Digit), Len(ds) <= Digits
  PROVE  /\ Low(ds)[0] = 0
         /\ \A i \in 1..Len(ds) : Low(ds)[i] = Low(ds)[i - 1] + ds[i] * Power[i - 1]
<1> DEFINE zero == 0
           g == [i \in 1..Len(ds) |-> [v \in Int |-> v + ds[i] * Power[i - 1]]]
<1>1. ASSUME NEW i \in 1..Len(ds) PROVE ds[i] \in Int /\ Power[i - 1] \in Int
  <2>1. ds[i] \in Digit /\ i - 1 \in 0..Digits
    BY TargetAssumption
  <2>2. Power[i - 1] \in Nat \ {0}
    BY Zenon, <2>1, PowerDef
  <2> QED
    BY <2>1, <2>2, TargetAssumption DEF Digit
<1>2. \A i \in 1..Len(ds) : ds[i] * Power[i - 1] \in Int
  BY <1>1
<1>3. g \in [1..Len(ds) -> [Int -> Int]]
  BY <1>2
<1>4. PICK f \in [0..Len(ds) -> Int] : Recurs(f, Len(ds), zero, g)
  <2>1. zero \in Int /\ Len(ds) \in Nat
    OBVIOUS
  <2> HIDE DEF g, zero
  <2> QED
    BY Zenon, <1>3, <2>1, Recursion
<1>5. f = [i \in 0..Len(ds) |-> IF i = 0 THEN 0 ELSE f[i - 1] + ds[i] * Power[i - 1]]
  <2>1. ASSUME NEW i \in 0..Len(ds)
        PROVE  f[i] = IF i = 0 THEN 0 ELSE f[i - 1] + ds[i] * Power[i - 1]
    <3>1. CASE i # 0
      <4>1. i \in 1..Len(ds) /\ f[i - 1] \in Int
        BY <3>1
      <4>2. g[i][f[i - 1]] = f[i - 1] + ds[i] * Power[i - 1]
        BY Zenon, <4>1
      <4> QED
        BY Zenon, <1>4, <3>1, <4>1, <4>2 DEF Recurs
    <3> QED
      BY Zenon, <1>4, <3>1 DEF Recurs
  <2> HIDE DEF g
  <2> QED
    BY Zenon, <2>1
<1>6. Low(ds) = [i \in 0..Len(ds) |-> IF i = 0 THEN 0 ELSE Low(ds)[i - 1] + ds[i] * Power[i - 1]]
  BY Zenon, <1>5 DEF Low
<1> QED
  BY <1>6

(* i digits stand for a number below the i-th power of the base.            *)
LEMMA LowBounded ==
  ASSUME NEW ds \in Seq(Digit), Len(ds) <= Digits
  PROVE  \A i \in 0..Len(ds) : Low(ds)[i] \in 0..(Power[i] - 1)
<1> DEFINE S == {i \in 0..Len(ds) : Low(ds)[i] \in 0..(Power[i] - 1)}
<1>1. 0 \in S
  <2>1. Low(ds)[0] = 0
    BY Zenon, LowUnfolds
  <2>2. Power[0] = 1
    BY Zenon, PowerDef
  <2> QED
    BY <2>1, <2>2
<1>2. ASSUME NEW i \in 0..(Len(ds) - 1), i \in S PROVE i + 1 \in S
  <2>1. /\ i + 1 \in 1..Len(ds) /\ i + 1 \in 1..Digits /\ i \in 0..Digits
        /\ (i + 1) - 1 = i
    BY TargetAssumption
  <2>2. PICK d \in 0..(Base - 1) : d = ds[i + 1]
    <3>1. ds[i + 1] \in Digit
      BY <2>1
    <3> QED
      BY Zenon, <3>1 DEF Digit
  <2>3. PICK p \in Nat \ {0} : p = Power[i]
    BY Zenon, <2>1, PowerDef
  <2>4. PICK l \in 0..(p - 1) : l = Low(ds)[i]
    BY Zenon, <1>2, <2>3
  <2>5. Low(ds)[i + 1] = l + d * p
    BY Zenon, <2>1, <2>2, <2>3, <2>4, LowUnfolds
  <2>6. Power[i + 1] = Base * p
    BY Zenon, <2>1, <2>3, PowerDef
  <2>7. l + d * p \in 0..(Base * p - 1)
    <3>1. d * p \in Nat /\ d * p <= (Base - 1) * p
      BY TargetAssumption
    <3>2. (Base - 1) * p = Base * p - p
      BY TargetAssumption
    <3>3. Base * p \in Nat
      BY TargetAssumption
    <3> QED
      BY <3>1, <3>2, <3>3
  <2> QED
    BY <2>1, <2>5, <2>6, <2>7
<1>3. \A i \in 0..Len(ds) : i \in S
  <2> HIDE DEF S
  <2> QED
    BY SMTT(30), <1>1, <1>2, UpTo
<1> QED
  BY Zenon, <1>3

(* A digit function on 1..n is a digit sequence of length n.                *)
LEMMA DigitSequence ==
  ASSUME NEW n \in Nat, NEW t \in [1..n -> Digit]
  PROVE  t \in Seq(Digit) /\ Len(t) = n
OBVIOUS

(* meets_target, the comparison from the most significant digit down that the
   miner applies to every hash, is the comparison of the two numbers.       *)
THEOREM Comparison ==
  ASSUME NEW h \in [1..Digits -> Digit], NEW t \in [1..Digits -> Digit]
  PROVE  meets_target(h, t) <=> Value(h) <= Value(t)
<1> DEFINE Below(n) == \A i \in 1..n : (\A j \in (i + 1)..n : h[j] = t[j]) => h[i] <= t[i]
           S == {n \in 0..Digits : Below(n) <=> Low(h)[n] <= Low(t)[n]}
<1>1. /\ h \in Seq(Digit) /\ Len(h) = Digits
      /\ t \in Seq(Digit) /\ Len(t) = Digits
  BY Zenon, DigitSequence, TargetAssumption
<1>2. 0 \in S
  <2>1. Low(h)[0] = 0 /\ Low(t)[0] = 0
    BY <1>1, LowUnfolds, TargetAssumption
  <2> QED
    BY <2>1, TargetAssumption
<1>3. ASSUME NEW n \in 0..(Digits - 1), n \in S PROVE n + 1 \in S
  <2>1. n + 1 \in 1..Digits /\ n \in 0..Digits /\ (n + 1) - 1 = n
    BY TargetAssumption
  <2>2. PICK p \in Nat \ {0} : p = Power[n]
    BY Zenon, <2>1, PowerDef
  <2>3. PICK a \in Nat, b \in Nat : a = h[n + 1] /\ b = t[n + 1]
    <3>1. h[n + 1] \in Digit /\ t[n + 1] \in Digit
      BY Zenon, <2>1
    <3> QED
      BY <3>1, TargetAssumption DEF Digit
  <2>4. PICK x \in 0..(p - 1), y \in 0..(p - 1) : x = Low(h)[n] /\ y = Low(t)[n]
    <3>1. Low(h)[n] \in 0..(Power[n] - 1)
      BY <1>1, <2>1, LowBounded, TargetAssumption
    <3>2. Low(t)[n] \in 0..(Power[n] - 1)
      BY <1>1, <2>1, LowBounded, TargetAssumption
    <3> QED
      BY Zenon, <2>2, <3>1, <3>2
  <2>5. Low(h)[n + 1] = x + a * p /\ Low(t)[n + 1] = y + b * p
    <3>1. Low(h)[n + 1] = Low(h)[(n + 1) - 1] + h[n + 1] * Power[(n + 1) - 1]
      <4>1. \A i \in 1..Len(h) : Low(h)[i] = Low(h)[i - 1] + h[i] * Power[i - 1]
        BY SMTT(30), <1>1, LowUnfolds, TargetAssumption
      <4> QED
        BY Zenon, <1>1, <2>1, <4>1
    <3>2. Low(t)[n + 1] = Low(t)[(n + 1) - 1] + t[n + 1] * Power[(n + 1) - 1]
      <4>1. \A i \in 1..Len(t) : Low(t)[i] = Low(t)[i - 1] + t[i] * Power[i - 1]
        BY SMTT(30), <1>1, LowUnfolds, TargetAssumption
      <4> QED
        BY Zenon, <1>1, <2>1, <4>1
    <3> QED
      BY Zenon, <2>1, <2>2, <2>3, <2>4, <3>1, <3>2
  <2>6. Below(n + 1) <=> a < b \/ (a = b /\ Below(n))
    <3>1. ASSUME Below(n + 1) PROVE a < b \/ (a = b /\ Below(n))
      <4>1. a <= b
        BY <2>1, <2>3, <3>1
      <4>2. CASE a = b
        <5>1. ASSUME NEW i \in 1..n, \A j \in (i + 1)..n : h[j] = t[j] PROVE h[i] <= t[i]
          <6>1. \A j \in (i + 1)..(n + 1) : h[j] = t[j]
            <7>1. \A j \in (i + 1)..(n + 1) : j \in (i + 1)..n \/ j = n + 1
              OBVIOUS
            <7>2. h[n + 1] = t[n + 1]
              BY Zenon, <2>3, <4>2
            <7> QED
              BY Zenon, <5>1, <7>1, <7>2
          <6>2. i \in 1..(n + 1)
            OBVIOUS
          <6> QED
            BY Zenon, <3>1, <6>1, <6>2
        <5> QED
          BY Zenon, <4>2, <5>1
      <4> QED
        BY <4>1, <4>2
    <3>2. ASSUME a < b PROVE Below(n + 1)
      <4>1. h[n + 1] # t[n + 1] /\ h[n + 1] <= t[n + 1]
        BY <2>3, <3>2
      <4>2. ASSUME NEW i \in 1..(n + 1), \A j \in (i + 1)..(n + 1) : h[j] = t[j]
            PROVE  i = n + 1
        BY <4>1, <4>2
      <4> QED
        BY Zenon, <4>1, <4>2
    <3>3. ASSUME a = b, Below(n) PROVE Below(n + 1)
      <4>1. ASSUME NEW i \in 1..(n + 1), \A j \in (i + 1)..(n + 1) : h[j] = t[j]
            PROVE  h[i] <= t[i]
        <5>1. CASE i = n + 1
          <6>1. a <= b
            BY <3>3
          <6> QED
            BY Zenon, <2>3, <5>1, <6>1
        <5>2. CASE i # n + 1
          <6>1. i \in 1..n /\ \A j \in (i + 1)..n : j \in (i + 1)..(n + 1)
            BY <5>2
          <6> QED
            BY Zenon, <3>3, <4>1, <6>1
        <5> QED
          BY Zenon, <5>1, <5>2
      <4> QED
        BY Zenon, <4>1
    <3> QED
      BY Zenon, <3>1, <3>2, <3>3
  <2>7. x + a * p <= y + b * p <=> a < b \/ (a = b /\ x <= y)
    <3>1. ASSUME a < b PROVE x + a * p <= y + b * p
      <4>1. (a + 1) * p <= b * p /\ (a + 1) * p = a * p + p
        BY <3>1
      <4>2. a * p \in Nat /\ b * p \in Nat
        OBVIOUS
      <4> QED
        BY <4>1, <4>2
    <3>2. ASSUME b < a PROVE ~(x + a * p <= y + b * p)
      <4>1. (b + 1) * p <= a * p /\ (b + 1) * p = b * p + p
        BY <3>2
      <4>2. a * p \in Nat /\ b * p \in Nat
        OBVIOUS
      <4> QED
        BY <4>1, <4>2
    <3>3. ASSUME a = b PROVE x + a * p <= y + b * p <=> x <= y
      <4>1. a * p \in Nat
        OBVIOUS
      <4> QED
        BY <3>3, <4>1
    <3> QED
      BY <3>1, <3>2, <3>3
  <2>8. Below(n) <=> x <= y
    BY Zenon, <1>3, <2>4
  <2> HIDE DEF Below
  <2> QED
    BY <2>1, <2>5, <2>6, <2>7, <2>8
<1>4. Digits \in S
  <2> HIDE DEF S
  <2> QED
    <3>1. Digits \in Nat /\ Digits \in 0..Digits
      BY TargetAssumption
    <3> QED
      BY Zenon, <1>2, <1>3, <3>1, UpTo
<1> QED
  BY Zenon, <1>1, <1>4 DEF Value, meets_target

(* The word that takes the next digit in is a natural number.               *)
LEMMA WordType ==
  ASSUME NEW r \in Nat
  PROVE  Word(r) \in Nat
<1>1. r * Base \in Nat
  BY TargetAssumption
<1>2. (r * Base) % WordSize \in Nat
  BY <1>1, TargetAssumption
<1> QED
  BY <1>2, TargetAssumption DEF Word

(* The remainders of the long division satisfy their equation.              *)
LEMMA RemaindersUnfold ==
  ASSUME NEW d \in Nat \ {0}
  PROVE  /\ Remainders(d)[Digits + 1] = 0
         /\ \A i \in 1..Digits : Remainders(d)[i] = Word(Remainders(d)[i + 1]) % d
<1> DEFINE zero == 0
           g == [i \in 1..Digits |-> [v \in Nat |-> Word(v) % d]]
           Rem(r) == [i \in 1..(Digits + 1) |-> IF i > Digits THEN 0 ELSE Word(r[i + 1]) % d]
<1>1. g \in [1..Digits -> [Nat -> Nat]]
  <2>1. \A v \in Nat : Word(v) % d \in Nat
    BY WordType
  <2> QED
    BY Zenon, <2>1
<1>2. PICK f \in [0..Digits -> Nat] : Recurs(f, Digits, zero, g)
  <2>1. zero \in Nat /\ Digits \in Nat
    BY Zenon, TargetAssumption
  <2> HIDE DEF g, zero
  <2> QED
    BY Zenon, <1>1, <2>1, Recursion
<1> DEFINE r == [i \in 1..(Digits + 1) |-> f[Digits + 1 - i]]
<1>3. r = Rem(r)
  <2>1. ASSUME NEW i \in 1..(Digits + 1)
        PROVE  f[Digits + 1 - i] = IF i > Digits THEN 0 ELSE Word(r[i + 1]) % d
    <3>1. CASE i = Digits + 1
      <4>1. Digits + 1 - i = 0 /\ i > Digits
        BY <3>1, TargetAssumption
      <4> QED
        BY Zenon, <1>2, <4>1 DEF Recurs
    <3>2. CASE i # Digits + 1
      <4> DEFINE k == Digits + 1 - i
      <4>1. k \in 1..Digits /\ k - 1 \in 0..Digits /\ k - 1 = Digits + 1 - (i + 1)
            /\ i + 1 \in 1..(Digits + 1) /\ ~(i > Digits)
        BY <3>2, TargetAssumption
      <4>2. f[k - 1] \in Nat /\ r[i + 1] = f[k - 1]
        BY Zenon, <4>1
      <4>3. f[k] = g[k][f[k - 1]]
        BY Zenon, <1>2, <4>1 DEF Recurs
      <4>4. g[k][f[k - 1]] = Word(f[k - 1]) % d
        BY Zenon, <4>1, <4>2
      <4> QED
        BY Zenon, <4>1, <4>2, <4>3, <4>4
    <3> QED
      BY Zenon, <3>1, <3>2
  <2> QED
    BY Zenon, <2>1
<1>4. Remainders(d) = Rem(Remainders(d))
  <2> HIDE DEF r
  <2> QED
    BY Zenon, <1>3 DEF Remainders
<1> QED
  BY <1>4, TargetAssumption

(* Every remainder is below the divisor, whether or not the word overflows. *)
LEMMA RemaindersBounded ==
  ASSUME NEW d \in Nat \ {0}
  PROVE  \A i \in 1..(Digits + 1) : Remainders(d)[i] \in 0..(d - 1)
<1> DEFINE S == {k \in 0..Digits : Remainders(d)[Digits + 1 - k] \in 0..(d - 1)}
<1>1. 0 \in S
  <2>1. Digits + 1 - 0 = Digits + 1 /\ 0 \in 0..Digits
    BY TargetAssumption
  <2> QED
    BY <2>1, RemaindersUnfold
<1>2. ASSUME NEW k \in 0..(Digits - 1), k \in S PROVE k + 1 \in S
  <2> DEFINE i == Digits - k
  <2>1. /\ i \in 1..Digits /\ i + 1 = Digits + 1 - k /\ i = Digits + 1 - (k + 1)
        /\ k + 1 \in 0..Digits
    BY TargetAssumption
  <2>2. Remainders(d)[i + 1] \in Nat
    BY <1>2, <2>1
  <2>3. Remainders(d)[i] = Word(Remainders(d)[i + 1]) % d
    BY Zenon, <2>1, RemaindersUnfold
  <2>4. Word(Remainders(d)[i + 1]) \in Nat
    BY Zenon, <2>2, WordType
  <2>5. Remainders(d)[i] \in 0..(d - 1)
    BY <2>3, <2>4
  <2> QED
    BY Zenon, <2>1, <2>5
<1>3. \A k \in 0..Digits : k \in S
  <2>1. Digits \in Nat
    BY Zenon, TargetAssumption
  <2> HIDE DEF S
  <2> QED
    BY Zenon, <1>1, <1>2, <2>1, UpTo
<1>4. ASSUME NEW i \in 1..(Digits + 1) PROVE Remainders(d)[i] \in 0..(d - 1)
  <2>1. Digits + 1 - i \in 0..Digits /\ Digits + 1 - (Digits + 1 - i) = i
    BY TargetAssumption
  <2> QED
    BY Zenon, <1>3, <2>1
<1> QED
  BY Zenon, <1>4

(* A step of the division within the word: no wrap-around, the quotient is a
   digit, and nothing is lost.                                              *)
LEMMA DivisionStep ==
  ASSUME NEW d \in Nat \ {0}, d * Base <= WordSize, NEW r \in 0..(d - 1)
  PROVE  /\ Word(r) = r * Base + (Base - 1)
         /\ Word(r) \div d \in Digit
         /\ Word(r) = d * (Word(r) \div d) + (Word(r) % d)
<1>1. /\ r * Base \in Nat /\ r * Base <= (d - 1) * Base
      /\ (d - 1) * Base = d * Base - Base /\ d * Base \in Nat
  <2>1. r \in Nat /\ r <= d - 1 /\ d - 1 \in Nat
    OBVIOUS
  <2>2. r * Base <= (d - 1) * Base
    BY <2>1, TargetAssumption
  <2>3. (d - 1) * Base = d * Base - Base
    BY TargetAssumption
  <2> QED
    BY <2>1, <2>2, <2>3, TargetAssumption
<1>2. (r * Base) % WordSize = r * Base
  BY <1>1, TargetAssumption
<1>3. Word(r) = r * Base + (Base - 1)
  BY Zenon, <1>2 DEF Word
<1>4. PICK w \in Nat : w = Word(r) /\ w < d * Base
  BY <1>1, <1>3, TargetAssumption
<1>5. PICK q \in Nat, m \in 0..(d - 1) : q = w \div d /\ m = w % d /\ w = d * q + m
  <2>1. w \div d \in Nat /\ w % d \in 0..(d - 1)
    OBVIOUS
  <2>2. w = d * (w \div d) + (w % d)
    OBVIOUS
  <2> QED
    BY Zenon, <2>1, <2>2
<1>6. q < Base
  <2>1. SUFFICES ASSUME q >= Base PROVE FALSE
    BY TargetAssumption
  <2>2. d * q >= d * Base
    BY <2>1, TargetAssumption
  <2> QED
    BY <1>1, <1>4, <1>5, <2>2
<1> QED
  BY <1>3, <1>4, <1>5, <1>6, TargetAssumption DEF Digit

(* The division yields a target, whatever the divisor.                      *)
LEMMA DivideType ==
  ASSUME NEW d \in Nat \ {0}
  PROVE  divide(d) \in [1..Digits -> Digit]
<1>1. ASSUME NEW i \in 1..Digits
      PROVE  (Word(Remainders(d)[i + 1]) \div d) % Base \in Digit
  <2>1. Remainders(d)[i + 1] \in Nat
    BY RemaindersBounded, TargetAssumption
  <2>2. Word(Remainders(d)[i + 1]) \in Nat
    BY Zenon, <2>1, WordType
  <2>3. Word(Remainders(d)[i + 1]) \div d \in Nat
    BY <2>2
  <2> QED
    BY <2>3, TargetAssumption DEF Digit
<1> QED
  BY Zenon, <1>1 DEF divide

(* The digitwise long division of difficulty_to_target is the division of the
   largest target, as long as the remainder, one digit further, fits the word. *)
THEOREM Division ==
  ASSUME NEW d \in Nat \ {0}, d * Base <= WordSize
  PROVE  Value(divide(d)) = MaxTarget \div d
<1> DEFINE q == divide(d)
           rem == Remainders(d)
           S == {i \in 0..Digits : d * Low(q)[i] + rem[1] = Power[i] * rem[i + 1] + (Power[i] - 1)}
<1>1. q \in Seq(Digit) /\ Len(q) = Digits
  BY Zenon, DivideType, DigitSequence, TargetAssumption
<1>2. \A i \in 1..(Digits + 1) : rem[i] \in 0..(d - 1)
  BY Zenon, RemaindersBounded
<1>3. \A i \in 1..Digits : Low(q)[i] = Low(q)[i - 1] + q[i] * Power[i - 1]
  <2> HIDE DEF q
  <2> QED
    BY <1>1, LowUnfolds, TargetAssumption
<1>4. \A i \in 0..Digits : Low(q)[i] \in Nat
  <2> HIDE DEF q
  <2>1. \A i \in 0..Digits : Low(q)[i] \in 0..(Power[i] - 1)
    BY <1>1, LowBounded, TargetAssumption
  <2> QED
    BY <2>1
<1>5. 0 \in S
  <2>1. Low(q)[0] = 0
    <3> HIDE DEF q
    <3> QED
      BY <1>1, LowUnfolds, TargetAssumption
  <2>2. Power[0] = 1 /\ 0 \in 0..Digits /\ rem[1] \in Nat
    BY <1>2, PowerDef, TargetAssumption
  <2> QED
    BY <2>1, <2>2
<1>6. ASSUME NEW i \in 0..(Digits - 1), i \in S PROVE i + 1 \in S
  <2>1. /\ i + 1 \in 1..Digits /\ i \in 0..Digits /\ (i + 1) - 1 = i
        /\ i + 1 \in 1..(Digits + 1) /\ (i + 1) + 1 \in 1..(Digits + 1)
    BY TargetAssumption
  <2>2. PICK p \in Nat \ {0} : p = Power[i]
    BY Zenon, <2>1, PowerDef
  <2>3. Power[i + 1] = Base * p
    BY Zenon, <2>1, <2>2, PowerDef
  <2>4. PICK l \in Nat : l = Low(q)[i]
    BY Zenon, <1>4, <2>1
  <2>5. PICK r \in 0..(d - 1) : r = rem[(i + 1) + 1]
    BY Zenon, <1>2, <2>1
  <2>6. PICK s \in 0..(d - 1) : s = rem[i + 1]
    BY Zenon, <1>2, <2>1
  <2>7. PICK z \in 0..(d - 1) : z = rem[1]
    BY <1>2, TargetAssumption
  <2>8. s = Word(r) % d
    BY Zenon, <2>1, <2>5, <2>6, RemaindersUnfold
  <2>9. q[i + 1] = (Word(r) \div d) % Base
    BY Zenon, <2>1, <2>5 DEF divide
  <2>10. /\ Word(r) = r * Base + (Base - 1)
         /\ Word(r) \div d \in Digit
         /\ Word(r) = d * (Word(r) \div d) + (Word(r) % d)
    BY Zenon, DivisionStep
  <2>11. PICK b \in 0..(Base - 1) : b = Word(r) \div d
    BY Zenon, <2>10 DEF Digit
  <2>12. q[i + 1] = b
    BY <2>9, <2>11, TargetAssumption
  <2>13. r * Base + (Base - 1) = d * b + s
    BY Zenon, <2>8, <2>10, <2>11
  <2>14. Low(q)[i + 1] = l + b * p
    BY Zenon, <1>3, <2>1, <2>2, <2>4, <2>12
  <2>15. d * l + z = p * s + (p - 1)
    BY Zenon, <1>6, <2>1, <2>2, <2>4, <2>6, <2>7
  <2>16. d * (l + b * p) + z = (Base * p) * r + (Base * p - 1)
    <3>1. d * (l + b * p) = d * l + (d * b) * p
      OBVIOUS
    <3>2. (d * b) * p + s * p = (r * Base) * p + (Base - 1) * p
      <4>1. (d * b + s) * p = (r * Base + (Base - 1)) * p
        BY Zenon, <2>13
      <4>2. (d * b + s) * p = (d * b) * p + s * p
        OBVIOUS
      <4>3. (r * Base + (Base - 1)) * p = (r * Base) * p + (Base - 1) * p
        BY TargetAssumption
      <4> QED
        BY Zenon, <4>1, <4>2, <4>3
    <3>3. (Base - 1) * p = Base * p - p /\ (r * Base) * p = (Base * p) * r /\ s * p = p * s
      BY TargetAssumption
    <3>4. /\ d * l \in Nat /\ (d * b) * p \in Nat /\ (Base * p) * r \in Nat
          /\ p * s \in Nat /\ Base * p \in Nat
      <4>1. d * b \in Nat /\ Base * p \in Nat /\ r \in Nat /\ s \in Nat /\ b \in Nat
        BY TargetAssumption
      <4> QED
        BY <4>1
    <3>5. \A u, v, x, y \in Int :
            /\ u + z = y + (p - 1) /\ v + y = x + (Base * p - p)
            => (u + v) + z = x + (Base * p - 1)
      BY <3>4
    <3>6. (d * l + (d * b) * p) + z = (Base * p) * r + (Base * p - 1)
      BY SMTT(30), <2>15, <3>2, <3>3, <3>4, <3>5
    <3> QED
      BY Zenon, <3>1, <3>6
  <2> QED
    BY <2>1, <2>3, <2>5, <2>7, <2>14, <2>16
<1>7. Digits \in S
  <2>1. Digits \in Nat /\ Digits \in 0..Digits
    BY TargetAssumption
  <2> HIDE DEF S
  <2> QED
    BY Zenon, <1>5, <1>6, <2>1, UpTo
<1>8. d * Value(q) + rem[1] = MaxTarget
  <2>1. rem[Digits + 1] = 0 /\ Power[Digits] \in Nat
    BY RemaindersUnfold, PowerDef, TargetAssumption
  <2> QED
    BY <1>1, <1>7, <2>1 DEF Value, MaxTarget
<1>9. Value(q) \in Nat /\ rem[1] \in 0..(d - 1)
  BY <1>1, <1>2, <1>4, TargetAssumption DEF Value
<1> HIDE DEF q, rem
<1>10. (d * Value(q) + rem[1]) \div d = Value(q)
  BY <1>9
<1>11. MaxTarget \div d = Value(q)
  BY Zenon, <1>8, <1>10
<1> QED
  BY Zenon, <1>11 DEF q

(* Digits at their maximum stand for a power of the base less one.          *)
LEMMA OnesBelow ==
  ASSUME NEW ds \in Seq(Digit), Len(ds) <= Digits, NEW m \in 0..Len(ds),
         \A i \in 1..m : ds[i] = Base - 1
  PROVE  \A i \in 0..m : Low(ds)[i] = Power[i] - 1
<1> DEFINE S == {i \in 0..m : Low(ds)[i] = Power[i] - 1}
<1>1. 0 \in S
  <2>1. Low(ds)[0] = 0 /\ Power[0] = 1
    BY Zenon, LowUnfolds, PowerDef
  <2> QED
    BY <2>1
<1>2. ASSUME NEW i \in 0..(m - 1), i \in S PROVE i + 1 \in S
  <2>1. /\ i + 1 \in 1..Len(ds) /\ i + 1 \in 1..Digits /\ i \in 0..Digits
        /\ (i + 1) - 1 = i /\ i + 1 \in 1..m
    BY TargetAssumption
  <2>2. PICK p \in Nat \ {0} : p = Power[i]
    BY Zenon, <2>1, PowerDef
  <2>3. Low(ds)[i + 1] = (p - 1) + (Base - 1) * p
    BY <1>2, <2>1, <2>2, LowUnfolds
  <2>4. Power[i + 1] = Base * p
    BY Zenon, <2>1, <2>2, PowerDef
  <2>5. (Base - 1) * p = Base * p - p /\ Base * p \in Nat
    BY TargetAssumption
  <2> QED
    BY <2>1, <2>3, <2>4, <2>5
<1>3. \A i \in 0..m : i \in S
  <2>1. m \in Nat
    OBVIOUS
  <2> HIDE DEF S
  <2> QED
    BY Zenon, <1>1, <1>2, <2>1, UpTo
<1> QED
  BY Zenon, <1>3

(* The target no pool has set yet is zero.                                  *)
LEMMA ZeroValue ==
  ASSUME NEW ds \in [1..Digits -> Digit], \A i \in 1..Digits : ds[i] = 0
  PROVE  Value(ds) = 0
<1> DEFINE S == {i \in 0..Digits : Low(ds)[i] = 0}
<1>1. ds \in Seq(Digit) /\ Len(ds) = Digits /\ Digits \in Nat
  BY Zenon, DigitSequence, TargetAssumption
<1>2. 0 \in S
  BY <1>1, LowUnfolds
<1>3. ASSUME NEW i \in 0..(Digits - 1), i \in S PROVE i + 1 \in S
  <2>1. i + 1 \in 1..Digits /\ (i + 1) - 1 = i
    BY <1>1
  <2>2. PICK p \in Nat \ {0} : p = Power[i]
    BY <1>1, PowerDef
  <2>3. Low(ds)[i + 1] = Low(ds)[i] + ds[i + 1] * p
    <3>1. \A k \in 1..Digits : Low(ds)[k] = Low(ds)[k - 1] + ds[k] * Power[k - 1]
      BY <1>1, LowUnfolds
    <3> QED
      BY Zenon, <2>1, <2>2, <3>1
  <2>4. Low(ds)[i] = 0 /\ ds[i + 1] = 0
    BY Zenon, <1>3, <2>1
  <2> QED
    BY <2>1, <2>3, <2>4
<1>4. \A i \in 0..Digits : i \in S
  <2> HIDE DEF S
  <2> QED
    BY Zenon, <1>1, <1>2, <1>3, UpTo
<1> QED
  BY <1>1, <1>4 DEF Value

(* The target that every hash meets is the largest number.                  *)
LEMMA AllOnesValue ==
  AllOnes \in [1..Digits -> Digit] /\ Value(AllOnes) = MaxTarget
<1>1. AllOnes \in [1..Digits -> Digit]
  BY TargetAssumption DEF AllOnes, Digit
<1>2. AllOnes \in Seq(Digit) /\ Len(AllOnes) = Digits
  BY Zenon, <1>1, DigitSequence, TargetAssumption
<1>3. \A i \in 1..Digits : AllOnes[i] = Base - 1
  BY Zenon DEF AllOnes
<1>4. Digits \in 0..Digits
  BY TargetAssumption
<1>5. Low(AllOnes)[Digits] = Power[Digits] - 1
  BY <1>2, <1>3, <1>4, OnesBelow, TargetAssumption
<1> QED
  BY Zenon, <1>1, <1>2, <1>5 DEF Value, MaxTarget

(* Expanding a compact target gives the largest target with these leading
   digits: the compact value with every lower digit at its maximum.         *)
THEOREM Expansion ==
  ASSUME NEW c \in [1..CompactDigits -> Digit]
  PROVE  /\ expand(c) \in [1..Digits -> Digit]
         /\ Value(expand(c)) = (Value(c) + 1) * Power[Digits - CompactDigits] - 1
<1> DEFINE e == expand(c)
           low == Digits - CompactDigits
<1>1. /\ low \in 1..(Digits - 1) /\ low + CompactDigits = Digits
      /\ CompactDigits \in 1..(Digits - 1) /\ low \in 0..Digits
  BY TargetAssumption
<1>2. e \in [1..Digits -> Digit]
  <2>1. ASSUME NEW i \in 1..Digits
        PROVE  (IF i > low THEN c[i - low] ELSE Base - 1) \in Digit
    <3>1. CASE i > low
      <4>1. i - low \in 1..CompactDigits
        BY <1>1, <3>1
      <4> QED
        BY Zenon, <3>1, <4>1
    <3>2. CASE ~(i > low)
      BY <3>2, TargetAssumption DEF Digit
    <3> QED
      BY Zenon, <3>1, <3>2
  <2> QED
    BY Zenon, <2>1 DEF expand
<1>3. /\ \A i \in 1..low : e[i] = Base - 1
      /\ \A k \in 1..CompactDigits : e[low + k] = c[k]
  <2>1. \A i \in 1..low : i \in 1..Digits /\ ~(i > low)
    BY <1>1
  <2>2. \A k \in 1..CompactDigits : low + k \in 1..Digits /\ low + k > low /\ (low + k) - low = k
    BY <1>1
  <2> QED
    BY Zenon, <2>1, <2>2 DEF expand
<1>4. /\ e \in Seq(Digit) /\ Len(e) = Digits
      /\ c \in Seq(Digit) /\ Len(c) = CompactDigits /\ Len(c) <= Digits
  <2>1. Digits \in Nat /\ CompactDigits \in Nat /\ CompactDigits <= Digits
    BY TargetAssumption
  <2> HIDE DEF e
  <2> QED
    BY Zenon, <1>2, <2>1, DigitSequence
<1> HIDE DEF e, low
<1>5. PICK b \in Nat \ {0} : b = Power[low]
  BY Zenon, <1>1, PowerDef
<1>6. Low(e)[low] = b - 1
  <2>1. low \in 0..Len(e) /\ Len(e) <= Digits /\ low \in 0..low
    BY <1>1, <1>4, TargetAssumption
  <2>2. \A i \in 0..low : Low(e)[i] = Power[i] - 1
    BY Zenon, <1>3, <1>4, <2>1, OnesBelow
  <2> QED
    BY Zenon, <1>5, <2>1, <2>2
<1> DEFINE S == {k \in 0..CompactDigits :
                   /\ Power[low + k] = b * Power[k]
                   /\ Low(e)[low + k] = b * Low(c)[k] + (b - 1)}
<1>7. 0 \in S
  <2>1. low + 0 = low /\ 0 \in 0..CompactDigits
    BY <1>1
  <2>2. Low(c)[0] = 0 /\ Power[0] = 1
    BY Zenon, <1>4, LowUnfolds, PowerDef
  <2> QED
    BY <1>5, <1>6, <2>1, <2>2
<1>8. ASSUME NEW k \in 0..(CompactDigits - 1), k \in S PROVE k + 1 \in S
  <2>1. /\ k + 1 \in 1..CompactDigits /\ k \in 0..CompactDigits /\ (k + 1) - 1 = k
        /\ k + 1 \in 0..CompactDigits /\ k + 1 \in 1..Digits /\ k \in 0..Digits
        /\ low + (k + 1) \in 1..Digits /\ (low + (k + 1)) - 1 = low + k
    BY <1>1, TargetAssumption
  <2>2. PICK p \in Nat \ {0} : p = Power[k]
    BY Zenon, <2>1, PowerDef
  <2>3. PICK l \in Nat : l = Low(c)[k]
    <3>1. Low(c)[k] \in 0..(Power[k] - 1)
      BY Zenon, <1>4, <2>1, LowBounded
    <3> QED
      BY <3>1
  <2>4. PICK z \in Nat : z = c[k + 1]
    <3>1. c[k + 1] \in Digit
      BY Zenon, <2>1
    <3> QED
      BY <3>1, TargetAssumption DEF Digit
  <2>5. Low(c)[k + 1] = l + z * p
    <3>1. Low(c)[k + 1] = Low(c)[(k + 1) - 1] + c[k + 1] * Power[(k + 1) - 1]
      BY Zenon, <1>4, <2>1, LowUnfolds
    <3> QED
      BY Zenon, <2>1, <2>2, <2>3, <2>4, <3>1
  <2>6. Power[k + 1] = Base * p /\ Power[low + (k + 1)] = Base * Power[low + k]
    BY Zenon, <2>1, <2>2, PowerDef
  <2>7. Low(e)[low + (k + 1)] = Low(e)[low + k] + z * Power[low + k]
    <3>1. Low(e)[low + (k + 1)]
            = Low(e)[(low + (k + 1)) - 1] + e[low + (k + 1)] * Power[(low + (k + 1)) - 1]
      <4>1. \A i \in 1..Len(e) : Low(e)[i] = Low(e)[i - 1] + e[i] * Power[i - 1]
        BY SMTT(30), <1>4, LowUnfolds, TargetAssumption
      <4> QED
        BY Zenon, <1>4, <2>1, <4>1
    <3>2. e[low + (k + 1)] = z
      BY Zenon, <1>3, <2>1, <2>4
    <3> QED
      BY Zenon, <2>1, <3>1, <3>2
  <2>8. Power[low + k] = b * p /\ Low(e)[low + k] = b * l + (b - 1)
    BY Zenon, <1>8, <2>2, <2>3
  <2>9. Base * (b * p) = b * (Base * p)
    BY TargetAssumption
  <2>10. (b * l + (b - 1)) + z * (b * p) = b * (l + z * p) + (b - 1)
    OBVIOUS
  <2> QED
    BY Zenon, <2>1, <2>5, <2>6, <2>7, <2>8, <2>9, <2>10
<1>9. CompactDigits \in S
  <2>1. CompactDigits \in Nat /\ CompactDigits \in 0..CompactDigits
    BY TargetAssumption
  <2> HIDE DEF S
  <2> QED
    BY Zenon, <1>7, <1>8, <2>1, UpTo
<1>10. Value(e) = b * Value(c) + (b - 1)
  BY Zenon, <1>1, <1>4, <1>9 DEF Value
<1>11. Value(c) \in Nat
  <2>1. Low(c)[CompactDigits] \in 0..(Power[CompactDigits] - 1)
    BY <1>1, <1>4, LowBounded
  <2> QED
    BY <1>4, <2>1 DEF Value
<1>12. b * Value(c) + (b - 1) = (Value(c) + 1) * b - 1
  BY <1>11
<1> QED
  BY Zenon, <1>2, <1>5, <1>10, <1>12 DEF e, low

(* Every difficulty gives a target.                                         *)
LEMMA DifficultyType ==
  ASSUME NEW diff \in Int
  PROVE  difficulty_to_target(diff) \in [1..Digits -> Digit]
<1>1. WordSize - 1 \in Nat \ {0}
  BY TargetAssumption
<1>2. ASSUME NEW d \in Nat \ {0} PROVE divide(d) \in [1..Digits -> Digit]
  BY Zenon, DivideType
<1>3. CASE diff < 0
  BY Zenon, <1>3, AllOnesValue DEF difficulty_to_target
<1>4. CASE diff >= 0
  <2>1. (IF diff = 0 THEN 1 ELSE IF diff >= WordSize THEN WordSize - 1 ELSE diff) \in Nat \ {0}
    BY <1>1, <1>4
  <2>2. ~(diff < 0)
    BY <1>4
  <2> QED
    BY Zenon, <1>2, <2>1, <2>2 DEF difficulty_to_target
<1> QED
  BY <1>3, <1>4

(* difficulty_to_target yields exactly the largest hash a difficulty admits, for
   every difficulty up to 2^56; above it the 64-bit remainder wraps around. *)
THEOREM DifficultyTarget ==
  ASSUME NEW diff \in Int, diff <= 0 \/ Exact(diff)
  PROVE  Value(difficulty_to_target(diff)) = IF diff <= 0 THEN MaxTarget ELSE MaxTarget \div diff
<1>1. CASE diff < 0
  BY <1>1, AllOnesValue DEF difficulty_to_target
<1>2. CASE diff = 0
  <2>1. difficulty_to_target(diff) = divide(1)
    BY <1>2 DEF difficulty_to_target
  <2>2. Value(divide(1)) = MaxTarget \div 1
    BY Division, TargetAssumption
  <2>3. MaxTarget \in Nat
    <3>1. Power[Digits] \in Nat \ {0}
      BY PowerDef, TargetAssumption
    <3> QED
      BY <3>1 DEF MaxTarget
  <2>4. MaxTarget \div 1 = MaxTarget
    BY <2>3
  <2> QED
    BY <1>2, <2>1, <2>2, <2>4
<1>3. CASE diff > 0
  <2>1. diff \in Nat \ {0} /\ diff * Base <= WordSize
    BY <1>3 DEF Exact
  <2>2. diff < WordSize
    <3>1. diff * 2 <= diff * Base
      BY <2>1, TargetAssumption
    <3> QED
      BY <2>1, <3>1, TargetAssumption
  <2>3. difficulty_to_target(diff) = divide(diff)
    BY <2>1, <2>2, TargetAssumption DEF difficulty_to_target
  <2>4. Value(divide(diff)) = MaxTarget \div diff
    BY Zenon, <2>1, Division
  <2> QED
    BY <1>3, <2>3, <2>4
<1> QED
  BY <1>1, <1>2, <1>3

-----------------------------------------------------------------------------
(* A VM between two hashes: the processor is in the caller's rounding mode.   *)
IsVm(vm) ==
  /\ DOMAIN vm = {"active", "pads", "cache", "fpu", "last_rounding_mode"}
  /\ vm.active \in {0, 1} /\ DOMAIN vm.pads = {0, 1} /\ vm.fpu = 0

(* What worker_loop keeps.                                                    *)
IsWorker(s) ==
  /\ DOMAIN s = {"thread_id", "gen", "job", "active", "block_input", "pipelined_active",
                 "calls", "local_nonce", "current_nonce", "sp_fill", "pipeline_seed", "vm"}
  /\ s.sp_fill \in {0, 1} /\ s.pipelined_active \in BOOLEAN /\ s.calls \in BOOLEAN
  /\ IsVm(s.vm)

(* n is a nonce of worker w.                                                 *)
Turn(n, w) == n \in Nat /\ n % NumThreads = w

(* The counters of worker w.                                                  *)
Nonces(s, w) ==
  /\ s.thread_id = w /\ Turn(s.local_nonce, w)
  /\ s.pipelined_active => Turn(s.current_nonce, w)

(* block_input holds the current nonce; after a pipelined call the seed and the
   active scratchpad are those of that block.                                  *)
Pipeline(s) ==
  /\ s.vm.cache = s.job.seed
  /\ s.calls => s.pipelined_active
  /\ s.pipelined_active => s.block_input = update_nonce_in_template(s.job, s.current_nonce)
  /\ s.pipelined_active /\ s.calls =>
       /\ s.pipeline_seed = FillState(blake2b(s.block_input))
       /\ s.vm.pads[s.vm.active] = Fill(blake2b(s.block_input))

(* A worker between two turns.                                                *)
WorkerInv(s, w) == IsWorker(s) /\ Nonces(s, w) /\ Pipeline(s)

(* What run() leaves behind on a VM: the registers, and the scratchpad they
   were made with.                                                           *)
AfterRun(r, vm, state, block) ==
  LET regs == Ran(state, vm.pads[vm.active], vm.cache, <<0, Cfround(block)>>)
  IN /\ r.regs = regs
     /\ DOMAIN r.vm = DOMAIN vm /\ r.vm.active = vm.active /\ r.vm.cache = vm.cache
     /\ DOMAIN r.vm.pads = {0, 1} /\ r.vm.pads[vm.active] = Used(regs)

-------------------------------------------------------------------------------
(* The programs of one hash: what they compute and leave behind.             *)
LEMMA RunResult ==
  ASSUME NEW vm, IsVm(vm), NEW state, NEW block
  PROVE  AfterRun(run(reset_rounding_mode(vm), state, block), vm, state, block)
<1> DEFINE set == rx_set_rounding_mode(reset_rounding_mode(vm), Cfround(block))
<1>1. /\ DOMAIN set = DOMAIN vm /\ set.active = vm.active /\ set.cache = vm.cache
      /\ set.pads = vm.pads /\ set.fpu = Cfround(block)
  BY Zenon DEF reset_rounding_mode, rx_set_rounding_mode, IsVm
<1>2. LET v == reset_rounding_mode(vm)
      IN v.pads = vm.pads /\ v.active = vm.active /\ v.cache = vm.cache /\ v.fpu = 0
  BY Zenon DEF reset_rounding_mode, IsVm
<1> HIDE DEF set
<1> QED
  BY Zenon, <1>1, <1>2 DEF AfterRun, run, IsVm, set

(* Filling the active scratchpad.                                            *)
LEMMA InitScratchpad ==
  ASSUME NEW vm, IsVm(vm), NEW key
  PROVE  LET v == init_scratchpad(vm, key)
         IN /\ IsVm(v) /\ v.pads[v.active] = Fill(key) /\ v.cache = vm.cache
            /\ v.active = vm.active
BY Zenon DEF init_scratchpad, IsVm

(* The plain hash is the RandomX hash, and leaves a VM behind.               *)
LEMMA PlainHash ==
  ASSUME NEW vm, IsVm(vm), NEW block
  PROVE  LET r == randomx_calculate_hash(vm, block)
         IN r.hash = RandomX(block, vm.cache) /\ IsVm(r.vm) /\ r.vm.cache = vm.cache
<1> DEFINE key == blake2b(block)
           v == init_scratchpad(vm, key)
           ran == run(reset_rounding_mode(v), FillState(key), block)
           regs == Ran(FillState(key), Fill(key), vm.cache, <<0, Cfround(block)>>)
<1>1. IsVm(v) /\ v.pads[v.active] = Fill(key) /\ v.cache = vm.cache /\ v.active = vm.active
  BY Zenon, InitScratchpad
<1>2. /\ ran.regs = regs
      /\ DOMAIN ran.vm = DOMAIN v /\ ran.vm.active = vm.active /\ ran.vm.cache = vm.cache
      /\ DOMAIN ran.vm.pads = {0, 1} /\ ran.vm.pads[vm.active] = Used(regs)
  <2> DEFINE there == Ran(FillState(key), v.pads[v.active], v.cache, <<0, Cfround(block)>>)
  <2> HIDE DEF v, key
  <2>1. /\ ran.regs = there
        /\ DOMAIN ran.vm = DOMAIN v /\ ran.vm.active = v.active /\ ran.vm.cache = v.cache
        /\ DOMAIN ran.vm.pads = {0, 1} /\ ran.vm.pads[v.active] = Used(there)
    <3>1. AfterRun(ran, v, FillState(key), block)
      BY Zenon, <1>1, RunResult
    <3> HIDE DEF ran
    <3> QED
      BY Zenon, <3>1 DEF AfterRun
  <2>2. there = regs
    BY Zenon, <1>1
  <2> HIDE DEF there, regs
  <2> QED
    BY Zenon, <1>1, <2>1, <2>2
<1>3. randomx_calculate_hash(vm, block) =
        [hash |-> Digest(ran.regs, ran.vm.pads[vm.active]), vm |-> [ran.vm EXCEPT !.fpu = vm.fpu]]
  BY Zenon DEF randomx_calculate_hash
<1>4. RandomX(block, vm.cache) = Digest(regs, Used(regs))
  BY Zenon DEF RandomX
<1> HIDE DEF ran, regs, v, key
<1> DEFINE after == [ran.vm EXCEPT !.fpu = vm.fpu]
           r == randomx_calculate_hash(vm, block)
<1>5. IsVm(after) /\ after.cache = vm.cache
  BY Zenon, <1>1, <1>2 DEF IsVm
<1>6. r.vm = after /\ r.hash = Digest(regs, Used(regs))
  BY <1>2, <1>3
<1> HIDE DEF after, r
<1>7. r.hash = RandomX(block, vm.cache) /\ IsVm(r.vm) /\ r.vm.cache = vm.cache
  BY Zenon, <1>4, <1>5, <1>6
<1> QED
  BY Zenon, <1>7 DEF r

(* A seed that the pipeline hands on is never taken for an absent one.       *)
LEMMA SeedPresent ==
  ASSUME NEW key
  PROVE  FillState(key) # NoSeed
<1>1. DOMAIN FillState(key) = {"filled"} /\ DOMAIN NoSeed = {"none"}
  BY Zenon DEF FillState, NoSeed
<1> QED
  BY Zenon, <1>1


(* A seed handed to the next call belongs to the block hashed next, and so
   does the scratchpad it is used with.                                      *)
HandedOver(seed, vm, block) ==
  \/ seed = NoSeed
  \/ /\ seed = FillState(blake2b(block))
     /\ vm.pads[vm.active] = Fill(blake2b(block))

(* What a pipelined call returns.                                            *)
AfterPipelined(r, vm, block, next) ==
  /\ r.hash = RandomX(block, vm.cache)
  /\ r.next_seed = FillState(blake2b(next))
  /\ IsVm(r.vm) /\ r.vm.cache = vm.cache
  /\ r.vm.pads[r.vm.active] = Fill(blake2b(next))

(* The pipelined hash, when it fills for itself or when the fill was made
   for the same block by the previous call: the hash is the block's RandomX
   hash, and the seed and the active scratchpad it leaves are the next block's. *)
LEMMA PipelinedHash ==
  ASSUME NEW vm, NEW block, NEW next, NEW fill, NEW seed, IsVm(vm), fill \in {0, 1},
         HandedOver(seed, vm, block)
  PROVE  AfterPipelined(randomx_calculate_hash_pipelined(vm, block, next, fill, seed),
                        vm, block, next)
<1> DEFINE key == blake2b(block)
           skip == seed # NoSeed
           v == IF skip THEN vm ELSE init_scratchpad(vm, key)
           ran == PartA(vm, block, seed)
           d == PartD(ran, fill, next)
           regs == Ran(FillState(key), Fill(key), vm.cache, <<0, Cfround(block)>>)
<1>1. IsVm(v) /\ v.pads[v.active] = Fill(key) /\ v.cache = vm.cache /\ v.active = vm.active
  BY Zenon, InitScratchpad DEF HandedOver
<1>2. (IF skip THEN seed ELSE FillState(key)) = FillState(key)
  BY Zenon DEF HandedOver
<1>3. ran = run(reset_rounding_mode(v), FillState(key), block)
  BY Zenon, <1>2 DEF PartA
<1>4. /\ ran.regs = regs
      /\ DOMAIN ran.vm = DOMAIN v /\ ran.vm.active = vm.active /\ ran.vm.cache = vm.cache
      /\ DOMAIN ran.vm.pads = {0, 1} /\ ran.vm.pads[vm.active] = Used(regs)
  <2> DEFINE there == Ran(FillState(key), v.pads[v.active], v.cache, <<0, Cfround(block)>>)
  <2> HIDE DEF v, key, ran
  <2>1. /\ ran.regs = there
        /\ DOMAIN ran.vm = DOMAIN v /\ ran.vm.active = v.active /\ ran.vm.cache = v.cache
        /\ DOMAIN ran.vm.pads = {0, 1} /\ ran.vm.pads[v.active] = Used(there)
    <3>1. AfterRun(ran, v, FillState(key), block)
      BY Zenon, <1>1, <1>3, RunResult
    <3> QED
      BY Zenon, <3>1 DEF AfterRun
  <2>2. there = regs
    BY Zenon, <1>1
  <2> HIDE DEF there, regs
  <2> QED
    BY Zenon, <1>1, <2>1, <2>2
<1>5. RandomX(block, vm.cache) = Digest(regs, Used(regs))
  BY Zenon DEF RandomX
<1>6. randomx_calculate_hash_pipelined(vm, block, next, fill, seed) =
        [hash |-> d.hash, next_seed |-> FillState(blake2b(next)),
         vm |-> [ran.vm EXCEPT !.pads = d.pads, !.active = fill, !.fpu = vm.fpu]]
  BY Zenon DEF randomx_calculate_hash_pipelined
<1> HIDE DEF ran, regs, v, key
<1>7. /\ d.hash = Digest(regs, Used(regs))
      /\ DOMAIN d.pads = {0, 1} /\ d.pads[fill] = Fill(blake2b(next))
  BY Zenon, <1>4 DEF PartD
<1> HIDE DEF d
<1> DEFINE after == [ran.vm EXCEPT !.pads = d.pads, !.active = fill, !.fpu = vm.fpu]
<1>8. IsVm(after) /\ after.cache = vm.cache /\ after.pads[after.active] = Fill(blake2b(next))
  BY Zenon, <1>1, <1>4, <1>7 DEF IsVm
<1> DEFINE r == randomx_calculate_hash_pipelined(vm, block, next, fill, seed)
<1>9. r.vm = after /\ r.hash = d.hash /\ r.next_seed = FillState(blake2b(next))
  BY <1>6
<1> HIDE DEF after, r
<1>10. /\ r.hash = RandomX(block, vm.cache) /\ r.next_seed = FillState(blake2b(next))
       /\ IsVm(r.vm) /\ r.vm.cache = vm.cache /\ r.vm.pads[r.vm.active] = Fill(blake2b(next))
  BY Zenon, <1>5, <1>7, <1>8, <1>9
<1> QED
  BY Zenon, <1>10 DEF r, AfterPipelined

(* A worker's counter stays in its residue class.                            *)
LEMMA NextTurn ==
  ASSUME NEW w, NEW n, Turn(n, w)
  PROVE  Turn(n + Stride, w)
<1>1. n \in Nat /\ n % NumThreads = w /\ NumThreads \in Nat \ {0}
  BY Zenon, ThreadsAssumption DEF Turn
<1>2. PICK q \in Int : n = NumThreads * q + w /\ w \in 0..(NumThreads - 1)
  <2>1. n % NumThreads \in 0..(NumThreads - 1) /\ n \div NumThreads \in Int
    BY <1>1
  <2>2. n = NumThreads * (n \div NumThreads) + (n % NumThreads)
    BY <1>1
  <2> QED
    BY Zenon, <1>1, <2>1, <2>2
<1>3. n + NumThreads = NumThreads * (q + 1) + w
  BY <1>1, <1>2
<1>4. (n + NumThreads) % NumThreads = w
  BY <1>1, <1>2, <1>3
<1> QED
  BY <1>1, <1>4 DEF Turn, Stride

(* A job change keeps a worker's invariant: whatever the pipeline had filled
   is not used again.                                                        *)
LEMMA AdoptKeeps ==
  ASSUME NEW w \in Workers, NEW s, WorkerInv(s, w), NEW gen, NEW j
  PROVE  WorkerInv(adopt(s, gen, j), w) /\ adopt(s, gen, j).job = j
<1> DEFINE u == adopt(s, gen, j)
<1>1. IsWorker(s) /\ s.thread_id = w
  BY Zenon DEF WorkerInv, Nonces
<1>2. /\ DOMAIN u = DOMAIN s /\ DOMAIN u.vm = DOMAIN s.vm
      /\ u.thread_id = w /\ u.job = j /\ u.pipelined_active = FALSE /\ u.calls = FALSE
      /\ u.local_nonce = w /\ u.sp_fill = s.sp_fill
      /\ u.vm.cache = j.seed /\ u.vm.active = s.vm.active /\ u.vm.pads = s.vm.pads
      /\ u.vm.fpu = s.vm.fpu
  BY Zenon, <1>1 DEF adopt, IsWorker, IsVm
<1> HIDE DEF u
<1>3. IsWorker(u)
  BY Zenon, <1>1, <1>2 DEF IsWorker, IsVm
<1>4. Nonces(u, w)
  <2>1. Turn(w, w)
    BY ThreadsAssumption DEF Turn, Workers
  <2> QED
    BY Zenon, <1>2, <2>1 DEF Nonces
<1>5. Pipeline(u)
  BY Zenon, <1>2 DEF Pipeline
<1> QED
  BY Zenon, <1>2, <1>3, <1>4, <1>5 DEF WorkerInv, u

(* Sitting a job out, or abandoning a turn, keeps it too: block_input and the
   filled scratchpad still belong to the nonce that comes next.              *)
LEMMA PauseKeeps ==
  ASSUME NEW w \in Workers, NEW s, WorkerInv(s, w)
  PROVE  /\ WorkerInv(deactivate(s), w) /\ deactivate(s).job = s.job
         /\ deactivate(s).active = FALSE
         /\ WorkerInv(abandoned(s), w) /\ abandoned(s).job = s.job
         /\ abandoned(s).active = s.active
<1> DEFINE d == deactivate(s)
           a == abandoned(s)
<1>1. IsWorker(s) /\ Nonces(s, w) /\ Pipeline(s)
  BY Zenon DEF WorkerInv
<1>2. Turn(s.local_nonce, w) /\ Turn(s.local_nonce + Stride, w)
  BY Zenon, <1>1, NextTurn DEF Nonces
<1>3. /\ DOMAIN d = DOMAIN s /\ d.local_nonce = s.local_nonce + Stride
      /\ d.thread_id = s.thread_id /\ d.vm = s.vm /\ d.job = s.job /\ d.active = FALSE
      /\ d.block_input = s.block_input /\ d.pipelined_active = s.pipelined_active
      /\ d.calls = s.calls /\ d.current_nonce = s.current_nonce /\ d.sp_fill = s.sp_fill
      /\ d.pipeline_seed = s.pipeline_seed
  BY Zenon, <1>1 DEF deactivate, IsWorker
<1>4. /\ DOMAIN a = DOMAIN s /\ a.local_nonce = s.local_nonce + Stride
      /\ a.thread_id = s.thread_id /\ a.vm = s.vm /\ a.job = s.job /\ a.active = s.active
      /\ a.pipelined_active = s.pipelined_active
      /\ a.calls = s.calls /\ a.sp_fill = s.sp_fill /\ a.pipeline_seed = s.pipeline_seed
      /\ a.pipelined_active => a.block_input = s.block_input /\ a.current_nonce = s.current_nonce
  BY Zenon, <1>1 DEF abandoned, IsWorker
<1> HIDE DEF d, a
<1>5. WorkerInv(d, w)
  <2>1. IsWorker(d)
    BY Zenon, <1>1, <1>3 DEF IsWorker
  <2>2. Nonces(d, w)
    BY Zenon, <1>1, <1>2, <1>3 DEF Nonces
  <2>3. Pipeline(d)
    BY Zenon, <1>1, <1>3 DEF Pipeline
  <2> QED
    BY Zenon, <2>1, <2>2, <2>3 DEF WorkerInv
<1>6. WorkerInv(a, w)
  <2>1. IsWorker(a)
    BY Zenon, <1>1, <1>4 DEF IsWorker
  <2>2. Nonces(a, w)
    BY Zenon, <1>1, <1>2, <1>4 DEF Nonces
  <2>3. Pipeline(a)
    BY Zenon, <1>1, <1>4 DEF Pipeline
  <2> QED
    BY Zenon, <2>1, <2>2, <2>3 DEF WorkerInv
<1> QED
  BY Zenon, <1>3, <1>4, <1>5, <1>6 DEF d, a

(* The first hash of a job.                                                  *)
LEMMA PrimedKeeps ==
  ASSUME NEW w \in Workers, NEW s, WorkerInv(s, w), ~s.pipelined_active
  PROVE  LET r == primed(s) IN
         /\ WorkerInv(r.worker, w) /\ r.worker.job = s.job /\ r.worker.active = s.active
         /\ Turn(r.nonce, w)
         /\ r.hash = RandomX(update_nonce_in_template(s.job, r.nonce), s.job.seed)
<1> DEFINE block == update_nonce_in_template(s.job, s.local_nonce)
           h == randomx_calculate_hash(s.vm, block)
           next == s.local_nonce + Stride
           r == primed(s)
           u == r.worker
<1>1. IsWorker(s) /\ Nonces(s, w) /\ Pipeline(s) /\ IsVm(s.vm) /\ s.vm.cache = s.job.seed
      /\ s.calls = FALSE
  BY Zenon DEF WorkerInv, IsWorker, Pipeline
<1>2. Turn(s.local_nonce, w) /\ Turn(next, w) /\ Turn(next + Stride, w)
  BY Zenon, <1>1, NextTurn DEF Nonces
<1>3. h.hash = RandomX(block, s.job.seed) /\ IsVm(h.vm) /\ h.vm.cache = s.job.seed
  BY Zenon, <1>1, PlainHash
<1> HIDE DEF h, block
<1>4. r.nonce = s.local_nonce /\ r.hash = h.hash
  BY Zenon DEF primed, h, block
<1>5. u = [s EXCEPT !.local_nonce = next + Stride, !.vm = h.vm,
                    !.block_input = update_nonce_in_template(s.job, next),
                    !.current_nonce = next, !.pipelined_active = TRUE, !.sp_fill = 1]
  BY Zenon DEF primed, h, block
<1> HIDE DEF r, next
<1>6. /\ DOMAIN u = DOMAIN s /\ u.local_nonce = next + Stride /\ u.vm = h.vm
      /\ u.block_input = update_nonce_in_template(s.job, next) /\ u.current_nonce = next
      /\ u.pipelined_active = TRUE /\ u.sp_fill = 1 /\ u.calls = s.calls
      /\ u.thread_id = s.thread_id /\ u.job = s.job /\ u.active = s.active
  BY ZenonT(60), <1>1, <1>5 DEF IsWorker
<1> HIDE DEF u
<1>7. IsWorker(u)
  BY Zenon, <1>1, <1>3, <1>6 DEF IsWorker
<1>8. Nonces(u, w)
  BY Zenon, <1>1, <1>2, <1>6 DEF Nonces
<1>9. Pipeline(u)
  BY Zenon, <1>1, <1>3, <1>6 DEF Pipeline
<1> QED
  BY Zenon, <1>2, <1>3, <1>4, <1>6, <1>7, <1>8, <1>9 DEF WorkerInv, r, u, block

(* A later hash: the block it hashes, the seed it takes over and the
   scratchpad it runs in belong together.                                    *)
LEMMA PipelinedKeeps ==
  ASSUME NEW w \in Workers, NEW s, WorkerInv(s, w), s.pipelined_active
  PROVE  LET r == pipelined(s) IN
         /\ WorkerInv(r.worker, w) /\ r.worker.job = s.job /\ r.worker.active = s.active
         /\ Turn(r.nonce, w)
         /\ r.hash = RandomX(update_nonce_in_template(s.job, r.nonce), s.job.seed)
<1> DEFINE taken == IF s.calls THEN s.pipeline_seed ELSE NoSeed
           following == update_nonce_in_template(s.job, s.local_nonce)
           h == randomx_calculate_hash_pipelined(s.vm, s.block_input, following, s.sp_fill, taken)
           r == pipelined(s)
           u == r.worker
<1>1. /\ IsWorker(s) /\ Nonces(s, w) /\ Pipeline(s) /\ IsVm(s.vm) /\ s.vm.cache = s.job.seed
      /\ s.block_input = update_nonce_in_template(s.job, s.current_nonce)
      /\ s.sp_fill \in {0, 1}
  BY Zenon DEF WorkerInv, IsWorker, Pipeline
<1>2. Turn(s.local_nonce, w) /\ Turn(s.current_nonce, w) /\ Turn(s.local_nonce + Stride, w)
  BY Zenon, <1>1, NextTurn DEF Nonces
<1>3. HandedOver(taken, s.vm, s.block_input)
  BY Zenon, <1>1 DEF Pipeline, HandedOver
<1> HIDE DEF taken, following
<1>4. /\ h.hash = RandomX(s.block_input, s.job.seed) /\ h.next_seed = FillState(blake2b(following))
      /\ IsVm(h.vm) /\ h.vm.cache = s.job.seed /\ h.vm.pads[h.vm.active] = Fill(blake2b(following))
  <2>1. /\ h.hash = RandomX(s.block_input, s.vm.cache)
        /\ h.next_seed = FillState(blake2b(following))
        /\ IsVm(h.vm) /\ h.vm.cache = s.vm.cache
        /\ h.vm.pads[h.vm.active] = Fill(blake2b(following))
    <3>1. AfterPipelined(h, s.vm, s.block_input, following)
      BY Zenon, <1>1, <1>3, PipelinedHash
    <3> HIDE DEF h
    <3> QED
      BY Zenon, <3>1 DEF AfterPipelined
  <2> QED
    BY ZenonT(60), <1>1, <2>1
<1> HIDE DEF h
<1>5. r.nonce = s.current_nonce /\ r.hash = h.hash
  BY Zenon DEF pipelined, h, following, taken
<1> DEFINE counter == s.local_nonce + Stride
           other == 1 - s.sp_fill
<1>6. u = [s EXCEPT !.local_nonce = counter, !.vm = h.vm, !.calls = TRUE,
                    !.pipeline_seed = h.next_seed, !.sp_fill = other,
                    !.block_input = following, !.current_nonce = s.local_nonce]
  BY Zenon DEF pipelined, h, following, taken
<1>a. other \in {0, 1}
  <2>1. s.sp_fill = 0 \/ s.sp_fill = 1
    BY Zenon, <1>1
  <2> QED
    BY <2>1
<1> HIDE DEF r, counter, other
<1>7. /\ DOMAIN u = DOMAIN s /\ u.local_nonce = counter /\ u.vm = h.vm
      /\ u.block_input = following /\ u.current_nonce = s.local_nonce /\ u.calls = TRUE
      /\ u.pipelined_active = s.pipelined_active /\ u.sp_fill = other
      /\ u.pipeline_seed = h.next_seed
      /\ u.thread_id = s.thread_id /\ u.job = s.job /\ u.active = s.active
  <2> DEFINE half == [s EXCEPT !.local_nonce = counter, !.vm = h.vm, !.calls = TRUE,
                               !.pipeline_seed = h.next_seed]
  <2>1. u = [half EXCEPT !.sp_fill = other, !.block_input = following,
                         !.current_nonce = s.local_nonce]
    BY Zenon, <1>6
  <2>2. /\ DOMAIN half = DOMAIN s /\ half.local_nonce = counter /\ half.vm = h.vm
        /\ half.calls = TRUE /\ half.pipeline_seed = h.next_seed
        /\ half.pipelined_active = s.pipelined_active
        /\ half.thread_id = s.thread_id /\ half.job = s.job /\ half.active = s.active
    BY Zenon, <1>1 DEF IsWorker
  <2> HIDE DEF half
  <2>3. DOMAIN u = DOMAIN s
    BY Zenon, <2>1, <2>2
  <2>4. u.sp_fill = other /\ u.block_input = following /\ u.current_nonce = s.local_nonce
    BY Zenon, <1>1, <2>1, <2>2 DEF IsWorker
  <2>5. u.local_nonce = counter /\ u.vm = h.vm /\ u.pipeline_seed = h.next_seed
    BY Zenon, <1>1, <2>1, <2>2 DEF IsWorker
  <2>6. u.calls = TRUE
    BY Zenon, <1>1, <2>1, <2>2 DEF IsWorker
  <2>7. u.pipelined_active = s.pipelined_active
    BY Zenon, <1>1, <2>1, <2>2 DEF IsWorker
  <2>8. /\ u.thread_id = s.thread_id /\ u.job = s.job /\ u.active = s.active
    BY <1>1, <2>1, <2>2 DEF IsWorker
  <2> QED
    BY Zenon, <2>3, <2>4, <2>5, <2>6, <2>7, <2>8
<1> HIDE DEF u
<1>8. IsWorker(u)
  BY Zenon, <1>1, <1>4, <1>7, <1>a DEF IsWorker
<1>9. Nonces(u, w)
  BY Zenon, <1>1, <1>2, <1>7 DEF Nonces, counter
<1>10. Pipeline(u)
  BY Zenon, <1>4, <1>7 DEF Pipeline, following
<1> QED
  BY Zenon, <1>1, <1>2, <1>4, <1>5, <1>7, <1>8, <1>9, <1>10 DEF WorkerInv, r, u

(* One turn of a worker that hashes: every hash it looks at is the RandomX
   hash of its job's template with a nonce of its own.                       *)
THEOREM HashedKeeps ==
  ASSUME NEW w \in Workers, NEW s, WorkerInv(s, w)
  PROVE  LET r == hashed(s) IN
         /\ WorkerInv(r.worker, w) /\ r.worker.job = s.job /\ r.worker.active = s.active
         /\ Turn(r.nonce, w)
         /\ r.hash = RandomX(update_nonce_in_template(s.job, r.nonce), s.job.seed)
<1>1. CASE s.pipelined_active
  <2>1. hashed(s) = pipelined(s)
    BY Zenon, <1>1 DEF hashed
  <2> QED
    BY Zenon, <1>1, <2>1, PipelinedKeeps
<1>2. CASE ~s.pipelined_active
  <2>1. hashed(s) = primed(s)
    BY Zenon, <1>2 DEF hashed
  <2> QED
    BY Zenon, <1>2, <2>1, PrimedKeeps
<1> QED
  BY Zenon, <1>1, <1>2

-----------------------------------------------------------------------------
(* Targets as the code stores them.                                           *)
Targets == [1..Digits -> Digit]

(* The workers' part.                                                         *)
WorkersInv ==
  /\ ws = [w \in Workers |-> ws[w]] /\ tried = [w \in Workers |-> tried[w]]
  /\ \A w \in Workers : WorkerInv(ws[w], w) /\ \A n \in tried[w] : Turn(n, w)

(* A job the pool has sent, with the target it announced for it.              *)
JobKnown(j) == j.id \in 1..sent /\ j.target \in Targets /\ Value(j.target) = announced.jobs[j.id]

(* The targets' part.                                                         *)
TargetsInv ==
  /\ sent \in 0..MaxMessages
  /\ current_target_ \in Targets /\ Value(current_target_) = announced.inForce
  /\ announced.jobs = [id \in 1..MaxMessages |-> announced.jobs[id]]
  /\ \A j \in setting \union current_job_ : JobKnown(j)
  /\ \A w \in Workers : ws[w].active => JobKnown(ws[w].job)
  /\ \A w \in Workers : ws[w].job.target \in {<<>>} \union Targets

(* The shares' part.                                                          *)
SharesInv ==
  \A s \in shares :
    /\ s.job.fits
    /\ JobKnown(s.job)
    /\ s.hash = RandomX([id |-> s.job.id, nonce |-> s.nonce], s.job.seed)
    /\ Value(HashDigits(s.hash)) <= Value(s.job.target)

(* What a target field of a message means, and what the client makes of it.   *)
LEMMA TargetField ==
  ASSUME NEW m \in Messages, m.method # "mining.set_difficulty"
  PROVE  /\ Len(m.target) = CompactDigits =>
              expand(m.target) \in Targets /\ Value(expand(m.target)) = Means(m)
         /\ Len(m.target) = Digits => m.target \in Targets /\ Value(m.target) = Means(m)
         /\ Len(m.target) \notin {CompactDigits, Digits} => Means(m) = announced.inForce
<1>1. m.target \in Seq(Digit)
  BY Zenon, MessagesAssumption DEF Digit
<1>2. CompactDigits \in Nat /\ Digits \in Nat /\ CompactDigits # Digits
  BY TargetAssumption
<1>3. ASSUME Len(m.target) = CompactDigits
      PROVE  expand(m.target) \in Targets /\ Value(expand(m.target)) = Means(m)
  <2>1. m.target \in [1..CompactDigits -> Digit]
    BY <1>1, <1>3
  <2>2. /\ expand(m.target) \in Targets
        /\ Value(expand(m.target)) = (Value(m.target) + 1) * Power[Digits - CompactDigits] - 1
    BY Zenon, <2>1, Expansion DEF Targets
  <2>3. Means(m) = (Value(m.target) + 1) * Power[Digits - CompactDigits] - 1
    BY Zenon, <1>2, <1>3 DEF Means
  <2> QED
    BY Zenon, <2>2, <2>3
<1>4. ASSUME Len(m.target) = Digits
      PROVE  m.target \in Targets /\ Value(m.target) = Means(m)
  <2>1. m.target \in [1..Digits -> Digit]
    BY <1>1, <1>4
  <2> QED
    BY Zenon, <1>2, <1>4, <2>1 DEF Means, Targets
<1>5. Len(m.target) \notin {CompactDigits, Digits} => Means(m) = announced.inForce
  BY Zenon DEF Means
<1> QED
  BY Zenon, <1>3, <1>4, <1>5

(* Whether the target in force changes with a message.                        *)
Taken(m) == m.method \notin {"mining.notify", "job"} \/ valid_job_hex(m)

(* handle_line: the target in force, and that of the job it hands on, are the
   ones the pool means.                                                       *)
LEMMA HandledMessage ==
  ASSUME NEW m \in Messages, NEW id, NEW current, current \in Targets,
         Value(current) = announced.inForce
  PROVE  /\ handle_line(m, id, current).target \in Targets
         /\ Value(handle_line(m, id, current).target) =
              IF Taken(m) /\ m.method # "mining.notify" THEN Means(m) ELSE announced.inForce
         /\ \A j \in handle_line(m, id, current).jobs :
              j.id = id /\ j.target \in Targets /\ Value(j.target) = Means(m)
<1>1. m.method \in {"mining.notify", "job", "mining.set_target", "mining.set_difficulty"}
  BY Zenon, MessagesAssumption
<1>2. CompactDigits # Digits
  BY TargetAssumption
<1>3. CASE m.method = "mining.notify"
  <2> DEFINE t == NotifyTarget(m, current)
  <2>1. handle_line(m, id, current) =
          [target |-> current, jobs |-> IF valid_job_hex(m) THEN {job(id, m, t)} ELSE {}]
    BY Zenon, <1>3 DEF handle_line, handle_notify
  <2>2. t \in Targets /\ Value(t) = Means(m)
    <3>1. Len(m.target) # Digits
      BY Zenon, <1>3, PoolAssumption
    <3> QED
      BY Zenon, <1>3, <3>1, TargetField DEF NotifyTarget
  <2>3. job(id, m, t).id = id /\ job(id, m, t).target = t
    BY Zenon DEF job
  <2> HIDE DEF t
  <2> QED
    BY <1>3, <2>1, <2>2, <2>3
<1>4. CASE m.method = "job"
  <2> DEFINE t == CryptonoteTarget(m, current)
  <2>1. handle_line(m, id, current) =
          IF valid_job_hex(m) THEN [target |-> t, jobs |-> {job(id, m, t)}]
          ELSE [target |-> current, jobs |-> {}]
    BY Zenon, <1>4 DEF handle_line, process_cryptonote_job
  <2>2. t \in Targets /\ Value(t) = Means(m)
    BY Zenon, <1>2, <1>4, TargetField DEF CryptonoteTarget
  <2>3. job(id, m, t).id = id /\ job(id, m, t).target = t
    BY Zenon DEF job
  <2> HIDE DEF t
  <2>4. CASE valid_job_hex(m)
    BY SMTT(30), <1>4, <2>1, <2>2, <2>3, <2>4 DEF Taken
  <2>5. CASE ~valid_job_hex(m)
    <3>1. handle_line(m, id, current) = [target |-> current, jobs |-> {}] /\ ~Taken(m)
      BY Zenon, <1>4, <2>1, <2>5 DEF Taken
    <3> QED
      BY <3>1
  <2> QED
    BY Zenon, <2>4, <2>5
<1>5. CASE m.method = "mining.set_target"
  <2>1. handle_line(m, id, current) =
          [target |-> IF Len(m.target) = Digits THEN m.target ELSE current, jobs |-> {}]
    BY Zenon, <1>5 DEF handle_line, handle_set_target
  <2>2. Len(m.target) # CompactDigits
    BY Zenon, <1>5, PoolAssumption
  <2> QED
    BY <1>5, <2>1, <2>2, TargetField DEF Taken
<1>6. CASE m.method = "mining.set_difficulty"
  <2>1. handle_line(m, id, current) =
          [target |-> IF m.parses THEN difficulty_to_target(m.diff) ELSE current, jobs |-> {}]
    BY Zenon, <1>6 DEF handle_line, handle_set_difficulty
  <2>2. m.diff \in Int /\ (m.parses => m.diff <= 0 \/ Exact(m.diff))
    BY Zenon, <1>6, MessagesAssumption, PoolAssumption
  <2>3. ASSUME m.parses
        PROVE  /\ difficulty_to_target(m.diff) \in Targets
               /\ Value(difficulty_to_target(m.diff)) = Means(m)
    <3>1. Means(m) = IF m.diff <= 0 THEN MaxTarget ELSE MaxTarget \div m.diff
      BY Zenon, <1>6, <2>3 DEF Means
    <3> QED
      BY Zenon, <2>2, <2>3, <3>1, DifficultyType, DifficultyTarget DEF Targets
  <2>4. ~m.parses => Means(m) = announced.inForce
    BY Zenon, <1>6 DEF Means
  <2> QED
    BY <1>6, <2>1, <2>3, <2>4 DEF Taken
<1> QED
  BY Zenon, <1>1, <1>3, <1>4, <1>5, <1>6

(* The digits compared with the target are those of a target.                 *)
LEMMA HashDigitsType ==
  ASSUME NEW j, j.id \in Nat, NEW n \in Nat, NEW seed
  PROVE  HashDigits(RandomX(update_nonce_in_template(j, n), seed)) \in Targets
<1> DEFINE block == update_nonce_in_template(j, n)
           v == (11 * block.nonce + 23 * block.id + 5) % Power[Digits]
<1>1. RandomX(block, seed).regs.state.filled.seed = block
  BY Zenon DEF RandomX, Digest, Ran, FillState, blake2b
<1>2. block.nonce \in Nat /\ block.id \in Nat
  BY SpaceAssumption DEF update_nonce_in_template
<1>3. Digits \in Nat \ {0} /\ Base \in Nat \ {0}
  BY Zenon, TargetAssumption
<1>4. v \in Nat
  <2>1. PICK p \in Nat \ {0} : p = Power[Digits]
    BY <1>3, PowerDef
  <2>2. PICK s \in Nat : s = 11 * block.nonce + 23 * block.id + 5
    BY <1>2
  <2> QED
    BY <2>1, <2>2
<1>5. HashDigits(RandomX(block, seed)) = [i \in 1..Digits |-> (v \div Power[i - 1]) % Base]
  BY Zenon, <1>1 DEF HashDigits
<1> HIDE DEF v
<1>6. \A i \in 1..Digits : (v \div Power[i - 1]) % Base \in Digit
  <2> TAKE i \in 1..Digits
  <2>1. PICK p \in Nat \ {0} : p = Power[i - 1]
    BY <1>3, PowerDef
  <2>2. PICK q \in Nat : q = v \div p
    BY <1>4
  <2> QED
    BY <1>3, <2>1, <2>2 DEF Digit
<1> QED
  BY Zenon, <1>5, <1>6 DEF Targets

-----------------------------------------------------------------------------
(* The invariant the three parts make up.                                     *)
FlowInv == WorkersInv /\ TargetsInv /\ SharesInv

(* An issued job keeps its number and the target the pool announced for it.   *)
LEMMA KnownStays ==
  ASSUME TargetsInv, Next
  PROVE  \A j : JobKnown(j) => JobKnown(j)'
<1>1. CASE UNCHANGED client
  BY Zenon, <1>1 DEF client, JobKnown
<1>2. ASSUME NEW m \in Messages, Receive(m)
      PROVE  \A j : JobKnown(j) => JobKnown(j)'
  <2>1. /\ sent \in Nat /\ sent' = sent + 1
        /\ announced'.jobs = [announced.jobs EXCEPT ![sent + 1] = Means(m)]
    BY <1>2, BoundsAssumption DEF Receive, TargetsInv
  <2>2. \A id \in 1..sent : announced'.jobs[id] = announced.jobs[id]
    BY <2>1 DEF TargetsInv
  <2> QED
    BY <2>1, <2>2 DEF JobKnown
<1> QED
  BY Zenon, <1>1, <1>2 DEF Next, Worker, Publish, LoadGeneration, Adopt, Deactivate, Abandon, Hash

(* The initial states.                                                        *)
LEMMA FlowInit == Init => FlowInv
<1> SUFFICES ASSUME Init PROVE FlowInv
  BY Zenon
<1>1. WorkersInv
  <2>1. ASSUME NEW w \in Workers PROVE WorkerInv(NewWorker(w), w)
    <3>1. Turn(w, w)
      BY ThreadsAssumption DEF Turn, Workers
    <3>2. IsWorker(NewWorker(w))
      BY Zenon DEF NewWorker, IsWorker, IsVm
    <3>3. Nonces(NewWorker(w), w)
      BY Zenon, <3>1 DEF NewWorker, Nonces
    <3>4. Pipeline(NewWorker(w))
      BY Zenon DEF NewWorker, Pipeline
    <3> QED
      BY Zenon, <3>2, <3>3, <3>4 DEF WorkerInv
  <2> QED
    BY Zenon, <2>1 DEF Init, WorkersInv
<1>2. TargetsInv
  <2>1. current_target_ \in Targets /\ Value(current_target_) = 0
    <3>1. current_target_ \in [1..Digits -> Digit] /\ \A i \in 1..Digits : current_target_[i] = 0
      BY TargetAssumption DEF Init, Digit
    <3> QED
      BY Zenon, <3>1, ZeroValue DEF Targets
  <2>2. \A w \in Workers : ws[w].active = FALSE /\ ws[w].job.target = <<>>
    BY Zenon DEF Init, NewWorker
  <2>3. sent \in 0..MaxMessages
    BY BoundsAssumption DEF Init
  <2>4. announced.inForce = 0 /\ announced.jobs = [id \in 1..MaxMessages |-> announced.jobs[id]]
    BY Zenon DEF Init
  <2> QED
    BY Zenon, <2>1, <2>2, <2>3, <2>4 DEF Init, TargetsInv
<1>3. SharesInv
  BY Zenon DEF Init, SharesInv
<1> QED
  BY Zenon, <1>1, <1>2, <1>3 DEF FlowInv

(* The workers' part: only its own turn changes a worker.                      *)
LEMMA WorkersStep ==
  ASSUME FlowInv, Next
  PROVE  WorkersInv'
<1>1. WorkersInv
  BY Zenon DEF FlowInv
<1>2. CASE UNCHANGED <<ws, tried>>
  BY Zenon, <1>1, <1>2 DEF WorkersInv
<1>3. ASSUME NEW w \in Workers, NEW s, WorkerInv(s, w), ws' = [ws EXCEPT ![w] = s],
             NEW T, \A n \in T : Turn(n, w), tried' = [tried EXCEPT ![w] = T]
      PROVE  WorkersInv'
  <2>1. /\ ws' = [v \in Workers |-> ws'[v]] /\ tried' = [v \in Workers |-> tried'[v]]
        /\ ws'[w] = s /\ tried'[w] = T
        /\ \A v \in Workers \ {w} : ws'[v] = ws[v] /\ tried'[v] = tried[v]
    BY Zenon, <1>1, <1>3 DEF WorkersInv
  <2>2. ASSUME NEW v \in Workers PROVE WorkerInv(ws'[v], v) /\ \A n \in tried'[v] : Turn(n, v)
    BY ZenonT(30), <1>1, <1>3, <2>1 DEF WorkersInv
  <2> QED
    BY Zenon, <2>1, <2>2 DEF WorkersInv
<1>4. ASSUME NEW w \in Workers
      PROVE  /\ WorkerInv(ws[w], w) /\ \A n \in tried[w] : Turn(n, w)
             /\ tried = [tried EXCEPT ![w] = tried[w]]
  BY Zenon, <1>1 DEF WorkersInv
<1>5. ASSUME NEW w \in Workers, Adopt(w) PROVE WorkersInv'
  <2>1. PICK j \in current_job_ : ws' = [ws EXCEPT ![w] = adopt(ws[w], seen[w], j)]
    BY Zenon, <1>5 DEF Adopt
  <2> DEFINE T == {}
  <2>2. tried' = [tried EXCEPT ![w] = T] /\ \A n \in T : Turn(n, w)
    BY Zenon, <1>5 DEF Adopt
  <2>3. WorkerInv(adopt(ws[w], seen[w], j), w)
    BY Zenon, <1>4, AdoptKeeps
  <2> HIDE DEF T
  <2> QED
    BY Zenon, <1>3, <2>1, <2>2, <2>3
<1>6. ASSUME NEW w \in Workers, Deactivate(w) PROVE WorkersInv'
  <2>1. WorkerInv(deactivate(ws[w]), w)
    BY Zenon, <1>4, PauseKeeps
  <2>2. ws' = [ws EXCEPT ![w] = deactivate(ws[w])] /\ tried' = [tried EXCEPT ![w] = tried[w]]
    BY Zenon, <1>4, <1>6 DEF Deactivate
  <2> QED
    BY Zenon, <1>3, <1>4, <2>1, <2>2
<1>7. ASSUME NEW w \in Workers, Abandon(w) PROVE WorkersInv'
  <2>1. WorkerInv(abandoned(ws[w]), w)
    BY Zenon, <1>4, PauseKeeps
  <2>2. ws' = [ws EXCEPT ![w] = abandoned(ws[w])] /\ tried' = [tried EXCEPT ![w] = tried[w]]
    BY Zenon, <1>4, <1>7 DEF Abandon
  <2> QED
    BY Zenon, <1>3, <1>4, <2>1, <2>2
<1>8. ASSUME NEW w \in Workers, Hash(w) PROVE WorkersInv'
  <2> DEFINE r == hashed(ws[w])
             T == tried[w] \union {r.nonce}
  <2>1. WorkerInv(r.worker, w) /\ Turn(r.nonce, w)
    BY Zenon, <1>4, HashedKeeps
  <2>2. ws' = [ws EXCEPT ![w] = r.worker] /\ tried' = [tried EXCEPT ![w] = T]
    BY Zenon, <1>1, <1>8 DEF Hash, WorkersInv
  <2>3. \A n \in T : Turn(n, w)
    BY Zenon, <1>4, <2>1
  <2> HIDE DEF r, T
  <2> QED
    BY Zenon, <1>3, <2>1, <2>2, <2>3
<1> QED
  BY Zenon, <1>2, <1>5, <1>6, <1>7, <1>8 DEF Next, Worker, Receive, Publish, LoadGeneration, workers

(* The targets' part: the client, the engine and the workers only ever hold
   jobs with the pool's targets.                                               *)
LEMMA TargetsStep ==
  ASSUME FlowInv, Next
  PROVE  TargetsInv'
<1>1. TargetsInv /\ WorkersInv
  BY Zenon DEF FlowInv
<1>2. \A j : JobKnown(j) => JobKnown(j)'
  BY Zenon, <1>1, KnownStays
<1> DEFINE Front == /\ sent \in 0..MaxMessages
                    /\ current_target_ \in Targets /\ Value(current_target_) = announced.inForce
                    /\ announced.jobs = [id \in 1..MaxMessages |-> announced.jobs[id]]
           Held == \A j \in setting \union current_job_ : JobKnown(j)
           Mined == \A w \in Workers : /\ ws[w].active => JobKnown(ws[w].job)
                                       /\ ws[w].job.target \in {<<>>} \union Targets
<1>3. TargetsInv <=> Front /\ Held /\ Mined
  BY Zenon DEF TargetsInv
<1>4. TargetsInv' <=> Front' /\ Held' /\ Mined'
  BY Zenon DEF TargetsInv
<1>5. UNCHANGED client => Front'
  BY Zenon, <1>1, <1>3 DEF client
<1>6. UNCHANGED engine => Held'
  BY Zenon, <1>1, <1>2, <1>3 DEF engine
<1>7. UNCHANGED ws => Mined'
  BY Zenon, <1>1, <1>2, <1>3
<1>8. ASSUME NEW m \in Messages, Receive(m) PROVE TargetsInv'
  <2> DEFINE r == handle_line(m, sent + 1, current_target_)
  <2>1. /\ r.target \in Targets
        /\ Value(r.target) =
             IF Taken(m) /\ m.method # "mining.notify" THEN Means(m) ELSE announced.inForce
        /\ \A j \in r.jobs : j.id = sent + 1 /\ j.target \in Targets /\ Value(j.target) = Means(m)
    BY <1>1, HandledMessage DEF TargetsInv
  <2>2. /\ setting = {} /\ sent < MaxMessages /\ sent' = sent + 1
        /\ current_target_' = r.target /\ setting' = r.jobs /\ current_job_' = current_job_
        /\ announced' = [inForce |-> IF Taken(m) /\ m.method # "mining.notify" THEN Means(m)
                                     ELSE announced.inForce,
                         jobs |-> [announced.jobs EXCEPT ![sent + 1] = Means(m)]]
        /\ UNCHANGED ws
    BY Zenon, <1>8 DEF Receive, Taken, workers
  <2> HIDE DEF r
  <2>3. sent + 1 \in 1..MaxMessages /\ sent' \in 0..MaxMessages /\ sent + 1 \in 1..sent'
    <3>1. sent \in 0..MaxMessages /\ sent < MaxMessages /\ sent' = sent + 1
      BY Zenon, <1>1, <2>2 DEF TargetsInv
    <3> QED
      BY <3>1, BoundsAssumption
  <2>4. /\ announced'.jobs = [id \in 1..MaxMessages |-> announced'.jobs[id]]
        /\ announced'.jobs[sent + 1] = Means(m)
        /\ Value(r.target) = announced'.inForce
    BY Zenon, <1>1, <2>1, <2>2, <2>3 DEF TargetsInv
  <2>5. Front'
    BY Zenon, <2>1, <2>2, <2>3, <2>4
  <2>6. \A j \in r.jobs : JobKnown(j)'
    BY Zenon, <2>1, <2>2, <2>3, <2>4 DEF JobKnown
  <2>7. Held'
    BY Zenon, <1>1, <1>2, <1>3, <2>2, <2>6
  <2> QED
    BY Zenon, <1>4, <1>7, <2>2, <2>5, <2>7
<1>9. ASSUME Publish PROVE TargetsInv'
  <2>1. current_job_' = setting /\ setting' = {} /\ UNCHANGED client /\ UNCHANGED ws
    BY Zenon, <1>9 DEF Publish, workers
  <2>2. Held'
    BY Zenon, <1>1, <1>2, <1>3, <2>1
  <2> QED
    BY Zenon, <1>4, <1>5, <1>7, <2>1, <2>2
<1>10. ASSUME NEW w \in Workers, NEW s, ws' = [ws EXCEPT ![w] = s], UNCHANGED <<client, engine>>,
              s.active => JobKnown(s.job)', s.job.target \in {<<>>} \union Targets
       PROVE  TargetsInv'
  <2>1. ws'[w] = s /\ \A v \in Workers \ {w} : ws'[v] = ws[v]
    BY Zenon, <1>1, <1>10 DEF WorkersInv
  <2>2. Mined'
    BY Zenon, <1>1, <1>2, <1>3, <1>10, <2>1
  <2> QED
    BY Zenon, <1>4, <1>5, <1>6, <1>10, <2>2
<1>11. ASSUME NEW w \in Workers, NEW s, ws' = [ws EXCEPT ![w] = s], UNCHANGED <<client, engine>>,
              s.active => ws[w].active, s.job = ws[w].job
       PROVE  TargetsInv'
  <2>1. s.active => JobKnown(s.job)'
    BY Zenon, <1>1, <1>2, <1>3, <1>11
  <2>2. s.job.target \in {<<>>} \union Targets
    BY Zenon, <1>1, <1>3, <1>11
  <2> QED
    BY Zenon, <1>10, <1>11, <2>1, <2>2
<1>12. \A w \in Workers : WorkerInv(ws[w], w)
  BY Zenon, <1>1 DEF WorkersInv
<1>13. ASSUME NEW w \in Workers, LoadGeneration(w) PROVE TargetsInv'
  BY Zenon, <1>4, <1>5, <1>6, <1>7, <1>13 DEF LoadGeneration
<1>14. ASSUME NEW w \in Workers, Adopt(w) PROVE TargetsInv'
  <2>1. PICK j \in current_job_ : ws' = [ws EXCEPT ![w] = adopt(ws[w], seen[w], j)]
    BY Zenon, <1>14 DEF Adopt
  <2>2. UNCHANGED <<client, engine>>
    BY Zenon, <1>14 DEF Adopt
  <2>3. adopt(ws[w], seen[w], j).job = j
    BY <1>12, AdoptKeeps
  <2>4. JobKnown(j)' /\ j.target \in Targets
    BY Zenon, <1>1, <1>2, <1>3 DEF JobKnown
  <2> QED
    BY Zenon, <1>10, <2>1, <2>2, <2>3, <2>4
<1>15. ASSUME NEW w \in Workers, Deactivate(w) PROVE TargetsInv'
  <2>1. deactivate(ws[w]).job = ws[w].job /\ deactivate(ws[w]).active = FALSE
    BY Zenon, <1>12, PauseKeeps
  <2>2. ws' = [ws EXCEPT ![w] = deactivate(ws[w])] /\ UNCHANGED <<client, engine>>
    BY Zenon, <1>15 DEF Deactivate
  <2> QED
    BY Zenon, <1>11, <2>1, <2>2
<1>16. ASSUME NEW w \in Workers, Abandon(w) PROVE TargetsInv'
  <2>1. abandoned(ws[w]).job = ws[w].job /\ abandoned(ws[w]).active = ws[w].active
    BY Zenon, <1>12, PauseKeeps
  <2>2. ws' = [ws EXCEPT ![w] = abandoned(ws[w])] /\ UNCHANGED <<client, engine>>
    BY Zenon, <1>16 DEF Abandon
  <2> QED
    BY Zenon, <1>11, <2>1, <2>2
<1>17. ASSUME NEW w \in Workers, Hash(w) PROVE TargetsInv'
  <2>1. hashed(ws[w]).worker.job = ws[w].job /\ hashed(ws[w]).worker.active = ws[w].active
    BY Zenon, <1>12, HashedKeeps
  <2>2. ws' = [ws EXCEPT ![w] = hashed(ws[w]).worker] /\ UNCHANGED <<client, engine>>
    BY Zenon, <1>17 DEF Hash
  <2> QED
    BY Zenon, <1>11, <2>1, <2>2
<1> QED
  BY Zenon, <1>8, <1>9, <1>13, <1>14, <1>15, <1>16, <1>17 DEF Next, Worker

(* The shares' part: what is submitted carries the right hash, and the
   comparison of digits was the comparison with the pool's number.             *)
LEMMA SharesStep ==
  ASSUME FlowInv, Next
  PROVE  SharesInv'
<1>1. TargetsInv /\ WorkersInv /\ SharesInv
  BY Zenon DEF FlowInv
<1>2. \A j : JobKnown(j) => JobKnown(j)'
  BY Zenon, <1>1, KnownStays
<1>3. CASE UNCHANGED shares
  BY Zenon, <1>1, <1>2, <1>3 DEF SharesInv
<1>4. ASSUME NEW w \in Workers, Hash(w) PROVE SharesInv'
  <2> DEFINE s == ws[w]
             r == hashed(s)
             sh == share(s, r)
  <2>1. s.active /\ s.job.fits
    BY Zenon, <1>4 DEF Hash, CanHash
  <2>2. WorkerInv(s, w) /\ JobKnown(s.job)
    BY Zenon, <1>1, <2>1 DEF WorkersInv, TargetsInv
  <2>3. /\ r.hash = RandomX(update_nonce_in_template(s.job, r.nonce), s.job.seed)
        /\ r.nonce \in Nat
    BY Zenon, <2>2, HashedKeeps DEF Turn
  <2> HIDE DEF s, r
  <2>4. HashDigits(r.hash) \in Targets
    <3>1. s.job.id \in Nat
      <4>1. s.job.id \in 1..sent /\ sent \in 0..MaxMessages
        BY Zenon, <1>1, <2>2 DEF JobKnown, TargetsInv
      <4> QED
        BY <4>1, BoundsAssumption
    <3> QED
      BY Zenon, <2>3, <3>1, HashDigitsType
  <2>5. /\ sh.job = s.job /\ sh.hash = r.hash
        /\ [id |-> sh.job.id, nonce |-> sh.nonce] = update_nonce_in_template(s.job, r.nonce)
    BY Zenon DEF share, update_nonce_in_template
  <2>6. meets_target(HashDigits(r.hash), s.job.target)
           => Value(HashDigits(r.hash)) <= Value(s.job.target)
    BY Zenon, <2>2, <2>4, Comparison DEF JobKnown, Targets
  <2>7. \A t \in shares' \ shares : t = sh /\ meets_target(HashDigits(r.hash), s.job.target)
    BY Zenon, <1>4 DEF Hash, s, r
  <2>8. ASSUME NEW t \in shares' \ shares
        PROVE  /\ t.job.fits
               /\ JobKnown(t.job)'
               /\ t.hash = RandomX([id |-> t.job.id, nonce |-> t.nonce], t.job.seed)
               /\ Value(HashDigits(t.hash)) <= Value(t.job.target)
    <3> HIDE DEF sh
    <3>1. t = sh
      BY Zenon, <2>7
    <3> QED
      BY Zenon, <1>2, <2>1, <2>2, <2>3, <2>5, <2>6, <2>7, <3>1
  <2> QED
    BY Zenon, <1>1, <1>2, <2>8 DEF SharesInv
<1> QED
  BY Zenon, <1>3, <1>4 DEF Next, Worker, Receive, Publish, LoadGeneration, Adopt, Deactivate,
    Abandon, workers

(* The invariant is inductive.                                                 *)
THEOREM FlowInvariant == Spec => []FlowInv
<1>1. Init => FlowInv
  BY Zenon, FlowInit
<1>2. FlowInv /\ [Next]_vars => FlowInv'
  <2> SUFFICES ASSUME FlowInv, [Next]_vars PROVE FlowInv'
    BY Zenon
  <2>1. CASE Next
    BY Zenon, <2>1, WorkersStep, TargetsStep, SharesStep DEF FlowInv
  <2>2. CASE UNCHANGED vars
    BY Zenon, <2>2 DEF vars, client, engine, workers, FlowInv, WorkersInv, TargetsInv, SharesInv,
      JobKnown
  <2> QED
    BY Zenon, <2>1, <2>2
<1> QED
  BY <1>1, <1>2, PTL DEF Spec

(* For every number of workers, size of the nonce field, base and number of
   digits: targets keep their length, a worker only hashes nonces of its own
   residue class, and no share is for a job whose nonce field does not fit.    *)
THEOREM FlowTypes == Spec => []TypeOK
<1>1. FlowInv => TypeOK
  BY Zenon DEF FlowInv, WorkersInv, TargetsInv, SharesInv, WorkerInv, IsWorker, IsVm, Turn, TypeOK,
         Targets, Digit
<1> QED
  BY <1>1, FlowInvariant, PTL

(* Every submitted share carries the RandomX hash of its job's template with
   the submitted nonce, for any number of workers and any order of messages,
   job changes, abandoned turns and pipelined hashes.                          *)
THEOREM SharesValid == Spec => []ShareIsValid
<1>1. FlowInv => ShareIsValid
  BY Zenon DEF FlowInv, SharesInv, ShareIsValid
<1> QED
  BY <1>1, FlowInvariant, PTL

(* A worker mines against exactly the number the pool announced for its job,
   and a share's hash is at most that number: for every base, number of digits
   and word, and every pool that keeps to PoolAssumption.                      *)
THEOREM SharesMeetTarget == Spec => []ShareMeetsPoolTarget
<1>1. FlowInv => ShareMeetsPoolTarget
  BY Zenon DEF FlowInv, TargetsInv, SharesInv, JobKnown, ShareMeetsPoolTarget
<1> QED
  BY <1>1, FlowInvariant, PTL
=============================================================================
