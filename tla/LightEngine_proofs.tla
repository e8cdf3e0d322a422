-------------------------- MODULE LightEngine_proofs --------------------------
(***************************************************************************)
(* Light mode for any number of workers, seeds, jobs and items: a hash      *)
(* never mixes two seeds while the engine runs, and always uses its job's   *)
(* cache.                                                                   *)
(*                                                                          *)
(* Then the schedulers that reorder the programs the workers' virtual       *)
(* machines compile, for every program.                                     *)
(***************************************************************************)
EXTENDS LightEngine, JitSchedule, WellFoundedInduction, TLAPS

(* The engine.                                                               *)

(* set_job() is in progress exactly while it holds job_mutex_, and start_fill()
   refuses to rotate only after stop().                                      *)
Control ==
  /\ spc # "idle" => job_mutex_ # Free
  /\ shutdown_requested_ \/ tpc # "idle" => ~running_

Labels == {"top", "fillgen", "wait", "join", "job", "lock", "guard", "hash", "exit"}

(* The generations: what a worker noted for its cache is never ahead, is behind
   between a bump and the spawn that names the new cache, and is current for
   the whole of a hash.                                                      *)
Generations ==
  /\ gen \in Nat
  /\ for_cache \in [Workers -> Nat]
  /\ pc \in [Workers -> Labels]
  /\ inside = {w \in Workers : Hashing(w)}
  /\ \A w \in Workers : for_cache[w] <= gen
  /\ spc = "spawn" => \A w \in Workers : for_cache[w] < gen
  /\ \A w \in Workers : Hashing(w) => for_cache[w] = gen

(* The seeds: outside a rotation the shared cache is the fill's, and so is the
   cache of every worker that noted the current generation.                  *)
SeedsAgree ==
  running_ =>
    /\ spc \in {"idle", "cache", "seed", "publish"} => shared_cache_ = fill_seed
    /\ \A w \in Workers : for_cache[w] = gen => active_cache[w] = fill_seed

Jobs == [id : Nat, seed : Seeds \cup {NoSeed}]

(* The jobs: which seed the shared cache has at each step of set_job(), and
   that a worker's cache is the one of its job.                              *)
JobsAgree ==
  /\ spc = "idle" => current_seed_key_ = shared_cache_ /\ current_job_.seed = shared_cache_
  /\ spc \notin {"idle", "cache"} => job.seed = shared_cache_
  /\ spc = "publish" => current_seed_key_ = shared_cache_
  /\ job_generation_ \in Nat /\ {job, current_job_} \subseteq Jobs
  /\ local_job \in [Workers -> Jobs]
  /\ active_cache \in [Workers -> Seeds \cup {NoSeed}]
  /\ shared_cache_ \in Seeds \cup {NoSeed}
  /\ \A w \in Workers : active_cache[w] = local_job[w].seed

IInv == Control /\ Generations /\ SeedsAgree /\ JobsAgree

(* The engine starts with no job, no cache and no fill.                      *)
LEMMA InitInv == Init => IInv
<1> SUFFICES ASSUME Init PROVE IInv
  BY Zenon
<1> USE EngineAssumption DEF Init, StoreInit
<1>1. NoJob \in Jobs /\ NoJob.seed = NoSeed
  BY Zenon DEF NoJob, Jobs
<1>2. Control
  BY Zenon DEF Control, Free
<1>3. Generations
  BY DEF Generations, Hashing, Labels
<1>4. SeedsAgree
  BY Zenon DEF SeedsAgree
<1>5. JobsAgree
  BY Zenon, <1>1 DEF JobsAgree
<1> QED
  BY Zenon, <1>2, <1>3, <1>4, <1>5 DEF IInv

(* Every step of set_job(), of the fill threads, of a worker and of stop()
   preserves the invariant.                                                  *)
LEMMA StepInv == IInv /\ [Next]_vars => IInv'
<1> SUFFICES ASSUME IInv, [Next]_vars PROVE IInv'
  BY Zenon
<1> USE EngineAssumption DEF IInv, store, fill, engine, setter, locals, stopper
<1>1. ASSUME NEW seed \in Seeds, set_job(seed) PROVE IInv'
  BY <1>1 DEF set_job, Free, Control, Generations, SeedsAgree, JobsAgree, Hashing,
     Labels, Jobs
<1>2. CASE set_job_cache
  BY Zenon, <1>2 DEF set_job_cache, Control, Generations, SeedsAgree, JobsAgree, Hashing,
     Labels, Jobs
<1>3. CASE start_fill
  BY Zenon, <1>3 DEF start_fill, Control, Generations, SeedsAgree, JobsAgree, Hashing, Labels, Jobs
<1>4. CASE start_fill_join
  BY Zenon, <1>4 DEF start_fill_join, Control, Generations, SeedsAgree, JobsAgree, Hashing,
     Labels, Jobs
<1>5. CASE start_fill_clear
  BY Zenon, <1>5 DEF start_fill_clear, Clear, Control, Generations, SeedsAgree, JobsAgree,
     Hashing, Labels, Jobs
<1>6. CASE start_fill_bump
  BY <1>6 DEF start_fill_bump, Bump, Control, Generations, SeedsAgree, JobsAgree,
     Hashing, Labels, Jobs
<1>7. CASE start_fill_spawn
  BY <1>7 DEF start_fill_spawn, Control, Generations, SeedsAgree, JobsAgree, Hashing,
     Labels, Jobs
<1>8. CASE set_job_seed
  BY Zenon, <1>8 DEF set_job_seed, Control, Generations, SeedsAgree, JobsAgree, Hashing,
     Labels, Jobs
<1>9. CASE set_job_publish
  BY <1>9 DEF set_job_publish, Free, NoJob, Control, Generations, SeedsAgree, JobsAgree,
     Hashing, Labels, Jobs
<1>10. CASE fill_publish
  BY Zenon, <1>10 DEF fill_publish, Extend, Control, Generations, SeedsAgree, JobsAgree,
     Hashing, Labels, Jobs
<1>11. CASE fill_finish
  BY Zenon, <1>11 DEF fill_finish, Control, Generations, SeedsAgree, JobsAgree, Hashing,
     Labels, Jobs
<1>12. CASE fill_abort
  BY Zenon, <1>12 DEF fill_abort, Control, Generations, SeedsAgree, JobsAgree, Hashing, Labels,
     Jobs
<1>13. CASE stop
  BY Zenon, <1>13 DEF stop, Control, Generations, SeedsAgree, JobsAgree, Hashing, Labels, Jobs
<1>14. CASE stop_cancel
  BY Zenon, <1>14 DEF stop_cancel, Control, Generations, SeedsAgree, JobsAgree, Hashing,
     Labels, Jobs
<1>15. CASE stop_return
  BY Zenon, <1>15 DEF stop_return, Control, Generations, SeedsAgree, JobsAgree, Hashing,
     Labels, Jobs
<1>16. ASSUME NEW w \in Workers, loop_top(w) PROVE IInv'
  <2>1. Control'
    BY Zenon, <1>16 DEF loop_top, Goto, Control
  <2>2. Generations'
    BY Zenon, <1>16 DEF loop_top, Goto, Control, Generations, Hashing, Labels
  <2>3. SeedsAgree'
    BY Zenon, <1>16 DEF loop_top, Goto, Control, Generations, SeedsAgree, JobsAgree
  <2>4. JobsAgree'
    BY Zenon, <1>16 DEF loop_top, Goto, Control, JobsAgree
  <2> QED
    BY Zenon, <2>1, <2>2, <2>3, <2>4
<1>17. ASSUME NEW w \in Workers, check_fill_gen(w) PROVE IInv'
  <2>1. Control'
    BY Zenon, <1>17 DEF check_fill_gen, Goto, Control
  <2>2. Generations'
    BY Zenon, <1>17 DEF check_fill_gen, Goto, Control, Generations, Hashing, Labels
  <2>3. SeedsAgree'
    BY Zenon, <1>17 DEF check_fill_gen, Goto, Control, Generations, SeedsAgree, JobsAgree
  <2>4. JobsAgree'
    BY Zenon, <1>17 DEF check_fill_gen, Goto, Control, JobsAgree
  <2> QED
    BY Zenon, <2>1, <2>2, <2>3, <2>4
<1>18. ASSUME NEW w \in Workers, wait_for_fill(w) PROVE IInv'
  <2>1. Control'
    BY Zenon, <1>18 DEF wait_for_fill, Goto, Control
  <2>2. Generations'
    BY Zenon, <1>18 DEF wait_for_fill, Goto, Control, Generations, Hashing, Labels
  <2>3. SeedsAgree'
    BY Zenon, <1>18 DEF wait_for_fill, Goto, Control, Generations, SeedsAgree, JobsAgree
  <2>4. JobsAgree'
    BY Zenon, <1>18 DEF wait_for_fill, Goto, Control, JobsAgree
  <2> QED
    BY Zenon, <2>1, <2>2, <2>3, <2>4
<1>19. ASSUME NEW w \in Workers, wait_join(w) PROVE IInv'
  <2>1. Control'
    BY Zenon, <1>19 DEF wait_join, Goto, Control
  <2>2. Generations'
    BY Zenon, <1>19 DEF wait_join, Goto, Control, Generations, Hashing, Labels
  <2>3. SeedsAgree'
    BY Zenon, <1>19 DEF wait_join, Goto, Control, Generations, SeedsAgree, JobsAgree
  <2>4. JobsAgree'
    BY Zenon, <1>19 DEF wait_join, Goto, Control, JobsAgree
  <2> QED
    BY Zenon, <2>1, <2>2, <2>3, <2>4
<1>20. ASSUME NEW w \in Workers, check_job(w) PROVE IInv'
  <2>1. Control'
    BY Zenon, <1>20 DEF check_job, Goto, Control
  <2>2. Generations'
    BY Zenon, <1>20 DEF check_job, Goto, Control, Generations, Hashing, Labels
  <2>3. SeedsAgree'
    BY Zenon, <1>20 DEF check_job, Goto, Control, Generations, SeedsAgree, JobsAgree
  <2>4. JobsAgree'
    BY Zenon, <1>20 DEF check_job, Goto, Control, JobsAgree
  <2> QED
    BY Zenon, <2>1, <2>2, <2>3, <2>4
<1>21. ASSUME NEW w \in Workers, adopt_job(w) PROVE IInv'
  <2>1. Control'
    BY Zenon, <1>21 DEF adopt_job, Goto, Free, Control
  <2>2. Generations'
    BY <1>21 DEF adopt_job, Goto, Free, Control, Generations, Hashing, Labels
  <2>3. SeedsAgree'
    BY Zenon, <1>21 DEF adopt_job, Goto, Free, Control, Generations, SeedsAgree, JobsAgree
  <2>4. JobsAgree'
    BY Zenon, <1>21 DEF adopt_job, Goto, Free, Control, JobsAgree
  <2> QED
    BY Zenon, <2>1, <2>2, <2>3, <2>4
<1>22. ASSUME NEW w \in Workers, guard(w) PROVE IInv'
  <2>1. Control'
    BY Zenon, <1>22 DEF guard, Goto, Enter, RotationLocked, Control
  <2>2. Generations'
    BY ZenonT(60), <1>22 DEF guard, Goto, Enter, RotationLocked, Control, Generations, Hashing,
      Labels
  <2>3. SeedsAgree'
    BY Zenon, <1>22 DEF guard, Goto, Enter, RotationLocked, Control, Generations, SeedsAgree,
       JobsAgree
  <2>4. JobsAgree'
    BY Zenon, <1>22 DEF guard, Goto, Enter, RotationLocked, Control, JobsAgree
  <2> QED
    BY Zenon, <2>1, <2>2, <2>3, <2>4
<1>23. ASSUME NEW w \in Workers, hash_done(w) PROVE IInv'
  <2>1. Control'
    BY Zenon, <1>23 DEF hash_done, Goto, Leave, Control
  <2>2. Generations'
    BY Zenon, <1>23 DEF hash_done, Goto, Leave, Control, Generations, Hashing, Labels
  <2>3. SeedsAgree'
    BY Zenon, <1>23 DEF hash_done, Goto, Leave, Control, Generations, SeedsAgree, JobsAgree
  <2>4. JobsAgree'
    BY Zenon, <1>23 DEF hash_done, Goto, Leave, Control, JobsAgree
  <2> QED
    BY Zenon, <2>1, <2>2, <2>3, <2>4
<1>24. CASE UNCHANGED vars
  BY Zenon, <1>24 DEF vars, Control, Generations, SeedsAgree, JobsAgree, Hashing, Labels, Jobs
<1> QED
  BY Zenon, <1>1, <1>2, <1>3, <1>4, <1>5, <1>6, <1>7, <1>8, <1>9, <1>10, <1>11, <1>12,
     <1>13, <1>14, <1>15, <1>16, <1>17, <1>18, <1>19, <1>20, <1>21, <1>22, <1>23, <1>24
     DEF Next, SetJobStep, WorkerStep

(* The invariant holds in every state.                                       *)
LEMMA Invariance == Spec => []IInv
  BY InitInv, StepInv, PTL DEF Spec

(* No hash of a running engine mixes two seeds: the generation check under the
   ReadGuard in worker_loop() is enough.                                     *)
THEOREM OneSeedPerHash == Spec => []SameSeedHash
<1>1. IInv => SameSeedHash
  BY Zenon DEF IInv, Generations, SeedsAgree, SameSeedHash, MatchGuarantees
<1> QED
  BY <1>1, Invariance, PTL

(* A hash uses the cache of its own job, also after stop().                  *)
THEOREM OwnCache == Spec => []JobCacheAgree
<1>1. IInv => JobCacheAgree
  BY Zenon DEF IInv, JobsAgree, JobCacheAgree
<1> QED
  BY <1>1, Invariance, PTL

-----------------------------------------------------------------------------
(* The schedulers.                                                           *)

(* Induction over the naturals, the predicate given as a set.               *)
LEMMA SetInduction ==
  ASSUME NEW S, 0 \in S, \A n \in Nat : n \in S => n + 1 \in S
  PROVE  \A n \in Nat : n \in S
<1> DEFINE R == OpToRel(<, Nat)
           T == Nat \ S
<1>1. IsWellFoundedOn(R, Nat)
  BY Zenon, NatLessThanWellFounded
<1>2. \A x, y \in Nat : x < y => <<x, y>> \in R
  BY Zenon DEF OpToRel
<1> HIDE DEF R
<1>3. SUFFICES ASSUME T # {} PROVE FALSE
  BY Zenon
<1>4. PICK x \in T : \A y \in T : ~(<<y, x>> \in R)
  <2> HIDE DEF T
  <2>1. T \subseteq Nat
    BY Zenon DEF T
  <2> QED
    BY Zenon, <1>1, <1>3, <2>1, WFMin
<1>5. x \in Nat \ {0} /\ x - 1 \in Nat /\ x - 1 < x
  BY <1>4
<1>6. x - 1 \in S
  BY Zenon, <1>2, <1>4, <1>5
<1> QED
  BY <1>4, <1>5, <1>6

(* Every nonempty set of natural numbers has a least element.                *)
LEMMA Least ==
  ASSUME NEW T, T \subseteq Nat, T # {}
  PROVE  \E m \in T : \A k \in T : m <= k
<1> DEFINE R == OpToRel(<, Nat)
<1>1. IsWellFoundedOn(R, Nat)
  BY Zenon, NatLessThanWellFounded
<1>2. \A x, y \in Nat : x < y => <<x, y>> \in R
  BY Zenon DEF OpToRel
<1> HIDE DEF R
<1>3. PICK x \in T : \A y \in T : ~(<<y, x>> \in R)
  BY Zenon, <1>1, WFMin
<1>4. ASSUME NEW y \in T PROVE x <= y
  <2>1. x \in Nat /\ y \in Nat
    BY Zenon
  <2>2. ~(y < x)
    BY Zenon, <1>2, <1>3, <2>1
  <2> QED
    BY <2>1, <2>2
<1> QED
  BY Zenon, <1>3, <1>4

(* One step of each scheduler's loop.                                        *)
Step(name, a, n, v) ==
  CASE name = "greedy" -> GreedyTurn(a, v)
    [] name = "dag" -> DagSlot(a, n, v)

Solves(f, name, a, first, last) ==
  f = [n \in 0..last |-> IF n = 0 THEN first ELSE Step(name, a, n, f[n - 1])]

(* Each recursion has a solution.                                            *)
LEMMA Recursion ==
  ASSUME NEW name, NEW a, NEW first, NEW last \in Nat
  PROVE  \E f : Solves(f, name, a, first, last)
<1> USE DEF Solves
<1> DEFINE Is(f, k) == Solves(f, name, a, first, k)
           S == {k \in Nat : \E f : Is(f, k)}
<1>1. 0 \in S
  <2> DEFINE f == [n \in 0..0 |-> first]
  <2>1. Is(f, 0)
    OBVIOUS
  <2> QED
    BY Zenon, <2>1
<1>2. ASSUME NEW k \in Nat, k \in S PROVE k + 1 \in S
  <2>1. PICK f : Is(f, k)
    BY Zenon, <1>2
  <2> DEFINE h == [n \in 0..(k + 1) |-> IF n = k + 1 THEN Step(name, a, k + 1, f[k]) ELSE f[n]]
  <2>2. \A n \in 0..k : h[n] = f[n]
    OBVIOUS
  <2>3. ASSUME NEW n \in 0..(k + 1)
        PROVE  h[n] = IF n = 0 THEN first ELSE Step(name, a, n, h[n - 1])
    <3>1. CASE n = k + 1
      BY <2>2, <3>1
    <3>2. CASE n # k + 1
      <4>1. n \in 0..k /\ (n # 0 => n - 1 \in 0..k)
        BY <3>2
      <4>2. f[n] = IF n = 0 THEN first ELSE Step(name, a, n, f[n - 1])
        BY Zenon, <2>1, <4>1
      <4> QED
        BY Zenon, <2>2, <4>1, <4>2
    <3> QED
      BY Zenon, <3>1, <3>2
  <2>4. h = [n \in 0..(k + 1) |-> h[n]]
    BY Zenon
  <2> HIDE DEF h
  <2>5. Is(h, k + 1)
    BY Zenon, <2>3, <2>4
  <2>6. k + 1 \in Nat
    OBVIOUS
  <2> QED
    BY Zenon, <2>5, <2>6
<1> HIDE DEF S
<1>3. last \in S
  BY Zenon, <1>1, <1>2, SetInduction
<1> QED
  BY Zenon, <1>3 DEF S

(* scheduleProgramDag() fills one slot after another, and answers the order
   it was given when no instruction is left to place.                        *)
LEMMA Slots ==
  ASSUME NEW Any, NEW p \in Seq(Any)
  PROVE  \E s : /\ s[0] = <<>> /\ \A k \in 1..Len(p) : s[k] = DagSlot(p, k, s[k - 1])
                /\ scheduleProgramDag(p) = IF s[Len(p)] = << 0 >> THEN Identity(p) ELSE s[Len(p)]
<1> DEFINE Is(f) == f = [k \in 0 .. Len(p) |-> IF k = 0 THEN <<>> ELSE DagSlot(p, k, f[k - 1])]
           r == CHOOSE f : Is(f)
<1>0. Len(p) \in Nat
  OBVIOUS
<1>1. scheduleProgramDag(p) = IF r[Len(p)] = << 0 >> THEN Identity(p) ELSE r[Len(p)]
  BY Zenon DEF scheduleProgramDag
<1>2. PICK f : Solves(f, "dag", p, <<>>, Len(p))
  BY Zenon, <1>0, Recursion
<1>3. \A k, v : Step("dag", p, k, v) = DagSlot(p, k, v)
  BY Zenon DEF Step
<1>4. Is(f)
  BY Zenon, <1>2, <1>3 DEF Solves
<1>5. Is(r)
  BY Zenon, <1>4
<1> HIDE DEF r
<1>6. r[0] = <<>>
  BY <1>0, <1>5
<1>7. ASSUME NEW k \in 1..Len(p) PROVE r[k] = DagSlot(p, k, r[k - 1])
  <2>1. k \in 0..Len(p) /\ k # 0
    BY <1>0
  <2> QED
    BY Zenon, <1>5, <2>1
<1> QED
  BY Zenon, <1>1, <1>6, <1>7

(* The slots filled so far: each holds its own instruction or a later one, and
   no two the same.                                                          *)
Forwards(order, k, size) ==
  /\ order \in Seq(Nat) /\ Len(order) = k
  /\ \A n \in 1..k : order[n] \in n..size
  /\ \A m, n \in 1..k : order[m] = order[n] => m = n

(* The earliest of a set of instructions is one of them.                     *)
LEMMA EarliestIn ==
  ASSUME NEW T, T \subseteq Nat, T # {}
  PROVE  Earliest(T) \in T
<1>1. \E n \in T : \A k \in T : n <= k
  BY Zenon, Least
<1> QED
  BY Zenon, <1>1 DEF Earliest

(* An instruction not placed yet, of the slot or later, extends the filled
   slots.                                                                    *)
LEMMA Extends ==
  ASSUME NEW order, NEW k \in Nat, NEW size \in Nat, Forwards(order, k, size),
         NEW x \in (k + 1)..size, x \notin {order[n] : n \in DOMAIN order}
  PROVE  Forwards(Append(order, x), k + 1, size)
<1> DEFINE u == Append(order, x)
<1>1. /\ order \in Seq(Nat) /\ Len(order) = k /\ \A n \in 1..k : order[n] \in n..size
      /\ \A m, n \in 1..k : order[m] = order[n] => m = n
  BY Zenon DEF Forwards
<1>2. \A n \in 1..k : order[n] # x
  BY <1>1
<1>3. u \in Seq(Nat) /\ Len(u) = k + 1 /\ u[k + 1] = x /\ \A n \in 1..k : u[n] = order[n]
  BY <1>1
<1> HIDE DEF u
<1>4. \A n \in 1..(k + 1) : n = k + 1 \/ n \in 1..k
  OBVIOUS
<1>5. \A n \in 1..(k + 1) : u[n] \in n..size
  BY Zenon, <1>1, <1>3, <1>4
<1>6. \A m, n \in 1..(k + 1) : u[m] = u[n] => m = n
  BY <1>1, <1>2, <1>3, <1>4
<1> QED
  BY Zenon, <1>3, <1>5, <1>6 DEF Forwards, u

(* A slot that is filled at all is filled with an instruction not placed
   yet, of the slot or later.                                                *)
LEMMA OneSlot ==
  ASSUME NEW Any, NEW p \in Seq(Any), NEW k \in 1..Len(p), NEW order,
         order = << 0 >> \/ Forwards(order, k - 1, Len(p))
  PROVE  DagSlot(p, k, order) = << 0 >> \/ Forwards(DagSlot(p, k, order), k, Len(p))
<1> DEFINE done == {order[n] : n \in DOMAIN order}
           active == IF order = <<>> THEN 0 ELSE order[Len(order)]
           G == Fillers(p, done, k, active)
           H == Fallbacks(p, done, k)
           t == DagSlot(p, k, order)
<1>0. Len(p) \in Nat /\ k - 1 \in Nat /\ (k - 1) + 1 = k
  OBVIOUS
<1>1. \/ t = << 0 >>
      \/ G # {} /\ t = Append(order, Earliest(G))
      \/ Ready(p, done, k) /\ t = Append(order, k)
      \/ H # {} /\ t = Append(order, Earliest(H))
  BY Zenon DEF DagSlot
<1>2. order = << 0 >> => t = << 0 >>
  BY Zenon DEF DagSlot
<1>3. \A n \in G : n \in k..Len(p) /\ n \notin done
  BY <1>0 DEF Fillers, Ready
<1>4. \A n \in H : n \in k..Len(p) /\ n \notin done
  BY Zenon, <1>0 DEF Fallbacks, Ready
<1>5. Ready(p, done, k) => k \notin done
  BY Zenon DEF Ready
<1>6. k \in k..Len(p) /\ k..Len(p) \subseteq Nat
  BY <1>0
<1> HIDE DEF G, H, t
<1>7. SUFFICES ASSUME t # << 0 >> PROVE Forwards(t, k, Len(p))
  BY Zenon DEF t
<1>8. PICK x \in k..Len(p) : x \notin done /\ t = Append(order, x)
  <2>1. G # {} => Earliest(G) \in G
    BY Zenon, <1>3, <1>6, EarliestIn
  <2>2. H # {} => Earliest(H) \in H
    BY Zenon, <1>4, <1>6, EarliestIn
  <2> HIDE DEF done
  <2> QED
    BY Zenon, <1>1, <1>3, <1>4, <1>5, <1>6, <1>7, <2>1, <2>2
<1>9. Forwards(order, k - 1, Len(p))
  BY Zenon, <1>2, <1>7
<1> DEFINE j == k - 1
<1>10. j \in Nat /\ j + 1 = k /\ x \in (j + 1)..Len(p)
  BY Zenon, <1>0
<1> HIDE DEF j
<1>11. Forwards(order, j, Len(p))
  BY Zenon, <1>9 DEF j
<1>12. Forwards(Append(order, x), j + 1, Len(p))
  BY Zenon, <1>0, <1>8, <1>10, <1>11, Extends
<1> QED
  BY Zenon, <1>8, <1>10, <1>12

(* Numbers that are never smaller than their place, and all different, are the
   places themselves.                                                        *)
LEMMA NothingAhead ==
  ASSUME NEW order, NEW size \in Nat, Forwards(order, size, size)
  PROVE  \A n \in 1..size : order[n] = n
<1> DEFINE Wrong == {d \in 0..(size - 1) : order[size - d] # size - d}
<1>0. /\ \A n \in 1..size : order[n] \in n..size
      /\ \A m, n \in 1..size : order[m] = order[n] => m = n
  BY Zenon DEF Forwards
<1>1. SUFFICES ASSUME Wrong # {} PROVE FALSE
  <2>1. ASSUME NEW n \in 1..size PROVE order[n] = n
    <3>1. size - n \in 0..(size - 1) /\ size - (size - n) = n
      OBVIOUS
    <3>2. size - n \notin Wrong
      BY Zenon, <1>1
    <3> QED
      BY Zenon, <3>1, <3>2
  <2> QED
    BY Zenon, <2>1
<1>2. PICK d \in Wrong : \A k \in Wrong : d <= k
  <2>1. Wrong \subseteq Nat
    OBVIOUS
  <2> HIDE DEF Wrong
  <2> QED
    BY Zenon, <1>1, <2>1, Least
<1> DEFINE n == size - d
           m == order[n]
<1>3. d \in 0..(size - 1) /\ n \in 1..size /\ m # n /\ d = size - n
  BY <1>2
<1>4. m \in n..size
  BY Zenon, <1>0, <1>3
<1>5. m \in 1..size /\ size - m \in 0..(size - 1) /\ ~(d <= size - m) /\ size - (size - m) = m
  <2> HIDE DEF n, m
  <2> QED
    BY <1>3, <1>4
<1>6. order[m] = m
  <2>1. size - m \notin Wrong
    BY Zenon, <1>2, <1>5
  <2> HIDE DEF n, m
  <2> QED
    BY Zenon, <1>5, <2>1
<1> QED
  BY Zenon, <1>0, <1>3, <1>5, <1>6

(* Whatever the program, the slots filled forwards are those of the order it
   was given.                                                                *)
LEMMA DagOrder ==
  ASSUME NEW Any, NEW p \in Seq(Any)
  PROVE  scheduleProgramDag(p) = Identity(p)
<1>0. Len(p) \in Nat /\ DOMAIN p = 1..Len(p)
  OBVIOUS
<1>1. PICK s : /\ s[0] = <<>> /\ \A k \in 1..Len(p) : s[k] = DagSlot(p, k, s[k - 1])
               /\ scheduleProgramDag(p) = IF s[Len(p)] = << 0 >> THEN Identity(p) ELSE s[Len(p)]
  BY Zenon, Slots
<1> DEFINE Fine(k) == s[k] = << 0 >> \/ Forwards(s[k], k, Len(p))
           S == {k \in Nat : k <= Len(p) => Fine(k)}
<1>2. 0 \in S
  <2>1. Forwards(<<>>, 0, Len(p))
    BY <1>0 DEF Forwards
  <2> QED
    BY Zenon, <1>1, <2>1, 0 \in Nat
<1>3. ASSUME NEW k \in Nat, k \in S PROVE k + 1 \in S
  <2>1. SUFFICES ASSUME k + 1 <= Len(p) PROVE Fine(k + 1)
    OBVIOUS
  <2>2. k + 1 \in 1..Len(p) /\ (k + 1) - 1 = k /\ k <= Len(p)
    BY <1>0, <2>1
  <2>3. Fine(k)
    BY Zenon, <1>3, <2>2
  <2> DEFINE j == k + 1
             order == s[k]
  <2>4. j \in 1..Len(p) /\ (order = << 0 >> \/ Forwards(order, j - 1, Len(p)))
    BY Zenon, <2>2, <2>3
  <2>5. s[j] = DagSlot(p, j, order)
    BY Zenon, <1>1, <2>2
  <2> HIDE DEF j, order
  <2>6. s[j] = << 0 >> \/ Forwards(s[j], j, Len(p))
    BY Zenon, <2>4, <2>5, OneSlot
  <2> QED
    BY Zenon, <2>6 DEF j
<1>4. Len(p) \in S
  <2> HIDE DEF S
  <2> QED
    BY Zenon, <1>0, <1>2, <1>3, SetInduction
<1>5. CASE s[Len(p)] = << 0 >>
  BY Zenon, <1>1, <1>5
<1>6. CASE s[Len(p)] # << 0 >>
  <2> DEFINE o == s[Len(p)]
  <2>1. Forwards(o, Len(p), Len(p))
    BY <1>0, <1>4, <1>6
  <2> HIDE DEF o
  <2>2. \A n \in 1..Len(p) : o[n] = n
    BY Zenon, <1>0, <2>1, NothingAhead
  <2>3. o \in Seq(Nat) /\ Len(o) = Len(p)
    BY Zenon, <2>1 DEF Forwards
  <2>4. o = Identity(p)
    BY <1>0, <2>2, <2>3 DEF Identity
  <2> QED
    BY Zenon, <1>1, <1>6, <2>4 DEF o
<1> QED
  BY Zenon, <1>5, <1>6

(* scheduleProgramDag(): an instruction displaced from its slot is never
   offered again, so that a schedule in which anything moved is given up.    *)
THEOREM DagKeepsTheOrder ==
  \A Any : prog \in Seq(Any) => DagNeverReorders
BY Zenon, DagOrder DEF DagNeverReorders

(* scheduleProgram() goes turn by turn from the first instruction.           *)
LEMMA GreedyTurns ==
  ASSUME NEW Any, NEW p \in Seq(Any)
  PROVE  \E s : /\ s[0] = [i |-> 1, order |-> <<>>]
                /\ \A k \in 1..Len(p) : s[k] = GreedyTurn(p, s[k - 1])
                /\ scheduleProgram(p) = s[Len(p)].order
<1> DEFINE First == [i |-> 1, order |-> <<>>]
           Is(f) == f = [k \in 0 .. Len(p) |-> IF k = 0 THEN First ELSE GreedyTurn(p, f[k - 1])]
           r == CHOOSE f : Is(f)
<1>0. Len(p) \in Nat
  OBVIOUS
<1>1. scheduleProgram(p) = r[Len(p)].order
  BY Zenon DEF scheduleProgram
<1> HIDE DEF First
<1>2. PICK f : Solves(f, "greedy", p, First, Len(p))
  BY Zenon, <1>0, Recursion
<1>3. \A k, v : Step("greedy", p, k, v) = GreedyTurn(p, v)
  BY Zenon DEF Step
<1>4. Is(f)
  BY Zenon, <1>2, <1>3 DEF Solves
<1>5. Is(r)
  BY Zenon, <1>4
<1> HIDE DEF r
<1>6. r[0] = First
  BY <1>0, <1>5
<1>7. ASSUME NEW k \in 1..Len(p) PROVE r[k] = GreedyTurn(p, r[k - 1])
  <2>1. k \in 0..Len(p) /\ k # 0
    BY <1>0
  <2> QED
    BY Zenon, <1>5, <2>1
<1> QED
  BY Zenon, <1>1, <1>6, <1>7 DEF First

(* An order of the first instructions: every one is in it once, only
   independent ones have changed places, and nothing has moved across one that
   may not move.                                                             *)
Permutes(o, size) ==
  /\ \A n \in 1..size : o[n] \in 1..size
  /\ \A m, n \in 1..size : o[m] = o[n] => m = n
  /\ \A x \in 1..size : \E n \in 1..size : o[n] = x
KeepsHazards(p, o, size) ==
  \A m, n \in 1..size : m < n /\ o[n] < o[m] => Independent(p, o[n], o[m])
KeepsPlaces(p, o, size) ==
  \A n \in 1..size : ~Movable(p, n) => o[n] = n /\ \A m \in 1..(n - 1) : o[m] < n
SafeOrder(p, o, size) == Permutes(o, size) /\ KeepsHazards(p, o, size) /\ KeepsPlaces(p, o, size)

(* A block that permutes the next instructions among themselves.            *)
SafeBlock(p, o, block) ==
  /\ \A n \in block : o[n] \in block
  /\ \A m, n \in block : o[m] = o[n] => m = n
  /\ \A x \in block : \E n \in block : o[n] = x
  /\ \A m, n \in block : m < n /\ o[n] < o[m] => Independent(p, o[n], o[m])
  /\ \A n \in block : ~Movable(p, n) => o[n] = n /\ \A m \in block : m < n => o[m] < n

(* A safe block after a safe order makes a longer safe order.                *)
LEMMA AddBlock ==
  ASSUME NEW list, NEW o, NEW size \in Nat, SafeOrder(list, o, size), NEW w \in Nat, NEW after,
         \A n \in 1..size : after[n] = o[n], SafeBlock(list, after, (size + 1)..(size + w))
  PROVE  SafeOrder(list, after, size + w)
<1> DEFINE all == 1..(size + w)
           old == 1..size
           new == (size + 1)..(size + w)
<1>1. /\ \A n \in all : n \in old \/ n \in new
      /\ old \subseteq all /\ new \subseteq all
      /\ \A m \in old, n \in new : m < n /\ m # n /\ ~(n < m)
      /\ all \subseteq Nat
  OBVIOUS
<1>2. Permutes(o, size) /\ KeepsHazards(list, o, size) /\ KeepsPlaces(list, o, size)
  BY Zenon DEF SafeOrder
<1>3. \A n \in old : after[n] \in old
  BY Zenon, <1>2 DEF Permutes
<1>4. \A n \in new : after[n] \in new
  BY Zenon DEF SafeBlock
<1>5. Permutes(after, size + w)
  <2>1. \A n \in all : after[n] \in all
    BY Zenon, <1>1, <1>3, <1>4
  <2>2. \A m, n \in old : after[m] = after[n] => m = n
    BY Zenon, <1>2 DEF Permutes
  <2>3. \A m \in old, n \in new : after[m] # after[n]
    BY Zenon, <1>1, <1>3, <1>4
  <2>4. \A m, n \in new : after[m] = after[n] => m = n
    BY Zenon DEF SafeBlock
  <2>5. \A x \in old : \E n \in old : after[n] = x
    BY Zenon, <1>2 DEF Permutes
  <2>6. \A x \in new : \E n \in new : after[n] = x
    BY Zenon DEF SafeBlock
  <2> HIDE DEF all, old, new
  <2>7. \A m, n \in all : after[m] = after[n] => m = n
    <3> SUFFICES ASSUME NEW m \in all, NEW n \in all, after[m] = after[n] PROVE m = n
      BY Zenon
    <3>1. ~(m \in old /\ n \in new) /\ ~(n \in old /\ m \in new)
      BY Zenon, <2>3
    <3> QED
      BY Zenon, <1>1, <2>2, <2>4, <3>1
  <2>8. \A x \in all : \E n \in all : after[n] = x
    BY Zenon, <1>1, <2>5, <2>6
  <2> QED
    BY Zenon, <2>1, <2>7, <2>8 DEF Permutes, all
<1>6. KeepsHazards(list, after, size + w)
  <2>1. \A m, n \in old : m < n /\ after[n] < after[m] => Independent(list, after[n], after[m])
    BY Zenon, <1>2 DEF KeepsHazards
  <2>2. \A m \in old, n \in new : ~(after[n] < after[m])
    BY Zenon, <1>1, <1>3, <1>4
  <2>3. \A m, n \in new : m < n /\ after[n] < after[m] => Independent(list, after[n], after[m])
    BY Zenon DEF SafeBlock
  <2> HIDE DEF all, old, new
  <2>4. ASSUME NEW m \in all, NEW n \in all, m < n, after[n] < after[m] PROVE Independent(list, after[n], after[m])
    <3>1. ~(m \in new /\ n \in old)
      BY Zenon, <1>1, <2>4
    <3>2. ~(m \in old /\ n \in new)
      BY Zenon, <2>2, <2>4
    <3> QED
      BY Zenon, <1>1, <2>1, <2>3, <2>4, <3>1, <3>2
  <2> QED
    BY Zenon, <2>4 DEF KeepsHazards, all
<1>7. KeepsPlaces(list, after, size + w)
  <2>1. ASSUME NEW n \in old, ~Movable(list, n) PROVE after[n] = n /\ \A m \in 1..(n - 1) : after[m] < n
    <3>1. \A m \in 1..(n - 1) : m \in old
      OBVIOUS
    <3> QED
      BY Zenon, <1>2, <2>1, <3>1 DEF KeepsPlaces
  <2>2. ASSUME NEW n \in new, ~Movable(list, n) PROVE after[n] = n /\ \A m \in 1..(n - 1) : after[m] < n
    <3>1. after[n] = n /\ \A m \in new : m < n => after[m] < n
      BY Zenon, <2>2 DEF SafeBlock
    <3>2. \A m \in 1..(n - 1) : m \in old \/ (m \in new /\ m < n)
      OBVIOUS
    <3>3. \A m \in old : after[m] < n
      BY Zenon, <1>1, <1>3
    <3> QED
      BY Zenon, <3>1, <3>2, <3>3
  <2> HIDE DEF all, old, new
  <2>3. \A n \in all : ~Movable(list, n) => after[n] = n /\ \A m \in 1..(n - 1) : after[m] < n
    BY Zenon, <1>1, <2>1, <2>2
  <2> QED
    BY Zenon, <2>3 DEF KeepsPlaces, all
<1> QED
  BY Zenon, <1>5, <1>6, <1>7 DEF SafeOrder

(* Where the loop stands after k turns.                                      *)
GreedyStands(p, s, k) ==
  /\ s.i \in 1..(Len(p) + 1) /\ (s.i >= k + 1 \/ s.i = Len(p) + 1)
  /\ s.order \in Seq(Nat) /\ Len(s.order) = s.i - 1
  /\ SafeOrder(p, s.order, s.i - 1)

(* One sequence is two others end to end.                                    *)
IsJoin(whole, front, back) ==
  /\ whole \in Seq(Nat) /\ Len(whole) = Len(front) + Len(back)
  /\ \A n \in 1..Len(front) : whole[n] = front[n]
  /\ \A n \in 1..Len(back) : whole[Len(front) + n] = back[n]

(* Two sequences end to end, position by position.                           *)
LEMMA JoinedParts ==
  ASSUME NEW front \in Seq(Nat), NEW back \in Seq(Nat)
  PROVE  /\ front \o back \in Seq(Nat) /\ Len(front \o back) = Len(front) + Len(back)
         /\ \A n \in 1..Len(front) : (front \o back)[n] = front[n]
         /\ \A n \in 1..Len(back) : (front \o back)[Len(front) + n] = back[n]
  OBVIOUS

(* Concatenation joins its two sequences.                                    *)
LEMMA Joined ==
  ASSUME NEW front \in Seq(Nat), NEW back \in Seq(Nat), NEW whole, front \o back = whole
  PROVE  IsJoin(whole, front, back)
  BY Zenon, JoinedParts DEF IsJoin

(* Two and three instructions that change places behind a multiply.          *)
LEMMA ThreeInBlock ==
  ASSUME NEW p, NEW e \in Nat, NEW u, u[e + 1] = e + 1, u[e + 2] = e + 3, u[e + 3] = e + 2,
         Movable(p, e + 2), Movable(p, e + 3), Independent(p, e + 2, e + 3)
  PROVE  SafeBlock(p, u, (e + 1)..(e + 3))
<1> DEFINE T == (e + 1)..(e + 3)
<1>1. T = {e + 1, e + 2, e + 3} /\ T \subseteq Nat
  OBVIOUS
<1>2. /\ \A n \in T : u[n] \in T
      /\ \A m, n \in T : u[m] = u[n] => m = n
  BY <1>1
<1>3. \A x \in T : \E n \in T : u[n] = x
  BY Zenon, <1>1
<1>4. \A m, n \in T : m < n /\ u[n] < u[m] => m = e + 2 /\ n = e + 3
  BY <1>1
<1>5. \A n \in T : ~Movable(p, n) => n = e + 1
  BY Zenon, <1>1
<1>6. \A m \in T : ~(m < e + 1)
  OBVIOUS
<1> HIDE DEF T
<1>7. \A m, n \in T : m < n /\ u[n] < u[m] => Independent(p, u[n], u[m])
  BY Zenon, <1>4
<1>8. \A n \in T : ~Movable(p, n) => u[n] = n /\ \A m \in T : m < n => u[m] < n
  BY Zenon, <1>5, <1>6
<1> QED
  BY Zenon, <1>2, <1>3, <1>7, <1>8 DEF SafeBlock, T

(* Four instructions of which the last moves over the two before it,
   independent of both, are a safe block.                                    *)
LEMMA FourInBlock ==
  ASSUME NEW p, NEW e \in Nat, NEW u, u[e + 1] = e + 1, u[e + 2] = e + 4, u[e + 3] = e + 2,
         u[e + 4] = e + 3, Movable(p, e + 2), Movable(p, e + 3), Movable(p, e + 4),
         Independent(p, e + 2, e + 4), Independent(p, e + 3, e + 4)
  PROVE  SafeBlock(p, u, (e + 1)..(e + 4))
<1> DEFINE T == (e + 1)..(e + 4)
<1>1. T = {e + 1, e + 2, e + 3, e + 4} /\ T \subseteq Nat
  OBVIOUS
<1>2. /\ \A n \in T : u[n] \in T
      /\ \A m, n \in T : u[m] = u[n] => m = n
  BY <1>1
<1>3. \A x \in T : \E n \in T : u[n] = x
  BY Zenon, <1>1
<1>4. \A m, n \in T : m < n /\ u[n] < u[m] => m = e + 2 /\ (n = e + 3 \/ n = e + 4)
  BY <1>1
<1>5. \A n \in T : ~Movable(p, n) => n = e + 1
  BY Zenon, <1>1
<1>6. \A m \in T : ~(m < e + 1)
  OBVIOUS
<1> HIDE DEF T
<1>7. \A m, n \in T : m < n /\ u[n] < u[m] => Independent(p, u[n], u[m])
  BY Zenon, <1>4
<1>8. \A n \in T : ~Movable(p, n) => u[n] = n /\ \A m \in T : m < n => u[m] < n
  BY Zenon, <1>5, <1>6
<1> QED
  BY Zenon, <1>2, <1>3, <1>7, <1>8 DEF SafeBlock, T

(* A turn of scheduleProgram()'s loop keeps its order safe and moves on by
   at least one instruction.                                                 *)
LEMMA GreedyStandsTurn ==
  ASSUME NEW Any, NEW code \in Seq(Any), NEW k \in Nat, NEW s, GreedyStands(code, s, k)
  PROVE  GreedyStands(code, GreedyTurn(code, s), k + 1)
<1> DEFINE i == s.i
           ord == s.order
           at == i - 1
           t == GreedyTurn(code, s)
<1>0. Len(code) \in Nat /\ DOMAIN code = 1..Len(code)
  OBVIOUS
<1>1. /\ i \in 1..(Len(code) + 1) /\ (i >= k + 1 \/ i = Len(code) + 1)
      /\ ord \in Seq(Nat) /\ Len(ord) = at /\ SafeOrder(code, ord, at) /\ at \in Nat /\ i = at + 1
  BY DEF GreedyStands
<1>2. CASE i > Len(code)
  <2>1. t = s
    BY Zenon, <1>2 DEF GreedyTurn
  <2>2. i = Len(code) + 1
    BY <1>0, <1>1, <1>2
  <2> HIDE DEF t
  <2> QED
    BY Zenon, <1>1, <2>1, <2>2 DEF GreedyStands, t
<1>3. CASE ~(i > Len(code)) /\ Near(code, i)
  <2> DEFINE out == ord \o <<i, i + 2, i + 1>>
  <2>1. t = [i |-> i + 3, order |-> out]
    <3>1. t = [i |-> s.i + Len(<<s.i, s.i + 2, s.i + 1>>), order |-> s.order \o <<s.i, s.i + 2, s.i + 1>>]
      BY Zenon, <1>3 DEF GreedyTurn
    <3>2. Len(<<s.i, s.i + 2, s.i + 1>>) = 3
      BY Zenon
    <3> QED
      BY Zenon, <3>1, <3>2
  <2>2. /\ i + 2 \in 1..Len(code) /\ Independent(code, i + 1, i + 2)
        /\ Movable(code, i + 1) /\ Movable(code, i + 2)
    BY Zenon, <1>0, <1>3 DEF Near, Stalls, Movable
  <2>3. /\ out \in Seq(Nat) /\ Len(out) = at + 3 /\ \A n \in 1..at : out[n] = ord[n]
        /\ out[at + 1] = at + 1 /\ out[at + 2] = at + 3 /\ out[at + 3] = at + 2
    <3> DEFINE block == <<at + 1, at + 3, at + 2>>
    <3>0. i = at + 1 /\ i + 1 = at + 2 /\ i + 2 = at + 3 /\ i + 3 = at + 4 /\ at \in Nat
      BY SMTT(30), <1>1
    <3> HIDE DEF i, at, ord
    <3>1. out = ord \o block
      BY Zenon, <3>0
    <3>2. block \in Seq(Nat) /\ Len(block) = 3
      BY <3>0
    <3>3. block[1] = at + 1 /\ block[2] = at + 3 /\ block[3] = at + 2
      BY Zenon
    <3> HIDE DEF out, block
    <3>4. /\ out \in Seq(Nat) /\ Len(out) = at + 3
          /\ (\A n \in 1..at : out[n] = ord[n]) /\ \A n \in 1..3 : out[at + n] = block[n]
      <4>1. ord \in Seq(Nat) /\ Len(ord) = at
        BY Zenon, <1>1
      <4>2. ord \o block = out
        BY Zenon, <3>1
      <4>3. IsJoin(out, ord, block)
        BY Zenon, <3>2, <4>1, <4>2, Joined
      <4> QED
        BY Zenon, <3>2, <4>1, <4>3 DEF IsJoin
    <3>5. 1 \in 1..3 /\ 2 \in 1..3 /\ 3 \in 1..3
      OBVIOUS
    <3> QED
      BY Zenon, <3>3, <3>4, <3>5
  <2> HIDE DEF i, ord, at, out, t
  <2>4. i + 1 = at + 2 /\ i + 2 = at + 3 /\ i + 3 = at + 4
    BY <1>1
  <2>8. SafeBlock(code, out, (at + 1)..(at + 3))
    BY Zenon, <1>1, <2>2, <2>3, <2>4, ThreeInBlock
  <2>9. SafeOrder(code, out, at + 3)
    BY ZenonT(30), <1>1, <2>3, <2>8, 3 \in Nat, AddBlock
  <2>10. t.i = i + 3 /\ t.order = out /\ t.i - 1 = at + 3 /\ t.i \in 1..(Len(code) + 1) /\ t.i >= (k + 1) + 1
    BY <1>0, <1>1, <2>1, <2>2, <2>4
  <2> QED
    BY Zenon, <2>3, <2>9, <2>10 DEF GreedyStands, t
<1>4. CASE ~(i > Len(code)) /\ ~Near(code, i) /\ Far(code, i)
  <2> DEFINE out == ord \o <<i, i + 3, i + 1, i + 2>>
  <2>1. t = [i |-> i + 4, order |-> out]
    <3>1. t = [i |-> s.i + Len(<<s.i, s.i + 3, s.i + 1, s.i + 2>>),
               order |-> s.order \o <<s.i, s.i + 3, s.i + 1, s.i + 2>>]
      BY Zenon, <1>4 DEF GreedyTurn
    <3>2. Len(<<s.i, s.i + 3, s.i + 1, s.i + 2>>) = 4
      BY Zenon
    <3> QED
      BY Zenon, <3>1, <3>2
  <2>2. /\ i + 3 \in 1..Len(code) /\ Independent(code, i + 1, i + 3) /\ Independent(code, i + 2, i + 3)
        /\ Movable(code, i + 1) /\ Movable(code, i + 2) /\ Movable(code, i + 3)
    <3>1. Movable(code, i + 1) /\ Movable(code, i + 2) /\ Movable(code, i + 3)
      BY Zenon, <1>4 DEF Far, Stalls
    <3>2. i + 3 \in 1..Len(code)
      BY Zenon, <1>0, <3>1 DEF Movable
    <3>3. i + 1 \in i .. i + 2 /\ i + 2 \in i .. i + 2
      BY SMTT(30), <1>1
    <3> QED
      BY Zenon, <1>4, <3>1, <3>2, <3>3 DEF Far
  <2>3. /\ out \in Seq(Nat) /\ Len(out) = at + 4 /\ \A n \in 1..at : out[n] = ord[n]
        /\ out[at + 1] = at + 1 /\ out[at + 2] = at + 4 /\ out[at + 3] = at + 2 /\ out[at + 4] = at + 3
    <3> DEFINE block == <<at + 1, at + 4, at + 2, at + 3>>
    <3>0. i = at + 1 /\ i + 1 = at + 2 /\ i + 2 = at + 3 /\ i + 3 = at + 4 /\ at \in Nat
      BY SMTT(30), <1>1
    <3> HIDE DEF i, at, ord
    <3>1. out = ord \o block
      BY Zenon, <3>0
    <3>2. block \in Seq(Nat) /\ Len(block) = 4
      BY <3>0
    <3>3. block[1] = at + 1 /\ block[2] = at + 4 /\ block[3] = at + 2 /\ block[4] = at + 3
      BY Zenon
    <3> HIDE DEF out, block
    <3>4. /\ out \in Seq(Nat) /\ Len(out) = at + 4
          /\ (\A n \in 1..at : out[n] = ord[n]) /\ \A n \in 1..4 : out[at + n] = block[n]
      <4>1. ord \in Seq(Nat) /\ Len(ord) = at
        BY Zenon, <1>1
      <4>2. ord \o block = out
        BY Zenon, <3>1
      <4>3. IsJoin(out, ord, block)
        BY Zenon, <3>2, <4>1, <4>2, Joined
      <4> QED
        BY Zenon, <3>2, <4>1, <4>3 DEF IsJoin
    <3>5. 1 \in 1..4 /\ 2 \in 1..4 /\ 3 \in 1..4 /\ 4 \in 1..4
      OBVIOUS
    <3> QED
      BY Zenon, <3>3, <3>4, <3>5
  <2> HIDE DEF i, ord, at, out, t
  <2>4. i + 1 = at + 2 /\ i + 2 = at + 3 /\ i + 3 = at + 4 /\ i + 4 = at + 5
    BY <1>1
  <2>8. SafeBlock(code, out, (at + 1)..(at + 4))
    BY Zenon, <1>1, <2>2, <2>3, <2>4, FourInBlock
  <2>9. SafeOrder(code, out, at + 4)
    BY ZenonT(60), <1>1, <2>3, <2>8, 4 \in Nat, AddBlock
  <2>10. t.i = i + 4 /\ t.order = out /\ t.i - 1 = at + 4 /\ t.i \in 1..(Len(code) + 1) /\ t.i >= (k + 1) + 1
    BY <1>0, <1>1, <2>1, <2>2, <2>4
  <2> QED
    BY Zenon, <2>3, <2>9, <2>10 DEF GreedyStands, t
<1>5. CASE ~(i > Len(code)) /\ ~Near(code, i) /\ ~Far(code, i)
  <2> DEFINE out == ord \o <<i>>
  <2>1. t = [i |-> i + 1, order |-> out]
    <3>1. t = [i |-> s.i + Len(<<s.i>>), order |-> s.order \o <<s.i>>]
      BY Zenon, <1>5 DEF GreedyTurn
    <3>2. Len(<<s.i>>) = 1
      BY Zenon
    <3> QED
      BY Zenon, <3>1, <3>2
  <2>2. /\ out \in Seq(Nat) /\ Len(out) = at + 1 /\ (\A n \in 1..at : out[n] = ord[n])
        /\ out[at + 1] = at + 1
    <3> DEFINE block == <<at + 1>>
    <3>0. i = at + 1 /\ i + 1 = at + 2 /\ i + 2 = at + 3 /\ i + 3 = at + 4 /\ at \in Nat
      BY SMTT(30), <1>1
    <3> HIDE DEF i, at, ord
    <3>1. out = ord \o block
      BY Zenon, <3>0
    <3>2. block \in Seq(Nat) /\ Len(block) = 1
      BY <3>0
    <3>3. block[1] = at + 1 /\ 1 \in 1..1
      OBVIOUS
    <3> HIDE DEF out, block
    <3>4. /\ out \in Seq(Nat) /\ Len(out) = at + 1
          /\ (\A n \in 1..at : out[n] = ord[n]) /\ \A n \in 1..1 : out[at + n] = block[n]
      <4>1. ord \in Seq(Nat) /\ Len(ord) = at
        BY Zenon, <1>1
      <4>2. ord \o block = out
        BY Zenon, <3>1
      <4>3. IsJoin(out, ord, block)
        BY Zenon, <3>2, <4>1, <4>2, Joined
      <4> QED
        BY Zenon, <3>2, <4>1, <4>3 DEF IsJoin
    <3> QED
      BY Zenon, <3>3, <3>4
  <2> HIDE DEF i, ord, at, out, t
  <2>3. SafeBlock(code, out, (at + 1)..(at + 1))
    <3>1. (at + 1)..(at + 1) = {at + 1} /\ ~(at + 1 < at + 1)
      BY <1>1
    <3> QED
      BY Zenon, <2>2, <3>1 DEF SafeBlock
  <2>4. SafeOrder(code, out, at + 1)
    BY Zenon, <1>1, <2>2, <2>3, 1 \in Nat, AddBlock
  <2>5. t.i = i + 1 /\ t.order = out /\ t.i - 1 = at + 1 /\ t.i \in 1..(Len(code) + 1) /\ t.i >= (k + 1) + 1
    BY <1>0, <1>1, <1>5, <2>1
  <2> QED
    BY Zenon, <2>2, <2>4, <2>5 DEF GreedyStands, t
<1> QED
  BY Zenon, <1>2, <1>3, <1>4, <1>5

(* scheduleProgram(): whatever the program, each instruction is emitted once,
   two that change places do not depend on each other, and branches, rounding
   modes and branch anchors stay where they are with all before them before.  *)
THEOREM GreedyIsSafe ==
  ASSUME NEW Any, NEW p \in Seq(Any)
  PROVE  Len(scheduleProgram(p)) = Len(p) /\ SafeOrder(p, scheduleProgram(p), Len(p))
<1>0. Len(p) \in Nat
  OBVIOUS
<1>1. PICK s : /\ s[0] = [i |-> 1, order |-> <<>>]
               /\ \A k \in 1..Len(p) : s[k] = GreedyTurn(p, s[k - 1])
               /\ scheduleProgram(p) = s[Len(p)].order
  BY Zenon, GreedyTurns
<1> DEFINE S == {k \in Nat : k <= Len(p) => GreedyStands(p, s[k], k)}
<1>2. 0 \in S
  <2>1. s[0].i = 1 /\ s[0].order = <<>>
    BY <1>1
  <2>2. SafeOrder(p, <<>>, 1 - 1)
    BY DEF SafeOrder, Permutes, KeepsHazards, KeepsPlaces
  <2>3. 1 \in 1..(Len(p) + 1) /\ 1 >= 0 + 1 /\ <<>> \in Seq(Nat) /\ Len(<<>>) = 1 - 1
    BY <1>0
  <2>4. GreedyStands(p, s[0], 0)
    BY Zenon, <2>1, <2>2, <2>3 DEF GreedyStands
  <2> QED
    BY Zenon, <2>4
<1>3. ASSUME NEW k \in Nat, k \in S PROVE k + 1 \in S
  <2>1. SUFFICES ASSUME k + 1 <= Len(p) PROVE GreedyStands(p, s[k + 1], k + 1)
    OBVIOUS
  <2>2. k + 1 \in 1..Len(p) /\ (k + 1) - 1 = k /\ k <= Len(p)
    BY <1>0, <2>1
  <2>3. GreedyStands(p, s[k], k)
    BY Zenon, <1>3, <2>2
  <2>4. s[k + 1] = GreedyTurn(p, s[k])
    BY Zenon, <1>1, <2>2
  <2> QED
    BY Zenon, <2>3, <2>4, GreedyStandsTurn
<1>4. Len(p) \in S
  <2> HIDE DEF S
  <2> QED
    BY Zenon, <1>0, <1>2, <1>3, SetInduction
<1>5. GreedyStands(p, s[Len(p)], Len(p))
  BY <1>0, <1>4
<1>6. s[Len(p)].i - 1 = Len(p)
  BY <1>0, <1>5 DEF GreedyStands
<1> QED
  BY Zenon, <1>1, <1>5, <1>6 DEF GreedyStands
=============================================================================
