--------------------------- MODULE SmallParts_proofs ---------------------------
(***************************************************************************)
(* Parts that stand alone: the rotation lock of the partial dataset, for    *)
(* any number of readers and writers; the memory budget of the program; and *)
(* the block fill of the cache, for every size.                             *)
(***************************************************************************)
EXTENDS RotationLock, MinerApp, CacheFill, FiniteSetTheorems, WellFoundedInduction, TLAPS

(* The rotation lock.                                                        *)

Reading == At(Readers, {"reading"})
Waiting == At(Writers, {"parked", "woken"})
Writing == At(Writers, {"writing"})

\* The properties of the lock, which are inductive only together.
IInv ==
  /\ TypeOK /\ CountersAgree /\ MutualExclusion
  /\ ParkedReaderHasWaker /\ ParkedWriterHasWaker

\* The sets the counters stand for are finite, so their cardinalities are naturals.
LEMMA FiniteSides ==
  /\ IsFiniteSet(Reading) /\ Cardinality(Reading) \in Nat
  /\ IsFiniteSet(Waiting) /\ Cardinality(Waiting) \in Nat
<1>1. Reading \in SUBSET Readers /\ Waiting \in SUBSET Writers
  BY Zenon DEF Reading, Waiting, At
<1>2. IsFiniteSet(Reading) /\ IsFiniteSet(Waiting)
  BY Zenon, <1>1, FS_Subset, ThreadsAssumption DEF ThreadsAssumption
<1> QED
  BY Zenon, <1>2, FS_CardinalityType

\* active_readers_ is zero exactly when nobody reads.
LEMMA NoReaders ==
  ASSUME CountersAgree
  PROVE  active_readers_ = 0 <=> Reading = {}
BY Zenon, FiniteSides, FS_EmptySet DEF CountersAgree, Reading

\* waiting_writers_ is zero exactly when no writer waits.
LEMMA NoWaiters ==
  ASSUME CountersAgree
  PROVE  waiting_writers_ = 0 <=> Waiting = {}
BY Zenon, FiniteSides, FS_EmptySet DEF CountersAgree, Waiting

\* A freshly constructed lock satisfies the inductive invariant.
LEMMA InitIInv == Init => IInv
<1> SUFFICES ASSUME Init PROVE IInv
  BY Zenon
<1>1. TypeOK
  BY Zenon, ThreadsAssumption DEF Init, TypeOK, ReaderPC, WriterPC, ThreadsAssumption
<1>2. Reading = {} /\ Waiting = {} /\ Writing = {}
  BY Zenon DEF Init, Reading, Waiting, Writing, At
<1>3. CountersAgree
  BY Zenon, <1>2, FS_EmptySet DEF Init, CountersAgree, Reading, Waiting, Writing
<1>4. MutualExclusion /\ ParkedReaderHasWaker /\ ParkedWriterHasWaker
  BY Zenon DEF Init, MutualExclusion, ParkedReaderHasWaker, ParkedWriterHasWaker, At
<1> QED
  BY Zenon, <1>1, <1>3, <1>4 DEF IInv

\* A step that lets reader r in.
LEMMA EnterShared ==
  ASSUME IInv, NEW r \in Readers, pc[r] \in {"idle", "woken"}, ReaderMayEnter,
         active_readers_' = active_readers_ + 1,
         pc' = [pc EXCEPT ![r] = "reading"],
         UNCHANGED <<waiting_writers_, writer_active_>>
  PROVE  IInv'
<1>1. TypeOK'
  BY ThreadsAssumption DEF IInv, TypeOK, ReaderPC, WriterPC, ThreadsAssumption
<1>2. Reading' = Reading \cup {r} /\ r \notin Reading
  BY Zenon, ThreadsAssumption DEF IInv, TypeOK, Reading, At, ThreadsAssumption
<1>3. Waiting' = Waiting /\ Writing' = Writing
  BY Zenon, ThreadsAssumption DEF IInv, TypeOK, Waiting, Writing, At, ThreadsAssumption
<1>4. Cardinality(Reading') = Cardinality(Reading) + 1
  BY Zenon, <1>2, FiniteSides, FS_AddElement
<1>5. CountersAgree'
  BY Zenon, <1>3, <1>4 DEF IInv, CountersAgree, Reading, Waiting, Writing
<1>6. Writing = {} /\ Waiting = {}
  BY Zenon, NoWaiters DEF IInv, CountersAgree, ReaderMayEnter, Writing
<1>7. MutualExclusion' /\ ParkedWriterHasWaker'
  BY Zenon, <1>3, <1>6 DEF MutualExclusion, ParkedWriterHasWaker, Writing, Waiting, At
<1>8. ParkedReaderHasWaker'
  BY Zenon, ThreadsAssumption
  DEF IInv, TypeOK, ParkedReaderHasWaker, At, ThreadsAssumption, WriterPC
<1> QED
  BY Zenon, <1>1, <1>5, <1>7, <1>8 DEF IInv

\* A step that moves threads only between labels no counter counts apart: the three
\* sets stay, every parked thread was parked, and no waker disappears.
LEMMA CountersStay ==
  ASSUME IInv, UNCHANGED <<active_readers_, waiting_writers_, writer_active_>>,
         Reading' = Reading, Waiting' = Waiting, Writing' = Writing
  PROVE  CountersAgree' /\ MutualExclusion'
<1>1. CountersAgree'
  BY Zenon DEF IInv, CountersAgree, Reading, Waiting, Writing
<1>2. ASSUME NEW w \in Writers, pc'[w] = "writing"
      PROVE  Reading' = {} /\ Writing' = {w}
  <2>1. w \in Writing
    BY Zenon, <1>2 DEF Writing, At
  <2>2. pc[w] = "writing"
    BY Zenon, <2>1 DEF Writing, At
  <2> QED
    BY Zenon, <2>2 DEF IInv, MutualExclusion, Reading, Writing
<1> QED
  BY Zenon, <1>1, <1>2 DEF MutualExclusion, Reading, Writing

\* A reader that may not enter parks: a writer is inside or waits.
LEMMA ParkReader ==
  ASSUME IInv, NEW r \in Readers, pc[r] \in {"idle", "woken"}, ~ReaderMayEnter,
         pc' = [pc EXCEPT ![r] = "parked"],
         UNCHANGED <<active_readers_, waiting_writers_, writer_active_>>
  PROVE  IInv'
<1>1. TypeOK'
  BY Zenon, ThreadsAssumption DEF IInv, TypeOK, ReaderPC, WriterPC, ThreadsAssumption
<1>2. Reading' = Reading /\ Waiting' = Waiting /\ Writing' = Writing
  BY Zenon, ThreadsAssumption
  DEF IInv, TypeOK, Reading, Waiting, Writing, At, ThreadsAssumption
<1>3. CountersAgree' /\ MutualExclusion'
  BY Zenon, <1>2, CountersStay
<1>4. Waiting # {} \/ Writing # {}
  BY Zenon, NoWaiters DEF IInv, CountersAgree, ReaderMayEnter, Writing
<1>5. ParkedReaderHasWaker'
  BY Zenon, <1>2, <1>4 DEF ParkedReaderHasWaker, Waiting, Writing, At, WriterPC
<1>6. ParkedWriterHasWaker'
  BY Zenon, ThreadsAssumption
  DEF IInv, TypeOK, ParkedWriterHasWaker, At, ThreadsAssumption
<1> QED
  BY Zenon, <1>1, <1>3, <1>5, <1>6 DEF IInv

\* A reader leaves without being the last.
LEMMA LeaveShared ==
  ASSUME IInv, NEW r \in Readers, pc[r] = "reading",
         active_readers_' = active_readers_ - 1, active_readers_' # 0,
         pc' = [pc EXCEPT ![r] = "idle"],
         UNCHANGED <<waiting_writers_, writer_active_>>
  PROVE  IInv'
<1>1. Reading' = Reading \ {r} /\ r \in Reading
  BY Zenon, ThreadsAssumption DEF IInv, TypeOK, Reading, At, ThreadsAssumption
<1>2. Waiting' = Waiting /\ Writing' = Writing
  BY Zenon, ThreadsAssumption DEF IInv, TypeOK, Waiting, Writing, At, ThreadsAssumption
<1>3. Cardinality(Reading') = Cardinality(Reading) - 1 /\ Cardinality(Reading') \in Nat
  <2>1. IsFiniteSet(Reading')
    BY Zenon, <1>1, FiniteSides, FS_RemoveElement
  <2> QED
    BY Zenon, <1>1, <2>1, FiniteSides, FS_RemoveElement, FS_CardinalityType
<1>4. CountersAgree'
  BY Zenon, <1>2, <1>3 DEF IInv, CountersAgree, Reading, Waiting, Writing
<1>5. TypeOK'
  BY Zenon, <1>3, ThreadsAssumption
  DEF IInv, TypeOK, CountersAgree, Reading, ReaderPC, WriterPC, ThreadsAssumption
<1>6. Writing = {}
  BY Zenon, <1>1 DEF IInv, MutualExclusion, Reading, Writing, At
<1>7. MutualExclusion'
  BY Zenon, <1>2, <1>6 DEF MutualExclusion, Writing, At
<1>8. Reading' # {}
  BY Zenon, <1>3, <1>4, FS_EmptySet DEF CountersAgree, Reading
<1>9. ParkedWriterHasWaker' /\ ParkedReaderHasWaker'
  BY Zenon, <1>8, ThreadsAssumption
  DEF IInv, TypeOK, ParkedReaderHasWaker, ParkedWriterHasWaker, Reading, At,
      ThreadsAssumption, WriterPC
<1> QED
  BY Zenon, <1>4, <1>5, <1>7, <1>9 DEF IInv

\* The last reader leaves and wakes the writers.
LEMMA LastLeaves ==
  ASSUME IInv, NEW r \in Readers, pc[r] = "reading",
         active_readers_' = active_readers_ - 1, active_readers_' = 0,
         Notify(Writers, r, "idle"),
         UNCHANGED <<waiting_writers_, writer_active_>>
  PROVE  IInv'
<1>1. /\ pc'[r] = "idle"
      /\ \A t \in Readers : t # r => pc'[t] = pc[t]
      /\ \A t \in Writers : pc'[t] = IF pc[t] = "parked" THEN "woken" ELSE pc[t]
      /\ pc' \in [Readers \cup Writers -> ReaderPC \cup WriterPC]
  BY Zenon, ThreadsAssumption DEF IInv, TypeOK, Notify, ReaderPC, WriterPC, ThreadsAssumption
<1>2. Reading' = Reading \ {r} /\ r \in Reading
  BY Zenon, <1>1 DEF Reading, At
<1>3. Waiting' = Waiting /\ Writing' = Writing
  BY Zenon, <1>1 DEF Waiting, Writing, At
<1>4. Cardinality(Reading') = Cardinality(Reading) - 1
  BY Zenon, <1>2, FiniteSides, FS_RemoveElement
<1>5. CountersAgree'
  BY Zenon, <1>3, <1>4 DEF IInv, CountersAgree, Reading, Waiting, Writing
<1>6. TypeOK'
  BY <1>1 DEF IInv, TypeOK, ReaderPC, WriterPC
<1>7. Writing = {}
  BY Zenon, <1>2 DEF IInv, MutualExclusion, Reading, Writing, At
<1>8. MutualExclusion'
  BY Zenon, <1>3, <1>7 DEF MutualExclusion, Writing, At
<1>9. ParkedWriterHasWaker'
  BY Zenon, <1>1 DEF ParkedWriterHasWaker, At
<1>10. ParkedReaderHasWaker'
  BY ZenonT(60), <1>1 DEF IInv, TypeOK, ParkedReaderHasWaker, At, ReaderPC, WriterPC
<1> QED
  BY Zenon, <1>5, <1>6, <1>8, <1>9, <1>10 DEF IInv

\* A writer gets in, at once or after waiting.
LEMMA EnterExclusive ==
  ASSUME IInv, NEW w \in Writers, pc[w] \in {"idle", "woken"}, WriterMayEnter,
         waiting_writers_' = IF pc[w] = "woken" THEN waiting_writers_ - 1
                                                ELSE waiting_writers_,
         writer_active_' = TRUE,
         pc' = [pc EXCEPT ![w] = "writing"],
         UNCHANGED active_readers_
  PROVE  IInv'
<1>1. Reading' = Reading /\ Writing' = Writing \cup {w}
  BY Zenon, ThreadsAssumption DEF IInv, TypeOK, Reading, Writing, At, ThreadsAssumption
<1>2. Waiting' = Waiting \ {w} /\ (w \in Waiting <=> pc[w] = "woken")
  BY Zenon, ThreadsAssumption DEF IInv, TypeOK, Waiting, At, ThreadsAssumption
<1>3. /\ Cardinality(Waiting') = IF pc[w] = "woken" THEN Cardinality(Waiting) - 1
                                                    ELSE Cardinality(Waiting)
      /\ Cardinality(Waiting') \in Nat
  <2>1. IsFiniteSet(Waiting')
    BY Zenon, <1>2, FiniteSides, FS_RemoveElement
  <2> QED
    BY Zenon, <1>2, <2>1, FiniteSides, FS_RemoveElement, FS_CardinalityType
<1>4. CountersAgree'
  BY Zenon, <1>1, <1>3 DEF IInv, CountersAgree, Reading, Waiting, Writing
<1>5. TypeOK'
  BY Zenon, <1>3, ThreadsAssumption
  DEF IInv, TypeOK, CountersAgree, Waiting, ReaderPC, WriterPC, ThreadsAssumption
<1>6. Reading = {} /\ Writing = {}
  BY Zenon, NoReaders DEF IInv, CountersAgree, WriterMayEnter, Writing
<1>7. MutualExclusion'
  BY Zenon, <1>1, <1>6 DEF MutualExclusion, Reading, Writing, At
<1>8. w \in At(Writers, {"writing"})'
  BY Zenon, <1>1 DEF Writing
<1>9. ParkedReaderHasWaker' /\ ParkedWriterHasWaker'
  BY Zenon, <1>8 DEF ParkedReaderHasWaker, ParkedWriterHasWaker, At, WriterPC
<1> QED
  BY Zenon, <1>4, <1>5, <1>7, <1>9 DEF IInv

\* A writer that may not enter parks: announced on its first try, again after a wake.
LEMMA ParkWriter ==
  ASSUME IInv, NEW w \in Writers, pc[w] \in {"idle", "woken"}, ~WriterMayEnter,
         waiting_writers_' = IF pc[w] = "idle" THEN waiting_writers_ + 1
                                               ELSE waiting_writers_,
         pc' = [pc EXCEPT ![w] = "parked"],
         UNCHANGED <<active_readers_, writer_active_>>
  PROVE  IInv'
<1>1. Reading' = Reading /\ Writing' = Writing
  BY Zenon, ThreadsAssumption DEF IInv, TypeOK, Reading, Writing, At, ThreadsAssumption
<1>2. Waiting' = Waiting \cup {w} /\ (w \in Waiting <=> pc[w] # "idle")
  BY Zenon, ThreadsAssumption DEF IInv, TypeOK, Waiting, At, ThreadsAssumption
<1>3. Cardinality(Waiting') = IF pc[w] = "idle" THEN Cardinality(Waiting) + 1
                                                ELSE Cardinality(Waiting)
  BY Zenon, <1>2, FiniteSides, FS_AddElement
<1>4. CountersAgree'
  BY Zenon, <1>1, <1>3 DEF IInv, CountersAgree, Reading, Waiting, Writing
<1>5. TypeOK'
  BY ThreadsAssumption DEF IInv, TypeOK, ReaderPC, WriterPC, ThreadsAssumption
<1>6. MutualExclusion'
  <2> SUFFICES ASSUME NEW v \in Writers, pc'[v] = "writing"
               PROVE  Reading' = {} /\ Writing' = {v}
    BY Zenon DEF MutualExclusion, Reading, Writing
  <2>1. pc[v] = "writing"
    BY Zenon DEF IInv, TypeOK
  <2> QED
    BY Zenon, <1>1, <2>1 DEF IInv, MutualExclusion, Reading, Writing
<1>7. Reading # {} \/ Writing # {}
  BY Zenon, NoReaders DEF IInv, CountersAgree, WriterMayEnter, Writing
<1>8. ParkedWriterHasWaker'
  BY Zenon, <1>1, <1>7 DEF ParkedWriterHasWaker, Reading, Writing, At
<1>9. pc'[w] = "parked"
  BY Zenon DEF IInv, TypeOK
<1>10. ParkedReaderHasWaker'
  BY Zenon, <1>9 DEF ParkedReaderHasWaker, At, WriterPC
<1> QED
  BY Zenon, <1>4, <1>5, <1>6, <1>8, <1>10 DEF IInv

\* A writer gives up the lock; its notifications are still to come.
LEMMA ReleaseExclusive ==
  ASSUME IInv, NEW w \in Writers, unlock(w)
  PROVE  IInv'
<1>1. Reading' = Reading /\ Waiting' = Waiting /\ Writing' = Writing \ {w}
  BY Zenon, ThreadsAssumption
  DEF IInv, TypeOK, unlock, Reading, Waiting, Writing, At, ThreadsAssumption
<1>2. Writing = {w}
  BY Zenon DEF IInv, unlock, MutualExclusion, Writing
<1>3. Writing' = {}
  BY Zenon, <1>1, <1>2
<1>4. CountersAgree'
  BY Zenon, <1>1, <1>3 DEF IInv, unlock, CountersAgree, Reading, Waiting, Writing
<1>5. TypeOK'
  BY Zenon, ThreadsAssumption DEF IInv, TypeOK, unlock, ReaderPC, WriterPC, ThreadsAssumption
<1>6. MutualExclusion'
  BY Zenon, <1>3 DEF MutualExclusion, Writing, At
<1>7. pc'[w] = "unlocking"
  BY Zenon DEF IInv, TypeOK, unlock
<1>8. ParkedReaderHasWaker' /\ ParkedWriterHasWaker'
  BY Zenon, <1>7 DEF ParkedReaderHasWaker, ParkedWriterHasWaker, At, WriterPC
<1> QED
  BY Zenon, <1>4, <1>5, <1>6, <1>8 DEF IInv

\* unlock() wakes the parked writers.
LEMMA WakeWriters ==
  ASSUME IInv, NEW w \in Writers, unlock_notify_writers(w)
  PROVE  IInv'
<1>1. /\ pc'[w] = "notifying"
      /\ \A t \in Readers : pc'[t] = pc[t]
      /\ \A t \in Writers : t # w => pc'[t] = IF pc[t] = "parked" THEN "woken" ELSE pc[t]
      /\ pc' \in [Readers \cup Writers -> ReaderPC \cup WriterPC]
  BY Zenon, ThreadsAssumption
  DEF IInv, TypeOK, unlock_notify_writers, Notify, ReaderPC, WriterPC, ThreadsAssumption
<1>2. pc[w] = "unlocking" /\ UNCHANGED <<active_readers_, waiting_writers_, writer_active_>>
  BY Zenon DEF unlock_notify_writers
<1>3. Reading' = Reading /\ Waiting' = Waiting /\ Writing' = Writing
  BY Zenon, <1>1, <1>2 DEF Reading, Waiting, Writing, At
<1>4. CountersAgree' /\ MutualExclusion'
  BY Zenon, <1>2, <1>3, CountersStay
<1>5. TypeOK'
  BY Zenon, <1>1, <1>2 DEF IInv, TypeOK, ReaderPC, WriterPC
<1>6. ParkedReaderHasWaker' /\ ParkedWriterHasWaker'
  BY Zenon, <1>1 DEF ParkedReaderHasWaker, ParkedWriterHasWaker, At, WriterPC
<1> QED
  BY Zenon, <1>4, <1>5, <1>6 DEF IInv

\* unlock() wakes the parked readers.
LEMMA WakeReaders ==
  ASSUME IInv, NEW w \in Writers, unlock_notify_readers(w)
  PROVE  IInv'
<1>1. /\ pc'[w] = "idle"
      /\ \A t \in Readers : pc'[t] = IF pc[t] = "parked" THEN "woken" ELSE pc[t]
      /\ \A t \in Writers : t # w => pc'[t] = pc[t]
      /\ pc' \in [Readers \cup Writers -> ReaderPC \cup WriterPC]
  BY Zenon, ThreadsAssumption
  DEF IInv, TypeOK, unlock_notify_readers, Notify, ReaderPC, WriterPC, ThreadsAssumption
<1>2. pc[w] = "notifying" /\ UNCHANGED <<active_readers_, waiting_writers_, writer_active_>>
  BY Zenon DEF unlock_notify_readers
<1>3. Reading' = Reading /\ Waiting' = Waiting /\ Writing' = Writing
  BY Zenon, <1>1, <1>2 DEF Reading, Waiting, Writing, At
<1>4. CountersAgree' /\ MutualExclusion'
  BY Zenon, <1>2, <1>3, CountersStay
<1>5. TypeOK'
  BY Zenon, <1>1, <1>2 DEF IInv, TypeOK, ReaderPC, WriterPC
<1>6. ParkedReaderHasWaker'
  BY Zenon, <1>1 DEF ParkedReaderHasWaker, At
<1>7. ParkedWriterHasWaker'
  BY Zenon, <1>1, <1>2 DEF IInv, ParkedWriterHasWaker, At
<1> QED
  BY Zenon, <1>4, <1>5, <1>6, <1>7 DEF IInv

\* A spurious wake.
LEMMA WakeSpuriously ==
  ASSUME IInv, NEW t \in Readers \cup Writers, SpuriousWake(t)
  PROVE  IInv'
<1>1. /\ pc'[t] = "woken" /\ pc[t] = "parked"
      /\ \A u \in Readers \cup Writers : u # t => pc'[u] = pc[u]
      /\ pc' \in [Readers \cup Writers -> ReaderPC \cup WriterPC]
      /\ UNCHANGED <<active_readers_, waiting_writers_, writer_active_>>
  BY Zenon DEF IInv, TypeOK, SpuriousWake, ReaderPC, WriterPC
<1>2. Reading' = Reading /\ Waiting' = Waiting /\ Writing' = Writing
  BY Zenon, <1>1 DEF Reading, Waiting, Writing, At
<1>3. CountersAgree' /\ MutualExclusion'
  BY Zenon, <1>1, <1>2, CountersStay
<1>4. TypeOK'
  BY Zenon, <1>1 DEF IInv, TypeOK, ReaderPC, WriterPC
<1>5. ParkedReaderHasWaker'
  BY Zenon, <1>1 DEF IInv, ParkedReaderHasWaker, At, WriterPC
<1>6. ParkedWriterHasWaker'
  BY Zenon, <1>1 DEF IInv, ParkedWriterHasWaker, At
<1> QED
  BY Zenon, <1>3, <1>4, <1>5, <1>6 DEF IInv

\* Every step of a reader or a writer, and every spurious wake, keeps it.
LEMMA NextIInv == IInv /\ [Next]_vars => IInv'
<1> SUFFICES ASSUME IInv, [Next]_vars PROVE IInv'
  BY Zenon
<1>1. ASSUME NEW r \in Readers, lock_shared(r) PROVE IInv'
  BY Zenon, <1>1, EnterShared, ParkReader DEF lock_shared
<1>2. ASSUME NEW r \in Readers, unlock_shared(r) PROVE IInv'
  BY Zenon, <1>2, LeaveShared, LastLeaves DEF unlock_shared
<1>3. ASSUME NEW w \in Writers, lock(w) PROVE IInv'
  BY Zenon, <1>3, EnterExclusive, ParkWriter DEF lock
<1>4. ASSUME NEW w \in Writers, lock_recheck(w) PROVE IInv'
  BY Zenon, <1>4, EnterExclusive, ParkWriter DEF lock_recheck
<1>5. CASE UNCHANGED vars
  BY <1>5 DEF vars, IInv, TypeOK, CountersAgree, MutualExclusion, ParkedReaderHasWaker,
              ParkedWriterHasWaker, At
<1> QED
  BY Zenon, <1>1, <1>2, <1>3, <1>4, <1>5, ReleaseExclusive, WakeWriters, WakeReaders,
     WakeSpuriously DEF Next, Reader, Writer

\* Every behaviour of RotationLock keeps the inductive invariant.
THEOREM Invariance == Spec => []IInv
  BY InitIInv, NextIInv, PTL DEF Spec

\* The labels and counters of RotationLock stay in range: in particular no counter
\* of the lock ever goes below zero.
THEOREM TypeCorrect == Spec => []TypeOK
<1>1. IInv => TypeOK
  BY Zenon DEF IInv
<1> QED
  BY Invariance, <1>1, PTL

\* Whatever the number of mining workers and rotating threads, the reset section of
\* start_fill() never overlaps a held ReadGuard nor another reset section.
THEOREM Exclusion == Spec => []MutualExclusion
<1>1. IInv => MutualExclusion
  BY Zenon DEF IInv
<1> QED
  BY Invariance, <1>1, PTL

\* active_readers_, waiting_writers_ and writer_active_ never drift from the threads
\* they count.
THEOREM CountersCorrect == Spec => []CountersAgree
<1>1. IInv => CountersAgree
  BY Zenon DEF IInv
<1> QED
  BY Invariance, <1>1, PTL

\* No wakeup of RotationLock is ever lost: a parked reader always has a writer ahead
\* of it that has yet to notify the readers.
THEOREM ReaderWakeups == Spec => []ParkedReaderHasWaker
<1>1. IInv => ParkedReaderHasWaker
  BY Zenon DEF IInv
<1> QED
  BY Invariance, <1>1, PTL

\* The same for a parked writer: someone inside, someone yet to notify, or another
\* writer awake.
THEOREM WriterWakeups == Spec => []ParkedWriterHasWaker
<1>1. IInv => ParkedWriterHasWaker
  BY Zenon DEF IInv
<1> QED
  BY Invariance, <1>1, PTL

-----------------------------------------------------------------------------
(* The memory budget.                                                        *)

(* The fields of MinerOptions.                                               *)
Options == {"auto", "requested", "workers", "mine", "connect", "pools", "wallet", "tls",
            "pool_test", "seconds", "metrics", "dataset_mb", "jit_dump"}

(* Options whose sizes are numbers.                                          *)
OptionsOK(o) ==
  DOMAIN o = Options /\ o.workers \in Nat /\ o.dataset_mb \in Nat

(* The places past the fit check.                                            *)
Checked == {"sessions", "bench", "benchEnd", "benched", "pool", "poolEnd"}

(* The partial dataset is part of the dataset and fits.                      *)
PartialFits ==
  /\ EffectiveMode = "light" /\ items <= DatasetSize
  /\ CacheSize + 2 * opts.workers * ScratchpadSize + items + Reserve <= host.memory

(* Once validated, a partial dataset fits; once past the fit check, fast mode
   does; and a session has a dataset only if one was asked for.              *)
AppInv ==
  /\ OptionsOK(opts) /\ host.memory \in Nat /\ items \in Nat
  /\ appPc \in Checked \union {"fit"} => (items > 0 => PartialFits)
  /\ appPc \in Checked => (EffectiveMode = "fast" => FastBytes <= host.memory)
  /\ appPc \in {"bench", "pool"} => (dataset # "none" => items > 0)

(* A set of numbers has a least one: load_default_config finds its file.      *)
LEMMA FirstUsable ==
  ASSUME NEW S, S \subseteq Nat, S # {}
  PROVE  \E n \in S : \A m \in S : n <= m
<1> DEFINE R == OpToRel(<, Nat)
<1>1. IsWellFoundedOn(R, Nat)
  BY Zenon, NatLessThanWellFounded
<1>2. \A x, y \in Nat : x < y => <<x, y>> \in R
  BY Zenon DEF OpToRel
<1> HIDE DEF R
<1>3. PICK n \in S : \A m \in S : ~(<<m, n>> \in R)
  BY Zenon, <1>1, WFMin
<1>4. \A m \in S : n \in Nat /\ m \in Nat /\ ~(m < n)
  BY Zenon, <1>2, <1>3
<1> QED
  BY <1>4

(* Whatever files there are, the options start with numbers for the worker
   count and the dataset size.                                               *)
LEMMA ConfigOptions ==
  ASSUME NEW files \in FileLists, NEW explicit \in BOOLEAN
  PROVE  OptionsOK(FromConfig(load_config_with_fallback(files, explicit)))
<1> DEFINE Config == [pools : BOOLEAN, wallet : BOOLEAN, tls : BOOLEAN, workers : Nat, mode : STRING]
           usable == {n \in DOMAIN files : files[n].pools \/ files[n].wallet}
<1>1. files \in Seq(Config)
  BY Zenon, FilesAssumption
<1> HIDE DEF Config
<1>2. DOMAIN files \subseteq Nat /\ \A n \in DOMAIN files : files[n].workers \in Nat
  <2>1. DOMAIN files \subseteq Nat /\ \A n \in DOMAIN files : files[n] \in Config
    BY <1>1
  <2>2. \A c \in Config : c.workers \in Nat
    BY Zenon DEF Config
  <2> QED
    BY Zenon, <2>1, <2>2
<1>3. NoConfig.workers \in Nat
  BY Zenon DEF NoConfig
<1>4. ASSUME usable # {}
      PROVE  load_default_config(files).workers \in Nat
  <2>1. \E n \in usable : \A m \in usable : n <= m
    BY Zenon, <1>2, <1>4, FirstUsable
  <2> DEFINE first == CHOOSE n \in usable : \A m \in usable : n <= m
  <2>2. first \in usable
    BY Zenon, <2>1
  <2>3. load_default_config(files) = files[first]
    BY Zenon, <1>4 DEF load_default_config
  <2> QED
    BY Zenon, <1>2, <2>2, <2>3
<1>5. load_default_config(files).workers \in Nat
  BY Zenon, <1>3, <1>4 DEF load_default_config
<1>6. explicit /\ files # <<>> => 1 \in DOMAIN files
  BY <1>1
<1> DEFINE chosen == load_config_with_fallback(files, explicit)
<1>7. chosen.workers \in Nat
  BY Zenon, <1>2, <1>5, <1>6 DEF load_config_with_fallback
<1> HIDE DEF chosen
<1>8. DOMAIN FromConfig(chosen) = Options
  BY Zenon DEF FromConfig, Defaults, Options
<1>9. FromConfig(chosen).workers \in Nat
  BY Zenon, <1>7, SizesAssumption DEF FromConfig, Defaults
<1>10. FromConfig(chosen).dataset_mb \in Nat
  BY Zenon DEF FromConfig, Defaults
<1> QED
  BY Zenon, <1>8, <1>9, <1>10 DEF OptionsOK, chosen

(* A flag keeps the options what they are.                                    *)
LEMMA FlagOptions ==
  ASSUME NEW f, OptionsOK(opts), Flags(f)
  PROVE  OptionsOK(opts)'
<1>1. CASE ModeFlags(f)
  BY Zenon, <1>1 DEF ModeFlags, OptionsOK, Options
<1>2. CASE WorkFlags(f)
  BY <1>2 DEF WorkFlags, OptionsOK, Options
<1>3. CASE PoolFlags(f)
  BY Zenon, <1>3 DEF PoolFlags, OptionsOK, Options
<1>4. CASE OtherFlags(f)
  BY <1>4 DEF OtherFlags, OptionsOK, Options
<1> QED
  BY Zenon, <1>1, <1>2, <1>3, <1>4 DEF Flags

(* Every step of the program keeps the invariant.                             *)
LEMMA AppStep ==
  ASSUME AppInv, [AppNext]_appVars
  PROVE  AppInv'
<1> USE SizesAssumption
<1> DEFINE Kept == UNCHANGED <<host, opts, items>>
<1>1. ASSUME Kept, appPc' \in Checked => appPc \in Checked,
             appPc' = "fit" => appPc \in Checked \union {"fit"},
             appPc' \in {"bench", "pool"} => appPc' = appPc /\ dataset' = dataset
      PROVE  AppInv'
  BY Zenon, <1>1 DEF AppInv, Checked, PartialFits, EffectiveMode, choose_randomx_mode, FastBytes,
    OptionsOK, Options
<1>2. ASSUME NEW f \in Arguments, ParseArg(f)
      PROVE  AppInv'
  <2>1. OptionsOK(opts)'
    BY Zenon, <1>2, FlagOptions DEF ParseArg, AppInv, OptionsOK
  <2> QED
    BY Zenon, <1>2, <2>1 DEF ParseArg, AppInv, Exit, Checked
<1>3. CASE ParseEnd
  <2>1. OptionsOK(opts)'
    BY Zenon, <1>3 DEF ParseEnd, AppInv, OptionsOK, Options
  <2> QED
    BY Zenon, <1>3, <2>1 DEF ParseEnd, AppInv, Exit, Checked
<1>4. CASE Validate
  <2>1. opts' = opts /\ host' = host /\ appPc' \in {"exited", "fit"}
    BY Zenon, <1>4 DEF Validate, Exit
  <2>2. opts.workers \in Nat /\ opts.dataset_mb \in Nat /\ host.memory \in Nat
    BY Zenon DEF AppInv, OptionsOK
  <2>3. items' \in Nat
    BY <1>4, <2>2 DEF Validate, AppInv
  <2>4. appPc' = "fit" /\ items' > 0 => PartialFits'
    <3>1. appPc' = "fit" /\ items' > 0 =>
            /\ EffectiveMode = "light" /\ validate_partial_dataset_request
            /\ items' = opts.dataset_mb
      BY <1>4 DEF Validate, Exit
    <3>2. EffectiveMode' = EffectiveMode
      BY Zenon, <2>1 DEF EffectiveMode, choose_randomx_mode, FastBytes
    <3>3. 2 * opts.workers * ScratchpadSize = opts.workers * 2 * ScratchpadSize
      BY <2>2
    <3> QED
      BY Zenon, <2>1, <2>2, <3>1, <3>2, <3>3 DEF PartialFits, validate_partial_dataset_request,
        PartialBytes
  <2> QED
    BY Zenon, <2>1, <2>3, <2>4 DEF AppInv, Checked
<1>5. CASE FitCheck
  <2>1. Kept /\ appPc = "fit" /\ appPc' \in {"exited", "sessions"}
    BY Zenon, <1>5 DEF FitCheck, Exit
  <2>2. opts.workers \in Nat /\ host.memory \in Nat
    BY Zenon DEF AppInv, OptionsOK
  <2>3. appPc' = "sessions" => (EffectiveMode = "fast" => FastBytes <= host.memory)
    <3>1. FastBytes \in Nat
      BY <2>2 DEF FastBytes
    <3> HIDE DEF FastBytes
    <3> QED
      BY <1>5, <2>2, <3>1 DEF FitCheck, Exit, EffectiveMode, choose_randomx_mode
  <2>4. (EffectiveMode = "fast" => FastBytes <= host.memory)' = (EffectiveMode = "fast" => FastBytes <= host.memory)
    BY Zenon, <2>1 DEF EffectiveMode, choose_randomx_mode, FastBytes
  <2>5. PartialFits' = PartialFits
    BY Zenon, <2>1 DEF PartialFits, EffectiveMode, choose_randomx_mode, FastBytes
  <2> QED
    BY Zenon, <2>1, <2>3, <2>4, <2>5 DEF AppInv, Checked, OptionsOK
<1>6. ASSUME NEW s \in {"bench", "pool"}, Begin(s), appPc \in {"sessions", "benched"}
      PROVE  AppInv'
  <2>1. Kept /\ appPc' \in Checked /\ appPc' # "fit" /\ (dataset' # "none" => items > 0)
    BY Zenon, <1>6 DEF Begin, FreshDataset, Checked
  <2>2. (EffectiveMode = "fast" => FastBytes <= host.memory)' = (EffectiveMode = "fast" => FastBytes <= host.memory)
    BY Zenon, <2>1 DEF EffectiveMode, choose_randomx_mode, FastBytes
  <2>3. PartialFits' = PartialFits
    BY Zenon, <2>1 DEF PartialFits, EffectiveMode, choose_randomx_mode, FastBytes
  <2> QED
    BY Zenon, <1>6, <2>1, <2>2, <2>3 DEF AppInv, Checked, OptionsOK
<1>7. CASE run_local_benchmark \/ run_pool_mining
  BY Zenon, <1>6, <1>7 DEF run_local_benchmark, run_pool_mining
<1>8. CASE Return \/ LoopEnds \/ SessionEnds
  BY Zenon, <1>1, <1>8 DEF Return, LoopEnds, SessionEnds, Exit, Checked
<1>9. CASE Signal \/ Exporter \/ ExporterAccepts \/ ExporterInterrupted \/ UNCHANGED appVars
  BY Zenon, <1>1, <1>9 DEF Signal, Exporter, ExporterStarts, ExporterLoops, ExporterTimeout,
    ExporterServes,
    ExporterAccepts, ExporterInterrupted, OnlyExporter, appVars
<1> QED
  BY Zenon, <1>2, <1>3, <1>4, <1>5, <1>7, <1>8, <1>9 DEF AppNext, Main

(* For every list of files, every order and number of flags, every machine
   and all sizes: a session starts only with a partial dataset that is part
   of the dataset and fits next to the cache, two scratchpads per worker and
   the reserve, and in fast mode only if that mode's estimate fits.           *)
THEOREM BudgetKept == AppSpec => []BudgetHolds
<1>1. AppStart("args") => AppInv
  <2> SUFFICES ASSUME AppStart("args") PROVE AppInv
    BY Zenon
  <2>1. OptionsOK(opts) /\ host.memory \in Nat
    BY Zenon, ConfigOptions, SizesAssumption DEF AppStart
  <2> QED
    BY Zenon, <2>1 DEF AppStart, AppInv, Checked
<1>2. AppInv => BudgetHolds
  BY Zenon DEF AppInv, BudgetHolds, PartialFits, Checked
<1> QED
  BY <1>1, <1>2, AppStep, PTL DEF AppSpec

-----------------------------------------------------------------------------
(* The block fill.                                                           *)

(* Every nonempty set of natural numbers has a least element.                *)
LEMMA Least ==
  ASSUME NEW T, T \subseteq Nat, T # {}
  PROVE  \E m \in T : \A k \in T : m <= k
<1> DEFINE R == OpToRel(<, Nat)
<1>1. IsWellFoundedOn(R, Nat)
  BY Zenon, NatLessThanWellFounded
<1>2. \A x, y \in Nat : x < y => <<x, y>> \in R
  BY Zenon DEF OpToRel
<1> HIDE DEF R
<1>3. PICK x \in T : \A y \in T : ~(<<y, x>> \in R)
  BY Zenon, <1>1, WFMin
<1>4. ASSUME NEW y \in T PROVE x <= y
  <2>1. x \in Nat /\ y \in Nat
    BY Zenon
  <2>2. ~(y < x)
    BY Zenon, <1>2, <1>3, <2>1
  <2> QED
    BY <2>1, <2>2
<1> QED
  BY Zenon, <1>3, <1>4

(* Where the fill stands: the place in the memory, and the last blocks written
   (at most one memory's worth of them), counted back from that place.       *)
FillInv ==
  /\ memory_blocks \in MemoryBlocks
  /\ fillPc = "fill" =>
       /\ pass \in Nat /\ slice \in 0..3 /\ index \in 0..(segment_length - 1)
       /\ written \in Seq(Nat)
       /\ pass = 0 => Len(written) = CurrentBlock /\ CurrentBlock >= 2
       /\ pass > 0 => Len(written) >= memory_blocks
       /\ \A d \in 1..memory_blocks : d <= Len(written) =>
            written[Len(written) + 1 - d] =
              IF d <= CurrentBlock THEN CurrentBlock - d ELSE CurrentBlock - d + memory_blocks

(* The memory is four segments of at least two blocks.                       *)
LEMMA Segments ==
  ASSUME memory_blocks \in MemoryBlocks
  PROVE  /\ segment_length \in Nat /\ segment_length >= 2 /\ memory_blocks = 4 * segment_length
         /\ memory_blocks \in Nat /\ 2 * memory_blocks <= WordRange /\ WordRange \in Nat
  BY MemoryAssumption DEF segment_length

(* The place in the memory, and the one after it.                            *)
LEMMA Places ==
  ASSUME NEW seg \in Nat, seg >= 2, NEW s \in 0..3, NEW i \in 0..(seg - 1)
  PROVE  /\ s * seg \in Nat /\ (s + 1) * seg = s * seg + seg /\ s * seg + i \in Nat
         /\ s * seg + i < 4 * seg
         /\ s < 3 => (s + 1) * seg + i < 4 * seg
         /\ s = 3 => s * seg = 3 * seg
         /\ s = 0 => s * seg = 0
<1>1. CASE s = 0 BY <1>1
<1>2. CASE s = 1 BY <1>2
<1>3. CASE s = 2 BY <1>3
<1>4. CASE s = 3 BY <1>4
<1> QED BY <1>1, <1>2, <1>3, <1>4

(* The fill starts with the first two blocks written.                        *)
LEMMA FillInit ==
  ASSUME FillStart("fill") PROVE FillInv
<1>1. memory_blocks \in MemoryBlocks /\ pass = 0 /\ written = <<0, 1>>
  BY Zenon DEF FillStart
<1>2. /\ slice = IF memory_blocks = 8 THEN 1 ELSE 0
      /\ index = IF memory_blocks = 8 THEN 0 ELSE 2
  BY Zenon DEF FillStart
<1>3. /\ segment_length \in Nat /\ segment_length >= 2 /\ memory_blocks = 4 * segment_length
  BY Zenon, <1>1, Segments
<1>4. slice \in 0..3 /\ index \in 0..(segment_length - 1) /\ CurrentBlock = 2
  BY <1>2, <1>3 DEF CurrentBlock
<1>5. written \in Seq(Nat) /\ Len(written) = 2 /\ written[1] = 0 /\ written[2] = 1
  BY <1>1
<1>6. ASSUME NEW d \in 1..memory_blocks, d <= Len(written)
      PROVE written[Len(written) + 1 - d] =
              IF d <= CurrentBlock THEN CurrentBlock - d ELSE CurrentBlock - d + memory_blocks
  BY <1>4, <1>5, <1>6, <1>3
<1> QED BY <1>1, <1>4, <1>5, <1>6 DEF FillInv

(* Compressing a block keeps every block of the lap before it written.       *)
LEMMA FillStep ==
  ASSUME FillInv, Compress PROVE FillInv'
<1> DEFINE seg == segment_length
           here == CurrentBlock
<1>1. fillPc = "fill" /\ memory_blocks' = memory_blocks /\ memory_blocks \in MemoryBlocks
  BY Zenon DEF FillInv, Compress
<1>2. /\ pass \in Nat /\ slice \in 0..3 /\ index \in 0..(segment_length - 1)
      /\ written \in Seq(Nat)
      /\ pass = 0 => Len(written) = CurrentBlock /\ CurrentBlock >= 2
      /\ pass > 0 => Len(written) >= memory_blocks
  BY Zenon, <1>1 DEF FillInv
<1>3. \A d \in 1..memory_blocks : d <= Len(written) =>
        written[Len(written) + 1 - d] =
              IF d <= CurrentBlock THEN CurrentBlock - d ELSE CurrentBlock - d + memory_blocks
  BY Zenon, <1>1 DEF FillInv
<1>4. /\ seg \in Nat /\ seg >= 2 /\ memory_blocks = 4 * seg /\ seg' = seg
  BY Zenon, <1>1, Segments DEF segment_length
<1>5. /\ index' = IF index + 1 < seg THEN index + 1 ELSE 0
      /\ slice' = IF index' # 0 THEN slice ELSE (slice + 1) % 4
      /\ pass' = IF index' = 0 /\ slice' = 0 THEN pass + 1 ELSE pass
      /\ written' = Append(written, here)
  BY Zenon DEF Compress
<1>6. here = slice * seg + index /\ CurrentBlock' = slice' * seg + index'
  BY Zenon, <1>4 DEF CurrentBlock
<1>7. slice' \in 0..3 /\ index' \in 0..(seg - 1) /\ pass' \in Nat
  BY <1>2, <1>4, <1>5
<1> HIDE DEF seg, here
<1>8. here \in Nat /\ here < memory_blocks
  BY Zenon, <1>2, <1>4, <1>6, Places DEF seg
<1>9. /\ here + 1 < memory_blocks => CurrentBlock' = here + 1 /\ pass' = pass
      /\ here + 1 = memory_blocks => CurrentBlock' = 0 /\ pass' = pass + 1
  <2>1. CASE index + 1 < seg
    <3>1. index' = index + 1 /\ index' # 0 /\ slice' = slice /\ pass' = pass
      BY <1>2, <1>5, <2>1, <1>4 DEF seg
    <3>2. CurrentBlock' = here + 1
      BY <1>6, <3>1, <1>2, <1>4, Places DEF seg
    <3>3. CurrentBlock' < memory_blocks
      BY Zenon, <1>4, <1>6, <1>7, Places
    <3> QED BY <3>1, <3>2, <3>3, <1>4
  <2>2. CASE ~(index + 1 < seg) /\ slice < 3
    <3>1. index = seg - 1 /\ index' = 0 /\ slice' = slice + 1 /\ slice' # 0 /\ pass' = pass
      BY SMTT(30), <1>2, <1>5, <2>2, <1>4 DEF seg
    <3>2. CurrentBlock' = here + 1
      BY <1>6, <3>1, <1>2, <1>4, Places DEF seg
    <3>3. CurrentBlock' < memory_blocks
      BY Zenon, <1>4, <1>6, <1>7, Places
    <3> QED BY <3>1, <3>2, <3>3, <1>4
  <2>3. CASE ~(index + 1 < seg) /\ slice = 3
    <3>1. index = seg - 1 /\ index' = 0 /\ slice' = 0 /\ pass' = pass + 1
      BY <1>2, <1>5, <2>3, <1>4 DEF seg
    <3>2. CurrentBlock' = 0 /\ here + 1 = memory_blocks
      BY <1>6, <3>1, <1>2, <1>4, <2>3, Places DEF seg
    <3> QED BY <3>1, <3>2, <1>4
  <2> QED BY <2>1, <2>2, <2>3, <1>2
<1>10. /\ written' \in Seq(Nat) /\ Len(written') = Len(written) + 1 /\ Len(written) \in Nat
       /\ written'[Len(written')] = here
       /\ \A n \in 1..Len(written) : written'[n] = written[n]
  BY <1>2, <1>5, <1>8
<1>11. ASSUME NEW d \in 1..memory_blocks, d <= Len(written')
       PROVE written'[Len(written') + 1 - d] =
               IF d <= CurrentBlock' THEN CurrentBlock' - d ELSE CurrentBlock' - d + memory_blocks
  <2>1. CASE d = 1
    <3>1. written'[Len(written') + 1 - d] = here
      BY <1>10, <2>1
    <3> QED
      BY <1>4, <1>8, <1>9, <2>1, <3>1
  <2>2. CASE d # 1
    <3>1. d - 1 \in 1..memory_blocks /\ d - 1 <= Len(written) /\ d \in Nat
      BY <1>4, <1>10, <1>11, <2>2
    <3>2. written'[Len(written') + 1 - d] = written[Len(written) + 1 - (d - 1)]
      <4>1. /\ Len(written') + 1 - d = Len(written) + 1 - (d - 1)
            /\ Len(written) + 1 - (d - 1) \in 1..Len(written)
        BY <1>10, <3>1
      <4> QED BY Zenon, <1>10, <4>1
    <3>3. written[Len(written) + 1 - (d - 1)] =
            IF d - 1 <= here THEN here - (d - 1) ELSE here - (d - 1) + memory_blocks
      BY Zenon, <1>3, <3>1 DEF here
    <3> QED BY <1>4, <1>8, <1>9, <3>1, <3>2, <3>3
  <2> QED BY Zenon, <2>1, <2>2
<1>12. pass' = 0 => Len(written') = CurrentBlock' /\ CurrentBlock' >= 2
  BY <1>2, <1>4, <1>8, <1>9, <1>10 DEF here
<1>13. pass' > 0 => Len(written') >= memory_blocks
  BY <1>2, <1>4, <1>8, <1>9, <1>10 DEF here
<1>14. \A d \in 1..memory_blocks' : d <= Len(written') =>
         written'[Len(written') + 1 - d] =
           IF d <= CurrentBlock' THEN CurrentBlock' - d ELSE CurrentBlock' - d + memory_blocks'
  BY Zenon, <1>1, <1>11
<1>15. index' \in 0..(segment_length' - 1)
  BY Zenon, <1>4, <1>7 DEF seg
<1>16. pass' > 0 => Len(written') >= memory_blocks'
  BY Zenon, <1>1, <1>13
<1>17. memory_blocks' \in MemoryBlocks
  BY Zenon, <1>1
<1> QED BY Zenon, <1>7, <1>10, <1>12, <1>14, <1>15, <1>16, <1>17 DEF FillInv

(* What a quotient of natural numbers is.                                    *)
LEMMA Quotient ==
  ASSUME NEW a \in Nat, NEW b \in Nat \ {0}
  PROVE  /\ a \div b \in Nat
         /\ b * (a \div b) \in Nat
         /\ b * (a \div b) <= a /\ a < b * (a \div b) + b
<1>1. a \div b \in Nat /\ a % b \in 0..(b - 1)
  OBVIOUS
<1>2. a = b * (a \div b) + (a % b)
  OBVIOUS
<1>3. PICK q \in Nat : q = a \div b
  BY Zenon, <1>1
<1>4. b * q \in Nat
  OBVIOUS
<1> QED
  BY <1>1, <1>2, <1>3, <1>4

(* How a quotient is told from its bounds.                                   *)
LEMMA QuotientIs ==
  ASSUME NEW a \in Nat, NEW b \in Nat \ {0}, NEW q \in Nat, b * q <= a, a < b * q + b
  PROVE  a \div b = q
<1>1. PICK p \in Nat : p = a \div b /\ b * p <= a /\ a < b * p + b
  BY Zenon, Quotient
<1>2. ASSUME p < q PROVE FALSE
  <2>1. b * (p + 1) <= b * q
    BY <1>2
  <2>2. b * (p + 1) = b * p + b
    OBVIOUS
  <2> QED BY <1>1, <2>1, <2>2
<1>3. ASSUME q < p PROVE FALSE
  <2>1. b * (q + 1) <= b * p
    BY <1>3
  <2>2. b * (q + 1) = b * q + b
    OBVIOUS
  <2> QED BY <1>1, <2>1, <2>2
<1> QED BY <1>1, <1>2, <1>3

(* The high half of j1's square, and the share of the area it stands for.    *)
High(j) == (j * j) \div WordRange
Share(area, j) == (area * High(j)) \div WordRange

(* j1's high half is below 2^32, and the next j1's is at most two above.     *)
LEMMA HighBounds ==
  ASSUME WordRange \in Nat \ {0}, NEW j \in 0..(WordRange - 1)
  PROVE  /\ High(j) \in Nat /\ High(j) <= WordRange - 1
         /\ j > 0 => High(j) <= High(j - 1) + 2
         /\ j = WordRange - 1 => High(j) >= WordRange - 2
         /\ j = 0 => High(j) = 0
<1> DEFINE W == WordRange
<1>1. j * j \in Nat
  OBVIOUS
<1>2. PICK h \in Nat : /\ h = High(j) /\ W * h \in Nat /\ W * h <= j * j /\ j * j < W * h + W
  BY Zenon, <1>1, Quotient DEF High
<1>3. h <= W - 1
  <2>1. SUFFICES ASSUME h >= W PROVE FALSE
    BY <1>2
  <2>2. W * h >= W * W
    BY <2>1
  <2>3. j * j <= (W - 1) * (W - 1)
    <3>1. j * j <= j * (W - 1) /\ j * (W - 1) <= (W - 1) * (W - 1)
      OBVIOUS
    <3> QED BY <3>1
  <2>4. (W - 1) * (W - 1) < W * W
    OBVIOUS
  <2> QED BY <1>1, <1>2, <2>2, <2>3, <2>4
<1>4. ASSUME j > 0 PROVE h <= High(j - 1) + 2
  <2>1. j - 1 \in Nat /\ (j - 1) * (j - 1) \in Nat
    BY <1>4
  <2>2. PICK g \in Nat : g = High(j - 1) /\ (j - 1) * (j - 1) < W * g + W
    BY Zenon, <2>1, Quotient DEF High
  <2>3. j * j = (j - 1) * (j - 1) + 2 * j - 1
    OBVIOUS
  <2>4. SUFFICES ASSUME h >= g + 3 PROVE FALSE
    BY <2>2
  <2>5. W * h >= W * (g + 3)
    BY <2>4
  <2>6. W * (g + 3) = W * g + 3 * W
    OBVIOUS
  <2> QED BY <1>2, <2>2, <2>3, <2>5, <2>6
<1>5. ASSUME j = W - 1 PROVE h >= W - 2
  <2>1. j * j = W * (W - 2) + 1
    BY <1>5
  <2>2. SUFFICES ASSUME h <= W - 3 PROVE FALSE
    BY <1>2
  <2>3. W * h <= W * (W - 3)
    BY <2>2
  <2>4. W * (W - 3) = W * (W - 2) - W
    OBVIOUS
  <2> QED BY <1>2, <2>1, <2>3, <2>4
<1>6. ASSUME j = 0 PROVE h = 0
  <2>1. W * h <= 0
    BY <1>2, <1>6
  <2> QED BY <2>1
<1> QED BY Zenon, <1>2, <1>3, <1>4, <1>5, <1>6

(* Every position of the area is some j1's, and no j1 leaves it.             *)
LEMMA ShareIsOnto ==
  ASSUME WordRange \in Nat, NEW area \in Nat \ {0}, 2 * area <= WordRange
  PROVE  /\ \A j \in 0..(WordRange - 1) : Share(area, j) \in 0..(area - 1)
         /\ \A y \in 0..(area - 1) : \E j \in 0..(WordRange - 1) : Share(area, j) = y
<1> DEFINE W == WordRange
<1>1. W \in Nat \ {0} /\ W >= 2
  OBVIOUS
<1>2. ASSUME NEW j \in 0..(W - 1)
      PROVE  /\ High(j) \in Nat /\ High(j) <= W - 1
             /\ j > 0 => High(j) <= High(j - 1) + 2
             /\ j = W - 1 => High(j) >= W - 2
             /\ j = 0 => High(j) = 0
  BY Zenon, <1>1, HighBounds
<1>3. ASSUME NEW j \in 0..(W - 1) PROVE Share(area, j) \in 0..(area - 1)
  <2>1. PICK h \in Nat : h = High(j) /\ h <= W - 1
    BY Zenon, <1>2
  <2>2. area * h \in Nat /\ area * h <= area * (W - 1) /\ area * (W - 1) < W * area
    BY <2>1, <1>1
  <2>3. PICK s \in Nat : s = Share(area, j) /\ W * s <= area * h
    BY Zenon, <1>1, <2>1, <2>2, Quotient DEF Share
  <2>4. SUFFICES ASSUME s >= area PROVE FALSE
    BY <2>3
  <2>5. W * s >= W * area
    BY <1>1, <2>4
  <2> QED BY <2>2, <2>3, <2>5
<1>4. ASSUME NEW y \in 0..(area - 1) PROVE \E j \in 0..(W - 1) : Share(area, j) = y
  <2> DEFINE T == {j \in 0..(W - 1) : area * High(j) >= W * y}
  <2>1. W - 1 \in T
    <3>1. PICK h \in Nat : h = High(W - 1) /\ h >= W - 2
      BY <1>1, <1>2
    <3>2. area * h >= area * (W - 2)
      BY <1>1, <3>1
    <3>3. area * (W - 2) = W * (area - 1) + W - 2 * area
      OBVIOUS
    <3>4. W * (area - 1) >= W * y
      BY <1>1
    <3> QED BY <1>1, <3>1, <3>2, <3>3, <3>4
  <2>2. PICK j \in T : \A k \in T : j <= k
    <3>1. T \subseteq Nat /\ T # {}
      BY <2>1
    <3> HIDE DEF T
    <3> QED BY Zenon, <3>1, Least
  <2>3. j \in 0..(W - 1)
    BY Zenon
  <2>4. PICK h \in Nat : h = High(j) /\ area * h \in Nat /\ area * h >= W * y
    BY <1>2, <2>3
  <2>5. area * h < W * y + W
    <3>1. CASE j = 0
      <4>1. h = 0
        BY Zenon, <1>2, <2>3, <2>4, <3>1
      <4>2. area * h = 0 /\ W * y >= 0
        BY <4>1, <1>1
      <4> QED BY <1>1, <4>2
    <3>2. CASE j # 0
      <4>1. j - 1 \in 0..(W - 1) /\ j > 0 /\ j - 1 \notin T
        BY <2>2, <2>3, <3>2
      <4>2. PICK g \in Nat : g = High(j - 1) /\ h <= g + 2
        BY Zenon, <1>2, <2>3, <2>4, <4>1
      <4>3. area * g < W * y
        BY <4>1, <4>2
      <4>4. area * h <= area * (g + 2) /\ area * (g + 2) = area * g + 2 * area
        BY <4>2
      <4> QED BY <4>3, <4>4
    <3> QED BY Zenon, <3>1, <3>2
  <2>6. Share(area, j) = y
    BY <1>1, <2>4, <2>5, QuotientIs DEF Share
  <2> QED BY Zenon, <2>3, <2>6
<1> QED BY Zenon, <1>3, <1>4

(* The area is what the window holds, and a position r of it is the r-th of the
   window, counted from its oldest block.                                    *)
LEMMA Window ==
  ASSUME FillInv, fillPc = "fill"
  PROVE  LET size == IF pass = 0 THEN Len(written) ELSE 3 * segment_length + index
             from == IF pass = 0 \/ slice = 3 THEN 0 ELSE (slice + 1) * segment_length
         IN /\ reference_area = size - 1 /\ reference_area \in Nat \ {0}
            /\ reference_area <= memory_blocks /\ size <= Len(written) /\ size \in Nat
            /\ \A r \in 0..(reference_area - 1) :
                 (from + r) % memory_blocks = written[Len(written) + 1 - (size - r)]
<1> DEFINE seg == segment_length
           here == CurrentBlock
           mb == memory_blocks
           size == IF pass = 0 THEN Len(written) ELSE 3 * segment_length + index
           from == IF pass = 0 \/ slice = 3 THEN 0 ELSE (slice + 1) * segment_length
<1>1. /\ pass \in Nat /\ slice \in 0..3 /\ index \in 0..(seg - 1)
      /\ written \in Seq(Nat) /\ Len(written) \in Nat
      /\ pass = 0 => Len(written) = here /\ here >= 2
      /\ pass > 0 => Len(written) >= mb
  BY DEF FillInv
<1>2. ASSUME NEW d \in 1..mb, d <= Len(written)
      PROVE written[Len(written) + 1 - d] = IF d <= here THEN here - d ELSE here - d + mb
  BY Zenon, <1>2 DEF FillInv
<1>3. seg \in Nat /\ seg >= 2 /\ mb = 4 * seg /\ mb \in Nat
  BY Zenon, Segments DEF FillInv
<1>4. here = slice * seg + index
  BY Zenon DEF CurrentBlock
<1>5. /\ slice * seg \in Nat /\ (slice + 1) * seg = slice * seg + seg
      /\ here \in Nat /\ here < mb
      /\ slice = 3 => slice * seg = 3 * seg
      /\ slice = 0 => slice * seg = 0
      /\ slice < 3 => slice * seg + seg + index < 4 * seg
  BY Zenon, <1>1, <1>3, <1>4, Places
<1>6. reference_area = size - 1
  BY <1>1, <1>3, <1>4, <1>5 DEF reference_area
<1>7. /\ size \in Nat /\ size >= 2 /\ size <= mb /\ size <= Len(written)
  BY <1>1, <1>3, <1>4, <1>5
<1>8. \/ size = here /\ from = 0
      \/ /\ size = 3 * seg + index /\ from = slice * seg + seg /\ slice * seg + seg <= 3 * seg
  <2>1. slice < 3 => slice * seg + seg <= 3 * seg
    BY <1>1, <1>3, <1>4, <1>5
  <2> QED
    BY SMTT(30), <2>1, <1>1, <1>3, <1>4, <1>5
<1> DEFINE row == slice * seg
<1>9. row \in Nat /\ here = row + index /\ index \in Nat /\ index < seg
  BY <1>1, <1>3, <1>4, <1>5
<1>10. \/ size = here /\ from = 0
       \/ size = 3 * seg + index /\ from = row + seg /\ row + seg <= 3 * seg
  BY Zenon, <1>8
<1> HIDE DEF size, from, seg, here, mb, row
<1>11. ASSUME NEW r \in 0..(size - 2)
       PROVE (from + r) % mb = written[Len(written) + 1 - (size - r)]
  <2>1. PICK d \in Int : d = size - r
    BY <1>7
  <2>2. d \in 1..mb /\ d <= Len(written)
    BY <1>1, <1>3, <1>7, <2>1
  <2> DEFINE v == IF d <= here THEN here - d ELSE here - d + mb
  <2>3. v \in Nat /\ v < mb
    BY <2>2, <1>3, <1>5
  <2>4. from + r = v \/ from + r = v + mb
    BY SMTT(30), <1>3, <1>5, <1>7, <1>9, <1>10, <2>1, <2>3
  <2>5. v % mb = v /\ (v + mb) % mb = v
    BY <1>3, <2>3
  <2>6. written[Len(written) + 1 - d] = v
    BY Zenon, <1>2, <2>2, <2>3
  <2> QED
    BY Zenon, <2>1, <2>4, <2>5, <2>6
<1>12. \A r \in 0..(reference_area - 1) :
         (from + r) % mb = written[Len(written) + 1 - (size - r)]
  BY <1>6, <1>7, <1>11
<1>13. reference_area \in Nat \ {0} /\ reference_area <= mb
  BY <1>3, <1>6, <1>7
<1> QED
  BY Zenon, <1>6, <1>7, <1>12, <1>13 DEF size, from, mb

(* The references are those of the window.                                   *)
LEMMA FillGivesWindow ==
  ASSUME FillInv PROVE ReferenceWindow
<1> SUFFICES ASSUME fillPc = "fill" PROVE ReferenceWindow
  BY Zenon DEF ReferenceWindow
<1> DEFINE size == IF pass = 0 THEN Len(written) ELSE 3 * segment_length + index
           from == IF pass = 0 \/ slice = 3 THEN 0 ELSE (slice + 1) * segment_length
           area == reference_area
           last == Len(written)
           W == WordRange
           seen == {written[n] : n \in (last - size + 1)..(last - 1)}
<1>1. /\ area = size - 1 /\ area \in Nat \ {0} /\ size \in Nat /\ size <= last
      /\ area <= memory_blocks
      /\ \A r \in 0..(area - 1) : (from + r) % memory_blocks = written[last + 1 - (size - r)]
  BY Zenon, Window
<1>2. last \in Nat
  BY DEF FillInv
<1>3. WordRange \in Nat /\ 2 * area <= WordRange
  <2>1. memory_blocks \in MemoryBlocks
    BY Zenon DEF FillInv
  <2>2. memory_blocks \in Nat /\ 2 * memory_blocks <= WordRange /\ WordRange \in Nat
    BY Zenon, <2>1, Segments
  <2> QED
    BY <1>1, <2>2
<1>4. /\ \A j \in 0..(W - 1) : Share(area, j) \in 0..(area - 1)
      /\ \A y \in 0..(area - 1) : \E j \in 0..(W - 1) : Share(area, j) = y
  BY Zenon, <1>1, <1>3, ShareIsOnto
<1>5. ASSUME NEW j PROVE reference(j) = (from + (area - 1 - Share(area, j))) % memory_blocks
  BY Zenon DEF reference, Share, High
<1> HIDE DEF size, from, area, last, W
<1>6. ASSUME NEW j \in 0..(W - 1) PROVE reference(j) \in seen
  <2> DEFINE r == area - 1 - Share(area, j)
  <2>1. r \in 0..(area - 1)
    BY <1>1, <1>4
  <2>2. reference(j) = written[last + 1 - (size - r)]
    BY Zenon, <1>1, <1>5, <2>1
  <2>3. last + 1 - (size - r) \in (last - size + 1)..(last - 1)
    BY <1>1, <1>2, <2>1
  <2> QED
    BY Zenon, <2>2, <2>3
<1>7. ASSUME NEW n \in (last - size + 1)..(last - 1)
      PROVE  \E j \in 0..(W - 1) : reference(j) = written[n]
  <2> DEFINE r == n - (last - size + 1)
  <2>1. r \in 0..(area - 1) /\ area - 1 - r \in 0..(area - 1) /\ last + 1 - (size - r) = n
    BY <1>1, <1>2
  <2>2. PICK j \in 0..(W - 1) : Share(area, j) = area - 1 - r
    BY Zenon, <1>4, <2>1
  <2>3. area - 1 - Share(area, j) = r
    BY <1>1, <2>1, <2>2
  <2>4. reference(j) = written[n]
    BY Zenon, <1>1, <1>5, <2>1, <2>3
  <2> QED
    BY Zenon, <2>4
<1>8. {reference(j) : j \in 0..(W - 1)} = seen
  BY Zenon, <1>6, <1>7
<1> QED
  BY Zenon, <1>8 DEF ReferenceWindow, size, last, W

(* Every step of the fill keeps the invariant.                               *)
LEMMA FillNext ==
  ASSUME FillInv, [Compress]_fillVars
  PROVE  FillInv'
<1>1. CASE Compress
  BY Zenon, <1>1, FillStep
<1>2. CASE UNCHANGED fillVars
  BY Zenon, <1>2 DEF fillVars, FillInv, CurrentBlock, segment_length
<1> QED
  BY Zenon, <1>1, <1>2

(* Argon2dCache::initialize's reference_area and start_position: for every
   size of the memory and every number of passes, the blocks a 32-bit word can
   select are exactly those of Argon2's window.                              *)
THEOREM ReferencesAreTheWindow == FillSpec => []ReferenceWindow
  BY FillInit, FillNext, FillGivesWindow, PTL DEF FillSpec
=============================================================================
