---------------------------- MODULE RotationLock ----------------------------
(* PartialDataset::RotationLock (include/armrx/partial_dataset.hpp): the     *)
(* writer-preferring reader-writer lock between hashing workers (readers,    *)
(* through ReadGuard) and start_fill() (the writer).  Every member function  *)
(* body runs under m_ and is one step, up to a wait that parks the thread on *)
(* a condition variable; unlock() notifies after it has released m_, so its  *)
(* two notifications are steps of their own.                                 *)
EXTENDS Integers, FiniteSets

CONSTANTS Readers,   \* threads that take ReadGuards (mining workers)
          Writers    \* threads that rotate (callers of start_fill)

ASSUME ThreadsAssumption ==
  /\ IsFiniteSet(Readers) /\ IsFiniteSet(Writers)
  /\ Readers \cap Writers = {}

VARIABLES pc,               \* where each thread is
          active_readers_, waiting_writers_, writer_active_

vars == <<pc, active_readers_, waiting_writers_, writer_active_>>

ReaderPC == {"idle", "parked", "woken", "reading"}
WriterPC == {"idle", "parked", "woken", "writing", "unlocking", "notifying"}

At(T, labels) == {t \in T : pc[t] \in labels}

\* notify_all on the condition variable the threads of T park on; self moves on.
Notify(T, self, next) ==
  pc' = [t \in DOMAIN pc |-> IF t = self THEN next
                             ELSE IF t \in T /\ pc[t] = "parked" THEN "woken"
                             ELSE pc[t]]

Init ==
  /\ pc = [t \in Readers \cup Writers |-> "idle"]
  /\ active_readers_ = 0
  /\ waiting_writers_ = 0
  /\ writer_active_ = FALSE

\* Mutants: no writer preference; readers not waited for.
ReaderMayEnter_no_preference == ~writer_active_
WriterMayEnter_with_readers == ~writer_active_

ReaderMayEnter == ~writer_active_ /\ waiting_writers_ = 0
WriterMayEnter == ~writer_active_ /\ active_readers_ = 0

\* lock_shared(): the first evaluation of the predicate, and each one after a wake.
lock_shared(r) ==
  /\ pc[r] \in {"idle", "woken"}
  /\ \/ /\ ReaderMayEnter
        /\ active_readers_' = active_readers_ + 1
        /\ pc' = [pc EXCEPT ![r] = "reading"]
     \/ /\ ~ReaderMayEnter
        /\ pc' = [pc EXCEPT ![r] = "parked"]
        /\ UNCHANGED active_readers_
  /\ UNCHANGED <<waiting_writers_, writer_active_>>

\* Mutant: the last reader out wakes nobody.
unlock_shared_silent(r) ==
  /\ pc[r] = "reading"
  /\ active_readers_' = active_readers_ - 1
  /\ pc' = [pc EXCEPT ![r] = "idle"]
  /\ UNCHANGED <<waiting_writers_, writer_active_>>

\* unlock_shared(): the last reader out wakes the writers.
unlock_shared(r) ==
  /\ pc[r] = "reading"
  /\ active_readers_' = active_readers_ - 1
  /\ IF active_readers_' = 0 THEN Notify(Writers, r, "idle")
                             ELSE pc' = [pc EXCEPT ![r] = "idle"]
  /\ UNCHANGED <<waiting_writers_, writer_active_>>

\* Mutant: the uncontended path withdraws an announcement it never made.
lock_withdraws(w) ==
  /\ pc[w] = "idle"
  /\ \/ /\ WriterMayEnter
        /\ writer_active_' = TRUE
        /\ waiting_writers_' = waiting_writers_ - 1
        /\ pc' = [pc EXCEPT ![w] = "writing"]
     \/ /\ ~WriterMayEnter
        /\ waiting_writers_' = waiting_writers_ + 1
        /\ pc' = [pc EXCEPT ![w] = "parked"]
        /\ UNCHANGED writer_active_
  /\ UNCHANGED active_readers_

\* lock(): announces the writer, then the first evaluation of its predicate.
lock(w) ==
  /\ pc[w] = "idle"
  /\ \/ /\ WriterMayEnter
        /\ writer_active_' = TRUE
        /\ pc' = [pc EXCEPT ![w] = "writing"]
        /\ UNCHANGED waiting_writers_
     \/ /\ ~WriterMayEnter
        /\ waiting_writers_' = waiting_writers_ + 1
        /\ pc' = [pc EXCEPT ![w] = "parked"]
        /\ UNCHANGED writer_active_
  /\ UNCHANGED active_readers_

\* Mutant: a writer let in after waiting stays counted as waiting.
lock_recheck_keeps_count(w) ==
  /\ pc[w] = "woken" /\ WriterMayEnter
  /\ writer_active_' = TRUE
  /\ pc' = [pc EXCEPT ![w] = "writing"]
  /\ UNCHANGED <<active_readers_, waiting_writers_>>

\* lock(): the predicate again after a wake.
lock_recheck(w) ==
  /\ pc[w] = "woken"
  /\ \/ /\ WriterMayEnter
        /\ waiting_writers_' = waiting_writers_ - 1
        /\ writer_active_' = TRUE
        /\ pc' = [pc EXCEPT ![w] = "writing"]
     \/ /\ ~WriterMayEnter
        /\ pc' = [pc EXCEPT ![w] = "parked"]
        /\ UNCHANGED <<waiting_writers_, writer_active_>>
  /\ UNCHANGED active_readers_

unlock(w) ==
  /\ pc[w] = "writing"
  /\ writer_active_' = FALSE
  /\ pc' = [pc EXCEPT ![w] = "unlocking"]
  /\ UNCHANGED <<active_readers_, waiting_writers_>>

unlock_notify_writers(w) ==
  /\ pc[w] = "unlocking"
  /\ Notify(Writers, w, "notifying")
  /\ UNCHANGED <<active_readers_, waiting_writers_, writer_active_>>

\* Mutant: the readers are not notified.
unlock_forgets_readers(w) ==
  /\ pc[w] = "notifying"
  /\ pc' = [pc EXCEPT ![w] = "idle"]
  /\ UNCHANGED <<active_readers_, waiting_writers_, writer_active_>>

unlock_notify_readers(w) ==
  /\ pc[w] = "notifying"
  /\ Notify(Readers, w, "idle")
  /\ UNCHANGED <<active_readers_, waiting_writers_, writer_active_>>

\* std::condition_variable may return without a notification.
SpuriousWake(t) ==
  /\ pc[t] = "parked"
  /\ pc' = [pc EXCEPT ![t] = "woken"]
  /\ UNCHANGED <<active_readers_, waiting_writers_, writer_active_>>

Reader(r) == lock_shared(r) \/ unlock_shared(r)
Writer(w) == \/ lock(w) \/ lock_recheck(w) \/ unlock(w)
             \/ unlock_notify_writers(w) \/ unlock_notify_readers(w)

Next ==
  \/ \E r \in Readers : Reader(r)
  \/ \E w \in Writers : Writer(w)
  \/ \E t \in Readers \cup Writers : SpuriousWake(t)

\* A thread that entered a member function keeps running: a guard is released
\* (a hash ends), a woken thread re-evaluates, unlock() runs to its end.  Nobody
\* has to call lock_shared() or lock(), and no wake is assumed to be spurious.
Fairness ==
  /\ \A r \in Readers : WF_vars(pc[r] # "idle" /\ Reader(r))
  /\ \A w \in Writers : WF_vars(pc[w] # "idle" /\ Writer(w))

Spec == Init /\ [][Next]_vars
FairSpec == Spec /\ Fairness

-----------------------------------------------------------------------------
(* Properties *)

\* Every thread is at a label of its side and the counters are naturals.
TypeOK ==
  /\ pc \in [Readers \cup Writers -> ReaderPC \cup WriterPC]
  /\ \A r \in Readers : pc[r] \in ReaderPC
  /\ \A w \in Writers : pc[w] \in WriterPC
  /\ active_readers_ \in Nat
  /\ waiting_writers_ \in Nat
  /\ writer_active_ \in BOOLEAN

\* The reset section of start_fill() never overlaps a held ReadGuard nor another
\* reset section: what the reader-quiescence barrier is for.
MutualExclusion ==
  \A w \in Writers : pc[w] = "writing" =>
    /\ At(Readers, {"reading"}) = {}
    /\ At(Writers, {"writing"}) = {w}

\* The counters kept under m_ are exactly the threads they stand for.
CountersAgree ==
  /\ active_readers_ = Cardinality(At(Readers, {"reading"}))
  /\ waiting_writers_ = Cardinality(At(Writers, {"parked", "woken"}))
  /\ writer_active_ <=> At(Writers, {"writing"}) # {}

\* No lost wakeup for readers: a parked reader always has a writer that is ahead
\* of it and has not yet done its readers_cv_ notification.
ParkedReaderHasWaker ==
  At(Readers, {"parked"}) # {} => At(Writers, WriterPC \ {"idle"}) # {}

\* No lost wakeup for writers: a parked writer always has a reader inside, a
\* writer inside, or an unlock() that still has to notify writer_cv_, unless
\* another writer is awake and will go first.
ParkedWriterHasWaker ==
  At(Writers, {"parked"}) # {} =>
    \/ At(Readers, {"reading"}) # {}
    \/ At(Writers, {"writing", "unlocking", "woken"}) # {}

\* Writer preference: when a start_fill() waits for the lock, a writer gets it, however
\* often the mining workers take new ReadGuards.
WriterAdmitted ==
  \A w \in Writers : pc[w] \in {"parked", "woken"} ~> At(Writers, {"writing"}) # {}
=============================================================================
