------------------------- MODULE FastRebuild_proofs -------------------------
(* For any finite set of workers, seeds and jobs: the countdown of a          *)
(* fast-mode rebuild is exact; and until stop() is called, fast mode hashes   *)
(* with complete datasets only and never writes one that is installed.        *)
EXTENDS FastRebuild, FiniteSetTheorems, TLAPS

Waiting == {"test", "parking", "parked"}
Builders == {"target", "build", "report"}
Steps == {"idle", "alloc", "temporary", "announce", "bump", "install", "publish"}
         \cup Waiting

Types ==
  /\ spc \in Steps /\ pc \in [Workers -> Labels]
  /\ dataset_init_generation_ \in Nat /\ local_init_gen \in [Workers -> Nat]
  /\ dataset_init_remaining_ \in Int
  /\ running_ \in BOOLEAN /\ started \in BOOLEAN

(* Nobody takes part in a rebuild, and everybody knows of the last one.       *)
Settled == \A w \in Workers : /\ local_init_gen[w] = dataset_init_generation_
                              /\ pc[w] \notin Builders

(* A builder builds for the current generation; and the workers are settled
   before start(), whenever a running engine does not wait, and between the
   announcement of a rebuild and the bump that starts it.                     *)
Participation ==
  /\ \A w \in Workers : local_init_gen[w] <= dataset_init_generation_
  /\ \A w \in Workers : pc[w] \in Builders => local_init_gen[w] = dataset_init_generation_
  /\ running_ => started
  /\ spc \in {"announce", "bump"} \cup Waiting => started
  /\ ~started => \A w \in Workers : pc[w] = "off"
  /\ ~started \/ (running_ /\ spc \notin Waiting) \/ spc \in {"announce", "bump"} => Settled
  /\ spc = "bump" => dataset_init_remaining_ = Cardinality(Workers)

CountInv == Types /\ Participation /\ CountdownExact

-----------------------------------------------------------------------------
(* The number of workers is a natural number.                                 *)
LEMMA WorkersFinite == Cardinality(Workers) \in Nat
  BY Zenon, FastAssumption, FS_CardinalityType

(* The workers that owe a report are finitely many, none owing means settled,
   and a report takes exactly its worker from them.                           *)
LEMMA OwingFacts ==
  /\ IsFiniteSet(Owing) /\ Cardinality(Owing) \in Nat
  /\ Cardinality(Owing) = 0 => Settled
  /\ \A w \in Owing : Cardinality(Owing \ {w}) = Cardinality(Owing) - 1
<1>1. IsFiniteSet(Owing)
  BY Zenon, FastAssumption, FS_Subset DEF Owing
<1>2. Cardinality(Owing) \in Nat
  BY Zenon, <1>1, FS_CardinalityType
<1>3. Cardinality(Owing) = 0 => Settled
  BY <1>1, FS_EmptySet DEF Owing, Settled, Builders
<1>4. \A w \in Owing : Cardinality(Owing \ {w}) = Cardinality(Owing) - 1
  BY Zenon, <1>1, FS_RemoveElement
<1> QED
  BY Zenon, <1>1, <1>2, <1>3, <1>4

(* Every step keeps labels, generations and the countdown in range.           *)
LEMMA TypesStep ==
  Types /\ [Next]_vars => Types'
<1> SUFFICES ASSUME Types, [Next]_vars
             PROVE  Types'
  BY Zenon
<1> USE FastAssumption DEF engine, datasets, init, setter, jobview, build
<1> USE WorkersFinite
<1>1. ASSUME NEW seed \in Seeds, set_job(seed) PROVE Types'
  BY Zenon, <1>1 DEF set_job, Free, Types, Steps, Waiting, Labels
<1>2. CASE allocate_dataset
  BY Zenon, <1>2 DEF allocate_dataset, Types, Steps, Waiting, Labels
<1>3. CASE build_with_temporary_threads
  BY Zenon, <1>3 DEF build_with_temporary_threads, Types, Steps, Waiting, Labels
<1>4. CASE announce_rebuild
  BY <1>4 DEF announce_rebuild, Types, Steps, Waiting, Labels
<1>5. CASE bump_init_generation
  BY <1>5 DEF bump_init_generation, Types, Steps, Waiting, Labels
<1>6. CASE wait_test
  BY Zenon, <1>6 DEF wait_test, Types, Steps, Waiting, Labels
<1>7. CASE wait_park
  BY Zenon, <1>7 DEF wait_park, Types, Steps, Waiting, Labels
<1>8. CASE install_dataset
  BY Zenon, <1>8 DEF install_dataset, Types, Steps, Waiting, Labels
<1>9. CASE set_job_publish
  BY Zenon, <1>9 DEF set_job_publish, Free, NoJob, Types, Steps, Waiting, Labels
<1>10. CASE SpuriousWake
  BY Zenon, <1>10 DEF SpuriousWake, NotifySetter, Types, Steps, Waiting, Labels
<1>11. CASE start
  BY Zenon, <1>11 DEF start, Types, Steps, Waiting, Labels
<1>12. CASE stop
  BY Zenon, <1>12 DEF stop, Types, Steps, Waiting, Labels
<1>13. CASE stop_notify
  BY Zenon, <1>13 DEF stop_notify, NotifySetter, Types, Steps, Waiting, Labels
<1>14. CASE stop_return
  BY Zenon, <1>14 DEF stop_return, Types, Steps, Waiting, Labels
<1>15. ASSUME NEW w \in Workers, loop_top(w) PROVE Types'
  BY Zenon, <1>15 DEF loop_top, Goto, Types, Steps, Waiting, Labels
<1>16. ASSUME NEW w \in Workers, check_init_gen(w) PROVE Types'
  BY Zenon, <1>16 DEF check_init_gen, Goto, Types, Steps, Waiting, Labels
<1>17. ASSUME NEW w \in Workers, read_target(w) PROVE Types'
  BY Zenon, <1>17 DEF read_target, Goto, Types, Steps, Waiting, Labels
<1>18. ASSUME NEW w \in Workers, build_region(w) PROVE Types'
  BY Zenon, <1>18 DEF build_region, Goto, Types, Steps, Waiting, Labels
<1>19. ASSUME NEW w \in Workers, report_region(w) PROVE Types'
  BY <1>19 DEF report_region, NotifySetter, Goto, Types, Steps, Waiting, Labels
<1>20. ASSUME NEW w \in Workers, check_job(w) PROVE Types'
  BY Zenon, <1>20 DEF check_job, NoJob, Goto, Types, Steps, Waiting, Labels
<1>21. ASSUME NEW w \in Workers, adopt_job(w) PROVE Types'
  BY Zenon, <1>21 DEF adopt_job, Free, Goto, Types, Steps, Waiting, Labels
<1>22. ASSUME NEW w \in Workers, hash_done(w) PROVE Types'
  BY Zenon, <1>22 DEF hash_done, Goto, Types, Steps, Waiting, Labels
<1>23. CASE UNCHANGED vars
  BY Zenon, <1>23 DEF vars, Types, Steps, Waiting, Labels
<1> QED
  BY Zenon, <1>1, <1>2, <1>3, <1>4, <1>5, <1>6, <1>7, <1>8, <1>9, <1>10, <1>11, <1>12, <1>13,
     <1>14, <1>15, <1>16, <1>17, <1>18, <1>19, <1>20, <1>21, <1>22, <1>23
     DEF Next, SetJobStep, WorkerStep

(* Every step keeps builders at the current generation, and settled workers
   settled: a running set_job() leaves its wait only at a count of zero.       *)
LEMMA ParticipationStep ==
  Types /\ Participation /\ CountdownExact /\ [Next]_vars => Participation'
<1> SUFFICES ASSUME Types, Participation, CountdownExact, [Next]_vars
             PROVE  Participation'
  BY Zenon
<1> USE FastAssumption DEF engine, datasets, init, setter, jobview, build
<1>1. ASSUME NEW seed \in Seeds, set_job(seed) PROVE Participation'
  BY Zenon, <1>1 DEF set_job, Free, Types, Participation, Settled, Steps, Waiting, Builders,
     Labels
<1>2. CASE allocate_dataset
  BY Zenon, <1>2 DEF allocate_dataset, Types, Participation, Settled, Steps, Waiting,
     Builders, Labels
<1>3. CASE build_with_temporary_threads
  BY Zenon, <1>3 DEF build_with_temporary_threads, Types, Participation, Settled, Steps,
     Waiting, Builders, Labels
<1>4. CASE announce_rebuild
  BY Zenon, <1>4 DEF announce_rebuild, Types, Participation, Settled, Steps, Waiting,
     Builders, Labels
<1>5. CASE bump_init_generation
  BY <1>5 DEF bump_init_generation, Types, Participation, Settled, Steps, Waiting,
     Builders, Labels
<1>6. CASE wait_test
  <2>1. CASE dataset_init_remaining_ = 0
    <3>1. Settled
      BY Zenon, <2>1, <1>6, OwingFacts DEF wait_test, CountdownExact, Waiting
    <3> QED
      BY Zenon, <3>1, <2>1, <1>6 DEF wait_test, Types, Participation, Settled, Waiting
  <2>2. CASE dataset_init_remaining_ # 0
    BY Zenon, <2>2, <1>6 DEF wait_test, Types, Participation, Settled, Waiting
  <2> QED
    BY Zenon, <2>1, <2>2
<1>7. CASE wait_park
  BY Zenon, <1>7 DEF wait_park, Types, Participation, Settled, Steps, Waiting, Builders,
     Labels
<1>8. CASE install_dataset
  BY Zenon, <1>8 DEF install_dataset, Types, Participation, Settled, Steps, Waiting,
     Builders, Labels
<1>9. CASE set_job_publish
  BY Zenon, <1>9 DEF set_job_publish, Free, NoJob, Types, Participation, Settled, Steps,
     Waiting, Builders, Labels
<1>10. CASE SpuriousWake
  BY Zenon, <1>10 DEF SpuriousWake, NotifySetter, Types, Participation, Settled, Steps,
     Waiting, Builders, Labels
<1>11. CASE start
  BY Zenon, <1>11 DEF start, Types, Participation, Settled, Steps, Waiting, Builders, Labels
<1>12. CASE stop
  BY Zenon, <1>12 DEF stop, Types, Participation, Settled, Steps, Waiting, Builders, Labels
<1>13. CASE stop_notify
  BY Zenon, <1>13 DEF stop_notify, NotifySetter, Types, Participation, Settled, Steps,
     Waiting, Builders, Labels
<1>14. CASE stop_return
  BY Zenon, <1>14 DEF stop_return, Types, Participation, Settled, Steps, Waiting, Builders,
     Labels
<1>15. ASSUME NEW w \in Workers, loop_top(w) PROVE Participation'
  BY Zenon, <1>15 DEF loop_top, Goto, Types, Participation, Settled, Steps, Waiting,
     Builders, Labels
<1>16. ASSUME NEW w \in Workers, check_init_gen(w) PROVE Participation'
  BY <1>16 DEF check_init_gen, Goto, Types, Participation, Settled, Steps, Waiting,
     Builders, Labels
<1>17. ASSUME NEW w \in Workers, read_target(w) PROVE Participation'
  BY Zenon, <1>17 DEF read_target, Goto, Types, Participation, Settled, Steps, Waiting,
     Builders, Labels
<1>18. ASSUME NEW w \in Workers, build_region(w) PROVE Participation'
  BY Zenon, <1>18 DEF build_region, Goto, Types, Participation, Settled, Steps, Waiting,
     Builders, Labels
<1>19. ASSUME NEW w \in Workers, report_region(w) PROVE Participation'
  BY Zenon, <1>19 DEF report_region, NotifySetter, Goto, Types, Participation, Settled,
     Steps, Waiting, Builders, Labels
<1>20. ASSUME NEW w \in Workers, check_job(w) PROVE Participation'
  BY Zenon, <1>20 DEF check_job, NoJob, Goto, Types, Participation, Settled, Steps, Waiting,
     Builders, Labels
<1>21. ASSUME NEW w \in Workers, adopt_job(w) PROVE Participation'
  BY Zenon, <1>21 DEF adopt_job, Free, Goto, Types, Participation, Settled, Steps, Waiting,
     Builders, Labels
<1>22. ASSUME NEW w \in Workers, hash_done(w) PROVE Participation'
  BY Zenon, <1>22 DEF hash_done, Goto, Types, Participation, Settled, Steps, Waiting,
     Builders, Labels
<1>23. CASE UNCHANGED vars
  BY Zenon, <1>23 DEF vars, Types, Participation, Settled, Steps, Waiting, Builders, Labels
<1> QED
  BY Zenon, <1>1, <1>2, <1>3, <1>4, <1>5, <1>6, <1>7, <1>8, <1>9, <1>10, <1>11, <1>12, <1>13,
     <1>14, <1>15, <1>16, <1>17, <1>18, <1>19, <1>20, <1>21, <1>22, <1>23
     DEF Next, SetJobStep, WorkerStep

(* A step that is no bump and no report leaves those that owe as they are.    *)
LEMMA CountdownStep ==
  Types /\ Participation /\ CountdownExact /\ [Next]_vars => CountdownExact'
<1> SUFFICES ASSUME Types, Participation, CountdownExact, [Next]_vars
             PROVE  CountdownExact'
  BY Zenon
<1> USE FastAssumption DEF engine, datasets, init, setter, jobview, build
<1>1. ASSUME NEW seed \in Seeds, set_job(seed) PROVE CountdownExact'
  BY Zenon, <1>1 DEF set_job, CountdownExact, Waiting
<1>2. CASE allocate_dataset
  <2>1. Owing' = Owing
    BY Zenon, <1>2 DEF allocate_dataset, Owing, Types, Labels
  <2> QED
    BY Zenon, <2>1, <1>2 DEF allocate_dataset, CountdownExact, Types, Steps, Waiting
<1>3. CASE build_with_temporary_threads
  <2>1. Owing' = Owing
    BY Zenon, <1>3 DEF build_with_temporary_threads, Owing, Types, Labels
  <2> QED
    BY Zenon, <2>1, <1>3 DEF build_with_temporary_threads, CountdownExact, Types, Steps, Waiting
<1>4. CASE announce_rebuild
  <2>1. Owing' = Owing
    BY Zenon, <1>4 DEF announce_rebuild, Owing, Types, Labels
  <2> QED
    BY Zenon, <2>1, <1>4 DEF announce_rebuild, CountdownExact, Types, Steps, Waiting
<1>5. CASE bump_init_generation
  <2>1. Owing' = Workers
    BY <1>5 DEF bump_init_generation, Owing, Types, Participation
  <2> QED
    BY Zenon, <2>1, <1>5 DEF bump_init_generation, CountdownExact, Participation
<1>6. CASE wait_test
  <2>1. Owing' = Owing
    BY Zenon, <1>6 DEF wait_test, Owing, Types, Labels
  <2> QED
    BY Zenon, <2>1, <1>6 DEF wait_test, CountdownExact, Types, Steps, Waiting
<1>7. CASE wait_park
  <2>1. Owing' = Owing
    BY Zenon, <1>7 DEF wait_park, Owing, Types, Labels
  <2> QED
    BY Zenon, <2>1, <1>7 DEF wait_park, CountdownExact, Types, Steps, Waiting
<1>8. CASE install_dataset
  <2>1. Owing' = Owing
    BY Zenon, <1>8 DEF install_dataset, Owing, Types, Labels
  <2> QED
    BY Zenon, <2>1, <1>8 DEF install_dataset, CountdownExact, Types, Steps, Waiting
<1>9. CASE set_job_publish
  <2>1. Owing' = Owing
    BY Zenon, <1>9 DEF set_job_publish, Free, NoJob, Owing, Types, Labels
  <2> QED
    BY Zenon, <2>1, <1>9 DEF set_job_publish, Free, NoJob, CountdownExact, Types, Steps, Waiting
<1>10. CASE SpuriousWake
  <2>1. Owing' = Owing
    BY Zenon, <1>10 DEF SpuriousWake, NotifySetter, Owing, Types, Labels
  <2> QED
    BY Zenon, <2>1, <1>10 DEF SpuriousWake, NotifySetter, CountdownExact, Types, Steps, Waiting
<1>11. CASE start
  BY Zenon, <1>11 DEF start, CountdownExact
<1>12. CASE stop
  <2>1. Owing' = Owing
    BY Zenon, <1>12 DEF stop, Owing, Types, Labels
  <2> QED
    BY Zenon, <2>1, <1>12 DEF stop, CountdownExact, Types, Steps, Waiting
<1>13. CASE stop_notify
  <2>1. Owing' = Owing
    BY Zenon, <1>13 DEF stop_notify, NotifySetter, Owing, Types, Labels
  <2> QED
    BY Zenon, <2>1, <1>13 DEF stop_notify, NotifySetter, CountdownExact, Types, Steps, Waiting
<1>14. CASE stop_return
  <2>1. Owing' = Owing
    BY Zenon, <1>14 DEF stop_return, Owing, Types, Labels
  <2> QED
    BY Zenon, <2>1, <1>14 DEF stop_return, CountdownExact, Types, Steps, Waiting
<1>15. ASSUME NEW w \in Workers, loop_top(w) PROVE CountdownExact'
  <2>1. Owing' = Owing
    BY Zenon, <1>15 DEF loop_top, Goto, Owing, Types, Labels
  <2> QED
    BY Zenon, <2>1, <1>15 DEF loop_top, Goto, CountdownExact, Types, Steps, Waiting
<1>16. ASSUME NEW w \in Workers, check_init_gen(w) PROVE CountdownExact'
  <2>1. Owing' = Owing
    BY Zenon, <1>16 DEF check_init_gen, Goto, Owing, Types, Labels
  <2> QED
    BY Zenon, <2>1, <1>16 DEF check_init_gen, Goto, CountdownExact, Types, Steps, Waiting
<1>17. ASSUME NEW w \in Workers, read_target(w) PROVE CountdownExact'
  <2>1. Owing' = Owing
    BY Zenon, <1>17 DEF read_target, Goto, Owing, Types, Labels
  <2> QED
    BY Zenon, <2>1, <1>17 DEF read_target, Goto, CountdownExact, Types, Steps, Waiting
<1>18. ASSUME NEW w \in Workers, build_region(w) PROVE CountdownExact'
  <2>1. Owing' = Owing
    BY Zenon, <1>18 DEF build_region, Goto, Owing, Types, Labels
  <2> QED
    BY Zenon, <2>1, <1>18 DEF build_region, Goto, CountdownExact, Types, Steps, Waiting
<1>19. ASSUME NEW w \in Workers, report_region(w) PROVE CountdownExact'
  <2>1. Owing' = Owing \ {w} /\ w \in Owing
    BY Zenon, <1>19 DEF report_region, Goto, Owing, Types, Participation, Builders
  <2>2. Cardinality(Owing') = Cardinality(Owing) - 1
    BY Zenon, <2>1, OwingFacts
  <2>3. spc' \in Waiting <=> spc \in Waiting
    BY Zenon, <1>19 DEF report_region, NotifySetter, Waiting
  <2> QED
    BY Zenon, <2>2, <2>3, <1>19 DEF report_region, CountdownExact, Waiting
<1>20. ASSUME NEW w \in Workers, check_job(w) PROVE CountdownExact'
  <2>1. Owing' = Owing
    BY Zenon, <1>20 DEF check_job, Goto, NoJob, Owing, Types, Labels
  <2> QED
    BY Zenon, <2>1, <1>20 DEF check_job, Goto, NoJob, CountdownExact, Types, Steps, Waiting
<1>21. ASSUME NEW w \in Workers, adopt_job(w) PROVE CountdownExact'
  <2>1. Owing' = Owing
    BY Zenon, <1>21 DEF adopt_job, Goto, Free, Owing, Types, Labels
  <2> QED
    BY Zenon, <2>1, <1>21 DEF adopt_job, Goto, Free, CountdownExact, Types, Steps, Waiting
<1>22. ASSUME NEW w \in Workers, hash_done(w) PROVE CountdownExact'
  <2>1. Owing' = Owing
    BY Zenon, <1>22 DEF hash_done, Goto, Owing, Types, Labels
  <2> QED
    BY Zenon, <2>1, <1>22 DEF hash_done, Goto, CountdownExact, Types, Steps, Waiting
<1>23. CASE UNCHANGED vars
  BY Zenon, <1>23 DEF vars, CountdownExact, Owing
<1> QED
  BY Zenon, <1>1, <1>2, <1>3, <1>4, <1>5, <1>6, <1>7, <1>8, <1>9, <1>10, <1>11, <1>12, <1>13,
     <1>14, <1>15, <1>16, <1>17, <1>18, <1>19, <1>20, <1>21, <1>22, <1>23
     DEF Next, SetJobStep, WorkerStep

(* The three together hold in every state.                                    *)
LEMMA CountInvariance == Spec => []CountInv
<1>1. Init => CountInv
  <2> SUFFICES ASSUME Init PROVE CountInv
    BY Zenon
  <2>1. Types
    <3>1. spc \in Steps /\ pc \in [Workers -> Labels]
      BY Zenon DEF Init, Steps, Waiting, Labels
    <3>2. /\ dataset_init_generation_ \in Nat /\ local_init_gen \in [Workers -> Nat]
          /\ dataset_init_remaining_ \in Int
      BY DEF Init
    <3>3. running_ \in BOOLEAN /\ started \in BOOLEAN
      BY Zenon DEF Init
    <3> QED
      BY Zenon, <3>1, <3>2, <3>3 DEF Types
  <2>2. Participation
    BY DEF Init, Participation, Settled, Waiting, Builders
  <2>3. CountdownExact
    BY Zenon DEF Init, CountdownExact
  <2> QED
    BY Zenon, <2>1, <2>2, <2>3 DEF CountInv
<1>2. CountInv /\ [Next]_vars => CountInv'
  BY Zenon, TypesStep, ParticipationStep, CountdownStep DEF CountInv
<1> QED
  BY <1>1, <1>2, PTL DEF Spec

(* While set_job() waits, dataset_init_remaining_ is the number of workers whose
   region is missing: no report is lost and none is counted twice.            *)
THEOREM Countdown == Spec => []CountdownExact
<1>1. CountInv => CountdownExact
  BY Zenon DEF CountInv
<1> QED
  BY <1>1, CountInvariance, PTL

-----------------------------------------------------------------------------
AnySeed == Seeds \cup {NoSeed}
JobSet == [id : Nat, seed : AnySeed]

(* The datasets in the order of their allocation: what workers use is not
   newer than what is installed, and what is being built is newer than that.  *)
Numbering ==
  /\ job_generation_ \in Nat /\ allocated \in Nat /\ shared_dataset_ \in Nat
  /\ job_generation_ <= MaxJobs
  /\ allocated <= job_generation_ + (IF spc \in {"idle", "alloc"} THEN 0 ELSE 1)
  /\ spc # "idle" => job_generation_ < MaxJobs /\ job_mutex_ # Free
  /\ shared_dataset_ <= allocated
  /\ spc \notin {"idle", "alloc", "publish"} => shared_dataset_ < allocated
  /\ active_dataset \in [Workers -> Nat]
  /\ \A w \in Workers : active_dataset[w] <= shared_dataset_
  /\ local_gen \in [Workers -> Nat]
  /\ \A w \in Workers : /\ local_gen[w] <= job_generation_
                        /\ pc[w] = "lock" => job_generation_ > 0
                        /\ seen_gen[w] <= job_generation_
  /\ seen_gen \in [Workers -> Nat]

(* Outside set_job() the current job has the current seed; a worker with a job
   has a dataset.                                                             *)
Seeding ==
  /\ job \in JobSet /\ current_job_ \in JobSet /\ local_job \in [Workers -> JobSet]
  /\ current_seed_key_ \in AnySeed
  /\ spc # "idle" => job.seed \in Seeds
  /\ shared_dataset_ = 0 => current_seed_key_ = NoSeed
  /\ spc = "publish" => current_seed_key_ = job.seed
  /\ spc = "idle" => current_job_.seed = current_seed_key_
  /\ job_generation_ > 0 => current_seed_key_ \in Seeds
  /\ \A w \in Workers : pc[w] = "hash" \/ local_job[w] # NoJob => active_dataset[w] > 0

Storage ==
  /\ dataset \in [1 .. MaxJobs -> [Workers -> AnySeed]]
  /\ pending_seed \in AnySeed /\ target_seed \in [Workers -> AnySeed]
  /\ pending_dataset_ \in Nat /\ target \in [Workers -> Nat]
  /\ spc \in {"bump"} \cup Waiting => pending_dataset_ = allocated /\ pending_seed = job.seed

(* What the regions hold until stop() is called.  A worker that owes nothing to
   the rebuild under way has written its region of the newest dataset.        *)
Live == running_ \/ ~started
Full(n, seed) == dataset[n] = [v \in Workers |-> seed]
InstallFull == spc = "install" => Full(allocated, job.seed)
SharedFull == shared_dataset_ > 0 => Full(shared_dataset_, current_seed_key_)
ActiveFull(w) == active_dataset[w] > 0 => Full(active_dataset[w], local_job[w].seed)
TargetCurrent(w) ==
  pc[w] = "build" => target[w] = pending_dataset_ /\ target_seed[w] = pending_seed
RegionWritten(w) ==
  /\ spc \in Waiting /\ pc[w] \notin {"target", "build"}
  /\ local_init_gen[w] = dataset_init_generation_
  => dataset[allocated][w] = job.seed

Contents == Live => /\ InstallFull /\ SharedFull
                    /\ \A w \in Workers : /\ ActiveFull(w) /\ TargetCurrent(w)
                                          /\ RegionWritten(w)

IInv == CountInv /\ Numbering /\ Seeding /\ Storage /\ Contents

-----------------------------------------------------------------------------
(* Every step keeps the order of the datasets and of the jobs.                *)
LEMMA NumberingStep ==
  Types /\ Numbering /\ [Next]_vars => Numbering'
<1> SUFFICES ASSUME Types, Numbering, [Next]_vars
             PROVE  Numbering'
  BY Zenon
<1> USE FastAssumption DEF engine, datasets, init, setter, jobview, build
<1>1. ASSUME NEW seed \in Seeds, set_job(seed) PROVE Numbering'
  BY <1>1 DEF set_job, Free, Types, Numbering, Steps, Waiting, Labels, Free
<1>2. CASE allocate_dataset
  BY <1>2 DEF allocate_dataset, Types, Numbering, Steps, Waiting, Labels, Free
<1>3. CASE build_with_temporary_threads
  BY Zenon, <1>3 DEF build_with_temporary_threads, Types, Numbering, Steps, Waiting, Labels,
     Free
<1>4. CASE announce_rebuild
  BY Zenon, <1>4 DEF announce_rebuild, Types, Numbering, Steps, Waiting, Labels, Free
<1>5. CASE bump_init_generation
  BY Zenon, <1>5 DEF bump_init_generation, Types, Numbering, Steps, Waiting, Labels, Free
<1>6. CASE wait_test
  BY Zenon, <1>6 DEF wait_test, Types, Numbering, Steps, Waiting, Labels, Free
<1>7. CASE wait_park
  BY Zenon, <1>7 DEF wait_park, Types, Numbering, Steps, Waiting, Labels, Free
<1>8. CASE install_dataset
  BY <1>8 DEF install_dataset, Types, Numbering, Steps, Waiting, Labels, Free
<1>9. CASE set_job_publish
  BY <1>9 DEF set_job_publish, Free, NoJob, Types, Numbering, Steps, Waiting, Labels,
     Free
<1>10. CASE SpuriousWake
  BY Zenon, <1>10 DEF SpuriousWake, NotifySetter, Types, Numbering, Steps, Waiting, Labels,
     Free
<1>11. CASE start
  BY Zenon, <1>11 DEF start, Types, Numbering, Steps, Waiting, Labels, Free
<1>12. CASE stop
  BY Zenon, <1>12 DEF stop, Types, Numbering, Steps, Waiting, Labels, Free
<1>13. CASE stop_notify
  BY Zenon, <1>13 DEF stop_notify, NotifySetter, Types, Numbering, Steps, Waiting, Labels,
     Free
<1>14. CASE stop_return
  BY Zenon, <1>14 DEF stop_return, Types, Numbering, Steps, Waiting, Labels, Free
<1>15. ASSUME NEW w \in Workers, loop_top(w) PROVE Numbering'
  BY Zenon, <1>15 DEF loop_top, Goto, Types, Numbering, Steps, Waiting, Labels, Free
<1>16. ASSUME NEW w \in Workers, check_init_gen(w) PROVE Numbering'
  BY Zenon, <1>16 DEF check_init_gen, Goto, Types, Numbering, Steps, Waiting, Labels, Free
<1>17. ASSUME NEW w \in Workers, read_target(w) PROVE Numbering'
  BY Zenon, <1>17 DEF read_target, Goto, Types, Numbering, Steps, Waiting, Labels, Free
<1>18. ASSUME NEW w \in Workers, build_region(w) PROVE Numbering'
  BY Zenon, <1>18 DEF build_region, Goto, Types, Numbering, Steps, Waiting, Labels, Free
<1>19. ASSUME NEW w \in Workers, report_region(w) PROVE Numbering'
  BY Zenon, <1>19 DEF report_region, NotifySetter, Goto, Types, Numbering, Steps, Waiting,
     Labels, Free
<1>20. ASSUME NEW w \in Workers, check_job(w) PROVE Numbering'
  BY <1>20 DEF check_job, NoJob, Goto, Types, Numbering, Steps, Waiting, Labels, Free
<1>21. ASSUME NEW w \in Workers, adopt_job(w) PROVE Numbering'
  BY <1>21 DEF adopt_job, Free, Goto, Types, Numbering, Steps, Waiting, Labels, Free
<1>22. ASSUME NEW w \in Workers, hash_done(w) PROVE Numbering'
  BY Zenon, <1>22 DEF hash_done, Goto, Types, Numbering, Steps, Waiting, Labels, Free
<1>23. CASE UNCHANGED vars
  BY Zenon, <1>23 DEF vars, Types, Numbering, Steps, Waiting, Labels, Free
<1> QED
  BY Zenon, <1>1, <1>2, <1>3, <1>4, <1>5, <1>6, <1>7, <1>8, <1>9, <1>10, <1>11, <1>12, <1>13,
     <1>14, <1>15, <1>16, <1>17, <1>18, <1>19, <1>20, <1>21, <1>22, <1>23
     DEF Next, SetJobStep, WorkerStep

(* Every step keeps jobs, seeds and datasets together.                         *)
LEMMA SeedingStep ==
  Types /\ Numbering /\ Seeding /\ [Next]_vars => Seeding'
<1> SUFFICES ASSUME Types, Numbering, Seeding, [Next]_vars
             PROVE  Seeding'
  BY Zenon
<1> USE FastAssumption DEF engine, datasets, init, setter, jobview, build
<1>1. ASSUME NEW seed \in Seeds, set_job(seed) PROVE Seeding'
  BY <1>1 DEF set_job, Free, Types, Numbering, Seeding, Steps, Waiting, Labels,
     JobSet, AnySeed, NoJob
<1>2. CASE allocate_dataset
  BY Zenon, <1>2 DEF allocate_dataset, Types, Numbering, Seeding, Steps, Waiting, Labels,
     JobSet, AnySeed, NoJob
<1>3. CASE build_with_temporary_threads
  BY Zenon, <1>3 DEF build_with_temporary_threads, Types, Numbering, Seeding, Steps, Waiting,
     Labels, JobSet, AnySeed, NoJob
<1>4. CASE announce_rebuild
  BY Zenon, <1>4 DEF announce_rebuild, Types, Numbering, Seeding, Steps, Waiting, Labels,
     JobSet, AnySeed, NoJob
<1>5. CASE bump_init_generation
  BY Zenon, <1>5 DEF bump_init_generation, Types, Numbering, Seeding, Steps, Waiting, Labels,
     JobSet, AnySeed, NoJob
<1>6. CASE wait_test
  BY Zenon, <1>6 DEF wait_test, Types, Numbering, Seeding, Steps, Waiting, Labels, JobSet,
     AnySeed, NoJob
<1>7. CASE wait_park
  BY Zenon, <1>7 DEF wait_park, Types, Numbering, Seeding, Steps, Waiting, Labels, JobSet,
     AnySeed, NoJob
<1>8. CASE install_dataset
  BY <1>8 DEF install_dataset, Types, Numbering, Seeding, Steps, Waiting, Labels,
     JobSet, AnySeed, NoJob
<1>9. CASE set_job_publish
  BY Zenon, <1>9 DEF set_job_publish, Free, NoJob, Types, Numbering, Seeding, Steps, Waiting,
     Labels, JobSet, AnySeed, NoJob
<1>10. CASE SpuriousWake
  BY Zenon, <1>10 DEF SpuriousWake, NotifySetter, Types, Numbering, Seeding, Steps, Waiting,
     Labels, JobSet, AnySeed, NoJob
<1>11. CASE start
  BY Zenon, <1>11 DEF start, Types, Numbering, Seeding, Steps, Waiting, Labels, JobSet,
     AnySeed, NoJob
<1>12. CASE stop
  BY Zenon, <1>12 DEF stop, Types, Numbering, Seeding, Steps, Waiting, Labels, JobSet,
     AnySeed, NoJob
<1>13. CASE stop_notify
  BY Zenon, <1>13 DEF stop_notify, NotifySetter, Types, Numbering, Seeding, Steps, Waiting,
     Labels, JobSet, AnySeed, NoJob
<1>14. CASE stop_return
  BY Zenon, <1>14 DEF stop_return, Types, Numbering, Seeding, Steps, Waiting, Labels, JobSet,
     AnySeed, NoJob
<1>15. ASSUME NEW w \in Workers, loop_top(w) PROVE Seeding'
  BY Zenon, <1>15 DEF loop_top, Goto, Types, Numbering, Seeding, Steps, Waiting, Labels,
     JobSet, AnySeed, NoJob
<1>16. ASSUME NEW w \in Workers, check_init_gen(w) PROVE Seeding'
  BY Zenon, <1>16 DEF check_init_gen, Goto, Types, Numbering, Seeding, Steps, Waiting,
     Labels, JobSet, AnySeed, NoJob
<1>17. ASSUME NEW w \in Workers, read_target(w) PROVE Seeding'
  BY Zenon, <1>17 DEF read_target, Goto, Types, Numbering, Seeding, Steps, Waiting, Labels,
     JobSet, AnySeed, NoJob
<1>18. ASSUME NEW w \in Workers, build_region(w) PROVE Seeding'
  BY Zenon, <1>18 DEF build_region, Goto, Types, Numbering, Seeding, Steps, Waiting, Labels,
     JobSet, AnySeed, NoJob
<1>19. ASSUME NEW w \in Workers, report_region(w) PROVE Seeding'
  BY Zenon, <1>19 DEF report_region, NotifySetter, Goto, Types, Numbering, Seeding, Steps,
     Waiting, Labels, JobSet, AnySeed, NoJob
<1>20. ASSUME NEW w \in Workers, check_job(w) PROVE Seeding'
  BY Zenon, <1>20 DEF check_job, NoJob, Goto, Types, Numbering, Seeding, Steps, Waiting,
     Labels, JobSet, AnySeed, NoJob
<1>21. ASSUME NEW w \in Workers, adopt_job(w) PROVE Seeding'
  BY <1>21 DEF adopt_job, Free, Goto, Types, Numbering, Seeding, Steps, Waiting,
     Labels, JobSet, AnySeed, NoJob
<1>22. ASSUME NEW w \in Workers, hash_done(w) PROVE Seeding'
  BY Zenon, <1>22 DEF hash_done, Goto, Types, Numbering, Seeding, Steps, Waiting, Labels,
     JobSet, AnySeed, NoJob
<1>23. CASE UNCHANGED vars
  BY Zenon, <1>23 DEF vars, Types, Numbering, Seeding, Steps, Waiting, Labels, JobSet,
     AnySeed, NoJob
<1> QED
  BY Zenon, <1>1, <1>2, <1>3, <1>4, <1>5, <1>6, <1>7, <1>8, <1>9, <1>10, <1>11, <1>12, <1>13,
     <1>14, <1>15, <1>16, <1>17, <1>18, <1>19, <1>20, <1>21, <1>22, <1>23
     DEF Next, SetJobStep, WorkerStep

(* Every step keeps the datasets functions, and the target of a rebuild the
   newest one.                                                                *)
LEMMA StorageStep ==
  Types /\ Participation /\ Numbering /\ Seeding /\ Storage /\ [Next]_vars => Storage'
<1> SUFFICES ASSUME Types, Participation, Numbering, Seeding, Storage, [Next]_vars
             PROVE  Storage'
  BY Zenon
<1> USE FastAssumption DEF engine, datasets, init, setter, jobview, build
<1>1. ASSUME NEW seed \in Seeds, set_job(seed) PROVE Storage'
  BY Zenon, <1>1 DEF set_job, Free, Types, Numbering, Seeding, Storage, Steps, Waiting,
     AnySeed, JobSet
<1>2. CASE allocate_dataset
  BY Zenon, <1>2 DEF allocate_dataset, Types, Numbering, Seeding, Storage, Steps, Waiting,
     AnySeed, JobSet
<1>3. CASE build_with_temporary_threads
  BY Zenon, <1>3 DEF build_with_temporary_threads, Types, Numbering, Seeding, Storage, Steps,
     Waiting, AnySeed, JobSet
<1>4. CASE announce_rebuild
  BY Zenon, <1>4 DEF announce_rebuild, Types, Numbering, Seeding, Storage, Steps, Waiting,
     AnySeed, JobSet
<1>5. CASE bump_init_generation
  BY Zenon, <1>5 DEF bump_init_generation, Types, Numbering, Seeding, Storage, Steps,
     Waiting, AnySeed, JobSet
<1>6. CASE wait_test
  BY Zenon, <1>6 DEF wait_test, Types, Numbering, Seeding, Storage, Steps, Waiting, AnySeed,
     JobSet
<1>7. CASE wait_park
  BY Zenon, <1>7 DEF wait_park, Types, Numbering, Seeding, Storage, Steps, Waiting, AnySeed,
     JobSet
<1>8. CASE install_dataset
  BY Zenon, <1>8 DEF install_dataset, Types, Numbering, Seeding, Storage, Steps, Waiting,
     AnySeed, JobSet
<1>9. CASE set_job_publish
  BY Zenon, <1>9 DEF set_job_publish, Free, NoJob, Types, Numbering, Seeding, Storage, Steps,
     Waiting, AnySeed, JobSet
<1>10. CASE SpuriousWake
  BY Zenon, <1>10 DEF SpuriousWake, NotifySetter, Types, Numbering, Seeding, Storage, Steps,
     Waiting, AnySeed, JobSet
<1>11. CASE start
  BY Zenon, <1>11 DEF start, Types, Numbering, Seeding, Storage, Steps, Waiting, AnySeed,
     JobSet
<1>12. CASE stop
  BY Zenon, <1>12 DEF stop, Types, Numbering, Seeding, Storage, Steps, Waiting, AnySeed,
     JobSet
<1>13. CASE stop_notify
  BY Zenon, <1>13 DEF stop_notify, NotifySetter, Types, Numbering, Seeding, Storage, Steps,
     Waiting, AnySeed, JobSet
<1>14. CASE stop_return
  BY Zenon, <1>14 DEF stop_return, Types, Numbering, Seeding, Storage, Steps, Waiting,
     AnySeed, JobSet
<1>15. ASSUME NEW w \in Workers, loop_top(w) PROVE Storage'
  BY Zenon, <1>15 DEF loop_top, Goto, Types, Numbering, Seeding, Storage, Steps, Waiting,
     AnySeed, JobSet
<1>16. ASSUME NEW w \in Workers, check_init_gen(w) PROVE Storage'
  BY Zenon, <1>16 DEF check_init_gen, Goto, Types, Numbering, Seeding, Storage, Steps,
     Waiting, AnySeed, JobSet
<1>17. ASSUME NEW w \in Workers, read_target(w) PROVE Storage'
  BY Zenon, <1>17 DEF read_target, Goto, Types, Numbering, Seeding, Storage, Steps, Waiting,
     AnySeed, JobSet
<1>18. ASSUME NEW w \in Workers, build_region(w) PROVE Storage'
  BY Zenon, <1>18 DEF build_region, Goto, Types, Numbering, Seeding, Storage, Steps, Waiting,
     AnySeed, JobSet
<1>19. ASSUME NEW w \in Workers, report_region(w) PROVE Storage'
  BY Zenon, <1>19 DEF report_region, NotifySetter, Goto, Types, Numbering, Seeding, Storage,
     Steps, Waiting, AnySeed, JobSet
<1>20. ASSUME NEW w \in Workers, check_job(w) PROVE Storage'
  BY Zenon, <1>20 DEF check_job, NoJob, Goto, Types, Numbering, Seeding, Storage, Steps,
     Waiting, AnySeed, JobSet
<1>21. ASSUME NEW w \in Workers, adopt_job(w) PROVE Storage'
  BY Zenon, <1>21 DEF adopt_job, Free, Goto, Types, Numbering, Seeding, Storage, Steps,
     Waiting, AnySeed, JobSet
<1>22. ASSUME NEW w \in Workers, hash_done(w) PROVE Storage'
  BY Zenon, <1>22 DEF hash_done, Goto, Types, Numbering, Seeding, Storage, Steps, Waiting,
     AnySeed, JobSet
<1>23. CASE UNCHANGED vars
  BY Zenon, <1>23 DEF vars, Types, Numbering, Seeding, Storage, Steps, Waiting, AnySeed,
     JobSet
<1> QED
  BY Zenon, <1>1, <1>2, <1>3, <1>4, <1>5, <1>6, <1>7, <1>8, <1>9, <1>10, <1>11, <1>12, <1>13,
     <1>14, <1>15, <1>16, <1>17, <1>18, <1>19, <1>20, <1>21, <1>22, <1>23
     DEF Next, SetJobStep, WorkerStep

-----------------------------------------------------------------------------
(* Which steps change the regions, what is installed, what a worker uses and
   what it is told to build.                                                  *)
LEMMA Frames ==
  [Next]_vars =>
    /\ build_with_temporary_threads \/ (\E w \in Workers : build_region(w))
       \/ UNCHANGED dataset
    /\ install_dataset \/ UNCHANGED <<shared_dataset_, current_seed_key_>>
    /\ (\E w \in Workers : adopt_job(w)) \/ UNCHANGED <<active_dataset, local_job>>
    /\ announce_rebuild \/ UNCHANGED <<pending_dataset_, pending_seed>>
    /\ (\E w \in Workers : read_target(w)) \/ UNCHANGED <<target, target_seed>>
    /\ bump_init_generation \/ UNCHANGED dataset_init_generation_
    /\ (\E w \in Workers : check_init_gen(w)) \/ UNCHANGED local_init_gen
<1> SUFFICES ASSUME [Next]_vars
             PROVE  /\ build_with_temporary_threads \/ (\E w \in Workers : build_region(w))
                       \/ UNCHANGED dataset
                    /\ install_dataset \/ UNCHANGED <<shared_dataset_, current_seed_key_>>
                    /\ (\E w \in Workers : adopt_job(w))
                       \/ UNCHANGED <<active_dataset, local_job>>
                    /\ announce_rebuild \/ UNCHANGED <<pending_dataset_, pending_seed>>
                    /\ (\E w \in Workers : read_target(w)) \/ UNCHANGED <<target, target_seed>>
                    /\ bump_init_generation \/ UNCHANGED dataset_init_generation_
                    /\ (\E w \in Workers : check_init_gen(w)) \/ UNCHANGED local_init_gen
  BY Zenon
<1>1. build_with_temporary_threads \/ (\E w \in Workers : build_region(w))
        \/ UNCHANGED dataset
  BY ZenonT(30) DEF Next, SetJobStep, WorkerStep, set_job, allocate_dataset, announce_rebuild,
     bump_init_generation, wait_test, wait_park, NotifySetter, SpuriousWake,
     install_dataset, set_job_publish, start, loop_top, check_init_gen, read_target,
     report_region, check_job, adopt_job, hash_done, Goto, stop, stop_notify,
     stop_return, vars, engine, datasets, init, setter, jobview, build
<1>2. install_dataset \/ UNCHANGED <<shared_dataset_, current_seed_key_>>
  BY ZenonT(30) DEF Next, SetJobStep, WorkerStep, set_job, allocate_dataset,
     build_with_temporary_threads, announce_rebuild, bump_init_generation, wait_test,
     wait_park, NotifySetter, SpuriousWake, set_job_publish, start, loop_top,
     check_init_gen, read_target, build_region, report_region, check_job, adopt_job,
     hash_done, Goto, stop, stop_notify, stop_return, vars, engine, datasets, init,
     setter, jobview, build
<1>3. (\E w \in Workers : adopt_job(w)) \/ UNCHANGED <<active_dataset, local_job>>
  BY ZenonT(30) DEF Next, SetJobStep, WorkerStep, set_job, allocate_dataset,
     build_with_temporary_threads, announce_rebuild, bump_init_generation, wait_test,
     wait_park, NotifySetter, SpuriousWake, install_dataset, set_job_publish, start,
     loop_top, check_init_gen, read_target, build_region, report_region, check_job,
     hash_done, Goto, stop, stop_notify, stop_return, vars, engine, datasets, init,
     setter, jobview, build
<1>4. announce_rebuild \/ UNCHANGED <<pending_dataset_, pending_seed>>
  BY ZenonT(30) DEF Next, SetJobStep, WorkerStep, set_job, allocate_dataset,
     build_with_temporary_threads, bump_init_generation, wait_test, wait_park,
     NotifySetter, SpuriousWake, install_dataset, set_job_publish, start, loop_top,
     check_init_gen, read_target, build_region, report_region, check_job, adopt_job,
     hash_done, Goto, stop, stop_notify, stop_return, vars, engine, datasets, init,
     setter, jobview, build
<1>5. (\E w \in Workers : read_target(w)) \/ UNCHANGED <<target, target_seed>>
  BY ZenonT(30) DEF Next, SetJobStep, WorkerStep, set_job, allocate_dataset,
     build_with_temporary_threads, announce_rebuild, bump_init_generation, wait_test,
     wait_park, NotifySetter, SpuriousWake, install_dataset, set_job_publish, start,
     loop_top, check_init_gen, build_region, report_region, check_job, adopt_job,
     hash_done, Goto, stop, stop_notify, stop_return, vars, engine, datasets, init,
     setter, jobview, build
<1>6. bump_init_generation \/ UNCHANGED dataset_init_generation_
  BY ZenonT(30) DEF Next, SetJobStep, WorkerStep, set_job, allocate_dataset,
     build_with_temporary_threads, announce_rebuild, wait_test, wait_park,
     NotifySetter, SpuriousWake, install_dataset, set_job_publish, start, loop_top,
     check_init_gen, read_target, build_region, report_region, check_job, adopt_job,
     hash_done, Goto, stop, stop_notify, stop_return, vars, engine, datasets, init,
     setter, jobview, build
<1>7. (\E w \in Workers : check_init_gen(w)) \/ UNCHANGED local_init_gen
  BY Zenon DEF Next, SetJobStep, WorkerStep, set_job, allocate_dataset,
     build_with_temporary_threads, announce_rebuild, bump_init_generation, wait_test,
     wait_park, NotifySetter, SpuriousWake, install_dataset, set_job_publish, start,
     loop_top, read_target, build_region, report_region, check_job, adopt_job,
     hash_done, Goto, stop, stop_notify, stop_return, vars, engine, datasets, init,
     setter, jobview, build
<1> QED
  BY Zenon, <1>1, <1>2, <1>3, <1>4, <1>5, <1>6, <1>7

(* An engine that is not stopped was not stopped before.                      *)
LEMMA LiveBefore == Types /\ [Next]_vars /\ Live' => Live
<1> SUFFICES ASSUME Types, [Next]_vars, Live' PROVE Live
  BY Zenon
<1>1. CASE start
  BY Zenon, <1>1 DEF start, Live
<1>2. CASE stop
  BY Zenon, <1>2 DEF stop, Live
<1>3. CASE UNCHANGED <<running_, started>>
  BY Zenon, <1>3 DEF Live
<1>4. start \/ stop \/ UNCHANGED <<running_, started>>
  BY ZenonT(60) DEF Next, SetJobStep, WorkerStep, set_job, allocate_dataset,
     build_with_temporary_threads, announce_rebuild, bump_init_generation, wait_test,
     wait_park, NotifySetter, SpuriousWake, install_dataset, set_job_publish,
     loop_top, check_init_gen, read_target, build_region, report_region, check_job,
     adopt_job, hash_done, Goto, stop_notify, stop_return, vars, engine, datasets,
     init, setter, jobview, build
<1> QED
  BY Zenon, <1>1, <1>2, <1>3, <1>4

(* Until stop() is called, a worker builds only while set_job() waits.        *)
LEMMA NoBuilders ==
  Types /\ Participation /\ Live /\ spc \notin Waiting
    => \A w \in Workers : pc[w] \notin Builders
  BY Zenon DEF Types, Participation, Settled, Live, Builders

(* A step writes only a dataset that is newer than the one installed, and none
   at all when set_job() is past its wait.                                    *)
LEMMA WritesNewest ==
  CountInv /\ Numbering /\ Storage /\ Contents /\ Live /\ [Next]_vars =>
    /\ \A n \in 1 .. shared_dataset_ : dataset'[n] = dataset[n]
    /\ spc = "install" => dataset' = dataset
<1> SUFFICES ASSUME CountInv, Numbering, Storage, Contents, Live, [Next]_vars
             PROVE  /\ \A n \in 1 .. shared_dataset_ : dataset'[n] = dataset[n]
                    /\ spc = "install" => dataset' = dataset
  BY Zenon
<1> USE FastAssumption DEF CountInv
<1>1. CASE build_with_temporary_threads
  BY <1>1 DEF build_with_temporary_threads, Numbering, Storage
<1>2. ASSUME NEW w \in Workers, build_region(w)
      PROVE  /\ \A n \in 1 .. shared_dataset_ : dataset'[n] = dataset[n]
             /\ spc # "install"
  <2>1. spc \in Waiting
    BY Zenon, <1>2, NoBuilders DEF build_region, Builders
  <2>2. target[w] = allocated /\ shared_dataset_ < allocated
    BY Zenon, <1>2, <2>1 DEF build_region, Contents, TargetCurrent, Storage, Numbering, Waiting
  <2> QED
    BY <1>2, <2>1, <2>2 DEF build_region, Waiting, Numbering, Storage
<1>3. CASE UNCHANGED dataset
  BY Zenon, <1>3
<1> QED
  BY Zenon, <1>1, <1>2, <1>3, Frames DEF build_with_temporary_threads

(* What is about to be installed is complete: set_job() leaves a wait in a
   running engine when nobody owes a region any more.                         *)
LEMMA InstallFullStep == IInv /\ Live' /\ [Next]_vars => InstallFull'
<1> SUFFICES ASSUME IInv, Live', [Next]_vars PROVE InstallFull'
  BY Zenon
<1> USE FastAssumption, LiveBefore, WritesNewest DEF IInv, CountInv
<1>1. CASE build_with_temporary_threads
  BY <1>1 DEF build_with_temporary_threads, InstallFull, Full, Numbering, Storage
<1>2. CASE wait_test
  <2>1. CASE dataset_init_remaining_ = 0
    <3>1. \A w \in Workers : dataset[allocated][w] = job.seed
      BY Zenon, <1>2, <2>1, OwingFacts
         DEF wait_test, CountdownExact, Settled, Builders, Contents, RegionWritten, Waiting
    <3>2. dataset[allocated] \in [Workers -> AnySeed]
      BY <1>2 DEF wait_test, Numbering, Storage
    <3> QED
      BY Zenon, <1>2, <3>1, <3>2 DEF wait_test, InstallFull, Full, datasets
  <2>2. CASE dataset_init_remaining_ # 0
    <3>1. spc' # "install"
      BY Zenon, <1>2, <2>2 DEF wait_test, Live, Participation, Waiting
    <3> QED
      BY Zenon, <3>1 DEF InstallFull
  <2> QED
    BY Zenon, <2>1, <2>2
<1>3. CASE spc = "install" /\ UNCHANGED <<allocated, job>>
  BY Zenon, <1>3 DEF InstallFull, Full, Contents
<1>4. spc' = "install" =>
        \/ build_with_temporary_threads \/ wait_test
        \/ spc = "install" /\ UNCHANGED <<allocated, job>>
  BY ZenonT(60) DEF Next, SetJobStep, WorkerStep, set_job, allocate_dataset,
     build_with_temporary_threads, announce_rebuild, bump_init_generation, wait_test,
     wait_park, NotifySetter, SpuriousWake, install_dataset, set_job_publish, start,
     loop_top, check_init_gen, read_target, build_region, report_region, check_job,
     adopt_job, hash_done, Goto, stop, stop_notify, stop_return, vars, engine, datasets,
     init, setter, jobview, build
<1> QED
  BY Zenon, <1>1, <1>2, <1>3, <1>4 DEF InstallFull

(* What is installed stays complete, and for the current seed.                *)
LEMMA SharedFullStep == IInv /\ Live' /\ [Next]_vars => SharedFull'
<1> SUFFICES ASSUME IInv, Live', [Next]_vars PROVE SharedFull'
  BY Zenon
<1> USE FastAssumption, LiveBefore, WritesNewest DEF IInv, CountInv
<1>1. CASE install_dataset
  BY Zenon, <1>1 DEF install_dataset, SharedFull, InstallFull, Full, Contents
<1>2. CASE UNCHANGED <<shared_dataset_, current_seed_key_>>
  BY <1>2 DEF SharedFull, Full, Contents, Numbering
<1> QED
  BY Zenon, <1>1, <1>2, Frames

(* What a worker has adopted stays complete, and for the seed of its job.     *)
LEMMA ActiveFullStep ==
  IInv /\ Live' /\ [Next]_vars => \A v \in Workers : ActiveFull(v)'
<1> SUFFICES ASSUME IInv, Live', [Next]_vars, NEW v \in Workers PROVE ActiveFull(v)'
  BY Zenon
<1> USE FastAssumption, LiveBefore, WritesNewest DEF IInv, CountInv
<1>1. active_dataset[v] > 0 => Full(active_dataset[v], local_job[v].seed)'
         \/ local_job'[v] # local_job[v] \/ active_dataset'[v] # active_dataset[v]
  <2>1. active_dataset[v] > 0 => active_dataset[v] \in 1 .. shared_dataset_
    BY DEF Numbering
  <2>2. ActiveFull(v)
    BY Zenon DEF Contents
  <2> QED
    BY Zenon, <2>1, <2>2 DEF ActiveFull, Full
<1>2. ASSUME NEW w \in Workers, adopt_job(w) PROVE ActiveFull(v)'
  <2>1. current_job_.seed = current_seed_key_ /\ UNCHANGED dataset
    BY Zenon, <1>2 DEF adopt_job, Seeding, Numbering, datasets
  <2>2. shared_dataset_ > 0 => Full(shared_dataset_, current_seed_key_)
    BY Zenon DEF Contents, SharedFull
  <2>3. CASE v = w
    BY ZenonT(30), <1>2, <2>1, <2>2, <2>3 DEF adopt_job, ActiveFull, Full, Numbering, Seeding
  <2>4. CASE v # w
    BY ZenonT(30), <1>2, <2>4, <1>1 DEF adopt_job, ActiveFull, Numbering, Seeding
  <2> QED
    BY Zenon, <2>3, <2>4
<1>3. CASE UNCHANGED <<active_dataset, local_job>>
  BY Zenon, <1>3, <1>1 DEF ActiveFull
<1> QED
  BY Zenon, <1>2, <1>3, Frames

(* A builder's target is that of the rebuild under way: nobody builds while the
   next one is announced.                                                     *)
LEMMA TargetStep ==
  IInv /\ Live' /\ [Next]_vars => \A v \in Workers : TargetCurrent(v)'
<1> SUFFICES ASSUME IInv, Live', [Next]_vars, NEW v \in Workers PROVE TargetCurrent(v)'
  BY Zenon
<1> USE FastAssumption, LiveBefore DEF IInv, CountInv
<1>1. CASE announce_rebuild
  BY Zenon, <1>1, NoBuilders DEF announce_rebuild, TargetCurrent, Waiting, Builders
<1>2. ASSUME NEW w \in Workers, read_target(w) PROVE TargetCurrent(v)'
  BY Zenon, <1>2 DEF read_target, Goto, TargetCurrent, Contents, Types, Storage, init
<1>3. CASE UNCHANGED <<pending_dataset_, pending_seed, target, target_seed>>
           /\ ~(\E w \in Workers : read_target(w))
  <2>1. pc'[v] = "build" => pc[v] = "build"
    BY ZenonT(60), <1>3 DEF Types, Next, SetJobStep, WorkerStep, set_job, allocate_dataset,
     build_with_temporary_threads, announce_rebuild, bump_init_generation, wait_test,
     wait_park, NotifySetter, SpuriousWake, install_dataset, set_job_publish, start,
     loop_top, check_init_gen, read_target, build_region, report_region, check_job,
     adopt_job, hash_done, Goto, stop, stop_notify, stop_return, vars, engine, datasets,
     init, setter, jobview, build
  <2> QED
    BY ZenonT(30), <1>3, <2>1 DEF TargetCurrent, Contents
<1> QED
  BY Zenon, <1>1, <1>2, <1>3, Frames

(* A worker that has left the building steps has written its region.          *)
LEMMA RegionStep ==
  IInv /\ Live' /\ [Next]_vars => \A v \in Workers : RegionWritten(v)'
<1> SUFFICES ASSUME IInv, Live', [Next]_vars, NEW v \in Workers PROVE RegionWritten(v)'
  BY Zenon
<1> USE FastAssumption, LiveBefore DEF IInv, CountInv
<1>1. CASE bump_init_generation
  BY <1>1 DEF bump_init_generation, RegionWritten, Participation, Types, build
<1>2. ASSUME NEW w \in Workers, check_init_gen(w) PROVE RegionWritten(v)'
  BY Zenon, <1>2 DEF check_init_gen, Goto, RegionWritten, Contents, Types, datasets, init, setter
<1>3. ASSUME NEW w \in Workers, build_region(w) PROVE RegionWritten(v)'
  <2>1. spc \in Waiting
    BY Zenon, <1>3, NoBuilders DEF build_region, Builders
  <2>2. target[w] = allocated /\ target_seed[w] = job.seed /\ allocated \in 1 .. MaxJobs
    <3>1. target[w] = pending_dataset_ /\ target_seed[w] = pending_seed
      BY Zenon, <1>3 DEF build_region, Contents, TargetCurrent
    <3>2. pending_dataset_ = allocated /\ pending_seed = job.seed
      BY Zenon, <2>1 DEF Storage
    <3>3. allocated \in 1 .. MaxJobs
      BY <2>1 DEF Numbering, Waiting
    <3> QED
      BY Zenon, <3>1, <3>2, <3>3
  <2>3. dataset'[allocated] = [dataset[allocated] EXCEPT ![w] = job.seed]
    BY Zenon, <1>3, <2>2 DEF build_region, Storage
  <2>4. dataset[allocated] \in [Workers -> AnySeed]
    BY Zenon, <2>2 DEF Storage
  <2> QED
    BY <1>3, <2>3, <2>4
       DEF build_region, Goto, RegionWritten, Contents, Types, init, setter, build
<1>4. CASE /\ UNCHANGED <<dataset, dataset_init_generation_, local_init_gen>>
           /\ ~bump_init_generation /\ ~(\E w \in Workers : build_region(w))
  <2>1. spc' \in Waiting => spc \in Waiting /\ UNCHANGED <<allocated, job>>
    BY ZenonT(30), <1>4 DEF Waiting, Next, SetJobStep, WorkerStep, set_job, allocate_dataset,
     build_with_temporary_threads, announce_rebuild, bump_init_generation, wait_test,
     wait_park, NotifySetter, SpuriousWake, install_dataset, set_job_publish, start,
     loop_top, check_init_gen, read_target, build_region, report_region, check_job,
     adopt_job, hash_done, Goto, stop, stop_notify, stop_return, vars, engine, datasets,
     init, setter, jobview, build
  <2>2. spc' \in Waiting /\ pc'[v] \notin {"target", "build"}
          => pc[v] \notin {"target", "build"}
    BY ZenonT(60), <1>4 DEF Types, Waiting, Next, SetJobStep, WorkerStep, set_job, allocate_dataset,
     build_with_temporary_threads, announce_rebuild, bump_init_generation, wait_test,
     wait_park, NotifySetter, SpuriousWake, install_dataset, set_job_publish, start,
     loop_top, check_init_gen, read_target, build_region, report_region, check_job,
     adopt_job, hash_done, Goto, stop, stop_notify, stop_return, vars, engine, datasets,
     init, setter, jobview, build
  <2> QED
    BY Zenon, <1>4, <2>1, <2>2 DEF RegionWritten, Contents
<1>5. CASE build_with_temporary_threads
  BY Zenon, <1>5 DEF build_with_temporary_threads, RegionWritten, Waiting
<1> QED
  BY Zenon, <1>1, <1>2, <1>3, <1>4, <1>5, Frames

-----------------------------------------------------------------------------
(* The invariant holds in every state.                                        *)
LEMMA Invariance == Spec => []IInv
<1>1. Init => Numbering /\ Seeding /\ Storage /\ Contents
  <2> SUFFICES ASSUME Init PROVE Numbering /\ Seeding /\ Storage /\ Contents
    BY Zenon
  <2> USE FastAssumption DEF Init, NoJob, Empty
  <2>1. Numbering
    BY DEF Numbering
  <2>2. Seeding
    BY DEF Seeding, JobSet, AnySeed
  <2>3. Storage
    BY Zenon DEF Storage, AnySeed, Waiting
  <2>4. Contents
    BY DEF Contents, InstallFull, SharedFull, ActiveFull, TargetCurrent, RegionWritten,
       Waiting
  <2> QED
    BY Zenon, <2>1, <2>2, <2>3, <2>4
<1>2. IInv /\ [Next]_vars => Contents'
  BY Zenon, InstallFullStep, SharedFullStep, ActiveFullStep, TargetStep, RegionStep DEF Contents
<1>3. IInv /\ [Next]_vars /\ CountInv' => IInv'
  BY Zenon, <1>2, NumberingStep, SeedingStep, StorageStep DEF IInv, CountInv
<1>4. CountInv /\ Numbering /\ Seeding /\ Storage /\ Contents => IInv
  BY Zenon DEF IInv
<1> QED
  BY <1>1, <1>3, <1>4, CountInvariance, PTL DEF Spec

(* Until stop() is called, a hash uses a dataset that is complete and was built
   for the seed of its job.                                                   *)
THEOREM CompleteDatasets == Spec => []HashesCompleteDataset
<1>1. IInv => HashesCompleteDataset
  <2> SUFFICES ASSUME IInv, running_, NEW w \in Workers, pc[w] = "hash"
               PROVE  /\ active_dataset[w] # 0
                      /\ dataset[active_dataset[w]] = [v \in Workers |-> local_job[w].seed]
    BY Zenon DEF HashesCompleteDataset
  <2>1. ActiveFull(w)
    BY Zenon DEF IInv, Contents, Live
  <2>2. active_dataset[w] > 0
    BY Zenon DEF IInv, Seeding
  <2> QED
    BY <2>1, <2>2 DEF ActiveFull, Full
<1> QED
  BY <1>1, Invariance, PTL

(* Until stop() is called, no step writes the installed dataset.              *)
THEOREM InstalledStable == Spec => InstalledImmutable
<1>1. IInv /\ [Next]_vars
        => [running_ /\ shared_dataset_ # 0
              => dataset'[shared_dataset_] = dataset[shared_dataset_]]_vars
  BY WritesNewest DEF IInv, Live, Numbering
<1> QED
  BY <1>1, Invariance, PTL DEF Spec, InstalledImmutable
=============================================================================
