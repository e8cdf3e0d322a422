---------------------------- MODULE FastRebuild ----------------------------
(* MiningEngine in fast mode (src/mining_engine.cpp): a job with a new seed  *)
(* makes set_job() rebuild the full dataset while it holds job_mutex_, with  *)
(* the mining workers as builders, each for the region of its thread_id.     *)
(* dataset_init_mutex_ is held for single steps only, except by set_job()    *)
(* between evaluating its wait condition and going to sleep.  The dataset of *)
(* the n-th rebuild is the function Workers -> seed its regions were derived *)
(* for.                                                                      *)
EXTENDS Integers, FiniteSets

CONSTANTS
  Workers,    \* mining threads, one dataset region each
  Seeds,      \* seed keys the pool may announce
  NoSeed,     \* no seed yet; an unwritten region
  MaxJobs,    \* bound: calls of set_job()
  MayStop     \* whether stop() is called

ASSUME FastAssumption ==
  /\ IsFiniteSet(Workers) /\ Workers # {} /\ MaxJobs \in Nat
  /\ MayStop \in BOOLEAN /\ NoSeed \notin Seeds

VARIABLES
  running_, started,
  job_mutex_, current_seed_key_, current_job_, job_generation_,
  dataset,                 \* dataset[n]: the regions of the n-th one allocated
  allocated,               \* datasets allocated so far
  shared_dataset_,         \* the number of the dataset workers adopt, 0 if none
  pending_dataset_, pending_seed, dataset_init_remaining_, dataset_init_generation_,
  spc, job,                \* set_job(): label and argument
  pc, seen_gen, local_gen, local_job, active_dataset,  \* worker_loop()
  local_init_gen, target, target_seed,                 \* its part in a rebuild
  tpc                      \* stop()

engine == <<job_mutex_, current_seed_key_, current_job_, job_generation_>>
datasets == <<dataset, allocated, shared_dataset_>>
init == <<pending_dataset_, pending_seed, dataset_init_remaining_,
          dataset_init_generation_>>
setter == <<spc, job>>
jobview == <<seen_gen, local_gen, local_job, active_dataset>>
build == <<local_init_gen, target, target_seed>>
vars == <<running_, started, engine, datasets, init, setter, pc, jobview, build, tpc>>

Free == "free"
NoJob == [id |-> 0, seed |-> NoSeed]
Empty == [w \in Workers |-> NoSeed]

Init ==
  /\ running_ = FALSE /\ started = FALSE
  /\ job_mutex_ = Free /\ current_seed_key_ = NoSeed
  /\ current_job_ = NoJob /\ job_generation_ = 0
  /\ dataset = [n \in 1 .. MaxJobs |-> Empty] /\ allocated = 0 /\ shared_dataset_ = 0
  /\ pending_dataset_ = 0 /\ pending_seed = NoSeed
  /\ dataset_init_remaining_ = 0 /\ dataset_init_generation_ = 0
  /\ spc = "idle" /\ job = NoJob
  /\ pc = [w \in Workers |-> "off"]
  /\ seen_gen = [w \in Workers |-> 0] /\ local_gen = [w \in Workers |-> 0]
  /\ local_job = [w \in Workers |-> NoJob] /\ active_dataset = [w \in Workers |-> 0]
  /\ local_init_gen = [w \in Workers |-> 0]
  /\ target = [w \in Workers |-> 0] /\ target_seed = [w \in Workers |-> NoSeed]
  /\ tpc = "idle"

-----------------------------------------------------------------------------
(* set_job(): holds job_mutex_ from its first to its last line *)

set_job(seed) ==
  /\ spc = "idle" /\ job_mutex_ = Free /\ job_generation_ < MaxJobs
  /\ job_mutex_' = "set_job"
  /\ job' = [id |-> job_generation_ + 1, seed |-> seed]
  /\ spc' = IF seed # current_seed_key_ THEN "alloc" ELSE "publish"
  /\ UNCHANGED <<running_, started, current_seed_key_, current_job_, job_generation_,
                 datasets, init, pc, jobview, build, tpc>>

\* A new buffer; live workers build it, temporary threads if there are none.
allocate_dataset ==
  /\ spc = "alloc"
  /\ allocated' = allocated + 1
  /\ spc' = IF running_ THEN "announce" ELSE "temporary"
  /\ UNCHANGED <<running_, started, engine, dataset, shared_dataset_, init, job, pc,
                 jobview, build, tpc>>

build_with_temporary_threads ==
  /\ spc = "temporary"
  /\ dataset' = [dataset EXCEPT ![allocated] = [w \in Workers |-> job.seed]]
  /\ spc' = "install"
  /\ UNCHANGED <<running_, started, engine, allocated, shared_dataset_, init, job, pc,
                 jobview, build, tpc>>

\* Whether dataset_init_mutex_ is free for a step of another thread.
InitMutexFree == spc # "parking"

\* Mutant: one report too few expected.
announce_rebuild_short ==
  /\ spc = "announce"
  /\ pending_dataset_' = allocated
  /\ pending_seed' = job.seed
  /\ dataset_init_remaining_' = Cardinality(Workers) - 1
  /\ spc' = "bump"
  /\ UNCHANGED <<running_, started, engine, datasets, dataset_init_generation_, job, pc,
                 jobview, build, tpc>>

announce_rebuild ==
  /\ spc = "announce"
  /\ pending_dataset_' = allocated
  /\ pending_seed' = job.seed
  /\ dataset_init_remaining_' = Cardinality(Workers)
  /\ spc' = "bump"
  /\ UNCHANGED <<running_, started, engine, datasets, dataset_init_generation_, job, pc,
                 jobview, build, tpc>>

bump_init_generation ==
  /\ spc = "bump"
  /\ dataset_init_generation_' = dataset_init_generation_ + 1
  /\ spc' = "test"
  /\ UNCHANGED <<running_, started, engine, datasets, pending_dataset_, pending_seed,
                 dataset_init_remaining_, job, pc, jobview, build, tpc>>

\* Mutant: the wait ends one report early.
wait_test_early ==
  /\ spc = "test"
  /\ spc' = IF dataset_init_remaining_ <= 1 \/ ~running_ THEN "install" ELSE "parking"
  /\ UNCHANGED <<running_, started, engine, datasets, init, job, pc, jobview, build, tpc>>

\* dataset_init_cv_.wait(): evaluate under the mutex, then release it and sleep.
wait_test ==
  /\ spc = "test"
  /\ spc' = IF dataset_init_remaining_ = 0 \/ ~running_ THEN "install" ELSE "parking"
  /\ UNCHANGED <<running_, started, engine, datasets, init, job, pc, jobview, build, tpc>>

wait_park ==
  /\ spc = "parking"
  /\ spc' = "parked"
  /\ UNCHANGED <<running_, started, engine, datasets, init, job, pc, jobview, build, tpc>>

NotifySetter == spc' = IF spc = "parked" THEN "test" ELSE spc

SpuriousWake ==
  /\ spc = "parked" /\ NotifySetter
  /\ UNCHANGED <<running_, started, engine, datasets, init, job, pc, jobview, build, tpc>>

install_dataset ==
  /\ spc = "install"
  /\ shared_dataset_' = allocated
  /\ current_seed_key_' = job.seed
  /\ spc' = "publish"
  /\ UNCHANGED <<running_, started, job_mutex_, current_job_, job_generation_, dataset,
                 allocated, init, job, pc, jobview, build, tpc>>

set_job_publish ==
  /\ spc = "publish"
  /\ current_job_' = job
  /\ job_generation_' = job_generation_ + 1
  /\ job_mutex_' = Free
  /\ spc' = "idle" /\ job' = NoJob
  /\ UNCHANGED <<running_, started, current_seed_key_, datasets, init, pc, jobview,
                 build, tpc>>

SetJobStep ==
  \/ allocate_dataset \/ build_with_temporary_threads \/ announce_rebuild
  \/ bump_init_generation \/ wait_test \/ wait_park \/ install_dataset \/ set_job_publish

-----------------------------------------------------------------------------
(* start() and worker_loop() *)

Goto(w, label) == pc' = [pc EXCEPT ![w] = label]

\* MinerApp never calls start() while a set_job() is under way.
start ==
  /\ ~started /\ spc = "idle"
  /\ started' = TRUE /\ running_' = TRUE
  /\ pc' = [w \in Workers |-> "top"]
  /\ UNCHANGED <<engine, datasets, init, setter, jobview, build, tpc>>

loop_top(w) ==
  /\ pc[w] = "top"
  /\ Goto(w, IF running_ THEN "initgen" ELSE "exit")
  /\ UNCHANGED <<running_, started, engine, datasets, init, setter, jobview, build, tpc>>

check_init_gen(w) ==
  /\ pc[w] = "initgen"
  /\ local_init_gen' = [local_init_gen EXCEPT ![w] = dataset_init_generation_]
  /\ Goto(w, IF dataset_init_generation_ # local_init_gen[w] THEN "target" ELSE "job")
  /\ UNCHANGED <<running_, started, engine, datasets, init, setter, jobview, target,
                 target_seed, tpc>>

\* Mutant: the region derived for the seed of the job before.
read_target_old_seed(w) ==
  /\ pc[w] = "target" /\ InitMutexFree
  /\ target' = [target EXCEPT ![w] = pending_dataset_]
  /\ target_seed' = [target_seed EXCEPT ![w] = current_seed_key_]
  /\ Goto(w, "build")
  /\ UNCHANGED <<running_, started, engine, datasets, init, setter, jobview,
                 local_init_gen, tpc>>

read_target(w) ==
  /\ pc[w] = "target" /\ InitMutexFree
  /\ target' = [target EXCEPT ![w] = pending_dataset_]
  /\ target_seed' = [target_seed EXCEPT ![w] = pending_seed]
  /\ Goto(w, "build")
  /\ UNCHANGED <<running_, started, engine, datasets, init, setter, jobview,
                 local_init_gen, tpc>>

build_region(w) ==
  /\ pc[w] = "build"
  /\ dataset' = [dataset EXCEPT ![target[w]][w] = target_seed[w]]
  /\ Goto(w, "report")
  /\ UNCHANGED <<running_, started, engine, allocated, shared_dataset_, init, setter,
                 jobview, build, tpc>>

\* Mutant: the last report wakes nobody.
report_region_silent(w) ==
  /\ pc[w] = "report" /\ InitMutexFree
  /\ dataset_init_remaining_' = dataset_init_remaining_ - 1
  /\ Goto(w, "top")
  /\ UNCHANGED <<running_, started, engine, datasets, pending_dataset_, pending_seed,
                 dataset_init_generation_, spc, job, jobview, build, tpc>>

report_region(w) ==
  /\ pc[w] = "report" /\ InitMutexFree
  /\ dataset_init_remaining_' = dataset_init_remaining_ - 1
  /\ IF dataset_init_remaining_' = 0 THEN NotifySetter ELSE UNCHANGED spc
  /\ Goto(w, "top")
  /\ UNCHANGED <<running_, started, engine, datasets, pending_dataset_, pending_seed,
                 dataset_init_generation_, job, jobview, build, tpc>>

check_job(w) ==
  /\ pc[w] = "job"
  /\ seen_gen' = [seen_gen EXCEPT ![w] = job_generation_]
  /\ Goto(w, IF job_generation_ # local_gen[w] THEN "lock"
             ELSE IF local_job[w] # NoJob THEN "hash" ELSE "top")
  /\ UNCHANGED <<running_, started, engine, datasets, init, setter, local_gen, local_job,
                 active_dataset, build, tpc>>

adopt_job(w) ==
  /\ pc[w] = "lock" /\ job_mutex_ = Free
  /\ local_gen' = [local_gen EXCEPT ![w] = seen_gen[w]]
  /\ local_job' = [local_job EXCEPT ![w] = current_job_]
  /\ active_dataset' = [active_dataset EXCEPT ![w] = shared_dataset_]
  /\ Goto(w, "hash")
  /\ UNCHANGED <<running_, started, engine, datasets, init, setter, seen_gen, build, tpc>>

hash_done(w) ==
  /\ pc[w] = "hash"
  /\ Goto(w, "top")
  /\ UNCHANGED <<running_, started, engine, datasets, init, setter, jobview, build, tpc>>

WorkerStep(w) ==
  \/ loop_top(w) \/ check_init_gen(w) \/ read_target(w) \/ build_region(w)
  \/ report_region(w) \/ check_job(w) \/ adopt_job(w) \/ hash_done(w)

-----------------------------------------------------------------------------
(* stop(): the flag, the notification without dataset_init_mutex_, the joins *)

stop ==
  /\ MayStop /\ running_ /\ tpc = "idle"
  /\ running_' = FALSE
  /\ tpc' = "notify"
  /\ UNCHANGED <<started, engine, datasets, init, setter, pc, jobview, build>>

stop_notify ==
  /\ tpc = "notify" /\ NotifySetter
  /\ tpc' = "join"
  /\ UNCHANGED <<running_, started, engine, datasets, init, job, pc, jobview, build>>

stop_return ==
  /\ tpc = "join" /\ \A w \in Workers : pc[w] = "exit"
  /\ tpc' = "stopped"
  /\ UNCHANGED <<running_, started, engine, datasets, init, setter, pc, jobview, build>>

Next ==
  \/ \E seed \in Seeds : set_job(seed)
  \/ SetJobStep \/ SpuriousWake
  \/ start
  \/ \E w \in Workers : WorkerStep(w)
  \/ stop \/ stop_notify \/ stop_return

\* Every thread inside an operation runs on, and gets dataset_init_mutex_ if it is freed
\* again and again.  SetJobStep is not enabled while set_job() sleeps, and no wake is
\* assumed to be spurious.
Fairness ==
  /\ WF_vars(SetJobStep)
  /\ \A w \in Workers : WF_vars(WorkerStep(w)) /\ SF_vars(read_target(w))
                        /\ SF_vars(report_region(w))
  /\ WF_vars(stop_notify) /\ WF_vars(stop_return)

Spec == Init /\ [][Next]_vars
FairSpec == Spec /\ Fairness

-----------------------------------------------------------------------------
(* Properties *)

Numbers == 0 .. MaxJobs
Labels == {"off", "top", "initgen", "target", "build", "report", "job", "lock", "hash",
           "exit"}

\* Every variable is in its range.
TypeOK ==
  /\ job_mutex_ \in {Free, "set_job"} /\ current_seed_key_ \in Seeds \cup {NoSeed}
  /\ job_generation_ \in Numbers /\ current_job_.id = job_generation_
  /\ dataset \in [1 .. MaxJobs -> [Workers -> Seeds \cup {NoSeed}]]
  /\ allocated \in Numbers /\ shared_dataset_ \in Numbers /\ pending_dataset_ \in Numbers
  /\ dataset_init_remaining_ \in 0 .. Cardinality(Workers)
  /\ dataset_init_generation_ \in Numbers
  /\ spc \in {"idle", "alloc", "temporary", "announce", "bump", "test", "parking",
              "parked", "install", "publish"}
  /\ pc \in [Workers -> Labels]
  /\ local_gen \in [Workers -> Numbers] /\ local_init_gen \in [Workers -> Numbers]
  /\ active_dataset \in [Workers -> Numbers] /\ target \in [Workers -> Numbers]
  /\ tpc \in {"idle", "notify", "join", "stopped"}

\* The workers that still owe the current rebuild their report.
Owing == {w \in Workers : local_init_gen[w] # dataset_init_generation_
                          \/ pc[w] \in {"target", "build", "report"}}

\* While set_job() waits, the countdown is the number of workers that still owe their
\* region: nobody is counted twice and nobody's report is lost.
CountdownExact ==
  spc \in {"test", "parking", "parked"} => dataset_init_remaining_ = Cardinality(Owing)

\* Until stop() is called, a hash uses a dataset that is complete and built for the
\* seed of its job.
HashesCompleteDataset ==
  running_ => \A w \in Workers : pc[w] = "hash" =>
    active_dataset[w] # 0 /\ dataset[active_dataset[w]] = [v \in Workers |-> local_job[w].seed]

\* Until stop() is called, a dataset that has been installed is not written any more:
\* set_job() waits for the last builder before workers can adopt it.
InstalledImmutable ==
  [][running_ /\ shared_dataset_ # 0
       => dataset'[shared_dataset_] = dataset[shared_dataset_]]_vars

\* A rebuild that begins when every worker has adopted the job before it ends, unless
\* stop() intervenes: no report is missed and no worker waits for job_mutex_ meanwhile.
CaughtUp == \A w \in Workers : pc[w] = "exit" \/ local_gen[w] = job_generation_
CaughtUpRebuildEnds ==
  (spc = "alloc" /\ running_ /\ CaughtUp) ~> (spc = "idle" \/ ~running_)

\* What the comment on dataset_init_mutex_ promises: workers take part in a rebuild
\* without job_mutex_, so every rebuild ends, however close together the jobs come.
RebuildEnds == spc # "idle" ~> spc = "idle"

\* What the comment in stop() promises: its notification wakes a set_job() that waits
\* for a rebuild the leaving workers will not finish.
StopWakesSetJob == tpc # "idle" ~> spc = "idle"
=============================================================================
