---------------------------- MODULE LightEngine ----------------------------
(* MiningEngine in light mode with a partial dataset (src/mining_engine.cpp): *)
(* set_job() on the pool's thread, worker_loop() on every mining thread and  *)
(* stop() on the main thread, around the prefix of module PrefixStore (which *)
(* PartialDataset implements).  A cache is abstracted to the seed it was     *)
(* initialized with; a hash is the span between taking and releasing the     *)
(* ReadGuard.                                                                *)
EXTENDS PrefixStore, FiniteSets

CONSTANTS
  Seeds,       \* seed keys the pool may announce
  MaxJobs,     \* bound: calls of set_job()
  MayStop,     \* whether stop() is called
  MayThrow,    \* whether a fill may fail
  NoSeed       \* current_seed_key_ before the first job

Workers == Holders

ASSUME EngineAssumption ==
  MaxJobs \in Nat /\ MayStop \in BOOLEAN /\ MayThrow \in BOOLEAN /\ NoSeed \notin Seeds

VARIABLES
  filling, fill_complete_, halted, fill_seed,  \* the fill: threads alive, complete,
                                               \* stop token set, cache_holder_
  job_mutex_, shared_cache_, current_seed_key_, current_job_, job_generation_,
  running_, shutdown_requested_,
  spc, job,                                    \* set_job(): label and argument
  pc, seen_gen, local_gen, local_job, active_cache,  \* worker_loop()
  local_fill_gen, for_cache,                   \* local_partial_fill_gen(_for_cache)
  tpc                                          \* stop()

fill == <<filling, fill_complete_, halted, fill_seed>>
engine == <<job_mutex_, shared_cache_, current_seed_key_, current_job_, job_generation_>>
setter == <<spc, job>>
locals == <<seen_gen, local_gen, local_job, active_cache, local_fill_gen, for_cache>>
stopper == <<running_, shutdown_requested_, tpc>>
vars == <<store, fill, engine, setter, pc, locals, stopper>>

Free == "free"
NoJob == [id |-> 0, seed |-> NoSeed]

Init ==
  /\ StoreInit
  /\ filling = FALSE /\ fill_complete_ = FALSE /\ halted = FALSE /\ fill_seed = NoSeed
  /\ job_mutex_ = Free /\ shared_cache_ = NoSeed /\ current_seed_key_ = NoSeed
  /\ current_job_ = NoJob /\ job_generation_ = 0
  /\ running_ = TRUE /\ shutdown_requested_ = FALSE
  /\ spc = "idle" /\ job = NoJob
  /\ pc = [w \in Workers |-> "wait"]
  /\ seen_gen = [w \in Workers |-> 0] /\ local_gen = [w \in Workers |-> 0]
  /\ local_job = [w \in Workers |-> NoJob]
  /\ active_cache = [w \in Workers |-> NoSeed]
  /\ local_fill_gen = [w \in Workers |-> 0] /\ for_cache = [w \in Workers |-> 0]
  /\ tpc = "idle"

-----------------------------------------------------------------------------
(* set_job(): holds job_mutex_ from its first to its last line *)

set_job(seed) ==
  /\ spc = "idle" /\ job_mutex_ = Free /\ job_generation_ < MaxJobs
  /\ job_mutex_' = "set_job"
  /\ job' = [id |-> job_generation_ + 1, seed |-> seed]
  /\ spc' = IF seed # current_seed_key_ THEN "cache" ELSE "publish"
  /\ UNCHANGED <<store, fill, shared_cache_, current_seed_key_, current_job_,
                 job_generation_, pc, locals, stopper>>

set_job_cache ==
  /\ spc = "cache"
  /\ shared_cache_' = job.seed
  /\ spc' = "fill"
  /\ UNCHANGED <<store, fill, job_mutex_, current_seed_key_, current_job_,
                 job_generation_, job, pc, locals, stopper>>

\* start_fill() does nothing once a shutdown was requested.
start_fill ==
  /\ spc = "fill"
  /\ spc' = IF shutdown_requested_ THEN "seed" ELSE "join"
  /\ UNCHANGED <<store, fill, engine, job, pc, locals, stopper>>

start_fill_join ==
  /\ spc = "join" /\ ~filling
  /\ spc' = "clear"
  /\ UNCHANGED <<store, fill, engine, job, pc, locals, stopper>>

start_fill_clear ==
  /\ spc = "clear" /\ Clear
  /\ fill_complete_' = FALSE
  /\ spc' = "bump"
  /\ UNCHANGED <<filling, halted, fill_seed, engine, job, pc, locals, stopper>>

\* The new generation with a fresh stop token ...
start_fill_bump ==
  /\ spc = "bump" /\ Bump
  /\ halted' = FALSE
  /\ spc' = "spawn"
  /\ UNCHANGED <<filling, fill_complete_, fill_seed, engine, job, pc, locals, stopper>>

\* ... and, after the exclusive section, the fill threads for its cache.
start_fill_spawn ==
  /\ spc = "spawn"
  /\ filling' = TRUE
  /\ fill_seed' = shared_cache_
  /\ spc' = "seed"
  /\ UNCHANGED <<store, fill_complete_, halted, engine, job, pc, locals, stopper>>

set_job_seed ==
  /\ spc = "seed"
  /\ current_seed_key_' = job.seed
  /\ spc' = "publish"
  /\ UNCHANGED <<store, fill, job_mutex_, shared_cache_, current_job_, job_generation_,
                 job, pc, locals, stopper>>

set_job_publish ==
  /\ spc = "publish"
  /\ current_job_' = job
  /\ job_generation_' = job_generation_ + 1
  /\ job_mutex_' = Free
  /\ spc' = "idle"
  /\ job' = NoJob
  /\ UNCHANGED <<store, fill, shared_cache_, current_seed_key_, pc, locals, stopper>>

SetJobStep ==
  \/ set_job_cache \/ start_fill \/ start_fill_join \/ start_fill_clear
  \/ start_fill_bump \/ start_fill_spawn \/ set_job_seed \/ set_job_publish

-----------------------------------------------------------------------------
(* The fill threads, as far as the engine can see them *)

fill_publish ==
  /\ filling /\ Extend
  /\ UNCHANGED <<fill, engine, setter, pc, locals, stopper>>

fill_finish ==
  /\ filling /\ Len(prefix) = Size
  /\ filling' = FALSE
  /\ fill_complete_' = TRUE
  /\ UNCHANGED <<store, halted, fill_seed, engine, setter, pc, locals, stopper>>

\* Fill threads end early: cancelled, or one of them failed and set the stop token.
fill_abort ==
  /\ filling
  /\ shutdown_requested_ \/ MayThrow
  /\ halted' = (halted \/ ~shutdown_requested_)
  /\ filling' = FALSE
  /\ UNCHANGED <<store, fill_complete_, fill_seed, engine, setter, pc, locals, stopper>>

-----------------------------------------------------------------------------
(* worker_loop() *)

Goto(w, label) == pc' = [pc EXCEPT ![w] = label]

loop_top(w) ==
  /\ pc[w] = "top"
  /\ Goto(w, IF running_ THEN "fillgen" ELSE "exit")
  /\ UNCHANGED <<store, fill, engine, setter, locals, stopper>>

\* A new fill generation makes the worker wait for that fill.
check_fill_gen(w) ==
  /\ pc[w] = "fillgen"
  /\ local_fill_gen' = [local_fill_gen EXCEPT ![w] = gen]
  /\ Goto(w, IF gen # local_fill_gen[w] THEN "wait" ELSE "job")
  /\ UNCHANGED <<store, fill, engine, setter, seen_gen, local_gen, local_job,
                 active_cache, for_cache, stopper>>

\* Mutant: the wait knows nothing of a shutdown.
wait_for_fill_no_shutdown(w) ==
  /\ pc[w] = "wait"
  /\ fill_complete_ \/ halted
  /\ Goto(w, "join")
  /\ UNCHANGED <<store, fill, engine, setter, locals, stopper>>

\* wait_for_fill(): the condition, then joining whatever fill threads there are; the
\* call before the loop (no generation seen yet) leads to the loop's top.
wait_for_fill(w) ==
  /\ pc[w] = "wait"
  /\ fill_complete_ \/ halted \/ shutdown_requested_
  /\ Goto(w, "join")
  /\ UNCHANGED <<store, fill, engine, setter, locals, stopper>>

wait_join(w) ==
  /\ pc[w] = "join" /\ ~filling
  /\ Goto(w, IF local_fill_gen[w] = 0 THEN "top" ELSE "job")
  /\ UNCHANGED <<store, fill, engine, setter, locals, stopper>>

\* The lock-free job check.
check_job(w) ==
  /\ pc[w] = "job"
  /\ seen_gen' = [seen_gen EXCEPT ![w] = job_generation_]
  /\ Goto(w, IF job_generation_ # local_gen[w] THEN "lock"
             ELSE IF local_job[w] # NoJob THEN "guard" ELSE "top")
  /\ UNCHANGED <<store, fill, engine, setter, local_gen, local_job, active_cache,
                 local_fill_gen, for_cache, stopper>>

\* Mutants: the job read without job_mutex_; the fill generation of the loop's top
\* taken for the one the cache belongs to.
adopt_job_unlocked(w) ==
  /\ pc[w] = "lock"
  /\ local_gen' = [local_gen EXCEPT ![w] = seen_gen[w]]
  /\ local_job' = [local_job EXCEPT ![w] = current_job_]
  /\ active_cache' = [active_cache EXCEPT ![w] = shared_cache_]
  /\ for_cache' = [for_cache EXCEPT ![w] = gen]
  /\ Goto(w, "guard")
  /\ UNCHANGED <<store, fill, engine, setter, seen_gen, local_fill_gen, stopper>>
adopt_job_old_generation(w) ==
  /\ pc[w] = "lock" /\ job_mutex_ = Free
  /\ local_gen' = [local_gen EXCEPT ![w] = seen_gen[w]]
  /\ local_job' = [local_job EXCEPT ![w] = current_job_]
  /\ active_cache' = [active_cache EXCEPT ![w] = shared_cache_]
  /\ for_cache' = [for_cache EXCEPT ![w] = local_fill_gen[w]]
  /\ Goto(w, "guard")
  /\ UNCHANGED <<store, fill, engine, setter, seen_gen, local_fill_gen, stopper>>

\* The block under job_mutex_.
adopt_job(w) ==
  /\ pc[w] = "lock" /\ job_mutex_ = Free
  /\ local_gen' = [local_gen EXCEPT ![w] = seen_gen[w]]
  /\ local_job' = [local_job EXCEPT ![w] = current_job_]
  /\ active_cache' = [active_cache EXCEPT ![w] = shared_cache_]
  /\ for_cache' = [for_cache EXCEPT ![w] = gen]
  /\ Goto(w, "guard")
  /\ UNCHANGED <<store, fill, engine, setter, seen_gen, local_fill_gen, stopper>>

RotationLocked == spc \in {"clear", "bump"}

\* Mutant: no generation check under the guard.
guard_unchecked(w) ==
  /\ pc[w] = "guard" /\ ~RotationLocked
  /\ Enter(w) /\ Goto(w, "hash")
  /\ UNCHANGED <<fill, engine, setter, locals, stopper>>

\* The ReadGuard with the generation check under it: hash, or skip this turn.
guard(w) ==
  /\ pc[w] = "guard" /\ ~RotationLocked
  /\ \/ gen = for_cache[w] /\ Enter(w) /\ Goto(w, "hash")
     \/ gen # for_cache[w] /\ Goto(w, "top") /\ UNCHANGED store
  /\ UNCHANGED <<fill, engine, setter, locals, stopper>>

hash_done(w) ==
  /\ pc[w] = "hash" /\ Leave(w)
  /\ Goto(w, "top")
  /\ UNCHANGED <<fill, engine, setter, locals, stopper>>

WorkerStep(w) ==
  \/ loop_top(w) \/ check_fill_gen(w) \/ wait_for_fill(w) \/ wait_join(w)
  \/ check_job(w) \/ adopt_job(w) \/ guard(w) \/ hash_done(w)

-----------------------------------------------------------------------------
(* stop() *)

stop ==
  /\ MayStop /\ tpc = "idle"
  /\ running_' = FALSE
  /\ tpc' = "cancel"
  /\ UNCHANGED <<store, fill, engine, setter, pc, locals, shutdown_requested_>>

stop_cancel ==
  /\ tpc = "cancel"
  /\ shutdown_requested_' = TRUE
  /\ tpc' = "join"
  /\ UNCHANGED <<store, fill, engine, setter, pc, locals, running_>>

stop_return ==
  /\ tpc = "join" /\ \A w \in Workers : pc[w] = "exit"
  /\ tpc' = "stopped"
  /\ UNCHANGED <<store, fill, engine, setter, pc, locals, running_, shutdown_requested_>>

Next ==
  \/ \E seed \in Seeds : set_job(seed)
  \/ SetJobStep
  \/ fill_publish \/ fill_finish \/ fill_abort
  \/ \E w \in Workers : WorkerStep(w)
  \/ stop \/ stop_cancel \/ stop_return

\* Every thread inside an operation runs on; fill threads publish and finish, and stop
\* when told to.  Neither a new job, nor a call of stop(), nor a failing fill is
\* assumed to come.
Fairness ==
  /\ WF_vars(SetJobStep)
  /\ WF_vars(fill_publish) /\ WF_vars(fill_finish)
  /\ WF_vars(filling /\ shutdown_requested_ /\ fill_abort)
  /\ \A w \in Workers : WF_vars(WorkerStep(w))
  /\ WF_vars(stop_cancel) /\ WF_vars(stop_return)

Spec == Init /\ [][Next]_vars
FairSpec == Spec /\ Fairness

-----------------------------------------------------------------------------
(* Properties *)

Hashing(w) == pc[w] = "hash"

\* Every variable is in its range.
TypeOK ==
  /\ gen \in 0 .. MaxJobs /\ prefix \in Seq(0 .. MaxJobs) /\ Len(prefix) <= Size
  /\ inside \in SUBSET Workers
  /\ {fill_seed, shared_cache_, current_seed_key_} \subseteq Seeds \cup {NoSeed}
  /\ job_mutex_ \in {Free, "set_job"} /\ job_generation_ \in 0 .. MaxJobs
  /\ current_job_.id = job_generation_
  /\ spc \in {"idle", "cache", "fill", "join", "clear", "bump", "spawn", "seed",
             "publish"}
  /\ pc \in [Workers -> {"top", "fillgen", "wait", "join", "job", "lock", "guard",
                         "hash", "exit"}]
  /\ inside = {w \in Workers : Hashing(w)}
  /\ tpc \in {"idle", "cancel", "join", "stopped"}

\* What the comment on the generation check promises: a match under the ReadGuard
\* guarantees that cache and prefix belong to one generation for the whole hash.
MatchGuarantees ==
  \A w \in Workers : Hashing(w) => active_cache[w] = fill_seed

\* Until stop() is called the check does its job: the cache a hash derives items from
\* and the prefix it reads belong to the same seed, for the whole hash.
SameSeedHash == running_ => MatchGuarantees

\* A worker hashes a job with that job's own cache.
JobCacheAgree ==
  \A w \in Workers : Hashing(w) => active_cache[w] = local_job[w].seed

\* What the comments in set_job() and worker_loop() promise: no hash runs before the
\* prefix is fully populated.
FullPrefixHash ==
  \A w \in Workers : Hashing(w) => Len(prefix) = Size

\* What the comments at the adopting block promise: the template, the nonce and the
\* pipeline are reset only on a job change, so no nonce of a job is tried twice.
AdoptOnlyOnChange ==
  [][\A w \in Workers : pc[w] = "lock" /\ pc'[w] # "lock"
       => local_job'[w] # local_job[w]]_vars

\* A new job reaches every worker: each comes to hash it or a later one, whatever
\* fills and rotations intervene, unless the engine stops.
JobReachesWorkers ==
  \A w \in Workers, n \in 1 .. MaxJobs :
    job_generation_ >= n ~> (local_job[w].id >= n /\ Hashing(w)) \/ ~running_

\* stop() returns: no worker stays behind in wait_for_fill() or behind job_mutex_.
StopReturns == ~running_ ~> tpc = "stopped"
=============================================================================
