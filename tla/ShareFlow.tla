------------------------------ MODULE ShareFlow ------------------------------
(***************************************************************************)
(* From the pool's messages to the shares sent back: the Stratum client     *)
(* turns messages into jobs, set_job hands them to the engine, every worker *)
(* adopts the job and hashes its own nonces through the pipeline, and a     *)
(* hash that meets the job's target is submitted.                           *)
(***************************************************************************)
EXTENDS StratumJobs, HashPipeline, FiniteSets

CONSTANTS Messages,       \* the messages a pool may send
          MaxMessages,    \* bound on the messages sent
          MaxJobs,        \* bound on the jobs taken
          MaxNonce        \* bound on a worker's nonce counter

ASSUME BoundsAssumption == MaxMessages \in Nat /\ MaxJobs \in Nat /\ MaxNonce \in Nat

ASSUME MessagesAssumption ==
  \A m \in Messages :
    /\ m.method \in {"mining.notify", "job", "mining.set_target", "mining.set_difficulty"}
    /\ IF m.method = "mining.set_difficulty" THEN m.diff \in Int /\ m.parses \in BOOLEAN
       ELSE m.target \in Seq(0..(Base - 1))

(* The pool sends the forms of a target that the client takes: no full target
   with mining.notify, no compact one in mining.set_target, and difficulties
   the division is exact for.                                               *)
ASSUME PoolAssumption ==
  \A m \in Messages :
    /\ m.method = "mining.notify" => Len(m.target) # Digits
    /\ m.method = "mining.set_target" => Len(m.target) # CompactDigits
    /\ m.method = "mining.set_difficulty" /\ m.parses => m.diff <= 0 \/ Exact(m.diff)


VARIABLES
  current_target_,        \* client: the target in force
  announced,              \* pool: the target in force, and each job's, as numbers
  sent,                   \* messages sent so far; a job's id is its message's number
  setting,                \* the job inside set_job(), holding job_mutex_ (a set)
  current_job_, job_generation_, current_seed_key_,
  fill_generation,        \* PartialDataset::generation()
  seen,                   \* per worker: the generation read before taking job_mutex_
  snapshot,               \* per worker: local_partial_fill_gen_for_cache
  ws,                     \* per worker: its state (HashPipeline)
  tried,                  \* per worker: nonces hashed since it adopted its job
  shares                  \* what was submitted

engine == <<setting, current_job_, job_generation_, current_seed_key_, fill_generation>>
workers == <<seen, snapshot, ws, tried, shares>>
client == <<current_target_, announced, sent>>
vars == <<client, engine, workers>>

Init ==
  /\ current_target_ = [i \in 1..Digits |-> 0]
  /\ announced = [inForce |-> 0, jobs |-> [id \in 1..MaxMessages |-> 0]]
  /\ sent = 0
  /\ setting = {} /\ current_job_ = {} /\ job_generation_ = 0
  /\ current_seed_key_ = "absent" /\ fill_generation = 0
  /\ seen = [w \in Workers |-> 0] /\ snapshot = [w \in Workers |-> 0]
  /\ ws = [w \in Workers |-> NewWorker(w)]
  /\ tried = [w \in Workers |-> {}]
  /\ shares = {}

-----------------------------------------------------------------------------
(* The pool's own view of the target a message announces, as a number: the
   largest hash a difficulty admits, or the compact value with every lower
   digit at its maximum.                                                    *)
Means(m) ==
  CASE m.method = "mining.set_difficulty" ->
         IF ~m.parses THEN announced.inForce
         ELSE IF m.diff <= 0 THEN MaxTarget ELSE MaxTarget \div m.diff
    [] m.method # "mining.set_difficulty" /\ Len(m.target) = Digits -> Value(m.target)
    [] m.method # "mining.set_difficulty" /\ Len(m.target) = CompactDigits ->
         (Value(m.target) + 1) * Power[Digits - CompactDigits] - 1
    [] OTHER -> announced.inForce

(* set_job() builds a cache, and restarts the fill, for a new seed or when
   there is no cache yet.                                                   *)
NeedsFill(j) == j.seed # current_seed_key_ \/ current_job_ = {}

(* The pool sends a message and the reader thread handles it; a job goes into
   set_job, which the reader stays in until it is published.                *)
Receive(m) ==
  LET r == handle_line(m, sent + 1, current_target_)
      taken == m.method \notin {"mining.notify", "job"} \/ valid_job_hex(m)
  IN /\ setting = {} /\ sent < MaxMessages /\ job_generation_ + Cardinality(r.jobs) <= MaxJobs
     /\ sent' = sent + 1
     /\ current_target_' = r.target
     /\ setting' = r.jobs
     /\ announced' =
          [inForce |-> IF taken /\ m.method # "mining.notify" THEN Means(m)
                       ELSE announced.inForce,
           jobs |-> [announced.jobs EXCEPT ![sent + 1] = Means(m)]]
     /\ fill_generation' = fill_generation + Cardinality({j \in r.jobs : NeedsFill(j)})
     /\ UNCHANGED <<current_job_, job_generation_, current_seed_key_, workers>>

(* The rest of set_job(): the job is published and the mutex released.      *)
Publish ==
  /\ setting # {}
  /\ current_job_' = setting /\ setting' = {}
  /\ \A j \in setting : current_seed_key_' = j.seed
  /\ job_generation_' = job_generation_ + 1
  /\ UNCHANGED <<client, fill_generation, workers>>

(* The lock-free check at the top of a worker's turn.                       *)
LoadGeneration(w) ==
  /\ seen[w] = ws[w].gen /\ job_generation_ # ws[w].gen
  /\ seen' = [seen EXCEPT ![w] = job_generation_]
  /\ UNCHANGED <<client, engine, snapshot, ws, tried, shares>>

(* Under job_mutex_ the worker takes the job of the moment, which may be a
   later one than the generation it has read.                               *)
Adopt(w) ==
  /\ seen[w] # ws[w].gen /\ setting = {}
  /\ \E j \in current_job_ : ws' = [ws EXCEPT ![w] = adopt(ws[w], seen[w], j)]
  /\ snapshot' = [snapshot EXCEPT ![w] = fill_generation]
  /\ tried' = [tried EXCEPT ![w] = {}]
  /\ UNCHANGED <<client, engine, seen, shares>>

CanHash(w) ==
  seen[w] = ws[w].gen /\ ws[w].active /\ ws[w].local_nonce <= MaxNonce

(* The nonce field does not fit the template: the worker sits the job out.  *)
Deactivate(w) ==
  /\ CanHash(w) /\ ~ws[w].job.fits
  /\ ws' = [ws EXCEPT ![w] = deactivate(ws[w])]
  /\ UNCHANGED <<client, engine, seen, snapshot, tried, shares>>

(* The read guard finds a rotated partial dataset.                          *)
Abandon(w) ==
  /\ CanHash(w) /\ ws[w].job.fits /\ fill_generation # snapshot[w]
  /\ ws' = [ws EXCEPT ![w] = abandoned(ws[w])]
  /\ UNCHANGED <<client, engine, seen, snapshot, tried, shares>>

(* The digits of a hash: any fixed spread over the targets serves.          *)
HashDigits(h) ==
  LET block == h.regs.state.filled.seed
      v == (11 * block.nonce + 23 * block.id + 5) % Power[Digits]
  IN [i \in 1..Digits |-> (v \div Power[i - 1]) % Base]

(* submit_share(): the nonce is written with the job's nonce size.          *)
share(s, r) == [job |-> s.job, nonce |-> r.nonce % NonceSpace, hash |-> r.hash]

Hash(w) ==
  LET r == hashed(ws[w]) IN
  /\ CanHash(w) /\ ws[w].job.fits /\ fill_generation = snapshot[w]
  /\ ws' = [ws EXCEPT ![w] = r.worker]
  /\ tried' = [tried EXCEPT ![w] = @ \union {r.nonce}]
  /\ shares' = shares \union
       IF meets_target(HashDigits(r.hash), ws[w].job.target) THEN {share(ws[w], r)} ELSE {}
  /\ UNCHANGED <<client, engine, seen, snapshot>>

Worker(w) == LoadGeneration(w) \/ Adopt(w) \/ Deactivate(w) \/ Abandon(w) \/ Hash(w)

Next == (\E m \in Messages : Receive(m)) \/ Publish \/ (\E w \in Workers : Worker(w))

Spec == Init /\ [][Next]_vars

-----------------------------------------------------------------------------
(* Every job's target has Digits digits, nonces stay in their worker's class
   (worker_loop's stride), and nothing is hashed for a job that does not fit
   its nonce field.                                                         *)
TypeOK ==
  /\ current_target_ \in [1..Digits -> 0..(Base - 1)]
  /\ \A w \in Workers :
       /\ ws[w].job.target \in {<<>>} \union [1..Digits -> 0..(Base - 1)]
       /\ ws[w].vm.active \in {0, 1} /\ ws[w].sp_fill \in {0, 1}
       /\ \A n \in tried[w] : n % NumThreads = w
  /\ \A s \in shares : s.job.fits

(* Every submitted share carries the RandomX hash, under its job's seed, of
   the job's template with the submitted nonce in it: the pipeline's skipped
   fills, its two scratchpads, abandoned turns and job changes never mix two
   blocks (randomx_calculate_hash_pipelined and worker_loop).               *)
ShareIsValid ==
  \A s \in shares :
    s.hash = RandomX([id |-> s.job.id, nonce |-> s.nonce], s.job.seed)

(* A share is submitted only when its hash, as a number, is at most the
   target the pool announced for the job: across difficulties, full and
   compact targets, and targets carried over from an earlier message.  And
   none is withheld: the target a worker mines against is exactly the pool's. *)
ShareMeetsPoolTarget ==
  /\ \A s \in shares : Value(HashDigits(s.hash)) <= announced.jobs[s.job.id]
  /\ \A w \in Workers :
       ws[w].active => Value(ws[w].job.target) = announced.jobs[ws[w].job.id]

=============================================================================
