----------------------------- MODULE PoolManager -----------------------------
(***************************************************************************)
(* PoolManager and the pool-mining loop of MinerApp that drives it, around   *)
(* the StratumClient it owns: connecting, submitting shares from a worker,   *)
(* the once-a-second tick() with its failover, and the shutdown order.       *)
(***************************************************************************)
EXTENDS StratumClient

CONSTANTS PoolLists,    \* the lists of pools to try, each a sequence of kinds
          MaxShares     \* bound: shares the worker finds

ASSUME BoundsAssumption == MaxShares \in Nat

VARIABLES
  pools_, current_idx_, \* the configured pools; the one in use
  stratum_,             \* stratum_ holds a client
  failover_cooldown_, sync_retry_count_,
  retries,              \* tick()'s local copy of reconnect_attempts()
  keep_running,         \* cleared by the signal handler
  crashed               \* a std::thread was destroyed joinable: std::terminate

poolVars == <<pools_, current_idx_, stratum_, failover_cooldown_, sync_retry_count_, retries, keep_running, crashed>>
vars == <<clientVars, poolVars>>
clientOnly == <<joinable_, flags, loopVars, hsVars, netVars, faults>>

Init ==
  /\ Fresh
  /\ pc = [t \in Threads |-> CASE t = "M" -> <<"start">>
                               [] t = "W" -> [i \in 1 .. MaxShares |-> "share"]
                               [] OTHER -> <<>>]
  /\ pools_ \in PoolLists /\ host_ = "dead" /\ down = {}
  /\ stratum_mutex_ = "none" /\ current_idx_ = 0 /\ faults = 0 /\ raced = FALSE
  /\ stratum_ = FALSE /\ failover_cooldown_ = 0 /\ sync_retry_count_ = 0
  /\ retries = 0 /\ keep_running = TRUE /\ crashed = FALSE

(* PoolManager::connect() resets the failover state and connects.           *)
PmConnect ==
  /\ At("M", "start") /\ stratum_mutex_ = "none"
  /\ current_idx_' = 0 /\ failover_cooldown_' = 0 /\ sync_retry_count_' = 0
  /\ pc' = To("M", "replace")
  /\ UNCHANGED <<clientOnly, ownVars, pools_, stratum_, retries, keep_running, crashed>>

(* ~StratumClient() has run disconnect(); a handle that still holds a thread
   ends the process, otherwise the object is gone.                          *)
Destroy(next) ==
  /\ crashed' = (crashed \/ joinable_ # {})
  /\ pc' = To("M", IF joinable_ # {} THEN "crashed" ELSE next)

(* connect_to_current(): the old client leaves stratum_ under the lock and
   is destroyed without it.                                                 *)
TakeOld ==
  /\ At("M", "replace") /\ stratum_mutex_ = "none"
  /\ stratum_' = FALSE
  /\ pc' = IF stratum_ THEN Call("M", "disconnect", "destroy") ELSE To("M", "create")
  /\ UNCHANGED <<clientOnly, ownVars, pools_, current_idx_, failover_cooldown_, sync_retry_count_, retries,
                 keep_running, crashed>>

DestroyOld ==
  /\ At("M", "destroy") /\ Destroy("create")
  /\ UNCHANGED <<clientOnly, ownVars, pools_, current_idx_, stratum_, failover_cooldown_, sync_retry_count_,
                 retries, keep_running>>

(* A new client is installed under the lock and connected without it.       *)
CreateClient ==
  /\ At("M", "create") /\ stratum_mutex_ = "none"
  /\ stratum_' = TRUE /\ host_' = pools_[current_idx_ + 1]
  /\ joinable_' = {} /\ protocol_' = "AUTO"
  /\ connected_' = FALSE /\ reconnect_enabled_' = TRUE /\ handshake_in_progress_' = FALSE
  /\ reconnect_loop_active_' = FALSE /\ reconnect_attempts_' = 0
  /\ subscribe_done_' = FALSE /\ subscribe_ok_' = FALSE
  /\ sockfd_' = FALSE /\ link' = FALSE /\ wire' = <<>> /\ read_buf_' = <<>>
  /\ pc' = Call("M", "connect", "connected")
  /\ UNCHANGED <<stratum_mutex_, pools_, current_idx_, faults, down, failover_cooldown_, sync_retry_count_, retries,
                 keep_running, crashed>>

(* A failed connect() is logged under the pool's name, which takes the lock. *)
ConnectedOrLogged ==
  /\ \/ At("M", "connected")
     \/ At("M", "failed") /\ stratum_mutex_ = "none"
  /\ pc' = To("M", "main")
  /\ UNCHANGED <<clientOnly, ownVars, poolVars>>

connect_to_current == TakeOld \/ DestroyOld \/ CreateClient \/ ConnectedOrLogged

(* tick(): lock, then read is_connected(), reconnect_attempts() and
   reconnect_loop_active() one after the other.                             *)
TickLooks ==
  /\ At("M", "main") /\ keep_running /\ stratum_mutex_ = "none"
  /\ stratum_            \* without a client tick() returns at once
  /\ stratum_mutex_' = "M"
  /\ pc' = To("M", IF ~connected_ /\ failover_cooldown_ = 0 THEN "retries" ELSE "cooldown")
  /\ sync_retry_count_' = IF connected_ THEN 0 ELSE sync_retry_count_
  /\ UNCHANGED <<clientOnly, host_, pools_, current_idx_, stratum_, failover_cooldown_, retries,
                 keep_running, crashed>>

TickReadsRetries ==
  /\ At("M", "retries")
  /\ retries' = reconnect_attempts_
  /\ pc' = To("M", "decide")
  /\ UNCHANGED <<clientOnly, ownVars, pools_, current_idx_, stratum_, failover_cooldown_, sync_retry_count_,
                 keep_running, crashed>>

NextPool == (current_idx_ + 1) % Len(pools_)

(* Mutant: only the reconnect loop's own count drives the failover.         *)
TickDecides_asyncOnly ==
  /\ At("M", "decide")
  /\ sync_retry_count_' = 0
  /\ IF retries >= MaxRetries
       THEN current_idx_' = NextPool /\ failover_cooldown_' = 2
       ELSE UNCHANGED <<current_idx_, failover_cooldown_>>
  /\ pc' = To("M", "cooldown") /\ retries' = 0
  /\ UNCHANGED <<clientOnly, ownVars, pools_, stratum_, keep_running, crashed>>

(* Failover after MaxRetries attempts: the reconnect loop's when it is (or
   was) at work, else the ones counted here.                                *)
TickDecides ==
  /\ At("M", "decide")
  /\ IF retries > 0 \/ reconnect_loop_active_
       THEN /\ sync_retry_count_' = 0
            /\ IF retries >= MaxRetries
                 THEN current_idx_' = NextPool /\ failover_cooldown_' = 2
                 ELSE UNCHANGED <<current_idx_, failover_cooldown_>>
       ELSE /\ failover_cooldown_' = 2
            /\ IF sync_retry_count_ + 1 >= MaxRetries
                 THEN current_idx_' = NextPool /\ sync_retry_count_' = 0
                 ELSE UNCHANGED current_idx_ /\ sync_retry_count_' = sync_retry_count_ + 1
  /\ pc' = To("M", "cooldown") /\ retries' = 0
  /\ UNCHANGED <<clientOnly, ownVars, pools_, stratum_, keep_running, crashed>>

(* The cooldown counts down in the same tick; at zero the client is replaced,
   after the lock is released.                                              *)
TickCoolsDown ==
  /\ At("M", "cooldown")
  /\ stratum_mutex_' = "none"
  /\ failover_cooldown_' = IF failover_cooldown_ > 0 THEN failover_cooldown_ - 1 ELSE 0
  /\ pc' = To("M", IF failover_cooldown_ = 1 THEN "replace" ELSE "main")
  /\ UNCHANGED <<clientOnly, host_, pools_, current_idx_, stratum_, sync_retry_count_, retries,
                 keep_running, crashed>>

tick == TickLooks \/ TickReadsRetries \/ TickDecides \/ TickCoolsDown

(* The signal handler; the main loop leaves at its next test, and stops the
   workers before the pool.                                                 *)
signal_handler ==
  /\ keep_running /\ keep_running' = FALSE
  /\ UNCHANGED <<clientVars, pools_, current_idx_, stratum_, failover_cooldown_, sync_retry_count_, retries, crashed>>

EngineStop ==
  /\ At("M", "main") /\ ~keep_running
  /\ pc' = To("M", "stop")
  /\ UNCHANGED <<clientOnly, ownVars, poolVars>>

(* Mutant: the client is disconnected with stratum_mutex_ held.             *)
PmDisconnect_locked ==
  /\ At("M", "stop") /\ Ended("W") /\ stratum_mutex_ = "none"
  /\ stratum_mutex_' = IF stratum_ THEN "M" ELSE "none"
  /\ pc' = IF stratum_ THEN Call("M", "disconnect", "unlock") ELSE To("M", "reset")
  /\ UNCHANGED <<clientOnly, host_, poolVars>>

(* PoolManager::disconnect(): disconnect() without the lock, then reset()
   under it, which runs disconnect() once more from the destructor.         *)
PmDisconnect ==
  /\ At("M", "stop") /\ Ended("W") /\ stratum_mutex_ = "none"
  /\ pc' = IF stratum_ THEN Call("M", "disconnect", "reset") ELSE To("M", "reset")
  /\ UNCHANGED <<clientOnly, ownVars, poolVars>>

PmReset ==
  \/ /\ At("M", "reset") /\ stratum_mutex_ = "none"
     /\ stratum_mutex_' = "M"
     /\ pc' = IF stratum_ THEN Call("M", "disconnect", "unlock") ELSE To("M", "unlock")
     /\ UNCHANGED <<clientOnly, host_, poolVars>>
  \/ /\ At("M", "unlock")
     /\ Destroy("exited")
     /\ stratum_' = FALSE /\ stratum_mutex_' = "none"
     /\ UNCHANGED <<clientOnly, host_, pools_, current_idx_, failover_cooldown_, sync_retry_count_, retries,
                    keep_running>>

(* A worker's share: the lock is held across the send, whose time is bounded
   by SO_SNDTIMEO.  The worker ends with its last share, or when the engine
   is stopped.                                                              *)
submit_share ==
  /\ \/ /\ At("W", "share") /\ stratum_mutex_ = "none" /\ ~At("M", "stop")
        /\ stratum_mutex_' = "W" /\ pc' = To("W", "send")
     \/ /\ At("W", "send")
        /\ stratum_mutex_' = "none" /\ pc' = Ret("W")
     \/ /\ At("W", "share") /\ At("M", "stop")
        /\ pc' = [pc EXCEPT !["W"] = <<>>] /\ UNCHANGED stratum_mutex_
  /\ UNCHANGED <<clientOnly, host_, poolVars>>

Main == connect_to_current \/ tick \/ EngineStop \/ PmDisconnect \/ PmReset \/ PmConnect
Connects(t) == connect(t) \/ close_connection(t)
Running == ~crashed

MainStep == 
  Running /\ (Main \/ ((Connects("M") \/ disconnect("M")) /\ UNCHANGED poolVars)) /\ Watch
ReaderStep == Running /\ reader_thread_fn /\ UNCHANGED poolVars /\ Watch
KeepaliveStep == Running /\ keepalive_loop /\ UNCHANGED poolVars /\ Watch
ReconnectStep ==
  Running /\ (reconnect_loop \/ Connects("C")) /\ UNCHANGED poolVars /\ Watch
WorkerStep == Running /\ submit_share /\ Watch
ServerStep == Running /\ Server /\ UNCHANGED poolVars /\ Watch

Next ==
  \/ MainStep \/ ReaderStep \/ KeepaliveStep \/ ReconnectStep \/ WorkerStep
  \/ ServerStep \/ (Running /\ signal_handler)

Spec == Init /\ [][Next]_vars

(* Each thread is scheduled; the network, the signal and a worker's finding
   a share are not owed.  The reader and the reconnect thread compete for
   stratum_mutex_ with a tick() that holds it for an instant once a second,
   so a lock that is free again and again is eventually theirs.             *)
FairSpec ==
  /\ Spec
  /\ WF_vars(MainStep) /\ WF_vars(KeepaliveStep) /\ WF_vars(WorkerStep)
  /\ SF_vars(ReaderStep) /\ SF_vars(ReconnectStep)

-----------------------------------------------------------------------------
(* Handles, calls in progress, retry counts, the pool index and the cooldown
   stay in range: in particular current_idx_ names a pool, and neither count
   passes the limit at which tick() and reconnect_loop() give up.           *)
TypeOK ==
  /\ joinable_ \subseteq {"R", "K", "C"}
  /\ \A t \in Threads : Len(pc[t]) <= 4
  /\ reconnect_attempts_ \in 0 .. MaxRetries + 1
  /\ protocol_ \in {"AUTO", "CN", "V1"}
  /\ current_idx_ \in 0 .. Len(pools_) - 1
  /\ failover_cooldown_ \in 0 .. 2 /\ sync_retry_count_ \in 0 .. MaxRetries - 1
  /\ stratum_mutex_ \in {"none", "M", "W"}
  /\ Len(wire) <= 2 + MaxFaults /\ Len(read_buf_) <= 2 + MaxFaults

Exited == At("M", "exited")

(* A client is destroyed only when every thread it started has been joined,
   so ~std::thread never ends the process - except when the reconnect thread
   was inside connect() during disconnect().                                *)
DestroyedClean == crashed => raced

(* The reader is not inside recv() on the descriptor when close_connection()
   closes it, unless disconnect() met a connect() in progress.              *)
FdOutlivesUsers ==
  ~raced => ~(pc["R"] # <<>> /\ Head(pc["R"]) = "recv" /\ ~sockfd_)

(* disconnect() never waits for the reader while holding the very mutex the
   reader's error callback needs: PoolManager::disconnect() takes the client
   out of the lock for that reason, but the destructor that reset() runs under
   the lock joins again, and finds a reader that a connect() in progress on
   the reconnect thread has started meanwhile.                              *)
NoSelfDeadlock ==
  ~(stratum_mutex_ = "M" /\ At("M", "close_R") /\ At("R", "callback"))

(* Ctrl+C ends the program: the run loop, engine.stop() and disconnect() come
   to an end from every state of the client's threads, unless disconnect()
   met a connect() in progress.                                             *)
ShutdownCompletes == ~keep_running ~> (Exited \/ raced)

(* The miner comes to rest on a working pool, whatever the faults before:
   tick()'s failover and reconnect_loop() together leave no state in which
   each relies on the other.                                                *)
Recovers == <>[](connected_ \/ ~keep_running \/ raced)
=============================================================================
