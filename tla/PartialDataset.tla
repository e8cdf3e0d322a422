--------------------------- MODULE PartialDataset ---------------------------
(* The light-mode dataset prefix (src/partial_dataset.cpp): start_fill()     *)
(* rotates the buffer to a new seed and spawns fill threads, fill_worker()   *)
(* threads publish a growing contiguous prefix without locks, hashing        *)
(* threads read it under a ReadGuard, wait_for_fill() callers wait and join, *)
(* and cancel() shuts everything down.                                       *)
(*                                                                           *)
(* A dataset item is abstracted to the generation whose cache it was derived *)
(* from, so "right bytes" is "the current generation's bytes".  The          *)
(* condition variable is only a hint (every wait polls every 20 ms), so      *)
(* notifications are left out.  RotationLock is modelled by its interface:   *)
(* module RotationLock checks the lock itself.                               *)
EXTENDS Integers, FiniteSets, Sequences

CONSTANTS
  AllocatedItems,   \* allocated_items_
  FillChunkItems,   \* kFillChunkItems
  AvailCores,       \* avail_cores.size() after start_fill's fallback
  Readers,          \* threads that hash under a ReadGuard
  Waiters,          \* threads that call wait_for_fill()
  MaxRotations,     \* bound: calls of start_fill()
  MayCancel,        \* whether cancel() is called
  MayThrow,         \* whether initialize_dataset() may throw
  Starter           \* the thread in start_fill(), as owner of fill_join_mutex_

ASSUME SizeAssumption ==
  /\ AllocatedItems \in Nat \ {0}
  /\ FillChunkItems \in Nat \ {0}
  /\ AvailCores \in Nat \ {0}
  /\ MaxRotations \in Nat
  /\ MayCancel \in BOOLEAN /\ MayThrow \in BOOLEAN
  /\ Starter \notin Waiters

Items == 0 .. AllocatedItems - 1
Generations == 0 .. MaxRotations

CeilDiv(a, b) == (a + b - 1) \div b
MinOf(a, b) == IF a <= b THEN a ELSE b

\* How start_fill() cuts the items into one chunk per fill thread.
NumWorkers == MinOf(CeilDiv(AllocatedItems, FillChunkItems), AvailCores)
ItemsPerWorker == CeilDiv(AllocatedItems, NumWorkers)
Chunks == 0 .. NumWorkers - 1
ChunkStart(c) == c * ItemsPerWorker
ChunkEnd(c) == MinOf(ChunkStart(c) + ItemsPerWorker, AllocatedItems)

\* No chunk is empty.  It follows from AvailCores <= kFillChunkItems + 1 = 2^20 + 1
\* (theorem ChunksNonEmpty of PartialDataset_proofs).
ASSUME ChunkAssumption == ChunkStart(NumWorkers - 1) < AllocatedItems

\* Mutant: the short last chunk counted as a full one.
ChunkSpan_uniform(c) == ItemsPerWorker

\* The span the publishing loop adds for a finished chunk.
ChunkSpan(c) == IF c + 1 < NumWorkers THEN ItemsPerWorker
                ELSE AllocatedItems - c * ItemsPerWorker

VARIABLES
  data,                 \* data_: generation each item was derived for, 0 if never
  item_count_, contiguous_done_, chunk_done_,
  fill_complete_, fill_failed_, generation_, shutdown_requested_,
  stop_,                \* the stop tokens, one per start_fill()
  token,                \* which token the member stop_ points to
  fill_threads_,        \* chunks whose std::thread handle is in fill_threads_
  join_mutex,           \* owner of fill_join_mutex_
  wpc, wgen, pos, cursor, prev,   \* fill_worker(): label and locals
  spc, spawned,         \* start_fill(): label and loop variable
  rpc, bound,           \* hashing threads: label and snapshot of item_count_
  qpc,                  \* wait_for_fill() callers
  cpc, ctok             \* cancel(): label and the token it read

published == <<data, item_count_, contiguous_done_, chunk_done_>>
flags == <<fill_complete_, fill_failed_, generation_, shutdown_requested_, stop_, token>>
joins == <<fill_threads_, join_mutex>>
workers == <<wpc, wgen, pos, cursor, prev>>
starter == <<spc, spawned>>
readers == <<rpc, bound>>
canceller == <<cpc, ctok>>
vars == <<published, flags, joins, workers, starter, readers, qpc, canceller>>

Free == "free"

Init ==
  /\ data = [i \in Items |-> 0]
  /\ item_count_ = 0 /\ contiguous_done_ = 0
  /\ chunk_done_ = [c \in Chunks |-> FALSE]
  /\ fill_complete_ = FALSE /\ fill_failed_ = FALSE
  /\ generation_ = 0 /\ shutdown_requested_ = FALSE
  /\ stop_ = [g \in Generations |-> FALSE] /\ token = 0
  /\ fill_threads_ = {} /\ join_mutex = Free
  /\ wpc = [c \in Chunks |-> "off"] /\ wgen = [c \in Chunks |-> 0]
  /\ pos = [c \in Chunks |-> 0] /\ cursor = [c \in Chunks |-> 0]
  /\ prev = [c \in Chunks |-> 0]
  /\ spc = "idle" /\ spawned = 0
  /\ rpc = [r \in Readers |-> "out"] /\ bound = [r \in Readers |-> 0]
  /\ qpc = [x \in Waiters |-> "idle"]
  /\ cpc = "idle" /\ ctok = 0

-----------------------------------------------------------------------------
(* fill_worker() *)

Cancelled(g) == stop_[g] \/ shutdown_requested_

\* The checks at the start and before every sub-chunk of kFillChunkItems items.
AtCheckpoint(c) == (pos[c] - ChunkStart(c)) % FillChunkItems = 0

\* A cancelled worker returns without marking its chunk.
fill_cancelled(c) ==
  /\ wpc[c] = "fill" /\ pos[c] < ChunkEnd(c)
  /\ AtCheckpoint(c) /\ Cancelled(wgen[c])
  /\ wpc' = [wpc EXCEPT ![c] = "done"]
  /\ UNCHANGED <<published, flags, joins, wgen, pos, cursor, prev, starter,
                 readers, qpc, canceller>>

\* initialize_dataset() derives the next item from the worker's cache.
fill_item(c) ==
  /\ wpc[c] = "fill" /\ pos[c] < ChunkEnd(c)
  /\ AtCheckpoint(c) => ~Cancelled(wgen[c])
  /\ data' = [data EXCEPT ![pos[c]] = wgen[c]]
  /\ pos' = [pos EXCEPT ![c] = @ + 1]
  /\ UNCHANGED <<item_count_, contiguous_done_, chunk_done_, flags, joins, wpc,
                 wgen, cursor, prev, starter, readers, qpc, canceller>>

\* initialize_dataset() throws on entry: the fill is aborted like a cancellation.
fill_throws(c) ==
  /\ MayThrow
  /\ wpc[c] = "fill" /\ pos[c] < ChunkEnd(c)
  /\ AtCheckpoint(c) /\ ~Cancelled(wgen[c])
  /\ fill_failed_' = TRUE
  /\ stop_' = [stop_ EXCEPT ![wgen[c]] = TRUE]
  /\ wpc' = [wpc EXCEPT ![c] = "done"]
  /\ UNCHANGED <<published, fill_complete_, generation_, shutdown_requested_,
                 token, joins, wgen, pos, cursor, prev, starter, readers, qpc,
                 canceller>>

mark_done(c) ==
  /\ wpc[c] = "fill" /\ pos[c] >= ChunkEnd(c)
  /\ chunk_done_' = [chunk_done_ EXCEPT ![c] = TRUE]
  /\ wpc' = [wpc EXCEPT ![c] = "load"]
  /\ UNCHANGED <<data, item_count_, contiguous_done_, flags, joins, wgen, pos,
                 cursor, prev, starter, readers, qpc, canceller>>

load_cursor(c) ==
  /\ wpc[c] = "load"
  /\ cursor' = [cursor EXCEPT ![c] = contiguous_done_]
  /\ wpc' = [wpc EXCEPT ![c] = "scan"]
  /\ UNCHANGED <<published, flags, joins, wgen, pos, prev, starter, readers, qpc,
                 canceller>>

\* The chunk that owns item n, and the condition of the inner while loop.
Owning(n) == n \div ItemsPerWorker
\* Mutant: publishing over chunks without looking at their flags.
CanSwallow_unchecked(n) == n < AllocatedItems

CanSwallow(n) == n < AllocatedItems /\ Owning(n) < NumWorkers /\ chunk_done_[Owning(n)]

\* One turn of the inner while loop: swallow the chunk at the cursor or leave.
scan_chunk(c) ==
  /\ wpc[c] = "scan"
  /\ \/ /\ CanSwallow(cursor[c])
        /\ cursor' = [cursor EXCEPT ![c] = @ + ChunkSpan(Owning(@))]
        /\ UNCHANGED wpc
     \/ /\ ~CanSwallow(cursor[c])
        /\ wpc' = [wpc EXCEPT ![c] = "exchange"]
        /\ UNCHANGED cursor
  /\ UNCHANGED <<published, flags, joins, wgen, pos, prev, starter, readers, qpc,
                 canceller>>

exchange_bound(c) ==
  /\ wpc[c] = "exchange"
  /\ prev' = [prev EXCEPT ![c] = contiguous_done_]
  /\ contiguous_done_' = cursor[c]
  /\ wpc' = [wpc EXCEPT ![c] = "raise"]
  /\ UNCHANGED <<data, item_count_, chunk_done_, flags, joins, wgen, pos, cursor,
                 starter, readers, qpc, canceller>>

\* Mutants: a plain store instead of the maximum; no second look after publishing.
raise_item_count_store(c) ==
  /\ wpc[c] = "raise"
  /\ item_count_' = cursor[c]
  /\ wpc' = [wpc EXCEPT ![c] = IF cursor[c] = prev[c] THEN "final" ELSE "load"]
  /\ UNCHANGED <<data, contiguous_done_, chunk_done_, flags, joins, wgen, pos,
                 cursor, prev, starter, readers, qpc, canceller>>
raise_item_count_once(c) ==
  /\ wpc[c] = "raise"
  /\ item_count_' = IF item_count_ < cursor[c] THEN cursor[c] ELSE item_count_
  /\ wpc' = [wpc EXCEPT ![c] = "final"]
  /\ UNCHANGED <<data, contiguous_done_, chunk_done_, flags, joins, wgen, pos,
                 cursor, prev, starter, readers, qpc, canceller>>

\* The compare-exchange loop is an atomic maximum; then leave the publishing loop
\* if the exchange changed nothing.
raise_item_count(c) ==
  /\ wpc[c] = "raise"
  /\ item_count_' = IF item_count_ < cursor[c] THEN cursor[c] ELSE item_count_
  /\ wpc' = [wpc EXCEPT ![c] = IF cursor[c] = prev[c] THEN "final" ELSE "load"]
  /\ UNCHANGED <<data, contiguous_done_, chunk_done_, flags, joins, wgen, pos,
                 cursor, prev, starter, readers, qpc, canceller>>

\* The final test reads the cancellation flags first, the cursor after them.
check_cancelled(c) ==
  /\ wpc[c] = "final"
  /\ wpc' = [wpc EXCEPT ![c] = IF Cancelled(wgen[c]) THEN "done" ELSE "bound"]
  /\ UNCHANGED <<published, flags, joins, wgen, pos, cursor, prev, starter,
                 readers, qpc, canceller>>

\* Mutant: the first worker to finish declares the fill complete.
check_complete_any(c) ==
  /\ wpc[c] = "bound"
  /\ wpc' = [wpc EXCEPT ![c] = "complete"]
  /\ UNCHANGED <<published, flags, joins, wgen, pos, cursor, prev, starter,
                 readers, qpc, canceller>>

check_complete(c) ==
  /\ wpc[c] = "bound"
  /\ wpc' = [wpc EXCEPT ![c] =
               IF contiguous_done_ >= AllocatedItems THEN "complete" ELSE "done"]
  /\ UNCHANGED <<published, flags, joins, wgen, pos, cursor, prev, starter,
                 readers, qpc, canceller>>

set_complete(c) ==
  /\ wpc[c] = "complete"
  /\ fill_complete_' = TRUE
  /\ wpc' = [wpc EXCEPT ![c] = "done"]
  /\ UNCHANGED <<published, fill_failed_, generation_, shutdown_requested_, stop_,
                 token, joins, wgen, pos, cursor, prev, starter, readers, qpc,
                 canceller>>

FillStep(c) ==
  \/ fill_cancelled(c) \/ fill_item(c) \/ mark_done(c) \/ load_cursor(c)
  \/ scan_chunk(c) \/ exchange_bound(c) \/ raise_item_count(c)
  \/ check_cancelled(c) \/ check_complete(c) \/ set_complete(c)

-----------------------------------------------------------------------------
(* start_fill() *)

\* Joining waits for every thread in fill_threads_, then drops the handles (and
\* with them the locals of the threads).
AllJoinable == \A c \in fill_threads_ : wpc[c] = "done"
Joined(f, end) == [c \in Chunks |-> IF c \in fill_threads_ THEN end ELSE f[c]]
DropHandles ==
  /\ fill_threads_' = {} /\ join_mutex' = Free
  /\ wpc' = Joined(wpc, "off") /\ wgen' = Joined(wgen, 0) /\ pos' = Joined(pos, 0)
  /\ cursor' = Joined(cursor, 0) /\ prev' = Joined(prev, 0)

\* Refused after a shutdown; otherwise on to joining the previous fill.
start_fill(n) ==
  /\ spc = "idle" /\ ~shutdown_requested_
  /\ generation_ < n
  /\ spc' = "join"
  /\ UNCHANGED <<published, flags, joins, workers, spawned, readers, qpc, canceller>>

start_fill_lock_join ==
  /\ spc = "join" /\ join_mutex = Free
  /\ join_mutex' = Starter
  /\ spc' = "joining"
  /\ UNCHANGED <<published, flags, fill_threads_, workers, spawned, readers, qpc,
                 canceller>>

\* Mutant: the handles are dropped (detached) without joining.
start_fill_detached ==
  /\ spc = "joining"
  /\ fill_threads_' = {} /\ join_mutex' = Free
  /\ spc' = "lock"
  /\ UNCHANGED <<published, flags, workers, spawned, readers, qpc, canceller>>

start_fill_joined ==
  /\ spc = "joining" /\ AllJoinable
  /\ DropHandles
  /\ spc' = "lock"
  /\ UNCHANGED <<published, flags, spawned, readers, qpc, canceller>>

\* RotationLock::lock(): from here on no new reader is admitted.
start_fill_wait_readers ==
  /\ spc = "lock"
  /\ spc' = "quiesce"
  /\ UNCHANGED <<published, flags, joins, workers, spawned, readers, qpc, canceller>>

\* Mutants: no reader-quiescence barrier; the publishing cursor survives the rotation.
start_fill_reset_unguarded ==
  /\ spc = "quiesce"
  /\ item_count_' = 0 /\ contiguous_done_' = 0
  /\ fill_complete_' = FALSE /\ fill_failed_' = FALSE
  /\ spc' = "bump"
  /\ UNCHANGED <<data, chunk_done_, generation_, shutdown_requested_, stop_, token,
                 joins, workers, spawned, readers, qpc, canceller>>
start_fill_reset_keeps_cursor ==
  /\ spc = "quiesce" /\ \A r \in Readers : rpc[r] = "out"
  /\ item_count_' = 0 /\ UNCHANGED contiguous_done_
  /\ fill_complete_' = FALSE /\ fill_failed_' = FALSE
  /\ spc' = "bump"
  /\ UNCHANGED <<data, chunk_done_, generation_, shutdown_requested_, stop_, token,
                 joins, workers, spawned, readers, qpc, canceller>>

\* The exclusive section: nothing is published any more ...
start_fill_reset ==
  /\ spc = "quiesce" /\ \A r \in Readers : rpc[r] = "out"
  /\ item_count_' = 0 /\ contiguous_done_' = 0
  /\ fill_complete_' = FALSE /\ fill_failed_' = FALSE
  /\ spc' = "bump"
  /\ UNCHANGED <<data, chunk_done_, generation_, shutdown_requested_, stop_, token,
                 joins, workers, spawned, readers, qpc, canceller>>

\* ... the new generation ...
start_fill_generation ==
  /\ spc = "bump"
  /\ generation_' = generation_ + 1
  /\ spc' = "token"
  /\ UNCHANGED <<published, fill_complete_, fill_failed_, shutdown_requested_, stop_,
                 token, joins, workers, spawned, readers, qpc, canceller>>

\* ... and a fresh stop token.
start_fill_token ==
  /\ spc = "token"
  /\ token' = generation_
  /\ spc' = "setup"
  /\ UNCHANGED <<published, fill_complete_, fill_failed_, generation_,
                 shutdown_requested_, stop_, joins, workers, spawned, readers,
                 qpc, canceller>>

\* Chunk flags for the new fill, then fill_join_mutex_ for the spawning loop.
start_fill_setup ==
  /\ spc = "setup" /\ join_mutex = Free
  /\ chunk_done_' = [c \in Chunks |-> FALSE]
  /\ join_mutex' = Starter
  /\ spawned' = 0
  /\ spc' = "spawn"
  /\ UNCHANGED <<data, item_count_, contiguous_done_, flags, fill_threads_, workers,
                 readers, qpc, canceller>>

\* One turn of the spawning loop; it stops at the first empty range.
start_fill_spawn ==
  /\ spc = "spawn" /\ spawned < NumWorkers
  /\ ChunkStart(spawned) < ChunkEnd(spawned)
  /\ fill_threads_' = fill_threads_ \cup {spawned}
  /\ wpc' = [wpc EXCEPT ![spawned] = "fill"]
  /\ wgen' = [wgen EXCEPT ![spawned] = token]
  /\ pos' = [pos EXCEPT ![spawned] = ChunkStart(spawned)]
  /\ cursor' = [cursor EXCEPT ![spawned] = 0]
  /\ prev' = [prev EXCEPT ![spawned] = 0]
  /\ spawned' = spawned + 1
  /\ UNCHANGED <<published, flags, join_mutex, spc, readers, qpc, canceller>>

start_fill_return ==
  /\ spc = "spawn"
  /\ spawned >= NumWorkers \/ ChunkStart(spawned) >= ChunkEnd(spawned)
  /\ join_mutex' = Free
  /\ spc' = "idle"
  /\ spawned' = 0
  /\ UNCHANGED <<published, flags, fill_threads_, workers, readers, qpc, canceller>>

StartFillStep ==
  \/ start_fill_lock_join \/ start_fill_joined \/ start_fill_wait_readers
  \/ start_fill_reset \/ start_fill_generation \/ start_fill_token \/ start_fill_setup
  \/ start_fill_spawn \/ start_fill_return

-----------------------------------------------------------------------------
(* ReadGuard holders, wait_for_fill(), cancel() *)

ReaderAdmitted == spc \notin {"quiesce", "bump", "token"}

read_guard(r) ==
  /\ rpc[r] = "out" /\ ReaderAdmitted
  /\ rpc' = [rpc EXCEPT ![r] = "in"]
  /\ UNCHANGED <<published, flags, joins, workers, starter, bound, qpc, canceller>>

\* A run of the VM snapshots item_count_ and reads items below it until the next.
snapshot_bound(r) ==
  /\ rpc[r] = "in"
  /\ bound' = [bound EXCEPT ![r] = item_count_]
  /\ UNCHANGED <<published, flags, joins, workers, starter, rpc, qpc, canceller>>

release_guard(r) ==
  /\ rpc[r] = "in"
  /\ rpc' = [rpc EXCEPT ![r] = "out"]
  /\ bound' = [bound EXCEPT ![r] = 0]
  /\ UNCHANGED <<published, flags, joins, workers, starter, qpc, canceller>>

\* Mutant: the join mutex is taken before the wait, and held through it.
wait_for_fill_holding(x) ==
  /\ qpc[x] = "idle" /\ join_mutex = Free
  /\ join_mutex' = x
  /\ qpc' = [qpc EXCEPT ![x] = "poll"]
  /\ UNCHANGED <<published, flags, fill_threads_, workers, starter, readers, canceller>>

wait_for_fill(x) ==
  /\ qpc[x] = "idle"
  /\ qpc' = [qpc EXCEPT ![x] = "poll"]
  /\ UNCHANGED <<published, flags, joins, workers, starter, readers, canceller>>

\* Mutant: waiters look only at the current token.
wait_poll_token_only(x) ==
  /\ qpc[x] = "poll"
  /\ fill_complete_ \/ stop_[token]
  /\ qpc' = [qpc EXCEPT ![x] = "join"]
  /\ UNCHANGED <<published, flags, joins, workers, starter, readers, canceller>>

wait_poll(x) ==
  /\ qpc[x] = "poll"
  /\ fill_complete_ \/ stop_[token] \/ shutdown_requested_
  /\ qpc' = [qpc EXCEPT ![x] = "join"]
  /\ UNCHANGED <<published, flags, joins, workers, starter, readers, canceller>>

wait_lock_join(x) ==
  /\ qpc[x] = "join" /\ join_mutex = Free
  /\ join_mutex' = x
  /\ qpc' = [qpc EXCEPT ![x] = "joining"]
  /\ UNCHANGED <<published, flags, fill_threads_, workers, starter, readers, canceller>>

\* Mutant: wait_for_fill() returns without joining.
wait_return_unjoined(x) ==
  /\ qpc[x] = "joining"
  /\ join_mutex' = Free
  /\ qpc' = [qpc EXCEPT ![x] = "idle"]
  /\ UNCHANGED <<published, flags, fill_threads_, workers, starter, readers, canceller>>

wait_return(x) ==
  /\ qpc[x] = "joining" /\ AllJoinable
  /\ DropHandles
  /\ qpc' = [qpc EXCEPT ![x] = "idle"]
  /\ UNCHANGED <<published, flags, starter, readers, canceller>>

WaitStep(x) == wait_poll(x) \/ wait_lock_join(x) \/ wait_return(x)

cancel ==
  /\ MayCancel /\ cpc = "idle"
  /\ shutdown_requested_' = TRUE
  /\ cpc' = "read"
  /\ UNCHANGED <<published, fill_complete_, fill_failed_, generation_, stop_, token,
                 joins, workers, starter, readers, qpc, ctok>>

cancel_read_token ==
  /\ cpc = "read"
  /\ ctok' = token
  /\ cpc' = "signal"
  /\ UNCHANGED <<published, flags, joins, workers, starter, readers, qpc>>

\* The token read may have been replaced by a racing start_fill() meanwhile.
cancel_signal ==
  /\ cpc = "signal"
  /\ stop_' = [stop_ EXCEPT ![ctok] = TRUE]
  /\ cpc' = "done"
  /\ UNCHANGED <<published, fill_complete_, fill_failed_, generation_,
                 shutdown_requested_, token, joins, workers, starter, readers,
                 qpc, ctok>>

CancelStep == cancel_read_token \/ cancel_signal

Next ==
  \/ \E c \in Chunks : FillStep(c) \/ fill_throws(c)
  \/ start_fill(MaxRotations) \/ StartFillStep
  \/ \E r \in Readers : read_guard(r) \/ snapshot_bound(r) \/ release_guard(r)
  \/ \E x \in Waiters : wait_for_fill(x) \/ WaitStep(x)
  \/ cancel \/ CancelStep

\* Every thread that is inside an operation keeps running; a thread that waits for
\* fill_join_mutex_ gets it if it is freed again and again; nobody has to call an
\* operation, and initialize_dataset() never has to throw.
Fairness ==
  /\ \A c \in Chunks : WF_vars(FillStep(c))
  /\ WF_vars(StartFillStep)
  /\ SF_vars(start_fill_lock_join) /\ SF_vars(start_fill_setup)
  /\ \A r \in Readers : WF_vars(release_guard(r))
  /\ \A x \in Waiters : WF_vars(wait_poll(x)) /\ SF_vars(wait_lock_join(x))
                        /\ WF_vars(wait_return(x))
  /\ WF_vars(CancelStep)

Spec == Init /\ [][Next]_vars
FairSpec == Spec /\ Fairness

-----------------------------------------------------------------------------
(* Properties *)

Alive(c) == wpc[c] \notin {"off", "done"}

\* Every variable is in its range.
TypeOK ==
  /\ data \in [Items -> Generations]
  /\ item_count_ \in 0 .. AllocatedItems /\ contiguous_done_ \in 0 .. AllocatedItems
  /\ chunk_done_ \in [Chunks -> BOOLEAN]
  /\ fill_complete_ \in BOOLEAN /\ fill_failed_ \in BOOLEAN
  /\ shutdown_requested_ \in BOOLEAN
  /\ generation_ \in Generations /\ token \in Generations /\ ctok \in Generations
  /\ stop_ \in [Generations -> BOOLEAN]
  /\ fill_threads_ \in SUBSET Chunks
  /\ join_mutex \in {Free, Starter} \cup Waiters
  /\ wpc \in [Chunks -> {"off", "fill", "load", "scan", "exchange", "raise", "final",
                         "bound", "complete", "done"}]
  /\ wgen \in [Chunks -> Generations]
  /\ pos \in [Chunks -> 0 .. AllocatedItems]
  /\ cursor \in [Chunks -> 0 .. AllocatedItems] /\ prev \in [Chunks -> 0 .. AllocatedItems]
  /\ spc \in {"idle", "join", "joining", "lock", "quiesce", "bump", "token", "setup",
              "spawn"}
  /\ spawned \in 0 .. NumWorkers
  /\ rpc \in [Readers -> {"out", "in"}] /\ bound \in [Readers -> 0 .. AllocatedItems]
  /\ qpc \in [Waiters -> {"idle", "poll", "join", "joining"}]
  /\ cpc \in {"idle", "read", "signal", "done"}

PrefixIs(n, g) == \A i \in 0 .. n - 1 : data[i] = g

\* Contiguous publication: every item below item_count_ (and below the cursor
\* contiguous_done_) was derived from the current seed's cache, whatever the order
\* in which chunks finish and workers publish.
PublishedPrefixValid ==
  /\ PrefixIs(item_count_, generation_)
  /\ PrefixIs(contiguous_done_, generation_)

\* A hash under a ReadGuard keeps reading items of one seed below the bound it
\* snapshotted: start_fill() neither rotates nor overwrites under it.
GuardedReadStable ==
  \A r \in Readers : rpc[r] = "in" =>
    /\ bound[r] <= item_count_
    /\ PrefixIs(bound[r], generation_)

\* fill_complete() means every item is computed for the current seed.
CompleteMeansComputed == fill_complete_ => PrefixIs(AllocatedItems, generation_)

\* A fill thread never outlives its generation: while one runs it works for the
\* current seed and observes the stop token waiters look at.
NoStrayFillThread ==
  \A c \in Chunks : Alive(c) =>
    c \in fill_threads_ /\ wgen[c] = generation_ /\ wgen[c] = token

\* When wait_for_fill() returns and the fill is marked complete, the whole prefix is
\* published, although fill_complete_ itself may be set before item_count_ is raised.
WaitReturnsFull ==
  [][\A x \in Waiters : qpc[x] = "joining" /\ qpc'[x] = "idle" /\ fill_complete_
       => item_count_ = AllocatedItems]_vars

\* A started fill that is neither cancelled, failed nor rotated away completes, and
\* the published bound reaches the end: no interleaving of publishers strands it.
FillCompletes ==
  (spc = "idle" /\ fill_threads_ # {}) ~>
    \/ fill_complete_ /\ item_count_ = AllocatedItems
    \/ shutdown_requested_ \/ fill_failed_ \/ spc # "idle"

\* start_fill() always returns: fill threads end, readers leave, the mutex is freed.
StartFillReturns == spc # "idle" ~> spc = "idle"

\* cancel() is never lost: after it every waiter comes out and no fill thread is
\* left running, even when a racing start_fill() replaced the token it signalled.
CancelUnblocks ==
  /\ \A x \in Waiters : (shutdown_requested_ /\ qpc[x] # "idle") ~> qpc[x] = "idle"
  /\ shutdown_requested_ ~> [](\A c \in Chunks : ~Alive(c))

\* What the class promises MiningEngine, as an abstract specification: the items
\* below item_count_ are the published prefix, a held ReadGuard is a holder inside.
Store == INSTANCE PrefixStore WITH
  Size <- AllocatedItems, Holders <- Readers,
  gen <- generation_,
  prefix <- [i \in 1 .. item_count_ |-> data[i - 1]],
  inside <- {r \in Readers : rpc[r] = "in"}

\* start_fill(), the fill threads and the ReadGuards implement PrefixStore: no step
\* of any of them changes a published item, shrinks or skips the prefix, or rotates
\* under a guard.
ImplementsPrefixStore == Store!StoreSpec
=============================================================================
