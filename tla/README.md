# A TLA+ model of armrx

armrx is a RandomX miner for AArch64 (C++20, `src/`). This directory holds TLA+
specifications translated from its code, TLC configurations that check them on
small instances, and TLAPS proofs of the most important properties for every
value of the constants. `PROJECT.json` lists components, runs, mutants, the map
from definitions to source lines, findings, hazards and theorems.

Run everything from this directory:

    tlc -workers 2 -config FillRotation.cfg MCPartialDataset
    tlapm PartialDataset_proofs.tla

## The system

| Part | Source | State | Threads | Module |
|---|---|---|---|---|
| RotationLock, ReadGuard | `partial_dataset.hpp` | three counters, two condition variables | workers (shared), set_job (exclusive) | `RotationLock` |
| PartialDataset | `partial_dataset.cpp` | buffer, published bound, chunk flags, stop token, generation | fill threads, set_job, workers, stop | `PartialDataset`, `PrefixStore` |
| MiningEngine, light mode | `mining_engine.cpp` | job, cache, generations | pool reader (set_job), workers, main (stop) | `LightEngine` |
| MiningEngine, fast mode | `mining_engine.cpp` | dataset, countdown, generations | the same, workers rebuild the dataset | `FastRebuild` |
| Worker pipeline | `mining_engine.cpp`, `vm.cpp` | nonces, two scratchpads, rounding mode | worker | `HashPipeline` |
| Pool messages and targets | `stratum_client.cpp`, `mining_common.hpp` | target in force, job | pool reader | `StratumJobs`, with the workers `ShareFlow` |
| Stratum client | `stratum_client.cpp` | socket, read buffer, handshake promises, flags | reader, keepalive, reconnect, owner | `StratumClient` |
| Pool manager | `pool_manager.cpp` | current pool, cooldown, retry count | main loop (tick), workers (submit) | `PoolManager` |
| Application, command line, configuration, memory budget, metrics | `miner_app.cpp`, `cli_parser.cpp`, `config.cpp`, `memory.cpp`, `metrics.hpp` | options, session, stop flag | main, signal handler, metrics thread | `MinerApp` |
| Interpreter | `vm.cpp` | bytecode, registers, scratchpad | worker | `VmBytecode` |
| JIT compiler | `jit_compiler_a64.cpp` | code, literal pools | worker | `JitSchedule`, `JitA64`, compared in `JitEquivalence` |
| Superscalar generator and its JIT | `superscalar.cpp`, `jit_compiler_a64.cpp` | ports, registers, program | set_job | `SuperscalarProgram`, `Superscalar` |
| Argon2 cache, dataset items, two-way JIT | `argon2.cpp`, `dataset.cpp`, `jit_dataset_2way.cpp` | blocks, programs, reciprocals | set_job, fill threads | `CacheFill`, `DatasetBuild` |

How they interact: the pool's reader thread calls `MiningEngine::set_job`, which
holds `job_mutex_` for its whole duration. On a seed change it rebuilds the Argon2
cache and then either rotates the PartialDataset (light mode) or has the workers
rebuild the full dataset (fast mode). Workers loop: wait for the fill or take part
in the rebuild, adopt a new job under `job_mutex_`, hash, report shares. The main
thread ticks the pool manager and finally calls `MiningEngine::stop`, before it
disconnects the pools; so `set_job` may run during and after `stop`.

## Modules

**`RotationLock`** is the lock itself. A thread's label says whether it is outside,
parked on a condition variable, woken, or inside. Waits are split into test and
park under `m_`, which is one atomic step, and re-test after a wake; `unlock` is
three steps because its two notifications come after the mutex is released.
Condition variables may wake a thread for no reason (`SpuriousWake`).

**`PrefixStore`** is what PartialDataset promises: a sequence of items of one
generation that only grows, is cleared only while no ReadGuard is held, and
whose generation is bumped only while it is empty. It is the abstract
specification `PartialDataset` implements and the store `LightEngine` is built on.

**`PartialDataset`** is the class step by step: `start_fill` (guards, join,
exclusive lock, reset, generation, token, chunk flags, thread by thread spawn),
`fill_worker` (one step per item, then each atomic access of the lock-free
publishing loop), `wait_for_fill`, `cancel`, and readers. An item is abstracted to
the generation it was derived for. The lock is used through its interface, which
`RotationLock` establishes. The condition variable of the waiters is left out: every
wait polls with a timeout of 20 ms, so a notification only makes it earlier.

**`LightEngine`** extends `PrefixStore` with `set_job`, the worker loop and `stop`.
The steps of `start_fill` that the store exposes are separate actions, since
`stop` and workers run between them. The cache's contents are abstracted to its seed.

**`FastRebuild`** is the fast-mode rotation: `set_job` announces a rebuild, bumps
`dataset_init_generation_`, and waits on a condition variable for the countdown;
each worker reads the target, builds its region and counts down. A dataset is one
seed per region. Waiting is split into the predicate test and the parking, since
`stop` notifies without the mutex.

**`HashPipeline`** is what one worker computes: the VM with its two scratchpads, the
plain and the pipelined hash, nonces, adoption of a job. Hashing is symbolic: a value is
the record of how it was computed, so results are equal exactly when the same steps were
applied to the same inputs.

**`StratumJobs`** turns pool messages into jobs and targets: long division, compact
expansion, comparison, on digits of any base. **`ShareFlow`** composes it with the
engine's job hand-over and several `HashPipeline` workers, up to the submitted share.

**`StratumClient`** has one stack of pending statements per thread, so `connect`,
`disconnect` and `close_connection` can be run by whichever thread calls them. The network
drops connections, answers late or twice, and pools go away for good. **`PoolManager`**
extends it with `tick`, failover, share submission and the main loop; `raced` records
that a `disconnect` met a `connect` in progress.

**`MinerApp`** is one invocation: configuration file and flags in any order, the checks
of `run`, a benchmark session and a pool session with dataset and metrics thread, signals.
It takes for granted that `engine.stop()` and `disconnect()` return, which the engine
modules and `PoolManager` are about, and that the host is AArch64.

**`VmBytecode`** compiles and executes instructions as the interpreter does;
**`JitSchedule`** computes footprints and the emission order of both schedulers, and
**`JitA64`** emitted operations with the real temporaries and literal pools;
**`JitEquivalence`** runs a program through both. Words are narrow
(`RegBits`, `ImmBits`), FP arithmetic is an arbitrary fixed function of operands and mode.
`VmInstructions` only names the kinds of instructions; the schedulers have a module without
bit operations, so that they can be proved about.

**`SuperscalarProgram`** is what becomes of a superscalar program whoever drew it: its
address register, its interpretation and its compiled form, on symbolic registers.
**`Superscalar`** draws one by the port simulation, every random byte being a
choice. A high multiply chooses its destination with its mov, so `OperandsReady` is stated
for the macro-operation that selects the register. **`CacheFill`** is the order
and reference rule of the Argon2 fill. **`DatasetBuild`** goes on from the filled cache: the
shared reciprocals, and the scalar, two-lane
and two-way ways to derive items. Nothing in the miner calls the two-way code; tests do.

`MC*` modules declare model values and instances. `MCShareFlow` and `MCCodeGen` put
independent parts side by side in one run: a behaviour is one of the one or of the
other, never a mixture; the dataset follows the cache. The proofs are in
`PartialDataset_proofs`, `LightEngine_proofs` (with the schedulers), `FastRebuild_proofs`,
`ShareFlow_proofs`, `PoolManager_proofs`, `DatasetBuild_proofs`, `Superscalar_proofs` and
`SmallParts_proofs` (rotation lock, memory budget, block fill).

Mutants, which TLC must reject, sit beside the definition they change and are named
after it (`lock` and `lock_withdraws`).

### Abstractions

- Memory is sequentially consistent. The code uses release and acquire accesses for
  what it publishes; reorderings that they leave open are not explored.
- The three guards of `start_fill` that reject a null cache, an empty core list or an
  empty dataset are assumed to pass: the engine never calls it so.
- In `LightEngine` and `FastRebuild` the nonce field fits and a hash is one interval or
  one label; what happens inside, and a field that does not fit, is in `ShareFlow`.
- The wait before the worker loop is the same as the first one in the loop.
- `send()` is one step. Text (JSON, hex, addresses) is already parsed.
- The assembly around the JIT's loop body is assumed to load and store the registers.

## Runs

| Run | States | Shows |
|---|---|---|
| `RotationLock` | 1.6 k | exclusion, exact counters, no lost wakeup, a waiting rotation gets in; no deadlock |
| `FillRotation` | 343 k | two rotations, reader, waiter, cancel, failing fills, a short last chunk: valid and stable prefix, `fill_complete_` only when computed, no stray thread, refinement of `PrefixStore` |
| `FillLive` | 99 k | a fill that nothing stops completes; `start_fill` returns; `cancel` releases every waiter |
| `LightSafety` | 137 k | no hash of a running engine mixes seeds; every hash uses the cache of its job; a job reaches every worker; `stop` returns |
| `FastRebuild` | 83 k | exact countdown, hashes use a complete dataset of their seed, an installed one is not written; a rebuild ends that starts with the workers caught up |
| `CodeGen` | 311 k | JIT and interpreter agree; a CBRANCH loops at most twice in a row; the DAG scheduler never changes an order; superscalar operands are ready and the compiled program computes the same; the Argon2 window is exact; all ways to dataset items agree |
| `ShareFlow` | 641 k | every share is the RandomX hash of its job and nonce and meets the pool's target, and the target mined is the pool's; workers keep to their nonces; sessions start only within the memory budget; a signal ends the program |
| `Pool` | 171 k | clients are destroyed clean, the descriptor outlives its reader, Ctrl+C ends the program, a working pool is found again |

Four runs find what a comment, a changelog or a test promises and the code does not keep:

| Run | What happens |
|---|---|
| `FastBackToBack` | two seed changes in a row: a worker waits for `job_mutex_`, its holder waits for the worker |
| `JitFp` | `emitMemLoadFP` with a zero offset masks a register nobody set: a one-instruction program differs |
| `JitAnchor` | `ISWAP_R` of a register with itself, or `IMUL_RCP` of zero or a power of two, hides the real target of a CBRANCH from the scheduler (the anchors of its constraint 4), and an earlier instruction ends up in the loop |
| `PoolShutdown` | `disconnect` meets a `connect` of the reconnect thread: the destructor joins the new reader under the mutex the reader waits for |

`JitMatchesInterpreter` therefore leaves out zero-offset FP loads and such anchors, and
the properties of `Pool` leave out behaviours in which `disconnect` met a `connect`.

Four more definitions state what a comment or a test promises and are violated; no run
lists them. Each is found by naming it in place of the properties of the run:

| Definition | Check with | What happens |
|---|---|---|
| `StopWakesSetJob` (`FastRebuild`) | `FastBackToBack.cfg`, one job, `MayStop` | `stop` notifies between the predicate test and the wait of `set_job`, which then sleeps for ever (`mining_engine.cpp:207`: "Wake any set_job() call blocked") |
| `MatchGuarantees` (`LightEngine`) | `LightSafety.cfg` | after `cancel`, `start_fill` refuses to rotate but `set_job` publishes the new cache: one last hash mixes seeds (`mining_engine.cpp:505`) |
| `FullPrefixHash` (`LightEngine`) | `LightSafety.cfg` | a rotation between the fill test and the adoption lets a worker hash on a prefix still being filled; the result is right, the comment is not (`mining_engine.cpp:241`) |
| `AdoptOnlyOnChange` (`LightEngine`) | `LightSafety.cfg`, as a PROPERTY | a job that arrives while a worker waits for the mutex is adopted twice and its nonces restart (`mining_engine.cpp:591`) |

Because of the shutdown races, `SameSeedHash`, `HashesCompleteDataset` and
`InstalledImmutable` speak of the engine until `stop` is called. Afterwards fast mode has
the counterpart of `MatchGuarantees`: `set_job` leaves its wait and installs a dataset
with regions missing, which a worker past its loop test may still hash with once.

`TypeOK` is checked where it is proved; those of `LightEngine`,
`FastRebuild`, `JitEquivalence` and `PoolManager` hold on the same instances and serve as
documentation.

Two more things met on the way, which no run shows: a per-notify target of 64 hex digits
is ignored (`stratum_client.cpp:601`), and above a difficulty of 2^56 the long division
loses bits (`Exact` in `StratumJobs` is the range in which it is right; the runs stay in it).

### Bounds

Two chunks of three and two items give a short last chunk, one publisher ahead of the
other, and cancellation in the middle of a chunk; `FillLive` has two chunks of one item,
two publishers and no reader. More publishers, and any sizes, are covered by the proofs.
Two rotations let the threads of an old fill meet a new one; a second swap of the token
adds nothing as the threads of the first are joined by then. Two jobs over two seeds
(light and fast mode) give a change of seed, a job that keeps its seed, and two rotations
back to back; a return to an earlier seed is not reached, but the proofs cover it. In
`LightSafety` the first job is for a fixed seed, as no step tells seeds apart. Two workers
let one be ahead of the other.

`CodeGen`: every operation alone with every immediate; sequences of four that exhaust the
literal pools; sequences of five with a multiply, what waits for it, what may move, and a
branch. Three machines make the superscalar generator stall, draw reciprocals and look
ahead. Caches of 8, 12 and 20 blocks, three passes and words of 6 bits instead of 32
(`WordRange`: enough for every block of a window to be selected); pairs of programs with up to five
reciprocals; ranges with an odd item, an empty and an invalid one.

`ShareFlow`: three messages out of thirteen, of which two become jobs, two workers,
nonces up to 6 (three turns of the pipeline), targets of three digits in base 4; three
arguments, three configurations and three sizes of memory. `Pool`: two pools, of which one
may go away, before the first connection or later, two faults, two retries instead of
five, one share; the proofs about it have no such bounds.

After the last job, message or fault the system may stop with nothing to do, so deadlock
is checked only for the lock, which has no bound.

### Fairness

Each thread's next step is weakly fair: the operating system schedules every
runnable thread. Calls by the environment (`start_fill`, `set_job`, `stop`, `cancel`,
failures, a reader that takes a new guard, the network, signals, metrics clients) are not
fair. Taking a mutex that others take again and again is strongly fair where a liveness
property needs it (the reader and reconnect threads in `PoolManager`, which compete with
a `tick` that holds the mutex for an instant once a second): the
holders keep it for bounded times and sleep or compute in between. Releasing a guard
is weakly fair, since a hash ends. In `FastRebuild` the liveness property is about
rebuilds that begin when every worker has adopted the job before: `FastBackToBack`
shows that others may not end.

## Proofs

`SmallParts_proofs`, the rotation lock (any finite sets of readers and writers). The
inductive invariant is the conjunction of the five invariants: exclusion alone is not inductive,
since only the counters decide who enters, and the wakeup invariants hold because the
counters decide who parks. Theorems: `TypeCorrect`, `Exclusion`, `CountersCorrect`,
`ReaderWakeups`, `WriterWakeups`.

`PartialDataset_proofs` (any allocation, chunk size, number of
cores, readers, waiters and rotations). The inductive invariant adds to the type and the
two publication invariants

- `Threads`: who is running belongs to the current generation and token and is
  joinable; while a reset is in progress nobody runs;
- `Filled`: what each fill thread has computed, that a set chunk flag means a
  computed chunk, and that cursors stand at chunk boundaries of a computed prefix;
- `ResetState`: what is already cleared at each step of a rotation.

The argument: a chunk flag is set only when its chunk is computed; a cursor advances
only over set flags, from a boundary to the next; so every value that reaches
`contiguous_done_` and `item_count_` bounds a computed prefix, even when
`contiguous_done_` goes back for a moment. A rotation waits until the old threads are
joined and the readers are out, so nothing of the old generation survives in what is
published. Theorems: `TypeCorrect`, `PrefixCorrect`, `CompletionCorrect`,
`GuardedReads`, `NoStray`, and `Refinement`: every step is a step of `PrefixStore` or a
stutter.

`WaitersReturnFull` needs one invariant more, `EndPublished`: a thread that is overtaken
between storing the bound and raising `item_count_` lets another mark the fill complete
first, so completion alone does not say that the bound is published. It says that it is or
that a running thread is about to do so, and `wait_for_fill` joins every thread.

Assumptions: the sizes are positive, and no chunk is empty (`ChunkAssumption`), which
`ChunksNonEmpty` derives from at most 2^20 + 1 cores (`kFillChunkItems` + 1).

`LightEngine_proofs` (any workers, seeds, jobs, items and failures). `SameSeedHash` is not
inductive: it relates two caches that different threads replace. The invariant adds

- `Control`: `set_job` is past its first line only while it holds `job_mutex_`, and
  `stop` has cleared `running_` before anything else;
- `Generations`: the fill generation a worker noted for its cache is never ahead of the
  current one, is behind it between the bump and the start of the new fill, and is the
  current one during a hash;
- `SeedsAgree`: in a running engine, outside a rotation the shared cache has the seed of
  the fill, and so has the cache of each worker that noted the current generation;
- `JobsAgree`: which seed the shared cache has at each step of `set_job`, and that a
  worker's cache is that of its job.

A hash holds a read guard, taken when the noted generation is current, and a rotation
bumps the generation under the write lock; so the two seeds are those of one generation.
Theorems: `OneSeedPerHash`, `OwnCache`.

`FastRebuild_proofs` (any finite set of workers, any seeds and number of jobs). The first
part proves `Countdown`: its invariant adds `Participation`, that a
worker builds only for the current generation, and that outside a wait the workers of a
running engine are all settled, so that the bump makes every worker owe one report and
each report takes one worker from those that owe. The second part adds

- `Numbering`: what workers use is not newer than what is installed, and what is being
  built is newer;
- `Seeding` and `Storage`: jobs, seeds and datasets go together, and a rebuild's target is
  the newest dataset;
- `Contents`: until `stop`, what is installed, adopted or about to be installed is complete,
  and a worker that owes nothing has written its region.

`set_job` leaves a wait in a running engine only at a count of zero, when by the first part
nobody owes a region; and a builder writes only the newest dataset, which is not installed.
Theorems: `CompleteDatasets`, `InstalledStable`. `MaxJobs` is any natural number in the
proofs, so the bound restricts no behaviour.

`ShareFlow_proofs`, first part (any base, number of digits, compact digits and word; any
number of workers). Numbers are the digit sequences the code stores, least significant first, and
`Value` is what they stand for. `Comparison`: the comparison from the top digit down is
the comparison of the numbers. `Division`: the long division of `difficulty_to_target`
divides the largest target, as long as the remainder fits the word after one more digit;
`DifficultyTarget` states this for the function with its special cases. `Expansion`: a
compact target is the largest one with these leading digits. These are inductions over the
digits: a predicate is given as a set, and `SetInduction` derives induction from the
well-foundedness of `<`. `Recursion` shows that the recursive functions satisfy their
equations. `HashedKeeps` is about one turn of a worker: what it looks at is the RandomX
hash of its job's template with a nonce of its own. Its invariant `WorkerInv` says what
the pipelined call relies on: the block input holds the current nonce, and after a
pipelined call the seed and the active scratchpad are those of this block.

`ShareFlow_proofs`, second part (any messages, workers and nonces). `FlowInv` has three parts: each
worker satisfies `WorkerInv`; every job that is being published, is current, or is mined
has the target the pool announced for it; and so have the shares, with the right hash.
Theorems: `FlowTypes`, `SharesValid`, `SharesMeetTarget`. The assumption on the pool
(`PoolAssumption`) leaves out three things the client does not take as they are meant: a
full target of 64 hex digits in `mining.notify`, which is ignored though the comment at
`stratum_client.cpp:601` says "if per-notify target is given, use it"; a compact target in
`mining.set_target`, which takes 64 digits only; and difficulties above 2^56. All other
messages are covered, malformed ones included.

`SmallParts_proofs` proves `BudgetKept` about `MinerApp` (any files, flags in any order and
number, any memory and sizes): by `AppInv`, what the validation of `--dataset-mb` and the
fit check establish is not undone before a session starts. Assumptions: sizes are natural
numbers, and a configuration file is a record of the fields the parser fills.

`PoolManager_proofs` (any lists of pools, faults, retries and shares). A call stack is at
most three deep, so the proofs speak of its slots: `m1` is where the main thread is, `m2`
where it returns to, and so on. `PoolInv` says, as long as `raced` is false:

- `Stacks`: which stacks the four threads can have;
- `Held`: a thread that runs is held by its handle, so a join waits for it;
- `OneConnects`: the main thread and the reconnect thread are not both inside `connect`,
  and whoever is has `handshake_in_progress_` set, which keeps the reader from starting
  another reconnect loop;
- `Apart`: during `disconnect`, reconnecting is disabled and the reconnect thread is not
  inside `connect`;
- `Joined`, `Open`: what has been joined at each place, and that the descriptor is open
  while there is a reader;
- `Alone`: the main thread holds `stratum_mutex_` in `tick` or while it destroys the last
  client, which has no thread left by then.

`DestroyedClean` alone is not inductive: whether a handle is empty at the destructor
depends on who could have filled it since the join. Theorems: `ClientDestroyedClean`,
`ReaderDescriptorOpen`; `LockedJoinNeedsRace`, that the deadlock the run `PoolShutdown`
finds has no other cause than `disconnect` meeting a `connect`; and
`RaceBeginsWithDisconnect`, that they meet only when `disconnect` is entered during a
`connect` that began before, never the other way round.

`DatasetBuild_proofs` (any programs, of any number and length, any range of items, any
machine with at most eight registers). Recursive functions are unfolded with one operator,
`Step`, that names each of them: `Recursion` shows once that such a recursion has a
solution, by induction over sets of numbers. The argument goes through three layers.

- One program. `ScheduledInBlocks`: the order `scheduleSuperscalarProgram` picks is made of
  blocks, an instruction in its place or three of which the last two change places.
  `SwapsAreSafe`: the two have no hazard, so they commute, and at the end of every block the
  registers are those of the program order. `PoolInOrder`: a reciprocal multiply never
  moves, so the pool, filled in program order, is used up in that order. Together
  `EmittedIsExecuted`: compiled code computes what interpretation computes.
- One list of programs. `Prepared`: resolving the indices that `setImm32` stored gives back
  the programs as drawn, because the table only grows (`TableGrows`) and every index is the
  size the table had.
- Items. `ItemAgrees`, `PairAgrees` and `TwoAgree`: the scalar path, the two lanes and the
  two streams each go through the rounds of the drawn programs. The streams share no
  register and no temporary (`Apart`), and each walks through the one pool by itself.

`ItemsInv` says what of this holds at each stage, and gives `ItemsAlwaysAgree`. Assumptions:
the programs hold instructions that name registers of the machine (`ProgramsAssumption`),
which `Superscalar_proofs` shows of what the generator draws, and ranges are pairs of
naturals.

`Superscalar_proofs` (any machine, any choices of the generator, of any length).
`OperandsReady` needs `DrawInv`, which says that cycles and latencies are numbers, that
operands are chosen by the macro-operations that select them, and that the program holds
instructions of the machine: `scheduleMop` never places a macro-operation before the cycle
asked for, the look-ahead never goes back, and what `selectSource` and `selectDestination`
pick has retired at the cycle they are asked about, which is not after the cycle of issue.
Theorems: `OperandsAlwaysReady`, and `CompiledHashMatches` from the program's part of
`DrawInv` and `EmittedIsExecuted`. Assumptions: sizes and divisors are natural numbers.

`SmallParts_proofs`, the block fill (any cache of a multiple of four blocks from eight on,
any passes, any word width with room for twice the number of blocks; in the code 2^18
blocks and 2^32). `FillInv`: the last blocks written, at most one memory's worth, are those
just behind the current place, around the end of the memory. So the window is a run of
places (`Window`), and the two multiplications of the reference rule, which map a word to a
position, never leave the area and miss none of it (`ShareIsOnto`: from one word to the
next the square's high half grows by at most two, and there are at least twice as many
words as positions). Theorem: `ReferencesAreTheWindow`.

`LightEngine_proofs`, the schedulers (any program). `DagKeepsTheOrder` states
`DagNeverReorders` for every sequence of instructions: every slot is filled with an
instruction of its own or a later place, no two slots with the same, and numbers that are
all different and never smaller than their place are the places. `GreedyIsSafe` is about
`scheduleProgram`: its turns append safe blocks (`SafeBlock`) to a safe order. It states that the
order is a permutation, that instructions which change places have no hazard, and that
nothing moves across a branch, a rounding mode or an anchor. What it does not say
is that the anchors are the right ones; `JitAnchor` shows they are not always.

The invariants `DrawInv`, `FillInv`, `ItemsInv` and the safety of the greedy order have also
been checked by TLC on the instances of `CodeGen`.

### Only model-checked

- All liveness: the prover has no rules for fairness and ENABLED.
- `JitMatchesInterpreter`, `BranchLoopsAtMostTwice`: they rest on bit
  operations (`Bitwise`) the prover does not know. Of the compiler, the order of emission
  is proved, the emitted operations are not.

## Not modelled

- `json.cpp`, hex and address parsing: scanning of text character by character; the
  models take the results as messages and options.
- BLAKE2b, AES, the Argon2 compression function, IEEE arithmetic: pure arithmetic, which
  the repository checks with test vectors; used as injective or arbitrary functions.
- Instruction encodings and hand-written assembly: out of a model checker's reach.
- `tls_client.cpp`: a wrapper over OpenSSL, one more step of `connect` that may fail.
- `log.hpp`: every access is one critical section. `tui.cpp`, `cpu_*.cpp`,
  `virtual_memory.c`, core selection: I/O on the screen, `/proc`, `/sys` and `mmap`.
- Share replies, extranonce, statistics: counters and strings that only statistics
  and warnings read.
- The destructor of PartialDataset, and `wait_until_published`, which only tests use.
- Which pool a share belongs to: one found before a failover is sent to the new pool,
  which rejects its job id.
