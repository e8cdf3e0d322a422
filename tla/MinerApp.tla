------------------------------- MODULE MinerApp -------------------------------
(***************************************************************************)
(* One invocation of the program: configuration file and flags, the checks  *)
(* of MinerApp::run, then a benchmark session and a pool session, each with *)
(* its engine, its partial dataset and its metrics thread, and the way out. *)
(* The engine and the pool connection are modelled elsewhere; here stop()   *)
(* and disconnect() return.                                                 *)
(***************************************************************************)
EXTENDS Integers, Sequences

CONSTANTS Cpus,           \* online_cpu_count(), or fewer isolated ones
          Available,      \* available_memory(), in units
          CacheSize, DatasetSize, ScratchpadSize, Reserve,  \* in the same units
          FileLists,      \* configuration files, in the order they are probed
          MaxArgs         \* bound on the number of arguments

VARIABLES
  appPc, host,            \* host: the memory there is, whether the build has TLS
  opts, items,            \* MinerOptions; partial_dataset_items_
  args,                   \* arguments parsed so far
  dataset,                \* the session's PartialDataset: "none", "fillable", "cancelled"
  keep_running,
  exporter, running_,     \* the metrics thread and its flag
  exitCode

(* The sizes are numbers, and a file is what the parser makes of it: two
   settings that are present or not, a flag, a thread count and a mode.      *)
ASSUME SizesAssumption ==
  /\ Cpus \in Nat /\ Available \subseteq Nat
  /\ CacheSize \in Nat /\ DatasetSize \in Nat /\ ScratchpadSize \in Nat /\ Reserve \in Nat

ASSUME FilesAssumption ==
  FileLists \subseteq Seq([pools : BOOLEAN, wallet : BOOLEAN, tls : BOOLEAN, workers : Nat,
                           mode : STRING])

appVars == <<appPc, host, opts, items, args, dataset, keep_running, exporter, running_, exitCode>>

-----------------------------------------------------------------------------
(* Configuration: the first probed file that names a pool or a wallet.       *)
Defaults == [auto |-> TRUE, requested |-> "light", workers |-> Cpus, mine |-> FALSE,
             connect |-> FALSE, pools |-> FALSE, wallet |-> FALSE, tls |-> FALSE,
             pool_test |-> FALSE, seconds |-> 1, metrics |-> FALSE, dataset_mb |-> 0,
             jit_dump |-> FALSE]

NoConfig == [pools |-> FALSE, wallet |-> FALSE, tls |-> FALSE, workers |-> 0, mode |-> "auto"]

load_default_config(files) ==
  LET usable == {n \in DOMAIN files : files[n].pools \/ files[n].wallet}
  IN IF usable = {} THEN NoConfig ELSE files[CHOOSE n \in usable : \A m \in usable : n <= m]

(* The file --config= names is taken as it is.                               *)
load_config_with_fallback(files, explicit) ==
  IF explicit /\ files # <<>> THEN files[1] ELSE load_default_config(files)

(* A mode that is not auto, light or fast turns auto off and leaves light.   *)
FromConfig(cfg) ==
  [Defaults EXCEPT
     !.connect = cfg.pools, !.pools = cfg.pools, !.wallet = cfg.wallet, !.tls = cfg.tls,
     !.workers = IF cfg.workers > 0 THEN cfg.workers ELSE @,
     !.auto = cfg.mode = "auto",
     !.requested = IF cfg.mode = "fast" THEN "fast" ELSE @]

(* What a flag changes; a rejected one ends the parse with 64.               *)
ModeFlags(f) ==
  \/ f = "--mode=auto" /\ opts' = [opts EXCEPT !.auto = TRUE]
  \/ f = "--mode=light" /\ opts' = [opts EXCEPT !.auto = FALSE, !.requested = "light"]
  \/ f = "--mode=fast" /\ opts' = [opts EXCEPT !.auto = FALSE, !.requested = "fast"]
WorkFlags(f) ==
  \/ f = "--workers=0" /\ opts' = [opts EXCEPT !.workers = 1]
  \/ f = "--mine" /\ opts' = [opts EXCEPT !.mine = TRUE]
  \/ f = "--seconds=0" /\ opts' = [opts EXCEPT !.seconds = 0]
PoolFlags(f) ==
  \/ f = "--pool=host" /\ opts' = [opts EXCEPT !.connect = TRUE, !.pools = TRUE]
  \/ f = "--wallet=" /\ opts' = [opts EXCEPT !.wallet = TRUE]
  \/ f = "--tls" /\ opts' = [opts EXCEPT !.tls = TRUE]
  \/ f = "--no-tls" /\ opts' = [opts EXCEPT !.tls = FALSE]
  \/ f = "--pool-test" /\ opts' = [opts EXCEPT !.pool_test = TRUE]
OtherFlags(f) ==
  \/ f = "--jit-dump" /\ opts' = [opts EXCEPT !.jit_dump = TRUE]
  \/ f = "--dataset-mb=2" /\ opts' = [opts EXCEPT !.dataset_mb = 2]
  \/ f = "--dataset-mb=9" /\ opts' = [opts EXCEPT !.dataset_mb = 9]
  \/ f = "--metrics-port=" /\ opts' = [opts EXCEPT !.metrics = TRUE]
Flags(f) == ModeFlags(f) \/ WorkFlags(f) \/ PoolFlags(f) \/ OtherFlags(f)
Known == {"--mode=auto", "--mode=light", "--mode=fast", "--workers=0", "--mine", "--seconds=0",
          "--pool=host", "--wallet=", "--tls", "--no-tls", "--pool-test", "--jit-dump",
          "--dataset-mb=2", "--dataset-mb=9", "--metrics-port="}
Rejected == {"--mode=other", "--workers=other", "--pool=host:other", "other"}
Informative == {"--version"}
Arguments == Known \union Rejected \union Informative

Exit(code) == appPc' = "exited" /\ exitCode' = code

(* "idle": an invocation that is not looked at.                              *)
AppStart(pc0) ==
  /\ appPc = pc0 /\ host \in [memory : Available, tls : BOOLEAN]
  /\ \E files \in FileLists, explicit \in BOOLEAN :
       opts = FromConfig(load_config_with_fallback(files, explicit))
  /\ items = 0 /\ args = 0 /\ dataset = "none" /\ keep_running = TRUE
  /\ exporter = "none" /\ running_ = FALSE /\ exitCode = 0

ParseArg(f) ==
  /\ appPc = "args" /\ args < MaxArgs
  /\ args' = args + 1
  /\ \/ f \in Rejected /\ Exit(64) /\ UNCHANGED opts
     \/ f \in Informative /\ Exit(0) /\ UNCHANGED opts
     \/ Flags(f) /\ UNCHANGED <<appPc, exitCode>>
  /\ UNCHANGED <<host, items, dataset, keep_running, exporter, running_>>

TlsMissing == opts.tls /\ ~host.tls

(* The checks after the last argument.                                       *)
ParseEnd ==
  /\ appPc = "args"
  /\ \/ (TlsMissing \/ (opts.pool_test /\ ~opts.wallet)) /\ Exit(64) /\ UNCHANGED opts
     \/ /\ ~TlsMissing /\ (opts.pool_test => opts.wallet)
        /\ opts' = IF opts.pool_test THEN [opts EXCEPT !.pools = TRUE, !.connect = @ \/ ~opts.pools]
                   ELSE opts
        /\ appPc' = "validate" /\ UNCHANGED exitCode
  /\ UNCHANGED <<host, items, args, dataset, keep_running, exporter, running_>>

-----------------------------------------------------------------------------
(* run(): mode, memory budget, partial dataset.                              *)
FastBytes == DatasetSize + opts.workers * ScratchpadSize + Reserve
choose_randomx_mode == IF host.memory >= FastBytes THEN "fast" ELSE "light"
EffectiveMode == IF opts.auto THEN choose_randomx_mode ELSE opts.requested

(* Mutant: one scratchpad per worker.                                        *)
PartialBytes_single == CacheSize + opts.workers * ScratchpadSize + opts.dataset_mb + Reserve

PartialBytes == CacheSize + opts.workers * 2 * ScratchpadSize + opts.dataset_mb + Reserve

validate_partial_dataset_request ==
  opts.dataset_mb <= DatasetSize /\ PartialBytes <= host.memory

Validate ==
  LET asked == opts.dataset_mb > 0 /\ EffectiveMode = "light" IN
  /\ appPc = "validate"
  /\ \/ asked /\ ~validate_partial_dataset_request /\ Exit(64) /\ UNCHANGED items
     \/ /\ asked => validate_partial_dataset_request
        /\ items' = IF asked THEN opts.dataset_mb ELSE 0
        /\ appPc' = "fit" /\ UNCHANGED exitCode
  /\ UNCHANGED <<host, opts, args, dataset, keep_running, exporter, running_>>

FitCheck ==
  LET tooBig == ~opts.auto /\ opts.requested = "fast" /\ host.memory < FastBytes IN
  /\ appPc = "fit"
  /\ \/ tooBig /\ Exit(2)
     \/ ~tooBig /\ opts.jit_dump /\ Exit(0)
     \/ ~tooBig /\ ~opts.jit_dump /\ appPc' = "sessions" /\ UNCHANGED exitCode
  /\ UNCHANGED <<host, opts, items, args, dataset, keep_running, exporter, running_>>

-----------------------------------------------------------------------------
FreshDataset == dataset' = IF items > 0 THEN "fillable" ELSE "none"

Begin(session) ==
  /\ appPc' = session /\ FreshDataset
  /\ exporter' = IF opts.metrics THEN "starting" ELSE "none"
  /\ running_' = opts.metrics
  /\ UNCHANGED <<host, opts, items, args, keep_running, exitCode>>

run_local_benchmark == appPc = "sessions" /\ opts.mine /\ Begin("bench")

run_pool_mining ==
  /\ appPc = IF opts.mine THEN "benched" ELSE "sessions"
  /\ opts.connect /\ opts.wallet /\ opts.pools
  /\ Begin("pool")

(* No pool session, or one that lacks a wallet; the program returns.         *)
Return ==
  /\ appPc = IF opts.mine THEN "benched" ELSE "sessions"
  /\ \/ opts.connect /\ ~(opts.wallet /\ opts.pools) /\ Exit(64)
     \/ ~opts.connect /\ Exit(0)
  /\ UNCHANGED <<host, opts, items, args, dataset, keep_running, exporter, running_>>

(* The run loops: a second passes; the loop ends on a signal or, where a
   time limit holds, when it is up.  --pool-test then leaves by _Exit.       *)
LoopEnds ==
  LET limited == opts.seconds # 0 /\ (appPc = "bench" \/ opts.pool_test) IN
  /\ appPc \in {"bench", "pool"} /\ (~keep_running \/ limited)
  /\ IF appPc = "pool" /\ opts.pool_test
     THEN Exit(0) /\ exporter' = "none" /\ UNCHANGED <<dataset, running_>>
     ELSE /\ appPc' = IF appPc = "bench" THEN "benchEnd" ELSE "poolEnd"
          /\ dataset' = IF dataset = "none" THEN "none" ELSE "cancelled"
          /\ running_' = FALSE /\ UNCHANGED <<exporter, exitCode>>
  /\ UNCHANGED <<host, opts, items, args, keep_running>>

ExporterJoined == exporter \in {"none", "closed"}

SessionEnds ==
  /\ ExporterJoined
  /\ \/ appPc = "benchEnd" /\ appPc' = "benched" /\ UNCHANGED exitCode
     \/ appPc = "poolEnd" /\ Exit(0)
  /\ UNCHANGED <<host, opts, items, args, dataset, keep_running, exporter, running_>>

Main == ParseEnd \/ Validate \/ FitCheck \/ run_local_benchmark \/ run_pool_mining \/ Return
        \/ LoopEnds \/ SessionEnds

-----------------------------------------------------------------------------
(* SIGINT or SIGTERM, once the handlers are installed.                       *)
Signal ==
  /\ appPc \notin {"idle", "args", "exited"} /\ keep_running
  /\ keep_running' = FALSE
  /\ UNCHANGED <<appPc, host, opts, items, args, dataset, exporter, running_, exitCode>>

OnlyExporter == UNCHANGED <<appPc, host, opts, items, args, dataset, keep_running, exitCode>>

(* The metrics thread: bind may fail.                                        *)
ExporterStarts ==
  /\ exporter = "starting"
  /\ \/ exporter' = "loop" /\ UNCHANGED running_
     \/ exporter' = "closed" /\ running_' = FALSE
  /\ OnlyExporter

ExporterLoops ==
  /\ exporter = "loop"
  /\ exporter' = IF running_ THEN "poll" ELSE "closed"
  /\ UNCHANGED running_ /\ OnlyExporter

(* Mutant: accept() without poll() waits for a client.                       *)
ExporterTimeout_blocking == FALSE /\ UNCHANGED appVars

ExporterTimeout ==
  /\ exporter = "poll"
  /\ exporter' = "loop" /\ UNCHANGED running_ /\ OnlyExporter

(* poll() is interrupted by a signal: the loop is left.                      *)
ExporterInterrupted ==
  /\ exporter = "poll" /\ ~keep_running
  /\ exporter' = "closed" /\ UNCHANGED running_ /\ OnlyExporter

ExporterAccepts ==
  /\ exporter = "poll"
  /\ exporter' = "client" /\ UNCHANGED running_ /\ OnlyExporter

(* The request is answered, or read() gives up after two seconds.            *)
ExporterServes ==
  /\ exporter = "client"
  /\ exporter' = "loop" /\ UNCHANGED running_ /\ OnlyExporter

Exporter == ExporterStarts \/ ExporterLoops \/ ExporterTimeout \/ ExporterServes

AppNext ==
  \/ \E f \in Arguments : ParseArg(f)
  \/ Main \/ Signal \/ Exporter \/ ExporterAccepts \/ ExporterInterrupted

AppSpec == AppStart("args") /\ [][AppNext]_appVars

(* Threads are scheduled; clients need not come.                             *)
AppFairness == WF_appVars(Main) /\ WF_appVars(Exporter)

-----------------------------------------------------------------------------
(* A session starts only with a partial dataset that is part of the dataset
   and fits next to the cache, two scratchpads per worker and the reserve;
   and in fast mode only if that mode's own estimate fits: whatever files and
   flags, in whatever order, gave the options.                               *)
BudgetHolds ==
  appPc \in {"bench", "pool"} =>
    /\ dataset # "none" =>
         /\ EffectiveMode = "light" /\ items <= DatasetSize
         /\ CacheSize + 2 * opts.workers * ScratchpadSize + items + Reserve <= host.memory
    /\ EffectiveMode = "fast" => FastBytes <= host.memory

(* After a signal the program ends, with a metrics client connected or not,
   and with a second session still to come.                                  *)
SignalEnds == ~keep_running ~> appPc = "exited"
=============================================================================
