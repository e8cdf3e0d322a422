----------------------------- MODULE MCShareFlow -----------------------------
(* ShareFlow with three-digit targets in base 4; and, beside it, one invocation
   of the program from its flags to its exit.                               *)
EXTENDS ShareFlow, MinerApp

Job(method, seed, target) ==
  [method |-> method, seed |-> seed, target |-> target, blob |-> NonceEnd, hex |-> TRUE]

(* Jobs of two seeds with absent, compact and full targets; a blob that is
   too short, one the nonce does not fit, one that is not hex; target and
   difficulty messages, well formed and not.                                *)
MCMessages ==
  {Job("mining.notify", "s1", <<>>), Job("mining.notify", "s2", <<1>>),
   Job("job", "s2", <<>>), Job("job", "s1", <<3, 1, 2>>),
   [Job("job", "s1", <<2>>) EXCEPT !.blob = MinBlob],
   [Job("job", "s1", <<2>>) EXCEPT !.blob = MinBlob - 1],
   [Job("mining.notify", "malformed", <<1>>) EXCEPT !.hex = FALSE],
   [method |-> "mining.set_target", target |-> <<3, 0, 1>>],
   [method |-> "mining.set_target", target |-> <<3, 0>>]}
  \union {[method |-> "mining.set_difficulty", diff |-> d, parses |-> TRUE] : d \in {-1, 3, 4}}
  \union {[method |-> "mining.set_difficulty", diff |-> 0, parses |-> FALSE]}

(* No file; a file without pool or wallet before one that asks for TLS; a
   mode that does not exist.                                                *)
MCFileLists ==
  {<<>>,
   <<[NoConfig EXCEPT !.workers = 1],
     [pools |-> TRUE, wallet |-> FALSE, tls |-> TRUE, workers |-> 1, mode |-> "fast"]>>,
   <<[NoConfig EXCEPT !.pools = TRUE, !.wallet = TRUE, !.mode = "other"],
     [NoConfig EXCEPT !.wallet = TRUE]>>}

Idle == AppStart("idle") /\ host = [memory |-> 5, tls |-> FALSE] /\ opts = Defaults
Mining(A) == appPc = "idle" /\ A /\ UNCHANGED appVars
App(A) == A /\ UNCHANGED vars

MinerNext ==
  \/ appPc = "idle" /\ \E m \in Messages : Mining(Receive(m))
  \/ Mining(Publish)
  \/ \E w \in Workers : \/ Mining(LoadGeneration(w)) \/ Mining(Adopt(w)) \/ Mining(Deactivate(w))
                        \/ Mining(Abandon(w)) \/ Mining(Hash(w))
  \/ /\ appPc = "args"
     /\ \E f \in Arguments : App(ParseArg(f))
  \/ App(ParseEnd) \/ App(Validate) \/ App(FitCheck) \/ App(run_local_benchmark)
  \/ App(run_pool_mining) \/ App(Return) \/ App(LoopEnds) \/ App(SessionEnds)
  \/ App(Signal) \/ App(ExporterStarts) \/ App(ExporterLoops) \/ App(ExporterTimeout)
  \/ App(ExporterServes) \/ App(ExporterAccepts) \/ App(ExporterInterrupted)

MinerInit == Init /\ (Idle \/ AppStart("args"))
MinerSpec == MinerInit /\ [][MinerNext]_<<vars, appVars>> /\ AppFairness
=============================================================================
