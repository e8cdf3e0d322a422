--------------------------- MODULE MCLightEngine ---------------------------
(* An instance of LightEngine with two seeds: the pool can announce a job on *)
(* the same seed and rotate to another one.  No step tells the seeds apart,  *)
(* so the first job may as well be for s1; MCNext is Next otherwise.         *)
EXTENDS LightEngine
CONSTANTS w1, w2, s1, s2

SeedsNow == IF job_generation_ = 0 THEN {s1} ELSE Seeds

MCNext ==
  \/ \E seed \in SeedsNow : set_job(seed)
  \/ SetJobStep
  \/ fill_publish \/ fill_finish \/ fill_abort
  \/ \E w \in Workers : WorkerStep(w)
  \/ stop \/ stop_cancel \/ stop_return

MCSpec == Init /\ [][MCNext]_vars /\ Fairness
=============================================================================
