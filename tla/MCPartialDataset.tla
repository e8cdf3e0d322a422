-------------------------- MODULE MCPartialDataset --------------------------
(* Instances of PartialDataset: three one-item chunks (publication order),   *)
(* and two chunks of several sub-chunks with a short last one (cancellation  *)
(* checkpoints, spans).                                                      *)
EXTENDS PartialDataset
CONSTANTS r1, q1, q2
=============================================================================
