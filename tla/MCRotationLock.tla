--------------------------- MODULE MCRotationLock ---------------------------
(* Instances of RotationLock; two rotating threads exercise the lock's own    *)
(* generality, one is what MiningEngine's job_mutex_ allows.                 *)
EXTENDS RotationLock
CONSTANTS r1, r2, r3, w1, w2
=============================================================================
