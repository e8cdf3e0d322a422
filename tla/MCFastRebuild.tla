--------------------------- MODULE MCFastRebuild ---------------------------
(* Instances of FastRebuild: two builders, two seeds.                        *)
EXTENDS FastRebuild
CONSTANTS w1, w2, s1, s2
=============================================================================
