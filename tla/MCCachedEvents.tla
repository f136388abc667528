--------------------------- MODULE MCCachedEvents ---------------------------
(* Two streams read one cursor of a log whose next event fills their       *)
(* batch, so the empty batch is the short one; two loads, so that one can  *)
(* be abandoned. Small enough, without symmetry, for liveness.             *)
EXTENDS CachedEvents, TLC
=============================================================================
