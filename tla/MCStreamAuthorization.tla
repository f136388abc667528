----------------------- MODULE MCStreamAuthorization -----------------------
(* Two streams of one account, which may join, leave and join again, and   *)
(* two organisations that may pass a slug on.                              *)
EXTENDS StreamAuthorization, TLC

CONSTANTS m1, m2, alice

Account == m1 :> alice @@ m2 :> alice

Symmetry ==
  Permutations(Streams) \cup Permutations(Orgs) \cup Permutations(Slugs) \cup Permutations(Members)
=============================================================================
