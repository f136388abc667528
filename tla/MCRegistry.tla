----------------------------- MODULE MCRegistry -----------------------------
(* Two streams and two ending requests on two sessions of an account that  *)
(* may have one stream.                                                    *)
EXTENDS Registry, TLC

CONSTANTS s1, s2, alice

Accounts == s1 :> alice @@ s2 :> alice

Symmetry ==
  Permutations(Streams) \cup Permutations(Endings) \cup Permutations(Sessions)
=============================================================================
