----------------------------- MODULE MCReadState -----------------------------
(* A reading and a writing request of a member, and two topics, on a       *)
(* channel with room for three events after the one of the join.           *)
EXTENDS ReadState, TLC

Symmetry == Permutations(Topics)
=============================================================================
