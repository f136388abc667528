----------------------------- MODULE MCPresence -----------------------------
(* Two members and two streams: both of one member, or one of each.        *)
EXTENDS Presence, TLC

Symmetry == Permutations(Members) \cup Permutations(Streams) \cup Permutations(Timers)
=============================================================================
