----------------------------- MODULE MCEventLog -----------------------------
(* A small organisation: two current writers and one of an older binary    *)
(* share three sequences with two retention workers and one reader.        *)
EXTENDS EventLog, TLC

(* The current writers are interchangeable, and so are the cleaners. *)
Symmetry == Permutations(Writers \ Legacy) \cup Permutations(Cleaners)
=============================================================================
