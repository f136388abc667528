---------------------------- MODULE MCLiveCounts ----------------------------
(* One tab, which shares one slot with the other members' recounts.        *)
EXTENDS LiveCounts

CONSTANT tab1
=============================================================================
