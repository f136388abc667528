------------------------------ MODULE MCStream ------------------------------
(* One browser and a log of two events: one that is skipped before a       *)
(* message, or a message before one that is for another member. Small      *)
(* enough for liveness too.                                                *)
EXTENDS Stream, TLC

SkipFirst == <<"other", "message">>
PrivateLast == <<"message", "private">>
TwoHistories == {SkipFirst, PrivateLast}
=============================================================================
