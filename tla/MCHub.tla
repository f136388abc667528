------------------------------- MODULE MCHub -------------------------------
(* Two raisers race on two levels, the durable one and one generation,     *)
(* while a stream waits on both.                                           *)
EXTENDS Hub, TLC

CONSTANTS presence, stream

Both == stream :> {Durable, presence}
=============================================================================
