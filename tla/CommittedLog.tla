---------------------------- MODULE CommittedLog ----------------------------
(***************************************************************************)
(* What one organisation's durable event log promises everything that      *)
(* reads it: a window boundary+1 .. eventSeq of consecutive sequences that *)
(* grows only at its upper end, by commits, and shrinks only at its lower  *)
(* end, by retention.  A reader's cursor moves through that window and     *)
(* never past a sequence it was not given.                                 *)
(*                                                                         *)
(* EventLog, the transactions that produce this behaviour, implements it.  *)
(* Stream assumes it.                                                      *)
(***************************************************************************)
EXTENDS Naturals

CONSTANT Readers

VARIABLES
  boundary,   \* organization.event_log_boundary_seq: replay starts above it
  eventSeq,   \* organization.event_seq: the newest committed sequence
  cursor      \* the sequence each reader has been given everything up to

vars == <<boundary, eventSeq, cursor>>

(* The sequences a replay can still return. *)
Window == boundary + 1 .. eventSeq

Init ==
  /\ eventSeq \in Nat
  /\ boundary = eventSeq
  /\ cursor = [r \in Readers |-> eventSeq]

(* One writing transaction commits one or more new sequences at the top. *)
Commit ==
  /\ eventSeq' \in Nat
  /\ eventSeq' > eventSeq
  /\ UNCHANGED <<boundary, cursor>>

(* One retention batch removes the window's lowest sequences. *)
Expire ==
  /\ boundary' \in boundary + 1 .. eventSeq
  /\ UNCHANGED <<eventSeq, cursor>>

(* A page load starts a reader at the newest committed sequence. *)
Load(r) ==
  /\ cursor' = [cursor EXCEPT ![r] = eventSeq]
  /\ UNCHANGED <<boundary, eventSeq>>

(* A read hands over the sequences right above a cursor inside the window. *)
Deliver(r) ==
  /\ boundary <= cursor[r]
  /\ \E upTo \in cursor[r] .. eventSeq : cursor' = [cursor EXCEPT ![r] = upTo]
  /\ UNCHANGED <<boundary, eventSeq>>

Next ==
  \/ Commit
  \/ Expire
  \/ \E r \in Readers : Load(r) \/ Deliver(r)

Spec == Init /\ [][Next]_vars
=============================================================================
