---------------------------- MODULE UnreadCounts ----------------------------
(***************************************************************************)
(* What a tab knows about one unread count (web/src/unread-counts.ts): the *)
(* sequence of its snapshot, the events retained above it, and how it      *)
(* recovers from events it may have lost. Operators only; LiveCounts       *)
(* drives them.                                                            *)
(***************************************************************************)
EXTENDS Naturals, FiniteSets, FiniteSetsExt

CONSTANT Limit   \* how many events a tab retains

NoRequest == [open |-> FALSE, losses |-> 0, received |-> FALSE, success |-> FALSE]

unreadState(seq) ==
  [snapshot |-> seq, seen |-> seq, lostThrough |-> 0, recovering |-> FALSE, losses |-> 0,
   request |-> NoRequest, events |-> {}]

observe(state, seq) == [state EXCEPT !.seen = IF seq > @ THEN seq ELSE @]

ignored(state, seq) ==
  seq <= state.snapshot \/ \E event \in state.events : event.seq = seq

lossThrough(state, through) ==
  [state EXCEPT !.lostThrough = IF through > @ THEN through ELSE @,
                !.recovering = TRUE, !.losses = @ + 1]
loss(state) == lossThrough(state, state.seen)

overflows(state) == Cardinality(state.events) = Limit

(* Mutant: a full retention drops its events without calling them lost.    *)
roomSilently(state) == IF overflows(state) THEN [state EXCEPT !.events = {}] ELSE state

(* A full retention is dropped, and lost through its newest event.         *)
room(state) ==
  IF overflows(state)
  THEN lossThrough([state EXCEPT !.events = {}], Max({event.seq : event \in state.events}))
  ELSE state

retain(state, seq, eligible) ==
  [state EXCEPT !.events = @ \cup {[seq |-> seq, eligible |-> eligible, applied |-> FALSE]}]

applicable(state) ==
  IF state.recovering THEN {} ELSE {event \in state.events : event.eligible /\ ~event.applied}

markApplied(state, events) ==
  [state EXCEPT !.events = (@ \ events) \cup {[event EXCEPT !.applied = TRUE] : event \in events}]

(* The snapshot's numbers replace the shown ones, so whatever is newer is  *)
(* to be applied again.                                                    *)
snapshot(state, seq) ==
  [state EXCEPT !.snapshot = seq,
                !.events = {[event EXCEPT !.applied = FALSE] : event \in {e \in @ : e.seq > seq}}]

received(state) == IF state.request = NoRequest THEN state ELSE [state EXCEPT !.request.received = TRUE]

completes(state) == state.request # NoRequest /\ state.request.success /\ state.request.received

(* Mutant: a snapshot that came after the request covers every loss.       *)
coveredAnyway(state) == TRUE

covered(state) == state.request.losses = state.losses /\ state.snapshot >= state.lostThrough

(* Mutant: a snapshot that came too early for a loss ends the recovery's   *)
(* requests.                                                               *)
needsNone(state) == FALSE

needsAnother(state) == completes(state) /\ ~covered(state)

(* The response and the snapshot come in either order; a loss since the    *)
(* request was dispatched leaves the tab recovering.                       *)
complete(state) ==
  IF completes(state)
  THEN [state EXCEPT !.request = NoRequest, !.recovering = ~covered(state)]
  ELSE state

failedRequest(state) == loss([state EXCEPT !.request = NoRequest])
=============================================================================
