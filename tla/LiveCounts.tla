----------------------------- MODULE LiveCounts -----------------------------
(***************************************************************************)
(* The unread count of a channel in a member's open tabs: another member   *)
(* posts, the member reads in some tab, each tab's stream sends unread     *)
(* events and recounts, and the tab adds up and asks for a recount when it *)
(* may have missed something (decision 34).                                *)
(*                                                                         *)
(* A reading commits before it wakes the member's streams                  *)
(* (unread/reading.go, unread/changes.go). A stream recounts between its   *)
(* batches, when an event or a change asks for it and a slot is free       *)
(* (realtime/sidebar.go, recount_limit.go). No tab shows the channel, so   *)
(* every post of another member comes as an unread frame. The hub wakes    *)
(* streams for new events (Hub), which are read in order and without a gap *)
(* (Stream). Recounts are not spaced in time.                              *)
(***************************************************************************)
EXTENDS UnreadCounts, Sequences

CONSTANTS
  Tabs, Slots,
  MaxEvents, MaxReads, MaxFaults, MaxPipe   \* bounds of the model

ASSUME LiveCountsAssumption ==
  /\ IsFiniteSet(Tabs) /\ Slots \in Nat \ {0} /\ Limit \in Nat \ {0}
  /\ MaxEvents \in Nat /\ MaxReads \in Nat /\ MaxFaults \in Nat /\ MaxPipe \in Nat \ {0}

VARIABLES
  log,      \* the authors of the channel's messages, in the order of the events
  read,     \* the messages the member has read
  reader,   \* how the COMMIT of the reading under way ended, until it is published
  landing,  \* what a COMMIT without a reply may still make read
  changes,  \* the generation of the member's entry in unread.Changes
  stream,   \* the stream of each tab, or the event it resumes after
  pipe,     \* frames sent to each tab and not received
  tab,      \* what each tab knows
  shown,    \* the count each tab shows
  timer,    \* each tab's timer for the next resync
  post,     \* each tab's resync request
  late,     \* history: tabs that no recount told of a COMMIT that landed late
  reads, faults   \* the readings and faults so far

persistedVars == <<log, read, reader, landing, reads>>
tabVars == <<tab, shown, timer, post>>
vars == <<persistedVars, changes, stream, pipe, tabVars, late, faults>>

Authors == {"self", "other"}
Off(after) == [at |-> "off", after |-> after]
On(t) == stream[t].at # "off"
NoFrame == [kind |-> "none"]
Watching == {t \in Tabs : On(t)}

(* The messages of other members among the first n that are not in the     *)
(* set: a member's own posts are read in the posting transaction.          *)
UnreadOf(n, readSet) == {m \in 1..n : log[m] = "other" /\ m \notin readSet}
Count == Cardinality(UnreadOf(Len(log), read))

Frame == [kind: {"unread"}, seq: 1..MaxEvents]
         \cup [kind: {"sidebar"}, seq: 0..MaxEvents, count: 0..MaxEvents]
Running == [at: {"loop", "count", "send"}, pos: 0..MaxEvents, dirty: BOOLEAN,
            covered: Nat, observed: Nat, frame: Frame \cup {NoFrame}]

TypeOK ==
  /\ log \in Seq(Authors) /\ Len(log) <= MaxEvents
  /\ read \subseteq 1..Len(log) /\ landing \subseteq 1..Len(log)
  /\ reader \in {"idle", "committed", "unknown"}
  /\ changes \in Nat /\ (Watching = {} => changes = 0)
  /\ stream \in [Tabs -> Running \cup [at: {"off"}, after: 0..MaxEvents]]
  /\ Cardinality({t \in Tabs : stream[t].at = "count"}) <= Slots
  /\ pipe \in [Tabs -> Seq(Frame)]
  /\ \A t \in Tabs :
       /\ Len(pipe[t]) <= MaxPipe /\ (On(t) \/ pipe[t] = <<>>)
       /\ Cardinality(tab[t].events) <= Limit
       /\ post[t] # "none" <=> (tab[t].request # NoRequest /\ ~tab[t].request.success)
  /\ shown \in [Tabs -> 0..MaxEvents]
  /\ timer \in [Tabs -> BOOLEAN]
  /\ post \in [Tabs -> {"none", "sent", "served"}]
  /\ late \subseteq Tabs
  /\ reads \in 0..MaxReads /\ faults \in 0..MaxFaults

Init ==
  /\ log = <<>> /\ read = {} /\ reader = "idle" /\ landing = {} /\ reads = 0
  /\ changes = 0
  /\ stream = [t \in Tabs |-> Off(0)] /\ pipe = [t \in Tabs |-> <<>>]
  /\ tab = [t \in Tabs |-> unreadState(0)] /\ shown = [t \in Tabs |-> 0]
  /\ timer = [t \in Tabs |-> FALSE] /\ post = [t \in Tabs |-> "none"]
  /\ late = {} /\ faults = 0

Fault == faults < MaxFaults /\ faults' = faults + 1
NoFault == faults' = faults

(***************************************************************************)
(* Writes, and the wakes they cause.                                       *)
(***************************************************************************)
(* Changes keeps nothing without a watch: a generation starts at zero with *)
(* the first one.                                                          *)
ReadChanged == IF Watching = {} THEN changes ELSE changes + 1

Post(author) ==
  /\ Len(log) < MaxEvents
  /\ log' = Append(log, author)
  /\ UNCHANGED <<read, reader, landing, reads, changes, stream, pipe, tabVars, late>> /\ NoFault

(* The member reads through a message. A COMMIT without a reply may have   *)
(* been applied, may be applied later, or never.                           *)
Read(through) ==
  LET all == read \cup 1..through
  IN  /\ reads < MaxReads /\ reads' = reads + 1
      /\ reader = "idle" /\ landing = {} /\ all # read
      /\ \/ read' = all /\ reader' \in {"committed", "unknown"} /\ landing' = {}
         \/ read' = read /\ reader' = "unknown" /\ landing' = all
      /\ UNCHANGED <<log, changes, stream, pipe, tabVars, late>> /\ NoFault

Land ==
  /\ landing # {} /\ landing' = {}
  /\ read' = read \cup landing
  /\ late' = IF reader = "unknown" THEN late ELSE Tabs
  /\ UNCHANGED <<log, reader, reads, changes, stream, pipe, tabVars>> /\ NoFault

(* Mutant: a reading whose outcome is unknown publishes nothing.           *)
PublishesCommitted == reader = "committed"

Publishes == reader \in {"committed", "unknown"}

Publish ==
  /\ reader # "idle" /\ reader' = "idle"
  /\ changes' = IF Publishes THEN ReadChanged ELSE changes
  /\ UNCHANGED <<log, read, landing, reads, stream, pipe, tabVars, late>> /\ NoFault

(***************************************************************************)
(* The streams.                                                            *)
(***************************************************************************)
streamOnly == UNCHANGED <<persistedVars, changes, tabVars>> /\ NoFault

(* A connection resumes after an event its tab has received. It watches    *)
(* before its first recount, which it always owes.                         *)
Connect(t) ==
  /\ ~On(t)
  /\ \E pos \in 0..stream[t].after :
       stream' = [stream EXCEPT ![t] = [at |-> "loop", pos |-> pos, dirty |-> TRUE,
                                        covered |-> 0, observed |-> 0, frame |-> NoFrame]]
  /\ streamOnly /\ UNCHANGED <<pipe, late>>

(* The member's own posts ask for a recount.                               *)
Triggers(n) == log[n] = "self"

Deliver(t) ==
  LET n == stream[t].pos + 1
  IN  /\ stream[t].at = "loop" /\ n <= Len(log)
      /\ Len(pipe[t]) < MaxPipe
      /\ stream' = [stream EXCEPT ![t].pos = n, ![t].dirty = @ \/ Triggers(n)]
      /\ pipe' = [pipe EXCEPT ![t] = Append(@, [kind |-> "unread", seq |-> n])]
      /\ streamOnly /\ late' = late

SlotsUsed == Cardinality({t \in Tabs : stream[t].at = "count"})

RecountDue(t) ==
  stream[t].at = "loop" /\ (stream[t].dirty \/ changes > stream[t].covered)

(* The generation is captured before the count is read.                    *)
Recount(t) ==
  /\ RecountDue(t) /\ SlotsUsed < Slots
  /\ stream' = [stream EXCEPT ![t].at = "count", ![t].dirty = TRUE, ![t].observed = changes]
  /\ streamOnly /\ UNCHANGED <<pipe, late>>

(* Mutant: a recount that gets no slot is given up.                        *)
DeferAndForget(t) ==
  /\ RecountDue(t)
  /\ stream' = [stream EXCEPT ![t].dirty = FALSE]
  /\ streamOnly /\ UNCHANGED <<pipe, late>>

(* It is too early, or no slot comes free for a while: other members'      *)
(* recounts may have taken them. The recount stays due, and captures the   *)
(* generation anew.                                                        *)
Defer(t) ==
  /\ RecountDue(t)
  /\ stream' = [stream EXCEPT ![t].dirty = TRUE]
  /\ streamOnly /\ UNCHANGED <<pipe, late>>

(* One snapshot gives the counts and the sequence they are exact at.       *)
CountUnread(t) ==
  /\ stream[t].at = "count"
  /\ stream' = [stream EXCEPT ![t].at = "send",
                              ![t].frame = [kind |-> "sidebar", seq |-> Len(log), count |-> Count]]
  /\ late' = late \ {t}
  /\ streamOnly /\ pipe' = pipe

(* Mutant: the frame covers the changes published since it was counted.    *)
CoversNow(t) == changes

Covers(t) == stream[t].observed

SendSidebar(t) ==
  /\ stream[t].at = "send" /\ Len(pipe[t]) < MaxPipe
  /\ pipe' = [pipe EXCEPT ![t] = Append(@, stream[t].frame)]
  /\ stream' = [stream EXCEPT ![t].at = "loop", ![t].dirty = FALSE, ![t].covered = Covers(t),
                              ![t].frame = NoFrame]
  /\ streamOnly /\ late' = late

(* The events whose frames the tab has received.                           *)
ReceivedUpTo(t) ==
  IF ~On(t) THEN stream[t].after
  ELSE LET coming == {pipe[t][i].seq : i \in {j \in 1..Len(pipe[t]) : pipe[t][j].kind = "unread"}}
       IN  IF coming = {} THEN stream[t].pos ELSE Min(coming) - 1

(* The streams of these tabs end and release their watches.                *)
Dropped(ts) ==
  /\ stream' = [t \in Tabs |-> IF t \in ts THEN Off(ReceivedUpTo(t)) ELSE stream[t]]
  /\ pipe' = [t \in Tabs |-> IF t \in ts THEN <<>> ELSE pipe[t]]
  /\ changes' = IF Watching \subseteq ts THEN 0 ELSE changes

(* A connection breaks, its write or its recount fails.                    *)
Drop(t) ==
  /\ On(t) /\ Fault /\ Dropped({t})
  /\ UNCHANGED <<persistedVars, tabVars, late>>

(* The process stops, and with it the readings that are not published.     *)
Restart ==
  /\ Fault /\ Dropped(Tabs)
  /\ reader' = "idle"
  /\ UNCHANGED <<log, read, landing, reads, tabVars, late>>

(***************************************************************************)
(* The tabs (web/src/sidebar-unread.ts).                                   *)
(***************************************************************************)
(* A tab becomes state and shows count; a timer is set if it needs one and *)
(* has neither a timer nor a request.                                      *)
Becomes(t, state, count, needed) ==
  /\ tab' = [tab EXCEPT ![t] = state]
  /\ shown' = [shown EXCEPT ![t] = count]
  /\ timer' = [timer EXCEPT ![t] = @ \/ (needed /\ state.request = NoRequest)]

(* Everything applicable is added to the count.                            *)
Applied(t, state, count, needed) ==
  Becomes(t, markApplied(state, applicable(state)), count + Cardinality(applicable(state)), needed)

Received(t) ==
  /\ pipe[t] # <<>>
  /\ pipe' = [pipe EXCEPT ![t] = Tail(@)]
  /\ UNCHANGED <<persistedVars, changes, stream, post, late>>

ReceiveUnread(t) ==
  LET frame == Head(pipe[t])
      state == observe(tab[t], frame.seq)
  IN  /\ Received(t) /\ NoFault /\ frame.kind = "unread"
      /\ IF ignored(state, frame.seq)
         THEN Becomes(t, state, shown[t], FALSE)
         ELSE LET kept == retain(room(state), frame.seq, log[frame.seq] = "other")
              IN  Applied(t, kept, shown[t], overflows(state))

(* The frame is malformed or cannot be applied; its sequence may have been *)
(* read before that.                                                       *)
LoseUnread(t) ==
  LET frame == Head(pipe[t])
  IN  /\ Received(t) /\ Fault /\ frame.kind = "unread"
      /\ \E state \in {tab[t], observe(tab[t], frame.seq)} : Becomes(t, loss(state), shown[t], TRUE)

(* A request that is answered needs another if it left the tab recovering. *)
ReceiveSidebar(t) ==
  LET frame == Head(pipe[t])
      state == complete(received(snapshot(observe(tab[t], frame.seq), frame.seq)))
  IN  /\ Received(t) /\ NoFault /\ frame.kind = "sidebar"
      /\ Applied(t, state, frame.count, state.recovering)

(* The snapshot may have been shown before it was found to be wrong.       *)
LoseSidebar(t) ==
  LET frame == Head(pipe[t])
  IN  /\ Received(t) /\ Fault /\ frame.kind = "sidebar"
      /\ \E state \in {tab[t], observe(tab[t], frame.seq)}, count \in {shown[t], frame.count} :
           Becomes(t, complete(received(loss(state))), count, TRUE)

tabOnly == UNCHANGED <<persistedVars, stream, pipe, late>>

(* The tab is looked at again.                                             *)
Resume(t) ==
  /\ Fault /\ Becomes(t, tab[t], shown[t], TRUE)
  /\ tabOnly /\ UNCHANGED <<changes, post>>

Dispatch(t) ==
  /\ timer[t]
  /\ timer' = [timer EXCEPT ![t] = FALSE]
  /\ tab' = [tab EXCEPT ![t].request = [NoRequest EXCEPT !.open = TRUE, !.losses = tab[t].losses]]
  /\ post' = [post EXCEPT ![t] = "sent"]
  /\ tabOnly /\ UNCHANGED <<shown, changes>> /\ NoFault

(* The request makes every stream of the member recount.                   *)
RequestResync(t) ==
  /\ post[t] = "sent"
  /\ changes' = ReadChanged
  /\ post' = [post EXCEPT ![t] = "served"]
  /\ tabOnly /\ UNCHANGED <<tab, shown, timer>> /\ NoFault

Succeed(t) ==
  LET answered == [tab[t] EXCEPT !.request.success = TRUE]
  IN  /\ post[t] = "served" /\ post' = [post EXCEPT ![t] = "none"]
      /\ Applied(t, complete(answered), shown[t], needsAnother(answered))
      /\ tabOnly /\ UNCHANGED changes /\ NoFault

(* The request is refused, is lost, or its answer is.                      *)
Fail(t) ==
  /\ post[t] # "none" /\ post' = [post EXCEPT ![t] = "none"] /\ Fault
  /\ Becomes(t, failedRequest(tab[t]), shown[t], TRUE)
  /\ tabOnly /\ UNCHANGED changes

Run(t) == Deliver(t) \/ Recount(t) \/ CountUnread(t) \/ SendSidebar(t)
Receive(t) == ReceiveUnread(t) \/ ReceiveSidebar(t)
Resync(t) == RequestResync(t) \/ Succeed(t)

Next ==
  \/ \E author \in Authors : Post(author)
  \/ \E through \in 1..Len(log) : Read(through)
  \/ Land \/ Publish
  \/ \E t \in Tabs :
       \/ Connect(t) \/ Run(t) \/ Defer(t) \/ Drop(t)
       \/ Receive(t) \/ LoseUnread(t) \/ LoseSidebar(t)
       \/ Resume(t) \/ Dispatch(t) \/ Resync(t) \/ Fail(t)
  \/ Restart

(* Streams reconnect and run, a slot is handed to those that wait, frames  *)
(* arrive, timers fire, requests are answered and queries end. A stream    *)
(* that gets no slot asks again, and meets a free one at last.             *)
Fairness ==
  /\ WF_vars(Publish)
  /\ \A t \in Tabs : /\ WF_vars(Connect(t)) /\ WF_vars(Run(t)) /\ WF_vars(Receive(t))
                     /\ WF_vars(Dispatch(t)) /\ WF_vars(Resync(t))

Spec == Init /\ [][Next]_vars /\ Fairness

-----------------------------------------------------------------------------
(* Nothing is on its way to the tab: it has every event, no recount or     *)
(* reading is under way, and it is not waiting for one.                    *)
Quiet(t) ==
  /\ stream[t].at = "loop" /\ stream[t].pos = Len(log) /\ ~stream[t].dirty
  /\ stream[t].covered = changes /\ pipe[t] = <<>> /\ reader = "idle"
  /\ ~tab[t].recovering /\ t \notin late

(* A tab with nothing on its way shows the exact count, whatever was lost, *)
(* repeated or read in another tab before (decision 34, reading.go:83-99). *)
ExactWhenQuiet == \A t \in Tabs : Quiet(t) => shown[t] = Count

(* As long as nothing is read, a tab that is not recovering shows exactly  *)
(* the messages up to the newest event it has seen: none of them twice     *)
(* after a reconnection, none missed after a loss (unread-counts.ts:30-64).*)
AddsUpWhatItSaw ==
  read = {} => \A t \in Tabs :
    ~tab[t].recovering => shown[t] = Cardinality(UnreadOf(tab[t].seen, {}))

(* A count is wrong for a while only: after the last fault every tab shows *)
(* the exact count again and keeps it (decision 34).                       *)
ExactAgain == <>[](\A t \in Tabs : t \in late \/ shown[t] = Count)
=============================================================================
