------------------------------- MODULE Stream -------------------------------
(***************************************************************************)
(* One connection's delivery loop, Stream.Run, between the committed log   *)
(* it reads, the hub level that wakes it, the membership it re-checks      *)
(* before every frame, and the browser that reconnects with the last id it *)
(* received, or reloads after a reset once nothing is at stake on its page. *)
(*                                                                         *)
(* The log is the window CommittedLog promises.  A read returns it as it   *)
(* is during the call, which is what the batch cache keeps up (a short     *)
(* batch is always read afresh).  The membership check decides on what is  *)
(* committed when it starts; the frame it allows is written later, and     *)
(* anything may happen in between.                                         *)
(***************************************************************************)
EXTENDS Naturals, Sequences

CONSTANTS
  Histories,    \* what the events of the log may be to the subscription
  BatchSize,    \* events one read returns (DefaultBatchSize)
  PipeSize,     \* frames the network holds before a write blocks
  MaxSeq,       \* model bound on committed sequences
  MaxFailures   \* model bound on failed connections and restarts

ASSUME StreamAssumption ==
  /\ Histories \subseteq [1 .. MaxSeq -> {"message", "private", "other"}]
  /\ BatchSize \in Nat \ {0}
  /\ PipeSize \in Nat \ {0}
  /\ MaxSeq \in Nat
  /\ MaxFailures \in Nat

VARIABLES
  boundary, eventSeq,  \* the committed window
  event,               \* what each event is or will be to the subscription
  hub,                 \* the hub's durable level
  checked,             \* what the watermark has read and not yet raised
  access,              \* whether the bound member is a member
  failures,            \* failed connections and restarts so far
  pc,                  \* where the loop is; "off" when nothing runs
  cursor, upTo,        \* the loop's cursor and the end of its batch
  draining, connected, \* the loop's variables of these names
  seen, covered,       \* seen.durable, and the level covered by a read
  sentId,              \* transportSender.cursor: the last id written
  frame,               \* what is being checked or written
  due,                 \* whether the heartbeat interval has passed
  late,                \* frames written after access was lost (2: several)
  pipe,                \* frames written and not yet received
  page, lastId,        \* the page's cursor and the browser's Last-Event-ID
  shown,               \* the messages this page has received
  reload,              \* what a page whose stream was reset does about it
  atStake              \* whether a reload would then lose a send

log == <<boundary, eventSeq, event>>
loop == <<pc, cursor, upTo, draining, connected, seen, covered, frame>>
display == <<page, lastId, shown>>
browser == <<display, reload, atStake>>
vars == <<log, hub, checked, access, failures, loop, sentId, due, late, pipe, browser>>

(* The events the subscription selects and the member may receive, and     *)
(* those it selects that are for another member. The others it skips.      *)
Wanted == {n \in 1 .. MaxSeq : event[n] = "message"}
Private == {n \in 1 .. MaxSeq : event[n] = "private"}

(* A frame of id 0 carries no id.  "private" is an event whose audience    *)
(* check denies it: it is rendered and checked but never written.          *)
Kinds == {"message", "private", "checkpoint", "beat", "opening", "state", "reset"}

Frames == [kind : Kinds, id : Nat]

NoFrame == [kind |-> "state", id |-> 0]

Off == pc = "off"

AtMost(a, b) == IF a <= b THEN a ELSE b
AtLeast(a, b) == IF a <= b THEN b ELSE a

-----------------------------------------------------------------------------
(* The rest of the system: commits, retention, raises, lost access, time.  *)

Commit ==
  /\ eventSeq < MaxSeq
  /\ eventSeq' = eventSeq + 1
  /\ UNCHANGED <<boundary, event, hub, checked, access, failures, loop, sentId, due, late, pipe, browser>>

Expire ==
  /\ boundary' \in boundary + 1 .. eventSeq
  /\ UNCHANGED <<eventSeq, event, hub, checked, access, failures, loop, sentId, due, late, pipe, browser>>

(* A raise comes after its commit: late, out of order, or never. *)
Raise ==
  /\ hub' \in hub + 1 .. eventSeq
  /\ checked' = IF checked > hub' THEN checked ELSE 0
  /\ UNCHANGED <<log, access, failures, loop, sentId, due, late, pipe, browser>>

(* The watermark reads the committed sequence of an organisation with a    *)
(* registered connection, and raises the hub if one is still registered.   *)
(* A value that is not ahead of the hub changes nothing and is not kept.   *)
WatermarkRead ==
  /\ ~Off
  /\ eventSeq > hub /\ checked # eventSeq
  /\ checked' = eventSeq
  /\ UNCHANGED <<log, hub, access, failures, loop, sentId, due, late, pipe, browser>>

WatermarkRaise ==
  /\ ~Off
  /\ hub < checked
  /\ hub' = checked
  /\ checked' = 0
  /\ UNCHANGED <<log, access, failures, loop, sentId, due, late, pipe, browser>>

Revoke ==
  /\ access
  /\ access' = FALSE
  /\ UNCHANGED <<log, hub, checked, failures, loop, sentId, due, late, pipe, browser>>

(* The heartbeat interval passes since the last write it counts from. *)
Tick ==
  /\ ~Off
  /\ ~due
  /\ due' = TRUE
  /\ UNCHANGED <<log, hub, checked, access, failures, loop, sentId, late, pipe, browser>>

-----------------------------------------------------------------------------
(* The browser.                                                            *)

(* Run's own variables when it starts after a sequence. *)
Started(at, after) ==
  /\ pc' = at
  /\ cursor' = after /\ upTo' = after /\ sentId' = after
  /\ draining' = TRUE /\ connected' = FALSE
  /\ seen' = 0 /\ covered' = 0
  /\ frame' = NoFrame
  /\ due' = FALSE

(* They are gone when it returns. *)
Stopped == Started("off", 0)

(* Mutant: the browser reconnects from the page's cursor. *)
ConnectFromPage ==
  /\ Off /\ access /\ pipe = <<>>
  /\ reload = "none"
  /\ Started("read", page)
  /\ UNCHANGED <<log, hub, checked, access, failures, late, pipe, browser>>

(* The request for the stream resolves the membership first, then the loop *)
(* starts after the id the browser names.  A source closed by a reset does *)
(* not connect again.                                                      *)
Connect ==
  /\ Off /\ access /\ pipe = <<>>
  /\ reload = "none"
  /\ Started("read", lastId)
  /\ UNCHANGED <<log, hub, checked, access, failures, late, pipe, browser>>

(* A page whose stream was reset shows that it stopped while something is  *)
(* at stake, and has a timer for its reload while nothing is.              *)
Decision(stake) == IF stake THEN "held" ELSE "timed"

(* A reset closes the source and only decides on the reload: a running     *)
(* request, a failed send's alert or a pending item holds it.  What is at  *)
(* stake counts from here on.                                              *)
Receive ==
  /\ pipe # <<>>
  /\ pipe' = Tail(pipe)
  /\ LET f == Head(pipe)
     IN IF f.kind = "reset"
        THEN /\ \E stake \in BOOLEAN : atStake' = stake /\ reload' = Decision(stake)
             /\ UNCHANGED display
        ELSE /\ lastId' = IF f.id > 0 THEN f.id ELSE lastId
             /\ shown' = IF f.kind = "message" THEN shown \cup {f.id} ELSE shown
             /\ UNCHANGED <<page, reload, atStake>>
  /\ UNCHANGED <<log, hub, checked, access, failures, loop, sentId, due, late>>

(* What the page's reload leaves alone. *)
Elsewhere == <<log, hub, checked, access, failures, loop, sentId, due, late, pipe>>

(* A send starts, fails or ends, and the member retries or takes it back,  *)
(* or leaves it as it is.                                                  *)
StakeChanges ==
  /\ reload # "none"
  /\ atStake' = ~atStake
  /\ UNCHANGED <<display, reload, Elsewhere>>

(* Mutant: what is no longer at stake goes unnoticed. *)
DecideToHold ==
  /\ reload = "timed" /\ atStake
  /\ reload' = "held"
  /\ UNCHANGED <<display, atStake, Elsewhere>>

(* The composer's observer or the queue's event sees the change: a timer   *)
(* is cleared, or a new one set.                                           *)
Decide ==
  /\ reload # "none" /\ reload # Decision(atStake)
  /\ reload' = Decision(atStake)
  /\ UNCHANGED <<display, atStake, Elsewhere>>

(* The page comes back at the newest committed sequence, to a member only. *)
Reloaded ==
  /\ reload' = "none" /\ atStake' = FALSE
  /\ IF access THEN page' = eventSeq /\ lastId' = eventSeq /\ shown' = {}
               ELSE UNCHANGED display
  /\ UNCHANGED Elsewhere

(* A timer that fires looks again, as the observer may not have run yet.   *)
TimerFires ==
  /\ reload = "timed"
  /\ \/ ~atStake /\ Reloaded
     \/ atStake /\ reload' = "held" /\ UNCHANGED <<display, atStake, Elsewhere>>

(* The member follows the link a held page shows.                          *)
FollowLink == reload = "held" /\ Reloaded

(* A read, a render, a check or a write fails, the context is cancelled,   *)
(* or the network does not deliver: Run returns, and the frames on their   *)
(* way may be lost.                                                        *)
Fail ==
  /\ ~Off
  /\ failures < MaxFailures
  /\ failures' = failures + 1
  /\ Stopped
  /\ pipe' \in {pipe, <<>>}
  /\ UNCHANGED <<log, hub, checked, access, late, browser>>

(* The process restarts: a fresh hub knows no sequence. *)
Restart ==
  /\ failures < MaxFailures
  /\ failures' = failures + 1
  /\ Stopped
  /\ hub' = 0 /\ checked' = 0
  /\ pipe' \in {pipe, <<>>}
  /\ UNCHANGED <<log, access, late, browser>>

-----------------------------------------------------------------------------
(* Run.                                                                    *)

(* Nothing a step of the loop leaves alone is named in the steps below. *)
Others == <<log, hub, checked, access, failures, browser>>

(* Hand a frame, or an event for another member, to its membership check. *)
Submit(kind, id) ==
  /\ pc' = "check"
  /\ frame' = [kind |-> kind, id |-> id]

MustRead == draining \/ seen > covered

(* Mutant: a cursor at the boundary counts as expired. *)
ExpiredAtBoundary(c) == c <= boundary \/ c > eventSeq

ExpiredCursor(c) == c < boundary \/ c > eventSeq

(* A batch that fills its limit leaves the loop draining; an expired       *)
(* cursor ends the stream with a reset.                                    *)
Read ==
  /\ pc = "read"
  /\ MustRead
  /\ covered' = seen
  /\ IF ExpiredCursor(cursor)
     THEN /\ Submit("reset", cursor)
          /\ UNCHANGED <<upTo, draining>>
     ELSE /\ upTo' = AtMost(cursor + BatchSize, eventSeq)
          /\ draining' = (eventSeq >= cursor + BatchSize)
          /\ pc' = "opening"
          /\ UNCHANGED frame
  /\ UNCHANGED <<cursor, connected, seen, sentId, due, late, pipe, Others>>

SkipRead ==
  /\ pc = "read"
  /\ ~MustRead
  /\ upTo' = cursor
  /\ pc' = "opening"
  /\ UNCHANGED <<cursor, draining, connected, seen, covered, frame, sentId, due, late, pipe, Others>>

(* The pins are refreshed before the first batch, once its cursor is known *)
(* to be valid.                                                            *)
Opening ==
  /\ pc = "opening"
  /\ \/ /\ ~connected
        /\ Submit("opening", 0)
     \/ /\ pc' = "deliver"
        /\ UNCHANGED frame
  /\ UNCHANGED <<cursor, upTo, draining, connected, seen, covered, sentId, due, late, pipe, Others>>

(* An event outside the subscription is skipped. *)
Skip ==
  /\ pc = "deliver" /\ cursor < upTo
  /\ cursor + 1 \notin Wanted \cup Private
  /\ cursor' = cursor + 1
  /\ UNCHANGED <<pc, upTo, draining, connected, seen, covered, frame, sentId, due, late, pipe, Others>>

(* A selected event is rendered, and only then authorized. *)
Render ==
  /\ pc = "deliver" /\ cursor < upTo
  /\ cursor + 1 \in Wanted \cup Private
  /\ Submit(IF cursor + 1 \in Wanted THEN "message" ELSE "private", cursor + 1)
  /\ UNCHANGED <<cursor, upTo, draining, connected, seen, covered, sentId, due, late, pipe, Others>>

(* Mutant: what the hub was raised to meanwhile counts as covered. *)
BatchDoneAtLevel ==
  /\ pc = "deliver" /\ cursor = upTo
  /\ covered' = AtLeast(hub, covered)
  /\ IF cursor > sentId /\ due THEN Submit("checkpoint", cursor)
                               ELSE pc' = "state" /\ UNCHANGED frame
  /\ UNCHANGED <<cursor, upTo, draining, connected, seen, sentId, due, late, pipe, Others>>

(* Mutant: the checkpoint names the end of a batch that is not done. *)
CheckpointBatchEnd ==
  /\ pc = "deliver"
  /\ covered' = AtLeast(cursor, covered)
  /\ IF upTo > sentId /\ due THEN Submit("checkpoint", upTo)
                             ELSE cursor = upTo /\ pc' = "state" /\ UNCHANGED frame
  /\ UNCHANGED <<cursor, upTo, draining, connected, seen, sentId, due, late, pipe, Others>>

(* The whole batch is delivered or skipped: its progress is checkpointed   *)
(* if no id was written for a heartbeat interval.                          *)
BatchDone ==
  /\ pc = "deliver" /\ cursor = upTo
  /\ covered' = AtLeast(cursor, covered)
  /\ IF cursor > sentId /\ due THEN Submit("checkpoint", cursor)
                               ELSE pc' = "state" /\ UNCHANGED frame
  /\ UNCHANGED <<cursor, upTo, draining, connected, seen, sentId, due, late, pipe, Others>>

(* Presence, typing, the sidebar and the pins write frames without an id,  *)
(* each checked; an owner that cannot serve the page's token asks for a    *)
(* reload, which counts here among the failures.                           *)
State ==
  /\ pc = "state"
  /\ connected' = TRUE
  /\ \/ Submit("state", 0)
     \/ /\ pc' = "turn"
        /\ UNCHANGED frame
  /\ UNCHANGED <<cursor, upTo, draining, seen, covered, sentId, due, late, pipe, Others>>

(* A heartbeat carries the progress no id covers yet. *)
Progress == IF cursor > sentId THEN cursor ELSE 0

(* A backlog keeps reading, with heartbeats between batches; otherwise the *)
(* loop waits for a level above its cursor and the last level it saw.      *)
Turn ==
  /\ pc = "turn"
  /\ IF draining
     THEN /\ \/ due /\ Submit("beat", Progress)
             \/ pc' = "read" /\ UNCHANGED frame
          /\ UNCHANGED seen
     ELSE /\ seen' = AtLeast(cursor, seen)
          /\ pc' = "wait"
          /\ UNCHANGED frame
  /\ UNCHANGED <<cursor, upTo, draining, connected, covered, sentId, due, late, pipe, Others>>

Wake ==
  /\ pc = "wait"
  /\ hub > seen
  /\ seen' = hub
  /\ pc' = "read"
  /\ UNCHANGED <<cursor, upTo, draining, connected, covered, frame, sentId, due, late, pipe, Others>>

(* A generation, a read in another tab or a recount deadline ends the wait *)
(* without a new level.                                                    *)
OtherWake ==
  /\ pc = "wait"
  /\ pc' = "read"
  /\ UNCHANGED <<cursor, upTo, draining, connected, seen, covered, frame, sentId, due, late, pipe, Others>>

(* Mutant: an idle stream writes its heartbeat without the check. *)
BeatUnchecked ==
  /\ pc = "wait"
  /\ due
  /\ pc' = "send" /\ frame' = [kind |-> "beat", id |-> Progress]
  /\ UNCHANGED <<cursor, upTo, draining, connected, seen, covered, sentId, due, late, pipe, Others>>

Beat ==
  /\ pc = "wait"
  /\ due
  /\ Submit("beat", Progress)
  /\ UNCHANGED <<cursor, upTo, draining, connected, seen, covered, sentId, due, late, pipe, Others>>

(* checkMember: a deny ends the stream and moves no cursor.  An event for  *)
(* another member is skipped only by a stream that is still authorized.    *)
Check ==
  /\ pc = "check"
  /\ IF ~access
     THEN Stopped
     ELSE /\ IF frame.kind = "private"
             THEN pc' = "deliver" /\ cursor' = frame.id /\ frame' = NoFrame
             ELSE pc' = "send" /\ UNCHANGED <<cursor, frame>>
          /\ UNCHANGED <<upTo, draining, connected, seen, covered, sentId, due>>
  /\ UNCHANGED <<late, pipe, Others>>

(* Where the loop goes on after a frame of each kind. *)
AfterSend ==
  CASE frame.kind = "message"    -> "deliver"
    [] frame.kind = "opening"    -> "deliver"
    [] frame.kind = "checkpoint" -> "state"
    [] frame.kind = "state"      -> "turn"
    [] frame.kind = "beat"       -> IF draining THEN "read" ELSE "wait"

(* A written frame; the loop ends after a reset. *)
Send ==
  /\ pc = "send"
  /\ Len(pipe) < PipeSize
  /\ pipe' = Append(pipe, frame)
  /\ late' = IF access THEN late ELSE AtMost(late + 1, 2)
  /\ IF frame.kind = "reset"
     THEN Stopped
     ELSE /\ pc' = AfterSend
          /\ cursor' = IF frame.kind = "message" THEN frame.id ELSE cursor
          /\ sentId' = IF frame.id > 0 THEN frame.id ELSE sentId
          /\ due' = (due /\ frame.id = 0 /\ frame.kind # "beat")
          /\ frame' = NoFrame
          /\ UNCHANGED <<upTo, draining, connected, seen, covered>>
  /\ UNCHANGED Others

-----------------------------------------------------------------------------
Init ==
  /\ event \in Histories
  /\ boundary = 0 /\ eventSeq = 0
  /\ hub = 0 /\ checked = 0
  /\ access = TRUE
  /\ failures = 0
  /\ pc = "off"
  /\ cursor = 0 /\ upTo = 0 /\ sentId = 0
  /\ draining = TRUE /\ connected = FALSE
  /\ seen = 0 /\ covered = 0
  /\ frame = NoFrame
  /\ due = FALSE
  /\ late = 0
  /\ pipe = <<>>
  /\ page = 0 /\ lastId = 0
  /\ shown = {}
  /\ reload = "none" /\ atStake = FALSE

Run ==
  \/ Read \/ SkipRead \/ Opening \/ Skip \/ Render \/ BatchDone \/ State \/ Turn
  \/ Check \/ Send

Environment ==
  \/ Commit \/ Expire \/ Raise \/ WatermarkRead \/ WatermarkRaise \/ Revoke \/ Tick
  \/ Fail \/ Restart

Page == StakeChanges \/ Decide \/ TimerFires \/ FollowLink

Next == Run \/ Wake \/ OtherWake \/ Beat \/ Connect \/ Receive \/ Page \/ Environment

(* The loop runs, the network and the browser make progress, the watermark *)
(* ticks and time passes.  Nobody has to raise.  Waking is strongly fair:  *)
(* every wait loads the level before it can block, and the deadlines that  *)
(* end a wait without it lie in the future when they are set.  The page    *)
(* decides and its timer fires; nothing says that what is at stake ends,   *)
(* or that the member follows the link.                                    *)
Fairness ==
  /\ WF_vars(Run) /\ SF_vars(Wake) /\ SF_vars(Beat)
  /\ WF_vars(Connect) /\ WF_vars(Receive)
  /\ WF_vars(Decide) /\ WF_vars(TimerFires)
  /\ WF_vars(WatermarkRead) /\ WF_vars(WatermarkRaise)
  /\ WF_vars(Tick)

Spec == Init /\ [][Next]_vars /\ Fairness

-----------------------------------------------------------------------------
TypeOK ==
  /\ event \in Histories
  /\ boundary \in Nat /\ eventSeq \in Nat /\ boundary <= eventSeq
  /\ hub \in 0 .. eventSeq /\ checked \in 0 .. eventSeq
  /\ access \in BOOLEAN
  /\ failures \in Nat /\ late \in 0 .. 2
  /\ pc \in {"off", "read", "opening", "deliver", "state", "turn", "wait", "check", "send"}
  /\ cursor \in 0 .. eventSeq /\ upTo \in cursor .. eventSeq
  /\ draining \in BOOLEAN /\ connected \in BOOLEAN /\ due \in BOOLEAN
  /\ seen \in Nat /\ covered \in Nat
  /\ sentId \in 0 .. cursor
  /\ frame \in Frames
  /\ pipe \in Seq(Frames) /\ Len(pipe) <= PipeSize
  /\ page \in 0 .. lastId /\ lastId \in 0 .. eventSeq
  /\ shown \subseteq Wanted
  /\ reload \in {"none", "held", "timed"}
  /\ atStake \in BOOLEAN /\ (atStake => reload # "none")

(* No cursor the browser names passes a message it was not given: neither  *)
(* a skip, a checkpoint, a heartbeat's progress, a failed connection nor a *)
(* reconnect loses one (Stream.Run's cursor rules, stream.go:135-157).     *)
NothingMissed ==
  \A e \in Wanted : page < e /\ e <= lastId => e \in shown

(* Ids on their way rise, and lie above everything received: each message  *)
(* reaches a page once and in log order, whatever connections failed.      *)
OnceInOrder ==
  /\ \A i \in 1 .. Len(pipe) : pipe[i].id > 0 /\ pipe[i].kind # "reset" => pipe[i].id > lastId
  /\ \A i, j \in 1 .. Len(pipe) :
       i < j /\ pipe[i].id > 0 /\ pipe[j].id > 0 /\ pipe[j].kind # "reset" => pipe[i].id < pipe[j].id

(* A member whose access was lost gets at most the one frame whose check   *)
(* had already passed, from every stream it opens together                 *)
(* (docs/architecture/stream-authorization.md; checkMember, stream.go:354). *)
OneLateFrame == late <= 1

(* A reset is asked for only by a cursor whose history is really gone.     *)
ResetOnlyWhenGone ==
  /\ pc \in {"check", "send"} /\ frame.kind = "reset" => frame.id < boundary
  /\ \A i \in 1 .. Len(pipe) : pipe[i].kind = "reset" => pipe[i].id < boundary

(* Every committed sequence is eventually behind the browser's cursor: its *)
(* messages are delivered though raises are lost, skipped events are       *)
(* checkpointed though the stream stays idle, and a page whose stream was  *)
(* reset comes back, unless its reload is held for good or again and again *)
(* (Stream.Run's reads, the watermark; reset in message-stream.ts:86-127). *)
EveryEventReaches ==
  \A e \in 1 .. MaxSeq :
     <>[]~atStake => (eventSeq >= e ~> lastId >= e \/ ~access)

(* A stream whose member lost access ends, even while it is idle.          *)
RevokedStreamEnds == ~access ~> Off
=============================================================================
