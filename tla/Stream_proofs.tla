---------------------------- MODULE Stream_proofs ----------------------------
(***************************************************************************)
(* Proofs about a stream and the check every frame of it waits for.        *)
(*                                                                         *)
(* The stream (module Stream): nothing is missed, nothing comes twice or   *)
(* out of order, a revoked member gets one late frame at most and a reset  *)
(* comes only when history is gone, for any log and any sizes.             *)
(*                                                                         *)
(* The check (module StreamAuthorization), for any streams, organisations, *)
(* slugs and members: type correctness, and that it neither allows who had *)
(* no access while it ran, nor denies who had it all along.                *)
(***************************************************************************)
EXTENDS Stream, StreamAuthorization, FiniteSetTheorems, TLAPS

States == {"off", "read", "opening", "deliver", "state", "turn", "wait", "check", "send"}

StreamTyped ==
  /\ boundary \in Nat /\ eventSeq \in Nat
  /\ access \in BOOLEAN
  /\ pc \in States
  /\ cursor \in Nat /\ upTo \in Nat /\ sentId \in Nat
  /\ frame \in Frames
  /\ pipe \in Seq(Frames)
  /\ page \in Nat /\ lastId \in Nat

Bounds ==
  /\ sentId <= cursor /\ cursor <= upTo /\ upTo <= eventSeq
  /\ lastId <= eventSeq
  /\ \A i \in 1 .. Len(pipe) : pipe[i].id <= eventSeq

(* What is being checked or written goes one event beyond the cursor, or   *)
(* names the cursor, or nothing.                                           *)
Due(k, id) ==
  /\ k \in {"message", "private"} => id = cursor + 1 /\ id <= upTo
  /\ k = "message" => id \in Wanted
  /\ k = "private" => id \in Private
  /\ k = "checkpoint" => id = cursor /\ sentId < id
  /\ k = "beat" => id = 0 \/ (id = cursor /\ sentId < id)
  /\ k \in {"opening", "state"} => id = 0
  /\ k = "reset" => id = cursor /\ id < boundary

FrameDue ==
  /\ pc \in {"check", "send"} => Due(frame.kind, frame.id)
  /\ pc = "send" => frame.kind # "private"

(* Only a frame that was checked before access was lost is written after.  *)
Lateness ==
  /\ late \in 0 .. 1
  /\ access => late = 0
  /\ late = 1 => pc # "send"

(* What is on its way was sent by the stream that runs now, if one does,   *)
(* and a reset is the last thing a stream sends.                           *)
Order ==
  /\ OnceInOrder
  /\ ~Off => lastId <= sentId
  /\ \A i \in 1 .. Len(pipe) :
       /\ ~Off => pipe[i].id <= sentId /\ pipe[i].kind # "reset"
       /\ pipe[i].kind = "reset" => i = Len(pipe) /\ pipe[i].id < boundary

(* The browser has the message, or it is among the first n frames.         *)
Sent(e, n) ==
  e \in shown \/ \E i \in 1 .. n : pipe[i].kind = "message" /\ pipe[i].id = e

(* Whatever names a place in the log comes after every message before it.  *)
Given ==
  /\ NothingMissed
  /\ \A j \in 1 .. Len(pipe) : pipe[j].id > 0 /\ pipe[j].kind # "reset" =>
       \A e \in Wanted : page < e /\ e <= pipe[j].id => Sent(e, j)
  /\ ~Off => \A e \in Wanted : page < e /\ e <= cursor => Sent(e, Len(pipe))

StreamInv == StreamTyped /\ Bounds /\ FrameDue /\ Lateness /\ Order /\ Given

-----------------------------------------------------------------------------
LEMMA WantedIsNat == /\ Wanted \subseteq Nat \ {0} /\ Private \subseteq Nat \ {0}
                     /\ Wanted \cap Private = {}
<1>. QED
  BY StreamAssumption DEF Wanted, Private

LEMMA PipeIds == ASSUME StreamTyped, NEW i \in 1 .. Len(pipe)
                 PROVE  pipe[i] \in Frames /\ pipe[i].id \in Nat /\ pipe[i].kind \in Kinds
<1>1. pipe[i] \in Frames
  BY DEF StreamTyped
<1>. QED
  BY <1>1 DEF Frames

(* A step of the loop that sends nothing leaves the views as they are.     *)
LEMMA ViewsKept ==
  ASSUME StreamTyped, Order, Given,
         UNCHANGED <<event, pipe, page, lastId, shown>>,
         boundary' \in Nat, boundary <= boundary',
         \/ Off'
         \/ /\ ~Off /\ sentId' = sentId
            /\ \A e \in Wanted : e <= cursor' => e <= cursor
  PROVE  Order' /\ Given'
<1>1. Wanted' = Wanted /\ \A e, n : Sent(e, n)' <=> Sent(e, n)
  BY DEF Wanted, Sent
<1>2. \A i \in 1 .. Len(pipe) : pipe[i].id \in Nat
  BY PipeIds
<1>3. boundary \in Nat
  BY DEF StreamTyped
<1>4. OnceInOrder'
  BY DEF Order, OnceInOrder
<1>5. (~Off => lastId <= sentId)'
  BY DEF Order
<1>6. ASSUME NEW i \in 1 .. Len(pipe)
      PROVE  /\ ~Off' => pipe[i].id <= sentId' /\ pipe[i].kind # "reset"
             /\ pipe[i].kind = "reset" => i = Len(pipe) /\ pipe[i].id < boundary'
  BY <1>2, <1>3, <1>6 DEF Order
<1>7. Order'
  BY <1>4, <1>5, <1>6 DEF Order
<1>8. Given'
  BY <1>1 DEF Given, NothingMissed
<1>. QED
  BY <1>7, <1>8

(* Commits, retention, raises, revocations and time.                       *)
LEMMA EnvironmentKeeps ==
  ASSUME StreamInv,
         Commit \/ Expire \/ Raise \/ WatermarkRead \/ WatermarkRaise \/ Revoke \/ Tick
  PROVE  StreamInv'
<1>1. UNCHANGED <<event, pc, cursor, upTo, sentId, frame, pipe, page, lastId, shown, late>>
  BY DEF Commit, Expire, Raise, WatermarkRead, WatermarkRaise, Revoke, Tick, log, loop, browser, display
<1>2. /\ boundary' \in Nat /\ eventSeq' \in Nat /\ access' \in BOOLEAN
      /\ boundary <= boundary' /\ eventSeq <= eventSeq' /\ (access' => access)
  <2>. USE DEF StreamInv, StreamTyped
  <2>1. CASE Commit
    BY <2>1 DEF Commit
  <2>2. CASE Expire
    BY <2>2 DEF Expire
  <2>3. CASE Raise \/ WatermarkRead \/ WatermarkRaise \/ Tick
    BY <2>3 DEF Raise, WatermarkRead, WatermarkRaise, Tick, log
  <2>4. CASE Revoke
    <3>1. access' = FALSE /\ UNCHANGED <<boundary, eventSeq>>
      BY <2>4 DEF Revoke, log
    <3>2. access' \in BOOLEAN /\ (access' => access)
      BY <3>1, Zenon
    <3>. QED
      BY <3>1, <3>2
  <2>. QED
    BY <2>1, <2>2, <2>3, <2>4
<1>3. StreamTyped' /\ Lateness'
  BY <1>1, <1>2 DEF StreamInv, StreamTyped, Lateness
<1>4. \A i \in 1 .. Len(pipe) : pipe[i].id \in Nat
  BY PipeIds DEF StreamInv
<1>5. Bounds'
  BY <1>1, <1>2, <1>4 DEF StreamInv, StreamTyped, Bounds
<1>6. FrameDue'
  <2>1. Wanted' = Wanted /\ Private' = Private
    BY <1>1 DEF Wanted, Private
  <2>2. frame.id \in Nat
    BY DEF StreamInv, StreamTyped, Frames
  <2>. QED
    BY <1>1, <1>2, <2>1, <2>2 DEF StreamInv, StreamTyped, FrameDue, Due
<1>7. Order' /\ Given'
  BY <1>1, <1>2, ViewsKept DEF StreamInv, Off
<1>. QED
  BY <1>3, <1>5, <1>6, <1>7 DEF StreamInv

(* Steps of the loop before and between frames.                            *)
LoopStep ==
  Read \/ SkipRead \/ Opening \/ Skip \/ Render \/ BatchDone \/ State \/ Turn \/ Wake \/ OtherWake \/ Beat

(* What such a step leaves alone, and how it moves the cursor.             *)
Stays ==
  /\ UNCHANGED <<boundary, eventSeq, event, access, sentId, late, pipe, page, lastId, shown>>
  /\ pc \notin {"off", "check", "send"}

Moves ==
  /\ cursor' \in Nat /\ upTo' \in Nat
  /\ cursor <= cursor' /\ cursor' <= upTo' /\ upTo' <= eventSeq
  /\ \A e \in Wanted : e <= cursor' => e <= cursor

Proceeds == pc' \in States \ {"off", "check", "send"} /\ frame' = frame

Submits ==
  \E k \in Kinds, n \in Nat :
     Submit(k, n) /\ Due(k, n) /\ UNCHANGED <<cursor, upTo>>

LEMMA LoopStepMoves ==
  ASSUME StreamInv, LoopStep
  PROVE  Stays /\ (Submits \/ (Proceeds /\ Moves))
<1>1. Stays
  BY DEF LoopStep, Read, SkipRead, Opening, Skip, Render, BatchDone, State, Turn, Wake, OtherWake,
     Beat, Stays, Others, log, browser, display
<1>2. /\ cursor \in Nat /\ upTo \in Nat /\ sentId \in Nat /\ eventSeq \in Nat /\ boundary \in Nat
      /\ sentId <= cursor /\ cursor <= upTo /\ upTo <= eventSeq
  BY DEF StreamInv, StreamTyped, Bounds
<1>3. ASSUME NEW k \in Kinds, NEW n \in Nat, Submit(k, n), Due(k, n), UNCHANGED <<cursor, upTo>>
      PROVE  Submits
  BY <1>3 DEF Submits
<1>4. CASE Read
  <2>1. CASE ExpiredCursor(cursor)
    <3>1. Submit("reset", cursor) /\ UNCHANGED <<cursor, upTo>>
      BY <1>4, <2>1 DEF Read
    <3>2. Due("reset", cursor)
      BY <1>2, <2>1 DEF ExpiredCursor, Due
    <3>. QED
      BY <1>1, <1>2, <1>3, <3>1, <3>2 DEF Kinds
  <2>2. CASE ~ExpiredCursor(cursor)
    <3>1. upTo' = AtMost(cursor + BatchSize, eventSeq) /\ pc' = "opening" /\ UNCHANGED <<cursor, frame>>
      BY <1>4, <2>2 DEF Read
    <3>2. Moves
      BY <1>1, <1>2, <3>1, StreamAssumption, WantedIsNat DEF Moves, AtMost
    <3>. QED
      BY <1>1, <3>1, <3>2 DEF Proceeds, States
  <2>. QED
    BY <2>1, <2>2
<1>5. CASE SkipRead \/ Wake \/ OtherWake
  <2>1. Proceeds
    BY <1>5 DEF SkipRead, Wake, OtherWake, Proceeds, States
  <2>2. cursor' = cursor /\ (upTo' = cursor \/ upTo' = upTo)
    BY <1>5 DEF SkipRead, Wake, OtherWake
  <2>. QED
    BY <1>1, <1>2, <2>1, <2>2 DEF Moves
<1>6. CASE Opening \/ State
  <2>1. /\ UNCHANGED <<cursor, upTo>>
        /\ \/ Submit("opening", 0) \/ Submit("state", 0)
           \/ pc' \in {"deliver", "turn"} /\ UNCHANGED frame
    BY <1>6 DEF Opening, State
  <2>2. Due("opening", 0) /\ Due("state", 0)
    BY DEF Due
  <2>3. CASE pc' \in {"deliver", "turn"} /\ UNCHANGED frame
    BY <1>1, <1>2, <2>1, <2>3 DEF Proceeds, Moves, States
  <2>. QED
    BY <1>1, <1>3, <2>1, <2>2, <2>3 DEF Kinds
<1>7. CASE Skip
  <2>1. /\ pc = "deliver" /\ pc' = pc /\ cursor < upTo /\ cursor' = cursor + 1
        /\ cursor + 1 \notin Wanted /\ UNCHANGED <<upTo, frame>>
    BY <1>7 DEF Skip
  <2>2. Moves
    BY <1>1, <1>2, <2>1, WantedIsNat DEF Moves
  <2>. QED
    BY <1>1, <2>1, <2>2 DEF Proceeds, States
<1>8. CASE Render
  <2>1. PICK k \in {"message", "private"} :
          /\ Submit(k, cursor + 1) /\ cursor < upTo /\ UNCHANGED <<cursor, upTo>>
          /\ k = "message" => cursor + 1 \in Wanted
          /\ k = "private" => cursor + 1 \in Private
    BY <1>8 DEF Render
  <2>2. Due(k, cursor + 1)
    BY <1>2, <2>1 DEF Due
  <2>. QED
    BY <1>1, <1>2, <1>3, <2>1, <2>2 DEF Kinds
<1>9. CASE BatchDone
  <2>1. UNCHANGED <<cursor, upTo>>
    BY <1>9 DEF BatchDone
  <2>2. CASE cursor > sentId /\ due
    <3>1. Submit("checkpoint", cursor)
      BY <1>9, <2>2 DEF BatchDone
    <3>2. Due("checkpoint", cursor)
      BY <1>2, <2>2 DEF Due
    <3>. QED
      BY <1>1, <1>2, <1>3, <2>1, <3>1, <3>2 DEF Kinds
  <2>3. CASE ~(cursor > sentId /\ due)
    <3>1. pc' = "state" /\ UNCHANGED frame
      BY <1>9, <2>3 DEF BatchDone
    <3>. QED
      BY <1>1, <1>2, <2>1, <3>1 DEF Proceeds, Moves, States
  <2>. QED
    BY <2>2, <2>3
<1>10. CASE Turn \/ Beat
  <2>1. /\ UNCHANGED <<cursor, upTo>>
        /\ \/ Submit("beat", Progress)
           \/ pc' \in {"read", "wait"} /\ UNCHANGED frame
    BY <1>10 DEF Turn, Beat
  <2>2. Progress \in Nat /\ Due("beat", Progress)
    BY <1>2 DEF Due, Progress
  <2>3. CASE pc' \in {"read", "wait"} /\ UNCHANGED frame
    BY <1>1, <1>2, <2>1, <2>3 DEF Proceeds, Moves, States
  <2>. QED
    BY <1>1, <1>3, <2>1, <2>2, <2>3 DEF Kinds
<1>. QED
  BY <1>4, <1>5, <1>6, <1>7, <1>8, <1>9, <1>10 DEF LoopStep

LEMMA LoopStepKeeps ==
  ASSUME StreamInv, LoopStep
  PROVE  StreamInv'
<1>1. Stays
  BY LoopStepMoves
<1>2. CASE Submits
  <2>1. PICK k \in Kinds, n \in Nat : Submit(k, n) /\ Due(k, n) /\ UNCHANGED <<cursor, upTo>>
    BY <1>2 DEF Submits
  <2>2. pc' = "check" /\ frame' = [kind |-> k, id |-> n]
    BY <2>1 DEF Submit
  <2>3. frame' \in Frames /\ frame'.kind = k /\ frame'.id = n
    BY <2>1, <2>2 DEF Frames
  <2>4. StreamTyped'
    BY <1>1, <2>1, <2>2, <2>3 DEF Stays, StreamInv, StreamTyped, States
  <2>5. Bounds' /\ Lateness'
    BY <1>1, <2>1, <2>2 DEF Stays, StreamInv, Bounds, Lateness
  <2>6. Wanted' = Wanted /\ Private' = Private
    BY <1>1 DEF Stays, Wanted, Private
  <2>7. Due(k, n)'
    BY <1>1, <2>1, <2>6 DEF Stays, Due
  <2>8. FrameDue'
    BY <2>2, <2>3, <2>7 DEF FrameDue
  <2>9. Order' /\ Given'
    BY <1>1, <2>1, ViewsKept DEF Stays, StreamInv, Off, StreamTyped
  <2>. QED
    BY <2>4, <2>5, <2>8, <2>9 DEF StreamInv
<1>3. CASE Proceeds /\ Moves
  <2>1. StreamTyped'
    BY <1>1, <1>3 DEF Stays, StreamInv, StreamTyped, Proceeds, Moves
  <2>2. Bounds'
    BY <1>1, <1>3 DEF Stays, StreamInv, StreamTyped, Bounds, Proceeds, Moves
  <2>3. Lateness' /\ FrameDue'
    BY <1>1, <1>3 DEF Stays, StreamInv, Lateness, FrameDue, Proceeds
  <2>4. Order' /\ Given'
    BY <1>1, <1>3, ViewsKept DEF Stays, StreamInv, Off, StreamTyped, Moves
  <2>. QED
    BY <2>1, <2>2, <2>3, <2>4 DEF StreamInv
<1>. QED
  BY <1>2, <1>3, LoopStepMoves

(* Run returns: its variables are gone, and what it sent stays on its way.  *)
LEMMA StoppedKeeps ==
  ASSUME StreamInv, Stopped,
         UNCHANGED <<boundary, eventSeq, event, access, late, page, lastId, shown>>,
         pipe' = pipe \/ pipe' = <<>>
  PROVE  StreamInv'
<1>1. /\ pc' = "off" /\ cursor' = 0 /\ upTo' = 0 /\ sentId' = 0 /\ frame' = NoFrame
  BY DEF Stopped, Started
<1>2. pipe' \in Seq(Frames)
  <2>1. pipe \in Seq(Frames) /\ <<>> \in Seq(Frames)
    BY DEF StreamInv, StreamTyped
  <2>. QED
    BY <2>1, Zenon
<1>3. NoFrame \in Frames
  BY DEF NoFrame, Frames, Kinds
<1>4. StreamTyped'
  BY <1>1, <1>2, <1>3 DEF StreamInv, StreamTyped, States
<1>5. FrameDue' /\ Lateness'
  BY <1>1 DEF StreamInv, FrameDue, Lateness
<1>6. CASE pipe' = pipe
  <2>1. Bounds'
    BY <1>1, <1>6 DEF StreamInv, StreamTyped, Bounds
  <2>2. Order' /\ Given'
    BY <1>1, <1>6, ViewsKept DEF StreamInv, Off, StreamTyped
  <2>. QED
    BY <1>5, <1>4, <2>1, <2>2 DEF StreamInv
<1>7. CASE pipe' = <<>>
  <2>1. Len(pipe') = 0
    BY <1>7
  <2>2. Bounds'
    BY <1>1, <2>1 DEF StreamInv, StreamTyped, Bounds
  <2>3. Order'
    BY <1>1, <2>1 DEF Order, OnceInOrder, Off
  <2>4. Wanted' = Wanted
    BY DEF Wanted
  <2>5. Given'
    BY <1>1, <2>1, <2>4 DEF StreamInv, Given, NothingMissed, Off
  <2>. QED
    BY <1>5, <1>4, <2>2, <2>3, <2>5 DEF StreamInv
<1>. QED
  BY <1>6, <1>7

(* The check sends on, steps over an event of another member, or ends.     *)
LEMMA CheckKeeps ==
  ASSUME StreamInv, Check
  PROVE  StreamInv'
<1>1. /\ UNCHANGED <<boundary, eventSeq, event, access, late, pipe, page, lastId, shown>>
      /\ pc = "check"
  BY DEF Check, Others, log, browser, display
<1>2. Wanted' = Wanted /\ Private' = Private
  BY <1>1 DEF Wanted, Private
<1>3. CASE Stopped
  BY <1>1, <1>3, StoppedKeeps
<1>4. CASE access /\ frame.kind = "private"
  <2>1. /\ pc' = "deliver" /\ cursor' = frame.id /\ frame' = NoFrame
        /\ UNCHANGED <<upTo, sentId>>
    BY <1>4 DEF Check
  <2>2. frame.id = cursor + 1 /\ frame.id <= upTo /\ frame.id \in Private
    BY <1>1, <1>4 DEF StreamInv, FrameDue, Due
  <2>3. cursor' \in Nat /\ NoFrame \in Frames
    BY <2>1, <2>2 DEF StreamInv, StreamTyped, NoFrame, Frames, Kinds
  <2>4. StreamTyped'
    BY <1>1, <2>1, <2>3 DEF StreamInv, StreamTyped, States
  <2>5. Bounds'
    BY <1>1, <2>1, <2>2 DEF StreamInv, StreamTyped, Bounds
  <2>6. FrameDue' /\ Lateness'
    BY <1>1, <2>1 DEF StreamInv, FrameDue, Lateness
  <2>7. \A e \in Wanted : e <= cursor' => e <= cursor
    BY <2>1, <2>2, WantedIsNat DEF StreamInv, StreamTyped
  <2>8. Order' /\ Given'
    BY <1>1, <2>1, <2>7, ViewsKept DEF StreamInv, Off, StreamTyped
  <2>. QED
    BY <2>4, <2>5, <2>6, <2>8 DEF StreamInv
<1>5. CASE access /\ frame.kind # "private"
  <2>1. pc' = "send" /\ UNCHANGED <<cursor, frame, upTo, sentId>>
    BY <1>5 DEF Check
  <2>2. StreamTyped' /\ Bounds'
    BY <1>1, <2>1 DEF StreamInv, StreamTyped, Bounds, States
  <2>3. FrameDue'
    BY <1>1, <1>2, <1>5, <2>1 DEF StreamInv, FrameDue, Due
  <2>4. Lateness'
    BY <1>1, <1>5 DEF StreamInv, Lateness
  <2>5. Order' /\ Given'
    BY <1>1, <2>1, ViewsKept DEF StreamInv, Off, StreamTyped
  <2>. QED
    BY <2>2, <2>3, <2>4, <2>5 DEF StreamInv
<1>. QED
  BY <1>3, <1>4, <1>5 DEF Check

(* A new connection starts where the browser stands, with nothing under way. *)
LEMMA ConnectKeeps ==
  ASSUME StreamInv, Connect
  PROVE  StreamInv'
<1>1. /\ UNCHANGED <<boundary, eventSeq, event, access, late, pipe, page, lastId, shown>>
      /\ access /\ Len(pipe) = 0
      /\ pc' = "read" /\ cursor' = lastId /\ upTo' = lastId /\ sentId' = lastId /\ frame' = NoFrame
  BY DEF Connect, Started, log, browser, display
<1>2. NoFrame \in Frames
  BY DEF NoFrame, Frames, Kinds
<1>3. StreamTyped'
  BY <1>1, <1>2 DEF StreamInv, StreamTyped, States
<1>4. Bounds'
  BY <1>1 DEF StreamInv, StreamTyped, Bounds
<1>5. FrameDue' /\ Lateness'
  BY <1>1 DEF StreamInv, FrameDue, Lateness
<1>6. Order'
  BY <1>1 DEF StreamInv, StreamTyped, Order, OnceInOrder, Off
<1>7. Wanted' = Wanted
  BY <1>1 DEF Wanted
<1>8. NothingMissed'
  BY <1>1, <1>7 DEF StreamInv, Given, NothingMissed
<1>9. Given'
  BY <1>1, <1>7, <1>8 DEF Given, NothingMissed, Sent
<1>. QED
  BY <1>3, <1>4, <1>5, <1>6, <1>9 DEF StreamInv

(* The frame a step writes is the last one under way.                      *)
LEMMA Sends ==
  ASSUME StreamInv, Send
  PROVE  /\ UNCHANGED <<boundary, eventSeq, event, access, page, lastId, shown>>
         /\ pc = "send" /\ frame \in Frames /\ Due(frame.kind, frame.id) /\ frame.kind # "private"
         /\ pipe' \in Seq(Frames) /\ Len(pipe) \in Nat /\ Len(pipe') = Len(pipe) + 1
         /\ pipe'[Len(pipe) + 1] = frame
         /\ \A i \in 1 .. Len(pipe) : pipe'[i] = pipe[i]
         /\ Lateness'
<1>1. /\ UNCHANGED <<boundary, eventSeq, event, access, page, lastId, shown>>
      /\ pc = "send" /\ pipe' = Append(pipe, frame)
      /\ late' = IF access THEN late ELSE AtMost(late + 1, 2)
  BY DEF Send, Others, log, browser, display
<1>2. pipe \in Seq(Frames) /\ frame \in Frames
  BY DEF StreamInv, StreamTyped
<1>3. Due(frame.kind, frame.id) /\ frame.kind # "private"
  BY <1>1 DEF StreamInv, FrameDue
<1>4. pc' # "send"
  <2>1. CASE frame.kind = "reset"
    BY <2>1 DEF Send, Stopped, Started
  <2>2. CASE frame.kind # "reset"
    <3>1. pc' = AfterSend /\ frame.kind \in Kinds
      BY <1>2, <2>2 DEF Send, Frames
    <3>. QED
      BY <1>3, <2>2, <3>1 DEF AfterSend, Kinds
  <2>. QED
    BY <2>1, <2>2
<1>5. Lateness'
  <2>1. late' \in 0 .. 1 /\ (access => late' = 0)
    BY <1>1 DEF StreamInv, Lateness, AtMost
  <2>. QED
    BY <1>1, <1>4, <2>1 DEF Lateness
<1>. QED
  BY <1>1, <1>2, <1>3, <1>5

LEMMA SendResetKeeps ==
  ASSUME StreamInv, Send, frame.kind = "reset"
  PROVE  StreamInv'
<1>. DEFINE n == Len(pipe) + 1
<1>1. /\ UNCHANGED <<boundary, eventSeq, event, access, page, lastId, shown>>
      /\ pc = "send" /\ frame \in Frames /\ frame.id = cursor /\ frame.id < boundary
      /\ pipe' \in Seq(Frames) /\ n \in Nat /\ Len(pipe') = n /\ pipe'[n] = frame
      /\ \A i \in 1 .. n - 1 : pipe'[i] = pipe[i]
      /\ Lateness'
  BY Sends DEF Due
<1>2. pc' = "off" /\ cursor' = 0 /\ upTo' = 0 /\ sentId' = 0 /\ frame' = NoFrame
  BY DEF Send, Stopped, Started
<1>3. NoFrame \in Frames
  BY DEF NoFrame, Frames, Kinds
<1>4. StreamTyped' /\ FrameDue'
  BY <1>1, <1>2, <1>3 DEF StreamInv, StreamTyped, FrameDue, States
<1>5. /\ \A i \in 1 .. n - 1 : pipe[i].kind # "reset" /\ pipe[i].id \in Nat /\ pipe[i].id <= eventSeq
      /\ cursor \in Nat /\ cursor <= eventSeq /\ eventSeq \in Nat /\ lastId <= eventSeq
  BY <1>1, PipeIds DEF StreamInv, Order, Off, StreamTyped, Bounds
<1>. HIDE DEF n
<1>6. Bounds'
  BY <1>1, <1>2, <1>5 DEF Bounds
<1>7. OnceInOrder'
  <2>1. \A i \in 1 .. n - 1 : pipe[i].id > 0 => pipe[i].id > lastId
    BY <1>5 DEF StreamInv, Order, OnceInOrder, n
  <2>2. \A i, j \in 1 .. n - 1 : i < j /\ pipe[i].id > 0 /\ pipe[j].id > 0 => pipe[i].id < pipe[j].id
    BY <1>5 DEF StreamInv, Order, OnceInOrder, n
  <2>. QED
    BY <1>1, <2>1, <2>2 DEF OnceInOrder
<1>8. Order'
  BY <1>1, <1>2, <1>5, <1>7 DEF Order, Off
<1>9. Given'
  <2>1. Wanted' = Wanted
    BY <1>1 DEF Wanted
  <2>2. NothingMissed'
    BY <1>1, <2>1 DEF StreamInv, Given, NothingMissed
  <2>3. ASSUME NEW j \in 1 .. n, pipe'[j].id > 0, pipe'[j].kind # "reset",
               NEW e \in Wanted, page < e, e <= pipe'[j].id
        PROVE  Sent(e, j)'
    <3>1. j \in 1 .. n - 1 /\ pipe'[j] = pipe[j]
      BY <1>1, <2>3
    <3>2. Sent(e, j)
      BY <2>3, <3>1 DEF StreamInv, Given, n
    <3>. QED
      BY <1>1, <3>1, <3>2 DEF Sent
  <2>. QED
    BY <1>1, <1>2, <2>1, <2>2, <2>3 DEF Given, Off
<1>. QED
  BY <1>1, <1>4, <1>6, <1>8, <1>9 DEF StreamInv

LEMMA SendFrameKeeps ==
  ASSUME StreamInv, Send, frame.kind # "reset"
  PROVE  StreamInv'
<1>0. PICK n \in Nat : n = Len(pipe) + 1
  <2>. QED
    BY DEF StreamInv, StreamTyped
<1>1. /\ UNCHANGED <<boundary, eventSeq, event, access, page, lastId, shown>>
      /\ pc = "send" /\ frame \in Frames /\ Due(frame.kind, frame.id) /\ frame.kind # "private"
      /\ pipe' \in Seq(Frames) /\ n \in Nat /\ n > 0 /\ Len(pipe') = n /\ pipe'[n] = frame
      /\ \A i \in 1 .. n - 1 : pipe'[i] = pipe[i]
      /\ Lateness'
  BY <1>0, Sends
<1>2. /\ pc' = AfterSend /\ frame' = NoFrame /\ upTo' = upTo
      /\ cursor' = IF frame.kind = "message" THEN frame.id ELSE cursor
      /\ sentId' = IF frame.id > 0 THEN frame.id ELSE sentId
  BY DEF Send
<1>3. frame.kind \in Kinds /\ frame.id \in Nat
  BY <1>1 DEF Frames
<1>4. pc' \in States \ {"off", "check", "send"}
  BY <1>1, <1>2, <1>3 DEF AfterSend, Kinds, States
<1>5. /\ cursor \in Nat /\ upTo \in Nat /\ sentId \in Nat /\ eventSeq \in Nat /\ lastId \in Nat
      /\ sentId <= cursor /\ cursor <= upTo /\ upTo <= eventSeq /\ lastId <= sentId
  BY <1>1 DEF StreamInv, StreamTyped, Bounds, Order, Off
<1>6. frame.kind \in {"message", "checkpoint", "beat", "opening", "state"}
  BY <1>1, <1>3 DEF Kinds
<1>7. /\ cursor' \in Nat /\ sentId' \in Nat
      /\ sentId <= sentId' /\ sentId' <= cursor' /\ cursor' <= upTo
      /\ frame.id > 0 => frame.id > sentId /\ frame.id = cursor' /\ frame.id = sentId'
      /\ frame.id <= sentId'
      /\ cursor' = cursor \/ (cursor' = cursor + 1 /\ frame.kind = "message" /\ frame.id = cursor')
  <2>1. CASE frame.kind = "message"
    BY <1>1, <1>2, <1>3, <1>5, <2>1 DEF Due
  <2>2. CASE frame.kind \in {"checkpoint", "beat"}
    BY <1>1, <1>2, <1>3, <1>5, <2>2 DEF Due
  <2>3. CASE frame.kind \in {"opening", "state"}
    BY <1>1, <1>2, <1>3, <1>5, <2>3 DEF Due
  <2>. QED
    BY <1>6, <2>1, <2>2, <2>3
<1>8. /\ \A i \in 1 .. n - 1 : pipe[i].kind # "reset" /\ pipe[i].id \in Nat /\ pipe[i].id <= sentId
  BY <1>0, <1>1, PipeIds DEF StreamInv, Order, Off
<1>9. NoFrame \in Frames
  BY DEF NoFrame, Frames, Kinds
<1>10. StreamTyped'
  BY <1>1, <1>2, <1>4, <1>7, <1>9 DEF StreamInv, StreamTyped, States
<1>11. FrameDue'
  BY <1>4 DEF FrameDue
<1>12. Bounds'
  BY <1>1, <1>2, <1>3, <1>5, <1>7, <1>8 DEF Bounds
<1>13. OnceInOrder'
  <2>1. \A i \in 1 .. n - 1 : pipe[i].id > 0 => pipe[i].id > lastId
    BY <1>0, <1>8 DEF StreamInv, Order, OnceInOrder
  <2>2. \A i, j \in 1 .. n - 1 : i < j /\ pipe[i].id > 0 /\ pipe[j].id > 0 => pipe[i].id < pipe[j].id
    BY <1>0, <1>8 DEF StreamInv, Order, OnceInOrder
  <2>3. ASSUME NEW i \in 1 .. n, pipe'[i].id > 0
        PROVE  pipe'[i].id > lastId
    BY <1>1, <1>3, <1>5, <1>7, <2>1, <2>3
  <2>4. ASSUME NEW i \in 1 .. n, NEW j \in 1 .. n, i < j, pipe'[i].id > 0, pipe'[j].id > 0
        PROVE  pipe'[i].id < pipe'[j].id
    <3>1. i \in 1 .. n - 1 /\ pipe'[i] = pipe[i]
      BY <1>1, <2>4
    <3>2. CASE j = n
      BY <1>1, <1>3, <1>5, <1>7, <1>8, <2>4, <3>1, <3>2
    <3>3. CASE j # n
      BY <1>1, <2>2, <2>4, <3>1, <3>3
    <3>. QED
      BY <3>2, <3>3
  <2>. QED
    BY <1>1, <2>3, <2>4 DEF OnceInOrder
<1>14. Order'
  BY <1>1, <1>3, <1>4, <1>5, <1>6, <1>7, <1>8, <1>13 DEF Order, Off
<1>15. Given'
  <2>1. Wanted' = Wanted
    BY <1>1 DEF Wanted
  <2>2. NothingMissed'
    BY <1>1, <2>1 DEF StreamInv, Given, NothingMissed
  <2>3. ASSUME NEW e, NEW j \in 0 .. n - 1, Sent(e, j)
        PROVE  Sent(e, j)' /\ Sent(e, n)'
    <3>1. CASE e \in shown
      BY <1>1, <3>1 DEF Sent
    <3>2. CASE e \notin shown
      <4>1. PICK i \in 1 .. j : pipe[i].kind = "message" /\ pipe[i].id = e
        BY <2>3, <3>2 DEF Sent
      <4>2. i \in 1 .. n - 1 /\ i \in 1 .. n /\ pipe'[i] = pipe[i]
        BY <1>1, <4>1
      <4>. QED
        BY <4>1, <4>2 DEF Sent
    <3>. QED
      BY <3>1, <3>2
  <2>4. ASSUME NEW e \in Wanted, page < e, e <= cursor'
        PROVE  Sent(e, n)'
    <3>1. CASE e <= cursor
      <4>1. Len(pipe) \in 0 .. n - 1
        BY <1>0 DEF StreamInv, StreamTyped
      <4>2. Sent(e, Len(pipe))
        BY <1>1, <2>4, <3>1 DEF StreamInv, Given, Off
      <4>. QED
        BY <2>3, <4>1, <4>2
    <3>2. CASE ~(e <= cursor)
      <4>1. frame.kind = "message" /\ frame.id = e
        BY <1>5, <1>7, <2>4, <3>2, WantedIsNat
      <4>2. n \in 1 .. n /\ pipe'[n].kind = "message" /\ pipe'[n].id = e
        BY <1>1, <4>1
      <4>. QED
        BY <4>2 DEF Sent
    <3>. QED
      BY <3>1, <3>2
  <2>5. ASSUME NEW j \in 1 .. n, pipe'[j].id > 0, pipe'[j].kind # "reset",
               NEW e \in Wanted, page < e, e <= pipe'[j].id
        PROVE  Sent(e, j)'
    <3>1. CASE j = n
      BY <1>1, <1>7, <2>4, <2>5, <3>1
    <3>2. CASE j # n
      <4>1. j \in 1 .. n - 1 /\ pipe'[j] = pipe[j]
        BY <1>1, <3>2
      <4>2. Sent(e, j)
        BY <1>0, <2>5, <4>1 DEF StreamInv, Given
      <4>. QED
        BY <2>3, <4>1, <4>2
    <3>. QED
      BY <3>1, <3>2
  <2>6. Len(pipe') = n /\ page' = page
    BY <1>1
  <2>. QED
    BY <2>1, <2>2, <2>4, <2>5, <2>6, Zenon DEF Given
<1>. QED
  BY <1>1, <1>10, <1>11, <1>12, <1>14, <1>15 DEF StreamInv

(* The browser takes the first frame.                                      *)
LEMMA Receives ==
  ASSUME StreamInv, Receive
  PROVE  /\ UNCHANGED <<boundary, eventSeq, event, access, pc, cursor, upTo, sentId, frame, late>>
         /\ pipe' \in Seq(Frames) /\ Len(pipe) \in Nat \ {0} /\ Len(pipe') = Len(pipe) - 1
         /\ \A i \in 1 .. Len(pipe) - 1 : pipe'[i] = pipe[i + 1]
         /\ Lateness' /\ FrameDue'
<1>1. /\ UNCHANGED <<boundary, eventSeq, event, access, pc, cursor, upTo, sentId, frame, late>>
      /\ pipe # <<>> /\ pipe' = Tail(pipe)
  BY DEF Receive, log, loop
<1>2. Lateness' /\ FrameDue'
  BY <1>1 DEF StreamInv, Lateness, FrameDue, Due, Wanted, Private
<1>3. pipe \in Seq(Frames)
  BY DEF StreamInv, StreamTyped
<1>4. Len(pipe) \in Nat \ {0}
  BY <1>1, <1>3
<1>5. /\ Tail(pipe) \in Seq(Frames) /\ Len(Tail(pipe)) = Len(pipe) - 1
      /\ \A i \in 1 .. Len(pipe) - 1 : Tail(pipe)[i] = pipe[i + 1]
  BY <1>1, <1>3, <1>4
<1>. QED
  BY <1>1, <1>2, <1>4, <1>5

LEMMA ReceiveResetKeeps ==
  ASSUME StreamInv, Receive, pipe[1].kind = "reset"
  PROVE  StreamInv'
<1>1. /\ UNCHANGED <<boundary, eventSeq, event, access, pc, cursor, upTo, sentId, frame, late>>
      /\ pipe' \in Seq(Frames) /\ Len(pipe) = 1 /\ Len(pipe') = 0 /\ Off /\ Off'
      /\ Lateness' /\ FrameDue'
  <2>1. 1 \in 1 .. Len(pipe)
    BY Receives
  <2>2. Off /\ Len(pipe) = 1
    BY <2>1 DEF StreamInv, Order
  <2>. QED
    BY <2>2, Receives DEF Off
<1>2. UNCHANGED <<page, lastId, shown>>
  BY Head(pipe) = pipe[1] DEF Receive, display
<1>3. StreamTyped' /\ Bounds'
  BY <1>1, <1>2 DEF StreamInv, StreamTyped, Bounds
<1>4. Order'
  BY <1>1 DEF Order, OnceInOrder
<1>5. Wanted' = Wanted
  BY <1>1 DEF Wanted
<1>6. NothingMissed'
  BY <1>1, <1>2, <1>5, WantedIsNat DEF StreamInv, StreamTyped, Given, NothingMissed
<1>7. Given'
  BY <1>1, <1>5, <1>6 DEF Given
<1>. QED
  BY <1>1, <1>3, <1>4, <1>7 DEF StreamInv

LEMMA ReceiveFrameKeeps ==
  ASSUME StreamInv, Receive, pipe[1].kind # "reset"
  PROVE  StreamInv'
<1>0. PICK n \in Nat : n = Len(pipe) - 1
  BY Receives
<1>1. /\ UNCHANGED <<boundary, eventSeq, event, access, pc, cursor, upTo, sentId, frame, late>>
      /\ pipe' \in Seq(Frames) /\ Len(pipe) = n + 1 /\ Len(pipe') = n
      /\ \A i \in 1 .. n : pipe'[i] = pipe[i + 1]
      /\ Lateness' /\ FrameDue'
  BY <1>0, Receives
<1>2. /\ page' = page
      /\ lastId' = IF pipe[1].id > 0 THEN pipe[1].id ELSE lastId
      /\ shown' = IF pipe[1].kind = "message" THEN shown \cup {pipe[1].id} ELSE shown
  BY Head(pipe) = pipe[1] DEF Receive
<1>3. \A i \in 1 .. n + 1 : pipe[i].id \in Nat
  BY <1>1, PipeIds DEF StreamInv
<1>4. /\ eventSeq \in Nat /\ lastId \in Nat /\ sentId \in Nat /\ lastId <= eventSeq
      /\ \A i \in 1 .. n + 1 : pipe[i].id <= eventSeq
  BY <1>1 DEF StreamInv, StreamTyped, Bounds
<1>5. 1 \in 1 .. n + 1
  OBVIOUS
<1>6. lastId' \in Nat /\ lastId <= lastId' /\ lastId' <= eventSeq
  BY <1>1, <1>2, <1>3, <1>4, <1>5 DEF StreamInv, Order, OnceInOrder
<1>7. StreamTyped'
  BY <1>1, <1>2, <1>6 DEF StreamInv, StreamTyped
<1>8. Bounds'
  BY <1>1, <1>4, <1>6 DEF StreamInv, Bounds
<1>9. /\ ~Off => lastId <= sentId
      /\ \A i \in 1 .. n + 1 :
           /\ ~Off => pipe[i].id <= sentId /\ pipe[i].kind # "reset"
           /\ pipe[i].kind = "reset" => i = n + 1 /\ pipe[i].id < boundary
           /\ pipe[i].id > 0 /\ pipe[i].kind # "reset" => pipe[i].id > lastId
      /\ \A i, j \in 1 .. n + 1 :
           i < j /\ pipe[i].id > 0 /\ pipe[j].id > 0 /\ pipe[j].kind # "reset" => pipe[i].id < pipe[j].id
  BY <1>1 DEF StreamInv, Order, OnceInOrder
<1>10. OnceInOrder'
  <2>1. ASSUME NEW i \in 1 .. n, pipe'[i].id > 0, pipe'[i].kind # "reset"
        PROVE  pipe'[i].id > lastId'
    BY <1>1, <1>2, <1>5, <1>9, <2>1
  <2>2. ASSUME NEW i \in 1 .. n, NEW j \in 1 .. n,
               i < j, pipe'[i].id > 0, pipe'[j].id > 0, pipe'[j].kind # "reset"
        PROVE  pipe'[i].id < pipe'[j].id
    BY <1>1, <1>9, <2>2
  <2>. QED
    BY <1>1, <2>1, <2>2 DEF OnceInOrder
<1>11. Order'
  <2>1. (~Off => lastId <= sentId)'
    BY <1>1, <1>2, <1>5, <1>9 DEF Off
  <2>2. ASSUME NEW i \in 1 .. n
        PROVE  /\ ~Off' => pipe'[i].id <= sentId' /\ pipe'[i].kind # "reset"
               /\ pipe'[i].kind = "reset" => i = n /\ pipe'[i].id < boundary'
    <3>1. i + 1 \in 1 .. n + 1 /\ pipe'[i] = pipe[i + 1] /\ (i + 1 = n + 1 => i = n)
      BY <1>1
    <3>. QED
      BY <1>1, <1>9, <3>1 DEF Off
  <2>. QED
    BY <1>1, <1>10, <2>1, <2>2 DEF Order
<1>12. Wanted' = Wanted
  BY <1>1 DEF Wanted
<1>13. ASSUME NEW e, NEW j \in 1 .. n + 1, Sent(e, j)
       PROVE  Sent(e, j - 1)'
  <2>1. CASE e \in shown
    BY <1>2, <2>1 DEF Sent
  <2>2. CASE e \notin shown
    <3>1. PICK i \in 1 .. j : pipe[i].kind = "message" /\ pipe[i].id = e
      BY <1>13, <2>2 DEF Sent
    <3>2. CASE i = 1
      BY <1>2, <3>1, <3>2 DEF Sent
    <3>3. CASE i # 1
      <4>1. i - 1 \in 1 .. n /\ i - 1 \in 1 .. j - 1 /\ (i - 1) + 1 = i
        BY <3>3
      <4>2. pipe'[i - 1] = pipe[i]
        BY <1>1, <4>1
      <4>. QED
        BY <3>1, <4>1, <4>2 DEF Sent
    <3>. QED
      BY <3>2, <3>3
  <2>. QED
    BY <2>1, <2>2
<1>14. ASSUME NEW j \in 1 .. n + 1, pipe[j].id > 0, pipe[j].kind # "reset",
              NEW e \in Wanted, page < e, e <= pipe[j].id
       PROVE  Sent(e, j)
  BY <1>1, <1>14 DEF StreamInv, Given
<1>15. NothingMissed'
  <2>1. ASSUME NEW e \in Wanted, page < e, e <= lastId'
        PROVE  e \in shown'
    <3>1. CASE pipe[1].id > 0
      <4>1. Sent(e, 1)
        BY <1>2, <1>5, <1>14, <2>1, <3>1
      <4>2. e \in shown \/ (pipe[1].kind = "message" /\ pipe[1].id = e)
        BY <4>1 DEF Sent
      <4>. QED
        BY <1>2, <4>2
    <3>2. CASE ~(pipe[1].id > 0)
      BY <1>2, <2>1, <3>2 DEF StreamInv, Given, NothingMissed
    <3>. QED
      BY <3>1, <3>2
  <2>. QED
    BY <1>2, <1>12, <2>1 DEF NothingMissed
<1>16. Given'
  <2>1. ASSUME NEW j \in 1 .. n, pipe'[j].id > 0, pipe'[j].kind # "reset",
               NEW e \in Wanted, page < e, e <= pipe'[j].id
        PROVE  Sent(e, j)'
    <3>1. j + 1 \in 1 .. n + 1 /\ pipe'[j] = pipe[j + 1] /\ (j + 1) - 1 = j
      BY <1>1
    <3>2. Sent(e, j + 1)
      BY <1>14, <2>1, <3>1
    <3>3. Sent(e, (j + 1) - 1)'
      BY <1>13, <3>1, <3>2
    <3>. QED
      BY <3>1, <3>3
  <2>2. ASSUME ~Off, NEW e \in Wanted, page < e, e <= cursor
        PROVE  Sent(e, n)'
    <3>1. Sent(e, Len(pipe))
      BY <2>2 DEF StreamInv, Given
    <3>2. n + 1 \in 1 .. n + 1 /\ (n + 1) - 1 = n
      OBVIOUS
    <3>3. Sent(e, n + 1)
      BY <1>1, <3>1
    <3>4. Sent(e, (n + 1) - 1)'
      BY <1>13, <3>2, <3>3
    <3>. QED
      BY <3>2, <3>4
  <2>3. Len(pipe') = n /\ page' = page /\ pc' = pc /\ cursor' = cursor
    BY <1>1, <1>2
  <2>. QED
    BY <1>12, <1>15, <2>1, <2>2, <2>3, Zenon DEF Given, Off
<1>. QED
  BY <1>1, <1>7, <1>8, <1>11, <1>16 DEF StreamInv

(* A page that was reset has no stream, and nothing is on its way to it.   *)
Quiet == reload # "none" => Off /\ Len(pipe) = 0

LEMMA QuietKept ==
  ASSUME StreamInv, Quiet, [Next]_vars
  PROVE  Quiet'
<1>1. CASE LoopStep \/ Check
  <2>1. ~Off /\ UNCHANGED browser
    BY <1>1, LoopStepMoves DEF Stays, Off, Check, LoopStep, Read, SkipRead, Opening, Skip, Render, BatchDone,
       State, Turn, Wake, OtherWake, Beat, Others
  <2>. QED
    BY <2>1 DEF Quiet, browser
<1>2. CASE Send
  <2>1. pc = "send" /\ UNCHANGED browser
    BY <1>2 DEF Send, Others
  <2>. QED
    BY <2>1 DEF Quiet, Off, browser
<1>3. CASE Connect
  BY <1>3 DEF Connect, browser, Quiet
<1>4. CASE Receive
  <2>1. /\ 1 \in 1 .. Len(pipe) /\ Len(pipe') = Len(pipe) - 1 /\ Len(pipe) # 0
        /\ pc' = pc
    BY <1>4, Receives
  <2>2. CASE pipe[1].kind = "reset"
    BY <2>1, <2>2 DEF StreamInv, Order, Quiet, Off
  <2>3. CASE pipe[1].kind # "reset"
    BY <1>4, <2>1, <2>3, Head(pipe) = pipe[1] DEF Receive, Quiet
  <2>. QED
    BY <2>2, <2>3
<1>5. CASE Page
  BY <1>5 DEF Page, StakeChanges, Decide, TimerFires, FollowLink, Reloaded, Elsewhere, loop, Quiet, Off
<1>6. CASE Commit \/ Expire \/ Raise \/ WatermarkRead \/ WatermarkRaise \/ Revoke \/ Tick
  BY <1>6 DEF Commit, Expire, Raise, WatermarkRead, WatermarkRaise, Revoke, Tick, loop, browser, Quiet, Off
<1>7. CASE Fail \/ Restart
  <2>1. pc' = "off" /\ UNCHANGED browser /\ (pipe' = pipe \/ pipe' = <<>>)
    BY <1>7 DEF Fail, Restart, Stopped, Started
  <2>. QED
    BY <2>1 DEF Quiet, Off, browser
<1>8. CASE UNCHANGED vars
  BY <1>8 DEF vars, loop, browser, Quiet, Off
<1>. QED
  BY <1>1, <1>2, <1>3, <1>4, <1>5, <1>6, <1>7, <1>8 DEF Next, Run, Environment, LoopStep

(* Nothing of a page's old stream is left when it reloads.                 *)
LEMMA PageKeeps ==
  ASSUME StreamInv, Quiet, Page
  PROVE  StreamInv'
<1>1. /\ UNCHANGED <<boundary, eventSeq, event, access, pc, cursor, upTo, sentId, frame, late, pipe>>
      /\ Off /\ Len(pipe) = 0
  BY DEF Page, StakeChanges, Decide, TimerFires, FollowLink, Reloaded, Elsewhere, log, loop, Quiet
<1>2. \/ page' = eventSeq /\ lastId' = eventSeq /\ shown' = {}
      \/ UNCHANGED <<page, lastId, shown>>
  BY DEF Page, StakeChanges, Decide, TimerFires, FollowLink, Reloaded, display
<1>3. StreamTyped' /\ Bounds' /\ Lateness'
  BY <1>1, <1>2 DEF StreamInv, StreamTyped, Bounds, Lateness
<1>4. FrameDue' /\ Off'
  BY <1>1 DEF FrameDue, Off
<1>5. Order'
  BY <1>1, <1>4 DEF Order, OnceInOrder
<1>6. Wanted' = Wanted
  BY <1>1 DEF Wanted
<1>7. NothingMissed'
  BY <1>1, <1>2, <1>6, WantedIsNat DEF StreamInv, StreamTyped, Given, NothingMissed
<1>8. Given'
  BY <1>1, <1>4, <1>6, <1>7 DEF Given
<1>. QED
  BY <1>3, <1>4, <1>5, <1>8 DEF StreamInv

-----------------------------------------------------------------------------
LEMMA Established == Init => StreamInv /\ Quiet
<1>. SUFFICES ASSUME Init PROVE StreamInv /\ Quiet
  OBVIOUS
<1>1. NoFrame \in Frames /\ pipe \in Seq(Frames) /\ Len(pipe) = 0
  BY DEF Init, NoFrame, Frames, Kinds
<1>2. StreamTyped /\ Bounds /\ FrameDue /\ Lateness
  BY <1>1 DEF Init, StreamTyped, Bounds, FrameDue, Lateness, States
<1>3. NothingMissed
  BY WantedIsNat DEF Init, NothingMissed
<1>4. Order /\ Given
  BY <1>1, <1>3 DEF Init, Order, OnceInOrder, Given, Off
<1>5. Quiet
  BY DEF Init, Quiet
<1>. QED
  BY <1>2, <1>4, <1>5 DEF StreamInv

LEMMA Kept == StreamInv /\ Quiet /\ [Next]_vars => StreamInv' /\ Quiet'
<1>. SUFFICES ASSUME StreamInv, Quiet, [Next]_vars PROVE StreamInv'
  BY QuietKept
<1>1. CASE LoopStep
  BY <1>1, LoopStepKeeps
<1>2. CASE Check
  BY <1>2, CheckKeeps
<1>3. CASE Send
  BY <1>3, SendResetKeeps, SendFrameKeeps
<1>4. CASE Connect
  BY <1>4, ConnectKeeps
<1>5. CASE Receive
  BY <1>5, ReceiveResetKeeps, ReceiveFrameKeeps
<1>6. CASE Commit \/ Expire \/ Raise \/ WatermarkRead \/ WatermarkRaise \/ Revoke \/ Tick
  BY <1>6, EnvironmentKeeps
<1>7. CASE Fail \/ Restart
  BY <1>7, StoppedKeeps DEF Fail, Restart, log, browser, display
<1>8. CASE Page
  BY <1>8, PageKeeps
<1>9. CASE UNCHANGED vars
  BY <1>9 DEF vars, log, loop, browser, display, StreamInv, StreamTyped, Bounds, FrameDue, Due, Lateness, Order,
     OnceInOrder, Given, NothingMissed, Sent, Wanted, Private, Off
<1>. QED
  BY <1>1, <1>2, <1>3, <1>4, <1>5, <1>6, <1>7, <1>8, <1>9 DEF Next, Run, Environment, LoopStep

LEMMA Invariant == Spec => [](StreamInv /\ Quiet)
BY Established, Kept, PTL DEF Spec

(* No message below the cursor a browser names was withheld from its page  *)
(* (the cursor rules of Stream.Run): for every history, batch and pipe     *)
(* size, and whatever fails or restarts.                                   *)
THEOREM NothingIsMissed == Spec => []NothingMissed
<1>1. StreamInv => NothingMissed
  BY DEF StreamInv, Given
<1>. QED
  BY Invariant, <1>1, PTL

(* Each message reaches a page once and in log order (transportSender's    *)
(* cursor and the browser's Last-Event-ID).                                *)
THEOREM EachOnceInOrder == Spec => []OnceInOrder
<1>1. StreamInv => OnceInOrder
  BY DEF StreamInv, Order
<1>. QED
  BY Invariant, <1>1, PTL

(* A revoked member gets one more frame at most (checkMember before every  *)
(* frame).                                                                 *)
THEOREM RevokedGetsOne == Spec => []OneLateFrame
<1>1. StreamInv => OneLateFrame
  BY DEF StreamInv, Lateness, OneLateFrame
<1>. QED
  BY Invariant, <1>1, PTL

(* A page is told to start over only when events it lacks may be gone      *)
(* (the expired cursor of the read).                                       *)
THEOREM ResetsAreDue == Spec => []ResetOnlyWhenGone
<1>1. StreamInv => ResetOnlyWhenGone
  BY DEF StreamInv, Order, FrameDue, Due, ResetOnlyWhenGone
<1>. QED
  BY Invariant, <1>1, PTL

-----------------------------------------------------------------------------
(* The types of what the arguments above do not need.                      *)

LevelsTyped ==
  /\ event \in Histories
  /\ boundary <= eventSeq /\ hub \in 0 .. eventSeq /\ checked \in 0 .. eventSeq
  /\ failures \in Nat /\ seen \in Nat /\ covered \in Nat

FlagsTyped == draining \in BOOLEAN /\ connected \in BOOLEAN /\ due \in BOOLEAN

ReloadTyped ==
  /\ reload \in {"none", "held", "timed"}
  /\ atStake \in BOOLEAN /\ (atStake => reload # "none")

(* The network holds no more than it has room for, its messages are wanted *)
(* ones, and so are those it has delivered.                                *)
PipeHolds ==
  /\ Len(pipe) <= PipeSize
  /\ \A i \in 1 .. Len(pipe) : pipe[i].kind = "message" => pipe[i].id \in Wanted
  /\ page <= lastId /\ shown \subseteq Wanted

LEMMA LevelsKept ==
  ASSUME StreamInv, LevelsTyped, [Next]_vars
  PROVE  LevelsTyped'
<1>1. /\ boundary \in Nat /\ eventSeq \in Nat /\ cursor \in Nat
      /\ boundary <= eventSeq /\ hub \in 0 .. eventSeq /\ checked \in 0 .. eventSeq
  BY DEF StreamInv, StreamTyped, LevelsTyped
<1>2. event' = event
  BY DEF Next, Run, Environment, Read, SkipRead, Opening, Skip, Render, BatchDone, State, Turn, Check, Send, Wake,
     OtherWake, Beat, Connect, Receive, Page, StakeChanges, Decide,
     TimerFires, FollowLink, Reloaded, Elsewhere, Commit, Expire, Raise, WatermarkRead, WatermarkRaise, Revoke,
     Tick, Fail, Restart, Others, log, vars
<1>3. boundary' \in Nat /\ eventSeq' \in Nat /\ boundary' <= eventSeq' /\ eventSeq <= eventSeq'
  BY <1>1 DEF Next, Run, Environment, Read, SkipRead, Opening, Skip, Render, BatchDone, State, Turn, Check, Send,
     Wake, OtherWake, Beat, Connect, Receive, Page, StakeChanges, Decide,
     TimerFires, FollowLink, Reloaded, Elsewhere, Commit, Expire, Raise, WatermarkRead, WatermarkRaise, Revoke, Tick,
     Fail, Restart, Others, log, vars
<1>4. hub' \in 0 .. eventSeq' /\ checked' \in 0 .. eventSeq'
  BY <1>1, <1>3 DEF Next, Run, Environment, Read, SkipRead, Opening, Skip, Render, BatchDone, State, Turn, Check,
     Send, Wake, OtherWake, Beat, Connect, Receive, Page, StakeChanges, Decide,
     TimerFires, FollowLink, Reloaded, Elsewhere, Commit, Expire, Raise, WatermarkRead, WatermarkRaise, Revoke,
     Tick, Fail, Restart, Others, log, vars
<1>5. failures' \in Nat
  BY DEF LevelsTyped, Next, Run, Environment, Read, SkipRead, Opening, Skip, Render, BatchDone, State, Turn, Check,
     Send, Wake, OtherWake, Beat, Connect, Receive, Page, StakeChanges, Decide,
     TimerFires, FollowLink, Reloaded, Elsewhere, Commit, Expire, Raise, WatermarkRead, WatermarkRaise, Revoke,
     Tick, Fail, Restart, Others, log, vars
<1>6. seen' \in Nat /\ covered' \in Nat
  BY <1>1 DEF LevelsTyped, Next, Run, Environment, Read, SkipRead, Opening, Skip, Render, BatchDone, State, Turn,
     Check, Send, Wake, OtherWake, Beat, Connect, Receive, Page, StakeChanges, Decide,
     TimerFires, FollowLink, Reloaded, Elsewhere, Commit, Expire, Raise, WatermarkRead, WatermarkRaise,
     Revoke, Tick, Fail, Restart, Others, log, loop, vars, Started, Stopped, Submit, AtLeast
<1>. QED
  BY <1>2, <1>3, <1>4, <1>5, <1>6 DEF LevelsTyped

LEMMA FlagsKept ==
  ASSUME StreamInv, FlagsTyped, [Next]_vars
  PROVE  FlagsTyped'
<1>1. CASE Read
  <2>1. connected' = connected /\ due' = due
    BY <1>1 DEF Read
  <2>2. draining' = draining \/ draining' = (eventSeq >= cursor + BatchSize)
    BY <1>1, Zenon DEF Read
  <2>3. eventSeq \in Nat /\ cursor \in Nat /\ BatchSize \in Nat
    BY StreamAssumption DEF StreamInv, StreamTyped
  <2>4. (eventSeq >= cursor + BatchSize) \in BOOLEAN
    BY <2>3
  <2>5. draining' \in BOOLEAN
    BY <2>2, <2>4, Zenon DEF FlagsTyped
  <2>. QED
    BY <2>1, <2>5 DEF FlagsTyped
<1>2. CASE Send
  BY <1>2 DEF Send, FlagsTyped, Stopped, Started
<1>3. CASE ~Read /\ ~Send
  <2>1. /\ draining' = draining \/ draining' = TRUE
        /\ connected' = connected \/ connected' = TRUE \/ connected' = FALSE
        /\ due' = due \/ due' = TRUE \/ due' = FALSE
    BY <1>3 DEF Next, Run, Environment, SkipRead, Opening, Skip, Render, BatchDone, State, Turn, Check,
       Wake, OtherWake, Beat, Connect, Receive, Page, StakeChanges, Decide,
     TimerFires, FollowLink, Reloaded, Elsewhere, Commit, Expire, Raise, WatermarkRead, WatermarkRaise, Revoke,
       Tick, Fail, Restart, loop, vars, Started, Stopped, Submit
  <2>. QED
    BY <2>1 DEF FlagsTyped
<1>. QED
  BY <1>1, <1>2, <1>3

LEMMA ReloadKept ==
  ASSUME ReloadTyped, [Next]_vars
  PROVE  ReloadTyped'
<1>1. CASE Receive
  BY <1>1 DEF Receive, Decision, ReloadTyped
<1>2. CASE Page
  BY <1>2 DEF Page, StakeChanges, Decide, TimerFires, FollowLink, Reloaded, Decision, ReloadTyped
<1>3. CASE ~Receive /\ ~Page
  <2>1. UNCHANGED <<reload, atStake>>
    BY <1>3 DEF Next, Run, Environment, Read, SkipRead, Opening, Skip, Render, BatchDone, State, Turn, Check, Send,
       Wake, OtherWake, Beat, Connect, Commit, Expire, Raise, WatermarkRead, WatermarkRaise, Revoke, Tick, Fail,
       Restart, Others, browser, vars
  <2>. QED
    BY <2>1 DEF ReloadTyped
<1>. QED
  BY <1>1, <1>2, <1>3

LEMMA PipeKept ==
  ASSUME StreamInv, PipeHolds, [Next]_vars
  PROVE  PipeHolds'
<1>1. page \in Nat /\ lastId \in Nat /\ pipe \in Seq(Frames) /\ PipeSize \in Nat /\ eventSeq \in Nat
  BY StreamAssumption DEF StreamInv, StreamTyped
<1>2. Wanted' = Wanted
  BY DEF Next, Run, Environment, Read, SkipRead, Opening, Skip, Render, BatchDone, State, Turn, Check, Send, Wake,
     OtherWake, Beat, Connect, Receive, Page, StakeChanges, Decide,
     TimerFires, FollowLink, Reloaded, Elsewhere, Commit, Expire, Raise, WatermarkRead, WatermarkRaise, Revoke,
     Tick, Fail, Restart, Others, log, vars, Wanted
<1>3. CASE Send
  <2>1. /\ pc = "send" /\ Len(pipe) < PipeSize /\ pipe' = Append(pipe, frame)
        /\ page' = page /\ lastId' = lastId /\ shown' = shown
    BY <1>3 DEF Send, Others, browser, display
  <2>2. frame \in Frames /\ (frame.kind = "message" => frame.id \in Wanted)
    BY <2>1 DEF StreamInv, StreamTyped, FrameDue, Due
  <2>. QED
    BY <1>1, <1>2, <2>1, <2>2 DEF PipeHolds
<1>4. CASE Receive
  <2>1. pipe # <<>> /\ pipe' = Tail(pipe)
    BY <1>4 DEF Receive
  <2>2. /\ Len(pipe) > 0 /\ Len(pipe') = Len(pipe) - 1
        /\ \A i \in 1 .. Len(pipe') : pipe'[i] = pipe[i + 1] /\ i + 1 \in 1 .. Len(pipe)
        /\ Head(pipe) = pipe[1] /\ 1 \in 1 .. Len(pipe)
    BY <1>1, <2>1
  <2>3. Len(pipe') <= PipeSize /\ \A i \in 1 .. Len(pipe') : pipe'[i].kind = "message" => pipe'[i].id \in Wanted
    BY <1>1, <2>2 DEF PipeHolds
  <2>4. CASE pipe[1].kind = "reset"
    <3>1. UNCHANGED display
      BY <1>4, <2>2, <2>4 DEF Receive
    <3>. QED
      BY <1>1, <1>2, <2>3, <3>1 DEF PipeHolds, display
  <2>5. CASE pipe[1].kind # "reset"
    <3>1. /\ lastId' = IF pipe[1].id > 0 THEN pipe[1].id ELSE lastId
          /\ shown' = IF pipe[1].kind = "message" THEN shown \cup {pipe[1].id} ELSE shown
          /\ page' = page
      BY <1>4, <2>2, <2>5 DEF Receive
    <3>2. pipe[1].id \in Nat /\ (pipe[1].id > 0 => pipe[1].id > lastId)
      BY <2>2, <2>5, PipeIds DEF StreamInv, Order, OnceInOrder
    <3>. QED
      BY <1>1, <1>2, <2>2, <2>3, <3>1, <3>2 DEF PipeHolds
  <2>. QED
    BY <2>4, <2>5
<1>5. CASE Page
  <2>1. pipe' = pipe
    BY <1>5 DEF Page, StakeChanges, Decide, TimerFires, FollowLink, Reloaded, Elsewhere
  <2>2. (page' = eventSeq /\ lastId' = eventSeq /\ shown' = {}) \/ UNCHANGED <<page, lastId, shown>>
    BY <1>5 DEF Page, StakeChanges, Decide, TimerFires, FollowLink, Reloaded, display
  <2>. QED
    BY <1>1, <1>2, <2>1, <2>2 DEF PipeHolds
<1>6. CASE ~Send /\ ~Receive /\ ~Page
  <2>1. (pipe' = pipe \/ pipe' = <<>>) /\ page' = page /\ lastId' = lastId /\ shown' = shown
    BY <1>6 DEF Next, Run, Environment, Read, SkipRead, Opening, Skip, Render, BatchDone, State, Turn, Check, Wake,
       OtherWake, Beat, Connect, Commit, Expire, Raise, WatermarkRead, WatermarkRaise, Revoke, Tick, Fail,
       Restart, Others, browser, display, vars
  <2>. QED
    BY <1>1, <1>2, <2>1 DEF PipeHolds
<1>. QED
  BY <1>3, <1>4, <1>5, <1>6

(* Every variable is of its type: the levels lie within the committed log, *)
(* the cursors in their order, and the network holds no more than it can.  *)
THEOREM TypeCorrect == Spec => []TypeOK
<1>1. ASSUME Init PROVE LevelsTyped /\ FlagsTyped /\ ReloadTyped /\ PipeHolds
  <2>1. Len(pipe) = 0 /\ shown = {} /\ page = 0 /\ lastId = 0 /\ PipeSize \in Nat
    BY <1>1, StreamAssumption DEF Init
  <2>2. PipeHolds
    BY <2>1 DEF PipeHolds
  <2>3. LevelsTyped
    BY <1>1 DEF Init, LevelsTyped
  <2>4. FlagsTyped
    BY <1>1 DEF Init, FlagsTyped
  <2>5. ReloadTyped
    BY <1>1 DEF Init, ReloadTyped
  <2>. QED
    BY <2>2, <2>3, <2>4, <2>5
<1>2. StreamInv /\ LevelsTyped /\ FlagsTyped /\ ReloadTyped /\ PipeHolds /\ [Next]_vars =>
        (LevelsTyped /\ FlagsTyped /\ ReloadTyped /\ PipeHolds)'
  BY LevelsKept, FlagsKept, ReloadKept, PipeKept
<1>3. StreamInv /\ LevelsTyped /\ FlagsTyped /\ ReloadTyped /\ PipeHolds => TypeOK
  BY DEF StreamInv, StreamTyped, Bounds, Lateness, LevelsTyped, FlagsTyped, ReloadTyped, PipeHolds, States, TypeOK
<1>. QED
  BY <1>1, <1>2, <1>3, Invariant, PTL DEF Spec

-----------------------------------------------------------------------------
(* The authorization of a stream.                                          *)

(* Slugs are unique, epochs come from the sequence, and a member's         *)
(* organisation exists.                                                    *)
RowsOK ==
  /\ \A o \in Orgs :
       /\ organization[o].access_epoch <= seq
       /\ Exists(o) => organization[o].access_epoch > 0
  /\ \A o, p \in Orgs : Exists(o) /\ organization[o].slug = organization[p].slug => o = p
  /\ \A m \in Members : member[m] \in Orgs => Exists(member[m])

(* The memberships known for a key: cached, captured or being answered.    *)
Known(k, r) ==
  \/ r = entries[k]
  \/ \E st \in Streams : Key(st) = k /\ (r = check[st].cached \/ r = check[st].read)

(* A membership as new as its organisation is the current row.             *)
Believable(k, r) ==
  /\ r.epoch > 0
  /\ r.epoch <= organization[r.org].access_epoch
  /\ r.epoch = organization[r.org].access_epoch /\ Exists(r.org) =>
       member[r.member] = r.org /\ AccountOf[r.member] = k[1] /\ organization[r.org].slug = k[2]

KnownBelievable == \A k \in Keys, r \in Memberships : Known(k, r) => Believable(k, r)

(* What a running check lived through is recorded. *)
Witnessed ==
  \A st \in Streams : Checking(st) =>
    Standing(st) \subseteq was[st] /\ (Standing(st) = {} => absent[st])

HasEpoch(st) == check[st].pc \in {"decide", "member", "store"}

(* Once a check has read the epoch, whatever is known and covers it had    *)
(* access while the check ran: it was read after the epoch, or was current *)
(* at the time of the epoch.                                               *)
EpochFences ==
  \A st \in Streams : HasEpoch(st) =>
    /\ check[st].epoch > 0
    /\ check[st].epoch <= organization[check[st].org].access_epoch
    /\ \A r \in Memberships : Known(Key(st), r) /\ Covers(r, st) => r.member \in was[st]

ReadCovers ==
  \A st \in Streams : check[st].pc = "store" => Covers(check[st].read, st) \/ absent[st]

AuthorizationInv ==
  /\ Typed /\ RowsOK /\ KnownBelievable /\ Witnessed /\ EpochFences
  /\ ReadCovers /\ AllowedWasMember /\ DeniedWasNot

-----------------------------------------------------------------------------
LEMMA Subscribed ==
  ASSUME Typed, NEW st \in Streams, check[st].pc # "off"
  PROVE  check[st] \in Checks /\ Key(st) \in Keys
BY DEF Typed, Checks, NotStreaming, Key, Keys

(* A move gives both organisations epochs of their own.                    *)
LEMMA MoveEffect ==
  ASSUME Typed, NEW m \in Members, NEW o \in Orgs, Move(m, o)
  PROVE  /\ organization' \in [Orgs -> [slug : Slugs \cup {"none"}, access_epoch : Nat]]
         /\ \A p \in Orgs : /\ organization'[p].slug = organization[p].slug
                            /\ organization'[p].access_epoch =
                                 IF p = o THEN seq + 2
                                 ELSE IF p = member[m] THEN seq + 1 ELSE organization[p].access_epoch
<1>. USE DEF Typed
<1>1. /\ member[m] \in Orgs
      /\ organization' = [[organization EXCEPT ![member[m]].access_epoch = seq + 1]
                            EXCEPT ![o].access_epoch = seq + 2]
  BY DEF Move, Bumped
<1>2. PICK between : between = [organization EXCEPT ![member[m]].access_epoch = seq + 1]
  OBVIOUS
<1>3. /\ between \in [Orgs -> [slug : Slugs \cup {"none"}, access_epoch : Nat]]
      /\ \A p \in Orgs : /\ between[p].slug = organization[p].slug
                         /\ between[p].access_epoch =
                              IF p = member[m] THEN seq + 1 ELSE organization[p].access_epoch
  BY <1>1, <1>2
<1>4. organization' = [between EXCEPT ![o].access_epoch = seq + 2]
  BY <1>1, <1>2
<1>. QED
  BY <1>3, <1>4

(* A row's step keeps the rows in order and records what checks witness.   *)
LEMMA TypedRows ==
  ASSUME Typed, RowsOK, RowStep
  PROVE  Typed' /\ RowsOK'
<1>. USE DEF Typed, RowsOK, Exists
<1>w. ASSUME RowsChange
      PROVE  /\ was' \in [Streams -> SUBSET Members] /\ absent' \in [Streams -> BOOLEAN]
             /\ UNCHANGED <<entries, latest, check>>
  BY <1>w DEF RowsChange, Witness, Standing, cache
<1>1. ASSUME NEW o \in Orgs, NEW s \in Slugs, Create(o, s) PROVE Typed' /\ RowsOK'
  BY <1>1, <1>w, StreamAuthorizationAssumption DEF Create, Free
<1>2. ASSUME NEW o \in Orgs, NEW s \in Slugs, Rename(o, s) PROVE Typed' /\ RowsOK'
  BY <1>2, <1>w, StreamAuthorizationAssumption DEF Rename, Free
<1>3. ASSUME NEW o \in Orgs, Delete(o) PROVE Typed' /\ RowsOK'
  BY <1>3, <1>w DEF Delete
<1>4. ASSUME NEW m \in Members, NEW o \in Orgs, Join(m, o) PROVE Typed' /\ RowsOK'
  BY <1>4, <1>w DEF Join, Joinable
<1>5. ASSUME NEW m \in Members, NEW o \in Orgs, Move(m, o) PROVE Typed' /\ RowsOK'
  <2>1. /\ member[m] \in Orgs /\ member[m] # o /\ Exists(o) /\ seq' = seq + 2
        /\ member' = [member EXCEPT ![m] = o]
        /\ RowsChange
    BY <1>5 DEF Move, Joinable
  <2>5. /\ organization' \in [Orgs -> [slug : Slugs \cup {"none"}, access_epoch : Nat]]
        /\ \A p \in Orgs : /\ organization'[p].slug = organization[p].slug
                           /\ organization'[p].access_epoch =
                                IF p = o THEN seq + 2
                                ELSE IF p = member[m] THEN seq + 1 ELSE organization[p].access_epoch
    BY <1>5, MoveEffect
  <2>6. RowsOK'
    BY <2>1, <2>5
  <2>7. member' \in [Members -> Orgs \cup {"new", "left"}] /\ seq' \in Nat
    BY <2>1
  <2>8. Typed'
    BY <1>w, <2>1, <2>5, <2>7
  <2>. QED
    BY <2>6, <2>8
<1>6. ASSUME NEW m \in Members, Leave(m) PROVE Typed' /\ RowsOK'
  BY <1>6, <1>w, StreamAuthorizationAssumption DEF Leave, Bumped
<1>7. ASSUME NEW m \in Members, ChangeRole(m) PROVE Typed' /\ RowsOK'
  BY <1>7, <1>w DEF ChangeRole, Bumped
<1>. QED
  BY <1>1, <1>2, <1>3, <1>4, <1>5, <1>6, <1>7 DEF RowStep

(* A check's step changes its own record and no row.                       *)
LEMMA TypedCheck ==
  ASSUME Typed, RowsOK, NEW st \in Streams, CheckStep(st)
  PROVE  Typed' /\ RowsOK'
<1>1. ASSUME NEW c \in Checks \cup {NotStreaming}, check' = [check EXCEPT ![st] = c]
      PROVE  check' \in [Streams -> Checks \cup {NotStreaming}]
  BY <1>1 DEF Typed
<1>2. UNCHANGED rows
  BY DEF CheckStep, Open, Close, Begin, QueryFails, ReadEpoch, Hit, SecondLook, ReadMember, Store, Return
<1>3. RowsOK'
  BY <1>2 DEF RowsOK, rows, Exists
<1>4. /\ organization' \in [Orgs -> [slug : Slugs \cup {"none"}, access_epoch : Nat]]
      /\ member' \in [Members -> Orgs \cup {"new", "left"}]
      /\ seq' \in Nat
  BY <1>2 DEF rows, Typed
<1>c. check[st].pc # "off" => check[st] \in Checks /\ Key(st) \in Keys
  BY Subscribed
<1>5. CASE Open(st)
  <2>. PICK m \in Members :
         /\ member[m] \in Orgs
         /\ check' = [check EXCEPT ![st] =
              [NotStreaming EXCEPT !.pc = "open", !.account = AccountOf[m], !.org = member[m],
                          !.slug = organization[member[m]].slug]]
    BY <1>5 DEF Open
  <2>1. /\ organization[member[m]].slug \in Slugs /\ AccountOf[m] \in Accounts
    BY DEF Typed, RowsOK, Exists, Accounts
  <2>. QED
    BY <1>1, <1>3, <1>4, <1>5, <2>1 DEF Open, Checks, Pcs, NotStreaming, Typed, cache, history
<1>6. CASE Close(st)
  BY <1>1, <1>3, <1>4, <1>6 DEF Close, Typed, cache, history
<1>7. CASE Begin(st)
  <2>1. check[st] \in Checks /\ Key(st) \in Keys /\ entries[Key(st)] \in Memberships \cup {Missing}
    BY <1>7, <1>c DEF Begin, Typed
  <2>2. check' \in [Streams -> Checks \cup {NotStreaming}]
    BY <1>1, <1>7, <2>1 DEF Begin, Checks, Pcs, Typed
  <2>. QED
    BY <1>3, <1>4, <1>7, <2>1, <2>2 DEF Begin, Typed, Standing
<1>8. CASE QueryFails(st)
  BY <1>1, <1>3, <1>4, <1>8, <1>c DEF QueryFails, Typed, Checks, Pcs, cache, history
<1>9. CASE ReadEpoch(st)
  <2>1. check[st] \in Checks
    BY <1>9, <1>c DEF ReadEpoch
  <2>2. organization[check[st].org].access_epoch \in Nat
    BY <2>1 DEF Typed, Checks
  <2>3. check' \in [Streams -> Checks \cup {NotStreaming}]
    BY <1>9, <2>1, <2>2 DEF ReadEpoch, Checks, Pcs, Typed
  <2>. QED
    BY <1>3, <1>4, <1>9, <2>3 DEF ReadEpoch, Typed, cache, history
<1>10. CASE Hit(st)
  <2>1. check[st] \in Checks
    BY <1>10, <1>c DEF Hit
  <2>2. check' \in [Streams -> Checks \cup {NotStreaming}]
    BY <1>10, <2>1 DEF Hit, Allowed, Checks, Pcs, Typed
  <2>. QED
    BY <1>3, <1>4, <1>10, <2>2 DEF Hit, Typed, cache, history
<1>11. CASE SecondLook(st)
  <2>1. check[st] \in Checks /\ Key(st) \in Keys /\ entries[Key(st)] \in Memberships \cup {Missing}
    BY <1>11, <1>c DEF SecondLook, Typed
  <2>2. \/ check' = [check EXCEPT ![st].pc = "member"]
        \/ check' = [check EXCEPT ![st].pc = "allowed", ![st].read = entries[Key(st)]]
    BY <1>11 DEF SecondLook, Allowed
  <2>4. check' \in [Streams -> Checks \cup {NotStreaming}]
    BY <2>1, <2>2 DEF Checks, Pcs, Typed
  <2>3. entries' \in [Keys -> Memberships \cup {Missing}]
    BY <1>11, <2>1 DEF SecondLook, Typed
  <2>. QED
    BY <1>3, <1>4, <1>11, <2>3, <2>4 DEF SecondLook, Typed, history
<1>12. CASE ReadMember(st)
  <2>1. check[st] \in Checks
    BY <1>12, <1>c DEF ReadMember
  <2>2. PICK m \in Memberships \cup {Missing} :
          check' = [check EXCEPT ![st].pc = "store", ![st].read = m]
    <3>1. Found(st) \subseteq Memberships
      BY DEF Found, Memberships, Typed
    <3>. QED
      BY <1>12, <3>1 DEF ReadMember
  <2>3. check' \in [Streams -> Checks \cup {NotStreaming}]
    BY <2>1, <2>2 DEF Checks, Pcs, Typed
  <2>. QED
    BY <1>3, <1>4, <1>12, <2>3 DEF ReadMember, Typed, cache, history
<1>13. CASE Store(st)
  <2>1. check[st] \in Checks /\ Key(st) \in Keys /\ check[st].read \in Memberships \cup {Missing}
    BY <1>13, <1>c DEF Store, Checks
  <2>2. check' \in [Streams -> Checks \cup {NotStreaming}]
    BY <1>13, <2>1 DEF Store, Checks, Pcs, Typed
  <2>3. entries' \in [Keys -> Memberships \cup {Missing}]
    BY <1>13, <2>1 DEF Store, Put, Resident, Typed
  <2>. QED
    BY <1>3, <1>4, <1>13, <2>2, <2>3 DEF Store, Typed, history
<1>14. CASE Return(st)
  <2>1. check[st] \in Checks /\ Key(st) \in Keys
    BY <1>14, <1>c DEF Return
  <2>2. check' \in [Streams -> Checks \cup {NotStreaming}]
    BY <1>14, <2>1 DEF Return, Checks, Pcs, Typed
  <2>. QED
    BY <1>3, <1>4, <1>14, <2>1, <2>2 DEF Return, Typed
<1>. QED
  BY <1>5, <1>6, <1>7, <1>8, <1>9, <1>10, <1>11, <1>12, <1>13, <1>14 DEF CheckStep

-----------------------------------------------------------------------------
(* A row's step gives an organisation a higher epoch or takes no row away  *)
(* from it, so what could be believed still can.                           *)
LEMMA RowsBelieve ==
  ASSUME Typed, RowsOK, RowStep
  PROVE  /\ RowsChange
         /\ \A o \in Orgs : organization[o].access_epoch <= organization'[o].access_epoch
         /\ \A k \in Keys, r \in Memberships : Believable(k, r) => Believable(k, r)'
<1>. USE DEF Typed, RowsOK, Exists, Believable, Memberships
<1>1. ASSUME NEW o \in Orgs, NEW s \in Slugs, Create(o, s)
      PROVE  /\ RowsChange
             /\ \A p \in Orgs : organization[p].access_epoch <= organization'[p].access_epoch
             /\ \A k \in Keys, r \in Memberships : Believable(k, r) => Believable(k, r)'
  BY <1>1 DEF Create
<1>2. ASSUME NEW o \in Orgs, NEW s \in Slugs, Rename(o, s)
      PROVE  /\ RowsChange
             /\ \A p \in Orgs : organization[p].access_epoch <= organization'[p].access_epoch
             /\ \A k \in Keys, r \in Memberships : Believable(k, r) => Believable(k, r)'
  BY <1>2 DEF Rename
<1>3. ASSUME NEW o \in Orgs, Delete(o)
      PROVE  /\ RowsChange
             /\ \A p \in Orgs : organization[p].access_epoch <= organization'[p].access_epoch
             /\ \A k \in Keys, r \in Memberships : Believable(k, r) => Believable(k, r)'
  BY <1>3 DEF Delete
<1>4. ASSUME NEW m \in Members, NEW o \in Orgs, Join(m, o)
      PROVE  /\ RowsChange
             /\ \A p \in Orgs : organization[p].access_epoch <= organization'[p].access_epoch
             /\ \A k \in Keys, r \in Memberships : Believable(k, r) => Believable(k, r)'
  BY <1>4, StreamAuthorizationAssumption DEF Join
<1>5. ASSUME NEW m \in Members, NEW o \in Orgs, Move(m, o)
      PROVE  /\ RowsChange
             /\ \A p \in Orgs : organization[p].access_epoch <= organization'[p].access_epoch
             /\ \A k \in Keys, r \in Memberships : Believable(k, r) => Believable(k, r)'
  <2>1. \A p \in Orgs : /\ organization'[p].slug = organization[p].slug
                       /\ organization'[p].access_epoch =
                            IF p = o THEN seq + 2
                            ELSE IF p = member[m] THEN seq + 1 ELSE organization[p].access_epoch
    BY <1>5, MoveEffect
  <2>2. seq \in Nat /\ member' = [member EXCEPT ![m] = o] /\ RowsChange
    BY <1>5 DEF Move
  <2>3. ASSUME NEW k \in Keys, NEW r \in Memberships, Believable(k, r)
        PROVE  Believable(k, r)'
    <3>1. r.org \in Orgs /\ r.epoch \in Nat /\ r.member \in Members
      OBVIOUS
    <3>2. CASE r.org \in {o, member[m]}
      BY <2>1, <2>2, <2>3, <3>1, <3>2
    <3>3. CASE r.org \notin {o, member[m]}
      BY <2>1, <2>2, <2>3, <3>1, <3>3
    <3>. QED
      BY <3>2, <3>3
  <2>. QED
    BY <2>1, <2>2, <2>3
<1>6. ASSUME NEW m \in Members, Leave(m)
      PROVE  /\ RowsChange
             /\ \A p \in Orgs : organization[p].access_epoch <= organization'[p].access_epoch
             /\ \A k \in Keys, r \in Memberships : Believable(k, r) => Believable(k, r)'
  BY <1>6 DEF Leave, Bumped
<1>7. ASSUME NEW m \in Members, ChangeRole(m)
      PROVE  /\ RowsChange
             /\ \A p \in Orgs : organization[p].access_epoch <= organization'[p].access_epoch
             /\ \A k \in Keys, r \in Memberships : Believable(k, r) => Believable(k, r)'
  BY <1>7 DEF ChangeRole, Bumped
<1>. QED
  BY <1>1, <1>2, <1>3, <1>4, <1>5, <1>6, <1>7 DEF RowStep

LEMMA OpenEffect ==
  ASSUME Typed, NEW st \in Streams, Open(st)
  PROVE  check'[st].pc = "open" /\ check'[st].cached = Missing /\ check'[st].read = Missing
<1>1. PICK m \in Members :
        check' = [check EXCEPT ![st] =
          [NotStreaming EXCEPT !.pc = "open", !.account = AccountOf[m], !.org = member[m],
                      !.slug = organization[member[m]].slug]]
  BY DEF Open
<1>. QED
  BY <1>1 DEF NotStreaming, Typed

(* Nothing becomes known but the row a check reads.                        *)
LEMMA KnownGrows ==
  ASSUME Typed, RowsOK, NEW st \in Streams, CheckStep(st),
         NEW k \in Keys, NEW r \in Memberships, Known(k, r)'
  PROVE  Known(k, r) \/ (ReadMember(st) /\ k = Key(st) /\ r \in Found(st))
<1>0. r # Missing
  BY StreamAuthorizationAssumption DEF Memberships, Missing
<1>1. ASSUME NEW t \in Streams, t # st
      PROVE  check'[t] = check[t] /\ Key(t)' = Key(t)
  BY <1>1 DEF CheckStep, Open, Close, Begin, QueryFails, ReadEpoch, Hit, SecondLook, ReadMember,
              Store, Return, Allowed, Key, Typed
<1>2. ASSUME NEW t \in Streams, t # st, Key(t)' = k,
             r = check'[t].cached \/ r = check'[t].read
      PROVE  Known(k, r)
  BY <1>1, <1>2 DEF Known
<1>3. check[st].pc # "off" => check[st] \in Checks /\ Key(st) \in Keys
  BY Subscribed
<1>4. CASE UNCHANGED entries /\ Key(st)' = Key(st)
           /\ check'[st].cached \in {check[st].cached, entries[Key(st)], Missing}
           /\ check'[st].read \in {check[st].read, check[st].cached, entries[Key(st)], Missing}
  BY <1>0, <1>2, <1>4 DEF Known
<1>5. CASE Open(st) \/ Close(st)
  <2>1. check'[st].cached = Missing /\ check'[st].read = Missing /\ UNCHANGED entries
    <3>1. CASE Open(st)
      BY <3>1, OpenEffect DEF Open, cache
    <3>2. CASE Close(st)
      BY <3>2 DEF Close, NotStreaming, Typed, cache
    <3>. QED
      BY <1>5, <3>1, <3>2
  <2>. QED
    BY <1>0, <1>2, <2>1 DEF Known
<1>6. CASE Begin(st) \/ QueryFails(st) \/ ReadEpoch(st) \/ Return(st)
  <2>. check[st] \in Checks
    BY <1>3, <1>6 DEF Begin, QueryFails, ReadEpoch, Return
  <2>. QED
    BY <1>4, <1>6 DEF Begin, QueryFails, ReadEpoch, Return, Key, Checks, Typed, cache
<1>7. CASE Hit(st)
  BY <1>3, <1>4, <1>7 DEF Hit, Allowed, Key, Checks, Typed, cache
<1>8. CASE SecondLook(st)
  <2>. check[st] \in Checks
    BY <1>3, <1>8 DEF SecondLook
  <2>1. CASE UNCHANGED entries /\ check' = Allowed(st, entries[Key(st)])
    BY <1>4, <2>1 DEF Allowed, Key, Checks, Typed
  <2>2. CASE /\ check' = [check EXCEPT ![st].pc = "member"]
             /\ entries' = [entries EXCEPT ![Key(st)] = Missing]
    <3>1. Key(st)' = Key(st) /\ check'[st].cached = check[st].cached /\ check'[st].read = check[st].read
      BY <2>2 DEF Key, Checks, Typed
    <3>2. r = entries'[k] => r = entries[k]
      BY <1>0, <2>2 DEF Typed
    <3>. QED
      BY <1>2, <3>1, <3>2 DEF Known
  <2>. QED
    BY <1>8, <2>1, <2>2 DEF SecondLook
<1>9. CASE ReadMember(st)
  <2>. check[st] \in Checks
    BY <1>3, <1>9 DEF ReadMember
  <2>1. PICK m \in IF Found(st) = {} THEN {Missing} ELSE Found(st) :
          check' = [check EXCEPT ![st].pc = "store", ![st].read = m]
    BY <1>9 DEF ReadMember
  <2>2. /\ Key(st)' = Key(st) /\ check'[st].cached = check[st].cached /\ check'[st].read = m
        /\ UNCHANGED entries
    BY <1>9, <2>1 DEF ReadMember, Key, Checks, Typed, cache
  <2>3. CASE Key(st) = k /\ r = m
    BY <1>0, <1>9, <2>1, <2>3
  <2>4. CASE ~ (Key(st) = k /\ r = m)
    BY <1>2, <2>2, <2>4 DEF Known
  <2>. QED
    BY <2>3, <2>4
<1>10. CASE Store(st)
  <2>1. check[st] \in Checks /\ Key(st) \in Keys
    BY <1>3, <1>10 DEF Store
  <2>2. Key(st)' = Key(st) /\ check'[st].cached = check[st].cached /\ check'[st].read = check[st].read
    BY <1>10, <2>1 DEF Store, Key, Checks, Typed
  <2>3. entries'[k] \in {entries[k], Missing} \/ (k = Key(st) /\ entries'[k] = check[st].read)
    BY <1>10, <2>1 DEF Store, Put, Resident, Typed
  <2>. QED
    BY <1>0, <1>2, <2>2, <2>3 DEF Known
<1>. QED
  BY <1>5, <1>6, <1>7, <1>8, <1>9, <1>10 DEF CheckStep

-----------------------------------------------------------------------------
(* The invariant, for steps of the rows and of a check.                    *)
LEMMA RowsPreserve ==
  ASSUME AuthorizationInv, RowStep
  PROVE  AuthorizationInv'
<1>1. Typed' /\ RowsOK'
  BY TypedRows DEF AuthorizationInv
<1>2. /\ RowsChange
      /\ \A o \in Orgs : organization[o].access_epoch <= organization'[o].access_epoch
      /\ \A k \in Keys, r \in Memberships : Believable(k, r) => Believable(k, r)'
  BY RowsBelieve DEF AuthorizationInv
<1>3. UNCHANGED <<check, entries>>
  BY <1>2 DEF RowsChange, cache
<1>4. ASSUME NEW st \in Streams
      PROVE  /\ was[st] \subseteq was'[st]
             /\ absent[st] => absent'[st]
             /\ Checking(st) => Standing(st)' \subseteq was'[st] /\ (Standing(st)' = {} => absent'[st])
  BY <1>2 DEF RowsChange, Witness, AuthorizationInv, Typed
<1>5. KnownBelievable'
  BY <1>2, <1>3 DEF AuthorizationInv, KnownBelievable, Known, Key, Keys, Memberships
<1>6. Witnessed'
  BY <1>3, <1>4 DEF Witnessed, Checking
<1>7. EpochFences'
  <2>. SUFFICES ASSUME NEW st \in Streams, HasEpoch(st)'
                PROVE  /\ check'[st].epoch > 0
                       /\ check'[st].epoch <= organization'[check'[st].org].access_epoch
                       /\ \A r \in Memberships :
                            Known(Key(st), r)' /\ Covers(r, st)' => r.member \in was'[st]
    BY DEF EpochFences, Memberships
  <2>1. HasEpoch(st) /\ check[st] \in Checks
    BY <1>3, Subscribed DEF HasEpoch, AuthorizationInv
  <2>2. /\ check[st].epoch > 0 /\ check[st].epoch <= organization[check[st].org].access_epoch
        /\ \A r \in Memberships : Known(Key(st), r) /\ Covers(r, st) => r.member \in was[st]
    BY <2>1 DEF AuthorizationInv, EpochFences
  <2>3. check'[st].epoch <= organization'[check'[st].org].access_epoch
    BY <1>1, <1>2, <1>3, <2>1, <2>2 DEF Checks, Typed, AuthorizationInv
  <2>4. ASSUME NEW r \in Memberships, Known(Key(st), r)', Covers(r, st)'
        PROVE  r.member \in was'[st]
    BY <1>3, <1>4, <2>2, <2>4 DEF Known, Key, Covers
  <2>. QED
    BY <1>3, <2>2, <2>3, <2>4
<1>8. ReadCovers' /\ AllowedWasMember' /\ DeniedWasNot'
  BY <1>3, <1>4 DEF AuthorizationInv, ReadCovers, AllowedWasMember, DeniedWasNot, Covers
<1>. QED
  BY <1>1, <1>5, <1>6, <1>7, <1>8 DEF AuthorizationInv

LEMMA FoundIsCurrent ==
  ASSUME AuthorizationInv, NEW st \in Streams, ReadMember(st), NEW r \in Found(st)
  PROVE  /\ r \in Memberships
         /\ r.epoch = organization[r.org].access_epoch
         /\ Believable(Key(st), r)
         /\ \A t \in Streams : Checking(t) /\ Key(t) = Key(st) /\ check[t].org = r.org =>
              r.member \in Standing(t)
<1>1. check[st] \in Checks
  BY Subscribed DEF ReadMember, AuthorizationInv
<1>2. PICK m \in Members :
        /\ member[m] \in Orgs /\ AccountOf[m] = check[st].account
        /\ organization[member[m]].slug = check[st].slug
        /\ r = [member |-> m, org |-> member[m], epoch |-> organization[member[m]].access_epoch]
  BY DEF Found
<1>3. Exists(member[m])
  BY <1>2 DEF AuthorizationInv, RowsOK
<1>. QED
  BY <1>1, <1>2, <1>3
     DEF AuthorizationInv, Typed, RowsOK, Memberships, Believable, Key, Standing, Checking

(* What a check's step leaves alone.                                       *)
LEMMA CheckFrame ==
  ASSUME Typed, RowsOK, NEW st \in Streams, CheckStep(st)
  PROVE  /\ UNCHANGED rows
         /\ \A t \in Streams \ {st} :
              check'[t] = check[t] /\ was'[t] = was[t] /\ absent'[t] = absent[t]
         /\ ~ Begin(st) /\ ~ Return(st) => UNCHANGED history
         /\ ~ Open(st) /\ ~ Close(st) =>
              /\ check[st] \in Checks
              /\ check'[st].account = check[st].account
              /\ check'[st].slug = check[st].slug
              /\ check'[st].org = check[st].org
<1>0. check[st].pc # "off" => check[st] \in Checks
  BY Subscribed
<1>1. UNCHANGED rows
  BY DEF CheckStep, Open, Close, Begin, QueryFails, ReadEpoch, Hit, SecondLook, ReadMember, Store, Return
<1>2. ASSUME NEW t \in Streams \ {st}
      PROVE  check'[t] = check[t] /\ was'[t] = was[t] /\ absent'[t] = absent[t]
  BY DEF CheckStep, Open, Close, Begin, QueryFails, ReadEpoch, Hit, SecondLook, ReadMember, Store,
         Return, Allowed, Typed, history
<1>3. ~ Begin(st) /\ ~ Return(st) => UNCHANGED history
  BY DEF CheckStep, Open, Close, QueryFails, ReadEpoch, Hit, SecondLook, ReadMember, Store
<1>4. ~ Open(st) /\ ~ Close(st) =>
        /\ check[st] \in Checks
        /\ check'[st].account = check[st].account
        /\ check'[st].slug = check[st].slug
        /\ check'[st].org = check[st].org
  BY <1>0 DEF CheckStep, Begin, QueryFails, ReadEpoch, Hit, SecondLook, ReadMember, Store, Return,
              Allowed, Typed, Checks
<1>. QED
  BY <1>1, <1>2, <1>3, <1>4

LEMMA CheckWitnesses ==
  ASSUME AuthorizationInv, NEW st \in Streams, CheckStep(st)
  PROVE  Witnessed' /\ KnownBelievable'
<1>. Typed /\ RowsOK
  BY DEF AuthorizationInv
<1>0. /\ UNCHANGED rows
      /\ \A t \in Streams \ {st} :
           check'[t] = check[t] /\ was'[t] = was[t] /\ absent'[t] = absent[t]
      /\ ~ Begin(st) /\ ~ Return(st) => UNCHANGED history
      /\ ~ Open(st) /\ ~ Close(st) =>
           /\ check[st] \in Checks
           /\ check'[st].account = check[st].account
           /\ check'[st].slug = check[st].slug
           /\ check'[st].org = check[st].org
  BY CheckFrame
<1>1. ASSUME NEW k \in Keys, NEW r \in Memberships, Known(k, r)'
      PROVE  Believable(k, r)'
  <2>1. Believable(k, r)
    BY <1>1, KnownGrows, FoundIsCurrent DEF AuthorizationInv, KnownBelievable
  <2>. QED
    BY <1>0, <2>1 DEF Believable, Exists, rows
<1>2. KnownBelievable'
  BY <1>1 DEF KnownBelievable, Keys, Memberships
<1>3. ASSUME NEW t \in Streams \ {st}, Checking(t)'
      PROVE  Standing(t)' \subseteq was'[t] /\ (Standing(t)' = {} => absent'[t])
  BY <1>0, <1>3 DEF AuthorizationInv, Witnessed, Checking, Standing, rows
<1>4. ASSUME Checking(st)'
      PROVE  Standing(st)' \subseteq was'[st] /\ (Standing(st)' = {} => absent'[st])
  <2>1. ~ Open(st) /\ ~ Close(st) /\ ~ Return(st)
    <3>1. check'[st].pc \notin {"off", "open"}
      BY <1>4 DEF Checking
    <3>2. ~ Open(st)
      BY <3>1, OpenEffect
    <3>3. ~ Close(st)
      BY <3>1 DEF Close, NotStreaming, Typed
    <3>4. ASSUME Return(st) PROVE FALSE
      <4>1. check[st] \in Checks
        BY <1>0, <3>4, <3>2 , <3>3
      <4>. QED
        BY <3>1, <3>4, <4>1 DEF Return, Typed, Checks
    <3>. QED
      BY <3>2, <3>3, <3>4
  <2>2. check[st].pc # "off" /\ check'[st].pc # "off"
    BY <1>4, <2>1 DEF CheckStep, Begin, QueryFails, ReadEpoch, Hit, SecondLook, ReadMember, Store,
                      Checking
  <2>3. Standing(st)' = Standing(st)
    BY <1>0, <2>1, <2>2 DEF Standing, rows
  <2>4. CASE Begin(st)
    BY <2>3, <2>4 DEF Begin, Typed
  <2>5. CASE ~ Begin(st)
    <3>1. Checking(st)
      BY <2>1, <2>5 DEF CheckStep, QueryFails, ReadEpoch, Hit, SecondLook, ReadMember, Store, Checking
    <3>2. UNCHANGED history
      BY <1>0, <2>1, <2>5
    <3>. QED
      BY <2>3, <3>1, <3>2 DEF AuthorizationInv, Witnessed, history
  <2>. QED
    BY <2>4, <2>5
<1>5. Witnessed'
  BY <1>3, <1>4 DEF Witnessed
<1>. QED
  BY <1>2, <1>5

LEMMA CheckFences ==
  ASSUME AuthorizationInv, NEW st \in Streams, CheckStep(st)
  PROVE  EpochFences'
<1>. Typed /\ RowsOK
  BY DEF AuthorizationInv
<1>0. /\ UNCHANGED rows
      /\ \A t \in Streams \ {st} :
           check'[t] = check[t] /\ was'[t] = was[t] /\ absent'[t] = absent[t]
      /\ ~ Begin(st) /\ ~ Return(st) => UNCHANGED history
      /\ ~ Open(st) /\ ~ Close(st) =>
           /\ check[st] \in Checks
           /\ check'[st].account = check[st].account
           /\ check'[st].slug = check[st].slug
           /\ check'[st].org = check[st].org
  BY CheckFrame
<1>. SUFFICES ASSUME NEW t \in Streams, HasEpoch(t)'
              PROVE  /\ check'[t].epoch > 0
                     /\ check'[t].epoch <= organization'[check'[t].org].access_epoch
                     /\ \A r \in Memberships :
                          Known(Key(t), r)' /\ Covers(r, t)' => r.member \in was'[t]
  BY DEF EpochFences, Memberships
<1>1. CASE /\ HasEpoch(t)
           /\ check'[t].epoch = check[t].epoch /\ Key(t)' = Key(t)
           /\ check'[t].org = check[t].org /\ was'[t] = was[t]
  <2>1. check[t] \in Checks /\ Key(t) \in Keys
    BY <1>1, Subscribed DEF HasEpoch
  <2>2. /\ check[t].epoch > 0 /\ check[t].epoch <= organization[check[t].org].access_epoch
        /\ \A r \in Memberships : Known(Key(t), r) /\ Covers(r, t) => r.member \in was[t]
    BY <1>1 DEF AuthorizationInv, EpochFences
  <2>3. ASSUME NEW r \in Memberships, Known(Key(t), r)', Covers(r, t)'
        PROVE  r.member \in was'[t]
    <3>1. Covers(r, t)
      BY <1>1, <2>3 DEF Covers
    <3>2. Known(Key(t), r)'  /\ Key(t)' = Key(t)
      BY <1>1, <2>3
    <3>3. Known(Key(t), r) \/ (ReadMember(st) /\ Key(t) = Key(st) /\ r \in Found(st))
      <4>. DEFINE k == Key(t)
      <4>1. k \in Keys /\ k' = k
        BY <2>1, <3>2
      <4>. QED
        BY <2>1, <3>2, KnownGrows DEF Known
    <3>4. CASE Known(Key(t), r)
      BY <1>1, <2>2, <3>1, <3>4
    <3>5. CASE ReadMember(st) /\ Key(t) = Key(st) /\ r \in Found(st)
      <4>1. Checking(t) /\ check[t].org = r.org
        BY <1>1, <3>1 DEF HasEpoch, Checking, Covers
      <4>2. r.member \in Standing(t)
        BY <3>5, <4>1, FoundIsCurrent
      <4>. QED
        BY <1>1, <4>1, <4>2 DEF AuthorizationInv, Witnessed
    <3>. QED
      BY <3>3, <3>4, <3>5
  <2>. QED
    BY <1>0, <1>1, <2>2, <2>3 DEF rows
<1>2. CASE t # st
  BY <1>0, <1>1, <1>2 DEF HasEpoch, Key
<1>3. CASE t = st /\ ReadEpoch(st)
  <2>. DEFINE o == check[st].org
  <2>1. check[st] \in Checks /\ Key(st) \in Keys /\ check[st].pc = "epoch"
    BY <1>3, Subscribed DEF ReadEpoch
  <2>2. /\ Exists(o) /\ o \in Orgs
        /\ check' = [check EXCEPT ![st].pc = "decide", ![st].epoch = organization[o].access_epoch]
    BY <1>3, <2>1 DEF ReadEpoch, HasEpoch, Checks, Typed
  <2>3. /\ check'[st].epoch = organization[o].access_epoch /\ check'[st].org = o
        /\ check'[st].cached = check[st].cached /\ check'[st].read = check[st].read
        /\ Key(st)' = Key(st)
    BY <2>1, <2>2 DEF Typed, Checks, Key
  <2>4. UNCHANGED entries /\ was'[st] = was[st]
    BY <1>3 DEF ReadEpoch, cache, history
  <2>5. ASSUME NEW r \in Memberships, Known(Key(st), r)', Covers(r, st)'
        PROVE  r.member \in was'[st]
    <3>1. Known(Key(st), r)
      <4>1. ASSUME NEW u \in Streams
            PROVE  /\ Key(u)' = Key(u) /\ check'[u].cached = check[u].cached
                   /\ check'[u].read = check[u].read
        BY <1>0, <2>3 DEF Key
      <4>. QED
        BY <2>4, <2>5, <4>1 DEF Known
    <3>2. Believable(Key(st), r)
      BY <2>1, <3>1 DEF AuthorizationInv, KnownBelievable
    <3>3. r.org = o /\ r.epoch >= organization[o].access_epoch
      BY <2>3, <2>5 DEF Covers
    <3>4. r.member \in Members /\ r.epoch \in Nat /\ organization[o].access_epoch \in Nat
      BY <2>2 DEF Memberships, Typed
    <3>5. r.member \in Standing(st)
      BY <2>1, <2>2, <3>2, <3>3, <3>4 DEF Believable, Standing, Key
    <3>. QED
      BY <2>1, <2>4, <3>5 DEF AuthorizationInv, Witnessed, Checking
  <2>6. organization[o].access_epoch > 0 /\ organization[o].access_epoch \in Nat
    BY <2>2 DEF RowsOK, Typed
  <2>. QED
    BY <1>0, <1>3, <2>3, <2>5, <2>6 DEF rows
<1>4. CASE t = st /\ ~ ReadEpoch(st)
  <2>1. ~ Open(st) /\ ~ Close(st)
    BY <1>4, OpenEffect DEF HasEpoch, Close, Typed, NotStreaming
  <2>2. check[st] \in Checks
    BY <1>0, <2>1
  <2>3. SecondLook(st) \/ ReadMember(st)
    BY <1>4, <2>1, <2>2 DEF CheckStep, Begin, QueryFails, Hit, Store, Return, Allowed, HasEpoch, Checks,
                            Typed
  <2>4. HasEpoch(st) /\ check'[st].epoch = check[st].epoch
    BY <2>2, <2>3 DEF SecondLook, ReadMember, Allowed, HasEpoch, Checks, Typed
  <2>5. UNCHANGED history
    BY <2>3 DEF SecondLook, ReadMember
  <2>. QED
    BY <1>0, <1>1, <1>4, <2>1, <2>4, <2>5 DEF Key, history
<1>. QED
  BY <1>2, <1>3, <1>4

LEMMA CheckAnswers ==
  ASSUME AuthorizationInv, NEW st \in Streams, CheckStep(st)
  PROVE  ReadCovers' /\ AllowedWasMember' /\ DeniedWasNot'
<1>. Typed /\ RowsOK
  BY DEF AuthorizationInv
<1>0. /\ UNCHANGED rows
      /\ \A t \in Streams \ {st} :
           check'[t] = check[t] /\ was'[t] = was[t] /\ absent'[t] = absent[t]
      /\ ~ Begin(st) /\ ~ Return(st) => UNCHANGED history
      /\ ~ Open(st) /\ ~ Close(st) =>
           /\ check[st] \in Checks
           /\ check'[st].account = check[st].account
           /\ check'[st].slug = check[st].slug
           /\ check'[st].org = check[st].org
  BY CheckFrame
<1>. DEFINE Answered(t) ==
       /\ check[t].pc = "store" => Covers(check[t].read, t) \/ absent[t]
       /\ check[t].pc = "allowed" => check[t].read.member \in was[t]
       /\ check[t].pc = "denied" => absent[t]
<1>1. \A t \in Streams : Answered(t)
  BY DEF AuthorizationInv, ReadCovers, AllowedWasMember, DeniedWasNot
<1>2. ASSUME NEW t \in Streams \ {st} PROVE Answered(t)'
  BY <1>0, <1>1 DEF Covers
<1>3. Answered(st)'
  <2>c. ASSUME NEW r, Covers(r, st), check[st] \in Checks, r \in Memberships \cup {Missing}
        PROVE  r \in Memberships
    BY <2>c, StreamAuthorizationAssumption DEF Covers, Missing, Checks
  <2>1. CASE Open(st) \/ Close(st) \/ Begin(st) \/ QueryFails(st) \/ Return(st)
    <3>1. check'[st].pc \in {"open", "off", "epoch", "failed"}
      <4>1. CASE Open(st) \/ Close(st)
        BY <4>1, OpenEffect DEF Close, NotStreaming, Typed
      <4>2. CASE Begin(st) \/ QueryFails(st) \/ Return(st)
        <5>. check[st] \in Checks
          BY <4>2, Subscribed DEF Begin, QueryFails, Return
        <5>. QED
          BY <4>2 DEF Begin, QueryFails, Return, Typed, Checks
      <4>. QED
        BY <2>1, <4>1, <4>2
    <3>. QED
      BY <3>1
  <2>2. CASE ReadEpoch(st)
    <3>1. check[st] \in Checks /\ Checking(st)
      BY <2>2, Subscribed DEF ReadEpoch, Checking
    <3>2. check'[st].pc = "decide" \/ (check'[st].pc = "denied" /\ ~ Exists(check[st].org))
      BY <2>2 DEF ReadEpoch, Typed
    <3>3. ~ Exists(check[st].org) => Standing(st) = {}
      BY <3>1, StreamAuthorizationAssumption DEF Exists, Standing, Checks
    <3>4. UNCHANGED absent
      BY <2>2 DEF ReadEpoch, history
    <3>. QED
      BY <3>1, <3>2, <3>3, <3>4 DEF AuthorizationInv, Witnessed
  <2>3. CASE Hit(st)
    <3>1. check[st] \in Checks /\ Key(st) \in Keys /\ HasEpoch(st)
      BY <2>3, Subscribed DEF Hit, HasEpoch
    <3>2. Covers(check[st].cached, st) /\ check[st].cached \in Memberships
      BY <2>3, <2>c, <3>1 DEF Hit, Checks
    <3>3. check[st].cached.member \in was[st]
      BY <3>1, <3>2 DEF AuthorizationInv, EpochFences, Known
    <3>4. check'[st].pc = "allowed" /\ check'[st].read = check[st].cached /\ was' = was
      BY <2>3, <3>1 DEF Hit, Allowed, Typed, Checks, history
    <3>. QED
      BY <3>3, <3>4
  <2>4. CASE SecondLook(st)
    <3>1. check[st] \in Checks /\ Key(st) \in Keys /\ HasEpoch(st)
      BY <2>4, Subscribed DEF SecondLook, HasEpoch
    <3>2. CASE ~ Covers(entries[Key(st)], st)
      BY <2>4, <3>1, <3>2 DEF SecondLook, Typed, Checks
    <3>3. CASE Covers(entries[Key(st)], st)
      <4>1. entries[Key(st)] \in Memberships
        BY <2>c, <3>1, <3>3 DEF Typed
      <4>2. entries[Key(st)].member \in was[st]
        BY <3>1, <3>3, <4>1 DEF AuthorizationInv, EpochFences, Known
      <4>3. check'[st].pc = "allowed" /\ check'[st].read = entries[Key(st)] /\ was' = was
        BY <2>4, <3>1, <3>3 DEF SecondLook, Allowed, Typed, Checks, history
      <4>. QED
        BY <4>2, <4>3
    <3>. QED
      BY <3>2, <3>3
  <2>5. CASE ReadMember(st)
    <3>1. check[st] \in Checks /\ HasEpoch(st) /\ Checking(st)
      BY <2>5, Subscribed DEF ReadMember, HasEpoch, Checking
    <3>2. PICK m \in IF Found(st) = {} THEN {Missing} ELSE Found(st) :
            check' = [check EXCEPT ![st].pc = "store", ![st].read = m]
      BY <2>5 DEF ReadMember
    <3>3. /\ check'[st].pc = "store" /\ check'[st].read = m /\ check'[st].epoch = check[st].epoch
          /\ check'[st].org = check[st].org /\ absent' = absent
      BY <2>5, <3>1, <3>2 DEF ReadMember, Typed, Checks, history
    <3>4. ASSUME NEW n \in Standing(st)
          PROVE  [member |-> n, org |-> check[st].org,
                  epoch |-> organization[check[st].org].access_epoch] \in Found(st)
      BY <3>1, <3>4 DEF Standing, Found, Checks
    <3>5. CASE Standing(st) = {}
      BY <3>1, <3>3, <3>5 DEF AuthorizationInv, Witnessed
    <3>6. CASE Standing(st) # {}
      <4>1. m \in Found(st)
        BY <3>4, <3>6, <3>2
      <4>2. m \in Memberships /\ m.epoch = organization[m.org].access_epoch
        BY <2>5, <4>1, FoundIsCurrent
      <4>3. m.org = check[st].org
        <5>1. organization[m.org].slug = check[st].slug /\ m.org \in Orgs
          BY <4>1 DEF Found
        <5>2. organization[check[st].org].slug = check[st].slug /\ check[st].org \in Orgs
          BY <3>1, <3>6 DEF Standing, Checks
        <5>3. Exists(m.org)
          BY <3>1, <5>1, StreamAuthorizationAssumption DEF Exists, Checks
        <5>. QED
          BY <5>1, <5>2, <5>3 DEF RowsOK
      <4>4. m.epoch >= check[st].epoch
        BY <3>1, <4>2, <4>3 DEF AuthorizationInv, EpochFences, Checks, Memberships
      <4>. QED
        BY <3>3, <4>3, <4>4 DEF Covers
    <3>. QED
      BY <3>5, <3>6
  <2>6. CASE Store(st)
    <3>1. check[st] \in Checks /\ Key(st) \in Keys /\ HasEpoch(st)
      BY <2>6, Subscribed DEF Store, HasEpoch
    <3>2. /\ check'[st].pc = IF Covers(check[st].read, st) THEN "allowed" ELSE "denied"
          /\ check'[st].read = check[st].read /\ UNCHANGED <<was, absent>>
      BY <2>6, <3>1 DEF Store, Typed, Checks, history
    <3>3. CASE Covers(check[st].read, st)
      <4>1. check[st].read \in Memberships
        BY <2>c, <3>1, <3>3 DEF Checks
      <4>2. check[st].read.member \in was[st]
        BY <3>1, <3>3, <4>1 DEF AuthorizationInv, EpochFences, Known
      <4>. QED
        BY <3>2, <3>3, <4>2
    <3>4. CASE ~ Covers(check[st].read, st)
      BY <1>1, <2>6, <3>2, <3>4 DEF Store
    <3>. QED
      BY <3>3, <3>4
  <2>. QED
    BY <2>1, <2>2, <2>3, <2>4, <2>5, <2>6 DEF CheckStep
<1>4. \A t \in Streams : Answered(t)'
  BY <1>2, <1>3
<1>. QED
  BY <1>4 DEF ReadCovers, AllowedWasMember, DeniedWasNot

-----------------------------------------------------------------------------
LEMMA AuthorizationEstablished == AuthorizationInit => AuthorizationInv
<1>. SUFFICES ASSUME AuthorizationInit PROVE AuthorizationInv
  OBVIOUS
<1>1. Typed
  BY DEF AuthorizationInit, Typed
<1>2. RowsOK
  BY StreamAuthorizationAssumption DEF AuthorizationInit, RowsOK, Exists
<1>3. \A k \in Keys, r \in Memberships : ~ Known(k, r)
  BY StreamAuthorizationAssumption DEF AuthorizationInit, Known, Memberships, Missing, NotStreaming
<1>4. \A st \in Streams : check[st].pc = "off"
  BY DEF AuthorizationInit, NotStreaming
<1>. QED
  BY <1>1, <1>2, <1>3, <1>4
     DEF AuthorizationInv, KnownBelievable, Witnessed, Checking, EpochFences, HasEpoch, ReadCovers,
         AllowedWasMember, DeniedWasNot

LEMMA AuthorizationKept == AuthorizationInv /\ [AuthorizationNext]_authorizationVars => AuthorizationInv'
<1>. SUFFICES ASSUME AuthorizationInv, [AuthorizationNext]_authorizationVars PROVE AuthorizationInv'
  OBVIOUS
<1>1. CASE RowStep
  BY <1>1, RowsPreserve
<1>2. ASSUME NEW st \in Streams, CheckStep(st) PROVE AuthorizationInv'
  BY <1>2, TypedCheck, CheckWitnesses, CheckFences, CheckAnswers DEF AuthorizationInv
<1>3. CASE UNCHANGED authorizationVars
  BY <1>3 DEF authorizationVars, rows, cache, history, AuthorizationInv, Typed, RowsOK, Exists, KnownBelievable, Known,
              Believable, Key, Witnessed, Checking, Standing, EpochFences, HasEpoch, Covers,
              ReadCovers, AllowedWasMember, DeniedWasNot
<1>. QED
  BY <1>1, <1>2, <1>3 DEF AuthorizationNext

(* The cache never holds more allows than its capacity (stream_authorizer  *)
(* .go:164-179).                                                           *)
LEMMA PutBounded ==
  ASSUME NEW k \in Keys, NEW m, Put(k, m), entries \in [Keys -> Memberships \cup {Missing}],
         IsFiniteSet(Resident), Cardinality(Resident) <= Capacity
  PROVE  IsFiniteSet(Resident') /\ Cardinality(Resident') <= Capacity
<1>c. Capacity \in Nat
  BY StreamAuthorizationAssumption
<1>. DEFINE others == Resident \ {k}
<1>. IsFiniteSet(others) /\ Cardinality(others) \in Nat /\ Cardinality(others) <= Capacity
  <2>1. others \subseteq Resident
    OBVIOUS
  <2>2. IsFiniteSet(others) /\ Cardinality(others) <= Cardinality(Resident)
    BY <2>1, FS_Subset
  <2>. HIDE DEF others
  <2>3. Cardinality(others) \in Nat /\ Cardinality(Resident) \in Nat
    BY <2>2, FS_CardinalityType
  <2>. QED
    BY <1>c, <2>2, <2>3
<1>1. ASSUME NEW S, IsFiniteSet(S), Cardinality(S) < Capacity, Resident' \subseteq S \cup {k}
      PROVE  IsFiniteSet(Resident') /\ Cardinality(Resident') <= Capacity
  <2>1. IsFiniteSet(S \cup {k}) /\ Cardinality(S \cup {k}) <= Cardinality(S) + 1
    <3>1. Cardinality(S) \in Nat
      BY <1>1, FS_CardinalityType
    <3>2. IsFiniteSet(S \cup {k})
      BY <1>1, FS_AddElement
    <3>3. Cardinality(S \cup {k}) = IF k \in S THEN Cardinality(S) ELSE Cardinality(S) + 1
      BY <1>1, FS_AddElement
    <3>. QED
      BY <3>1, <3>2, <3>3
  <2>2. IsFiniteSet(Resident') /\ Cardinality(Resident') <= Cardinality(S \cup {k})
    BY <1>1, <2>1, FS_Subset
  <2>3. /\ Cardinality(S) \in Nat /\ Cardinality(S \cup {k}) \in Nat
        /\ Cardinality(Resident') \in Nat
    BY <1>1, <2>1, <2>2, FS_CardinalityType
  <2>. QED
    BY <1>c, <1>1, <2>1, <2>2, <2>3
<1>2. CASE Cardinality(others) < Capacity
  <2>1. Resident' \subseteq others \cup {k}
    BY <1>2 DEF Put, Resident
  <2>. QED
    BY <1>1, <1>2, <2>1
<1>3. CASE ~ (Cardinality(others) < Capacity)
  <2>1. PICK j \in others : entries' = [entries EXCEPT ![k] = m, ![j] = Missing]
    BY <1>3 DEF Put
  <2>2. Resident' \subseteq (others \ {j}) \cup {k}
    BY <2>1 DEF Resident
  <2>3. IsFiniteSet(others \ {j}) /\ Cardinality(others \ {j}) = Cardinality(others) - 1
    BY <2>1, FS_RemoveElement
  <2>4. Cardinality(others \ {j}) < Capacity
    BY <1>c, <2>3
  <2>. QED
    BY <1>1, <2>2, <2>3, <2>4
<1>. QED
  BY <1>2, <1>3

LEMMA InitResident == AuthorizationInit => IsFiniteSet(Resident) /\ Cardinality(Resident) <= Capacity
<1>. SUFFICES ASSUME AuthorizationInit PROVE IsFiniteSet(Resident) /\ Cardinality(Resident) <= Capacity
  OBVIOUS
<1>1. Resident = {}
  BY DEF AuthorizationInit, Resident
<1>. QED
  BY <1>1, FS_EmptySet, StreamAuthorizationAssumption

LEMMA NextResident ==
  ASSUME Typed, [AuthorizationNext]_authorizationVars, IsFiniteSet(Resident), Cardinality(Resident) <= Capacity
  PROVE  IsFiniteSet(Resident') /\ Cardinality(Resident') <= Capacity
<1>1. CASE UNCHANGED entries
  BY <1>1 DEF Resident
<1>2. ASSUME NEW st \in Streams, SecondLook(st), entries' = [entries EXCEPT ![Key(st)] = Missing]
      PROVE  IsFiniteSet(Resident') /\ Cardinality(Resident') <= Capacity
  <2>1. Resident' \subseteq Resident
    BY <1>2 DEF Resident, Typed
  <2>2. IsFiniteSet(Resident') /\ Cardinality(Resident') <= Cardinality(Resident)
    BY <2>1, FS_Subset
  <2>3. /\ Cardinality(Resident) \in Nat /\ Cardinality(Resident') \in Nat /\ Capacity \in Nat
    BY <2>2, FS_CardinalityType, StreamAuthorizationAssumption
  <2>. QED
    BY <2>2, <2>3
<1>3. ASSUME NEW st \in Streams, Store(st), Put(Key(st), check[st].read)
      PROVE  IsFiniteSet(Resident') /\ Cardinality(Resident') <= Capacity
  BY <1>3, Subscribed, PutBounded DEF Store, Typed
<1>4. ASSUME NEW st \in Streams, CheckStep(st)
      PROVE  \/ UNCHANGED entries
             \/ SecondLook(st) /\ entries' = [entries EXCEPT ![Key(st)] = Missing]
             \/ Store(st) /\ Put(Key(st), check[st].read)
  BY <1>4 DEF CheckStep, Open, Close, Begin, QueryFails, ReadEpoch, Hit, SecondLook, ReadMember, Store,
              Return, cache
<1>5. ASSUME RowStep PROVE UNCHANGED entries
  BY <1>5 DEF RowStep, Create, Rename, Delete, Join, Move, Leave, ChangeRole, RowsChange, cache
<1>. QED
  BY <1>1, <1>2, <1>3, <1>4, <1>5 DEF AuthorizationNext, authorizationVars, cache

-----------------------------------------------------------------------------
LEMMA AuthorizationInvariant == AuthorizationSpec => []AuthorizationInv
<1>. QED
  BY AuthorizationEstablished, AuthorizationKept, PTL DEF AuthorizationSpec

(* Every reachable state is well typed, and no more allows are cached than *)
(* the capacity admits (streamAuthorization, stream_authorizer.go:36-47).  *)
THEOREM AuthorizationTypeCorrect == AuthorizationSpec => []AuthorizationTypeOK
<1>. DEFINE Bounded == IsFiniteSet(Resident) /\ Cardinality(Resident) <= Capacity
<1>1. AuthorizationInit => Bounded
  BY InitResident
<1>2. Typed /\ Bounded /\ [AuthorizationNext]_authorizationVars => Bounded'
  BY NextResident
<1>3. AuthorizationInv => Typed
  BY DEF AuthorizationInv
<1>4. Typed /\ Bounded => AuthorizationTypeOK
  BY DEF AuthorizationTypeOK
<1>. QED
  BY <1>1, <1>2, <1>3, <1>4, AuthorizationInvariant, PTL DEF AuthorizationSpec

(* A check allows only who had access at some time while it ran: no cached *)
(* or shared answer outlives a revocation that committed before the check  *)
(* (streamMembership, stream_authorizer.go:86-184).                        *)
THEOREM NoStaleAllow == AuthorizationSpec => []AllowedWasMember
<1>1. AuthorizationInv => AllowedWasMember
  BY DEF AuthorizationInv
<1>. QED
  BY <1>1, AuthorizationInvariant, PTL

(* A check denies only who lacked access at some time while it ran, so no  *)
(* stream skips an event of a standing member (stream_authorizer.go:130-   *)
(* 184, MayReceive).                                                       *)
THEOREM NoWrongDeny == AuthorizationSpec => []DeniedWasNot
<1>1. AuthorizationInv => DeniedWasNot
  BY DEF AuthorizationInv
<1>. QED
  BY <1>1, AuthorizationInvariant, PTL
=============================================================================
