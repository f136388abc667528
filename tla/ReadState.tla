------------------------------ MODULE ReadState ------------------------------
(***************************************************************************)
(* One member's read state in one channel: the read ranges and the topic   *)
(* floors in PostgreSQL, the reading transactions of the member's tabs,    *)
(* the member's own posts and branches, and everybody else's.              *)
(*                                                                         *)
(* A reading transaction is READ COMMITTED and takes no lock until it      *)
(* writes: what its earlier statements saw may be overtaken by commits.    *)
(* From then on it holds the channel_read row, so read ranges and floors   *)
(* change one transaction at a time.  Messages change only under the lock  *)
(* on the organisation row, which a post or a branch takes first of all.   *)
(* A transaction's writes stay in tx until it commits.                     *)
(***************************************************************************)
EXTENDS ReadRanges

CONSTANTS
  Readings,  \* reading requests of this member that may run at once
  Writings,  \* posting and branching requests of this member, likewise
  NoOne,     \* the holder of a free lock, and the topic of no request
  Topics,    \* the channel's topics
  Joined,    \* member.joined_event_seq
  MaxSeq     \* model bound on event_seq

ASSUME ReadStateAssumption ==
  /\ NoOne \notin Readings \cup Writings \cup Topics
  /\ Readings \cap Writings = {}
  /\ Topics # {}
  /\ Joined \in Nat \ {0}
  /\ MaxSeq \in Nat

VARIABLES
  eventSeq,     \* the organisation's committed event_seq
  topicOf,      \* the channel's messages, by sequence: their topic
  movedSeq,     \* and moved_event_seq, 0 for none
  orgRow,       \* who holds the organisation row's lock
  ranges,       \* read_range
  floors,       \* topic_read_floor, for the topics that have one
  channelRead,  \* who holds the channel_read row's lock
  tx            \* the transaction of each request

Requests == Readings \cup Writings

messages == <<eventSeq, topicOf, movedSeq>>
readState == <<ranges, floors>>
vars == <<messages, orgRow, readState, channelRead, tx>>

Messages == DOMAIN topicOf

-----------------------------------------------------------------------------
(* A reading request names a cursor and a run from .. through of it; a     *)
(* whole scope is the run 0 .. cursor.  asked records what the request is  *)
(* to mark, for the properties only.                                       *)

Kinds == {"feed", "topic", "post", "branch"}

Idle ==
  [pc |-> "idle", kind |-> "feed", topic |-> NoOne,
   cursor |-> 0, from |-> 0, through |-> 0, moves |-> {}, add |-> {}, floor |-> 0,
   work |-> {}, new |-> {}, changed |-> FALSE, asked |-> {}]

Transactions ==
  [pc : {"idle", "begun", "merge", "probe", "find", "guard", "commit"},
   kind : Kinds, topic : Topics \cup {NoOne}, cursor : Nat, from : Nat, through : Nat,
   moves : SUBSET Nat, add : SUBSET SequenceRanges, floor : Nat,
   work : SUBSET SequenceRanges, new : SUBSET Nat, changed : BOOLEAN,
   asked : SUBSET Nat]

(* The two neighbour queries, with their defaults. *)
LastBefore(s) == IF \E m \in Messages : m < s THEN Max({m \in Messages : m < s}) ELSE 0

FirstAfter(s, default) ==
  IF \E m \in Messages : m > s THEN Min({m \in Messages : m > s}) ELSE default

Free(lock, p) == lock \in {NoOne, p}

JoinPrefix == Span(0, Joined + 1)

(* The set a writer finds under its lock, with the join prefix in it.      *)
Established == Merged(ranges, JoinPrefix)

(* The prefix of an established set: the end of its first range.           *)
Prefix(rs) == Max({r.hi : r \in {s \in rs : s.lo = 0}})

IsRun(cursor, from, through) ==
  /\ cursor <= eventSeq
  /\ \/ from = 0 /\ through = cursor
     \/ 1 <= from /\ from <= through /\ through <= cursor

-----------------------------------------------------------------------------
(* Reading the feed.                                                       *)

(* The first statement refuses a cursor above the committed sequence.  The *)
(* run bounds all that a feed read does afterwards.                        *)
ReadFeed(p) ==
  /\ tx[p].pc = "idle"
  /\ \E from, through \in 0 .. eventSeq :
       /\ IsRun(through, from, through)
       /\ tx' = [tx EXCEPT ![p] = [Idle EXCEPT !.pc = "begun", !.from = from,
                                     !.through = through,
                                     !.asked = {m \in Messages : from <= m /\ m <= through}]]
  /\ UNCHANGED <<messages, orgRow, readState, channelRead>>

(* The channel's messages around the run, read before any lock.  Two       *)
(* queries and one step: below the run nothing is added any more, and the  *)
(* second is the only one a new message can change.                        *)
FeedNeighbours(p) ==
  /\ tx[p].pc = "begun" /\ tx[p].kind = "feed"
  /\ LET previous == LastBefore(tx[p].from)
     IN tx' = [tx EXCEPT ![p].pc = "merge",
                 ![p].add = {Span(IF previous = 0 THEN 0 ELSE previous + 1,
                                  FirstAfter(tx[p].through, tx[p].through + 1))},
                 ![p].from = 0, ![p].through = 0]
  /\ UNCHANGED <<messages, orgRow, readState, channelRead>>

(* MergeCovered, for the feed, an own post and an own notice. *)
Merge(p) ==
  /\ tx[p].pc = "merge"
  /\ Free(channelRead, p)
  /\ channelRead' = p
  /\ \E a \in tx[p].add :
       tx' = [tx EXCEPT ![p].work = Merged(Established, a),
                        ![p].new = IF tx[p].kind = "feed" THEN NewlyCovered(Established, a) ELSE {},
                        ![p].add = {},
                        ![p].pc = IF tx[p].kind = "feed" THEN "probe" ELSE "commit"]
  /\ UNCHANGED <<messages, orgRow, readState>>

(* Mutant: any newly covered sequence counts, message or not. *)
FeedProbeCovered(p) ==
  /\ tx[p].pc = "probe"
  /\ tx' = [tx EXCEPT ![p].changed = (tx[p].new # {}), ![p].pc = "commit"]
  /\ UNCHANGED <<messages, orgRow, readState, channelRead>>

(* Whether an actual message became read. *)
FeedProbe(p) ==
  /\ tx[p].pc = "probe"
  /\ tx' = [tx EXCEPT ![p].changed = (tx[p].new \cap Messages # {}), ![p].new = {},
                      ![p].pc = "commit"]
  /\ UNCHANGED <<messages, orgRow, readState, channelRead>>

-----------------------------------------------------------------------------
(* Reading a topic.                                                        *)

ReadTopic(p) ==
  /\ tx[p].pc = "idle"
  /\ \E t \in Topics, cursor, from, through \in 0 .. eventSeq :
       /\ IsRun(cursor, from, through)
       /\ tx' = [tx EXCEPT ![p] = [Idle EXCEPT !.pc = "begun", !.kind = "topic", !.topic = t,
                                     !.cursor = cursor, !.from = from, !.through = through]]
  /\ UNCHANGED <<messages, orgRow, readState, channelRead>>

(* The lock, the join prefix, the set and the floor, Prefix - 1 if absent. *)
Prepare(p) ==
  /\ tx[p].pc = "begun" /\ tx[p].kind = "topic"
  /\ Free(channelRead, p)
  /\ channelRead' = p
  /\ tx' = [tx EXCEPT ![p].pc = "find", ![p].work = Established,
              ![p].floor = IF tx[p].topic \in DOMAIN floors THEN floors[tx[p].topic]
                           ELSE Prefix(Established) - 1]
  /\ UNCHANGED <<messages, orgRow, readState>>

(* Unread messages of a topic, for a prefix, a floor and the ranges read:  *)
(* those above the floor, and those below it that were moved in after it.  *)
Unread(t, rs, floor) ==
  {m \in Messages :
     /\ topicOf[m] = t
     /\ m > Prefix(rs) - 1
     /\ m > floor \/ movedSeq[m] > floor
     /\ m \notin Covered(rs)}

InRun(p) == {m \in Messages : tx[p].from <= m /\ m <= tx[p].through}

(* Mutant: a move the page has not seen makes no difference. *)
AnyMove(p) == Messages

(* Messages not moved after the cursor of the page. *)
MoveSeen(p) == {m \in Messages : movedSeq[m] <= tx[p].cursor}

(* The candidates of the run. *)
Candidates(p) == Unread(tx[p].topic, tx[p].work, tx[p].floor) \cap InRun(p) \cap MoveSeen(p)

(* Mutant: a message is read as its own sequence alone. *)
OwnBounds(m) == Span(m, m + 1)

(* From the channel's previous message to its next one. *)
Bounds(m) == Span(LastBefore(m) + 1, FirstAfter(m, m + 1))

(* The union with every candidate's bounds, and the floor raised even if   *)
(* there were none: writes to rows this transaction has locked.            *)
Add(p, found, floor) ==
  [tx[p] EXCEPT !.pc = "commit", !.work = Added(@, found), !.add = {},
                !.floor = IF floor > @ THEN floor ELSE @,
                !.cursor = 0, !.from = 0, !.through = 0]

FindCandidates(p) ==
  /\ tx[p].pc = "find"
  /\ LET found == {Bounds(m) : m \in Candidates(p)}
         next == IF tx[p].from = 0 THEN Add(p, found, tx[p].cursor)
                                   ELSE [tx[p] EXCEPT !.pc = "guard", !.add = found]
     IN tx' = [tx EXCEPT ![p] =
          [next EXCEPT !.changed = (found # {}),
                       !.asked = {m \in InRun(p) : topicOf[m] = tx[p].topic
                                                     /\ movedSeq[m] <= tx[p].cursor}]]
  /\ UNCHANGED <<messages, orgRow, readState, channelRead>>

(* Mutant: a run raises the floor to its own end. *)
RunFloorAtEnd(p) == tx[p].through

(* A run raises the floor at most to its end, and to no unread message     *)
(* below the run, nor to the move that brought one in.                     *)
RunFloor(p) ==
  LET below == {m \in Unread(tx[p].topic, tx[p].work, tx[p].floor) : m < tx[p].from}
      old == tx[p].floor
      blocking == {m \in below : m > old} \cup {movedSeq[m] : m \in {n \in below : n <= old}}
  IN Min(blocking \cup {tx[p].through + 1}) - 1

GuardFloor(p) ==
  /\ tx[p].pc = "guard"
  /\ tx' = [tx EXCEPT ![p] = Add(p, tx[p].add, RunFloor(p))]
  /\ UNCHANGED <<messages, orgRow, readState, channelRead>>

-----------------------------------------------------------------------------
(* The member's own posts and branches.  The organisation lock keeps the   *)
(* new message newest, so its range ends right after it.                   *)

OwnSeq(p) == IF tx[p].kind = "branch" THEN eventSeq + 2 ELSE eventSeq + 1

(* Mutant: the range of an own message starts after the read prefix. *)
OwnRangeFromPrefix(p, seq) == Span(Prefix(Established), seq + 1)

OwnRange(p, seq) == Span(LastBefore(seq) + 1, seq + 1)

Post(p) ==
  /\ tx[p].pc = "idle" /\ orgRow = NoOne
  /\ eventSeq + 1 <= MaxSeq
  /\ orgRow' = p
  /\ \E t \in Topics :
       tx' = [tx EXCEPT ![p] = [Idle EXCEPT !.pc = "merge", !.kind = "post", !.topic = t,
                                  !.add = {OwnRange(p, eventSeq + 1)}, !.asked = {eventSeq + 1}]]
  /\ UNCHANGED <<messages, readState, channelRead>>

(* A branch takes the move's sequence and then the notice's, and moves     *)
(* messages of one topic to another; the notice stays in the source.       *)
Branch(p) ==
  /\ tx[p].pc = "idle" /\ orgRow = NoOne
  /\ eventSeq + 2 <= MaxSeq
  /\ orgRow' = p
  /\ \E t \in Topics : \E moves \in SUBSET {m \in Messages : topicOf[m] = t} \ {{}} :
       tx' = [tx EXCEPT ![p] = [Idle EXCEPT !.pc = "merge", !.kind = "branch", !.topic = t,
                                  !.moves = moves, !.add = {OwnRange(p, eventSeq + 2)},
                                  !.asked = {eventSeq + 2}]]
  /\ UNCHANGED <<messages, readState, channelRead>>

(* The messages after a new one at s in topic t, and a move at seq.        *)
Arrives(s, t, moves, to, seq) ==
  /\ topicOf' = [m \in Messages \cup {s} |->
                   IF m = s THEN t ELSE IF m \in moves THEN to ELSE topicOf[m]]
  /\ movedSeq' = [m \in Messages \cup {s} |->
                    IF m = s THEN 0 ELSE IF m \in moves THEN seq ELSE movedSeq[m]]
  /\ eventSeq' = s

-----------------------------------------------------------------------------
(* The end of a transaction.                                               *)

Reads(p) == tx[p].kind \in {"feed", "topic"}

(* A posting's message and a branching's moves appear with its commit.  The *)
(* destination of a branch is picked here: no earlier step depends on it.   *)
Commit(p) ==
  /\ tx[p].pc = "commit"
  /\ ranges' = tx[p].work
  /\ floors' = IF tx[p].kind = "topic"
               THEN [t \in DOMAIN floors \cup {tx[p].topic} |->
                       IF t = tx[p].topic THEN tx[p].floor ELSE floors[t]]
               ELSE floors
  /\ \/ Reads(p) /\ UNCHANGED messages
     \/ ~Reads(p) /\ \E to \in Topics :
          /\ tx[p].kind = "branch" => to # tx[p].topic
          /\ tx[p].kind = "post" => to = tx[p].topic
          /\ Arrives(OwnSeq(p), tx[p].topic, tx[p].moves, to, eventSeq + 1)
  /\ channelRead' = NoOne
  /\ orgRow' = IF orgRow = p THEN NoOne ELSE orgRow
  /\ tx' = [tx EXCEPT ![p] = Idle]

Rollback(p) ==
  /\ tx[p].pc # "idle"
  /\ channelRead' = IF channelRead = p THEN NoOne ELSE channelRead
  /\ orgRow' = IF orgRow = p THEN NoOne ELSE orgRow
  /\ tx' = [tx EXCEPT ![p] = Idle]
  /\ UNCHANGED <<messages, readState>>

-----------------------------------------------------------------------------
(* Transactions of other members, and events that are no messages here:    *)
(* they touch nothing of this member's read state.                         *)

OtherPost ==
  /\ orgRow = NoOne
  /\ eventSeq + 1 <= MaxSeq
  /\ \E t \in Topics : Arrives(eventSeq + 1, t, {}, t, 0)
  /\ UNCHANGED <<orgRow, readState, channelRead, tx>>

OtherBranch ==
  /\ orgRow = NoOne
  /\ eventSeq + 2 <= MaxSeq
  /\ \E t, to \in Topics : \E moves \in SUBSET {m \in Messages : topicOf[m] = t} \ {{}} :
       /\ t # to
       /\ Arrives(eventSeq + 2, t, moves, to, eventSeq + 1)
  /\ UNCHANGED <<orgRow, readState, channelRead, tx>>

OtherEvent ==
  /\ orgRow = NoOne
  /\ eventSeq + 1 <= MaxSeq
  /\ eventSeq' = eventSeq + 1
  /\ UNCHANGED <<topicOf, movedSeq, orgRow, readState, channelRead, tx>>

-----------------------------------------------------------------------------
(* The member joined after any messages there already were. *)
Init ==
  /\ eventSeq = Joined
  /\ \E older \in SUBSET (1 .. Joined - 1) : topicOf \in [older -> Topics]
  /\ movedSeq = [m \in Messages |-> 0]
  /\ orgRow = NoOne
  /\ ranges = {}
  /\ floors = [t \in {} |-> 0]
  /\ channelRead = NoOne
  /\ tx = [p \in Requests |-> Idle]

Reading(p) ==
  \/ ReadFeed(p) \/ FeedNeighbours(p) \/ FeedProbe(p)
  \/ ReadTopic(p) \/ Prepare(p) \/ FindCandidates(p) \/ GuardFloor(p)

Writing(p) == Post(p) \/ Branch(p)

Next ==
  \/ \E p \in Readings : Reading(p)
  \/ \E p \in Writings : Writing(p)
  \/ \E p \in Requests : Merge(p) \/ Commit(p) \/ Rollback(p)
  \/ OtherPost \/ OtherBranch \/ OtherEvent

Spec == Init /\ [][Next]_vars

-----------------------------------------------------------------------------
(* Counting, in one snapshot: the gaps between the ranges of the channel,  *)
(* and each topic's messages above its floor or moved in after it.  The    *)
(* caps of 100 on ranges and counts are left out.                          *)

Stored == IF ranges = {} THEN {JoinPrefix} ELSE ranges

ChannelUnread ==
  {m \in Messages : \E r \in Stored : r.hi <= m /\ \A s \in Stored : s.lo > r.lo => m < s.lo}

Floor(t) == IF t \in DOMAIN floors THEN floors[t] ELSE Prefix(Stored) - 1

TopicUnread(t) == Unread(t, Stored, Floor(t))

(* Whether a message is read is the set's answer. *)
Read == Messages \cap Covered(Stored)

-----------------------------------------------------------------------------
TypeOK ==
  /\ eventSeq \in Nat
  /\ Messages \subseteq 1 .. eventSeq
  /\ topicOf \in [Messages -> Topics]
  /\ movedSeq \in [Messages -> 0 .. eventSeq]
  /\ orgRow \in Requests \cup {NoOne}
  /\ ranges \subseteq SequenceRanges /\ Apart(ranges)
  /\ ranges # {} => 0 \in {r.lo : r \in ranges}
  /\ DOMAIN floors \subseteq Topics
  /\ floors \in [DOMAIN floors -> 0 .. eventSeq]
  /\ channelRead \in Requests \cup {NoOne}
  /\ tx \in [Requests -> Transactions]

(* Every gap between two ranges holds an unread message, so there are      *)
(* never more ranges than unread messages and one (docs/domain/unread.md,  *)
(* "Every bounded gap holds an unread message"; the neighbour bounds of    *)
(* FeedWriter, TopicUnreadRangeBounds and the posting writers).            *)
GapsHoldUnread ==
  \A r, s \in ranges :
    r.hi < s.lo /\ (\A q \in ranges : q.lo <= r.lo \/ s.lo <= q.lo) =>
      \E m \in Messages : r.hi <= m /\ m < s.lo

(* Counting over gaps and from a topic's floor finds exactly the messages  *)
(* the set leaves unread: no floor hides one, whatever was moved where     *)
(* between or during the reads (TopicWriter.ReadShown, CountTopicUnread).  *)
CountsMatchTheSet ==
  /\ ChannelUnread = Messages \ Read
  /\ \A t \in Topics : TopicUnread(t) = {m \in Messages \ Read : topicOf[m] = t}

(* Messages become read only by a commit, and then exactly those the       *)
(* request was for and that were not yet: a feed's run, the run of a topic *)
(* as it stood at the candidate query without moves the page had not       *)
(* reached, or one's own message.  None ever becomes unread.               *)
MarksWhatWasAsked ==
  [][ \/ Read' = Read
      \/ \E p \in Requests : tx[p].pc = "commit" /\ Read' = Read \cup tx[p].asked ]_vars

(* A reading transaction asks for a recount in the member's tabs exactly   *)
(* if it made a message read (Reading.publish's changed).                  *)
ChangedIsExact ==
  [][\A p \in Requests :
       tx[p].pc = "commit" /\ Reads(p) /\ ranges' = tx[p].work /\ tx'[p].pc = "idle" =>
         (tx[p].changed <=> Read' # Read)]_vars
=============================================================================
