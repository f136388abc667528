------------------------------- MODULE Posting -------------------------------
(***************************************************************************)
(* Sending messages from one topic page: the composer with its queue and   *)
(* its draft on the device (web/src/composer.ts, composer-queue.ts,        *)
(* message-drafts.ts), the requests and their answers, Posting.Send with   *)
(* its keys (internal/conversation/posting.go), the page's stream, another *)
(* member who branches messages away, and reloads.                         *)
(*                                                                         *)
(* A transaction holds the organisation's lock from its first statement to *)
(* its end (EventLog), so its writes are one step of the log. The stream   *)
(* delivers every event once and in order (Stream). Quoted and over-long   *)
(* texts take the ordinary form and are left out.                          *)
(***************************************************************************)
EXTENDS ComposerQueue, FiniteSetsExt

CONSTANTS Handles,      \* the texts with handles in them, whose key is looked up first
          Empty, Kept,
          MaxRequests,
          MaxDisturbances,   \* branches and reloads together
          MaxAsked

ASSUME PostingAssumption ==
  /\ Handles \subseteq Texts /\ Empty \notin Texts /\ Kept \notin Texts
  /\ IsFiniteSet(Keys) /\ Keys = 1..Cardinality(Keys)
  /\ MaxItems \in Nat \ {0} /\ MaxRequests \in Nat \ {0}
  /\ MaxDisturbances \in Nat /\ MaxAsked \in Nat

VARIABLES
  log,        \* committed events: a message posted under a key, or moved by a branch
  reqs,       \* requests that left the page and have not been answered or dropped
  flight,     \* the request the page waits for
  items,      \* the page's pending posts, oldest first
  holds,      \* the key held for a removed text whose outcome is unknown
  restored,   \* what the composer was restored from: a draft or an edited item
  composer,   \* the composer's text
  draft,      \* the entry of this place in the device's storage
  source,     \* the key the stored entry is the snapshot of
  dirty,      \* the composer was edited since the entry was written
  nextKey,    \* the next key to be generated
  list,       \* the messages shown in the page's list
  pos,        \* the events the stream delivered
  applied,    \* the newest event whose frame was applied to the list
  loads,      \* how often the page was loaded
  typed,      \* the composer's text is typed, not restored with the key of a send
  asked,      \* history: how often the member asked anew for a text
  conflicts   \* history: how often a key was another message's

serverVars == <<log, reqs, flight>>
queueVars == <<items, holds, restored, nextKey>>
draftVars == <<composer, draft, source, dirty, typed>>
viewVars == <<list, pos, applied, loads>>
historyVars == <<asked, conflicts>>
vars == <<serverVars, queueVars, draftVars, viewVars, historyVars>>

None == 0
KeyOrNone == Keys \cup {None}
Here == "here"
Away == "away"
Topics == {Here, Away}
Statuses == {"ok", "conflict", "refused", "failed"}
Event == [kind: {"posted"}, key: Keys, text: Texts, topic: {Here}]
         \cup [kind: {"moved"}, key: Keys, text: Texts, topic: Topics]
Idle == [at |-> "idle"]
Request == [at: {"look", "insert", "repeat"}, key: Keys, text: Texts]
           \cup [at: {"answer"}, status: Statuses, topic: Topics]
NotRestored == [key |-> None]
Restoration == [key: Keys, text: Texts \cup {Kept}, unconfirmed: BOOLEAN]
Draft == [text: Texts \cup {Empty}, key: KeyOrNone]

PostedAt(k) == {n \in 1..Len(log) : log[n].kind = "posted" /\ log[n].key = k}
Stored(k) == PostedAt(k) # {}
PostSeq(k) == CHOOSE n \in PostedAt(k) : TRUE
TextOf(k) == log[PostSeq(k)].text

(* The topic of a message as the first n events leave it.                  *)
TopicAt(k, n) == log[Max({m \in 1..n : log[m].key = k})].topic
TopicOf(k) == TopicAt(k, Len(log))

Disturbances == loads + Cardinality({n \in 1..Len(log) : log[n].kind = "moved"})

TypeOK ==
  /\ log \in Seq(Event)
  /\ reqs \in [1..MaxRequests -> Request \cup {Idle}]
  /\ flight \in 0..MaxRequests
  /\ items \in Seq(Item) /\ Len(items) <= MaxItems
  /\ holds \in [Texts -> KeyOrNone]
  /\ restored \in Restoration \cup {NotRestored}
  /\ composer \in Texts \cup {Empty}
  /\ draft \in Draft
  /\ source \in KeyOrNone /\ dirty \in BOOLEAN /\ typed \in BOOLEAN
  /\ nextKey \in 1..Cardinality(Keys) + 1
  /\ list \subseteq Keys /\ pos \in 0..Len(log) /\ applied \in 0..Len(log)
  /\ loads \in 0..MaxDisturbances
  /\ asked \in [Texts -> 0..MaxAsked] /\ conflicts \in 0..Cardinality(Keys)
  \* The page waits for a request exactly while an item is being sent.
  /\ (flight # 0) <=> \E i \in 1..Len(items) : items[i].state = "sending"
  /\ \A i, j \in 1..Len(items) : items[i].state = "sending" /\ items[j].state = "sending" => i = j

Init ==
  /\ log = <<>> /\ reqs = [r \in 1..MaxRequests |-> Idle] /\ flight = 0
  /\ items = <<>> /\ holds = [t \in Texts |-> None] /\ restored = NotRestored /\ nextKey = 1
  /\ composer = Empty /\ draft = [text |-> Empty, key |-> None] /\ source = None
  /\ dirty = FALSE /\ typed = FALSE
  /\ list = {} /\ pos = 0 /\ applied = 0 /\ loads = 0
  /\ asked = [t \in Texts |-> 0] /\ conflicts = 0

(***************************************************************************)
(* The page. Every event of the page ends with an attempt to dispatch.     *)
(***************************************************************************)
(* Send looks for the key before it resolves the handles of a text.        *)
Entry(t) == IF t \in Handles THEN "look" ELSE "insert"

IsSending(item) == item.state = "sending"

(* The queue becomes is, the requests rs with f awaited; then the first    *)
(* queued item is sent if it may.                                          *)
Proceed(is, rs, f) ==
  LET ds == Dispatched(is)
      sent == ds[SelectInSeq(ds, IsSending)]
  IN  /\ items' = ds
      /\ IF ds = is THEN reqs' = rs /\ flight' = f
         ELSE LET free == {r \in DOMAIN rs : rs[r] = Idle}
              IN  /\ free # {}
                  /\ flight' = Min(free)
                  /\ reqs' = [rs EXCEPT ![Min(free)] = [at |-> Entry(sent.text), key |-> sent.requestKey, text |-> sent.text]]

(* Mutant: the key held for a removed text is not used again.              *)
KeyForFresh(t) == IF restored # NotRestored THEN restored.key ELSE nextKey

(* A restored text keeps its key, a removed one the key held for it.       *)
KeyFor(t) == IF restored # NotRestored THEN restored.key
             ELSE IF holds[t] # None THEN holds[t] ELSE nextKey

(* What the entry of this place becomes when the sent text is taken out of *)
(* it: only an entry that is still the snapshot of that send is replaced.  *)
ReplaceSnapshot(key, text) ==
  IF source = key
  THEN draft' = [text |-> text, key |-> None] /\ source' = None /\ dirty' = FALSE
  ELSE UNCHANGED <<draft, source, dirty>>

(* The requests when the page stops listening for the one it waits for.    *)
Unheard == [r \in 1..MaxRequests |-> IF reqs[r].at = "answer" THEN Idle ELSE reqs[r]]

(* The member writes t, or empties the composer: a restored key goes with  *)
(* its exact text, the key of an edited item with any but an empty one.    *)
Type(t) ==
  /\ t # composer
  /\ composer' = t /\ typed' = TRUE /\ source' = None /\ dirty' = TRUE
  /\ restored' = IF restored # NotRestored /\ (t = Empty \/ restored.text \notin {Kept, t})
                 THEN NotRestored ELSE restored
  /\ UNCHANGED <<serverVars, items, holds, nextKey, draft, viewVars, historyVars>>

(* The member asks for another message: writes a text that was not taken   *)
(* back a while ago, or makes a restored text into this one.               *)
Anew(t) == typed /\ (holds[t] = None \/ restored # NotRestored)

(* The member sends the composer's text: it becomes an item, and the entry *)
(* on the device its snapshot.                                             *)
Admit ==
  LET t == composer
      key == KeyFor(t)
      doubt == holds[t] = key \/ (restored # NotRestored /\ restored.unconfirmed)
  IN  /\ t # Empty /\ Len(items) < MaxItems /\ key \in Keys
      /\ Anew(t) => asked[t] < MaxAsked
      /\ Proceed(Append(items, NewItem(key, t, doubt)), reqs, flight)
      /\ nextKey' = IF key = nextKey THEN nextKey + 1 ELSE nextKey
      /\ holds' = [holds EXCEPT ![t] = None]
      /\ restored' = NotRestored
      /\ draft' = [text |-> t, key |-> key] /\ source' = key /\ dirty' = FALSE
      /\ composer' = Empty /\ typed' = FALSE
      /\ asked' = IF Anew(t) THEN [asked EXCEPT ![t] = @ + 1] ELSE asked
      /\ UNCHANGED <<log, viewVars, conflicts>>

Retry(i) ==
  /\ items[i].state = "failed"
  /\ Proceed(Retried(items, i), reqs, flight)
  /\ UNCHANGED <<log, holds, restored, nextKey, draftVars, viewVars, historyVars>>

(* A failed item goes back into an empty composer, with its key.           *)
Edit(i) ==
  LET item == items[i]
  IN  /\ item.state = "failed" /\ composer = Empty
      /\ restored' = [key |-> item.requestKey, text |-> Kept, unconfirmed |-> item.unconfirmed]
      /\ composer' = item.text /\ typed' = FALSE
      /\ draft' = [text |-> item.text, key |-> item.requestKey] /\ source' = None /\ dirty' = FALSE
      /\ Proceed(RemoveAt(items, i), reqs, flight)
      /\ UNCHANGED <<log, holds, nextKey, viewVars, historyVars>>

(* A failed item is taken back. If its outcome is unknown its key is held  *)
(* for the same text.                                                      *)
TakeBack(i) ==
  LET item == items[i]
  IN  /\ item.state = "failed"
      /\ holds' = IF item.unconfirmed THEN [holds EXCEPT ![item.text] = item.requestKey] ELSE holds
      /\ ReplaceSnapshot(item.draftKey, composer)
      /\ Proceed(RemoveAt(items, i), reqs, flight)
      /\ UNCHANGED <<log, restored, nextKey, composer, typed, viewVars, historyVars>>

HoldExpires(t) ==
  /\ holds[t] # None
  /\ holds' = [holds EXCEPT ![t] = None]
  /\ UNCHANGED <<serverVars, items, restored, nextKey, draftVars, viewVars, historyVars>>

(* The page is left and loaded again: what the device holds, which an      *)
(* unsaved edit may not have reached, comes back; the queue does not, and  *)
(* a request under way runs on unseen.                                     *)
Reload ==
  /\ Disturbances < MaxDisturbances /\ loads' = loads + 1
  /\ \E saved \in {draft} \cup (IF dirty THEN {[text |-> composer, key |-> None]} ELSE {}) :
       LET key == IF saved.text = Empty THEN None ELSE saved.key
       IN  /\ draft' = saved
           /\ composer' = saved.text
           /\ restored' = IF key = None THEN NotRestored
                          ELSE [key |-> key, text |-> saved.text, unconfirmed |-> TRUE]
           /\ source' = key
           /\ typed' = (key = None /\ saved.text # Empty)
  /\ dirty' = FALSE
  /\ items' = <<>> /\ holds' = [t \in Texts |-> None] /\ flight' = 0
  /\ list' = {k \in Keys : Stored(k) /\ TopicOf(k) = Here}
  /\ pos' = Len(log) /\ applied' = 0
  /\ reqs' = Unheard
  /\ UNCHANGED <<log, nextKey, asked, conflicts>>

(***************************************************************************)
(* Answers. The response is swapped and the request completed at once.     *)
(***************************************************************************)
SendingAt == SelectInSeq(items, IsSending)

(* Mutant: a message that left before its response is waited for.          *)
RoutedByTopic(k, topic) == topic # Here

(* The message is not to come to this page: it is in another topic, or it  *)
(* left before the response and the stream is already past it.             *)
Routed(k, topic) ==
  \/ topic # Here
  \/ applied # 0 /\ applied >= PostSeq(k) /\ k \notin list

AnswerOk(r) ==
  LET i == SendingAt
      item == items[i]
      settled == [items EXCEPT ![i] = Settled(item, "ok", None)]
      k == item.requestKey
  IN  /\ flight = r /\ reqs[r].at = "answer" /\ reqs[r].status = "ok"
      /\ Proceed(IF Routed(k, reqs[r].topic) THEN RemoveAt(items, i) ELSE Delivered(settled, list),
                 [reqs EXCEPT ![r] = Idle], 0)
      /\ holds' = [t \in Texts |-> IF holds[t] = item.draftKey THEN None ELSE holds[t]]
      /\ restored' = IF restored.key = item.draftKey THEN NotRestored ELSE restored
      /\ ReplaceSnapshot(item.draftKey, composer)
      /\ UNCHANGED <<log, nextKey, composer, typed, viewVars, historyVars>>

AnswerConflict(r) ==
  LET i == SendingAt
  IN  /\ flight = r /\ reqs[r].at = "answer" /\ reqs[r].status = "conflict"
      /\ nextKey \in Keys /\ nextKey' = nextKey + 1
      /\ Proceed([items EXCEPT ![i] = Settled(items[i], "conflict", nextKey)], [reqs EXCEPT ![r] = Idle], 0)
      /\ conflicts' = conflicts + 1
      /\ UNCHANGED <<log, holds, restored, draftVars, viewVars, asked>>

AnswerError(r) ==
  LET i == SendingAt
  IN  /\ flight = r /\ reqs[r].at = "answer" /\ reqs[r].status \in {"refused", "failed"}
      /\ Proceed([items EXCEPT ![i] = Settled(items[i], reqs[r].status, None)], [reqs EXCEPT ![r] = Idle], 0)
      /\ UNCHANGED <<log, holds, restored, nextKey, draftVars, viewVars, historyVars>>

(* The connection breaks or times out: the page learns nothing, and the    *)
(* request may still arrive and be served.                                 *)
LoseAnswer ==
  LET i == SendingAt
  IN  /\ flight # 0
      /\ Proceed([items EXCEPT ![i] = Settled(items[i], "failed", None)], Unheard, 0)
      /\ UNCHANGED <<log, holds, restored, nextKey, draftVars, viewVars, historyVars>>

(***************************************************************************)
(* The server.                                                             *)
(***************************************************************************)
serverUnchanged == UNCHANGED <<flight, queueVars, draftVars, viewVars, historyVars>>

(* The request is answered; an answer nobody waits for any more is gone.   *)
Answered(r, status, topic) ==
  [reqs EXCEPT ![r] = IF flight = r THEN [at |-> "answer", status |-> status, topic |-> topic] ELSE Idle]

(* Mutant: any send under a stored key is taken for a repetition.          *)
AnyText(r) == TRUE

(* Posting.repeat: the author's stored message under the key. Its topic is *)
(* not compared, since a branch may have moved it.                         *)
SameText(r) == TextOf(reqs[r].key) = reqs[r].text

Repeated(r) == Answered(r, IF SameText(r) THEN "ok" ELSE "conflict", TopicOf(reqs[r].key))

(* A text with handles asks for the key before its handles are resolved,   *)
(* and answers at once if it is stored.                                    *)
LookFirst(r) ==
  /\ reqs[r].at = "look"
  /\ IF Stored(reqs[r].key)
     THEN reqs' = Repeated(r)
     ELSE reqs' = [reqs EXCEPT ![r].at = "insert"]
  /\ log' = log /\ serverUnchanged

(* The posting transaction, whose insert the unique index refuses if the   *)
(* key is stored. The caller may not learn that it committed.              *)
Insert(r) ==
  /\ reqs[r].at = "insert" /\ ~Stored(reqs[r].key)
  /\ log' = Append(log, [kind |-> "posted", key |-> reqs[r].key, text |-> reqs[r].text, topic |-> Here])
  /\ \E status \in {"ok", "failed"} : reqs' = Answered(r, status, Here)
  /\ serverUnchanged

KeyTaken(r) ==
  /\ reqs[r].at = "insert" /\ Stored(reqs[r].key)
  /\ reqs' = [reqs EXCEPT ![r].at = "repeat"]
  /\ log' = log /\ serverUnchanged

Repeat(r) ==
  /\ reqs[r].at = "repeat"
  /\ reqs' = Repeated(r)
  /\ log' = log /\ serverUnchanged

(* Rate limits, validation and lookups refuse before any write.            *)
Refuse(r) ==
  /\ reqs[r].at \in {"look", "insert"}
  /\ reqs' = Answered(r, "refused", Here)
  /\ log' = log /\ serverUnchanged

(* Anything may fail with a rollback or before it is reached.              *)
Break(r) ==
  /\ reqs[r].at \in {"look", "insert", "repeat"}
  /\ reqs' = Answered(r, "failed", Here)
  /\ log' = log /\ serverUnchanged

(* Another member branches a message into the other topic or back.         *)
Branch(k) ==
  /\ Stored(k)
  /\ Disturbances < MaxDisturbances
  /\ log' = Append(log, [kind |-> "moved", key |-> k, text |-> TextOf(k),
                         topic |-> CHOOSE to \in Topics : to # TopicOf(k)])
  /\ UNCHANGED reqs /\ serverUnchanged

(***************************************************************************)
(* The stream. A post is rendered once, in the topic it had at some time   *)
(* since, and skipped if that was another one.                             *)
(***************************************************************************)
Deliver ==
  LET n == pos + 1
      k == log[n].key
      shown(topic) == topic = Here
      gone == log[n].kind = "moved" /\ log[n].topic = Away
  IN  /\ pos < Len(log) /\ pos' = n
      /\ \E topic \in IF log[n].kind = "posted" THEN {TopicAt(k, m) : m \in n..Len(log)} ELSE {log[n].topic} :
           /\ list' = IF shown(topic) THEN list \cup {k} ELSE IF gone THEN list \ {k} ELSE list
           /\ applied' = IF shown(topic) \/ gone THEN n ELSE applied
      /\ items' = Delivered(items, list' \cup (IF gone THEN {k} ELSE {}))
      /\ UNCHANGED <<serverVars, holds, restored, nextKey, draftVars, loads, historyVars>>

Serve(r) ==
  \/ LookFirst(r) \/ Insert(r) \/ KeyTaken(r) \/ Repeat(r) \/ Refuse(r) \/ Break(r)

Answer(r) == AnswerOk(r) \/ AnswerConflict(r) \/ AnswerError(r)

Next ==
  \/ \E t \in Texts \cup {Empty} : Type(t)
  \/ Admit
  \/ \E i \in 1..Len(items) : Retry(i) \/ Edit(i) \/ TakeBack(i)
  \/ \E t \in Texts : HoldExpires(t)
  \/ Reload
  \/ \E r \in 1..MaxRequests : Answer(r) \/ Serve(r)
  \/ LoseAnswer
  \/ \E k \in Keys : Branch(k)
  \/ Deliver

Spec == Init /\ [][Next]_vars

(***************************************************************************)
(* What sending promises.                                                  *)
(***************************************************************************)
Copies(t) == Cardinality({n \in 1..Len(log) : log[n].kind = "posted" /\ log[n].text = t})

(* "Retries cannot post twice" (docs/domain/message-posting.md:45): no     *)
(* text is stored more often than the member asked for it.                 *)
RetriesPostOnce == \A t \in Texts : Copies(t) <= asked[t]

(* The same as long as the page that met a conflict was not loaded again.  *)
RetriesPostOnceHere == loads = 0 \/ conflicts = 0 => RetriesPostOnce

(* What the page says of a send is true: a confirmed one has exactly its   *)
(* text stored under its key, so a key that is another message's swallows  *)
(* nothing, and what is called not sent is not stored, not even later by a *)
(* request that was still under way.                                       *)
OutcomeIsTrue ==
  \A i \in 1..Len(items) :
    LET item == items[i]
        k == item.requestKey
    IN  /\ item.state = "confirmed" => Stored(k) /\ TextOf(k) = item.text
        /\ item.state = "failed" /\ ~item.unconfirmed => ~Stored(k)

(* Messages are stored in the order they were sent in: one is on its way   *)
(* only when each before it is stored or is known not to be.               *)
OrderKept ==
  \A i, j \in 1..Len(items) :
    i < j /\ items[j].state # "queued" =>
      \/ items[i].state = "confirmed" /\ Stored(items[i].requestKey)
      \/ items[i].state = "failed" /\ ~items[i].unconfirmed /\ ~Stored(items[i].requestKey)

(* Once the stream is caught up no item stays beside its own message or    *)
(* waits for a message that will not come.                                 *)
NoGhost ==
  pos = Len(log) => \A i \in 1..Len(items) : items[i].state # "confirmed"
=============================================================================
