--------------------------- MODULE ComposerQueue ---------------------------
(***************************************************************************)
(* The pending posts of one page (web/src/composer-queue.ts): what every   *)
(* transition makes of the list of items. Operators only; Posting drives   *)
(* them. An item keeps the key its text was admitted under (draftKey) when *)
(* a conflict gives it another key to send under (requestKey). The message *)
(* a response names is the one stored under the key that was sent, so      *)
(* posted says only whether a response has named it.                       *)
(***************************************************************************)
EXTENDS Naturals, Sequences, SequencesExt

CONSTANTS Keys,      \* the idempotency keys, numbered in the order they are generated
          Texts,     \* what the member may write
          MaxItems   \* the cap of ten items per page

States == {"queued", "sending", "failed", "confirmed"}

Item == [draftKey: Keys, requestKey: Keys, state: States, unconfirmed: BOOLEAN,
         text: Texts, posted: BOOLEAN]

NewItem(key, text, unconfirmed) ==
  [draftKey |-> key, requestKey |-> key, state |-> "queued", unconfirmed |-> unconfirmed,
   text |-> text, posted |-> FALSE]

(* Mutant: an item whose outcome is unknown does not hold back the others. *)
MayDispatchPast(items) == \A i \in 1..Len(items) : items[i].state # "sending"

(* One request at a time; an item whose outcome is unknown holds back all. *)
MayDispatch(items) ==
  \A i \in 1..Len(items) :
    items[i].state # "sending" /\ ~(items[i].state = "failed" /\ items[i].unconfirmed)

IsQueued(item) == item.state = "queued"

(* The queue after dispatch, which sends the first queued item if it may.  *)
Dispatched(items) ==
  LET head == SelectInSeq(items, IsQueued)
  IN  IF MayDispatch(items) /\ head # 0 THEN [items EXCEPT ![head].state = "sending"] ELSE items

(* Mutant: a refused retry settles the doubt about the send it repeats.    *)
SettledRefusedCertain(item, status, newKey) ==
  CASE status = "ok"       -> [item EXCEPT !.state = "confirmed", !.unconfirmed = FALSE, !.posted = TRUE]
    [] status = "conflict" -> [item EXCEPT !.state = "failed", !.unconfirmed = FALSE, !.requestKey = newKey]
    [] status = "refused"  -> [item EXCEPT !.state = "failed", !.unconfirmed = FALSE]
    [] status = "failed"   -> [item EXCEPT !.state = "failed", !.unconfirmed = TRUE]

(* A refusal comes before any write, so it leaves an earlier doubt as it   *)
(* was; a conflict settles the doubt, since the key is another message's.  *)
Settled(item, status, newKey) ==
  CASE status = "ok"       -> [item EXCEPT !.state = "confirmed", !.unconfirmed = FALSE, !.posted = TRUE]
    [] status = "conflict" -> [item EXCEPT !.state = "failed", !.unconfirmed = FALSE, !.requestKey = newKey]
    [] status = "refused"  -> [item EXCEPT !.state = "failed"]
    [] status = "failed"   -> [item EXCEPT !.state = "failed", !.unconfirmed = TRUE]

(* A refused send goes behind the later ones, an unknown one stays.        *)
Retried(items, i) ==
  LET queued == [items[i] EXCEPT !.state = "queued"]
  IN  IF items[i].unconfirmed THEN [items EXCEPT ![i] = queued] ELSE Append(RemoveAt(items, i), queued)

(* Items whose message is in the list, or just left the topic, are done:   *)
(* what is left of the first n items, in their order.                      *)
Delivered(items, ids) ==
  LET done(item) == item.posted /\ item.requestKey \in ids
      left[n \in 0..Len(items)] ==
        IF n = 0 THEN <<>>
        ELSE IF done(items[n]) THEN left[n - 1] ELSE Append(left[n - 1], items[n])
  IN  left[Len(items)]
=============================================================================
