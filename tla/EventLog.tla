------------------------------ MODULE EventLog ------------------------------
(***************************************************************************)
(* One organisation's event log in PostgreSQL: the transactions that take  *)
(* sequences and append events, the retention batches that delete old      *)
(* events, and the snapshots that replay reads from.                       *)
(*                                                                         *)
(* A writing transaction takes its sequences with an UPDATE of the         *)
(* organisation's row, so it holds that row's lock until it ends; a        *)
(* retention batch takes the same lock first.  Nothing a transaction does  *)
(* is visible before it commits, so the variables boundary, eventSeq and   *)
(* log hold committed state only, and a transaction's own work stays in    *)
(* tx until then.  Readers take no lock.                                   *)
(***************************************************************************)
EXTENDS Naturals, FiniteSets

CONSTANTS
  Writers,      \* transactions that post, branch, pin, resolve, sign up
  Legacy,       \* writers of a binary older than the log: they append nothing
  Cleaners,     \* retention workers (more than one server process may run)
  Readers,      \* replaying connections
  NoOne,        \* the holder of a free row lock
  MigratedSeq,  \* event_seq when the event_log migration ran
  RetainBatch,  \* rows one retention batch looks at (1,000 in the code)
  ReadLimit,    \* rows one replay read returns at most
  MaxSeq,       \* model bound: no transaction takes a sequence above it
  MaxTime       \* model bound on the clock

ASSUME EventLogAssumption ==
  /\ Legacy \subseteq Writers
  /\ NoOne \notin Writers \cup Cleaners
  /\ Writers \cap Cleaners = {}
  /\ MigratedSeq \in Nat
  /\ RetainBatch \in Nat \ {0}
  /\ ReadLimit \in Nat \ {0}
  /\ MaxSeq \in Nat
  /\ MaxTime \in Nat

VARIABLES
  now,        \* the database clock
  boundary,   \* organization.event_log_boundary_seq
  eventSeq,   \* organization.event_seq
  log,        \* event_log: created_at of every row, by sequence
  rowLock,    \* who holds the organisation row's lock
  tx,         \* the transaction each writer has open
  run,        \* each cleaner's ExpireEvents call
  cursor,     \* each reader's cursor
  from,       \* the cursor each reader's page was rendered with
  got,        \* the sequences handed to each reader since then
  expired     \* the readers that were told ErrCursorExpired

organization == <<boundary, eventSeq, log>>
readerVars == <<cursor, from, got, expired>>
vars == <<now, organization, rowLock, tx, run, readerVars>>

-----------------------------------------------------------------------------
(* A writer's transaction: when it began, event_seq before its first       *)
(* sequence, and how many sequences it has taken and how many events it    *)
(* has appended, in sequence order.  A branch takes two sequences before   *)
(* it appends and a third when the conclusion moved; every other writer    *)
(* takes one.                                                              *)

Kinds == {"single", "branch"}

NoTx == [open |-> FALSE, kind |-> "single", began |-> 0,
         base |-> 0, taken |-> 0, appended |-> 0]

Transactions ==
  [open : BOOLEAN, kind : Kinds, began : Nat,
   base : Nat, taken : Nat, appended : Nat]

MostTaken(kind) == IF kind = "branch" THEN 3 ELSE 1

Taken(w) == tx[w].base + 1 .. tx[w].base + tx[w].taken
Appended(w) == tx[w].base + 1 .. tx[w].base + tx[w].appended

LockFree(p) == rowLock \in {NoOne, p}

Unlock(p) == IF rowLock = p THEN NoOne ELSE rowLock

Begin(w, kind) ==
  /\ ~tx[w].open
  /\ tx' = [tx EXCEPT ![w] = [NoTx EXCEPT !.open = TRUE, !.kind = kind, !.began = now]]
  /\ UNCHANGED <<now, organization, rowLock, run, readerVars>>

(* Mutant: a writer of either kind asks again before it appends. *)
WantsAnother(t) ==
  \/ t.taken \in {0, 1}
  \/ t.kind = "branch" /\ t.taken = 2 /\ t.appended = 2

(* Whether this kind of writer calls NextEventSeq at this point. *)
WantsSequence(t) ==
  \/ t.taken = 0
  \/ t.kind = "branch" /\ t.taken = 1
  \/ t.kind = "branch" /\ t.taken = 2 /\ t.appended = 2

(* Mutant: the counter is raised in a transaction of its own. *)
NextEventSeqUnlocked(w) ==
  /\ tx[w].open
  /\ WantsSequence(tx[w])
  /\ tx[w].taken = 0
  /\ eventSeq + 1 <= MaxSeq
  /\ tx' = [tx EXCEPT ![w].base = eventSeq, ![w].taken = 1]
  /\ eventSeq' = eventSeq + 1
  /\ UNCHANGED <<now, boundary, log, rowLock, run, readerVars>>

NextEventSeq(w) ==
  /\ tx[w].open
  /\ WantsSequence(tx[w])
  /\ LockFree(w)
  /\ eventSeq + tx[w].taken + 1 <= MaxSeq
  /\ rowLock' = w
  /\ tx' = [tx EXCEPT ![w].base = IF tx[w].taken = 0 THEN eventSeq ELSE @,
                      ![w].taken = @ + 1]
  /\ UNCHANGED <<now, organization, run, readerVars>>

AppendEvent(w) ==
  /\ w \notin Legacy
  /\ tx[w].appended < tx[w].taken
  /\ tx[w].kind = "branch" => tx[w].taken >= 2
  /\ tx' = [tx EXCEPT ![w].appended = @ + 1]
  /\ UNCHANGED <<now, organization, rowLock, run, readerVars>>

(* The writer's program has run to its end: what it took is what its kind  *)
(* takes, and it has appended all of it unless it is a legacy one.         *)
Finished(w) ==
  /\ tx[w].taken >= (IF tx[w].kind = "branch" THEN 2 ELSE 1)
  /\ w \notin Legacy => tx[w].appended = tx[w].taken

(* Mutant: no trigger. *)
LoggedAlways(w) == TRUE

(* The deferred trigger organization_event_seq_logged. *)
Logged(w) == \A s \in Taken(w) : s > boundary => s \in Appended(w)

Commit(w) ==
  /\ Finished(w)
  /\ Logged(w)
  /\ eventSeq' = tx[w].base + tx[w].taken
  /\ log' = [s \in DOMAIN log \cup Appended(w) |->
               IF s \in DOMAIN log THEN log[s] ELSE tx[w].began]
  /\ rowLock' = Unlock(w)
  /\ tx' = [tx EXCEPT ![w] = NoTx]
  /\ UNCHANGED <<now, boundary, run, readerVars>>

(* Any failure before the commit, and a request that changes nothing: the  *)
(* sequences go back unused.  A commit the trigger refuses ends here too.  *)
Rollback(w) ==
  /\ tx[w].open
  /\ rowLock' = Unlock(w)
  /\ tx' = [tx EXCEPT ![w] = NoTx]
  /\ UNCHANGED <<now, organization, run, readerVars>>

-----------------------------------------------------------------------------
(* Retention.                                                              *)

Idle == [running |-> FALSE, cutoff |-> 0]
Runs == [running : BOOLEAN, cutoff : Nat]

(* The n smallest members of S. *)
Lowest(S, n) == {s \in S : Cardinality({t \in S : t < s}) < n}

ExpireEvents(c) ==
  /\ ~run[c].running
  /\ \E cutoff \in 0 .. now :
       /\ \E s \in DOMAIN log : log[s] < cutoff
       /\ run' = [run EXCEPT ![c] = [running |-> TRUE, cutoff |-> cutoff]]
  /\ UNCHANGED <<now, organization, rowLock, tx, readerVars>>

LockForRetention(c) ==
  /\ run[c].running
  /\ rowLock = NoOne
  /\ rowLock' = c
  /\ UNCHANGED <<now, organization, tx, run, readerVars>>

(* Mutant: every expired row of the batch, not only a prefix. *)
ExpiredAnywhere(cutoff) ==
  {s \in Lowest(DOMAIN log, RetainBatch) : log[s] < cutoff}

(* The expired rows below the first unexpired one. *)
ExpiredPrefix(cutoff) ==
  {s \in Lowest(DOMAIN log, RetainBatch) :
     \A t \in DOMAIN log : t <= s => log[t] < cutoff}

(* One batch and its commit: delete, raise the boundary, go round again. *)
ExpireBatch(c) ==
  /\ rowLock = c
  /\ \E through \in ExpiredPrefix(run[c].cutoff) :
       /\ \A s \in ExpiredPrefix(run[c].cutoff) : s <= through
       /\ log' = [s \in {t \in DOMAIN log : t > through} |-> log[s]]
       /\ boundary' = IF through > boundary THEN through ELSE boundary
  /\ rowLock' = NoOne
  /\ UNCHANGED <<now, eventSeq, tx, run, readerVars>>

(* Nothing expired is left, or the batch failed: the call ends and the     *)
(* batches already committed stay.                                         *)
EndRun(c) ==
  /\ run[c].running
  /\ run' = [run EXCEPT ![c] = Idle]
  /\ rowLock' = Unlock(c)
  /\ UNCHANGED <<now, organization, tx, readerVars>>

-----------------------------------------------------------------------------
(* Readers.                                                                *)

(* The page: history and event_seq come from one snapshot. *)
EventSeq(r) ==
  /\ cursor' = [cursor EXCEPT ![r] = eventSeq]
  /\ from' = [from EXCEPT ![r] = eventSeq]
  /\ got' = [got EXCEPT ![r] = {}]
  /\ expired' = expired \ {r}
  /\ UNCHANGED <<now, organization, rowLock, tx, run>>

Above(after) == {s \in DOMAIN log : s > after}

(* Mutant: a cursor one below the boundary is let through. *)
CursorValidOffByOne(after) == boundary <= after + 1 /\ after <= eventSeq

CursorValid(after) == boundary <= after /\ after <= eventSeq

(* One replay read: bounds and rows come from one snapshot. *)
EventsAfter(r) ==
  /\ r \notin expired
  /\ IF CursorValid(cursor[r])
     THEN LET events == Lowest(Above(cursor[r]), ReadLimit)
          IN /\ got' = [got EXCEPT ![r] = @ \cup events]
             /\ \/ events = {} /\ UNCHANGED cursor
                \/ \E last \in events :
                     /\ \A s \in events : s <= last
                     /\ cursor' = [cursor EXCEPT ![r] = last]
             /\ UNCHANGED expired
     ELSE expired' = expired \cup {r} /\ UNCHANGED <<cursor, got>>
  /\ UNCHANGED <<now, organization, rowLock, tx, run, from>>

-----------------------------------------------------------------------------
Tick ==
  /\ now < MaxTime
  /\ now' = now + 1
  /\ UNCHANGED <<organization, rowLock, tx, run, readerVars>>

Init ==
  /\ now = 0
  /\ boundary = MigratedSeq
  /\ eventSeq = MigratedSeq
  /\ log = [s \in {} |-> 0]
  /\ rowLock = NoOne
  /\ tx = [w \in Writers |-> NoTx]
  /\ run = [c \in Cleaners |-> Idle]
  /\ cursor = [r \in Readers |-> MigratedSeq]
  /\ from = [r \in Readers |-> MigratedSeq]
  /\ got = [r \in Readers |-> {}]
  /\ expired = {}

Write(w) ==
  \/ \E kind \in Kinds : Begin(w, kind)
  \/ NextEventSeq(w)
  \/ AppendEvent(w)
  \/ Commit(w)
  \/ Rollback(w)

Retain(c) ==
  \/ ExpireEvents(c)
  \/ LockForRetention(c)
  \/ ExpireBatch(c)
  \/ EndRun(c)

Next ==
  \/ Tick
  \/ \E w \in Writers : Write(w)
  \/ \E c \in Cleaners : Retain(c)
  \/ \E r \in Readers : EventSeq(r) \/ EventsAfter(r)

Spec == Init /\ [][Next]_vars

-----------------------------------------------------------------------------
TypeOK ==
  /\ now \in Nat
  /\ boundary \in Nat
  /\ eventSeq \in Nat
  /\ DOMAIN log \subseteq Nat
  /\ log = [s \in DOMAIN log |-> log[s]]
  /\ \A s \in DOMAIN log : log[s] \in Nat
  /\ rowLock \in Writers \cup Cleaners \cup {NoOne}
  /\ tx \in [Writers -> Transactions]
  /\ \A w \in Writers : tx[w].appended <= tx[w].taken /\ tx[w].taken <= MostTaken(tx[w].kind)
  /\ run \in [Cleaners -> Runs]
  /\ cursor \in [Readers -> Nat]
  /\ from \in [Readers -> Nat]
  /\ got \in [Readers -> SUBSET Nat]
  /\ expired \subseteq Readers

(* The rows are exactly the sequences above the replay boundary up to the  *)
(* committed event_seq: no commit and no retention batch leaves a gap, and *)
(* the boundary never passes a row still in the log (migration 00007's     *)
(* trigger, Cleaner.expireBatch).                                          *)
LogContiguous == DOMAIN log = boundary + 1 .. eventSeq

(* A reader that was not told to reset has been handed every sequence      *)
(* between its page and its cursor, whatever commits and retention batches *)
(* ran between its reads (Reader.EventsAfter).                             *)
ReaderMissesNothing == \A r \in Readers : got[r] = from[r] + 1 .. cursor[r]

(* Sequence order is commit order: a commit never makes an event visible   *)
(* at or below a cursor, where no later read would look                    *)
(* (Sequence.NextEventSeq).                                                *)
NoEventBehindCursor ==
  [][\A r \in Readers, s \in DOMAIN log' \ DOMAIN log : s > cursor[r]]_vars

(* Retention deletes only rows older than the cutoff of a run in progress, *)
(* although created_at does not follow sequence order                      *)
(* (Cleaner.expireBatch).                                                  *)
OnlyExpiredDeleted ==
  [][\A s \in DOMAIN log \ DOMAIN log' :
       \E c \in Cleaners : run[c].running /\ log[s] < run[c].cutoff]_vars

(* The transactions implement the committed window of CommittedLog: what   *)
(* it calls the window's ends are the organisation's committed columns,    *)
(* and a reader's cursor is the reader's.                                  *)
Window == INSTANCE CommittedLog
            WITH Readers <- Readers, boundary <- boundary, eventSeq <- eventSeq, cursor <- cursor
ImplementsCommittedLog == Window!Spec
=============================================================================
