-------------------------- MODULE EventLog_proofs --------------------------
(***************************************************************************)
(* Proofs about the event log and the cache its streams read it through.   *)
(*                                                                         *)
(* The log (module EventLog), for every number of writers, cleaners and    *)
(* readers and every value of its bounds: type correctness, the contiguous *)
(* log, the reader that misses nothing, commit order, and the refinement   *)
(* of CommittedLog.                                                        *)
(*                                                                         *)
(* The cache (module CachedEvents), for every number of callers, loads,    *)
(* slots and events: a batch is as fresh as the Get it answers, a load     *)
(* lives for whoever still waits for it, and shutdown is final.            *)
(***************************************************************************)
EXTENDS EventLog, CachedEvents, FiniteSetTheorems, TLAPS

(* The lock's discipline: a transaction that has taken a sequence holds    *)
(* the organisation's row, so event_seq is still what it was when the      *)
(* transaction read it.  This is what the contiguous log rests on: without *)
(* it LogContiguous is not preserved by Commit.                            *)
LockDiscipline ==
  /\ boundary <= eventSeq
  /\ \A w \in Writers :
       tx[w].taken > 0 => rowLock = w /\ tx[w].base = eventSeq

(* A reader's cursor lies between its page and the newest commit. *)
CursorBounds ==
  \A r \in Readers : from[r] <= cursor[r] /\ cursor[r] <= eventSeq

IInv ==
  /\ TypeOK
  /\ LogContiguous
  /\ LockDiscipline
  /\ CursorBounds
  /\ ReaderMissesNothing

-----------------------------------------------------------------------------
(* The n lowest sequences of a window without gaps are its first n: what   *)
(* ORDER BY seq LIMIT n returns to replay and to retention.                *)
LEMMA LowestOfWindow ==
  ASSUME NEW a \in Nat, NEW e \in Nat, NEW n \in Nat
  PROVE  Lowest(a + 1 .. e, n) = {s \in a + 1 .. e : s <= a + n}
<1>1. SUFFICES ASSUME NEW s \in a + 1 .. e
               PROVE  Cardinality({t \in a + 1 .. e : t < s}) < n <=> s <= a + n
  BY DEF Lowest
<1>2. {t \in a + 1 .. e : t < s} = a + 1 .. s - 1
  OBVIOUS
<1>3. Cardinality(a + 1 .. s - 1) = IF a + 1 > s - 1 THEN 0 ELSE (s - 1) - (a + 1) + 1
  BY FS_Interval
<1>4. Cardinality(a + 1 .. s - 1) = s - 1 - a
  BY <1>3
<1>5. Cardinality({t \in a + 1 .. e : t < s}) = s - 1 - a
  BY <1>2, <1>4
<1>. QED
  BY <1>5

-----------------------------------------------------------------------------
(* Type correctness: each action keeps every variable in its set, and no   *)
(* transaction takes more sequences than its kind or appends more events   *)
(* than it has taken.                                                      *)
LEMMA InitTypeOK == Init => TypeOK
  BY EventLogAssumption
     DEF Init, TypeOK, NoTx, Transactions, Kinds, MostTaken, Idle, Runs

LEMMA WriteTypeOK ==
  ASSUME NEW w \in Writers, TypeOK, Write(w)
  PROVE  TypeOK'
<1>. USE EventLogAssumption DEF TypeOK, organization, readerVars
<1>t. tx[w] \in Transactions
  OBVIOUS
<1>1. ASSUME NEW kind \in Kinds, Begin(w, kind) PROVE TypeOK'
  <2>. DEFINE begun == [NoTx EXCEPT !.open = TRUE, !.kind = kind, !.began = now]
  <2>1. begun \in Transactions /\ begun.taken = 0 /\ begun.appended = 0
    BY DEF NoTx, Transactions, Kinds
  <2>2. tx' = [tx EXCEPT ![w] = begun]
    BY <1>1 DEF Begin
  <2>3. 0 <= MostTaken(begun.kind)
    BY DEF MostTaken
  <2>. HIDE DEF begun
  <2>4. /\ tx' \in [Writers -> Transactions]
        /\ \A v \in Writers : tx'[v].appended <= tx'[v].taken /\ tx'[v].taken <= MostTaken(tx'[v].kind)
    BY <2>1, <2>2, <2>3
  <2>. QED
    BY <1>1, <2>4 DEF Begin
<1>2. CASE NextEventSeq(w)
  <2>1. WantsSequence(tx[w]) => tx[w].taken + 1 <= MostTaken(tx[w].kind)
    BY <1>t DEF WantsSequence, MostTaken, Transactions, Kinds
  <2>2. /\ tx'[w] \in Transactions
        /\ tx'[w].appended <= tx'[w].taken
        /\ tx'[w].taken <= MostTaken(tx'[w].kind)
    BY <1>2, <1>t, <2>1 DEF NextEventSeq, Transactions
  <2>. QED
    BY <1>2, <2>2 DEF NextEventSeq
<1>3. CASE AppendEvent(w)
  BY <1>3, <1>t DEF AppendEvent, Transactions
<1>4. CASE Commit(w)
  <2>1. Appended(w) \subseteq Nat
    BY <1>t DEF Appended, Transactions
  <2>2. eventSeq' \in Nat
    BY <1>4, <1>t DEF Commit, Transactions
  <2>3. /\ DOMAIN log' \subseteq Nat
        /\ log' = [s \in DOMAIN log' |-> log'[s]]
        /\ \A s \in DOMAIN log' : log'[s] \in Nat
    BY <1>4, <1>t, <2>1 DEF Commit, Transactions
  <2>4. rowLock' \in Writers \cup Cleaners \cup {NoOne}
    BY <1>4 DEF Commit, Unlock
  <2>5. /\ tx' \in [Writers -> Transactions]
        /\ \A v \in Writers : tx'[v].appended <= tx'[v].taken /\ tx'[v].taken <= MostTaken(tx'[v].kind)
    BY <1>4 DEF Commit, NoTx, Transactions, Kinds, MostTaken
  <2>. QED
    BY <1>4, <2>2, <2>3, <2>4, <2>5 DEF Commit
<1>5. CASE Rollback(w)
  BY <1>5 DEF Rollback, Unlock, NoTx, Transactions, Kinds, MostTaken
<1>. QED
  BY <1>1, <1>2, <1>3, <1>4, <1>5 DEF Write

LEMMA RetainTypeOK ==
  ASSUME NEW c \in Cleaners, TypeOK, Retain(c)
  PROVE  TypeOK'
<1>. USE EventLogAssumption DEF TypeOK, organization, readerVars
<1>1. CASE ExpireEvents(c)
  BY <1>1 DEF ExpireEvents, Runs
<1>2. CASE LockForRetention(c)
  BY <1>2 DEF LockForRetention
<1>3. CASE ExpireBatch(c)
  <2>1. PICK through \in ExpiredPrefix(run[c].cutoff) :
          /\ log' = [s \in {t \in DOMAIN log : t > through} |-> log[s]]
          /\ boundary' = IF through > boundary THEN through ELSE boundary
    BY <1>3 DEF ExpireBatch
  <2>2. through \in DOMAIN log
    BY DEF ExpiredPrefix, Lowest
  <2>. QED
    BY <1>3, <2>1, <2>2 DEF ExpireBatch
<1>4. CASE EndRun(c)
  BY <1>4 DEF EndRun, Unlock, Idle, Runs
<1>. QED
  BY <1>1, <1>2, <1>3, <1>4 DEF Retain

LEMMA ReadTypeOK ==
  ASSUME NEW r \in Readers, TypeOK, EventSeq(r) \/ EventsAfter(r)
  PROVE  TypeOK'
<1>. USE DEF TypeOK, organization
<1>1. CASE EventSeq(r)
  BY <1>1 DEF EventSeq
<1>2. CASE EventsAfter(r)
  <2>1. Lowest(Above(cursor[r]), ReadLimit) \subseteq Nat
    BY DEF Lowest, Above
  <2>. QED
    BY <1>2, <2>1 DEF EventsAfter
<1>. QED
  BY <1>1, <1>2

LEMMA NextTypeOK == TypeOK /\ [Next]_vars => TypeOK'
<1>1. SUFFICES ASSUME TypeOK, [Next]_vars PROVE TypeOK'
  OBVIOUS
<1>2. CASE Tick
  BY <1>1, <1>2 DEF Tick, TypeOK, organization, readerVars
<1>3. CASE UNCHANGED vars
  BY <1>1, <1>3 DEF vars, TypeOK, organization, readerVars
<1>. QED
  BY <1>1, <1>2, <1>3, WriteTypeOK, RetainTypeOK, ReadTypeOK DEF Next

(* Every reachable state of the event log has the types TypeOK gives it. *)
THEOREM TypeCorrect == Spec => []TypeOK
  BY InitTypeOK, NextTypeOK, PTL DEF Spec

-----------------------------------------------------------------------------
(* The invariant, one action at a time.                                    *)
LEMMA InitIInv == Init => IInv
<1>1. Init => LogContiguous
  BY EventLogAssumption DEF Init, LogContiguous
<1>2. Init => LockDiscipline
  BY EventLogAssumption DEF Init, LockDiscipline, NoTx
<1>3. Init => CursorBounds /\ ReaderMissesNothing
  BY EventLogAssumption DEF Init, CursorBounds, ReaderMissesNothing
<1>. QED
  BY InitTypeOK, <1>1, <1>2, <1>3 DEF IInv

(* A commit that the trigger lets through has appended every sequence it   *)
(* took, and what it took is right above event_seq.                        *)
LEMMA CommitAddsTop ==
  ASSUME NEW w \in Writers, TypeOK, LockDiscipline, Commit(w)
  PROVE  /\ tx[w].taken \in Nat \ {0}
         /\ eventSeq' = eventSeq + tx[w].taken
         /\ DOMAIN log' = DOMAIN log \cup (eventSeq + 1 .. eventSeq')
         /\ rowLock = w
<1>1. /\ tx[w] \in Transactions
      /\ tx[w].appended <= tx[w].taken
      /\ boundary \in Nat /\ eventSeq \in Nat
  BY DEF TypeOK
<1>2. tx[w].taken \in Nat \ {0}
  BY <1>1 DEF Commit, Finished, Transactions
<1>3. rowLock = w /\ tx[w].base = eventSeq /\ boundary <= eventSeq
  BY <1>1, <1>2 DEF LockDiscipline, Transactions
<1>4. eventSeq' = eventSeq + tx[w].taken
  BY <1>3 DEF Commit
<1>5. Appended(w) = eventSeq + 1 .. eventSeq'
  <2>1. \A s \in Taken(w) : s \in Appended(w)
    BY <1>1, <1>3 DEF Commit, Logged, Taken, Transactions
  <2>2. Taken(w) = eventSeq + 1 .. eventSeq'
    BY <1>3, <1>4 DEF Taken
  <2>3. Appended(w) \subseteq Taken(w)
    BY <1>1 DEF Appended, Taken, Transactions
  <2>. QED
    BY <2>1, <2>2, <2>3
<1>6. DOMAIN log' = DOMAIN log \cup Appended(w)
  BY DEF Commit
<1>. QED
  BY <1>2, <1>3, <1>4, <1>5, <1>6

LEMMA WriteIInv ==
  ASSUME NEW w \in Writers, IInv, Write(w)
  PROVE  IInv'
<1>. USE DEF IInv
<1>1. TypeOK'
  BY WriteTypeOK
<1>2. CASE Commit(w)
  <2>1. /\ tx[w].taken \in Nat \ {0}
        /\ eventSeq' = eventSeq + tx[w].taken
        /\ DOMAIN log' = DOMAIN log \cup (eventSeq + 1 .. eventSeq')
        /\ rowLock = w
    BY <1>2, CommitAddsTop
  <2>2. eventSeq \in Nat /\ boundary \in Nat /\ boundary' = boundary
    BY <1>2 DEF Commit, TypeOK
  <2>3. LogContiguous'
    BY <2>1, <2>2 DEF LogContiguous, LockDiscipline
  <2>4. LockDiscipline'
    <3>1. ASSUME NEW v \in Writers PROVE ~(tx'[v].taken > 0)
      BY <1>2, <2>1 DEF Commit, LockDiscipline, TypeOK, NoTx, Transactions
    <3>. QED
      BY <2>1, <2>2, <3>1 DEF LockDiscipline
  <2>5. CursorBounds' /\ ReaderMissesNothing'
    BY <1>2, <2>1, <2>2 DEF Commit, readerVars, CursorBounds, ReaderMissesNothing, TypeOK
  <2>. QED
    BY <1>1, <2>3, <2>4, <2>5
<1>3. ASSUME UNCHANGED <<organization, readerVars>>, LockDiscipline'
      PROVE  IInv'
  BY <1>1, <1>3
     DEF organization, readerVars, LogContiguous, CursorBounds, ReaderMissesNothing
<1>4. ASSUME NEW kind \in Kinds, Begin(w, kind) PROVE IInv'
  <2>1. /\ tx'[w].taken = 0 /\ rowLock' = rowLock /\ UNCHANGED <<organization, readerVars>>
        /\ \A v \in Writers \ {w} : tx'[v] = tx[v]
    BY <1>4 DEF Begin, NoTx, TypeOK
  <2>. QED
    BY <1>3, <2>1 DEF LockDiscipline, organization
<1>5. CASE NextEventSeq(w)
  <2>1. /\ rowLock' = w /\ UNCHANGED <<organization, readerVars>>
        /\ \A v \in Writers \ {w} : tx'[v] = tx[v]
        /\ tx'[w].base = IF tx[w].taken = 0 THEN eventSeq ELSE tx[w].base
        /\ tx[w].taken \in Nat
    BY <1>5 DEF NextEventSeq, TypeOK, Transactions
  <2>2. \A v \in Writers \ {w} : ~(tx[v].taken > 0)
    BY <1>5, EventLogAssumption DEF NextEventSeq, LockFree, LockDiscipline
  <2>3. tx'[w].base = eventSeq
    BY <2>1 DEF LockDiscipline
  <2>. QED
    BY <1>3, <2>1, <2>2, <2>3 DEF LockDiscipline, organization
<1>6. CASE AppendEvent(w)
  <2>1. /\ rowLock' = rowLock /\ UNCHANGED <<organization, readerVars>>
        /\ \A v \in Writers : tx'[v].taken = tx[v].taken /\ tx'[v].base = tx[v].base
    BY <1>6 DEF AppendEvent, TypeOK, Transactions
  <2>. QED
    BY <1>3, <2>1 DEF LockDiscipline, organization
<1>7. CASE Rollback(w)
  <2>1. /\ tx'[w].taken = 0 /\ UNCHANGED <<organization, readerVars>>
        /\ \A v \in Writers \ {w} : tx'[v] = tx[v]
        /\ \A v \in Writers \ {w} : rowLock = v => rowLock' = v
    BY <1>7 DEF Rollback, Unlock, NoTx, TypeOK
  <2>. QED
    BY <1>3, <2>1 DEF LockDiscipline, organization
<1>. QED
  BY <1>2, <1>4, <1>5, <1>6, <1>7 DEF Write

LEMMA RetainIInv ==
  ASSUME NEW c \in Cleaners, IInv, Retain(c)
  PROVE  IInv'
<1>. USE DEF IInv
<1>1. TypeOK'
  BY RetainTypeOK
<1>2. CASE ExpireBatch(c)
  <2>1. PICK through \in ExpiredPrefix(run[c].cutoff) :
          /\ log' = [s \in {t \in DOMAIN log : t > through} |-> log[s]]
          /\ boundary' = IF through > boundary THEN through ELSE boundary
    BY <1>2 DEF ExpireBatch
  <2>2. /\ through \in boundary + 1 .. eventSeq
        /\ boundary \in Nat /\ eventSeq \in Nat
    BY DEF ExpiredPrefix, Lowest, LogContiguous, TypeOK
  <2>3. boundary' = through /\ eventSeq' = eventSeq
    BY <1>2, <2>1, <2>2 DEF ExpireBatch
  <2>4. LogContiguous'
    BY <2>1, <2>2, <2>3 DEF LogContiguous
  <2>5. LockDiscipline'
    <3>1. \A v \in Writers : ~(tx[v].taken > 0)
      BY <1>2, EventLogAssumption DEF ExpireBatch, LockDiscipline
    <3>. QED
      BY <1>2, <2>2, <2>3, <3>1 DEF ExpireBatch, LockDiscipline
  <2>6. CursorBounds' /\ ReaderMissesNothing'
    BY <1>2 DEF ExpireBatch, readerVars, CursorBounds, ReaderMissesNothing
  <2>. QED
    BY <1>1, <2>4, <2>5, <2>6
<1>3. ASSUME UNCHANGED <<organization, tx, readerVars>>,
             \A v \in Writers : rowLock = v => rowLock' = v
      PROVE  IInv'
  BY <1>1, <1>3
     DEF organization, readerVars, LogContiguous, LockDiscipline, CursorBounds, ReaderMissesNothing
<1>4. CASE ExpireEvents(c)
  BY <1>3, <1>4 DEF ExpireEvents
<1>5. CASE LockForRetention(c)
  BY <1>3, <1>5, EventLogAssumption DEF LockForRetention
<1>6. CASE EndRun(c)
  BY <1>3, <1>6, EventLogAssumption DEF EndRun, Unlock
<1>. QED
  BY <1>2, <1>4, <1>5, <1>6 DEF Retain

(* A replay read of a valid cursor returns the next sequences of the       *)
(* window, so the cursor moves over exactly what was handed out.           *)
LEMMA ReadAdvances ==
  ASSUME NEW r \in Readers, IInv, EventsAfter(r), r \notin expired'
  PROVE  /\ boundary <= cursor[r]
         /\ cursor'[r] \in cursor[r] .. eventSeq
         /\ got'[r] = got[r] \cup (cursor[r] + 1 .. cursor'[r])
         /\ \A q \in Readers \ {r} : cursor'[q] = cursor[q] /\ got'[q] = got[q]
<1>. DEFINE next == Lowest(Above(cursor[r]), ReadLimit)
<1>1. cursor[r] \in Nat /\ eventSeq \in Nat /\ boundary \in Nat
  BY DEF IInv, TypeOK
<1>2. CursorValid(cursor[r])
  BY DEF EventsAfter
<1>3. boundary <= cursor[r] /\ cursor[r] <= eventSeq
  BY <1>2 DEF CursorValid
<1>4. Above(cursor[r]) = cursor[r] + 1 .. eventSeq
  BY <1>1, <1>3 DEF Above, IInv, LogContiguous
<1>5. next = {s \in cursor[r] + 1 .. eventSeq : s <= cursor[r] + ReadLimit}
  BY <1>1, <1>4, LowestOfWindow, EventLogAssumption
<1>6. \A s \in next : \A t \in cursor[r] + 1 .. s : t \in next
  BY <1>1, <1>5, EventLogAssumption
<1>7. /\ got' = [got EXCEPT ![r] = @ \cup next]
      /\ \/ next = {} /\ UNCHANGED cursor
         \/ \E last \in next :
              /\ \A s \in next : s <= last
              /\ cursor' = [cursor EXCEPT ![r] = last]
  BY <1>2 DEF EventsAfter
<1>. HIDE DEF next
<1>8. got'[r] = got[r] \cup next /\ \A q \in Readers \ {r} : got'[q] = got[q]
  BY <1>7 DEF IInv, TypeOK
<1>9. CASE next = {} /\ UNCHANGED cursor
  BY <1>1, <1>3, <1>8, <1>9
<1>10. ASSUME NEW last \in next,
              \A s \in next : s <= last,
              cursor' = [cursor EXCEPT ![r] = last]
       PROVE  /\ cursor'[r] \in cursor[r] .. eventSeq
              /\ next = cursor[r] + 1 .. cursor'[r]
              /\ \A q \in Readers \ {r} : cursor'[q] = cursor[q]
  <2>1. cursor'[r] = last /\ \A q \in Readers \ {r} : cursor'[q] = cursor[q]
    BY <1>10 DEF IInv, TypeOK
  <2>2. last \in cursor[r] + 1 .. eventSeq
    BY <1>5
  <2>3. next \subseteq cursor[r] + 1 .. last
    BY <1>1, <1>5, <1>10
  <2>4. cursor[r] + 1 .. last \subseteq next
    BY <1>6
  <2>5. next = cursor[r] + 1 .. last
    BY <2>3, <2>4
  <2>6. last \in cursor[r] .. eventSeq
    BY <1>1, <2>2
  <2>. QED
    BY <2>1, <2>5, <2>6
<1>. QED
  BY <1>3, <1>7, <1>8, <1>9, <1>10

LEMMA ReadIInv ==
  ASSUME NEW r \in Readers, IInv, EventSeq(r) \/ EventsAfter(r)
  PROVE  IInv'
<1>1. TypeOK /\ TypeOK'
  BY ReadTypeOK DEF IInv
<1>2. LogContiguous' /\ LockDiscipline'
  BY DEF IInv, EventSeq, EventsAfter, organization, LogContiguous, LockDiscipline
<1>3. eventSeq' = eventSeq
  BY DEF EventSeq, EventsAfter, organization
<1>4. CASE EventSeq(r)
  <2>1. /\ from'[r] = eventSeq /\ cursor'[r] = eventSeq /\ got'[r] = {}
        /\ \A q \in Readers \ {r} : from'[q] = from[q] /\ cursor'[q] = cursor[q] /\ got'[q] = got[q]
    BY <1>1, <1>4 DEF EventSeq, TypeOK
  <2>2. eventSeq \in Nat
    BY <1>1 DEF TypeOK
  <2>3. CursorBounds'
    BY <1>3, <2>1, <2>2 DEF IInv, CursorBounds
  <2>4. ReaderMissesNothing'
    <3>1. {} = eventSeq + 1 .. eventSeq
      BY <2>2
    <3>. QED
      BY <2>1, <3>1 DEF IInv, ReaderMissesNothing
  <2>. QED
    BY <1>1, <1>2, <2>3, <2>4 DEF IInv
<1>5. CASE EventsAfter(r)
  <2>1. from' = from
    BY <1>5 DEF EventsAfter
  <2>2. CASE r \in expired'
    <3>1. UNCHANGED <<cursor, got>>
      BY <1>5, <2>2 DEF EventsAfter
    <3>. QED
      BY <1>1, <1>2, <1>3, <2>1, <3>1 DEF IInv, CursorBounds, ReaderMissesNothing
  <2>3. CASE r \notin expired'
    <3>1. /\ cursor'[r] \in cursor[r] .. eventSeq
          /\ got'[r] = got[r] \cup (cursor[r] + 1 .. cursor'[r])
          /\ \A q \in Readers \ {r} : cursor'[q] = cursor[q] /\ got'[q] = got[q]
      BY <1>5, <2>3, ReadAdvances
    <3>2. from[r] \in Nat /\ cursor[r] \in Nat /\ eventSeq \in Nat /\ from[r] <= cursor[r]
      BY <1>1 DEF IInv, TypeOK, CursorBounds
    <3>3. got'[r] = from[r] + 1 .. cursor'[r]
      BY <3>1, <3>2 DEF IInv, ReaderMissesNothing
    <3>4. CursorBounds' /\ ReaderMissesNothing'
      BY <1>3, <2>1, <3>1, <3>2, <3>3 DEF IInv, CursorBounds, ReaderMissesNothing
    <3>. QED
      BY <1>1, <1>2, <3>4 DEF IInv
  <2>. QED
    BY <2>2, <2>3
<1>. QED
  BY <1>4, <1>5

LEMMA NextIInv == IInv /\ [Next]_vars => IInv'
<1>1. SUFFICES ASSUME IInv, [Next]_vars PROVE IInv'
  OBVIOUS
<1>2. ASSUME UNCHANGED <<organization, rowLock, tx, readerVars>>, TypeOK'
      PROVE  IInv'
  BY <1>1, <1>2
     DEF IInv, organization, readerVars, LogContiguous, LockDiscipline, CursorBounds, ReaderMissesNothing
<1>3. TypeOK'
  BY <1>1, NextTypeOK DEF IInv
<1>4. CASE Tick
  BY <1>2, <1>3, <1>4 DEF Tick
<1>5. CASE UNCHANGED vars
  BY <1>2, <1>3, <1>5 DEF vars
<1>. QED
  BY <1>1, <1>4, <1>5, WriteIInv, RetainIInv, ReadIInv DEF Next

(* The invariant the theorems below are read off from. *)
LEMMA InductiveInvariant == Spec => []IInv
  BY InitIInv, NextIInv, PTL DEF Spec

-----------------------------------------------------------------------------
(* The rows are exactly the sequences above the boundary, for any number   *)
(* of writers, legacy writers and concurrent retention workers.            *)
THEOREM LogIsContiguous == Spec => []LogContiguous
<1>1. IInv => LogContiguous
  BY DEF IInv
<1>. QED
  BY InductiveInvariant, <1>1, PTL

(* A reader has been handed everything between its page and its cursor.    *)
THEOREM ReadersMissNothing == Spec => []ReaderMissesNothing
<1>1. IInv => ReaderMissesNothing
  BY DEF IInv
<1>. QED
  BY InductiveInvariant, <1>1, PTL

(* A new row is always above every cursor: sequence order is commit order. *)
THEOREM CommitsAreOrdered == Spec => NoEventBehindCursor
<1>1. ASSUME IInv, Next, NEW r \in Readers, NEW s \in DOMAIN log' \ DOMAIN log
      PROVE  s > cursor[r]
  <2>1. CASE log' = log
    BY <2>1
  <2>2. ASSUME NEW w \in Writers, Commit(w) PROVE s > cursor[r]
    <3>1. s \in eventSeq + 1 .. eventSeq'
      BY <1>1, <2>2, CommitAddsTop DEF IInv
    <3>. QED
      BY <1>1, <3>1 DEF IInv, CursorBounds, TypeOK
  <2>3. ASSUME NEW c \in Cleaners, ExpireBatch(c) PROVE s > cursor[r]
    BY <2>3 DEF ExpireBatch
  <2>. QED
    BY <1>1, <2>1, <2>2, <2>3
       DEF Next, Tick, Write, Begin, NextEventSeq, AppendEvent, Rollback, Retain,
           ExpireEvents, LockForRetention, EndRun, EventSeq, EventsAfter, organization
<1>2. IInv /\ [Next]_vars =>
        [\A r \in Readers, s \in DOMAIN log' \ DOMAIN log : s > cursor[r]]_vars
  BY <1>1
<1>. QED
  BY InductiveInvariant, <1>2, PTL DEF Spec, NoEventBehindCursor

-----------------------------------------------------------------------------
(* Refinement: each step of the transactions is a step of the committed    *)
(* window or leaves it unchanged.                                          *)
LEMMA InitImplements == Init => Window!Init
  BY EventLogAssumption DEF Init, Window!Init

LEMMA StepImplements ==
  ASSUME IInv, [Next]_vars
  PROVE  [Window!Next]_(Window!vars)
<1>. USE DEF Window!Next, Window!vars
<1>1. ASSUME NEW w \in Writers, Commit(w) PROVE Window!Commit
  <2>1. tx[w].taken \in Nat \ {0} /\ eventSeq' = eventSeq + tx[w].taken /\ eventSeq \in Nat
    BY <1>1, CommitAddsTop DEF IInv, TypeOK
  <2>2. UNCHANGED <<boundary, cursor>>
    BY <1>1 DEF Commit, readerVars
  <2>. QED
    BY <2>1, <2>2 DEF Window!Commit
<1>2. ASSUME NEW c \in Cleaners, ExpireBatch(c) PROVE Window!Expire
  <2>1. PICK through \in ExpiredPrefix(run[c].cutoff) :
          boundary' = IF through > boundary THEN through ELSE boundary
    BY <1>2 DEF ExpireBatch
  <2>2. through \in boundary + 1 .. eventSeq /\ boundary \in Nat /\ eventSeq \in Nat
    BY DEF ExpiredPrefix, Lowest, IInv, LogContiguous, TypeOK
  <2>. QED
    BY <1>2, <2>1, <2>2 DEF ExpireBatch, readerVars, Window!Expire
<1>3. ASSUME NEW r \in Readers, EventSeq(r) PROVE Window!Load(r)
  BY <1>3 DEF EventSeq, organization, Window!Load
<1>4. ASSUME NEW r \in Readers, EventsAfter(r), r \notin expired' PROVE Window!Deliver(r)
  <2>1. /\ boundary <= cursor[r]
        /\ cursor'[r] \in cursor[r] .. eventSeq
        /\ \A q \in Readers \ {r} : cursor'[q] = cursor[q]
    BY <1>4, ReadAdvances
  <2>2. cursor \in [Readers -> Nat] /\ cursor' \in [Readers -> Nat]
    BY <1>4, ReadTypeOK DEF IInv, TypeOK
  <2>3. cursor' = [cursor EXCEPT ![r] = cursor'[r]]
    BY <2>1, <2>2
  <2>. QED
    BY <1>4, <2>1, <2>3 DEF EventsAfter, organization, Window!Deliver
<1>5. ASSUME NEW r \in Readers, EventsAfter(r), r \in expired' PROVE UNCHANGED Window!vars
  BY <1>5 DEF EventsAfter, organization
<1>6. CASE UNCHANGED <<organization, readerVars>>
  BY <1>6 DEF organization, readerVars
<1>. QED
  BY <1>1, <1>2, <1>3, <1>4, <1>5, <1>6
     DEF Next, vars, Tick, Write, Begin, NextEventSeq, AppendEvent, Rollback, Retain,
         ExpireEvents, LockForRetention, EndRun

(* The transactions of EventLog implement CommittedLog: whatever is proved *)
(* or checked against the committed window holds of the code's writers,    *)
(* retention workers and replay reads.                                     *)
THEOREM LogImplementsWindow == Spec => ImplementsCommittedLog
<1>1. IInv /\ [Next]_vars => [Window!Next]_(Window!vars)
  BY StepImplements
<1>. QED
  BY InitImplements, InductiveInvariant, <1>1, PTL
     DEF Spec, ImplementsCommittedLog, Window!Spec

-----------------------------------------------------------------------------
(* Retention deletes only rows a running ExpireEvents call asked for.      *)
CleanerRuns == \A c \in Cleaners : rowLock = c => run[c].running

LEMMA CleanerRunsStep == TypeOK /\ CleanerRuns /\ [Next]_vars => CleanerRuns'
<1>1. SUFFICES ASSUME TypeOK, CleanerRuns, [Next]_vars, NEW c \in Cleaners, rowLock' = c
               PROVE  run'[c].running
  BY DEF CleanerRuns
<1>. USE EventLogAssumption
<1>2. ASSUME NEW d \in Cleaners, Retain(d) PROVE run'[c].running
  BY <1>1, <1>2
     DEF Retain, ExpireEvents, LockForRetention, ExpireBatch, EndRun, Unlock,
         CleanerRuns, TypeOK, Runs
<1>3. ASSUME NEW w \in Writers, Write(w) PROVE run'[c].running
  BY <1>1, <1>3
     DEF Write, Begin, NextEventSeq, AppendEvent, Commit, Rollback, Unlock, CleanerRuns
<1>4. CASE UNCHANGED <<rowLock, run>>
  BY <1>1, <1>4 DEF CleanerRuns
<1>. QED
  BY <1>1, <1>2, <1>3, <1>4 DEF Next, Tick, EventSeq, EventsAfter, vars

(* Every deleted row is older than the cutoff of the call that deletes it, *)
(* whatever order its transaction began and committed in.                  *)
THEOREM RetentionKeepsLiveEvents == Spec => OnlyExpiredDeleted
<1>1. Init => CleanerRuns
  BY EventLogAssumption DEF Init, CleanerRuns
<1>2. ASSUME TypeOK, CleanerRuns, Next, NEW s \in DOMAIN log \ DOMAIN log'
      PROVE  \E c \in Cleaners : run[c].running /\ log[s] < run[c].cutoff
  <2>1. ASSUME NEW c \in Cleaners, ExpireBatch(c)
        PROVE  run[c].running /\ log[s] < run[c].cutoff
    <3>1. PICK through \in ExpiredPrefix(run[c].cutoff) :
            log' = [t \in {u \in DOMAIN log : u > through} |-> log[t]]
      BY <2>1 DEF ExpireBatch
    <3>2. s <= through
      BY <1>2, <3>1 DEF TypeOK, ExpiredPrefix, Lowest
    <3>. QED
      BY <1>2, <2>1, <3>2 DEF ExpireBatch, ExpiredPrefix, CleanerRuns
  <2>2. ASSUME NEW w \in Writers, Commit(w) PROVE FALSE
    BY <1>2, <2>2 DEF Commit
  <2>3. CASE log' = log
    BY <1>2, <2>3
  <2>. QED
    BY <1>2, <2>1, <2>2, <2>3
       DEF Next, Tick, Write, Begin, NextEventSeq, AppendEvent, Rollback, Retain,
           ExpireEvents, LockForRetention, EndRun, EventSeq, EventsAfter, organization
<1>3. TypeOK /\ CleanerRuns /\ [Next]_vars =>
        [\A s \in DOMAIN log \ DOMAIN log' :
           \E c \in Cleaners : run[c].running /\ log[s] < run[c].cutoff]_vars
  BY <1>2
<1>. QED
  BY TypeCorrect, <1>1, <1>3, CleanerRunsStep, PTL DEF Spec, OnlyExpiredDeleted

-----------------------------------------------------------------------------
(* The cache.                                                              *)

(* The types that the arguments below need.                                *)
CacheTyped ==
  /\ events \in Nat
  /\ entry \subseteq {Limit}
  /\ loading \in Calls \cup {NoCall}
  /\ call \in [Calls -> CacheCalls]
  /\ caller \in [Callers -> Gets]

On(c) == {p \in Callers : caller[p].on = c}
JoinedOn(c) == {p \in On(c) : caller[p].joined}

(* Until both results are out, a call counts those that are in it.         *)
CallsCounted ==
  \A c \in Calls : ~ joinedDone(c) =>
    call[c].waiters = Cardinality(On(c)) /\ call[c].joiners = Cardinality(JoinedOn(c))

(* A call's results are there when its phase says so, and it is cancelled  *)
(* only when those it still runs for are gone.                             *)
Shape(d) ==
  /\ d.phase = "unused" => d = Unused
  /\ d.again => d.phase \notin {"unused", "slot", "load", "decide"}
  /\ d.phase \in {"unused", "slot", "load"} => ~ d.result.ok
  /\ d.phase \notin {"publish", "over"} => ~ d.joined.ok
  /\ d.cancelled /\ d.phase # "over" => d.waiters = 0 \/ (d.again /\ d.joiners = 0)

(* The load that can be joined has not been decided on, and lives.         *)
JoinableLives ==
  loading \in Calls =>
    /\ call[loading].phase \in {"slot", "load", "decide"}
    /\ call[loading].waiters > 0 /\ ~ call[loading].cancelled

(* What a call holds, or will, is fresh enough for its starter, and for a  *)
(* joiner, whose Get began at s.                                           *)
Serves(d, s) ==
  /\ d.result.ok => d.result.value >= Batch(s)
  /\ d.loader = "read" /\ d.phase \in {"load", "load again"} => d.read >= Batch(s)

ServesJoined(d, s) ==
  /\ d.joined.ok => d.joined.value >= Batch(s)
  /\ d.loader = "read" /\ d.phase = "load again" => d.read >= Batch(s)
  /\ d.phase = "close" /\ ~ d.again /\ d.result.ok => d.result.value >= Batch(s)

Served ==
  \A p \in Callers :
    /\ caller[p].pc = "idle" => caller[p] = NoGet
    /\ caller[p].pc = "wait" => caller[p].on \in Calls /\ ~ caller[p].result.ok
    /\ caller[p].since <= events
    /\ caller[p].pc = "leave" /\ caller[p].result.ok => caller[p].result.value >= Batch(caller[p].since)
    /\ caller[p].on \in Calls =>
         IF caller[p].joined THEN ServesJoined(call[caller[p].on], caller[p].since)
                             ELSE Serves(call[caller[p].on], caller[p].since)

CacheInv ==
  /\ CacheTyped /\ CallsCounted /\ JoinableLives /\ Served
  /\ \A c \in Calls : Shape(call[c])

LEMMA BatchIs ==
  /\ \A n \in Nat : Batch(n) \in Nat /\ Batch(n) \in 0..Limit
  /\ \A m, n \in Nat : m <= n => Batch(m) <= Batch(n)
BY CacheAssumption DEF Batch

LEMMA OnIsFinite ==
  ASSUME NEW c
  PROVE  /\ IsFiniteSet(On(c)) /\ IsFiniteSet(JoinedOn(c))
         /\ Cardinality(On(c)) \in Nat /\ Cardinality(JoinedOn(c)) \in Nat
         /\ (Cardinality(On(c)) = 0 <=> On(c) = {})
         /\ (Cardinality(JoinedOn(c)) = 0 <=> JoinedOn(c) = {})
<1>1. IsFiniteSet(On(c))
  BY CacheAssumption, FS_Subset DEF On
<1>2. IsFiniteSet(JoinedOn(c))
  BY <1>1, FS_Subset DEF JoinedOn
<1>. QED
  BY <1>1, <1>2, FS_CardinalityType, FS_EmptySet

-----------------------------------------------------------------------------
(* Steps of a load.                                                        *)

(* What a step of a load may do to its call: keep the counts, and serve    *)
(* whom it served.                                                         *)
CallMoves(c, d) ==
  /\ d \in CacheCalls /\ Shape(d)
  /\ d.phase # "unused"
  /\ d.waiters = call[c].waiters /\ d.joiners = call[c].joiners /\ d.cancelled = call[c].cancelled
  /\ d.phase # "over" => ~ joinedDone(c)
  /\ \A s \in 0..events : Serves(call[c], s) => Serves(d, s)
  /\ \A s \in 0..events : ServesJoined(call[c], s) /\ (call[c].joiners > 0 \/ joinedDone(c)) => ServesJoined(d, s)

LEMMA LoadKeeps ==
  ASSUME CacheInv, NEW c \in Calls, NEW d, CallMoves(c, d),
         call' = [call EXCEPT ![c] = d], UNCHANGED <<events, caller>>,
         entry' \subseteq {Limit},
         loading' \in {loading, NoCall},
         loading' = c => d.phase \in {"slot", "load", "decide"}
  PROVE  CacheInv'
<1>1. call'[c] = d /\ (\A e \in Calls \ {c} : call'[e] = call[e]) /\ d \in CacheCalls
  BY DEF CallMoves, CacheInv, CacheTyped
<1>2. CacheTyped'
  BY <1>1 DEF CacheInv, CacheTyped
<1>3. \A e \in Calls : Shape(call'[e])
  BY <1>1 DEF CallMoves, CacheInv
<1>4. \A e : On(e)' = On(e) /\ JoinedOn(e)' = JoinedOn(e)
  BY DEF On, JoinedOn
<1>5. CallsCounted'
  BY <1>1, <1>4 DEF CallMoves, CacheInv, CallsCounted, joinedDone
<1>6. JoinableLives'
  <2>. SUFFICES ASSUME loading' \in Calls PROVE JoinableLives'
    BY DEF JoinableLives
  <2>1. loading' = loading
    BY CacheAssumption
  <2>2. CASE loading = c
    BY <1>1, <2>1, <2>2 DEF CallMoves, CacheInv, JoinableLives
  <2>3. CASE loading # c
    BY <1>1, <2>1, <2>3 DEF CacheInv, JoinableLives
  <2>. QED
    BY <2>2, <2>3
<1>7. Served'
  <2>. SUFFICES ASSUME NEW p \in Callers, caller[p].on \in Calls
       PROVE  IF caller[p].joined THEN ServesJoined(call'[caller[p].on], caller[p].since)
                                  ELSE Serves(call'[caller[p].on], caller[p].since)
    BY DEF CacheInv, Served, ServesJoined, Serves, Batch
  <2>1. caller[p].since \in 0..events
    BY DEF CacheInv, Served, CacheTyped, Gets
  <2>2. CASE caller[p].on # c
    BY <1>1, <2>2 DEF CacheInv, Served
  <2>3. CASE caller[p].on = c /\ ~ caller[p].joined
    BY <1>1, <2>1, <2>3 DEF CacheInv, Served, CallMoves
  <2>4. CASE caller[p].on = c /\ caller[p].joined
    <3>1. p \in JoinedOn(c)
      BY <2>4 DEF JoinedOn, On
    <3>2. call[c].joiners > 0 \/ joinedDone(c)
      BY <3>1, OnIsFinite DEF CacheInv, CallsCounted
    <3>. QED
      BY <1>1, <2>1, <2>4, <3>2 DEF CacheInv, Served, CallMoves
  <2>. QED
    BY <2>2, <2>3, <2>4
<1>. QED
  BY <1>2, <1>3, <1>5, <1>6, <1>7 DEF CacheInv

LEMMA AcquireKeeps ==
  ASSUME CacheInv, NEW c \in Calls, Acquire(c)
  PROVE  CacheInv'
<1>. DEFINE d == [call[c] EXCEPT !.loader = "running",
                                 !.phase = IF @ = "slot" THEN "load" ELSE "load again"]
<1>1. call[c] \in CacheCalls /\ Shape(call[c]) /\ call' = [call EXCEPT ![c] = d]
  BY DEF Acquire, CacheInv, CacheTyped
<1>2. call[c].phase \in {"slot", "slot again"}
  BY DEF Acquire, Waiting
<1>3. CallMoves(c, d)
  BY <1>1, <1>2 DEF CallMoves, CacheCalls, Shape, Serves, ServesJoined, joinedDone, Phases, Loaders
<1>4. loading = c => d.phase \in {"slot", "load", "decide"}
  BY <1>1, <1>2 DEF CacheInv, JoinableLives, CacheCalls
<1>. QED
  BY <1>1, <1>3, <1>4, CacheAssumption, LoadKeeps DEF Acquire, CacheInv, CacheTyped

LEMMA ReadEventsKeeps ==
  ASSUME CacheInv, NEW c \in Calls, ReadEvents(c)
  PROVE  CacheInv'
<1>. DEFINE d == [call[c] EXCEPT !.loader = "read", !.read = Batch(events)]
<1>1. call[c] \in CacheCalls /\ Shape(call[c]) /\ call' = [call EXCEPT ![c] = d]
  BY DEF ReadEvents, CacheInv, CacheTyped
<1>2. events \in Nat /\ Batch(events) \in 0..Limit /\ \A s \in 0..events : Batch(events) >= Batch(s)
  BY BatchIs DEF CacheInv, CacheTyped
<1>3. call[c].phase # "unused"
  BY <1>1 DEF ReadEvents, Shape, Unused
<1>4. CallMoves(c, d)
  <2>1. d \in CacheCalls
    BY <1>1, <1>2 DEF CacheCalls, Loaders
  <2>2. Shape(d)
    BY <1>1, <1>3 DEF CacheCalls, Shape
  <2>3. \A s \in 0..events : Serves(call[c], s) => Serves(d, s)
    BY <1>1, <1>2 DEF CacheCalls, Serves
  <2>4. \A s \in 0..events : ServesJoined(call[c], s) => ServesJoined(d, s)
    BY <1>1, <1>2 DEF CacheCalls, ServesJoined
  <2>. QED
    BY <1>1, <1>3, <2>1, <2>2, <2>3, <2>4 DEF CallMoves, joinedDone, CacheCalls
<1>5. loading = c => d.phase \in {"slot", "load", "decide"}
  BY <1>1 DEF CacheInv, JoinableLives, CacheCalls
<1>. QED
  BY <1>1, <1>4, <1>5, CacheAssumption, LoadKeeps DEF ReadEvents, CacheInv, CacheTyped

(* A run that ends, whatever its result, when its batch serves those the   *)
(* call runs for.                                                          *)
LEMMA EndedMoves ==
  ASSUME CacheInv, NEW c \in Calls,
         Waiting(call[c].phase) \/ Loading(call[c].phase),
         NEW result \in Results,
         result.ok => /\ Loading(call[c].phase) /\ call[c].loader = "read"
                      /\ result.value = call[c].read
  PROVE  /\ CallMoves(c, Ended(c, result))
         /\ loading = c => Ended(c, result).phase \in {"slot", "load", "decide"}
<1>1. PICK b : b = call[c]
  OBVIOUS
<1>2. b \in CacheCalls /\ Shape(b)
  BY <1>1 DEF CacheInv, CacheTyped
<1>3. PICK kept : kept = IF Cancelled(c) THEN Error ELSE result
  OBVIOUS
<1>e. Error \in Results /\ ~ Error.ok
  BY CacheAssumption DEF Error, Results
<1>4. kept \in Results /\ (kept.ok => b.phase \in {"load", "load again"} /\ b.loader = "read"
                                       /\ kept.value = b.read)
  BY <1>1, <1>3, <1>e DEF Loading
<1>5. CASE b.phase \in {"slot", "load"}
  <2>1. Ended(c, result) = [b EXCEPT !.phase = "decide", !.result = kept]
    BY <1>1, <1>3, <1>5 DEF Ended
  <2>2. PICK d : d = [b EXCEPT !.phase = "decide", !.result = kept]
    OBVIOUS
  <2>3. CallMoves(c, d)
    BY <1>1, <1>2, <1>4, <1>5, <2>2 DEF CallMoves, CacheCalls, Shape, Serves, ServesJoined, joinedDone, Phases
  <2>. QED
    BY <2>1, <2>2, <2>3, <1>2 DEF CacheCalls
<1>6. CASE b.phase \in {"slot again", "load again"}
  <2>1. Ended(c, result) = [b EXCEPT !.phase = "publish", !.joined = kept]
    BY <1>1, <1>3, <1>6 DEF Ended
  <2>2. PICK d : d = [b EXCEPT !.phase = "publish", !.joined = kept]
    OBVIOUS
  <2>3. CallMoves(c, d)
    BY <1>1, <1>2, <1>4, <1>6, <2>2 DEF CallMoves, CacheCalls, Shape, Serves, ServesJoined, joinedDone, Phases
  <2>. QED
    BY <2>1, <2>2, <2>3, <1>1, <1>6 DEF CacheInv, JoinableLives
<1>. QED
  BY <1>1, <1>5, <1>6 DEF Waiting, Loading

LEMMA GiveUpRunKeeps ==
  ASSUME CacheInv, NEW c \in Calls, GiveUpRun(c)
  PROVE  CacheInv'
<1>1. Error \in Results /\ ~ Error.ok
  BY CacheAssumption DEF Error, Results
<1>2. PICK d : d = Ended(c, Error)
  OBVIOUS
<1>3. call' = [call EXCEPT ![c] = d] /\ CallMoves(c, d)
      /\ (loading = c => d.phase \in {"slot", "load", "decide"})
  BY <1>1, <1>2, EndedMoves DEF GiveUpRun
<1>. QED
  BY <1>3, CacheAssumption, LoadKeeps DEF GiveUpRun, CacheInv, CacheTyped

LEMMA LoadReturnsKeeps ==
  ASSUME CacheInv, NEW c \in Calls, LoadReturns(c)
  PROVE  CacheInv'
<1>1. PICK result \in {Loaded(call[c].read), Error} :
        call' = [call EXCEPT ![c] = [Ended(c, result) EXCEPT !.loader = "none", !.read = 0]]
  BY DEF LoadReturns
<1>2. call[c].read \in 0..Limit
  BY DEF CacheInv, CacheTyped, CacheCalls
<1>3. result \in Results /\ (result.ok => result.value = call[c].read)
  <2>1. Error \in Results /\ ~ Error.ok
    BY CacheAssumption DEF Error, Results
  <2>2. Loaded(call[c].read) \in Results /\ Loaded(call[c].read).value = call[c].read
    BY <1>2 DEF Loaded, Results
  <2>. QED
    BY <1>1, <2>1, <2>2
<1>4. Loading(call[c].phase) /\ call[c].loader = "read"
  BY DEF LoadReturns
<1>5. PICK e : e = Ended(c, result)
  OBVIOUS
<1>6. CallMoves(c, e) /\ (loading = c => e.phase \in {"slot", "load", "decide"})
  BY <1>3, <1>4, <1>5, EndedMoves
<1>7. PICK d : d = [e EXCEPT !.loader = "none", !.read = 0]
  OBVIOUS
<1>8. CallMoves(c, d) /\ d.phase = e.phase
  <2>1. e \in CacheCalls /\ Shape(e) /\ e.phase # "unused" /\ 0 \in 0..Limit
    BY <1>6, CacheAssumption DEF CallMoves
  <2>2. d \in CacheCalls /\ Shape(d) /\ d.phase = e.phase
    BY <1>7, <2>1 DEF CacheCalls, Shape, Loaders
  <2>3. \A s : (Serves(e, s) => Serves(d, s)) /\ (ServesJoined(e, s) => ServesJoined(d, s))
    BY <1>7, <2>1 DEF CacheCalls, Serves, ServesJoined
  <2>4. d.waiters = e.waiters /\ d.joiners = e.joiners /\ d.cancelled = e.cancelled
    BY <1>7, <2>1 DEF CacheCalls
  <2>. QED
    BY <1>6, <2>1, <2>2, <2>3, <2>4 DEF CallMoves
<1>9. call' = [call EXCEPT ![c] = d]
  BY <1>1, <1>5, <1>7
<1>. QED
  BY <1>6, <1>8, <1>9, CacheAssumption, LoadKeeps DEF LoadReturns, CacheInv, CacheTyped

LEMMA OrphanReturnsKeeps ==
  ASSUME CacheInv, NEW c \in Calls, OrphanReturns(c)
  PROVE  CacheInv'
<1>. DEFINE d == [call[c] EXCEPT !.loader = "none", !.read = 0]
<1>1. call[c] \in CacheCalls /\ Shape(call[c]) /\ call' = [call EXCEPT ![c] = d]
  BY DEF OrphanReturns, CacheInv, CacheTyped
<1>2. call[c].phase # "unused"
  BY <1>1 DEF OrphanReturns, Shape, Unused
<1>3. CallMoves(c, d)
  <2>. 0 \in 0..Limit
    BY CacheAssumption
  <2>1. d \in CacheCalls
    BY <1>1 DEF CacheCalls, Loaders
  <2>2. Shape(d)
    BY <1>1, <1>2 DEF CacheCalls, Shape
  <2>3. \A s : (Serves(call[c], s) => Serves(d, s)) /\ (ServesJoined(call[c], s) => ServesJoined(d, s))
    BY <1>1 DEF CacheCalls, Serves, ServesJoined
  <2>. QED
    BY <1>1, <1>2, <2>1, <2>2, <2>3 DEF CallMoves, joinedDone, CacheCalls
<1>4. loading = c => d.phase \in {"slot", "load", "decide"}
  BY <1>1 DEF CacheInv, JoinableLives, CacheCalls
<1>. QED
  BY <1>1, <1>3, <1>4, CacheAssumption, LoadKeeps DEF OrphanReturns, CacheInv, CacheTyped

LEMMA CloseKeeps ==
  ASSUME CacheInv, NEW c \in Calls, Close(c)
  PROVE  CacheInv'
<1>. DEFINE d == [call[c] EXCEPT !.phase = IF call[c].again THEN "slot again" ELSE "publish",
                                 !.joined = IF call[c].again THEN @ ELSE call[c].result]
<1>1. call[c] \in CacheCalls /\ Shape(call[c]) /\ call' = [call EXCEPT ![c] = d]
  BY DEF Close, CacheInv, CacheTyped
<1>2. call[c].phase = "close"
  BY DEF Close
<1>3. d \in CacheCalls /\ d.phase \in {"slot again", "publish"}
  BY <1>1 DEF CacheCalls, Phases
<1>4. Shape(d)
  BY <1>1, <1>2 DEF CacheCalls, Shape
<1>5. \A s : Serves(call[c], s) => Serves(d, s)
  BY <1>1, <1>2 DEF CacheCalls, Serves
<1>6. \A s : ServesJoined(call[c], s) => ServesJoined(d, s)
  BY <1>1, <1>2 DEF CacheCalls, ServesJoined
<1>7. CallMoves(c, d)
  BY <1>1, <1>2, <1>3, <1>4, <1>5, <1>6 DEF CallMoves, joinedDone, CacheCalls
<1>8. loading # c
  BY <1>2 DEF CacheInv, JoinableLives
<1>. QED
  BY <1>1, <1>7, <1>8, CacheAssumption, LoadKeeps DEF Close, CacheInv, CacheTyped

LEMMA PublishKeeps ==
  ASSUME CacheInv, NEW c \in Calls, Publish(c)
  PROVE  CacheInv'
<1>. DEFINE d == [call[c] EXCEPT !.phase = "over"]
<1>1. call[c] \in CacheCalls /\ Shape(call[c]) /\ call' = [call EXCEPT ![c] = d]
  BY DEF Publish, CacheInv, CacheTyped
<1>2. call[c].phase = "publish"
  BY DEF Publish
<1>3. CallMoves(c, d)
  BY <1>1, <1>2 DEF CallMoves, CacheCalls, Shape, Serves, ServesJoined, joinedDone, Phases
<1>4. loading # c
  BY <1>2 DEF CacheInv, JoinableLives
<1>. QED
  BY <1>1, <1>3, <1>4, CacheAssumption, LoadKeeps DEF Publish, CacheInv, CacheTyped

LEMMA DecideKeeps ==
  ASSUME CacheInv, NEW c \in Calls, Decide(c)
  PROVE  CacheInv'
<1>1. PICK b : b = call[c]
  OBVIOUS
<1>2. b \in CacheCalls /\ Shape(b) /\ b.phase = "decide"
  BY <1>1 DEF Decide, CacheInv, CacheTyped
<1>3. PICK a : a = Accepted(c)
  OBVIOUS
<1>4. a \in Results /\ (a.ok => ~ b.cancelled /\ a = b.result)
  BY <1>1, <1>2, <1>3, CacheAssumption DEF Accepted, Cancelled, Error, Results, CacheCalls
<1>5. PICK kept \in BOOLEAN : kept = (loading = c /\ a.ok /\ fullBatch(a.value))
  OBVIOUS
<1>6. PICK again \in BOOLEAN : again = (b.result.ok /\ a.ok /\ ~ kept /\ b.joiners > 0)
  OBVIOUS
<1>7. PICK d : d = [b EXCEPT !.phase = "close", !.result = a, !.again = again]
  OBVIOUS
<1>8. call' = [call EXCEPT ![c] = d] /\ entry' = IF kept THEN {a.value} ELSE entry
  <2>1. Again(c, kept) = again
    BY <1>1, <1>3, <1>6 DEF Again
  <2>2. kept = (loading = c /\ Accepted(c).ok /\ fullBatch(Accepted(c).value))
    BY <1>3, <1>5
  <2>. QED
    BY <2>1, <2>2, <1>1, <1>3, <1>7 DEF Decide
<1>9. entry' \subseteq {Limit}
  BY <1>5, <1>8 DEF fullBatch, CacheInv, CacheTyped
<1>10. kept => a.value = Limit /\ \A s \in Nat : Limit >= Batch(s)
  <2>1. \A s \in Nat : Batch(s) <= Limit
    BY CacheAssumption DEF Batch
  <2>. QED
    BY <1>5, <2>1 DEF fullBatch
<1>11. CallMoves(c, d)
  <2>1. d \in CacheCalls /\ Shape(d) /\ d.phase = "close" /\ d.waiters = b.waiters /\ d.joiners = b.joiners
        /\ d.cancelled = b.cancelled /\ d.result = a /\ d.again = again /\ d.joined = b.joined
    BY <1>2, <1>4, <1>6, <1>7 DEF CacheCalls, Shape, Phases
  <2>2. \A s \in 0..events : Serves(b, s) => Serves(d, s)
    BY <2>1, <1>4 DEF Serves
  <2>4. \A s \in 0..events : b.joiners > 0 => ServesJoined(d, s)
    <3>1. ~ d.joined.ok
      BY <1>2, <2>1 DEF Shape
    <3>2. ~ d.again /\ d.result.ok /\ b.joiners > 0 => kept
      BY <1>4, <1>6, <2>1
    <3>. QED
      BY <3>1, <3>2, <1>10, <2>1 DEF ServesJoined, CacheInv, CacheTyped
  <2>. QED
    BY <1>1, <1>2, <2>1, <2>2, <2>4 DEF CallMoves, joinedDone
<1>. QED
  BY <1>8, <1>9, <1>11, CacheAssumption, LoadKeeps DEF Decide, CacheInv, CacheTyped

-----------------------------------------------------------------------------
(* Steps of a caller.                                                      *)

LEMMA NoGetIs ==
  /\ NoGet \in Gets /\ NoGet.pc = "idle" /\ NoGet.on = NoCall /\ NoGet.on \notin Calls
  /\ NoGet.since = 0 /\ ~ NoGet.result.ok
BY CacheAssumption DEF NoGet, Gets, Error, Results

(* What the invariant says of one caller, whose Get is g. *)
ServedTo(g, to, latest) ==
  /\ g.pc = "idle" => g = NoGet
  /\ g.pc = "wait" => g.on \in Calls /\ ~ g.result.ok
  /\ g.since <= latest
  /\ g.pc = "leave" /\ g.result.ok => g.result.value >= Batch(g.since)
  /\ g.on \in Calls => IF g.joined THEN ServesJoined(to[g.on], g.since)
                                   ELSE Serves(to[g.on], g.since)

LEMMA ServedIs == Served <=> \A p \in Callers : ServedTo(caller[p], call, events)
BY DEF Served, ServedTo

(* A caller that comes to a result, from the cache or from its call, and   *)
(* keeps its place.                                                        *)
LEMMA MoveKeeps ==
  ASSUME CacheInv, NEW p \in Callers, NEW g,
         g \in Gets, ServedTo(g, call, events),
         g.on = caller[p].on, g.joined = caller[p].joined,
         caller' = [caller EXCEPT ![p] = g],
         UNCHANGED <<events, entry, loading, call>>
  PROVE  CacheInv'
<1>1. caller'[p] = g /\ (\A q \in Callers \ {p} : caller'[q] = caller[q])
      /\ caller' \in [Callers -> Gets]
  BY DEF CacheInv, CacheTyped
<1>2. \A c : On(c)' = On(c) /\ JoinedOn(c)' = JoinedOn(c)
  BY <1>1 DEF On, JoinedOn
<1>3. CallsCounted'
  BY <1>2 DEF CacheInv, CallsCounted, joinedDone
<1>4. \A q \in Callers : ServedTo(caller'[q], call', events')
  BY <1>1, ServedIs DEF CacheInv
<1>5. Served'
  BY <1>4 DEF Served, ServedTo
<1>. QED
  BY <1>1, <1>3, <1>5 DEF CacheInv, CacheTyped, JoinableLives

LEMMA HitKeeps ==
  ASSUME CacheInv, NEW p \in Callers, Hit(p)
  PROVE  CacheInv'
<1>1. PICK value \in entry :
        caller' = [caller EXCEPT ![p] = [NoGet EXCEPT !.pc = "leave", !.since = events,
                                                     !.result = Loaded(value)]]
  BY DEF Hit
<1>2. PICK g : g = [NoGet EXCEPT !.pc = "leave", !.since = events, !.result = Loaded(value)]
  OBVIOUS
<1>3. value = Limit /\ events \in Nat /\ Limit \in Nat /\ Batch(events) <= Limit
  BY CacheAssumption DEF CacheInv, CacheTyped, Batch
<1>4. Loaded(value) \in Results /\ Loaded(value).value = Limit
  BY <1>3 DEF Loaded, Results
<1>5. g = [pc |-> "leave", on |-> NoCall, joined |-> FALSE, since |-> events, result |-> Loaded(value)]
  BY <1>2 DEF NoGet
<1>6. g \in Gets /\ g.on = NoCall
  BY <1>3, <1>4, <1>5 DEF Gets
<1>7. ServedTo(g, call, events)
  BY <1>3, <1>4, <1>5, CacheAssumption DEF ServedTo
<1>8. caller[p].on = NoCall /\ caller[p].joined = FALSE /\ g.joined = FALSE
  BY <1>5 DEF Hit, CacheInv, Served, NoGet
<1>9. UNCHANGED <<events, entry, loading, call>> /\ caller' = [caller EXCEPT ![p] = g]
  BY <1>1, <1>2 DEF Hit
<1>. QED
  BY <1>6, <1>7, <1>8, <1>9, MoveKeeps

LEMMA ReturnKeeps ==
  ASSUME CacheInv, NEW p \in Callers, Return(p)
  PROVE  CacheInv'
<1>1. PICK c : c = caller[p].on
  OBVIOUS
<1>2. caller[p] \in Gets /\ caller[p].pc = "wait" /\ ServedTo(caller[p], call, events) /\ c \in Calls
  BY <1>1, ServedIs DEF Return, CacheInv, CacheTyped, ServedTo
<1>3. IF caller[p].joined THEN joinedDone(c) ELSE done(c)
  BY <1>1 DEF Return
<1>4. PICK result : result = IF caller[p].joined THEN call[c].joined ELSE call[c].result
  OBVIOUS
<1>5. result \in Results
  BY <1>2, <1>4 DEF CacheInv, CacheTyped, CacheCalls
<1>6. PICK g : g = [caller[p] EXCEPT !.pc = "leave", !.result = result]
  OBVIOUS
<1>7. caller' = [caller EXCEPT ![p] = g]
  BY <1>1, <1>4, <1>6 DEF Return, CacheInv, CacheTyped
<1>8. g \in Gets /\ g.on = c /\ g.joined = caller[p].joined /\ g.since = caller[p].since
      /\ g.pc = "leave" /\ g.result = result
  BY <1>1, <1>2, <1>5, <1>6 DEF Gets
<1>9. result.ok => result.value >= Batch(caller[p].since)
  BY <1>1, <1>2, <1>4 DEF ServedTo, Serves, ServesJoined
<1>10. ServedTo(g, call, events)
  BY <1>1, <1>2, <1>8, <1>9 DEF ServedTo
<1>. QED
  BY <1>1, <1>7, <1>8, <1>10, MoveKeeps DEF Return

(* A caller that gives up takes no result: it keeps the error it has.      *)
LEMMA GiveUpKeeps ==
  ASSUME CacheInv, NEW p \in Callers, GiveUp(p)
  PROVE  CacheInv'
<1>2. caller[p] \in Gets /\ caller[p].pc = "wait" /\ ServedTo(caller[p], call, events)
  BY ServedIs DEF GiveUp, CacheInv, CacheTyped
<1>6. PICK g : g = [caller[p] EXCEPT !.pc = "leave"]
  OBVIOUS
<1>7. caller' = [caller EXCEPT ![p] = g]
  BY <1>6 DEF GiveUp, CacheInv, CacheTyped
<1>8. g \in Gets /\ g.on = caller[p].on /\ g.joined = caller[p].joined /\ g.since = caller[p].since
      /\ g.pc = "leave" /\ g.result = caller[p].result
  BY <1>2, <1>6 DEF Gets
<1>10. ServedTo(g, call, events)
  BY <1>2, <1>8 DEF ServedTo
<1>. QED
  BY <1>7, <1>8, <1>10, MoveKeeps DEF GiveUp

LEMMA Entering ==
  ASSUME NEW c, NEW s, NEW g, g = [NoGet EXCEPT !.pc = "wait", !.on = c, !.since = s]
  PROVE  g = [pc |-> "wait", on |-> c, joined |-> FALSE, since |-> s, result |-> Error]
BY DEF NoGet

LEMMA Joining ==
  ASSUME NEW c, NEW s, NEW g, g = [NoGet EXCEPT !.pc = "wait", !.on = c, !.joined = TRUE, !.since = s]
  PROVE  g = [pc |-> "wait", on |-> c, joined |-> TRUE, since |-> s, result |-> Error]
BY DEF NoGet

Recounted(b, w, j, x) == [b EXCEPT !.waiters = w, !.joiners = j, !.cancelled = x]

LEMMA CountedIn ==
  ASSUME NEW b \in CacheCalls, NEW w \in Nat, NEW j \in Nat, NEW x \in BOOLEAN,
         NEW d, d = Recounted(b, w, j, x)
  PROVE  /\ d \in CacheCalls /\ d.phase = b.phase /\ d.again = b.again
         /\ d.result = b.result /\ d.joined = b.joined /\ d.loader = b.loader /\ d.read = b.read
         /\ d.waiters = w /\ d.joiners = j /\ d.cancelled = x
BY DEF CacheCalls, Recounted

(* A Get that enters a call, its own or one it joins. *)
LEMMA EnterKeeps ==
  ASSUME CacheInv, NEW p \in Callers, caller[p].pc = "idle", NEW c \in Calls, NEW j \in BOOLEAN, NEW d,
         d \in CacheCalls, Shape(d), d.phase \in {"slot", "load", "decide"},
         ~ d.cancelled, ~ joinedDone(c),
         d.waiters = call[c].waiters + 1,
         d.joiners = IF j THEN call[c].joiners + 1 ELSE call[c].joiners,
         \A s : Serves(call[c], s) => Serves(d, s),
         \A s : ServesJoined(call[c], s) => ServesJoined(d, s),
         IF j THEN ServesJoined(d, events) ELSE Serves(d, events),
         call' = [call EXCEPT ![c] = d], loading' = c,
         caller' = [caller EXCEPT ![p] = [pc |-> "wait", on |-> c, joined |-> j, since |-> events,
                                          result |-> Error]],
         UNCHANGED <<events, entry>>
  PROVE  CacheInv'
<1>1. PICK g : g = [pc |-> "wait", on |-> c, joined |-> j, since |-> events, result |-> Error]
  OBVIOUS
<1>2. Error \in Results /\ ~ Error.ok
  BY CacheAssumption DEF Error, Results
<1>3. caller' = [caller EXCEPT ![p] = g]
  BY <1>1
<1>4. g \in Gets
  BY <1>1, <1>2 DEF Gets, CacheInv, CacheTyped
<1>5. caller' \in [Callers -> Gets] /\ caller'[p] = g /\ \A q \in Callers \ {p} : caller'[q] = caller[q]
  BY <1>3, <1>4 DEF CacheInv, CacheTyped
<1>6. call' \in [Calls -> CacheCalls] /\ call'[c] = d /\ \A e \in Calls \ {c} : call'[e] = call[e]
  BY DEF CacheInv, CacheTyped
<1>7. g.on = c /\ g.joined = j /\ g.pc = "wait" /\ g.since = events /\ ~ g.result.ok
  BY <1>1, <1>2
<1>8. caller[p].on = NoCall /\ NoCall \notin Calls
  BY CacheAssumption DEF CacheInv, Served, NoGet
<1>9. \A e \in Calls \ {c} : On(e)' = On(e) /\ JoinedOn(e)' = JoinedOn(e)
  BY <1>5, <1>7, <1>8 DEF On, JoinedOn
<1>10. /\ On(c)' = On(c) \cup {p} /\ p \notin On(c)
       /\ JoinedOn(c)' = (IF j THEN JoinedOn(c) \cup {p} ELSE JoinedOn(c)) /\ p \notin JoinedOn(c)
  BY <1>5, <1>7, <1>8 DEF On, JoinedOn
<1>11. /\ Cardinality(On(c)') = Cardinality(On(c)) + 1
       /\ Cardinality(JoinedOn(c)') = IF j THEN Cardinality(JoinedOn(c)) + 1 ELSE Cardinality(JoinedOn(c))
  <2>1. IsFiniteSet(On(c)) /\ IsFiniteSet(JoinedOn(c))
    BY OnIsFinite
  <2>2. Cardinality(On(c) \cup {p}) = Cardinality(On(c)) + 1
    BY <1>10, <2>1, FS_AddElement
  <2>3. Cardinality(JoinedOn(c) \cup {p}) = Cardinality(JoinedOn(c)) + 1
    BY <1>10, <2>1, FS_AddElement
  <2>. QED
    BY <1>10, <2>2, <2>3
<1>12. CallsCounted'
  BY <1>6, <1>9, <1>11 DEF CacheInv, CallsCounted, joinedDone
<1>13. \A e \in Calls : Shape(call'[e])
  BY <1>6 DEF CacheInv
<1>14. JoinableLives'
  <2>1. d.waiters > 0
    BY DEF CacheInv, CacheTyped, CacheCalls
  <2>. QED
    BY <1>6, <2>1 DEF JoinableLives
<1>15. ASSUME NEW q \in Callers PROVE ServedTo(caller'[q], call', events)
  <2>1. CASE q = p
    BY <1>5, <1>6, <1>7, <2>1 DEF ServedTo, CacheInv, CacheTyped
  <2>2. CASE q # p /\ caller[q].on = c
    BY <1>5, <1>6, <2>2, ServedIs DEF ServedTo, CacheInv
  <2>3. CASE q # p /\ caller[q].on # c
    BY <1>5, <1>6, <2>3, ServedIs DEF ServedTo, CacheInv
  <2>. QED
    BY <2>1, <2>2, <2>3
<1>16. Served'
  BY <1>15 DEF Served, ServedTo
<1>17. CacheTyped'
  BY <1>5, <1>6 DEF CacheInv, CacheTyped
<1>. QED
  BY <1>12, <1>13, <1>14, <1>16, <1>17 DEF CacheInv

LEMMA StartKeeps ==
  ASSUME CacheInv, NEW p \in Callers, Start(p)
  PROVE  CacheInv'
<1>1. PICK c \in NextCall :
        /\ call' = [call EXCEPT ![c].phase = "slot", ![c].waiters = 1]
        /\ loading' = c
        /\ caller' = [caller EXCEPT ![p] = [NoGet EXCEPT !.pc = "wait", !.on = c,
                                                       !.since = events]]
  BY DEF Start
<1>2. c \in Calls /\ call[c] = Unused
  BY <1>1 DEF NextCall
<1>3. PICK d : d = [Unused EXCEPT !.phase = "slot", !.waiters = 1]
  OBVIOUS
<1>4. call' = [call EXCEPT ![c] = d]
  BY <1>1, <1>2, <1>3 DEF CacheInv, CacheTyped
<1>5. d = [phase |-> "slot", loader |-> "none", read |-> 0, result |-> Error, joined |-> Error,
           waiters |-> 1, joiners |-> 0, again |-> FALSE, cancelled |-> FALSE]
  BY <1>3 DEF Unused
<1>6. Error \in Results /\ ~ Error.ok /\ 0 \in 0..Limit
  BY CacheAssumption DEF Error, Results
<1>7. d \in CacheCalls
  BY <1>5, <1>6 DEF CacheCalls, Phases, Loaders
<1>8. Shape(d) /\ \A s : Serves(d, s) /\ ServesJoined(d, s)
  BY <1>5, <1>6 DEF Shape, Serves, ServesJoined
<1>9. ~ joinedDone(c) /\ d.waiters = call[c].waiters + 1 /\ d.joiners = call[c].joiners
  BY <1>2, <1>5 DEF joinedDone, Unused
<1>e. [NoGet EXCEPT !.pc = "wait", !.on = c, !.since = events]
        = [pc |-> "wait", on |-> c, joined |-> FALSE, since |-> events, result |-> Error]
  BY Entering
<1>10. caller' = [caller EXCEPT ![p] = [pc |-> "wait", on |-> c, joined |-> FALSE, since |-> events,
                                        result |-> Error]]
  BY <1>1, <1>e
<1>. QED
  BY <1>1, <1>2, <1>4, <1>5, <1>7, <1>8, <1>9, <1>10, EnterKeeps DEF Start

LEMMA JoinKeeps ==
  ASSUME CacheInv, NEW p \in Callers, Join(p)
  PROVE  CacheInv'
<1>1. PICK c : c = loading
  OBVIOUS
<1>2. PICK b : b = call[c]
  OBVIOUS
<1>3. c \in Calls /\ b \in CacheCalls /\ Shape(b)
  BY <1>1, <1>2 DEF Join, CacheInv, CacheTyped
<1>4. b.phase \in {"slot", "load", "decide"} /\ b.waiters > 0 /\ ~ b.cancelled
  BY <1>1, <1>2, <1>3 DEF CacheInv, JoinableLives
<1>5. PICK d : d = [b EXCEPT !.waiters = b.waiters + 1, !.joiners = b.joiners + 1]
  OBVIOUS
<1>6. call' = [call EXCEPT ![c] = d]
  BY <1>1, <1>2, <1>3, <1>5 DEF Join, CacheInv, CacheTyped
<1>t. b.cancelled \in BOOLEAN /\ b.waiters + 1 \in Nat /\ b.joiners + 1 \in Nat
  BY <1>3 DEF CacheCalls
<1>n. d = [b EXCEPT !.waiters = b.waiters + 1, !.joiners = b.joiners + 1, !.cancelled = b.cancelled]
  BY <1>3, <1>5 DEF CacheCalls
<1>7. /\ d \in CacheCalls /\ d.phase = b.phase /\ d.again = b.again
      /\ d.result = b.result /\ d.joined = b.joined /\ d.loader = b.loader /\ d.read = b.read
      /\ d.waiters = b.waiters + 1 /\ d.joiners = b.joiners + 1 /\ d.cancelled = b.cancelled
  <2>1. PICK w \in Nat, j \in Nat, x \in BOOLEAN :
          w = b.waiters + 1 /\ j = b.joiners + 1 /\ x = b.cancelled
    BY <1>t
  <2>2. d = Recounted(b, w, j, x)
    BY <1>n, <2>1 DEF Recounted
  <2>3. w \in Nat /\ j \in Nat /\ x \in BOOLEAN
    BY <2>1
  <2>4. /\ d \in CacheCalls /\ d.phase = b.phase /\ d.again = b.again
        /\ d.result = b.result /\ d.joined = b.joined /\ d.loader = b.loader /\ d.read = b.read
        /\ d.waiters = w /\ d.joiners = j /\ d.cancelled = x
    BY <1>3, <2>2, <2>3, CountedIn
  <2>. QED
    BY <2>1, <2>4
<1>8. Shape(d)
  BY <1>3, <1>4, <1>7 DEF Shape
<1>9. \A s : (Serves(b, s) => Serves(d, s)) /\ (ServesJoined(b, s) => ServesJoined(d, s))
  BY <1>7 DEF Serves, ServesJoined
<1>10. ServesJoined(d, events)
  BY <1>4, <1>7, <1>8 DEF ServesJoined, Shape
<1>11. ~ joinedDone(c)
  BY <1>2, <1>4 DEF joinedDone
<1>e. [NoGet EXCEPT !.pc = "wait", !.on = c, !.joined = TRUE, !.since = events]
        = [pc |-> "wait", on |-> c, joined |-> TRUE, since |-> events, result |-> Error]
  BY Joining
<1>12. caller' = [caller EXCEPT ![p] = [pc |-> "wait", on |-> c, joined |-> TRUE, since |-> events,
                                        result |-> Error]]
  BY <1>1, <1>e DEF Join
<1>. QED
  BY <1>1, <1>2, <1>3, <1>4, <1>6, <1>7, <1>8, <1>9, <1>10, <1>11, <1>12, EnterKeeps DEF Join

LEMMA NobodyWaitsIs ==
  ASSUME NEW w \in Nat, NEW j \in Nat, NEW again \in BOOLEAN
  PROVE  NobodyWaits(w, j, again) \in BOOLEAN
BY DEF NobodyWaits

(* A Get that leaves its call while the call still counts.                 *)
LEMMA LeaveCountedKeeps ==
  ASSUME CacheInv, NEW p \in Callers, Leave(p), NEW c, c = caller[p].on,
         c \in Calls, ~ joinedDone(c)
  PROVE  CacheInv'
<1>1. PICK b : b = call[c]
  OBVIOUS
<1>2. b \in CacheCalls /\ Shape(b)
  BY <1>1 DEF CacheInv, CacheTyped
<1>3. p \in On(c) /\ (caller[p].joined <=> p \in JoinedOn(c))
  BY DEF On, JoinedOn
<1>4. b.waiters = Cardinality(On(c)) /\ b.joiners = Cardinality(JoinedOn(c))
  BY <1>1 DEF CacheInv, CallsCounted
<1>5. PICK wv \in Nat, jv \in Nat :
        wv = Cardinality(On(c) \ {p}) /\ jv = Cardinality(JoinedOn(c) \ {p})
  <2>1. IsFiniteSet(On(c) \ {p}) /\ IsFiniteSet(JoinedOn(c) \ {p})
    BY OnIsFinite, FS_Subset
  <2>. QED
    BY <2>1, FS_CardinalityType
<1>6. b.waiters = wv + 1 /\ b.joiners = IF caller[p].joined THEN jv + 1 ELSE jv
  <2>1. IsFiniteSet(On(c)) /\ IsFiniteSet(JoinedOn(c))
    BY OnIsFinite
  <2>2. wv = Cardinality(On(c)) - 1
    BY <1>3, <1>5, <2>1, FS_RemoveElement
  <2>3. CASE caller[p].joined
    <3>1. jv = Cardinality(JoinedOn(c)) - 1
      BY <1>3, <1>5, <2>1, <2>3, FS_RemoveElement
    <3>. QED
      BY <1>2, <1>4, <2>2, <3>1, <2>3 DEF CacheCalls
  <2>4. CASE ~ caller[p].joined
    <3>1. JoinedOn(c) \ {p} = JoinedOn(c)
      BY <1>3, <2>4
    <3>2. jv = b.joiners
      BY <1>4, <1>5, <3>1
    <3>3. b.waiters = wv + 1
      BY <1>2, <1>4, <2>2 DEF CacheCalls
    <3>. QED
      BY <2>4, <3>2, <3>3
  <2>. QED
    BY <2>3, <2>4
<1>7. PICK x \in BOOLEAN : x = (b.cancelled \/ NobodyWaits(wv, jv, b.again))
  OBVIOUS
<1>8. PICK d : d = Recounted(b, wv, jv, x)
  OBVIOUS
<1>9. /\ wv = b.waiters - 1
      /\ jv = IF caller[p].joined THEN b.joiners - 1 ELSE b.joiners
  BY <1>2, <1>5, <1>6 DEF CacheCalls
<1>10. /\ call' = [call EXCEPT ![c].waiters = wv, ![c].joiners = jv,
                               ![c].cancelled = @ \/ NobodyWaits(wv, jv, call[c].again)]
       /\ loading' = LoadingAfter(c, wv)
  BY <1>1, <1>9, CacheAssumption DEF Leave
<1>11. call' = [call EXCEPT ![c] = d]
  BY <1>1, <1>2, <1>7, <1>8, <1>10 DEF CacheInv, CacheTyped, Recounted
<1>12. /\ d \in CacheCalls /\ d.phase = b.phase /\ d.again = b.again
       /\ d.result = b.result /\ d.joined = b.joined /\ d.loader = b.loader /\ d.read = b.read
       /\ d.waiters = wv /\ d.joiners = jv /\ d.cancelled = x
  <2>1. wv \in Nat /\ jv \in Nat /\ x \in BOOLEAN
    BY <1>5, <1>7
  <2>. QED
    BY <1>2, <1>8, <2>1, CountedIn
<1>13. UNCHANGED <<events, entry>> /\ caller' = [caller EXCEPT ![p] = NoGet]
  BY DEF Leave
<1>14. caller' \in [Callers -> Gets] /\ caller'[p] = NoGet /\ \A q \in Callers \ {p} : caller'[q] = caller[q]
  BY <1>13, NoGetIs DEF CacheInv, CacheTyped
<1>15. call' \in [Calls -> CacheCalls] /\ call'[c] = d /\ \A e \in Calls \ {c} : call'[e] = call[e]
  BY <1>11, <1>12 DEF CacheInv, CacheTyped
<1>16. \A e \in Calls \ {c} : On(e)' = On(e) /\ JoinedOn(e)' = JoinedOn(e)
  BY <1>14, NoGetIs DEF On, JoinedOn
<1>17. On(c)' = On(c) \ {p} /\ JoinedOn(c)' = JoinedOn(c) \ {p}
  BY <1>14, NoGetIs DEF On, JoinedOn
<1>18. CallsCounted'
  <2>1. d.waiters = Cardinality(On(c)') /\ d.joiners = Cardinality(JoinedOn(c)')
    BY <1>5, <1>12, <1>17
  <2>. QED
    BY <1>15, <1>16, <2>1 DEF CacheInv, CallsCounted, joinedDone
<1>19. Shape(d)
  <2>1. b.phase # "unused"
    BY <1>2, <1>5, <1>6 DEF Shape, Unused
  <2>2. d.cancelled => d.waiters = 0 \/ (d.again /\ d.joiners = 0)
    <3>1. CASE NobodyWaits(wv, jv, b.again)
      BY <1>12, <3>1 DEF NobodyWaits
    <3>2. CASE ~ NobodyWaits(wv, jv, b.again)
      <4>1. SUFFICES ASSUME d.cancelled PROVE d.again /\ d.joiners = 0
        OBVIOUS
      <4>2. b.cancelled /\ b.phase # "over"
        BY <1>1, <1>7, <1>12, <3>2, <4>1 DEF joinedDone
      <4>3. b.again /\ b.joiners = 0
        BY <1>2, <1>5, <1>6, <4>2 DEF Shape
      <4>. QED
        BY <1>5, <1>6, <1>12, <4>3
    <3>. QED
      BY <3>1, <3>2
  <2>. QED
    BY <1>2, <1>12, <2>1, <2>2 DEF Shape
<1>20. \A e \in Calls : Shape(call'[e])
  BY <1>15, <1>19 DEF CacheInv
<1>21. JoinableLives'
  <2>1. CASE wv = 0 /\ loading = c
    BY <1>10, <2>1, CacheAssumption DEF LoadingAfter, JoinableLives
  <2>2. CASE loading # c
    BY <1>10, <1>15, <2>2 DEF LoadingAfter, JoinableLives, CacheInv
  <2>3. CASE wv # 0 /\ loading = c
    <3>1. b.phase \in {"slot", "load", "decide"} /\ ~ b.cancelled
      BY <1>1, <2>3 DEF CacheInv, JoinableLives
    <3>2. ~ b.again
      BY <1>2, <3>1 DEF Shape
    <3>3. ~ x
      BY <1>7, <2>3, <3>1, <3>2 DEF NobodyWaits
    <3>4. loading' = loading /\ wv > 0
      BY <1>5, <1>10, <2>3 DEF LoadingAfter
    <3>. QED
      BY <1>12, <1>15, <2>3, <3>1, <3>3, <3>4 DEF JoinableLives
  <2>. QED
    BY <2>1, <2>2, <2>3
<1>22. \A s : (Serves(b, s) => Serves(d, s)) /\ (ServesJoined(b, s) => ServesJoined(d, s))
  BY <1>12 DEF Serves, ServesJoined
<1>23. ASSUME NEW q \in Callers PROVE ServedTo(caller'[q], call', events')
  <2>1. CASE q = p
    BY <1>13, <1>14, <2>1, NoGetIs DEF ServedTo, CacheInv, CacheTyped
  <2>2. CASE q # p /\ caller[q].on = c
    BY <1>1, <1>13, <1>14, <1>15, <1>22, <2>2, ServedIs DEF ServedTo, CacheInv
  <2>3. CASE q # p /\ caller[q].on # c
    BY <1>13, <1>14, <1>15, <2>3, ServedIs DEF ServedTo, CacheInv
  <2>. QED
    BY <2>1, <2>2, <2>3
<1>24. Served'
  BY <1>23 DEF Served, ServedTo
<1>25. CacheTyped'
  BY <1>10, <1>13, <1>14, <1>15 DEF CacheInv, CacheTyped, LoadingAfter
<1>. QED
  BY <1>18, <1>20, <1>21, <1>24, <1>25 DEF CacheInv

LEMMA LeaveKeeps ==
  ASSUME CacheInv, NEW p \in Callers, Leave(p)
  PROVE  CacheInv'
<1>1. PICK c : c = caller[p].on
  OBVIOUS
<1>2. c \in Calls \cup {NoCall}
  BY <1>1 DEF CacheInv, CacheTyped, Gets
<1>3. CASE c \in Calls /\ ~ joinedDone(c)
  BY <1>1, <1>3, LeaveCountedKeeps
<1>4. CASE c = NoCall \/ joinedDone(c)
  <2>1. UNCHANGED <<events, entry, loading, call>> /\ caller' = [caller EXCEPT ![p] = NoGet]
    BY <1>1, <1>4 DEF Leave
  <2>2. caller' \in [Callers -> Gets] /\ caller'[p] = NoGet /\ \A q \in Callers \ {p} : caller'[q] = caller[q]
    BY <2>1, NoGetIs DEF CacheInv, CacheTyped
  <2>3. \A e \in Calls \ {c} : On(e)' = On(e) /\ JoinedOn(e)' = JoinedOn(e)
    BY <1>1, <2>2, NoGetIs DEF On, JoinedOn
  <2>4. CallsCounted'
    BY <1>4, <2>1, <2>3, CacheAssumption DEF CacheInv, CallsCounted, joinedDone
  <2>5. ASSUME NEW q \in Callers PROVE ServedTo(caller'[q], call', events')
    <3>1. CASE q = p
      BY <2>1, <2>2, <3>1, NoGetIs DEF ServedTo, CacheInv, CacheTyped
    <3>2. CASE q # p
      BY <2>1, <2>2, <3>2, ServedIs DEF CacheInv
    <3>. QED
      BY <3>1, <3>2
  <2>6. Served'
    BY <2>5 DEF Served, ServedTo
  <2>. QED
    BY <2>1, <2>2, <2>4, <2>6 DEF CacheInv, CacheTyped, JoinableLives
<1>. QED
  BY <1>2, <1>3, <1>4

-----------------------------------------------------------------------------
(* The rest.                                                               *)

LEMMA CommitKeeps ==
  ASSUME CacheInv, CommitEvent
  PROVE  CacheInv'
<1>1. events' \in Nat /\ events <= events' /\ events \in Nat
  BY DEF CommitEvent, CacheInv, CacheTyped
<1>2. UNCHANGED <<entry, loading, call, caller>>
  BY DEF CommitEvent
<1>3. ASSUME NEW q \in Callers PROVE ServedTo(caller'[q], call', events')
  <2>1. ServedTo(caller[q], call, events) /\ caller[q].since \in Nat
    BY ServedIs DEF CacheInv, CacheTyped, Gets
  <2>. QED
    BY <1>1, <1>2, <2>1 DEF ServedTo
<1>6. Served'
  BY <1>3 DEF Served, ServedTo
<1>4. CacheTyped'
  BY <1>1, <1>2 DEF CacheInv, CacheTyped
<1>5. CallsCounted'
  BY <1>2 DEF CacheInv, CallsCounted, On, JoinedOn, joinedDone
<1>. QED
  BY <1>2, <1>6, <1>4, <1>5 DEF CacheInv, JoinableLives

(* Without events, entry counts only for its type.                         *)
LEMMA QuietKeeps ==
  ASSUME CacheInv, UNCHANGED <<events, loading, call, caller>>, entry' \subseteq entry
  PROVE  CacheInv'
<1>1. CacheTyped'
  BY DEF CacheInv, CacheTyped
<1>2. CallsCounted'
  BY DEF CacheInv, CallsCounted, On, JoinedOn, joinedDone
<1>3. Served'
  BY DEF CacheInv, Served, Serves, ServesJoined, Batch
<1>. QED
  BY <1>1, <1>2, <1>3 DEF CacheInv, JoinableLives

LEMMA CacheInitial ==
  ASSUME CacheInit
  PROVE  CacheInv
<1>1. Error \in Results /\ ~ Error.ok /\ 0 \in 0..Limit /\ NoCall \notin Calls
  BY CacheAssumption DEF Error, Results
<1>2. Unused \in CacheCalls
  BY <1>1 DEF Unused, CacheCalls, Phases, Loaders
<1>3. CacheTyped
  BY <1>2, NoGetIs DEF CacheInit, CacheTyped
<1>4. Shape(Unused) /\ Unused.waiters = 0 /\ Unused.joiners = 0
  BY <1>1 DEF Unused, Shape
<1>5. \A c \in Calls : On(c) = {} /\ JoinedOn(c) = {}
  BY NoGetIs DEF CacheInit, On, JoinedOn
<1>6. CallsCounted
  BY <1>4, <1>5, FS_EmptySet DEF CacheInit, CallsCounted
<1>7. Served
  BY NoGetIs DEF CacheInit, Served
<1>. QED
  BY <1>1, <1>3, <1>4, <1>6, <1>7 DEF CacheInit, CacheInv, JoinableLives

LEMMA CacheInductive ==
  ASSUME CacheInv, [CacheNext]_cacheVars
  PROVE  CacheInv'
<1>1. ASSUME NEW p \in Callers, Hit(p) \/ Start(p) \/ Join(p) \/ GetStep(p) \/ GiveUp(p)
      PROVE  CacheInv'
  BY <1>1, HitKeeps, StartKeeps, JoinKeeps, ReturnKeeps, LeaveKeeps, GiveUpKeeps DEF GetStep
<1>2. ASSUME NEW c \in Calls,
             LoadStep(c) \/ ReadEvents(c) \/ LoadReturns(c) \/ OrphanReturns(c)
      PROVE  CacheInv'
  BY <1>2, AcquireKeeps, GiveUpRunKeeps, DecideKeeps, CloseKeeps, PublishKeeps, ReadEventsKeeps,
     LoadReturnsKeeps, OrphanReturnsKeeps DEF LoadStep
<1>3. CASE CommitEvent
  BY <1>3, CommitKeeps
<1>4. CASE Evict
  BY <1>4, QuietKeeps DEF Evict
<1>5. CASE Shutdown
  BY <1>5, QuietKeeps DEF Shutdown
<1>6. CASE UNCHANGED cacheVars
  BY <1>6, QuietKeeps DEF cacheVars
<1>. QED
  BY <1>1, <1>2, <1>3, <1>4, <1>5, <1>6 DEF CacheNext

LEMMA CacheHolds == CacheSpec => []CacheInv
<1>. QED
  BY CacheInitial, CacheInductive, PTL DEF CacheSpec

(* No more loaders run at once than there are slots for, and the other     *)
(* types that the arguments above do not need.                             *)
SlotsHold == IsFiniteSet(Running) /\ Cardinality(Running) <= MaxLoads

LEMMA SlotsKept ==
  ASSUME CacheTyped, SlotsHold, [CacheNext]_cacheVars
  PROVE  SlotsHold'
<1>1. ASSUME Running' \subseteq Running PROVE SlotsHold'
  <2>1. IsFiniteSet(Running') /\ Cardinality(Running') <= Cardinality(Running)
    BY <1>1, FS_Subset DEF SlotsHold
  <2>2. Cardinality(Running') \in Nat /\ Cardinality(Running) \in Nat /\ MaxLoads \in Nat
    BY <2>1, FS_CardinalityType, CacheAssumption DEF SlotsHold
  <2>. QED
    BY <2>1, <2>2 DEF SlotsHold
<1>2. ASSUME NEW c \in Calls, Acquire(c) PROVE SlotsHold'
  <2>1. Cardinality(Running) < MaxLoads /\ c \notin Running /\ Running' = Running \cup {c}
    BY <1>2 DEF Acquire, SlotFree, Running, CacheTyped, CacheCalls
  <2>2. IsFiniteSet(Running') /\ Cardinality(Running') = Cardinality(Running) + 1
    BY <2>1, FS_AddElement DEF SlotsHold
  <2>3. Cardinality(Running) \in Nat /\ MaxLoads \in Nat
    BY FS_CardinalityType, CacheAssumption DEF SlotsHold
  <2>. QED
    BY <2>1, <2>2, <2>3 DEF SlotsHold
<1>3. ASSUME NEW c \in Calls, NEW d, call' = [call EXCEPT ![c] = d], d.loader # "none" => call[c].loader # "none"
      PROVE  SlotsHold'
  <2>1. Running' \subseteq Running
    BY <1>3 DEF Running, CacheTyped
  <2>. QED
    BY <1>1, <2>1
<1>4. ASSUME UNCHANGED call PROVE SlotsHold'
  BY <1>1, <1>4 DEF Running
<1>5. ASSUME NEW p \in Callers, Hit(p) \/ Start(p) \/ Join(p) \/ GetStep(p) \/ GiveUp(p)
      PROVE  SlotsHold'
  <2>1. CASE Start(p)
    <3>1. PICK c \in NextCall : call' = [call EXCEPT ![c].phase = "slot", ![c].waiters = 1]
      BY <2>1 DEF Start
    <3>2. c \in Calls
      BY <3>1 DEF NextCall
    <3>. QED
      BY <1>3, <3>1, <3>2 DEF CacheTyped, CacheCalls
  <2>2. CASE Join(p)
    <3>1. loading \in Calls /\ call' = [call EXCEPT ![loading].waiters = @ + 1, ![loading].joiners = @ + 1]
      BY <2>2 DEF Join, CacheTyped
    <3>. QED
      BY <1>3, <3>1 DEF CacheTyped, CacheCalls
  <2>3. CASE Leave(p)
    <3>1. CASE UNCHANGED call
      BY <1>4, <3>1
    <3>2. CASE ~ UNCHANGED call
      <4>. DEFINE c == caller[p].on
      <4>1. c \in Calls
        BY <2>3, <3>2 DEF Leave, CacheTyped, Gets
      <4>2. \E w, n, x : call' = [call EXCEPT ![c].waiters = w, ![c].joiners = n, ![c].cancelled = x]
        BY <2>3, <3>2 DEF Leave
      <4>3. PICK w, n, x : call' = [call EXCEPT ![c].waiters = w, ![c].joiners = n, ![c].cancelled = x]
        BY <4>2
      <4>. HIDE DEF c
      <4>4. call' = [call EXCEPT ![c] = call'[c]] /\ call'[c].loader = call[c].loader
        BY <4>1, <4>3 DEF CacheTyped, CacheCalls
      <4>. QED
        BY <1>3, <4>1, <4>4
    <3>. QED
      BY <3>1, <3>2
  <2>4. CASE Hit(p) \/ Return(p) \/ GiveUp(p)
    BY <1>4, <2>4 DEF Hit, Return, GiveUp
  <2>. QED
    BY <1>5, <2>1, <2>2, <2>3, <2>4 DEF GetStep
<1>6. ASSUME NEW c \in Calls, GiveUpRun(c) \/ Decide(c) \/ Close(c) \/ Publish(c) \/ ReadEvents(c)
                                \/ LoadReturns(c) \/ OrphanReturns(c)
      PROVE  SlotsHold'
  <2>1. call \in [Calls -> CacheCalls] /\ call[c] \in CacheCalls
    BY DEF CacheTyped
  <2>2. \A result : Ended(c, result).loader = call[c].loader
    BY <2>1 DEF Ended, CacheCalls
  <2>3. CASE GiveUpRun(c)
    BY <1>3, <2>2, <2>3 DEF GiveUpRun
  <2>4. CASE LoadReturns(c)
    <3>1. PICK result : call' = [call EXCEPT ![c] = [Ended(c, result) EXCEPT !.loader = "none", !.read = 0]]
      BY <2>4 DEF LoadReturns
    <3>2. call[c].loader # "none"
      BY <2>4 DEF LoadReturns
    <3>. QED
      BY <1>3, <3>1, <3>2
  <2>5. CASE Decide(c) \/ Close(c) \/ Publish(c) \/ ReadEvents(c) \/ OrphanReturns(c)
    <3>1. call'[c].loader # "none" => call[c].loader # "none"
      <4>1. CASE Decide(c)
        BY <2>1, <4>1 DEF Decide, CacheCalls
      <4>2. CASE Close(c) \/ Publish(c)
        BY <2>1, <4>2 DEF Close, Publish, CacheCalls
      <4>3. CASE ReadEvents(c) \/ OrphanReturns(c)
        BY <2>1, <4>3 DEF ReadEvents, OrphanReturns, CacheCalls
      <4>. QED
        BY <2>5, <4>1, <4>2, <4>3
    <3>2. call' = [call EXCEPT ![c] = call'[c]]
      BY <2>1, <2>5 DEF Decide, Close, Publish, ReadEvents, OrphanReturns
    <3>. QED
      BY <1>3, <2>1, <3>1, <3>2
  <2>. QED
    BY <1>6, <2>3, <2>4, <2>5
<1>7. CASE CommitEvent \/ Evict \/ Shutdown \/ UNCHANGED cacheVars
  BY <1>4, <1>7 DEF CommitEvent, Evict, Shutdown, cacheVars
<1>. QED
  BY <1>2, <1>5, <1>6, <1>7 DEF CacheNext, LoadStep

(* Every variable is of its type, and no more loaders run than there are   *)
(* slots, those included whose runs have timed out or were cancelled.      *)
THEOREM CacheTypeCorrect == CacheSpec => []CacheTypeOK
<1>. DEFINE More == events \in 0 .. MaxEvents /\ parent \in BOOLEAN /\ SlotsHold
<1>1. ASSUME CacheInit PROVE More
  <2>1. Running = {}
    BY <1>1 DEF CacheInit, Running, Unused
  <2>2. SlotsHold
    BY <2>1, FS_EmptySet, CacheAssumption DEF SlotsHold
  <2>. QED
    BY <1>1, <2>2, CacheAssumption DEF CacheInit
<1>2. ASSUME CacheInv, More, [CacheNext]_cacheVars PROVE More'
  <2>1. SlotsHold'
    BY <1>2, SlotsKept DEF CacheInv
  <2>2. events' = events \/ (events < MaxEvents /\ events' = events + 1)
    BY <1>2 DEF CacheNext, Hit, Start, Join, GetStep, Return, Leave, GiveUp, LoadStep, Acquire, GiveUpRun, Decide,
       Close, Publish, ReadEvents, LoadReturns, OrphanReturns, CommitEvent, Evict, Shutdown, cacheVars
  <2>3. parent' = parent \/ parent' = FALSE
    BY <1>2, Zenon DEF CacheNext, Hit, Start, Join, GetStep, Return, Leave, GiveUp, LoadStep, Acquire, GiveUpRun,
       Decide, Close, Publish, ReadEvents, LoadReturns, OrphanReturns, CommitEvent, Evict, Shutdown, cacheVars
  <2>4. events' \in 0 .. MaxEvents
    BY <1>2, <2>2, CacheAssumption
  <2>5. parent' \in BOOLEAN
    BY <1>2, <2>3, Zenon
  <2>. QED
    BY <2>1, <2>4, <2>5
<1>3. CacheInv /\ More => CacheTypeOK
  BY DEF CacheInv, CacheTyped, SlotsHold, CacheTypeOK
<1>. QED
  BY <1>1, <1>2, <1>3, CacheInitial, CacheInductive, PTL DEF CacheSpec

-----------------------------------------------------------------------------
(* A batch holds every event committed before its Get began, up to the     *)
(* limit, whoever loaded it and whoever gave up meanwhile.                 *)
THEOREM BatchesAreFresh == CacheSpec => []FreshForItsCall
<1>1. CacheInv => FreshForItsCall
  BY DEF CacheInv, Served, FreshForItsCall
<1>. QED
  BY <1>1, CacheHolds, PTL

(* A caller giving up never ends a load another caller still waits for.    *)
THEOREM WaitersKeepTheirLoad == CacheSpec => []LoadLivesForItsWaiters
<1>1. ASSUME CacheInv PROVE LoadLivesForItsWaiters
  <2>1. SUFFICES ASSUME NEW p \in Callers, NEW c, c = caller[p].on,
                        caller[p].pc = "wait", call[c].cancelled
                 PROVE  IF caller[p].joined THEN joinedDone(c)
                        ELSE call[c].phase \in {"close", "slot again", "load again", "publish", "over"}
    BY DEF LoadLivesForItsWaiters
  <2>2. c \in Calls /\ call[c] \in CacheCalls /\ Shape(call[c])
    BY <1>1, <2>1 DEF CacheInv, CacheTyped, Served
  <2>3. CASE joinedDone(c)
    BY <2>3 DEF joinedDone
  <2>4. CASE ~ joinedDone(c)
    <3>1. p \in On(c) /\ (caller[p].joined => p \in JoinedOn(c))
      BY <2>1 DEF On, JoinedOn
    <3>2. call[c].waiters = Cardinality(On(c)) /\ call[c].joiners = Cardinality(JoinedOn(c))
      BY <1>1, <2>2, <2>4 DEF CacheInv, CallsCounted
    <3>3. call[c].waiters # 0 /\ (caller[p].joined => call[c].joiners # 0)
      BY <3>1, <3>2, OnIsFinite
    <3>4. call[c].again /\ call[c].joiners = 0
      BY <2>1, <2>2, <2>4, <3>3 DEF Shape, joinedDone
    <3>5. call[c].phase \in {"close", "slot again", "load again", "publish", "over"}
      BY <2>2, <3>4 DEF Shape, CacheCalls, Phases
    <3>. QED
      BY <3>3, <3>4, <3>5
  <2>. QED
    BY <2>3, <2>4
<1>. QED
  BY <1>1, CacheHolds, PTL

(* After shutdown nothing is stored and no result is accepted.             *)
THEOREM ShutdownIsFinal == CacheSpec => NothingAfterShutdown
<1>. DEFINE Refused(c) == call[c].phase = "decide" /\ call'[c].phase = "close" => ~ call'[c].result.ok
<1>1. ASSUME CacheInv, ~ parent, CacheNext
      PROVE  entry' \subseteq entry /\ \A c \in Calls : Refused(c)
  <2>. USE DEF CacheInv, CacheTyped
  <2>1. ASSUME NEW p \in Callers, Hit(p) \/ Start(p) \/ Join(p) \/ Return(p) \/ GiveUp(p)
        PROVE  entry' \subseteq entry /\ \A c \in Calls : Refused(c)
    BY <1>1, <2>1 DEF Hit, Start, Join, Return, GiveUp
  <2>2. ASSUME NEW p \in Callers, Leave(p)
        PROVE  entry' \subseteq entry /\ \A c \in Calls : Refused(c)
    <3>1. entry' = entry
      BY <2>2 DEF Leave
    <3>2. \A c \in Calls : call'[c].phase = call[c].phase
      BY <1>1, <2>2 DEF Leave, CacheCalls
    <3>. QED
      BY <3>1, <3>2
  <2>3. ASSUME NEW c \in Calls, Acquire(c) \/ Close(c) \/ Publish(c) \/ ReadEvents(c) \/ OrphanReturns(c)
        PROVE  entry' \subseteq entry /\ \A e \in Calls : Refused(e)
    <3>1. entry' = entry
      BY <2>3 DEF Acquire, Close, Publish, ReadEvents, OrphanReturns
    <3>2. \A e \in Calls : e # c => call'[e] = call[e]
      BY <1>1, <2>3 DEF Acquire, Close, Publish, ReadEvents, OrphanReturns
    <3>3. call[c].phase = "decide" => call'[c].phase # "close"
      BY <1>1, <2>3 DEF Acquire, Close, Publish, ReadEvents, OrphanReturns, CacheCalls, Waiting
    <3>. QED
      BY <3>1, <3>2, <3>3
  <2>4. ASSUME NEW c \in Calls, GiveUpRun(c) \/ LoadReturns(c)
        PROVE  entry' \subseteq entry /\ \A e \in Calls : Refused(e)
    <3>1. entry' = entry /\ call[c].phase # "decide"
      BY <2>4 DEF GiveUpRun, LoadReturns, Waiting, Loading
    <3>2. \A e \in Calls : e # c => call'[e] = call[e]
      BY <1>1, <2>4 DEF GiveUpRun, LoadReturns
    <3>. QED
      BY <3>1, <3>2
  <2>5. ASSUME NEW c \in Calls, Decide(c)
        PROVE  entry' \subseteq entry /\ \A e \in Calls : Refused(e)
    <3>1. Accepted(c) = Error /\ ~ Error.ok
      BY <1>1 DEF Accepted, Cancelled, Error
    <3>2. entry' = entry
      BY <2>5, <3>1 DEF Decide
    <3>3. call'[c].result = Accepted(c) /\ \A e \in Calls : e # c => call'[e] = call[e]
      BY <1>1, <2>5 DEF Decide, CacheCalls
    <3>. QED
      BY <3>1, <3>2, <3>3
  <2>6. CASE CommitEvent \/ Evict \/ Shutdown
    BY <1>1, <2>6 DEF CommitEvent, Evict, Shutdown
  <2>. QED
    BY <1>1, <2>1, <2>2, <2>3, <2>4, <2>5, <2>6 DEF CacheNext, GetStep, LoadStep
<1>2. CacheInv /\ [CacheNext]_cacheVars => [~ parent => entry' \subseteq entry /\ \A c \in Calls : Refused(c)]_cacheVars
  BY <1>1
<1>. QED
  BY <1>2, CacheHolds, PTL DEF CacheSpec, NothingAfterShutdown
=============================================================================
