-------------------------- MODULE Presence_proofs --------------------------
(***************************************************************************)
(* Proofs about who is online: nobody with an accepted stream is taken     *)
(* offline, everybody without one leaves in the end, whatever stopped      *)
(* timers still run, and a page that has caught up lists who is online.    *)
(***************************************************************************)
EXTENDS Presence, FiniteSetTheorems, TLAPS

Kept == [kept : BOOLEAN, streams : Nat, timer : Timers \cup {"none"}, online : BOOLEAN,
         generation : Nat]

(* The types that the arguments below need. *)
Typed ==
  /\ generation \in Nat
  /\ members \in [Members -> Kept]
  /\ stream \in [Streams -> Members \cup {"none"}]
  /\ timer \in [Timers -> {Idle} \cup Alarms]

OpenOf(m) == {st \in Streams : stream[st] = m}

(* A member's count is the number of its accepted streams. *)
Counted == \A m \in Members : members[m].streams = Cardinality(OpenOf(m))

(* A member with a stream is online and has no timer; one that is not kept *)
(* has neither.                                                            *)
Settled ==
  \A m \in Members :
    /\ members[m].streams > 0 => members[m].kept /\ members[m].online /\ members[m].timer = "none"
    /\ ~ members[m].kept => members[m].streams = 0 /\ members[m].timer = "none"

IInv == Typed /\ Counted /\ Settled /\ DepartureIsDue

(* A timer that a member's struct names was armed for that member. *)
LEMMA NamedTimer ==
  ASSUME Settled, DepartureIsDue, Typed, NEW m \in Members, members[m].timer # "none"
  PROVE  /\ members[m].timer \in Timers /\ members[m].streams = 0 /\ members[m].kept
         /\ timer[members[m].timer].member = m /\ timer[members[m].timer].pc # "idle"
<1>1. members[m].streams \in Nat /\ members[m].streams = 0
  BY DEF Settled, Typed, Kept
<1>. QED
  BY <1>1 DEF Settled, DepartureIsDue

LEMMA OpenCounts ==
  ASSUME IInv, NEW st \in Streams, NEW m \in Members, Open(st, m)
  PROVE  Counted'
<1>1. members'[m].streams = members[m].streams + 1
  BY DEF Open, IInv, Typed
<1>2. ASSUME NEW n \in Members, n # m
      PROVE  members'[n] = members[n] /\ OpenOf(n)' = OpenOf(n)
  BY <1>2, PresenceAssumption DEF Open, IInv, Typed, OpenOf
<1>3. OpenOf(m)' = OpenOf(m) \cup {st} /\ st \notin OpenOf(m)
  BY PresenceAssumption DEF Open, IInv, Typed, OpenOf
<1>4. IsFiniteSet(OpenOf(m))
  BY PresenceAssumption, FS_Subset DEF OpenOf
<1>5. Cardinality(OpenOf(m)') = Cardinality(OpenOf(m)) + 1
  BY <1>3, <1>4, FS_AddElement
<1>. QED
  BY <1>1, <1>2, <1>5 DEF Counted, IInv

LEMMA CloseCounts ==
  ASSUME IInv, NEW st \in Streams, Close(st)
  PROVE  Counted' /\ stream[st] \in Members /\ members[stream[st]].streams > 0
<1>0. PICK m \in Members : m = stream[st]
  BY DEF Close, IInv, Typed
<1>s. stream' = [stream EXCEPT ![st] = "none"] /\ stream \in [Streams -> Members \cup {"none"}]
  BY DEF Close, IInv, Typed
<1>1. st \in OpenOf(m) /\ OpenOf(m)' = OpenOf(m) \ {st}
  BY <1>0, <1>s, PresenceAssumption DEF OpenOf
<1>2. IsFiniteSet(OpenOf(m))
  BY PresenceAssumption, FS_Subset DEF OpenOf
<1>3. /\ Cardinality(OpenOf(m)') = Cardinality(OpenOf(m)) - 1
      /\ Cardinality(OpenOf(m)) \in Nat /\ Cardinality(OpenOf(m)) # 0
  BY <1>1, <1>2, FS_RemoveElement, FS_CardinalityType, FS_EmptySet
<1>4. members[m].streams = Cardinality(OpenOf(m))
  BY <1>0 DEF IInv, Counted
<1>5. members'[m].streams = members[m].streams - 1
  <2>1. CASE members[m].streams > 1
    <3>1. members' = [members EXCEPT ![m].streams = @ - 1]
      BY <2>1, <1>0 DEF Close
    <3>. QED
      BY <3>1, <1>0 DEF IInv, Typed, Kept
  <2>2. CASE ~ members[m].streams > 1
    <3>1. PICK t \in Timers : members' = [members EXCEPT ![m].streams = 0, ![m].timer = t]
      BY <2>2, <1>0 DEF Close
    <3>2. members'[m].streams = 0
      BY <3>1, <1>0 DEF IInv, Typed, Kept
    <3>. QED
      BY <3>2, <2>2, <1>3, <1>4
  <2>. QED
    BY <2>1, <2>2
<1>6. ASSUME NEW n \in Members, n # m
      PROVE  members'[n].streams = members[n].streams /\ OpenOf(n)' = OpenOf(n)
  <2>1. OpenOf(n)' = OpenOf(n)
    BY <1>6, <1>s, <1>0, PresenceAssumption DEF OpenOf
  <2>2. members'[n] = members[n]
    BY <1>6, <1>0 DEF Close, IInv, Typed
  <2>. QED
    BY <2>1, <2>2
<1>7. Counted'
  <2>1. ASSUME NEW n \in Members PROVE members'[n].streams = Cardinality(OpenOf(n)')
    <3>1. CASE n = m
      BY <3>1, <1>3, <1>4, <1>5
    <3>2. CASE n # m
      BY <3>2, <1>6 DEF Counted, IInv
    <3>. QED
      BY <3>1, <3>2
  <2>. QED
    BY <2>1 DEF Counted
<1>. QED
  BY <1>0, <1>3, <1>4, <1>7

LEMMA OpenPreserves ==
  ASSUME IInv, NEW st \in Streams, NEW m \in Members, Open(st, m)
  PROVE  IInv'
<1>. USE DEF IInv
<1>1. Typed'
  BY DEF Open, Typed, Kept, Stopped, Idle, Change
<1>2. /\ members'[m].kept /\ members'[m].online /\ members'[m].timer = "none"
      /\ members'[m].streams > 0
      /\ \A n \in Members \ {m} : members'[n] = members[n]
  BY DEF Open, Typed, Kept
<1>3. Settled'
  BY <1>2 DEF Settled
<1>4. ASSUME NEW n \in Members, n # m, members[n].timer # "none"
      PROVE  timer'[members[n].timer] = timer[members[n].timer]
  <2>1. members[m].timer # "none" => members[m].timer # members[n].timer
    BY <1>4, NamedTimer
  <2>. QED
    BY <2>1, <1>4, NamedTimer DEF Open, Stopped, Typed
<1>5. DepartureIsDue'
  <2>1. ASSUME NEW n \in Members, members'[n].kept, members'[n].streams = 0
        PROVE  n # m /\ members'[n] = members[n] /\ members[n].timer # "none"
               /\ timer'[members[n].timer] = timer[members[n].timer]
    BY <2>1, <1>2, <1>4, PresenceAssumption DEF DepartureIsDue
  <2>. QED
    BY <2>1 DEF DepartureIsDue
<1>. QED
  BY <1>1, <1>3, <1>5, OpenCounts

LEMMA ClosePreserves ==
  ASSUME IInv, NEW st \in Streams, Close(st)
  PROVE  IInv'
<1>. USE DEF IInv
<1>0. PICK m \in Members : m = stream[st] /\ members[m].streams > 0
  BY CloseCounts
<1>1. members[m].kept /\ members[m].online /\ members[m].timer = "none"
  BY <1>0 DEF Settled
<1>2. CASE members[m].streams > 1
  <2>1. /\ members' = [members EXCEPT ![m].streams = @ - 1] /\ UNCHANGED <<timer, generation>>
        /\ stream' = [stream EXCEPT ![st] = "none"]
    BY <1>2, <1>0 DEF Close
  <2>2. Typed'
    BY <2>1, <1>0, <1>2 DEF Typed, Kept
  <2>3. /\ members'[m].streams > 0 /\ members'[m].kept /\ members'[m].online
        /\ members'[m].timer = "none"
        /\ \A n \in Members \ {m} : members'[n] = members[n]
    BY <2>1, <1>0, <1>1, <1>2 DEF Typed, Kept
  <2>4. Settled' /\ DepartureIsDue'
    BY <2>1, <2>3 DEF Settled, DepartureIsDue
  <2>. QED
    BY <2>2, <2>4, CloseCounts
<1>3. CASE ~ members[m].streams > 1
  <2>1. PICK t \in Timers :
          /\ timer[t].pc = "idle"
          /\ timer' = [timer EXCEPT ![t] = Armed("leave", m)]
          /\ members' = [members EXCEPT ![m].streams = 0, ![m].timer = t]
    BY <1>3, <1>0 DEF Close
  <2>2. UNCHANGED generation /\ stream' = [stream EXCEPT ![st] = "none"]
    BY DEF Close
  <2>3. Typed'
    <3>1. members' \in [Members -> Kept]
      BY <2>1, <1>0 DEF Typed, Kept
    <3>2. timer' \in [Timers -> {Idle} \cup Alarms]
      BY <2>1, <1>0 DEF Typed, Armed, Alarms
    <3>. QED
      BY <3>1, <3>2, <2>2 DEF Typed
  <2>4. /\ members'[m].streams = 0 /\ members'[m].kept /\ members'[m].online
        /\ members'[m].timer = t
        /\ \A n \in Members \ {m} : members'[n] = members[n]
    BY <2>1, <1>0, <1>1 DEF Typed, Kept
  <2>5. timer'[t] = Armed("leave", m) /\ \A u \in Timers \ {t} : timer'[u] = timer[u]
    BY <2>1 DEF Typed
  <2>6. Settled'
    <3>1. ASSUME NEW n \in Members
          PROVE  /\ members'[n].streams > 0 =>
                      members'[n].kept /\ members'[n].online /\ members'[n].timer = "none"
                 /\ ~ members'[n].kept => members'[n].streams = 0 /\ members'[n].timer = "none"
      <4>1. CASE n = m
        BY <4>1, <2>4
      <4>2. CASE n # m
        BY <4>2, <2>4 DEF Settled
      <4>. QED
        BY <4>1, <4>2
    <3>. QED
      BY <3>1 DEF Settled
  <2>7. DepartureIsDue'
    <3>1. ASSUME NEW n \in Members, n # m, members[n].kept, members[n].streams = 0
          PROVE  members[n].timer # t
      BY <2>1, <3>1 DEF DepartureIsDue
    <3>. QED
      BY <3>1, <2>4, <2>5 DEF DepartureIsDue, Armed
  <2>. QED
    BY <2>3, <2>6, <2>7, CloseCounts
<1>. QED
  BY <1>2, <1>3

LEMMA TimerPreserves ==
  ASSUME IInv, NEW t \in Timers, Fire(t) \/ Superseded(t) \/ GoOffline(t) \/ Discard(t)
  PROVE  IInv'
<1>. USE DEF IInv
<1>1. CASE Fire(t)
  <2>1. /\ timer[t].pc = "armed"
        /\ timer' = [timer EXCEPT ![t].pc = "fired"]
        /\ UNCHANGED <<generation, members, stream>>
    BY <1>1 DEF Fire
  <2>a. [timer[t] EXCEPT !.pc = "fired"] \in Alarms
    BY <2>1 DEF Typed, Alarms, Idle
  <2>2. Typed' /\ Counted' /\ Settled'
    BY <2>1, <2>a DEF Typed, Counted, Settled, OpenOf
  <2>3. DepartureIsDue'
    BY <2>1 DEF Typed, DepartureIsDue
  <2>. QED
    BY <2>2, <2>3
<1>2. CASE Superseded(t)
  <2>1. /\ timer' = [timer EXCEPT ![t] = Idle]
        /\ UNCHANGED <<generation, members, stream>>
        /\ members[timer[t].member].timer # t
    BY <1>2 DEF Superseded
  <2>2. Typed' /\ Counted' /\ Settled'
    BY <2>1 DEF Typed, Counted, Settled, OpenOf, Idle
  <2>3. DepartureIsDue'
    BY <2>1 DEF Typed, DepartureIsDue
  <2>. QED
    BY <2>2, <2>3
<1>3. CASE GoOffline(t)
  <2>1. PICK m \in Members, d \in Timers :
          /\ members[m].timer = t
          /\ timer[t].pc = "fired" /\ timer[d].pc = "idle"
          /\ timer' = [timer EXCEPT ![t] = Idle, ![d] = Armed("discard", m)]
          /\ members' = [members EXCEPT ![m].online = FALSE, ![m].generation = generation',
                                        ![m].timer = d]
          /\ generation' = generation + 1
          /\ stream' = stream
    BY <1>3 DEF GoOffline, Change, Running, Typed, Alarms, Idle
  <2>2. members[m].streams = 0 /\ members[m].kept /\ d # t
    BY <2>1, NamedTimer, PresenceAssumption
  <2>3. /\ members' \in [Members -> Kept]
        /\ members'[m].streams = 0 /\ members'[m].kept /\ ~ members'[m].online
        /\ members'[m].timer = d
        /\ \A n \in Members : members'[n].streams = members[n].streams
        /\ \A n \in Members \ {m} : members'[n] = members[n]
    BY <2>1, <2>2 DEF Typed, Kept
  <2>4. /\ timer' \in [Timers -> {Idle} \cup Alarms]
        /\ timer'[d] = Armed("discard", m)
        /\ \A u \in Timers \ {t, d} : timer'[u] = timer[u]
    BY <2>1, <2>2 DEF Typed, Armed, Alarms
  <2>5. Typed' /\ Counted'
    BY <2>1, <2>3, <2>4 DEF Typed, Counted, OpenOf
  <2>6. Settled'
    BY <2>2, <2>3 DEF Settled
  <2>7. ASSUME NEW n \in Members, n # m, members[n].kept, members[n].streams = 0
        PROVE  members[n].timer \in Timers \ {t, d}
    BY <2>1, <2>2, <2>7, NamedTimer DEF DepartureIsDue
  <2>8. DepartureIsDue'
    BY <2>3, <2>4, <2>7 DEF DepartureIsDue, Armed
  <2>. QED
    BY <2>5, <2>6, <2>8
<1>4. CASE Discard(t)
  <2>1. PICK m \in Members :
          /\ members[m].timer = t
          /\ timer' = [timer EXCEPT ![t] = Idle]
          /\ members' = [members EXCEPT ![m] = Absent]
          /\ UNCHANGED <<generation, stream>>
    <3>1. timer[t].member \in Members
      BY <1>4 DEF Discard, Running, Typed, Alarms, Idle
    <3>. QED
      BY <3>1, <1>4 DEF Discard
  <2>2. members[m].streams = 0
    BY <2>1, NamedTimer, PresenceAssumption
  <2>3. /\ members'[m] = Absent
        /\ \A n \in Members \ {m} : members'[n] = members[n]
    BY <2>1 DEF Typed
  <2>4. Typed'
    BY <2>1 DEF Typed, Kept, Absent
  <2>5. Counted'
    BY <2>1, <2>2, <2>3 DEF Counted, OpenOf, Absent
  <2>6. Settled'
    BY <2>3 DEF Settled, Absent
  <2>7. ASSUME NEW n \in Members, n # m, members[n].kept, members[n].streams = 0
        PROVE  members[n].timer \in Timers \ {t}
    BY <2>1, <2>7, NamedTimer, PresenceAssumption DEF DepartureIsDue
  <2>8. DepartureIsDue'
    BY <2>1, <2>3, <2>7 DEF DepartureIsDue, Absent, Typed
  <2>. QED
    BY <2>4, <2>5, <2>6, <2>8
<1>. QED
  BY <1>1, <1>2, <1>3, <1>4

LEMMA InitHolds == Init => IInv
<1>. SUFFICES ASSUME Init PROVE IInv
  OBVIOUS
<1>1. Typed
  BY DEF Init, Typed, Kept, Absent
<1>2. Settled /\ DepartureIsDue
  BY DEF Init, Settled, DepartureIsDue, Absent
<1>3. Counted
  BY PresenceAssumption, FS_EmptySet DEF Init, Counted, OpenOf, Absent
<1>. QED
  BY <1>1, <1>2, <1>3 DEF IInv

LEMMA RestartHolds == ASSUME IInv, Restart PROVE IInv'
<1>1. Typed'
  BY DEF Restart, Typed, Kept, Absent
<1>2. Settled' /\ DepartureIsDue'
  BY DEF Restart, Settled, DepartureIsDue, Absent
<1>3. Counted'
  BY PresenceAssumption, FS_EmptySet DEF Restart, Counted, OpenOf, Absent
<1>. QED
  BY <1>1, <1>2, <1>3 DEF IInv

LEMMA Frame == ASSUME IInv, UNCHANGED state PROVE IInv'
BY DEF IInv, state, Typed, Counted, Settled, DepartureIsDue, OpenOf

LEMMA Inductive == Spec => []IInv
<1>1. IInv /\ [Next]_vars => IInv'
  <2>. SUFFICES ASSUME IInv, [Next]_vars PROVE IInv'
    OBVIOUS
  <2>1. CASE StreamStep
    BY <2>1, OpenPreserves, ClosePreserves DEF StreamStep
  <2>2. CASE TimerStep
    BY <2>2, TimerPreserves DEF TimerStep
  <2>3. CASE PageStep
    BY <2>3, Frame DEF PageStep, Load, Connect, Read, Send, Receive, ReceiveReset, Break
  <2>4. CASE Restart
    BY <2>4, RestartHolds
  <2>5. CASE UNCHANGED vars
    BY <2>5, Frame DEF vars
  <2>. QED
    BY <2>1, <2>2, <2>3, <2>4, <2>5 DEF Next
<1>. QED
  BY <1>1, InitHolds, PTL DEF Spec

(* Whoever has an accepted stream is kept and online, for any members,     *)
(* streams and timers (presence.go:84-138).                                *)
THEOREM OnlineIsKept == Spec => []OnlineWhileOpen
<1>1. IInv => OnlineWhileOpen
  <2>. SUFFICES ASSUME IInv, NEW st \in Streams, stream[st] # "none"
       PROVE  members[stream[st]].kept /\ members[stream[st]].online
    BY DEF OnlineWhileOpen
  <2>1. PICK m \in Members : m = stream[st]
    BY DEF IInv, Typed
  <2>2. IsFiniteSet(OpenOf(m)) /\ st \in OpenOf(m)
    BY <2>1, PresenceAssumption, FS_Subset DEF OpenOf
  <2>3. Cardinality(OpenOf(m)) \in Nat /\ Cardinality(OpenOf(m)) # 0
    BY <2>2, FS_CardinalityType, FS_EmptySet
  <2>. QED
    BY <2>1, <2>3 DEF IInv, Counted, Settled
<1>. QED
  BY <1>1, Inductive, PTL

(* Whoever has no stream has a timer armed that takes the member offline   *)
(* or, then, forgets it (presence.go:106-138).                             *)
THEOREM DepartureStaysDue == Spec => []DepartureIsDue
<1>1. IInv => DepartureIsDue
  BY DEF IInv
<1>. QED
  BY <1>1, Inductive, PTL
-----------------------------------------------------------------------------
(* The journal and the page.                                               *)

(* The journal is in the order of generations and holds everybody who is   *)
(* kept, once; who is not kept has no state left.                          *)
Journal ==
  /\ changes \in Seq(Members)
  /\ boundary \in Nat /\ boundary <= generation
  /\ \A i, j \in DOMAIN changes :
       i < j => members[changes[i]].generation < members[changes[j]].generation
  /\ \A m \in Members :
       /\ members[m].kept <=> \E i \in DOMAIN changes : changes[i] = m
       /\ members[m].generation <= generation
       /\ ~ members[m].kept => members[m] = Absent

PageTyped ==
  /\ process \in Nat
  /\ page = [pc |-> page.pc, shown |-> page.shown, token |-> page.token, seen |-> page.seen,
             frame |-> page.frame, wire |-> page.wire]
  /\ page.shown = [m \in Members |-> page.shown[m]]
  /\ page.token = [process |-> page.token.process, generation |-> page.token.generation]
  /\ page.token.process \in Nat /\ page.token.process <= process
  /\ page.token.generation \in Nat /\ page.seen \in Nat
  /\ page.frame.generation \in Nat

(* v is what a page that knows the changes up to b may show of a member:   *)
(* the truth, unless a later change is in the journal or was discarded.    *)
Fine(m, v, b) == v = members[m].online \/ members[m].generation > b \/ boundary > b

(* What the page will show once the frame on the wire has arrived, and     *)
(* once the one after it has.                                              *)
Applied(frame, m, v) ==
  IF frame.name = "presence" /\ m \in DOMAIN frame.entries THEN frame.entries[m] ELSE v
Soon(m) == Applied(page.wire, m, page.shown[m])
Later(m) == Applied(page.frame, m, Soon(m))

Begin == Bigger(page.token.generation, page.seen)

(* The page shows what its token stands for, whatever frames were lost     *)
(* with connections, and its stream knows what it has seen.                *)
TokenHolds ==
  page.token.process = process =>
    /\ page.token.generation <= generation
    /\ \A m \in Members : /\ Fine(m, page.shown[m], page.token.generation)
                          /\ Fine(m, Soon(m), page.token.generation)

Quiet ==
  /\ page.pc \in {"none", "loaded", "connect"} => page.seen = 0 /\ page.wire.name = "none"
  /\ page.pc # "send" => page.frame.name = "none"
  /\ page.pc \in {"wait", "send"} => page.wire.name # "reset"

WaitHolds ==
  page.pc = "wait" =>
    /\ page.token.process = process
    /\ page.seen <= generation
    /\ \A m \in Members : Fine(m, Soon(m), Begin)

SendHolds ==
  page.pc = "send" /\ page.frame.name # "reset" =>
    /\ page.token.process = process
    /\ Begin <= page.frame.generation /\ page.frame.generation <= generation
    /\ \A m \in Members : Fine(m, Later(m), page.frame.generation)

PInv == Journal /\ PageTyped /\ TokenHolds /\ Quiet /\ WaitHolds /\ SendHolds

(* What is left of the journal without a member.                           *)
LEMMA WithoutOne ==
  ASSUME Typed, Journal, NEW m \in Members
  PROVE  /\ Without(m) \in Seq(Members)
         /\ \A i \in DOMAIN Without(m) : Without(m)[i] # m
         /\ \A n \in Members \ {m} :
              (\E i \in DOMAIN Without(m) : Without(m)[i] = n)
                <=> \E i \in DOMAIN changes : changes[i] = n
         /\ \A i, j \in DOMAIN Without(m) :
              i < j => members[Without(m)[i]].generation < members[Without(m)[j]].generation
<1>0. Len(changes) \in Nat /\ DOMAIN changes = 1..Len(changes)
      /\ \A i \in 1..Len(changes) : changes[i] \in Members
  BY DEF Journal
<1>1. CASE \A i \in DOMAIN changes : changes[i] # m
  BY <1>1 DEF Without, Journal
<1>2. CASE \E i \in DOMAIN changes : changes[i] = m
  <2>1. PICK p \in 1..Len(changes) : p = Place(m) /\ changes[p] = m
    BY <1>0, <1>2 DEF Place
  <2>2. \A i \in 1..Len(changes) : changes[i] = m => i = p
    <3>1. ASSUME NEW i \in 1..Len(changes), changes[i] = m PROVE ~ i < p /\ ~ p < i
      <4>1. members[m].generation \in Nat
        BY DEF Typed, Kept
      <4>2. ~ members[m].generation < members[m].generation
        BY <4>1
      <4>. QED
        BY <1>0, <2>1, <3>1, <4>2 DEF Journal
    <3>. QED
      BY <3>1
  <2>3. PICK w : w = [i \in 1..Len(changes) - 1 |-> changes[IF i < p THEN i ELSE i + 1]]
    OBVIOUS
  <2>4. Without(m) = w
    BY <2>1, <2>3, <1>2 DEF Without
  <2>5. \A i \in 1..Len(changes) - 1 : w[i] = IF i < p THEN changes[i] ELSE changes[i + 1]
    BY <2>3
  <2>6. w \in Seq(Members) /\ DOMAIN w = 1..Len(changes) - 1
    <3>1. \A i \in 1..Len(changes) - 1 : w[i] \in Members
      BY <2>5, <1>0
    <3>2. w \in [1..Len(changes) - 1 -> Members]
      BY <2>3, <3>1
    <3>3. Len(changes) - 1 \in Nat
      BY <2>1, <1>0
    <3>. QED
      BY <3>2, <3>3
  <2>7. \A i \in DOMAIN w : w[i] # m
    BY <2>2, <2>5, <2>6, <1>0
  <2>8. ASSUME NEW n \in Members \ {m}
        PROVE  (\E i \in DOMAIN w : w[i] = n) <=> \E i \in DOMAIN changes : changes[i] = n
    <3>1. ASSUME NEW i \in DOMAIN changes, changes[i] = n PROVE \E k \in DOMAIN w : w[k] = n
      <4>1. CASE i < p
        BY <4>1, <3>1, <2>1, <2>5, <2>6, <1>0
      <4>2. CASE i > p
        <5>1. i - 1 \in 1..Len(changes) - 1 /\ ~ (i - 1 < p) /\ (i - 1) + 1 = i
          BY <4>2, <2>1, <1>0
        <5>2. w[i - 1] = n
          BY <5>1, <2>5, <3>1
        <5>. QED
          BY <5>1, <5>2, <2>6
      <4>. QED
        BY <4>1, <4>2, <3>1, <2>1, <2>8, <1>0
    <3>2. ASSUME NEW i \in DOMAIN w, w[i] = n PROVE \E k \in DOMAIN changes : changes[k] = n
      <4>1. i \in 1..Len(changes) /\ i + 1 \in 1..Len(changes)
        BY <2>6, <1>0
      <4>2. n = changes[i] \/ n = changes[i + 1]
        BY <3>2, <2>5, <2>6
      <4>. QED
        BY <4>1, <4>2, <1>0
    <3>. QED
      BY <3>1, <3>2
  <2>9. ASSUME NEW i \in DOMAIN w, NEW j \in DOMAIN w, i < j
        PROVE  members[w[i]].generation < members[w[j]].generation
    <3>0. i \in 1..Len(changes) - 1 /\ j \in 1..Len(changes) - 1
      BY <2>6
    <3>1. PICK a \in 1..Len(changes) : a = IF i < p THEN i ELSE i + 1
      BY <3>0, <1>0
    <3>2. PICK b \in 1..Len(changes) : b = IF j < p THEN j ELSE j + 1
      BY <3>0, <1>0
    <3>3. w[i] = changes[a] /\ w[j] = changes[b] /\ a < b
      BY <3>0, <3>1, <3>2, <2>5, <2>9, <1>0
    <3>. QED
      BY <3>3, <1>0 DEF Journal
  <2>. QED
    BY <2>4, <2>6, <2>7, <2>8, <2>9
<1>. QED
  BY <1>1, <1>2

(* A member changes: the journal stays in order.                           *)
LEMMA ChangeKeepsJournal ==
  ASSUME Typed, Journal, NEW m \in Members, Change(m), boundary' = boundary,
         members'[m].kept, members'[m].generation = generation',
         \A n \in Members \ {m} : members'[n] = members[n]
  PROVE  Journal' /\ generation' = generation + 1
<1>1. PICK w \in Seq(Members) : w = Without(m)
  BY WithoutOne
<1>2. generation' = generation + 1 /\ changes' = Append(w, m) /\ generation \in Nat
  BY <1>1 DEF Change, Typed
<1>3. /\ \A i \in DOMAIN w : w[i] # m /\ w[i] \in Members
      /\ \A n \in Members \ {m} :
           (\E i \in DOMAIN w : w[i] = n) <=> \E i \in DOMAIN changes : changes[i] = n
      /\ \A i, j \in DOMAIN w : i < j => members[w[i]].generation < members[w[j]].generation
  BY <1>1, WithoutOne
<1>4. /\ changes' \in Seq(Members) /\ DOMAIN changes' = 1..Len(w) + 1
      /\ changes'[Len(w) + 1] = m
      /\ \A i \in 1..Len(w) : changes'[i] = w[i]
      /\ Len(w) \in Nat /\ DOMAIN w = 1..Len(w)
  BY <1>2
<1>5. ASSUME NEW i \in DOMAIN changes', NEW j \in DOMAIN changes', i < j
      PROVE  members'[changes'[i]].generation < members'[changes'[j]].generation
  <2>1. i \in 1..Len(w) /\ changes'[i] = w[i] /\ members'[w[i]] = members[w[i]] /\ w[i] \in Members
    BY <1>5, <1>4, <1>3
  <2>2. members[w[i]].generation <= generation /\ members[w[i]].generation \in Nat
    BY <2>1 DEF Journal, Typed, Kept
  <2>3. CASE j = Len(w) + 1
    BY <2>1, <2>2, <2>3, <1>2, <1>4
  <2>4. CASE j # Len(w) + 1
    <3>1. j \in 1..Len(w) /\ changes'[j] = w[j] /\ members'[w[j]] = members[w[j]]
      BY <2>4, <1>4, <1>3
    <3>. QED
      BY <3>1, <2>1, <1>3, <1>4, <1>5
  <2>. QED
    BY <2>3, <2>4
<1>6. ASSUME NEW n \in Members
      PROVE  /\ members'[n].kept <=> \E i \in DOMAIN changes' : changes'[i] = n
             /\ members'[n].generation <= generation'
             /\ ~ members'[n].kept => members'[n] = Absent
  <2>1. CASE n = m
    BY <2>1, <1>2, <1>4
  <2>2. CASE n # m
    <3>1. (\E i \in DOMAIN changes' : changes'[i] = n) <=> \E i \in DOMAIN w : w[i] = n
      BY <2>2, <1>4
    <3>2. members'[n] = members[n] /\ members[n].generation \in Nat
          /\ members[n].generation <= generation
      BY <2>2 DEF Typed, Kept, Journal
    <3>. QED
      BY <2>2, <3>1, <3>2, <1>2, <1>3 DEF Journal
  <2>. QED
    BY <2>1, <2>2
<1>7. boundary' \in Nat /\ boundary' <= generation'
  BY <1>2 DEF Journal
<1>. QED
  BY <1>2, <1>4, <1>5, <1>6, <1>7 DEF Journal

(* What a step of a stream or a timer does to what a page may show of a    *)
(* member: a change has a new generation, and only who is offline is       *)
(* discarded, which raises the boundary.                                   *)
Moved(m) ==
  \/ members'[m].generation > generation
  \/ /\ members'[m].online = members[m].online
     /\ members'[m].generation = members[m].generation \/ boundary' >= members[m].generation

Moves ==
  /\ Journal'
  /\ generation' \in Nat /\ generation' >= generation /\ boundary' >= boundary
  /\ \A m \in Members : Moved(m)
LEMMA StateMoves ==
  ASSUME IInv, Journal, StreamStep \/ TimerStep
  PROVE  Moves /\ UNCHANGED <<process, page>>
<1>. USE DEF IInv
<1>0. /\ generation \in Nat /\ boundary \in Nat
      /\ \A m \in Members : members[m].generation \in Nat
  BY DEF Typed, Kept, Journal
<1>1. ASSUME changes' = changes, boundary' = boundary, generation' = generation,
             \A m \in Members : /\ members'[m].kept = members[m].kept
                                /\ members'[m].online = members[m].online
                                /\ members'[m].generation = members[m].generation
                                /\ members[m].kept \/ members'[m] = members[m]
      PROVE  Moves
  <2>1. \A i \in DOMAIN changes : changes[i] \in Members
    BY DEF Journal
  <2>2. Journal'
    BY <1>1, <2>1 DEF Journal
  <2>. QED
    BY <1>0, <1>1, <2>2 DEF Moves, Moved
<1>2. ASSUME NEW st \in Streams, NEW m \in Members, Open(st, m) PROVE Moves
  <2>1. /\ members' = [members EXCEPT ![m] =
             [kept |-> TRUE, streams |-> @.streams + 1, timer |-> "none", online |-> TRUE,
              generation |-> IF @.online THEN @.generation ELSE generation']]
        /\ boundary' = boundary
    BY <1>2 DEF Open
  <2>2. \A n \in Members \ {m} : members'[n] = members[n]
    BY <2>1 DEF Typed
  <2>3. CASE members[m].online
    <3>1. members[m].kept
      BY <2>3 DEF Journal, Absent
    <3>2. /\ members'[m].kept = members[m].kept /\ members'[m].online = members[m].online
          /\ members'[m].generation = members[m].generation
      BY <2>1, <2>3, <3>1 DEF Typed, Kept
    <3>3. changes' = changes /\ generation' = generation
      BY <1>2, <2>3 DEF Open
    <3>. QED
      BY <1>1, <2>1, <2>2, <3>1, <3>2, <3>3
  <2>4. CASE ~ members[m].online
    <3>1. Change(m)
      BY <1>2, <2>4 DEF Open
    <3>2. members'[m].kept /\ members'[m].generation = generation'
      BY <2>1, <2>4 DEF Typed, Kept
    <3>3. Journal' /\ generation' = generation + 1
      BY <2>1, <2>2, <3>1, <3>2, ChangeKeepsJournal
    <3>4. \A n \in Members : Moved(n)
      BY <1>0, <2>2, <3>2, <3>3 DEF Moved
    <3>. QED
      BY <1>0, <2>1, <3>3, <3>4 DEF Moves
  <2>. QED
    BY <2>3, <2>4
<1>3. ASSUME NEW st \in Streams, Close(st) PROVE Moves
  <2>1. PICK m \in Members : m = stream[st] /\ members[m].streams > 0
    BY <1>3, CloseCounts
  <2>2. members[m].kept
    BY <2>1 DEF Settled
  <2>3. \/ members' = [members EXCEPT ![m].streams = @ - 1]
        \/ \E t \in Timers : members' = [members EXCEPT ![m].streams = 0, ![m].timer = t]
    BY <1>3, <2>1 DEF Close
  <2>4. /\ members'[m].kept = members[m].kept /\ members'[m].online = members[m].online
        /\ members'[m].generation = members[m].generation
        /\ \A n \in Members \ {m} : members'[n] = members[n]
    BY <2>3 DEF Typed, Kept
  <2>5. UNCHANGED <<changes, boundary, generation>>
    BY <1>3 DEF Close
  <2>. QED
    BY <1>1, <2>2, <2>4, <2>5
<1>4. ASSUME NEW t \in Timers, Fire(t) \/ Superseded(t) PROVE Moves
  <2>1. UNCHANGED <<changes, boundary, generation, members>>
    BY <1>4 DEF Fire, Superseded
  <2>. QED
    BY <1>1, <2>1
<1>5. ASSUME NEW t \in Timers, GoOffline(t) PROVE Moves
  <2>1. PICK m \in Members, d \in Timers :
          /\ members[m].timer = t /\ Change(m)
          /\ members' = [members EXCEPT ![m].online = FALSE, ![m].generation = generation',
                                        ![m].timer = d]
          /\ boundary' = boundary
    BY <1>5 DEF GoOffline, Running, Typed, Alarms, Idle
  <2>2. members[m].kept
    BY <2>1, NamedTimer, PresenceAssumption
  <2>3. /\ members'[m].kept /\ members'[m].generation = generation'
        /\ \A n \in Members \ {m} : members'[n] = members[n]
    BY <2>1, <2>2 DEF Typed, Kept
  <2>4. Journal' /\ generation' = generation + 1
    BY <2>1, <2>3, ChangeKeepsJournal
  <2>5. \A n \in Members : Moved(n)
    BY <1>0, <2>3, <2>4 DEF Moved
  <2>. QED
    BY <1>0, <2>1, <2>4, <2>5 DEF Moves
<1>6. ASSUME NEW t \in Timers, Discard(t) PROVE Moves
  <2>0. PICK m \in Members : m = timer[t].member
    BY <1>6 DEF Discard, Running, Typed, Alarms, Idle
  <2>1.   /\ timer[t].kind = "discard" /\ members[m].timer = t
          /\ boundary' = Bigger(boundary, members[m].generation)
          /\ changes' = Without(m)
          /\ members' = [members EXCEPT ![m] = Absent]
          /\ generation' = generation
    BY <1>6, <2>0 DEF Discard, Running
  <2>2. members[m].kept /\ members[m].streams = 0
    BY <2>1, NamedTimer, PresenceAssumption
  <2>3. members[m].online = FALSE
    BY <2>1, <2>2 DEF DepartureIsDue, Typed, Kept
  <2>4. /\ members'[m] = Absent
        /\ \A n \in Members \ {m} : members'[n] = members[n]
    BY <2>1 DEF Typed
  <2>5. PICK w \in Seq(Members) : w = Without(m)
    BY WithoutOne
  <2>6. /\ \A i \in DOMAIN w : w[i] # m /\ w[i] \in Members
        /\ \A n \in Members \ {m} :
             (\E i \in DOMAIN w : w[i] = n) <=> \E i \in DOMAIN changes : changes[i] = n
        /\ \A i, j \in DOMAIN w : i < j => members[w[i]].generation < members[w[j]].generation
    <3>1. Typed /\ Journal
      OBVIOUS
    <3>2. \A i \in DOMAIN w : w[i] \in Members
      OBVIOUS
    <3>. QED
      BY <2>5, <3>1, <3>2, WithoutOne
  <2>7. changes' = w
    BY <2>1, <2>5
  <2>8. /\ boundary' \in Nat /\ boundary' <= generation' /\ boundary' >= boundary
        /\ boundary' >= members[m].generation
    BY <1>0, <2>1 DEF Bigger, Journal
  <2>9. Journal'
    <3>1. \A i, j \in DOMAIN changes' :
            i < j => members'[changes'[i]].generation < members'[changes'[j]].generation
      BY <2>4, <2>6, <2>7
    <3>2. ASSUME NEW n \in Members
          PROVE  /\ members'[n].kept <=> \E i \in DOMAIN changes' : changes'[i] = n
                 /\ members'[n].generation <= generation'
                 /\ ~ members'[n].kept => members'[n] = Absent
      <4>1. CASE n = m
        BY <4>1, <1>0, <2>1, <2>4, <2>6, <2>7 DEF Absent
      <4>2. CASE n # m
        BY <4>2, <2>1, <2>4, <2>6, <2>7 DEF Journal
      <4>. QED
        BY <4>1, <4>2
    <3>. QED
      BY <2>5, <2>7, <2>8, <3>1, <3>2 DEF Journal
  <2>. QED
    <3>1. ASSUME NEW n \in Members PROVE Moved(n)
      <4>1. CASE n = m
        <5>1. members'[n].online = members[n].online
          <6>1. members'[m].online = FALSE
            BY <2>4 DEF Absent
          <6>. QED
            BY <4>1, <2>3, <6>1, Zenon
        <5>. QED
          BY <4>1, <5>1, <2>8 DEF Moved
      <4>2. CASE n # m
        BY <4>2, <2>4 DEF Moved
      <4>. QED
        BY <4>1, <4>2
    <3>. QED
      BY <1>0, <2>1, <2>8, <2>9, <3>1 DEF Moves
<1>7. UNCHANGED <<process, page>>
  BY DEF StreamStep, TimerStep, Open, Close, Fire, Superseded, GoOffline, Discard
<1>. QED
  BY <1>2, <1>3, <1>4, <1>5, <1>6, <1>7 DEF StreamStep, TimerStep

LEMMA StateKeepsPage ==
  ASSUME IInv, PInv, StreamStep \/ TimerStep
  PROVE  PInv'
<1>1. Moves /\ page' = page /\ process' = process
  BY StateMoves DEF PInv
<1>2. generation \in Nat /\ boundary \in Nat /\ \A m \in Members : members[m].generation \in Nat
  BY DEF IInv, Typed, Kept, PInv, Journal
<1>3. IInv'
  BY OpenPreserves, ClosePreserves, TimerPreserves DEF StreamStep, TimerStep
<1>4. boundary' \in Nat /\ generation' \in Nat /\ generation <= generation'
      /\ \A m \in Members : members'[m].generation \in Nat
  BY <1>1, <1>2, <1>3 DEF Moves, Journal, IInv, Typed, Kept
<1>5. ASSUME NEW m \in Members, NEW v, NEW b \in Nat, b <= generation,
             v = members[m].online \/ members[m].generation > b \/ boundary > b
      PROVE  v = members'[m].online \/ members'[m].generation > b \/ boundary' > b
  BY <1>1, <1>2, <1>4, <1>5 DEF Moves, Moved
<1>6. page.token.generation \in Nat /\ page.seen \in Nat /\ page.frame.generation \in Nat
  BY DEF PInv, PageTyped
<1>7. TokenHolds'
  <2>. SUFFICES ASSUME page.token.process = process
       PROVE  /\ page.token.generation <= generation'
              /\ \A m \in Members : Fine(m, page.shown[m], page.token.generation)'
                                    /\ Fine(m, Soon(m), page.token.generation)'
    BY <1>1 DEF TokenHolds, Fine, Soon, Applied
  <2>1. page.token.generation <= generation
    BY DEF PInv, TokenHolds
  <2>2. ASSUME NEW m \in Members PROVE Fine(m, page.shown[m], page.token.generation)'
    <3>1. Fine(m, page.shown[m], page.token.generation)
      BY DEF PInv, TokenHolds
    <3>. QED
      BY <1>1, <1>5, <1>6, <2>1, <3>1 DEF Fine
  <2>3. ASSUME NEW m \in Members PROVE Fine(m, Soon(m), page.token.generation)'
    <3>1. Fine(m, Soon(m), page.token.generation)
      BY DEF PInv, TokenHolds
    <3>2. Soon(m)' = Soon(m)
      BY <1>1 DEF Soon, Applied
    <3>. QED
      BY <1>1, <1>5, <1>6, <2>1, <3>1, <3>2 DEF Fine
  <2>. QED
    BY <1>4, <1>6, <1>2, <2>1, <2>2, <2>3
<1>8. WaitHolds'
  <2>. SUFFICES ASSUME page.pc = "wait" PROVE WaitHolds'
    BY <1>1 DEF WaitHolds
  <2>1. page.token.process = process /\ page.seen <= generation /\ page.token.generation <= generation
    BY DEF PInv, WaitHolds, TokenHolds
  <2>2. Begin \in Nat /\ Begin <= generation /\ Begin' = Begin
    BY <1>1, <1>2, <1>6, <2>1 DEF Begin, Bigger
  <2>3. ASSUME NEW m \in Members PROVE Fine(m, Soon(m), Begin)'
    <3>1. Fine(m, Soon(m), Begin)
      BY DEF PInv, WaitHolds
    <3>2. Soon(m)' = Soon(m)
      BY <1>1 DEF Soon, Applied
    <3>. QED
      BY <1>1, <1>5, <1>6, <2>2, <3>1, <3>2 DEF Fine
  <2>. QED
    BY <1>1, <1>4, <1>6, <1>2, <2>1, <2>3 DEF WaitHolds
<1>9. SendHolds'
  <2>. SUFFICES ASSUME page.pc = "send", page.frame.name # "reset" PROVE SendHolds'
    BY <1>1 DEF SendHolds
  <2>1. /\ page.token.process = process
        /\ Begin <= page.frame.generation /\ page.frame.generation <= generation
    BY DEF PInv, SendHolds
  <2>2. Begin' = Begin
    BY <1>1 DEF Begin
  <2>3. ASSUME NEW m \in Members PROVE Fine(m, Later(m), page.frame.generation)'
    <3>1. Fine(m, Later(m), page.frame.generation)
      BY DEF PInv, SendHolds
    <3>2. Later(m)' = Later(m)
      BY <1>1 DEF Later, Soon, Applied
    <3>. QED
      BY <1>1, <1>5, <1>6, <2>1, <3>1, <3>2 DEF Fine
  <2>. QED
    BY <1>1, <1>4, <1>6, <1>2, <2>1, <2>2, <2>3 DEF SendHolds
<1>10. PageTyped' /\ Quiet'
  BY <1>1 DEF PInv, PageTyped, Quiet
<1>. QED
  BY <1>1, <1>7, <1>8, <1>9, <1>10 DEF PInv, Moves

(* A page that is cut off keeps its token and what it shows.               *)
LEMMA CutKeepsPage ==
  ASSUME PInv, page' = Cut, UNCHANGED state
  PROVE  PInv'
<1>1. /\ page.token' = page.token /\ page.shown' = page.shown
      /\ page' = [pc |-> page'.pc, shown |-> page'.shown, token |-> page'.token,
                  seen |-> page'.seen, frame |-> page'.frame, wire |-> page'.wire]
      /\ \/ page' = page
         \/ /\ page'.pc = "loaded" /\ page'.seen = 0
            /\ page'.frame = NoFrame /\ page'.wire = NoFrame
  BY DEF Cut, PInv, PageTyped
<1>2. Journal' /\ PageTyped'
  <2>1. Journal'
    BY DEF PInv, Journal, state
  <2>2. page'.frame.generation \in Nat /\ page'.seen \in Nat
    BY <1>1 DEF PInv, PageTyped, NoFrame
  <2>. QED
    BY <1>1, <2>1, <2>2 DEF PInv, PageTyped, state
<1>3. CASE page' = page
  BY <1>2, <1>3 DEF PInv, state, TokenHolds, Quiet, WaitHolds, SendHolds, Fine, Soon, Later,
                    Begin, Bigger, Applied
<1>4. CASE page'.pc = "loaded" /\ page'.seen = 0 /\ page'.frame = NoFrame /\ page'.wire = NoFrame
  <2>1. page'.frame.name = "none" /\ page'.wire.name = "none"
    BY <1>4 DEF NoFrame
  <2>2. TokenHolds'
    BY <1>1, <2>1 DEF PInv, state, TokenHolds, Fine, Soon, Applied
  <2>3. Quiet' /\ WaitHolds' /\ SendHolds'
    BY <1>4, <2>1 DEF Quiet, WaitHolds, SendHolds
  <2>. QED
    BY <1>2, <2>2, <2>3 DEF PInv
<1>. QED
  BY <1>1, <1>3, <1>4

LEMMA RestartKeepsPage ==
  ASSUME PInv, Restart
  PROVE  PInv'
<1>1. /\ process' = process + 1 /\ page' = Cut
      /\ generation' = 0 /\ boundary' = 0 /\ changes' = <<>>
      /\ members' = [m \in Members |-> Absent]
  BY DEF Restart
<1>2. Journal'
  BY <1>1 DEF Journal, Absent
<1>3. /\ page.token' = page.token
      /\ page' = [pc |-> page'.pc, shown |-> page'.shown, token |-> page'.token,
                  seen |-> page'.seen, frame |-> page'.frame, wire |-> page'.wire]
      /\ page'.shown = page.shown
      /\ \/ page' = page /\ page.pc \notin {"wait", "send"}
         \/ /\ page'.pc = "loaded" /\ page'.seen = 0
            /\ page'.frame = NoFrame /\ page'.wire = NoFrame
  BY <1>1 DEF Cut, Connected, PInv, PageTyped
<1>4. page'.pc \notin {"wait", "send"} /\ page'.frame.generation \in Nat /\ page'.seen \in Nat
  BY <1>3 DEF PInv, PageTyped, NoFrame
<1>5. page'.token.process # process'
  BY <1>1, <1>3 DEF PInv, PageTyped
<1>6. PageTyped'
  BY <1>1, <1>3, <1>4 DEF PInv, PageTyped
<1>7. Quiet'
  BY <1>3, <1>4 DEF PInv, Quiet, NoFrame
<1>. QED
  BY <1>2, <1>4, <1>5, <1>6, <1>7 DEF PInv, TokenHolds, WaitHolds, SendHolds

LEMMA LoadKeepsPage == ASSUME IInv, PInv, Load PROVE PInv'
<1>1. /\ page' = [pc |-> "loaded", shown |-> Online, token |-> Token,
                  seen |-> 0, frame |-> NoFrame, wire |-> NoFrame]
      /\ UNCHANGED <<process, generation, boundary, changes, members>>
  BY DEF Load, state
<1>2. Journal'
  BY <1>1 DEF PInv, Journal
<1>3. PageTyped'
  <2>1. process \in Nat /\ generation \in Nat
    BY DEF PInv, PageTyped, IInv, Typed
  <2>. QED
    BY <1>1, <2>1 DEF PageTyped, Online, Token, NoFrame
<1>4. page'.wire.name = "none" /\ page'.frame.name = "none" /\ page'.pc = "loaded" /\ page'.seen = 0
  BY <1>1 DEF NoFrame
<1>5. TokenHolds'
  <2>1. page'.token.generation = generation /\ generation \in Nat
    BY <1>1 DEF Token, IInv, Typed
  <2>2. \A m \in Members : page'.shown[m] = members'[m].online
    BY <1>1 DEF Online
  <2>. QED
    BY <1>1, <1>4, <2>1, <2>2 DEF TokenHolds, Fine, Soon, Applied
<1>. QED
  BY <1>2, <1>3, <1>4, <1>5 DEF PInv, Quiet, WaitHolds, SendHolds

LEMMA ConnectKeepsPage == ASSUME PInv, Connect PROVE PInv'
<1>1. /\ page.pc = "loaded" /\ page'.pc = "connect"
      /\ page' = [pc |-> page'.pc, shown |-> page.shown, token |-> page.token, seen |-> page.seen,
                  frame |-> page.frame, wire |-> page.wire]
      /\ UNCHANGED <<process, generation, boundary, changes, members>>
  BY DEF Connect, state, PInv, PageTyped
<1>2. Journal' /\ PageTyped'
  BY <1>1 DEF PInv, Journal, PageTyped
<1>3. TokenHolds'
  BY <1>1 DEF PInv, TokenHolds, Fine, Soon, Applied
<1>4. Quiet' /\ WaitHolds' /\ SendHolds'
  BY <1>1 DEF PInv, Quiet, WaitHolds, SendHolds
<1>. QED
  BY <1>2, <1>3, <1>4 DEF PInv

(* A frame that After answers with brings the page up to date: whoever is  *)
(* not in it has not changed since start.                                  *)
LEMMA AfterIsComplete ==
  ASSUME IInv, PInv, NEW start, start.generation \in Nat, NEW m \in Members, NEW v,
         After(start).name # "reset",
         v = members[m].online \/ members[m].generation > start.generation
           \/ boundary > start.generation
  PROVE  /\ Applied(After(start), m, v) = members[m].online
         /\ start.process = process
<1>1. /\ start.process = process /\ ~ start.generation < boundary
      /\ After(start) =
           LET changed == {changes[i] : i \in Suffix(start.generation)}
           IN [name       |-> IF changed = {} THEN "none" ELSE "presence",
               entries    |-> [n \in changed |-> members[n].online],
               generation |-> generation]
  BY DEF After
<1>2. CASE members[m].generation > start.generation
  <2>1. members[m].kept
    BY <1>2 DEF PInv, Journal, Absent
  <2>2. PICK i \in DOMAIN changes : changes[i] = m
    BY <2>1 DEF PInv, Journal
  <2>3. i \in Suffix(start.generation)
    <3>1. ASSUME NEW j \in i..Len(changes) PROVE members[changes[j]].generation > start.generation
      <4>1. j \in DOMAIN changes /\ changes[j] \in Members /\ i \in Nat /\ j \in Nat
        BY <2>2 DEF PInv, Journal
      <4>2. members[changes[j]].generation \in Nat /\ members[m].generation \in Nat
        BY <4>1 DEF IInv, Typed, Kept
      <4>3. i = j \/ members[m].generation < members[changes[j]].generation
        BY <2>2, <4>1 DEF PInv, Journal
      <4>. QED
        BY <1>2, <2>2, <4>2, <4>3
    <3>. QED
      BY <3>1 DEF Suffix
  <2>4. After(start).name = "presence" /\ m \in DOMAIN After(start).entries
        /\ After(start).entries[m] = members[m].online
    BY <1>1, <2>2, <2>3
  <2>. QED
    BY <1>1, <2>4 DEF Applied
<1>3. CASE ~ members[m].generation > start.generation
  <2>1. v = members[m].online
    BY <1>1, <1>3 DEF PInv, Journal
  <2>2. m \in DOMAIN After(start).entries => After(start).entries[m] = members[m].online
    BY <1>1
  <2>. QED
    BY <1>1, <2>1, <2>2 DEF Applied
<1>. QED
  BY <1>2, <1>3
LEMMA ReadKeepsPage == ASSUME IInv, PInv, Read PROVE PInv'
<1>0. PICK start : start = [page.token EXCEPT !.generation = Bigger(@, page.seen)]
  OBVIOUS
<1>1. start.generation = Begin /\ start.process = page.token.process /\ Begin \in Nat
  BY <1>0 DEF PInv, PageTyped, Begin, Bigger
<1>2. PICK frame : frame = After(start)
  OBVIOUS
<1>3. /\ page.pc = "connect" \/ page.pc = "wait"
      /\ page' = IF frame.name = "none"
                 THEN [page EXCEPT !.pc = "wait", !.seen = Bigger(@, frame.generation)]
                 ELSE [page EXCEPT !.pc = "send", !.frame = frame]
  BY <1>0, <1>2 DEF Read
<1>u. UNCHANGED <<process, generation, boundary, changes, members>>
  BY DEF Read, state
<1>p. page = [pc |-> page.pc, shown |-> page.shown, token |-> page.token, seen |-> page.seen,
             frame |-> page.frame, wire |-> page.wire] /\ page.seen \in Nat
  BY DEF PInv, PageTyped
<1>4. frame.generation = generation /\ generation \in Nat /\ frame.name \in {"none", "presence", "reset"}
  BY <1>2 DEF After, IInv, Typed
<1>5. page.wire.name # "reset"
  BY <1>3 DEF PInv, Quiet
<1>6. ASSUME frame.name # "reset"
      PROVE  /\ page.token.process = process
             /\ page.token.generation <= generation /\ page.seen <= generation
             /\ \A m \in Members : Applied(frame, m, Soon(m)) = members[m].online
  <2>1. page.token.process = process
    BY <1>1, <1>2, <1>6 DEF After
  <2>2. page.token.generation <= generation
    BY <2>1 DEF PInv, TokenHolds
  <2>3. page.seen <= generation
    BY <1>3, <1>4 DEF PInv, Quiet, WaitHolds
  <2>4. ASSUME NEW m \in Members PROVE Applied(frame, m, Soon(m)) = members[m].online
    <3>1. Fine(m, Soon(m), Begin)
      <4>1. CASE page.pc = "wait"
        BY <4>1 DEF PInv, WaitHolds
      <4>2. CASE page.pc = "connect"
        <5>1. Begin = page.token.generation
          BY <4>2 DEF PInv, Quiet, PageTyped, Begin, Bigger
        <5>. QED
          BY <5>1, <2>1 DEF PInv, TokenHolds
      <4>. QED
        BY <4>1, <4>2, <1>3
    <3>2. \/ Soon(m) = members[m].online
          \/ members[m].generation > start.generation
          \/ boundary > start.generation
      BY <3>1, <1>1 DEF Fine
    <3>. QED
      BY <3>2, <1>1, <1>2, <1>6, AfterIsComplete
  <2>. QED
    BY <2>1, <2>2, <2>3, <2>4
<1>7. CASE frame.name = "none"
  <2>1. /\ page' = [pc |-> "wait", shown |-> page.shown, token |-> page.token,
                    seen |-> generation, frame |-> page.frame, wire |-> page.wire]
    <3>1. Bigger(page.seen, frame.generation) = generation
      BY <1>4, <1>6, <1>7, <1>p DEF Bigger
    <3>2. page' = [page EXCEPT !.pc = "wait", !.seen = generation]
      BY <1>3, <1>7, <3>1
    <3>. QED
      BY <1>p, <3>2
  <2>2. \A m \in Members : Soon(m) = members[m].online
    BY <1>6, <1>7 DEF Applied
  <2>3. Journal' /\ PageTyped'
    BY <1>u, <1>4, <2>1 DEF PInv, Journal, PageTyped
  <2>4. TokenHolds'
    BY <1>u, <2>1 DEF PInv, TokenHolds, Fine, Soon, Applied
  <2>5. Quiet' /\ SendHolds'
    <3>1. page.frame.name = "none"
      BY <1>3 DEF PInv, Quiet
    <3>. QED
      BY <1>5, <2>1, <3>1 DEF Quiet, SendHolds
  <2>6. WaitHolds'
    <3>1. \A m \in Members : Soon(m)' = Soon(m)
      BY <2>1 DEF Soon, Applied
    <3>2. \A m \in Members : Fine(m, Soon(m), Begin)'
      BY <1>u, <2>2, <3>1 DEF Fine
    <3>. QED
      BY <1>u, <1>4, <1>6, <1>7, <2>1, <3>2 DEF WaitHolds
  <2>. QED
    BY <2>3, <2>4, <2>5, <2>6 DEF PInv
<1>8. CASE frame.name # "none"
  <2>1. /\ page' = [pc |-> "send", shown |-> page.shown, token |-> page.token,
                    seen |-> page.seen, frame |-> frame, wire |-> page.wire]
    <3>1. page' = [page EXCEPT !.pc = "send", !.frame = frame]
      BY <1>3, <1>8
    <3>. QED
      BY <1>p, <3>1
  <2>3. Journal' /\ PageTyped'
    BY <1>u, <1>4, <2>1 DEF PInv, Journal, PageTyped
  <2>4. TokenHolds'
    BY <1>u, <2>1 DEF PInv, TokenHolds, Fine, Soon, Applied
  <2>5. Quiet' /\ WaitHolds'
    BY <1>u, <1>5, <2>1 DEF Quiet, WaitHolds
  <2>6. SendHolds'
    <3>. SUFFICES ASSUME frame.name # "reset" PROVE SendHolds'
      BY <2>1 DEF SendHolds
    <3>1. \A m \in Members : Later(m)' = Applied(frame, m, Soon(m))
      BY <2>1 DEF Later, Soon, Applied
    <3>2. \A m \in Members : Fine(m, Later(m), page.frame.generation)'
      BY <1>u, <1>6, <3>1, <2>1 DEF Fine
    <3>3. Begin' <= generation
      BY <1>6, <2>1 DEF Begin, Bigger
    <3>. QED
      BY <1>u, <1>4, <1>6, <2>1, <3>2, <3>3 DEF SendHolds
  <2>. QED
    BY <2>3, <2>4, <2>5, <2>6 DEF PInv
<1>. QED
  BY <1>7, <1>8

LEMMA SendKeepsPage == ASSUME IInv, PInv, Send PROVE PInv'
<1>1. /\ page.pc = "send" /\ page.wire.name = "none"
      /\ UNCHANGED <<process, generation, boundary, changes, members>>
      /\ page' = [pc |-> IF page.frame.name = "reset" THEN "ended" ELSE "wait",
                  shown |-> page.shown, token |-> page.token,
                  seen |-> Bigger(page.seen, page.frame.generation),
                  frame |-> NoFrame, wire |-> page.frame]
  BY DEF Send, state, PInv, PageTyped
<1>2. /\ page.frame.generation \in Nat /\ page.seen \in Nat /\ page.token.generation \in Nat
      /\ generation \in Nat /\ boundary \in Nat
      /\ \A m \in Members : members[m].generation \in Nat
  BY DEF PInv, PageTyped, IInv, Typed, Kept, Journal
<1>3. Journal' /\ PageTyped'
  BY <1>1, <1>2 DEF PInv, Journal, PageTyped, Bigger, NoFrame
<1>4. \A m \in Members : /\ Soon(m) = page.shown[m]
                         /\ Soon(m)' = Later(m)
  BY <1>1 DEF Soon, Later, Applied
<1>5. CASE page.frame.name = "reset"
  <2>1. \A m \in Members : Later(m) = page.shown[m]
    BY <1>4, <1>5 DEF Later, Applied
  <2>2. TokenHolds'
    BY <1>1, <1>4, <2>1 DEF PInv, TokenHolds, Fine
  <2>3. Quiet' /\ WaitHolds' /\ SendHolds'
    BY <1>1, <1>5 DEF Quiet, WaitHolds, SendHolds, NoFrame
  <2>. QED
    BY <1>3, <2>2, <2>3 DEF PInv
<1>6. CASE page.frame.name # "reset"
  <2>1. /\ page.token.process = process
        /\ page.token.generation <= page.frame.generation /\ page.seen <= page.frame.generation
        /\ page.frame.generation <= generation
    BY <1>1, <1>2, <1>6 DEF PInv, SendHolds, Begin, Bigger
  <2>2. \A m \in Members : Fine(m, Later(m), page.frame.generation)
    BY <1>1, <1>6 DEF PInv, SendHolds
  <2>3. \A m \in Members : Fine(m, Later(m), page.token.generation)
    BY <1>2, <2>1, <2>2 DEF Fine
  <2>4. TokenHolds'
    BY <1>1, <1>4, <2>3 DEF PInv, TokenHolds, Fine
  <2>5. WaitHolds'
    <3>1. Begin' = page.frame.generation /\ page'.seen = page.frame.generation
      BY <1>1, <1>2, <2>1 DEF Begin, Bigger
    <3>2. \A m \in Members : Fine(m, Soon(m), Begin)'
      BY <1>1, <1>4, <2>2, <3>1 DEF Fine
    <3>. QED
      BY <1>1, <2>1, <3>1, <3>2 DEF WaitHolds
  <2>6. Quiet' /\ SendHolds'
    BY <1>1, <1>6 DEF Quiet, SendHolds, NoFrame
  <2>. QED
    BY <1>3, <2>4, <2>5, <2>6 DEF PInv
<1>. QED
  BY <1>5, <1>6

LEMMA ReceiveKeepsPage == ASSUME PInv, Receive PROVE PInv'
<1>1. /\ page.wire.name = "presence"
      /\ UNCHANGED <<process, generation, boundary, changes, members>>
      /\ page' = [pc |-> page.pc, shown |-> [m \in Members |-> Soon(m)], token |-> page.token,
                  seen |-> page.seen, frame |-> page.frame, wire |-> NoFrame]
  BY DEF Receive, state, PInv, PageTyped, Soon, Applied
<1>2. Journal' /\ PageTyped'
  BY <1>1 DEF PInv, Journal, PageTyped
<1>3. \A m \in Members : page'.shown[m] = Soon(m) /\ Soon(m)' = Soon(m) /\ Later(m)' = Later(m)
  BY <1>1 DEF Soon, Later, Applied, NoFrame
<1>4. TokenHolds'
  BY <1>1, <1>3 DEF PInv, TokenHolds, Fine
<1>5. WaitHolds' /\ SendHolds'
  <2>1. Begin' = Begin
    BY <1>1 DEF Begin
  <2>2. WaitHolds'
    BY <1>1, <1>3, <2>1 DEF PInv, WaitHolds, Fine
  <2>3. SendHolds'
    BY <1>1, <1>3, <2>1 DEF PInv, SendHolds, Fine
  <2>. QED
    BY <2>2, <2>3
<1>6. Quiet'
  BY <1>1 DEF PInv, Quiet, NoFrame
<1>. QED
  BY <1>2, <1>4, <1>5, <1>6 DEF PInv

LEMMA ResetKeepsPage == ASSUME PInv, ReceiveReset PROVE PInv'
<1>1. /\ page.wire.name = "reset" /\ page.pc \notin {"wait", "send"}
      /\ UNCHANGED <<process, generation, boundary, changes, members>>
      /\ page' = [pc |-> "reset", shown |-> page.shown, token |-> page.token,
                  seen |-> page.seen, frame |-> page.frame, wire |-> NoFrame]
  BY DEF ReceiveReset, state, PInv, PageTyped, Quiet
<1>2. Journal' /\ PageTyped'
  BY <1>1 DEF PInv, Journal, PageTyped
<1>3. TokenHolds'
  BY <1>1 DEF PInv, TokenHolds, Fine, Soon, Applied, NoFrame
<1>4. Quiet' /\ WaitHolds' /\ SendHolds'
  BY <1>1 DEF PInv, Quiet, WaitHolds, SendHolds
<1>. QED
  BY <1>2, <1>3, <1>4 DEF PInv

LEMMA InitPage == Init => PInv
<1>. SUFFICES ASSUME Init PROVE PInv
  OBVIOUS
<1>1. Journal
  BY DEF Init, Journal, Absent
<1>2. PageTyped
  BY DEF Init, PageTyped, Online, Token, NoFrame
<1>3. TokenHolds
  BY DEF Init, TokenHolds, Token, Online, Fine, Soon, Applied, NoFrame
<1>4. Quiet /\ WaitHolds /\ SendHolds
  BY DEF Init, Quiet, WaitHolds, SendHolds, NoFrame
<1>. QED
  BY <1>1, <1>2, <1>3, <1>4 DEF PInv

LEMMA PageInductive == Spec => []PInv
<1>1. IInv /\ PInv /\ [Next]_vars => PInv'
  <2>. SUFFICES ASSUME IInv, PInv, [Next]_vars PROVE PInv'
    OBVIOUS
  <2>1. CASE StreamStep \/ TimerStep
    BY <2>1, StateKeepsPage
  <2>2. CASE PageStep
    <3>1. CASE Break
      BY <3>1, CutKeepsPage DEF Break
    <3>. QED
      BY <2>2, <3>1, LoadKeepsPage, ConnectKeepsPage, ReadKeepsPage, SendKeepsPage,
         ReceiveKeepsPage, ResetKeepsPage DEF PageStep
  <2>3. CASE Restart
    BY <2>3, RestartKeepsPage
  <2>4. CASE UNCHANGED vars
    BY <2>4 DEF vars, state, PInv, Journal, PageTyped, TokenHolds, Quiet, WaitHolds, SendHolds,
                Fine, Soon, Later, Begin, Bigger, Applied
  <2>. QED
    BY <2>1, <2>2, <2>3, <2>4 DEF Next
<1>. QED
  BY <1>1, Inductive, InitPage, PTL DEF Spec

(* A page whose stream waits with nothing newer to see shows who is        *)
(* online, for any members, streams and cap on a frame (presence.go:155-203;*)
(* web/presence.go:37-53).                                                 *)
THEOREM PageStaysCurrent == Spec => []PageIsCurrent
<1>1. IInv /\ PInv => PageIsCurrent
  <2>. SUFFICES ASSUME IInv, PInv, page.pc = "wait", page.seen = generation,
                       page.wire.name = "none"
       PROVE  page.shown = Online
    BY DEF PageIsCurrent
  <2>1. Begin = generation
    BY DEF PInv, PageTyped, WaitHolds, TokenHolds, Begin, Bigger, IInv, Typed
  <2>2. ASSUME NEW m \in Members PROVE page.shown[m] = members[m].online
    <3>1. Fine(m, page.shown[m], generation)
      BY <2>1 DEF PInv, WaitHolds, Soon, Applied
    <3>2. ~ members[m].generation > generation /\ ~ boundary > generation
      BY DEF PInv, Journal, IInv, Typed, Kept
    <3>. QED
      BY <3>1, <3>2 DEF Fine
  <2>. QED
    BY <2>2 DEF PInv, PageTyped, Online
<1>. QED
  BY <1>1, Inductive, PageInductive, PTL

(* The counts count the streams, the generation is within its bound, and   *)
(* the journal is in the order of generations and holds everybody who is   *)
(* kept once.                                                              *)
THEOREM TypeCorrect == Spec => []TypeOK
<1>. DEFINE Bounded == generation <= MaxGeneration
<1>1. Init => Bounded
  BY PresenceAssumption DEF Init
<1>2. IInv /\ Bounded /\ [Next]_vars => Bounded'
  <2>. SUFFICES ASSUME IInv, Bounded, [Next]_vars PROVE Bounded'
    OBVIOUS
  <2>1. generation' = generation \/ generation' = 0 \/ (generation < MaxGeneration /\ generation' = generation + 1)
    BY DEF Next, StreamStep, TimerStep, PageStep, Open, Close, Change, Fire, Superseded, GoOffline, Discard, Load,
       Connect, Read, Send, Receive, ReceiveReset, Break, Restart, state, vars
  <2>. QED
    BY <2>1, PresenceAssumption DEF IInv, Typed
<1>3. IInv /\ PInv /\ Bounded => TypeOK
  <2>. SUFFICES ASSUME IInv, PInv, Bounded PROVE TypeOK
    OBVIOUS
  <2>1. generation \in 0..MaxGeneration /\ boundary \in 0..generation
    BY PresenceAssumption DEF IInv, Typed, PInv, Journal
  <2>2. \A m \in Members :
          /\ members[m].streams = Cardinality({st \in Streams : stream[st] = m})
          /\ members[m].timer \in Timers \cup {"none"}
          /\ members[m].kept <=> \E i \in DOMAIN changes : changes[i] = m
    BY DEF IInv, Typed, Counted, OpenOf, Kept, PInv, Journal
  <2>. QED
    BY <2>1, <2>2 DEF IInv, Typed, PInv, Journal, PageTyped, TypeOK
<1>. QED
  BY <1>1, <1>2, <1>3, Inductive, PageInductive, PTL DEF Spec
=============================================================================
