------------------------------- MODULE Typing -------------------------------
(***************************************************************************)
(* Who is typing in one channel of an organisation (internal/typing), and  *)
(* a page that shows it for one topic or for the channel's feed.           *)
(*                                                                         *)
(* A signal carries the composer it was typed in and the time its handling *)
(* began; authorization lies between that and the state's lock. An         *)
(* accepted signal shows its member until its timer expires, the member    *)
(* posts, or the last stream of the member closes. A post also closes its  *)
(* composer for a while, against signals still on their way. Every step    *)
(* holds the lock, the hub's raise included, so the hub's level is the     *)
(* generation. A timer fires no earlier than it is due, and may have fired *)
(* and be waiting for the lock when somebody stops it. Times are kept as   *)
(* what is left of a timer and as the age of a signal.                     *)
(***************************************************************************)
EXTENDS Naturals, Sequences, FiniteSets

CONSTANTS
  Members, Topics, Feed,
  Composers, Scope,            \* Scope[c]: the member and topic c was issued for
  Timers, Closures,            \* expiry timers and closures that exist at once
  Requests,                    \* signals handled at once
  Names, Candidates,           \* how many a page names, how many a summary keeps
  Expiry, SignalDeadline, ClosedRetention,
  None,
  Pages,                       \* the viewers and places to look at
  MaxStreams, MaxGeneration    \* bounds of the model

ASSUME TypingAssumption ==
  /\ IsFiniteSet(Members) /\ IsFiniteSet(Topics) /\ Feed \notin Topics
  /\ Scope \in [Composers -> [member: Members, topic: Topics]]
  /\ None \notin Timers /\ None \notin Closures /\ None \notin Members
  /\ Names \in Nat /\ Candidates \in Nat /\ Candidates = Names + 1
  /\ Expiry \in Nat /\ SignalDeadline \in Nat /\ ClosedRetention \in Nat
  /\ SignalDeadline < ClosedRetention
  /\ Pages \subseteq [viewer: Members \cup {None}, place: Topics \cup {Feed}]
  /\ MaxStreams \in Nat /\ MaxGeneration \in Nat

VARIABLES
  streams,     \* accepted channel streams of each member
  expiry,      \* the timer of each member's activity in each topic
  timer,       \* the expiry timers
  generation,  \* of the organisation
  summary,     \* of each topic and of the feed
  closed,      \* the closure of each composer
  closure,     \* the closures with their timers
  signal,      \* signals that are being handled
  page         \* a page: whose, of which place, what it acknowledged and shows

activityVars == <<expiry, timer, generation, summary>>
closureVars == <<closed, closure>>
vars == <<streams, activityVars, closureVars, signal, page>>

Places == Topics \cup {Feed}
Idle == [pc |-> "idle"]
Timer == [pc: {"armed", "fired"}, member: Members, topic: Topics, left: 0..Expiry]
Closure == [pc: {"armed", "fired"}, composer: Composers, left: 0..ClosedRetention]
Signals == [pc: {"handled"}, composer: Composers, age: 0..SignalDeadline + 1, late: BOOLEAN]
Summary == [generation: Nat, activity: [Members -> Nat], starts: Seq(Members)]


TypeOK ==
  /\ streams \in [Members -> Nat]
  /\ expiry \in [Members -> [Topics -> Timers \cup {None}]]
  /\ timer \in [Timers -> Timer \cup {Idle}]
  /\ generation \in Nat
  /\ summary \in [Places -> Summary]
  /\ closed \in [Composers -> Closures \cup {None}]
  /\ closure \in [Closures -> Closure \cup {Idle}]
  /\ signal \in [Requests -> Signals \cup {Idle}]
  /\ page \in [viewer: Members \cup {None}, place: Places, seen: Nat, read: BOOLEAN,
               names: Seq(Members), remaining: Nat]

Init ==
  /\ generation = 0
  /\ streams = [m \in Members |-> 0]
  /\ expiry = [m \in Members |-> [t \in Topics |-> None]]
  /\ timer = [x \in Timers |-> Idle]
  /\ summary = [p \in Places |-> [generation |-> 0, activity |-> [m \in Members |-> 0], starts |-> <<>>]]
  /\ closed = [c \in Composers |-> None]
  /\ closure = [x \in Closures |-> Idle]
  /\ signal = [r \in Requests |-> Idle]
  /\ \E p \in Pages : page = [viewer |-> p.viewer, place |-> p.place, seen |-> 0, read |-> FALSE,
                            names |-> <<>>, remaining |-> 0]

Active(m, t) == summary[t].activity[m] > 0

(***************************************************************************)
(* Summaries. A summary changes generation only with its set of members.   *)
(***************************************************************************)
Started(s, m, g) ==
  IF s.activity[m] > 0
  THEN [s EXCEPT !.activity[m] = @ + 1]
  ELSE [generation |-> g, activity |-> [s.activity EXCEPT ![m] = 1], starts |-> <<m>> \o s.starts]

(* A member is in a list at most once. *)
Without(starts, m) ==
  IF \A i \in DOMAIN starts : starts[i] # m THEN starts
  ELSE LET at == CHOOSE i \in DOMAIN starts : starts[i] = m
       IN  [i \in 1..Len(starts) - 1 |-> starts[IF i < at THEN i ELSE i + 1]]

(* Mutant: the feed forgets a member with the first of its topics.         *)
StoppedForAll(s, m, n, g) ==
  [generation |-> g, activity |-> [s.activity EXCEPT ![m] = 0], starts |-> Without(s.starts, m)]

(* n of the member's activities end.                                       *)
Stopped(s, m, n, g) ==
  IF s.activity[m] > n
  THEN [s EXCEPT !.activity[m] = @ - n]
  ELSE [generation |-> g, activity |-> [s.activity EXCEPT ![m] = 0], starts |-> Without(s.starts, m)]

Min2(a, b) == IF a < b THEN a ELSE b
First(seq, n) == SubSeq(seq, 1, Min2(n, Len(seq)))

(* Mutant: the viewer takes the place of a name.                           *)
ReadThenFilter(p, viewer) ==
  LET names == Without(First(summary[p].starts, Names), viewer)
      others == Cardinality({m \in Members : summary[p].activity[m] > 0 /\ m # viewer})
  IN  [names |-> names, remaining |-> others - Len(names)]

(* What a viewer sees of a place: the newest of the candidates, without    *)
(* the viewer, and how many more there are.                                *)
Read(p, viewer) ==
  LET names == First(Without(First(summary[p].starts, Candidates), viewer), Names)
      others == Cardinality({m \in Members : summary[p].activity[m] > 0 /\ m # viewer})
  IN  [names |-> names, remaining |-> others - Len(names)]

(***************************************************************************)
(* Activity.                                                               *)
(***************************************************************************)
(* A stopped timer that has fired is still to wait for the lock.           *)
Halted(x) == IF timer[x].pc = "armed" THEN Idle ELSE timer[x]

(* The member's timer in the topic is replaced by one due an Expiry later. *)
Refresh(m, t) ==
  LET old == expiry[m][t]
      halted == IF old = None THEN timer ELSE [timer EXCEPT ![old] = Halted(old)]
  IN  \E x \in Timers :
        /\ timer[x] = Idle
        /\ timer' = [halted EXCEPT ![x] = [pc |-> "armed", member |-> m, topic |-> t, left |-> Expiry]]
        /\ expiry' = [expiry EXCEPT ![m][t] = x]

Start(m, t) ==
  /\ Refresh(m, t)
  /\ IF Active(m, t)
     THEN UNCHANGED <<generation, summary>>
     ELSE /\ generation < MaxGeneration /\ generation' = generation + 1
          /\ summary' = [summary EXCEPT ![t] = Started(@, m, generation + 1),
                                        ![Feed] = Started(@, m, generation + 1)]

Stop(m, t) ==
  IF Active(m, t)
  THEN /\ timer' = [timer EXCEPT ![expiry[m][t]] = Halted(expiry[m][t])]
       /\ expiry' = [expiry EXCEPT ![m][t] = None]
       /\ generation < MaxGeneration /\ generation' = generation + 1
       /\ summary' = [summary EXCEPT ![t] = Stopped(@, m, 1, generation + 1),
                                     ![Feed] = Stopped(@, m, 1, generation + 1)]
  ELSE UNCHANGED activityVars

(***************************************************************************)
(* Streams and timers.                                                     *)
(***************************************************************************)
Open(m) ==
  /\ streams[m] < MaxStreams
  /\ streams' = [streams EXCEPT ![m] = @ + 1]
  /\ UNCHANGED <<activityVars, closureVars, signal, page>>

(* Mutant: the last stream leaves the activities to their timers.          *)
CloseOnly(m) ==
  /\ streams[m] > 0
  /\ streams' = [streams EXCEPT ![m] = @ - 1]
  /\ UNCHANGED <<activityVars, closureVars, signal, page>>

(* The last stream of a member takes the member's activities with it, in   *)
(* any order.                                                              *)
Close(m) ==
  LET active == {t \in Topics : Active(m, t)}
      ending == Cardinality(active)
  IN  /\ streams[m] > 0
      /\ streams' = [streams EXCEPT ![m] = @ - 1]
      /\ IF streams[m] > 1 \/ active = {}
         THEN UNCHANGED activityVars
         ELSE /\ generation + ending <= MaxGeneration
              /\ generation' = generation + ending
              /\ timer' = [x \in Timers |-> IF \E t \in active : expiry[m][t] = x THEN Halted(x) ELSE timer[x]]
              /\ expiry' = [expiry EXCEPT ![m] = [t \in Topics |-> IF t \in active THEN None ELSE @[t]]]
              /\ \E rank \in [active -> 1..ending] :
                   /\ \A t, u \in active : rank[t] = rank[u] => t = u
                   /\ summary' = [p \in Places |->
                        IF p \in active THEN Stopped(summary[p], m, 1, generation + rank[p])
                        ELSE IF p = Feed THEN Stopped(summary[p], m, ending, generation + ending)
                        ELSE summary[p]]
      /\ UNCHANGED <<closureVars, signal, page>>

Fire(x) ==
  /\ timer[x].pc = "armed" /\ timer[x].left = 0
  /\ timer' = [timer EXCEPT ![x].pc = "fired"]
  /\ UNCHANGED <<streams, expiry, generation, summary, closureVars, signal, page>>

(* Mutant: a callback that lost to a refresh ends the activity.            *)
ExpireAnyway(x) ==
  LET m == timer[x].member
      t == timer[x].topic
  IN  /\ timer[x].pc = "fired"
      /\ IF Active(m, t)
         THEN /\ timer' = [timer EXCEPT ![expiry[m][t]] = Halted(expiry[m][t]), ![x] = Idle]
              /\ expiry' = [expiry EXCEPT ![m][t] = None]
              /\ generation < MaxGeneration /\ generation' = generation + 1
              /\ summary' = [summary EXCEPT ![t] = Stopped(@, m, 1, generation + 1),
                                            ![Feed] = Stopped(@, m, 1, generation + 1)]
         ELSE timer' = [timer EXCEPT ![x] = Idle] /\ UNCHANGED <<expiry, generation, summary>>
      /\ UNCHANGED <<streams, closureVars, signal, page>>

(* The callback of a timer ends the activity it is still the timer of.     *)
Expire(x) ==
  LET m == timer[x].member
      t == timer[x].topic
  IN  /\ timer[x].pc = "fired"
      /\ timer' = [timer EXCEPT ![x] = Idle]
      /\ IF expiry[m][t] = x /\ Active(m, t)
         THEN /\ expiry' = [expiry EXCEPT ![m][t] = None]
              /\ generation < MaxGeneration /\ generation' = generation + 1
              /\ summary' = [summary EXCEPT ![t] = Stopped(@, m, 1, generation + 1),
                                            ![Feed] = Stopped(@, m, 1, generation + 1)]
         ELSE UNCHANGED <<expiry, generation, summary>>
      /\ UNCHANGED <<streams, closureVars, signal, page>>

(***************************************************************************)
(* Composers.                                                              *)
(***************************************************************************)
Handle(r, c) ==
  /\ signal[r] = Idle
  /\ signal' = [signal EXCEPT ![r] = [pc |-> "handled", composer |-> c, age |-> 0, late |-> FALSE]]
  /\ UNCHANGED <<streams, activityVars, closureVars, page>>

(* Mutant: a signal may take any time to reach the lock.                   *)
AcceptedLate(s) ==
  closed[s.composer] = None /\ streams[Scope[s.composer].member] > 0

Accepted(s) ==
  /\ s.age <= SignalDeadline
  /\ closed[s.composer] = None
  /\ streams[Scope[s.composer].member] > 0

Signal(r) ==
  LET s == signal[r]
  IN  /\ s.pc = "handled"
      /\ signal' = [signal EXCEPT ![r] = Idle]
      /\ IF Accepted(s) THEN Start(Scope[s.composer].member, Scope[s.composer].topic)
                        ELSE UNCHANGED activityVars
      /\ UNCHANGED <<streams, closureVars, page>>

(* A post with its composer ends the member's activity in the topic it was *)
(* requested for and closes the composer anew. late is history.            *)
Posted(c) ==
  /\ \E x \in Closures :
       /\ closure[x] = Idle
       /\ closed' = [closed EXCEPT ![c] = x]
       /\ closure' = [y \in Closures |->
            IF y = x THEN [pc |-> "armed", composer |-> c, left |-> ClosedRetention]
            ELSE IF closed[c] = y /\ closure[y].pc = "armed" THEN Idle
            ELSE closure[y]]
  /\ signal' = [r \in Requests |-> IF signal[r] # Idle /\ signal[r].composer = c
                                   THEN [signal[r] EXCEPT !.late = TRUE] ELSE signal[r]]
  /\ Stop(Scope[c].member, Scope[c].topic)
  /\ UNCHANGED <<streams, page>>

(* A post without a valid composer.                                        *)
PostedWithout(m, t) ==
  /\ Active(m, t)
  /\ Stop(m, t)
  /\ UNCHANGED <<streams, closureVars, signal, page>>

RetentionEnds(x) ==
  /\ closure[x].pc = "armed" /\ closure[x].left = 0
  /\ closure' = [closure EXCEPT ![x].pc = "fired"]
  /\ UNCHANGED <<streams, activityVars, closed, signal, page>>

(* Mutant: the callback of a replaced closure reopens the composer.        *)
ReopenAnyway(x) ==
  /\ closure[x].pc = "fired"
  /\ closure' = [closure EXCEPT ![x] = Idle]
  /\ closed' = [closed EXCEPT ![closure[x].composer] = None]
  /\ UNCHANGED <<streams, activityVars, signal, page>>

Reopen(x) ==
  LET c == closure[x].composer
  IN  /\ closure[x].pc = "fired"
      /\ closure' = [closure EXCEPT ![x] = Idle]
      /\ closed' = IF closed[c] = x THEN [closed EXCEPT ![c] = None] ELSE closed
      /\ UNCHANGED <<streams, activityVars, signal, page>>

(***************************************************************************)
(* The page: a connection reads once whatever the level is, then when it   *)
(* rises, and acknowledges the organisation's generation either way.       *)
(***************************************************************************)
Connect ==
  /\ page.read
  /\ page' = [page EXCEPT !.seen = 0, !.read = FALSE]
  /\ UNCHANGED <<streams, activityVars, closureVars, signal>>

(* What is read is acknowledged with the generation read at that time.     *)
Update ==
  /\ ~page.read \/ page.seen < generation
  /\ LET shown == Read(page.place, page.viewer)
     IN  page' = IF page.read /\ summary[page.place].generation <= page.seen
                 THEN [page EXCEPT !.seen = generation]
                 ELSE [page EXCEPT !.seen = generation, !.read = TRUE,
                                   !.names = shown.names, !.remaining = shown.remaining]
  /\ UNCHANGED <<streams, activityVars, closureVars, signal>>

(* Time passes. Nothing tells apart signals that are too old.              *)
Tick ==
  /\ timer' = [x \in Timers |-> IF timer[x] # Idle /\ timer[x].left > 0
                                THEN [timer[x] EXCEPT !.left = @ - 1] ELSE timer[x]]
  /\ closure' = [x \in Closures |-> IF closure[x] # Idle /\ closure[x].left > 0
                                    THEN [closure[x] EXCEPT !.left = @ - 1] ELSE closure[x]]
  /\ signal' = [r \in Requests |-> IF signal[r] # Idle /\ signal[r].age <= SignalDeadline
                                   THEN [signal[r] EXCEPT !.age = @ + 1] ELSE signal[r]]
  /\ UNCHANGED <<streams, expiry, generation, summary, closed, page>>

Next ==
  \/ \E m \in Members : Open(m) \/ Close(m)
  \/ \E x \in Timers : Fire(x) \/ Expire(x)
  \/ \E r \in Requests : Signal(r) \/ \E c \in Composers : Handle(r, c)
  \/ \E c \in Composers : Posted(c)
  \/ \E m \in Members, t \in Topics : PostedWithout(m, t)
  \/ \E x \in Closures : RetentionEnds(x) \/ Reopen(x)
  \/ Connect \/ Update \/ Tick

Spec == Init /\ [][Next]_vars

-----------------------------------------------------------------------------
(* A signal whose handling began before its composer's latest post shows   *)
(* nothing and keeps nothing shown: however long it takes to               *)
(* the lock, the composer is still closed or the signal is too old, even   *)
(* when the closure was renewed by a second post (composer.go:48-94).      *)
NothingAfterPost ==
  [][\A r \in Requests :
       signal[r] # Idle /\ signal'[r] = Idle /\ signal[r].late =>
         UNCHANGED <<expiry, generation, summary>>]_vars

(* A refreshed activity lives until its new timer is due: a callback that  *)
(* had fired before the refresh does not end it (expiry.go:12-28).         *)
RefreshHolds ==
  [][\A m \in Members, t \in Topics :
       /\ expiry[m][t] # None /\ timer[expiry[m][t]].left > 0
       /\ \E x \in Timers : timer[x].pc = "fired" /\ timer'[x] = Idle
       => expiry'[m][t] = expiry[m][t]]_vars

Typing(p) == {m \in Members : streams[m] > 0 /\ \E t \in Topics : p \in {t, Feed} /\ expiry[m][t] # None}

(* A page that acknowledged the level names the members that are typing in *)
(* its place, as many as there is room for and never the viewer, and       *)
(* counts the others: everyone whose timer runs, and nobody else, and      *)
(* nobody without a stream (summary.go, streams.go, typing_owner.go).      *)
PageIsCurrent ==
  page.read /\ page.seen = generation =>
    LET others == Typing(page.place) \ {page.viewer}
        named == {page.names[i] : i \in 1..Len(page.names)}
    IN  /\ named \subseteq others
        /\ Cardinality(named) = Min2(Names, Cardinality(others))
        /\ page.remaining = Cardinality(others) - Cardinality(named)
=============================================================================
