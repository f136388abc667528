---------------------------- MODULE Typing_proofs ----------------------------
(***************************************************************************)
(* Proofs about the two races of typing: a signal that was handled before  *)
(* its composer's latest post, and a timer that fired before its activity  *)
(* was refreshed. Neither needs what pages are shown; that a page which    *)
(* has caught up shows who is typing is proved after them.                 *)
(***************************************************************************)
EXTENDS Typing, FiniteSetTheorems, TLAPS

(* The types that the arguments below need.                                *)
TimersTyped ==
  /\ expiry \in [Members -> [Topics -> Timers \cup {None}]]
  /\ timer \in [Timers -> Timer \cup {Idle}]

ClosuresTyped ==
  /\ closed \in [Composers -> Closures \cup {None}]
  /\ closure \in [Closures -> Closure \cup {Idle}]

SignalsTyped == signal \in [Requests -> Signals \cup {Idle}]

(* A callback runs when its time is over.                                  *)
TimersDue == \A x \in Timers : timer[x].pc = "fired" => timer[x].left = 0
ClosuresDue == \A x \in Closures : closure[x].pc = "fired" => closure[x].left = 0

(* A closed composer's closure is its own.                                 *)
ClosedByOwn ==
  \A c \in Composers : closed[c] # None =>
    closure[closed[c]] # Idle /\ closure[closed[c]].composer = c

(* A late signal that is not too old finds its composer closed: what is    *)
(* left of the closure and the signal's age make up the whole retention.   *)
LateIsClosed ==
  \A r \in Requests : signal[r] # Idle /\ signal[r].late /\ signal[r].age <= SignalDeadline =>
    LET c == signal[r].composer
    IN  closed[c] # None /\ closure[closed[c]].left + signal[r].age >= ClosedRetention

TimersInv == TimersTyped /\ TimersDue
ClosuresInv == ClosuresTyped /\ SignalsTyped /\ ClosuresDue /\ ClosedByOwn /\ LateIsClosed

-----------------------------------------------------------------------------
(* Timers.                                                                 *)

LEMMA HaltedKeeps ==
  ASSUME TimersInv, NEW x \in Timers
  PROVE  /\ Halted(x) \in Timer \cup {Idle}
         /\ Halted(x).pc = "fired" => Halted(x).left = 0
<1>. QED
  BY DEF Halted, TimersInv, TimersTyped, TimersDue, Idle, Timer

LEMMA RefreshTimers ==
  ASSUME TimersInv, NEW m \in Members, NEW t \in Topics, Refresh(m, t)
  PROVE  TimersInv'
<1>1. PICK x \in Timers :
        /\ timer[x] = Idle
        /\ timer' = [(IF expiry[m][t] = None THEN timer
                      ELSE [timer EXCEPT ![expiry[m][t]] = Halted(expiry[m][t])])
                       EXCEPT ![x] = [pc |-> "armed", member |-> m, topic |-> t, left |-> Expiry]]
        /\ expiry' = [expiry EXCEPT ![m][t] = x]
  BY Zenon DEF Refresh
<1>2. [pc |-> "armed", member |-> m, topic |-> t, left |-> Expiry] \in Timer
  BY TypingAssumption DEF Timer
<1>3. expiry' \in [Members -> [Topics -> Timers \cup {None}]]
  BY <1>1 DEF TimersInv, TimersTyped
<1>4. expiry[m][t] \in Timers \cup {None}
  BY DEF TimersInv, TimersTyped
<1>5. ASSUME NEW y \in Timers
      PROVE  \/ timer'[y] = [pc |-> "armed", member |-> m, topic |-> t, left |-> Expiry]
             \/ timer'[y] = Halted(y) \/ timer'[y] = timer[y]
  BY <1>1, <1>4 DEF TimersInv, TimersTyped
<1>6. DOMAIN timer' = Timers /\ timer' = [y \in Timers |-> timer'[y]]
  BY <1>1 DEF TimersInv, TimersTyped
<1>7. ASSUME NEW y \in Timers
      PROVE  timer'[y] \in Timer \cup {Idle} /\ (timer'[y].pc = "fired" => timer'[y].left = 0)
  BY <1>2, <1>5, HaltedKeeps DEF TimersInv, TimersTyped, TimersDue
<1>. QED
  BY <1>3, <1>6, <1>7 DEF TimersInv, TimersTyped, TimersDue

LEMMA StopTimers ==
  ASSUME TimersInv, NEW m \in Members, NEW t \in Topics, Stop(m, t)
  PROVE  TimersInv'
<1>1. CASE ~Active(m, t)
  BY <1>1 DEF Stop, activityVars, TimersInv, TimersTyped, TimersDue
<1>2. CASE Active(m, t)
  <2>1. /\ timer' = [timer EXCEPT ![expiry[m][t]] = Halted(expiry[m][t])]
        /\ expiry' = [expiry EXCEPT ![m][t] = None]
    BY <1>2, Zenon DEF Stop
  <2>2. expiry' \in [Members -> [Topics -> Timers \cup {None}]]
    BY <2>1 DEF TimersInv, TimersTyped
  <2>3. ASSUME NEW y \in Timers
        PROVE  timer'[y] = Halted(y) \/ timer'[y] = timer[y]
    BY <2>1 DEF TimersInv, TimersTyped
  <2>4. timer' = [y \in Timers |-> timer'[y]]
    BY <2>1 DEF TimersInv, TimersTyped
  <2>5. ASSUME NEW y \in Timers
        PROVE  timer'[y] \in Timer \cup {Idle} /\ (timer'[y].pc = "fired" => timer'[y].left = 0)
    BY <2>3, HaltedKeeps DEF TimersInv, TimersTyped, TimersDue
  <2>. QED
    BY <2>2, <2>4, <2>5 DEF TimersInv, TimersTyped, TimersDue
<1>. QED
  BY <1>1, <1>2

LEMMA CloseTimers ==
  ASSUME TimersInv, NEW m \in Members, Close(m)
  PROVE  TimersInv'
<1> DEFINE active == {t \in Topics : Active(m, t)}
<1>1. CASE UNCHANGED activityVars
  BY <1>1 DEF activityVars, TimersInv, TimersTyped, TimersDue
<1>2. CASE /\ timer' = [x \in Timers |-> IF \E t \in active : expiry[m][t] = x THEN Halted(x) ELSE timer[x]]
           /\ expiry' = [expiry EXCEPT ![m] = [t \in Topics |-> IF t \in active THEN None ELSE @[t]]]
  <2>1. expiry' \in [Members -> [Topics -> Timers \cup {None}]]
    <3>1. [t \in Topics |-> IF t \in active THEN None ELSE expiry[m][t]] \in [Topics -> Timers \cup {None}]
      BY DEF TimersInv, TimersTyped
    <3>2. expiry' = [expiry EXCEPT ![m] = [t \in Topics |-> IF t \in active THEN None ELSE expiry[m][t]]]
      BY <1>2
    <3>. HIDE DEF active
    <3>. QED
      BY <3>1, <3>2 DEF TimersInv, TimersTyped
  <2>2. ASSUME NEW y \in Timers
        PROVE  timer'[y] = Halted(y) \/ timer'[y] = timer[y]
    BY <1>2
  <2>3. ASSUME NEW y \in Timers
        PROVE  timer'[y] \in Timer \cup {Idle} /\ (timer'[y].pc = "fired" => timer'[y].left = 0)
    BY <2>2, HaltedKeeps DEF TimersInv, TimersTyped, TimersDue
  <2>4. timer' = [y \in Timers |-> timer'[y]]
    BY <1>2
  <2>. QED
    BY <2>1, <2>3, <2>4 DEF TimersInv, TimersTyped, TimersDue
<1>. QED
  BY <1>1, <1>2, Zenon DEF Close

LEMMA TimersStep ==
  ASSUME TimersInv, SignalsTyped, [Next]_vars
  PROVE  TimersInv'
<1>1. CASE UNCHANGED <<expiry, timer>>
  BY <1>1 DEF TimersInv, TimersTyped, TimersDue
<1>2. ASSUME NEW m \in Members, Open(m) \/ Close(m) PROVE TimersInv'
  BY <1>1, <1>2, CloseTimers DEF Open, activityVars
<1>3. ASSUME NEW x \in Timers, Fire(x) PROVE TimersInv'
  <2>1. timer[x] \in Timer /\ timer[x].left = 0
    BY <1>3 DEF Fire, TimersInv, TimersTyped, Idle
  <2>2. timer' = [timer EXCEPT ![x].pc = "fired"] /\ expiry' = expiry
    BY <1>3 DEF Fire
  <2>3. [timer[x] EXCEPT !.pc = "fired"] \in Timer /\ [timer[x] EXCEPT !.pc = "fired"].left = 0
    BY <2>1 DEF Timer
  <2>4. timer' = [timer EXCEPT ![x] = [timer[x] EXCEPT !.pc = "fired"]]
    BY <2>2 DEF TimersInv, TimersTyped
  <2>. QED
    BY <2>2, <2>3, <2>4 DEF TimersInv, TimersTyped, TimersDue
<1>4. ASSUME NEW x \in Timers, Expire(x) PROVE TimersInv'
  <2>1. timer[x] \in Timer
    BY <1>4 DEF Expire, TimersInv, TimersTyped, Idle
  <2>2. timer' = [timer EXCEPT ![x] = Idle]
    BY <1>4 DEF Expire
  <2>3. expiry' = expiry \/ expiry' = [expiry EXCEPT ![timer[x].member][timer[x].topic] = None]
    BY <1>4 DEF Expire
  <2>4. expiry' \in [Members -> [Topics -> Timers \cup {None}]]
    BY <2>1, <2>3 DEF TimersInv, TimersTyped, Timer
  <2>. QED
    BY <2>2, <2>4 DEF TimersInv, TimersTyped, TimersDue, Idle
<1>5. ASSUME NEW r \in Requests, Signal(r) PROVE TimersInv'
  <2>1. CASE UNCHANGED activityVars
    BY <2>1, <1>1 DEF activityVars
  <2>2. CASE Start(Scope[signal[r].composer].member, Scope[signal[r].composer].topic)
    <3>1. signal[r].composer \in Composers
      BY <1>5 DEF Signal, SignalsTyped, Signals, Idle
    <3>2. Scope[signal[r].composer].member \in Members /\ Scope[signal[r].composer].topic \in Topics
      BY <3>1, TypingAssumption
    <3>. QED
      BY <2>2, <3>2, RefreshTimers DEF Start
  <2>. QED
    BY <1>5, <2>1, <2>2, Zenon DEF Signal
<1>6. ASSUME NEW c \in Composers, Posted(c) PROVE TimersInv'
  BY <1>6, StopTimers, TypingAssumption DEF Posted
<1>7. ASSUME NEW m \in Members, NEW t \in Topics, PostedWithout(m, t) PROVE TimersInv'
  BY <1>7, StopTimers DEF PostedWithout
<1>8. CASE Tick
  <2>1. ASSUME NEW x \in Timers, timer[x] # Idle, timer[x].left > 0
        PROVE  /\ [timer[x] EXCEPT !.left = @ - 1] \in Timer
               /\ [timer[x] EXCEPT !.left = @ - 1].pc # "fired"
    <3>1. timer[x] \in Timer
      BY <2>1 DEF TimersInv, TimersTyped
    <3>2. timer[x].pc # "fired"
      BY <2>1 DEF TimersInv, TimersDue
    <3>. QED
      BY <2>1, <3>1, <3>2, TypingAssumption DEF Timer
  <2>2. /\ timer' = [x \in Timers |-> IF timer[x] # Idle /\ timer[x].left > 0
                                     THEN [timer[x] EXCEPT !.left = @ - 1] ELSE timer[x]]
        /\ expiry' = expiry
    BY <1>8 DEF Tick
  <2>. QED
    BY <2>1, <2>2 DEF TimersInv, TimersTyped, TimersDue
<1>9. ASSUME NEW r \in Requests, NEW c \in Composers, Handle(r, c) PROVE TimersInv'
  BY <1>1, <1>9 DEF Handle, activityVars
<1>10. ASSUME NEW x \in Closures, RetentionEnds(x) \/ Reopen(x) PROVE TimersInv'
  BY <1>1, <1>10 DEF RetentionEnds, Reopen, activityVars
<1>11. CASE Connect \/ Update
  BY <1>1, <1>11, Zenon DEF Connect, Update, activityVars
<1>12. CASE UNCHANGED vars
  BY <1>1, <1>12 DEF vars, activityVars
<1>. QED
  BY <1>2, <1>3, <1>4, <1>5, <1>6, <1>7, <1>8, <1>9, <1>10, <1>11, <1>12, Zenon DEF Next

-----------------------------------------------------------------------------
(* Closures and signals.                                                   *)

LEMMA PostedCloses ==
  ASSUME ClosuresInv, NEW c \in Composers, Posted(c)
  PROVE  ClosuresInv'
<1> DEFINE new == [pc |-> "armed", composer |-> c, left |-> ClosedRetention]
<1>1. PICK x \in Closures :
        /\ closure[x] = Idle
        /\ closed' = [closed EXCEPT ![c] = x]
        /\ closure' = [y \in Closures |->
             IF y = x THEN new
             ELSE IF closed[c] = y /\ closure[y].pc = "armed" THEN Idle
             ELSE closure[y]]
  BY Zenon DEF Posted
<1>2. signal' = [r \in Requests |-> IF signal[r] # Idle /\ signal[r].composer = c
                                    THEN [signal[r] EXCEPT !.late = TRUE] ELSE signal[r]]
  BY Zenon DEF Posted
<1>3. new \in Closure /\ new.pc # "fired" /\ new # Idle
  BY TypingAssumption DEF Closure, Idle
<1>4. ClosuresTyped'
  BY <1>1, <1>3 DEF ClosuresInv, ClosuresTyped
<1>5. ASSUME NEW r \in Requests, signal[r] # Idle
      PROVE  /\ signal[r] \in Signals /\ signal'[r] \in Signals
             /\ signal'[r].composer = signal[r].composer /\ signal'[r].age = signal[r].age
             /\ signal[r].composer # c => signal'[r] = signal[r]
  <2>1. signal[r] \in Signals
    BY <1>5 DEF ClosuresInv, SignalsTyped
  <2>. QED
    BY <1>2, <1>5, <2>1 DEF Signals
<1>6. ASSUME NEW r \in Requests, signal[r] = Idle
      PROVE  signal'[r] = Idle
  BY <1>2, <1>6
<1>7. SignalsTyped'
  <2>1. signal' = [r \in Requests |-> signal'[r]]
    BY <1>2
  <2>. QED
    BY <1>5, <1>6, <2>1 DEF SignalsTyped
<1>8. ClosuresDue'
  BY <1>1, <1>3 DEF ClosuresInv, ClosuresDue, Idle
<1>9. ASSUME NEW d \in Composers, d # c, closed[d] # None
      PROVE  closed'[d] = closed[d] /\ closure'[closed'[d]] = closure[closed[d]]
  <2>1. closed'[d] = closed[d] /\ closed[d] \in Closures
    BY <1>1, <1>9 DEF ClosuresInv, ClosuresTyped
  <2>2. closure[closed[d]] # Idle /\ closure[closed[d]].composer = d
    BY <1>9 DEF ClosuresInv, ClosedByOwn
  <2>3. closed[d] # x
    BY <1>1, <2>2
  <2>4. closed[c] # closed[d]
    BY <1>9, <2>2 DEF ClosuresInv, ClosedByOwn
  <2>. HIDE DEF new
  <2>. QED
    BY <1>1, <2>1, <2>3, <2>4
<1>10. closed'[c] = x /\ closure'[x] = new
  BY <1>1 DEF ClosuresInv, ClosuresTyped
<1>11. ClosedByOwn'
  <2>. SUFFICES ASSUME NEW d \in Composers, closed'[d] # None
                PROVE  closure'[closed'[d]] # Idle /\ closure'[closed'[d]].composer = d
    BY DEF ClosedByOwn
  <2>1. CASE d = c
    BY <1>3, <1>10, <2>1
  <2>2. CASE d # c
    <3>1. closed[d] # None
      BY <1>1, <2>2 DEF ClosuresInv, ClosuresTyped
    <3>. QED
      BY <1>9, <2>2, <3>1 DEF ClosuresInv, ClosedByOwn
  <2>. QED
    BY <2>1, <2>2
<1>12. LateIsClosed'
  <2>. SUFFICES ASSUME NEW r \in Requests, signal'[r] # Idle, signal'[r].late, signal'[r].age <= SignalDeadline
                PROVE  /\ closed'[signal'[r].composer] # None
                       /\ closure'[closed'[signal'[r].composer]].left + signal'[r].age >= ClosedRetention
    BY DEF LateIsClosed
  <2>1. signal[r] # Idle
    BY <1>6
  <2>2. CASE signal[r].composer = c
    <3>1. signal'[r].composer = c /\ signal'[r].age \in Nat
      BY <1>5, <2>1, <2>2, TypingAssumption DEF Signals
    <3>2. closed'[c] # None
      BY <1>10, TypingAssumption
    <3>. QED
      BY <1>10, <3>1, <3>2, TypingAssumption
  <2>3. CASE signal[r].composer # c
    <3>1. signal'[r] = signal[r] /\ signal[r].composer \in Composers
      BY <1>5, <2>1, <2>3 DEF Signals
    <3>. QED
      BY <1>9, <2>1, <2>3, <3>1 DEF ClosuresInv, LateIsClosed
  <2>. QED
    BY <2>2, <2>3
<1>. QED
  BY <1>4, <1>7, <1>8, <1>11, <1>12 DEF ClosuresInv

LEMMA ReopenCloses ==
  ASSUME ClosuresInv, NEW x \in Closures, Reopen(x)
  PROVE  ClosuresInv'
<1>1. closure[x] \in Closure /\ closure[x].left = 0 /\ closure[x].composer \in Composers
  BY DEF Reopen, ClosuresInv, ClosuresTyped, ClosuresDue, Idle, Closure
<1> DEFINE c == closure[x].composer
<1>2. /\ closure' = [closure EXCEPT ![x] = Idle]
      /\ closed' = IF closed[c] = x THEN [closed EXCEPT ![c] = None] ELSE closed
      /\ signal' = signal
  BY DEF Reopen
<1>3. ClosuresTyped' /\ SignalsTyped' /\ ClosuresDue'
  BY <1>1, <1>2 DEF ClosuresInv, ClosuresTyped, SignalsTyped, ClosuresDue, Idle
<1>4. ASSUME NEW d \in Composers, closed[d] # None, closed[d] # x
      PROVE  closed'[d] = closed[d] /\ closure'[closed'[d]] = closure[closed[d]]
  BY <1>1, <1>2, <1>4 DEF ClosuresInv, ClosuresTyped
<1>5. ClosedByOwn'
  <2>. SUFFICES ASSUME NEW d \in Composers, closed'[d] # None
                PROVE  closure'[closed'[d]] # Idle /\ closure'[closed'[d]].composer = d
    BY DEF ClosedByOwn
  <2>1. closed[d] # None /\ (closed[d] = x => d # c)
    BY <1>1, <1>2 DEF ClosuresInv, ClosuresTyped
  <2>2. closed[d] # x
    BY <2>1 DEF ClosuresInv, ClosedByOwn
  <2>. QED
    BY <1>4, <2>1, <2>2 DEF ClosuresInv, ClosedByOwn
<1>6. LateIsClosed'
  <2>. SUFFICES ASSUME NEW r \in Requests, signal[r] # Idle, signal[r].late, signal[r].age <= SignalDeadline
                PROVE  /\ closed'[signal[r].composer] # None
                       /\ closure'[closed'[signal[r].composer]].left + signal[r].age >= ClosedRetention
    BY <1>2 DEF LateIsClosed
  <2>1. signal[r].composer \in Composers /\ signal[r].age \in Nat
    BY TypingAssumption DEF ClosuresInv, SignalsTyped, Signals
  <2>2. /\ closed[signal[r].composer] # None
        /\ closure[closed[signal[r].composer]].left + signal[r].age >= ClosedRetention
    BY DEF ClosuresInv, LateIsClosed
  <2>3. closed[signal[r].composer] # x
    BY <1>1, <2>1, <2>2, TypingAssumption
  <2>. QED
    BY <1>4, <2>1, <2>2, <2>3
<1>. QED
  BY <1>3, <1>5, <1>6 DEF ClosuresInv

LEMMA TickCloses ==
  ASSUME ClosuresInv, Tick
  PROVE  ClosuresInv'
<1>1. /\ closure' = [x \in Closures |-> IF closure[x] # Idle /\ closure[x].left > 0
                                        THEN [closure[x] EXCEPT !.left = @ - 1] ELSE closure[x]]
      /\ signal' = [r \in Requests |-> IF signal[r] # Idle /\ signal[r].age <= SignalDeadline
                                       THEN [signal[r] EXCEPT !.age = @ + 1] ELSE signal[r]]
      /\ closed' = closed
  BY DEF Tick
<1>2. ASSUME NEW x \in Closures, closure[x] # Idle
      PROVE  /\ closure'[x] \in Closure /\ closure'[x] # Idle
             /\ closure'[x].composer = closure[x].composer
             /\ closure'[x].left >= closure[x].left - 1
             /\ closure'[x].pc = "fired" => closure'[x].left = 0
             /\ closure[x].left \in Nat
  <2>1. closure[x] \in Closure /\ closure[x].left \in Nat /\ closure[x].left <= ClosedRetention
    BY <1>2, TypingAssumption DEF ClosuresInv, ClosuresTyped, Closure
  <2>2. CASE closure[x].left > 0
    <3>1. closure'[x] = [closure[x] EXCEPT !.left = @ - 1]
      BY <1>1, <1>2, <2>2
    <3>2. closure[x].pc # "fired"
      BY <2>2 DEF ClosuresInv, ClosuresDue
    <3>. QED
      BY <2>1, <2>2, <3>1, <3>2, TypingAssumption DEF Closure, Idle
  <2>3. CASE ~(closure[x].left > 0)
    BY <1>1, <1>2, <2>1, <2>3, TypingAssumption DEF ClosuresInv, ClosuresDue
  <2>. QED
    BY <2>2, <2>3
<1>3. ASSUME NEW x \in Closures, closure[x] = Idle
      PROVE  closure'[x] = Idle
  BY <1>1, <1>3
<1>4. ASSUME NEW r \in Requests, signal[r] # Idle
      PROVE  /\ signal'[r] \in Signals /\ signal'[r].composer = signal[r].composer
             /\ signal'[r].late = signal[r].late
             /\ signal[r].age <= SignalDeadline => signal'[r].age = signal[r].age + 1
             /\ ~(signal[r].age <= SignalDeadline) => signal'[r] = signal[r]
             /\ signal[r].age \in Nat /\ signal[r].composer \in Composers
  <2>1. signal[r] \in Signals /\ signal[r].age \in Nat
    BY <1>4, TypingAssumption DEF ClosuresInv, SignalsTyped, Signals
  <2>2. CASE signal[r].age <= SignalDeadline
    <3>1. signal'[r] = [signal[r] EXCEPT !.age = @ + 1]
      BY <1>1, <1>4, <2>2
    <3>. QED
      BY <2>1, <2>2, <3>1, TypingAssumption DEF Signals
  <2>3. CASE ~(signal[r].age <= SignalDeadline)
    BY <1>1, <1>4, <2>1, <2>3 DEF Signals
  <2>. QED
    BY <2>2, <2>3
<1>5. ASSUME NEW r \in Requests, signal[r] = Idle
      PROVE  signal'[r] = Idle
  BY <1>1, <1>5
<1>6. ClosuresTyped'
  <2>1. closure' = [x \in Closures |-> closure'[x]]
    BY <1>1
  <2>2. \A x \in Closures : closure'[x] \in Closure \cup {Idle}
    BY <1>2, <1>3
  <2>. QED
    BY <1>1, <2>1, <2>2 DEF ClosuresInv, ClosuresTyped
<1>7. SignalsTyped'
  <2>1. signal' = [r \in Requests |-> signal'[r]]
    BY <1>1
  <2>2. \A r \in Requests : signal'[r] \in Signals \cup {Idle}
    BY <1>4, <1>5
  <2>. QED
    BY <2>1, <2>2 DEF SignalsTyped
<1>8. ClosuresDue'
  BY <1>2, <1>3 DEF ClosuresDue, Idle
<1>9. ASSUME NEW d \in Composers, closed[d] # None
      PROVE  closed[d] \in Closures /\ closure[closed[d]] # Idle /\ closure[closed[d]].composer = d
  BY <1>9 DEF ClosuresInv, ClosuresTyped, ClosedByOwn
<1>10. ClosedByOwn'
  BY <1>1, <1>2, <1>9 DEF ClosedByOwn
<1>11. LateIsClosed'
  <2>. SUFFICES ASSUME NEW r \in Requests, signal'[r] # Idle, signal'[r].late, signal'[r].age <= SignalDeadline
                PROVE  /\ closed'[signal'[r].composer] # None
                       /\ closure'[closed'[signal'[r].composer]].left + signal'[r].age >= ClosedRetention
    BY DEF LateIsClosed
  <2>1. signal[r] # Idle
    BY <1>5
  <2>2. signal[r].age <= SignalDeadline /\ signal'[r].age = signal[r].age + 1 /\ signal[r].late
    BY <1>4, <2>1
  <2> DEFINE d == signal[r].composer
  <2>3. d \in Composers /\ signal'[r].composer = d
    BY <1>4, <2>1
  <2>4. closed[d] # None /\ closure[closed[d]].left + signal[r].age >= ClosedRetention
    BY <2>1, <2>2 DEF ClosuresInv, LateIsClosed
  <2>5. closed[d] \in Closures /\ closure[closed[d]] # Idle
    BY <1>9, <2>3, <2>4
  <2>6. closure'[closed[d]].left >= closure[closed[d]].left - 1 /\ closure[closed[d]].left \in Nat
        /\ closure'[closed[d]] \in Closure
    BY <1>2, <2>5
  <2>7. closure'[closed[d]].left \in Nat /\ signal[r].age \in Nat
    BY <1>4, <2>1, <2>6, TypingAssumption DEF Closure
  <2>. HIDE DEF d
  <2>. QED
    BY <1>1, <2>2, <2>3, <2>4, <2>6, <2>7, TypingAssumption
<1>. QED
  BY <1>6, <1>7, <1>8, <1>10, <1>11 DEF ClosuresInv

LEMMA ClosuresStep == ClosuresInv /\ [Next]_vars => ClosuresInv'
<1>. SUFFICES ASSUME ClosuresInv, [Next]_vars PROVE ClosuresInv'
  OBVIOUS
<1>1. CASE UNCHANGED <<closed, closure, signal>>
  BY <1>1 DEF ClosuresInv, ClosuresTyped, SignalsTyped, ClosuresDue, ClosedByOwn, LateIsClosed
<1>2. ASSUME NEW m \in Members, Open(m) \/ Close(m) PROVE ClosuresInv'
  BY <1>1, <1>2, Zenon DEF Open, Close, closureVars
<1>3. ASSUME NEW x \in Timers, Fire(x) \/ Expire(x) PROVE ClosuresInv'
  BY <1>1, <1>3, Zenon DEF Fire, Expire, closureVars
<1>4. ASSUME NEW r \in Requests, Signal(r) PROVE ClosuresInv'
  <2>1. signal' = [signal EXCEPT ![r] = Idle] /\ closed' = closed /\ closure' = closure
    BY <1>4, Zenon DEF Signal, closureVars
  <2>. QED
    BY <2>1 DEF ClosuresInv, ClosuresTyped, SignalsTyped, ClosuresDue, ClosedByOwn, LateIsClosed
<1>5. ASSUME NEW r \in Requests, NEW c \in Composers, Handle(r, c) PROVE ClosuresInv'
  <2> DEFINE s == [pc |-> "handled", composer |-> c, age |-> 0, late |-> FALSE]
  <2>1. signal' = [signal EXCEPT ![r] = s] /\ closed' = closed /\ closure' = closure
    BY <1>5 DEF Handle, closureVars
  <2>2. s \in Signals /\ ~s.late
    BY TypingAssumption DEF Signals
  <2>. HIDE DEF s
  <2>3. SignalsTyped' /\ LateIsClosed'
    BY <2>1, <2>2 DEF ClosuresInv, SignalsTyped, LateIsClosed
  <2>. QED
    BY <2>1, <2>3 DEF ClosuresInv, ClosuresTyped, ClosuresDue, ClosedByOwn
<1>6. ASSUME NEW c \in Composers, Posted(c) PROVE ClosuresInv'
  BY <1>6, PostedCloses
<1>7. ASSUME NEW m \in Members, NEW t \in Topics, PostedWithout(m, t) PROVE ClosuresInv'
  BY <1>1, <1>7 DEF PostedWithout, closureVars
<1>8. ASSUME NEW x \in Closures, RetentionEnds(x) PROVE ClosuresInv'
  <2>1. closure[x] \in Closure /\ closure[x].left = 0
    BY <1>8 DEF RetentionEnds, ClosuresInv, ClosuresTyped, Idle
  <2> DEFINE fired == [closure[x] EXCEPT !.pc = "fired"]
  <2>2. /\ fired \in Closure /\ fired # Idle /\ fired.left = closure[x].left
        /\ fired.composer = closure[x].composer
    BY <2>1 DEF Closure, Idle
  <2>3. closure' = [closure EXCEPT ![x] = fired] /\ closed' = closed /\ signal' = signal
    BY <1>8 DEF RetentionEnds, ClosuresInv, ClosuresTyped
  <2>. HIDE DEF fired
  <2>4. ClosuresTyped' /\ SignalsTyped' /\ ClosuresDue'
    BY <2>1, <2>2, <2>3 DEF ClosuresInv, ClosuresTyped, SignalsTyped, ClosuresDue
  <2>5. ClosedByOwn'
    BY <2>2, <2>3 DEF ClosuresInv, ClosuresTyped, ClosedByOwn
  <2>6. LateIsClosed'
    <3>1. \A y \in Closures : closure'[y].left = closure[y].left
      BY <2>2, <2>3 DEF ClosuresInv, ClosuresTyped
    <3>2. \A r \in Requests : signal[r] # Idle => signal[r].composer \in Composers
      BY DEF ClosuresInv, SignalsTyped, Signals
    <3>. QED
      BY <2>3, <3>1, <3>2 DEF ClosuresInv, ClosuresTyped, LateIsClosed
  <2>. QED
    BY <2>4, <2>5, <2>6 DEF ClosuresInv
<1>9. ASSUME NEW x \in Closures, Reopen(x) PROVE ClosuresInv'
  BY <1>9, ReopenCloses
<1>10. CASE Connect \/ Update
  BY <1>1, <1>10, Zenon DEF Connect, Update, closureVars
<1>11. CASE UNCHANGED vars
  BY <1>1, <1>11 DEF vars, closureVars
<1>. QED
  BY <1>2, <1>3, <1>4, <1>5, <1>6, <1>7, <1>8, <1>9, <1>10, <1>11, TickCloses, Zenon DEF Next

-----------------------------------------------------------------------------
(* The theorems.                                                           *)

IInv == TimersInv /\ ClosuresInv

LEMMA InitHolds == Init => IInv
<1>. SUFFICES ASSUME Init PROVE IInv
  OBVIOUS
<1>1. TimersInv
  BY DEF Init, TimersInv, TimersTyped, TimersDue, Idle
<1>2. ClosuresInv
  BY DEF Init, ClosuresInv, ClosuresTyped, SignalsTyped, ClosuresDue, ClosedByOwn, LateIsClosed, Idle
<1>. QED
  BY <1>1, <1>2 DEF IInv

LEMMA IInvStep == IInv /\ [Next]_vars => IInv'
  BY TimersStep, ClosuresStep DEF IInv, ClosuresInv

(* Only a signal's own step ends it.                                       *)
LEMMA OnlySignalEnds ==
  ASSUME IInv, [Next]_vars, NEW r \in Requests, signal[r] # Idle, signal'[r] = Idle
  PROVE  Signal(r)
<1>1. signal[r] \in Signals
  BY DEF IInv, ClosuresInv, SignalsTyped
<1>2. signal' # signal
  OBVIOUS
<1>3. ASSUME NEW q \in Requests, Signal(q) PROVE q = r
  BY <1>3 DEF Signal, IInv, ClosuresInv, SignalsTyped
<1>4. ASSUME NEW q \in Requests, NEW c \in Composers, Handle(q, c) PROVE FALSE
  BY <1>4 DEF Handle, IInv, ClosuresInv, SignalsTyped, Idle
<1>5. ASSUME NEW c \in Composers, Posted(c) PROVE FALSE
  <2>1. signal'[r] = [signal[r] EXCEPT !.late = TRUE] \/ signal'[r] = signal[r]
    BY <1>5 DEF Posted
  <2>. QED
    BY <1>1, <2>1 DEF Signals, Idle
<1>6. CASE Tick
  <2>1. signal'[r] = [signal[r] EXCEPT !.age = @ + 1] \/ signal'[r] = signal[r]
    BY <1>6 DEF Tick
  <2>. QED
    BY <1>1, <2>1 DEF Signals, Idle
<1>7. ~ UNCHANGED signal
  BY <1>2
<1>. QED
  BY <1>3, <1>4, <1>5, <1>6, <1>7, Zenon
  DEF Next, vars, Open, Close, Fire, Expire, PostedWithout, RetentionEnds, Reopen, Connect, Update

(* Only its own callback ends a timer that has fired.                      *)
LEMMA OnlyExpireEnds ==
  ASSUME TimersInv, SignalsTyped, [Next]_vars, NEW x \in Timers, timer[x].pc = "fired", timer'[x] = Idle
  PROVE  Expire(x)
<1>1. timer[x] \in Timer /\ timer[x] # Idle /\ Halted(x) = timer[x] /\ timer[x].left = 0
  BY DEF TimersInv, TimersTyped, TimersDue, Idle, Halted
<1>2. ~ UNCHANGED timer
  BY <1>1
<1>3. ASSUME NEW m \in Members, NEW t \in Topics, Refresh(m, t) PROVE FALSE
  <2>1. PICK y \in Timers :
          /\ timer[y] = Idle
          /\ timer' = [(IF expiry[m][t] = None THEN timer
                        ELSE [timer EXCEPT ![expiry[m][t]] = Halted(expiry[m][t])])
                         EXCEPT ![y] = [pc |-> "armed", member |-> m, topic |-> t, left |-> Expiry]]
    BY <1>3, Zenon DEF Refresh
  <2>2. timer'[x] = Halted(x) \/ timer'[x] = timer[x]
    BY <1>1, <2>1 DEF TimersInv, TimersTyped
  <2>. QED
    BY <1>1, <2>2
<1>4. ASSUME NEW m \in Members, NEW t \in Topics, Stop(m, t) PROVE FALSE
  <2>1. timer' = timer \/ timer' = [timer EXCEPT ![expiry[m][t]] = Halted(expiry[m][t])]
    BY <1>4, Zenon DEF Stop, activityVars
  <2>2. timer'[x] = Halted(x) \/ timer'[x] = timer[x]
    BY <2>1 DEF TimersInv, TimersTyped
  <2>. QED
    BY <1>1, <2>2
<1>5. ASSUME NEW m \in Members, Close(m) PROVE FALSE
  <2>1. timer'[x] = Halted(x) \/ timer'[x] = timer[x]
    BY <1>5 DEF Close, activityVars
  <2>. QED
    BY <1>1, <2>1
<1>6. ASSUME NEW y \in Timers, Fire(y) PROVE FALSE
  BY <1>1, <1>6 DEF Fire, TimersInv, TimersTyped, Idle, Timer
<1>7. ASSUME NEW y \in Timers, Expire(y) PROVE y = x
  BY <1>1, <1>7 DEF Expire, TimersInv, TimersTyped
<1>8. ASSUME NEW r \in Requests, Signal(r) PROVE FALSE
  <2>1. Scope[signal[r].composer].member \in Members /\ Scope[signal[r].composer].topic \in Topics
    BY <1>8, TypingAssumption DEF Signal, SignalsTyped, Signals, Idle
  <2>2. CASE UNCHANGED activityVars
    BY <1>2, <2>2 DEF activityVars
  <2>3. CASE Start(Scope[signal[r].composer].member, Scope[signal[r].composer].topic)
    BY <1>3, <2>1, <2>3 DEF Start
  <2>. QED
    BY <1>8, <2>2, <2>3, Zenon DEF Signal
<1>9. ASSUME NEW c \in Composers, Posted(c) PROVE FALSE
  BY <1>4, <1>9, TypingAssumption DEF Posted
<1>10. ASSUME NEW m \in Members, NEW t \in Topics, PostedWithout(m, t) PROVE FALSE
  BY <1>4, <1>10 DEF PostedWithout
<1>11. CASE Tick
  BY <1>1, <1>11 DEF Tick
<1>. QED
  BY <1>2, <1>5, <1>6, <1>7, <1>8, <1>9, <1>10, <1>11, Zenon
  DEF Next, vars, Open, Handle, RetentionEnds, Reopen, Connect, Update, activityVars

(* A signal that was handled before its composer's latest post shows       *)
(* nothing, for any times whose deadline is below the retention.           *)
THEOREM LateSignalsShowNothing == Spec => NothingAfterPost
<1>1. ASSUME IInv, [Next]_vars
      PROVE  \A r \in Requests :
               signal[r] # Idle /\ signal'[r] = Idle /\ signal[r].late =>
                 UNCHANGED <<expiry, generation, summary>>
  <2>. SUFFICES ASSUME NEW r \in Requests, signal[r] # Idle, signal'[r] = Idle, signal[r].late
                PROVE  UNCHANGED <<expiry, generation, summary>>
    OBVIOUS
  <2>1. Signal(r)
    BY <1>1, OnlySignalEnds
  <2>2. ~Accepted(signal[r])
    BY <1>1 DEF IInv, ClosuresInv, LateIsClosed, Accepted
  <2>. QED
    BY <2>1, <2>2 DEF Signal, activityVars
<1>. QED
  BY <1>1, InitHolds, IInvStep, PTL DEF Spec, NothingAfterPost

(* A callback that fired before a refresh does not end what was refreshed. *)
THEOREM RefreshesHold == Spec => RefreshHolds
<1>1. ASSUME IInv, [Next]_vars
      PROVE  \A m \in Members, t \in Topics :
               /\ expiry[m][t] # None /\ timer[expiry[m][t]].left > 0
               /\ \E x \in Timers : timer[x].pc = "fired" /\ timer'[x] = Idle
               => expiry'[m][t] = expiry[m][t]
  <2>. SUFFICES ASSUME NEW m \in Members, NEW t \in Topics, expiry[m][t] # None,
                       timer[expiry[m][t]].left > 0,
                       NEW x \in Timers, timer[x].pc = "fired", timer'[x] = Idle
                PROVE  expiry'[m][t] = expiry[m][t]
    OBVIOUS
  <2>1. Expire(x)
    BY <1>1, OnlyExpireEnds DEF IInv, ClosuresInv
  <2>2. expiry[m][t] # x
    BY <1>1 DEF IInv, TimersInv, TimersDue
  <2>3. timer[x] \in Timer
    BY <1>1 DEF IInv, TimersInv, TimersTyped, Idle
  <2>4. \/ expiry' = expiry
        \/ /\ expiry[timer[x].member][timer[x].topic] = x
           /\ expiry' = [expiry EXCEPT ![timer[x].member][timer[x].topic] = None]
    BY <2>1 DEF Expire
  <2>. QED
    BY <1>1, <2>2, <2>3, <2>4 DEF IInv, TimersInv, TimersTyped, Timer
<1>. QED
  BY <1>1, InitHolds, IInvStep, PTL DEF Spec, RefreshHolds
-----------------------------------------------------------------------------
(* Summaries: their lists hold exactly the active members, each once, and  *)
(* their counts are those of the members' timers.                          *)

Distinct(list) == \A i, j \in DOMAIN list : list[i] = list[j] => i = j
Has(list, m) == \E i \in DOMAIN list : list[i] = m

Listed(s) ==
  /\ \A m \in Members : s.activity[m] > 0 <=> Has(s.starts, m)
  /\ Distinct(s.starts)

Shown(m) == {t \in Topics : expiry[m][t] # None}

SummariesTyped ==
  /\ generation \in Nat
  /\ streams \in [Members -> Nat]
  /\ summary \in [Places -> Summary]

SummariesListed == \A p \in Places : Listed(summary[p]) /\ summary[p].generation <= generation

TimersCounted ==
  \A m \in Members :
    /\ \A t \in Topics : summary[t].activity[m] = IF expiry[m][t] # None THEN 1 ELSE 0
    /\ summary[Feed].activity[m] = Cardinality(Shown(m))

ShownHasStream == \A m \in Members : Shown(m) # {} => streams[m] > 0

SInv == SummariesTyped /\ SummariesListed /\ TimersCounted /\ ShownHasStream

(* What a list is without one of its members.                              *)
LEMMA WithoutOne ==
  ASSUME NEW list \in Seq(Members), Distinct(list), NEW m
  PROVE  /\ Without(list, m) \in Seq(Members) /\ Distinct(Without(list, m))
         /\ \A n \in Members : Has(Without(list, m), n) <=> n # m /\ Has(list, n)
         /\ Len(Without(list, m)) = IF Has(list, m) THEN Len(list) - 1 ELSE Len(list)
<1>0. Len(list) \in Nat /\ DOMAIN list = 1..Len(list)
      /\ \A i \in 1..Len(list) : list[i] \in Members
  OBVIOUS
<1>1. CASE ~ Has(list, m)
  <2>1. Without(list, m) = list
    BY <1>1 DEF Without, Has
  <2>. QED
    BY <1>1, <2>1 DEF Has
<1>2. CASE Has(list, m)
  <2>1. PICK p \in 1..Len(list) : p = (CHOOSE i \in DOMAIN list : list[i] = m) /\ list[p] = m
    BY <1>0, <1>2 DEF Has
  <2>2. \A i \in 1..Len(list) : list[i] = m => i = p
    BY <1>0, <2>1 DEF Distinct
  <2>3. PICK w : w = [i \in 1..Len(list) - 1 |-> list[IF i < p THEN i ELSE i + 1]]
    OBVIOUS
  <2>4. Without(list, m) = w
    BY <2>1, <2>3, <1>2 DEF Without, Has
  <2>5. \A i \in 1..Len(list) - 1 : w[i] = IF i < p THEN list[i] ELSE list[i + 1]
    BY <2>3
  <2>6. w \in Seq(Members) /\ DOMAIN w = 1..Len(list) - 1 /\ Len(w) = Len(list) - 1
    <3>1. \A i \in 1..Len(list) - 1 : w[i] \in Members
      BY <2>5, <1>0
    <3>2. w \in [1..Len(list) - 1 -> Members]
      BY <2>3, <3>1
    <3>3. Len(list) - 1 \in Nat
      BY <2>1, <1>0
    <3>. QED
      BY <3>2, <3>3
  <2>7. ASSUME NEW i \in DOMAIN w, NEW j \in DOMAIN w, w[i] = w[j] PROVE i = j
    <3>0. i \in 1..Len(list) - 1 /\ j \in 1..Len(list) - 1
      BY <2>6
    <3>1. PICK a \in 1..Len(list) : a = IF i < p THEN i ELSE i + 1
      BY <3>0, <1>0
    <3>2. PICK b \in 1..Len(list) : b = IF j < p THEN j ELSE j + 1
      BY <3>0, <1>0
    <3>3. list[a] = list[b]
      BY <3>0, <3>1, <3>2, <2>5, <2>7
    <3>4. a = b
      BY <3>3, <1>0 DEF Distinct
    <3>. QED
      BY <3>0, <3>1, <3>2, <3>4, <2>1, <1>0
  <2>8. ASSUME NEW n \in Members PROVE Has(w, n) <=> n # m /\ Has(list, n)
    <3>1. ASSUME n # m, NEW i \in DOMAIN list, list[i] = n PROVE \E k \in DOMAIN w : w[k] = n
      <4>1. CASE i < p
        BY <4>1, <3>1, <2>1, <2>5, <2>6, <1>0
      <4>2. CASE i > p
        <5>1. i - 1 \in 1..Len(list) - 1 /\ ~ (i - 1 < p) /\ (i - 1) + 1 = i
          BY <4>2, <2>1, <1>0
        <5>2. w[i - 1] = n
          BY <5>1, <2>5, <3>1
        <5>. QED
          BY <5>1, <5>2, <2>6
      <4>. QED
        BY <4>1, <4>2, <3>1, <2>1, <1>0
    <3>2. ASSUME NEW i \in DOMAIN w, w[i] = n
          PROVE  n # m /\ \E k \in DOMAIN list : list[k] = n
      <4>1. i \in 1..Len(list) - 1 /\ i \in 1..Len(list) /\ i + 1 \in 1..Len(list)
        BY <2>6, <1>0
      <4>2. CASE i < p
        <5>1. list[i] = n /\ i # p
          BY <4>1, <4>2, <3>2, <2>5
        <5>. QED
          BY <5>1, <4>1, <2>2, <1>0
      <4>3. CASE ~ i < p
        <5>1. list[i + 1] = n /\ i + 1 # p
          BY <4>1, <4>3, <3>2, <2>5
        <5>. QED
          BY <5>1, <4>1, <2>2, <1>0
      <4>. QED
        BY <4>2, <4>3
    <3>. QED
      BY <3>1, <3>2 DEF Has
  <2>. QED
    BY <2>4, <2>6, <2>7, <2>8, <1>2 DEF Distinct
<1>. QED
  BY <1>1, <1>2

(* Two summaries that look the same from outside.                          *)
Same(r, s) ==
  /\ r.generation = s.generation /\ r.starts = s.starts
  /\ \A m \in Members : r.activity[m] > 0 <=> s.activity[m] > 0

(* A start keeps the list, and shows in the generation if it shows at all. *)
LEMMA StartedKeeps ==
  ASSUME NEW s \in Summary, Listed(s), NEW m \in Members, NEW g \in Nat
  PROVE  /\ Started(s, m, g) \in Summary /\ Listed(Started(s, m, g))
         /\ Started(s, m, g).activity = [s.activity EXCEPT ![m] = @ + 1]
         /\ Same(Started(s, m, g), s) \/ Started(s, m, g).generation = g
<1>1. PICK r : r = Started(s, m, g)
  OBVIOUS
<1>2. s.activity \in [Members -> Nat] /\ s.starts \in Seq(Members)
  BY DEF Summary
<1>3. CASE s.activity[m] > 0
  <2>1. r = [generation |-> s.generation, activity |-> [s.activity EXCEPT ![m] = @ + 1],
             starts |-> s.starts]
    BY <1>1, <1>3 DEF Started, Summary
  <2>2. r \in Summary /\ r.activity = [s.activity EXCEPT ![m] = @ + 1] /\ r.starts = s.starts
        /\ r.generation = s.generation
    BY <2>1, <1>2 DEF Summary
  <2>3. \A n \in Members : r.activity[n] > 0 <=> s.activity[n] > 0
    BY <2>2, <1>2, <1>3
  <2>. QED
    BY <1>1, <2>2, <2>3 DEF Listed, Same
<1>4. CASE ~ s.activity[m] > 0
  <2>1. r = [generation |-> g, activity |-> [s.activity EXCEPT ![m] = 1], starts |-> <<m>> \o s.starts]
    BY <1>1, <1>4 DEF Started
  <2>2. [s.activity EXCEPT ![m] = 1] \in [Members -> Nat] /\ <<m>> \o s.starts \in Seq(Members)
    BY <1>2
  <2>3. r \in Summary
    BY <2>1, <2>2 DEF Summary
  <2>4. r.activity = [s.activity EXCEPT ![m] = @ + 1]
    <3>1. s.activity[m] = 0
      BY <1>2, <1>4
    <3>. QED
      BY <2>1, <3>1
  <2>5. PICK l \in Seq(Members) : l = s.starts
    BY <1>2
  <2>6. PICK k \in Seq(Members) : k = r.starts /\ k = <<m>> \o l
    BY <2>1, <2>2, <2>5
  <2>7. /\ Len(l) \in Nat /\ DOMAIN l = 1..Len(l) /\ Len(k) = Len(l) + 1 /\ DOMAIN k = 1..Len(l) + 1
        /\ k[1] = m /\ \A i \in 2..Len(k) : k[i] = l[i - 1]
    BY <2>6
  <2>8. \A i \in 1..Len(l) : l[i] # m
    BY <1>4, <2>5, <2>7 DEF Listed, Has
  <2>9. ASSUME NEW i \in DOMAIN k, NEW j \in DOMAIN k, k[i] = k[j] PROVE i = j
    <3>1. \A a, b \in 1..Len(l) : l[a] = l[b] => a = b
      BY <2>5, <2>7 DEF Listed, Distinct
    <3>2. CASE i = 1 \/ j = 1
      BY <3>2, <2>7, <2>8, <2>9
    <3>3. CASE i # 1 /\ j # 1
      BY <3>1, <3>3, <2>7, <2>9
    <3>. QED
      BY <3>2, <3>3
  <2>10. ASSUME NEW n \in Members
         PROVE  r.activity[n] > 0 <=> Has(k, n)
    <3>1. CASE n = m
      <4>1. r.activity[n] = 1
        BY <3>1, <2>1, <1>2
      <4>2. 1 \in DOMAIN k
        BY <2>7
      <4>. QED
        BY <3>1, <4>1, <4>2, <2>7 DEF Has
    <3>2. CASE n # m
      <4>1. r.activity[n] > 0 <=> \E i \in 1..Len(l) : l[i] = n
        BY <3>2, <2>1, <2>5, <2>7, <1>2 DEF Listed, Has
      <4>2. ASSUME NEW i \in 1..Len(l), l[i] = n PROVE \E j \in DOMAIN k : k[j] = n
        <5>1. i + 1 \in 2..Len(k) /\ k[i + 1] = l[i]
          BY <2>7
        <5>. QED
          BY <5>1, <4>2, <2>7
      <4>3. ASSUME NEW j \in DOMAIN k, k[j] = n PROVE \E i \in 1..Len(l) : l[i] = n
        <5>1. j \in 2..Len(k)
          BY <4>3, <3>2, <2>7
        <5>2. j - 1 \in 1..Len(l) /\ l[j - 1] = n
          BY <4>3, <5>1, <2>7
        <5>. QED
          BY <5>2
      <4>. QED
        BY <4>1, <4>2, <4>3 DEF Has
    <3>. QED
      BY <3>1, <3>2
  <2>11. Listed(r)
    BY <2>6, <2>9, <2>10 DEF Listed, Distinct
  <2>12. r.generation = g
    BY <2>1
  <2>. QED
    BY <1>1, <2>3, <2>4, <2>11, <2>12
<1>. QED
  BY <1>3, <1>4

(* So does a stop.                                                         *)
LEMMA StoppedKeeps ==
  ASSUME NEW s \in Summary, Listed(s), NEW m \in Members, NEW g \in Nat,
         NEW n \in Nat \ {0}, n <= s.activity[m]
  PROVE  /\ Stopped(s, m, n, g) \in Summary /\ Listed(Stopped(s, m, n, g))
         /\ Stopped(s, m, n, g).activity = [s.activity EXCEPT ![m] = @ - n]
         /\ Same(Stopped(s, m, n, g), s) \/ Stopped(s, m, n, g).generation = g
<1>1. PICK r : r = Stopped(s, m, n, g)
  OBVIOUS
<1>2. s.activity \in [Members -> Nat] /\ s.starts \in Seq(Members)
  BY DEF Summary
<1>3. CASE s.activity[m] > n
  <2>1. r = [generation |-> s.generation, activity |-> [s.activity EXCEPT ![m] = @ - n],
             starts |-> s.starts]
    BY <1>1, <1>3 DEF Stopped, Summary
  <2>2. s.activity[m] - n \in Nat
    BY <1>2, <1>3
  <2>3. r \in Summary /\ r.activity = [s.activity EXCEPT ![m] = @ - n] /\ r.starts = s.starts
        /\ r.generation = s.generation
    BY <2>1, <2>2, <1>2 DEF Summary
  <2>4. \A k \in Members : r.activity[k] > 0 <=> s.activity[k] > 0
    BY <2>3, <1>2, <1>3
  <2>. QED
    BY <1>1, <2>3, <2>4 DEF Listed, Same
<1>4. CASE ~ s.activity[m] > n
  <2>1. r = [generation |-> g, activity |-> [s.activity EXCEPT ![m] = 0],
             starts |-> Without(s.starts, m)]
    BY <1>1, <1>4 DEF Stopped
  <2>2. s.activity[m] - n = 0
    BY <1>2, <1>4
  <2>3. r.activity = [s.activity EXCEPT ![m] = @ - n] /\ r.activity \in [Members -> Nat]
    BY <1>2, <2>1, <2>2
  <2>4. PICK l \in Seq(Members) : l = s.starts /\ Distinct(l)
    BY <1>2 DEF Listed
  <2>5. PICK k : k = Without(l, m)
    OBVIOUS
  <2>6. /\ k \in Seq(Members) /\ Distinct(k)
        /\ \A x \in Members : Has(k, x) <=> x # m /\ Has(l, x)
    BY <2>4, <2>5, WithoutOne
  <2>7. r.starts = k /\ r \in Summary
    BY <2>1, <2>3, <2>4, <2>5, <2>6 DEF Summary
  <2>8. ASSUME NEW x \in Members
        PROVE  r.activity[x] > 0 <=> Has(k, x)
    <3>1. r.activity[x] = IF x = m THEN 0 ELSE s.activity[x]
      BY <2>1, <1>2
    <3>2. s.activity[x] > 0 <=> Has(l, x)
      BY <2>4 DEF Listed
    <3>. QED
      BY <3>1, <3>2, <2>6
  <2>. QED
    BY <1>1, <2>1, <2>3, <2>6, <2>7, <2>8 DEF Listed
<1>. QED
  BY <1>3, <1>4
LEMMA StoppedOnce ==
  ASSUME NEW s \in Summary, Listed(s), NEW m \in Members, NEW g \in Nat, 1 <= s.activity[m]
  PROVE  /\ Stopped(s, m, 1, g) \in Summary /\ Listed(Stopped(s, m, 1, g))
         /\ Stopped(s, m, 1, g).activity = [s.activity EXCEPT ![m] = @ - 1]
         /\ Same(Stopped(s, m, 1, g), s) \/ Stopped(s, m, 1, g).generation = g
<1>1. 1 \in Nat \ {0}
  OBVIOUS
<1>. QED
  BY <1>1, StoppedKeeps

(* What a step may do to the summaries.                                    *)
SummaryMoves ==
  /\ generation' \in Nat /\ generation <= generation'
  /\ \A p \in Places : Same(summary'[p], summary[p]) \/ summary'[p].generation > generation

LEMMA SameStays == \A s : Same(s, s)
BY DEF Same

(* Nothing but the streams changes, and they only where nothing is shown.  *)
LEMMA StreamsKeep ==
  ASSUME SInv, UNCHANGED <<expiry, generation, summary>>, streams' \in [Members -> Nat],
         \A m \in Members : Shown(m) # {} => streams'[m] > 0
  PROVE  SInv' /\ SummaryMoves
<1>1. SummaryMoves
  BY SameStays DEF SInv, SummariesTyped, SummaryMoves
<1>2. SInv'
  BY DEF SInv, SummariesTyped, SummariesListed, TimersCounted, ShownHasStream, Shown
<1>. QED
  BY <1>1, <1>2

LEMMA RefreshKeeps ==
  ASSUME TimersTyped, SInv, NEW m \in Members, NEW t \in Topics, Active(m, t), NEW x \in Timers,
         expiry' = [expiry EXCEPT ![m][t] = x], UNCHANGED <<generation, summary, streams>>
  PROVE  SInv' /\ SummaryMoves
<1>1. expiry[m][t] # None
  BY DEF SInv, TimersCounted, Active
<1>2. ASSUME NEW n \in Members, NEW u \in Topics PROVE expiry'[n][u] # None <=> expiry[n][u] # None
  BY <1>1, TypingAssumption DEF TimersTyped
<1>3. \A n \in Members : Shown(n)' = Shown(n)
  BY <1>2 DEF Shown
<1>4. SInv'
  BY <1>2, <1>3 DEF SInv, SummariesTyped, SummariesListed, TimersCounted, ShownHasStream
<1>5. SummaryMoves
  BY SameStays DEF SInv, SummariesTyped, SummaryMoves
<1>. QED
  BY <1>4, <1>5

LEMMA TopicsOf ==
  ASSUME TimersTyped, NEW m \in Members
  PROVE  IsFiniteSet(Shown(m)) /\ Cardinality(Shown(m)) \in Nat
         /\ (Cardinality(Shown(m)) = 0 <=> Shown(m) = {})
BY TypingAssumption, FS_Subset, FS_CardinalityType, FS_EmptySet DEF Shown

LEMMA PlacesOf == /\ Feed \in Places /\ Feed \notin Topics
                  /\ \A t \in Topics : t \in Places /\ t # Feed
BY TypingAssumption DEF Places

(* One activity starts or ends: its topic and the feed count it.           *)
LEMMA OneMoves ==
  ASSUME TimersTyped, SInv, NEW m \in Members, NEW t \in Topics, NEW x \in Timers \cup {None},
         expiry' = [expiry EXCEPT ![m][t] = x], generation' = generation + 1, streams' = streams,
         Active(m, t) <=> x = None, x # None => streams[m] > 0,
         summary' = IF x = None
                    THEN [summary EXCEPT ![t] = Stopped(@, m, 1, generation + 1),
                                         ![Feed] = Stopped(@, m, 1, generation + 1)]
                    ELSE [summary EXCEPT ![t] = Started(@, m, generation + 1),
                                         ![Feed] = Started(@, m, generation + 1)]
  PROVE  SInv' /\ SummaryMoves
<1>0. generation \in Nat /\ summary \in [Places -> Summary]
  BY DEF SInv, SummariesTyped
<1>1. PICK a \in Int : a = IF x = None THEN 0 - 1 ELSE 1
  OBVIOUS
<1>2. (expiry[m][t] # None <=> x = None) /\ summary[t].activity[m] \in {0, 1}
      /\ (summary[t].activity[m] = 1 <=> x = None)
  BY DEF SInv, TimersCounted, Active
<1>3. \A n \in Members, u \in Topics :
        expiry'[n][u] = IF n = m /\ u = t THEN x ELSE expiry[n][u]
  BY DEF TimersTyped
<1>4. /\ \A n \in Members \ {m} : Shown(n)' = Shown(n)
      /\ Shown(m)' = IF x = None THEN Shown(m) \ {t} ELSE Shown(m) \cup {t}
      /\ t \in Shown(m) <=> x = None
  <2>1. \A n \in Members \ {m} : Shown(n)' = Shown(n)
    BY <1>3 DEF Shown
  <2>2. t \in Shown(m) <=> x = None
    BY <1>2 DEF Shown
  <2>3. Shown(m)' = IF x = None THEN Shown(m) \ {t} ELSE Shown(m) \cup {t}
    BY <1>3 DEF Shown
  <2>. QED
    BY <2>1, <2>2, <2>3
<1>5. Cardinality(Shown(m)') = Cardinality(Shown(m)) + a /\ Cardinality(Shown(m)) + a \in Nat
  <2>1. IsFiniteSet(Shown(m)) /\ Cardinality(Shown(m)) \in Nat /\ (Cardinality(Shown(m)) = 0 <=> Shown(m) = {})
    BY TopicsOf
  <2>2. CASE x = None
    <3>1. Cardinality(Shown(m) \ {t}) = Cardinality(Shown(m)) - 1
      BY <1>4, <2>1, <2>2, FS_RemoveElement
    <3>2. Cardinality(Shown(m)) # 0
      BY <1>4, <2>1, <2>2
    <3>. QED
      BY <1>1, <1>4, <2>1, <2>2, <3>1, <3>2
  <2>3. CASE x # None
    <3>1. Cardinality(Shown(m) \cup {t}) = Cardinality(Shown(m)) + 1
      BY <1>4, <2>1, <2>3, FS_AddElement
    <3>. QED
      BY <1>1, <1>4, <2>1, <2>3, <3>1
  <2>. QED
    BY <2>2, <2>3
<1>6. ASSUME NEW p \in {t, Feed}
      PROVE  /\ summary'[p] \in Summary /\ Listed(summary'[p])
             /\ summary'[p].activity = [summary[p].activity EXCEPT ![m] = @ + a]
             /\ Same(summary'[p], summary[p]) \/ summary'[p].generation = generation + 1
  <2>1. p \in Places /\ summary[p] \in Summary /\ Listed(summary[p]) /\ generation + 1 \in Nat
    BY <1>0, PlacesOf DEF SInv, SummariesListed
  <2>2. CASE x = None
    <3>1. summary'[p] = Stopped(summary[p], m, 1, generation + 1)
      BY <1>0, <2>1, <2>2, PlacesOf
    <3>2. 1 <= summary[p].activity[m]
      <4>1. CASE p = t
        BY <4>1, <1>2, <2>2
      <4>2. CASE p = Feed
        BY <4>2, <1>4, <2>2, TopicsOf DEF SInv, TimersCounted
      <4>. QED
        BY <4>1, <4>2
    <3>3. 1 \in Nat \ {0} /\ summary[p].activity[m] + a = summary[p].activity[m] - 1
      BY <1>1, <2>1, <2>2 DEF Summary
    <3>4. [summary[p].activity EXCEPT ![m] = @ - 1] = [summary[p].activity EXCEPT ![m] = @ + a]
      BY <3>3
    <3>5. PICK g \in Nat : g = generation + 1
      BY <2>1
    <3>6. /\ Stopped(summary[p], m, 1, g) \in Summary
          /\ Listed(Stopped(summary[p], m, 1, g))
          /\ Stopped(summary[p], m, 1, g).activity = [summary[p].activity EXCEPT ![m] = @ - 1]
          /\ \/ Same(Stopped(summary[p], m, 1, g), summary[p])
             \/ Stopped(summary[p], m, 1, g).generation = g
      <4>1. /\ summary[p] \in Summary /\ Listed(summary[p]) /\ 1 <= summary[p].activity[m]
            /\ 1 \in Nat \ {0}
        BY <2>1, <3>2
      <4>. QED
        BY <4>1, StoppedOnce
    <3>. QED
      BY <3>1, <3>4, <3>5, <3>6
  <2>3. CASE x # None
    <3>1. summary'[p] = Started(summary[p], m, generation + 1)
      BY <1>0, <2>1, <2>3, PlacesOf
    <3>. QED
      BY <1>1, <2>1, <2>3, <3>1, StartedKeeps
  <2>. QED
    BY <2>2, <2>3
<1>7. ASSUME NEW p \in Places, p \notin {t, Feed} PROVE summary'[p] = summary[p]
  BY <1>0, <1>7
<1>8. SummaryMoves
  <2>1. ASSUME NEW p \in Places
        PROVE  Same(summary'[p], summary[p]) \/ summary'[p].generation > generation
    BY <1>0, <1>6, <1>7, SameStays
  <2>. QED
    BY <1>0, <2>1 DEF SummaryMoves
<1>9. SummariesTyped' /\ SummariesListed'
  <2>1. DOMAIN summary' = Places /\ summary' = [p \in Places |-> summary'[p]]
    BY <1>0
  <2>2. ASSUME NEW p \in Places
        PROVE  summary'[p] \in Summary /\ Listed(summary'[p])
    BY <1>0, <1>6, <1>7 DEF SInv, SummariesListed
  <2>3. ASSUME NEW p \in Places PROVE summary'[p].generation <= generation'
    <3>1. summary[p].generation <= generation /\ summary[p].generation \in Nat
      BY <1>0 DEF SInv, SummariesListed, Summary
    <3>2. Same(summary'[p], summary[p]) \/ summary'[p].generation = generation + 1
      BY <1>6, <1>7, SameStays
    <3>. QED
      BY <1>0, <3>1, <3>2 DEF Same
  <2>4. summary' \in [Places -> Summary]
    BY <2>1, <2>2
  <2>. QED
    BY <1>0, <2>2, <2>3, <2>4 DEF SInv, SummariesTyped, SummariesListed
<1>10. TimersCounted'
  <2>1. \A n \in Members, u \in Topics : summary'[u].activity[n] = IF expiry'[n][u] # None THEN 1 ELSE 0
    <3>. SUFFICES ASSUME NEW n \in Members, NEW u \in Topics
         PROVE  summary'[u].activity[n] = IF expiry'[n][u] # None THEN 1 ELSE 0
      OBVIOUS
    <3>1. summary[u].activity[n] = IF expiry[n][u] # None THEN 1 ELSE 0
      BY DEF SInv, TimersCounted
    <3>2. CASE u = t
      <4>1. summary'[u].activity[n] = IF n = m THEN summary[u].activity[n] + a ELSE summary[u].activity[n]
        <5>1. summary[t].activity \in [Members -> Nat]
          BY <1>0, PlacesOf DEF Summary
        <5>2. summary'[t].activity = [summary[t].activity EXCEPT ![m] = @ + a]
          BY <1>6
        <5>. QED
          BY <3>2, <5>1, <5>2
      <4>. QED
        BY <1>1, <1>2, <1>3, <3>1, <3>2, <4>1
    <3>3. CASE u # t
      <4>1. summary'[u] = summary[u]
        BY <1>7, <3>3, PlacesOf
      <4>2. expiry'[n][u] = expiry[n][u]
        BY <1>3, <3>3
      <4>. QED
        BY <3>1, <4>1, <4>2
    <3>. QED
      BY <3>2, <3>3
  <2>2. ASSUME NEW n \in Members PROVE summary'[Feed].activity[n] = Cardinality(Shown(n)')
    <3>1. summary'[Feed].activity[n] = IF n = m THEN summary[Feed].activity[n] + a ELSE summary[Feed].activity[n]
      <4>1. summary[Feed].activity \in [Members -> Nat]
        BY <1>0, PlacesOf DEF Summary
      <4>2. summary'[Feed].activity = [summary[Feed].activity EXCEPT ![m] = @ + a]
        BY <1>6
      <4>. QED
        BY <4>1, <4>2
    <3>2. summary[Feed].activity[n] = Cardinality(Shown(n))
      BY DEF SInv, TimersCounted
    <3>. QED
      BY <1>4, <1>5, <3>1, <3>2
  <2>. QED
    BY <2>1, <2>2 DEF TimersCounted
<1>11. ShownHasStream'
  <2>1. ASSUME NEW n \in Members, Shown(n)' # {} PROVE streams'[n] > 0
    BY <1>4, <2>1 DEF SInv, ShownHasStream
  <2>. QED
    BY <2>1 DEF ShownHasStream
<1>. QED
  BY <1>8, <1>9, <1>10, <1>11 DEF SInv
(* The last stream of a member closes: all the member's activities end.    *)
LEMMA CloseMoves ==
  ASSUME TimersTyped, SInv, NEW m \in Members, Close(m)
  PROVE  SInv' /\ SummaryMoves
<1> DEFINE active == {t \in Topics : Active(m, t)}
<1>0. generation \in Nat /\ summary \in [Places -> Summary] /\ streams \in [Members -> Nat]
  BY DEF SInv, SummariesTyped
<1>1. active = Shown(m)
  <2>1. ASSUME NEW t \in Topics PROVE Active(m, t) <=> expiry[m][t] # None
    <3>1. summary[t].activity[m] = IF expiry[m][t] # None THEN 1 ELSE 0
      BY DEF SInv, TimersCounted
    <3>. QED
      BY <3>1 DEF Active
  <2>. QED
    BY <2>1 DEF Shown
<1>2. streams' = [streams EXCEPT ![m] = @ - 1] /\ streams[m] > 0
  BY Zenon DEF Close
<1>3. streams' \in [Members -> Nat]
  BY <1>0, <1>2
<1>4. CASE streams[m] > 1 \/ active = {}
  <2>1. UNCHANGED <<expiry, generation, summary>>
    BY <1>4 DEF Close, activityVars
  <2>2. \A n \in Members : Shown(n) # {} => streams'[n] > 0
    BY <1>0, <1>1, <1>2, <1>4 DEF SInv, ShownHasStream
  <2>. QED
    BY <1>3, <2>1, <2>2, StreamsKeep
<1>5. CASE ~ (streams[m] > 1 \/ active = {})
  <2>0. PICK ending : ending = Cardinality(active)
    OBVIOUS
  <2>1. /\ generation' = generation + ending
        /\ expiry' = [expiry EXCEPT ![m] = [t \in Topics |-> IF t \in active THEN None ELSE @[t]]]
    BY <1>5, <2>0 DEF Close
  <2>2. PICK rank \in [active -> 1..ending] :
          summary' = [p \in Places |->
            IF p \in active THEN Stopped(summary[p], m, 1, generation + rank[p])
            ELSE IF p = Feed THEN Stopped(summary[p], m, ending, generation + ending)
            ELSE summary[p]]
    <3>1. \E rank \in [active -> 1..Cardinality(active)] :
            /\ \A t, u \in active : rank[t] = rank[u] => t = u
            /\ summary' = [p \in Places |->
                 IF p \in active THEN Stopped(summary[p], m, 1, generation + rank[p])
                 ELSE IF p = Feed
                      THEN Stopped(summary[p], m, Cardinality(active), generation + Cardinality(active))
                 ELSE summary[p]]
      BY <1>5, Zenon DEF Close
    <3>. HIDE DEF active
    <3>. QED
      BY <2>0, <3>1
  <2>3. ending \in Nat \ {0} /\ ending = summary[Feed].activity[m]
    BY <1>1, <1>5, <2>0, TopicsOf DEF SInv, TimersCounted
  <2>4. \A t \in active : t \in Topics /\ t # Feed /\ t \in Places /\ summary[t].activity[m] = 1
    BY PlacesOf DEF SInv, TimersCounted, Active
  <2>h. HIDE DEF active
  <2>5. ASSUME NEW p \in active
        PROVE  /\ summary'[p] \in Summary /\ Listed(summary'[p])
               /\ summary'[p].activity = [summary[p].activity EXCEPT ![m] = 0]
               /\ \/ Same(summary'[p], summary[p])
                  \/ summary'[p].generation \in generation + 1..generation + ending
    <3>1. summary'[p] = Stopped(summary[p], m, 1, generation + rank[p]) /\ rank[p] \in 1..ending
      BY <2>2, <2>4
    <3>2. PICK g \in Nat : g = generation + rank[p] /\ g \in generation + 1..generation + ending
      BY <1>0, <2>3, <3>1
    <3>3. /\ summary[p] \in Summary /\ Listed(summary[p]) /\ 1 <= summary[p].activity[m]
          /\ 1 \in Nat \ {0}
      BY <1>0, <2>4 DEF SInv, SummariesListed
    <3>4. /\ Stopped(summary[p], m, 1, g) \in Summary
          /\ Listed(Stopped(summary[p], m, 1, g))
          /\ Stopped(summary[p], m, 1, g).activity = [summary[p].activity EXCEPT ![m] = @ - 1]
          /\ \/ Same(Stopped(summary[p], m, 1, g), summary[p])
             \/ Stopped(summary[p], m, 1, g).generation = g
      BY <3>3, StoppedKeeps
    <3>5. [summary[p].activity EXCEPT ![m] = @ - 1] = [summary[p].activity EXCEPT ![m] = 0]
      BY <2>4
    <3>. QED
      BY <3>1, <3>2, <3>4, <3>5
  <2>6. /\ summary'[Feed] \in Summary /\ Listed(summary'[Feed])
        /\ summary'[Feed].activity = [summary[Feed].activity EXCEPT ![m] = 0]
        /\ Same(summary'[Feed], summary[Feed]) \/ summary'[Feed].generation = generation + ending
    <3>1. summary'[Feed] = Stopped(summary[Feed], m, ending, generation + ending)
      BY <2>2, <2>4, PlacesOf
    <3>2. PICK g \in Nat : g = generation + ending
      BY <1>0, <2>3
    <3>3. /\ summary[Feed] \in Summary /\ Listed(summary[Feed]) /\ ending <= summary[Feed].activity[m]
      BY <1>0, <2>3, PlacesOf DEF SInv, SummariesListed
    <3>4. /\ Stopped(summary[Feed], m, ending, g) \in Summary
          /\ Listed(Stopped(summary[Feed], m, ending, g))
          /\ Stopped(summary[Feed], m, ending, g).activity = [summary[Feed].activity EXCEPT ![m] = @ - ending]
          /\ \/ Same(Stopped(summary[Feed], m, ending, g), summary[Feed])
             \/ Stopped(summary[Feed], m, ending, g).generation = g
      BY <2>3, <3>3, StoppedKeeps
    <3>5. [summary[Feed].activity EXCEPT ![m] = @ - ending] = [summary[Feed].activity EXCEPT ![m] = 0]
      BY <2>3
    <3>. QED
      BY <3>1, <3>2, <3>4, <3>5
  <2>7. ASSUME NEW p \in Places, p \notin active, p # Feed PROVE summary'[p] = summary[p]
    BY <2>2, <2>7
  <2>8. SummaryMoves
    <3>1. ASSUME NEW p \in Places
          PROVE  Same(summary'[p], summary[p]) \/ summary'[p].generation > generation
      <4>1. CASE p \in active
        <5>1. \A g \in generation + 1..generation + ending : g > generation
          BY <1>0
        <5>. QED
          BY <2>5, <4>1, <5>1
      <4>2. CASE p = Feed
        BY <1>0, <2>3, <2>6, <4>2
      <4>3. CASE p \notin active /\ p # Feed
        BY <2>7, <4>3, SameStays
      <4>. QED
        BY <4>1, <4>2, <4>3
    <3>. QED
      BY <1>0, <2>1, <2>3, <3>1 DEF SummaryMoves
  <2>9. SummariesTyped' /\ SummariesListed'
    <3>1. summary' = [p \in Places |-> summary'[p]]
      BY <2>2
    <3>2. ASSUME NEW p \in Places PROVE summary'[p] \in Summary /\ Listed(summary'[p])
      BY <1>0, <2>5, <2>6, <2>7 DEF SInv, SummariesListed
    <3>3. ASSUME NEW p \in Places PROVE summary'[p].generation <= generation'
      <4>1. summary[p].generation <= generation /\ summary[p].generation \in Nat
        BY <1>0 DEF SInv, SummariesListed, Summary
      <4>2. \/ Same(summary'[p], summary[p])
            \/ summary'[p].generation \in generation + 1..generation + ending
        <5>1. CASE p \in active
          BY <2>5, <5>1
        <5>2. CASE p = Feed
          BY <1>0, <2>3, <2>6, <5>2
        <5>3. CASE p \notin active /\ p # Feed
          BY <2>7, <5>3, SameStays
        <5>. QED
          BY <5>1, <5>2, <5>3
      <4>. QED
        BY <1>0, <2>1, <2>3, <4>1, <4>2 DEF Same
    <3>4. summary' \in [Places -> Summary]
      BY <3>1, <3>2
    <3>. QED
      BY <1>0, <1>3, <2>1, <2>3, <3>2, <3>3, <3>4 DEF SummariesTyped, SummariesListed
  <2>10. /\ \A n \in Members \ {m}, t \in Topics : expiry'[n][t] = expiry[n][t]
         /\ \A t \in Topics : expiry'[m][t] = None
    <3>1. \A n \in Members \ {m}, t \in Topics : expiry'[n][t] = expiry[n][t]
      BY <2>1 DEF TimersTyped
    <3>2. \A t \in Topics : expiry'[m][t] = IF t \in active THEN None ELSE expiry[m][t]
      BY <2>1 DEF TimersTyped
    <3>. QED
      BY <3>1, <3>2, <1>1 DEF Shown
  <2>11. Shown(m)' = {} /\ \A n \in Members \ {m} : Shown(n)' = Shown(n)
    BY <2>10 DEF Shown
  <2>12. ASSUME NEW p \in Places, NEW n \in Members
         PROVE  summary'[p].activity[n] =
                  IF n = m /\ (p \in active \/ p = Feed) THEN 0 ELSE summary[p].activity[n]
    <3>1. summary[p].activity \in [Members -> Nat]
      BY <1>0 DEF Summary
    <3>. QED
      BY <3>1, <2>5, <2>6, <2>7
  <2>13. TimersCounted'
    <3>1. ASSUME NEW n \in Members, NEW t \in Topics
          PROVE  summary'[t].activity[n] = IF expiry'[n][t] # None THEN 1 ELSE 0
      <4>1. summary[t].activity[n] = IF expiry[n][t] # None THEN 1 ELSE 0
        BY DEF SInv, TimersCounted
      <4>2. CASE n = m
        <5>1. t \notin active => expiry[m][t] = None
          BY <1>1 DEF Shown
        <5>. QED
          BY <2>10, <2>12, <4>1, <4>2, <5>1, PlacesOf
      <4>3. CASE n # m
        BY <2>10, <2>12, <4>1, <4>3, PlacesOf
      <4>. QED
        BY <4>2, <4>3
    <3>2. ASSUME NEW n \in Members PROVE summary'[Feed].activity[n] = Cardinality(Shown(n)')
      <4>1. CASE n = m
        BY <4>1, <2>11, <2>12, PlacesOf, FS_EmptySet
      <4>2. CASE n # m
        BY <4>2, <2>11, <2>12, PlacesOf DEF SInv, TimersCounted
      <4>. QED
        BY <4>1, <4>2
    <3>. QED
      BY <3>1, <3>2 DEF TimersCounted
  <2>14. ShownHasStream'
    <3>1. ASSUME NEW n \in Members, Shown(n)' # {} PROVE streams'[n] > 0
      BY <1>0, <1>2, <2>11, <3>1 DEF SInv, ShownHasStream
    <3>. QED
      BY <3>1 DEF ShownHasStream
  <2>. QED
    BY <2>8, <2>9, <2>13, <2>14 DEF SInv
<1>. QED
  BY <1>4, <1>5

LEMMA StopMoves ==
  ASSUME TimersTyped, SInv, NEW m \in Members, NEW t \in Topics, Stop(m, t), UNCHANGED streams
  PROVE  SInv' /\ SummaryMoves
<1>1. CASE Active(m, t)
  <2>1. /\ expiry' = [expiry EXCEPT ![m][t] = None] /\ generation' = generation + 1
        /\ summary' = [summary EXCEPT ![t] = Stopped(@, m, 1, generation + 1),
                                      ![Feed] = Stopped(@, m, 1, generation + 1)]
    BY <1>1, Zenon DEF Stop
  <2>2. PICK x \in Timers \cup {None} : x = None
    OBVIOUS
  <2>. QED
    BY <1>1, <2>1, <2>2, OneMoves
<1>2. CASE ~ Active(m, t)
  <2>1. UNCHANGED <<expiry, generation, summary>>
    BY <1>2 DEF Stop, activityVars
  <2>2. streams' \in [Members -> Nat] /\ \A n \in Members : Shown(n) # {} => streams'[n] > 0
    BY DEF SInv, SummariesTyped, ShownHasStream
  <2>. QED
    BY <2>1, <2>2, StreamsKeep
<1>. QED
  BY <1>1, <1>2

LEMMA StartMoves ==
  ASSUME TimersTyped, SInv, NEW m \in Members, NEW t \in Topics, Start(m, t), streams[m] > 0,
         UNCHANGED streams
  PROVE  SInv' /\ SummaryMoves
<1>1. PICK x \in Timers : expiry' = [expiry EXCEPT ![m][t] = x]
  BY Zenon DEF Start, Refresh
<1>2. x \in Timers \cup {None} /\ x # None
  BY TypingAssumption
<1>3. CASE Active(m, t)
  BY <1>1, <1>3, RefreshKeeps DEF Start
<1>4. CASE ~ Active(m, t)
  <2>1. /\ generation' = generation + 1
        /\ summary' = [summary EXCEPT ![t] = Started(@, m, generation + 1),
                                      ![Feed] = Started(@, m, generation + 1)]
    BY <1>4, Zenon DEF Start
  <2>. QED
    BY <1>1, <1>2, <1>4, <2>1, OneMoves
<1>. QED
  BY <1>3, <1>4
LEMMA SInvStep ==
  ASSUME TimersTyped, SignalsTyped, SInv, [Next]_vars
  PROVE  SInv' /\ SummaryMoves
<1>0. generation \in Nat /\ streams \in [Members -> Nat] /\ \A n \in Members : Shown(n) # {} => streams[n] > 0
  BY DEF SInv, SummariesTyped, ShownHasStream
<1>1. CASE UNCHANGED <<streams, expiry, generation, summary>>
  BY <1>0, <1>1, StreamsKeep
<1>2. ASSUME NEW m \in Members, Open(m) PROVE SInv' /\ SummaryMoves
  <2>1. streams' = [streams EXCEPT ![m] = @ + 1] /\ UNCHANGED <<expiry, generation, summary>>
    BY <1>2 DEF Open, activityVars
  <2>2. streams' \in [Members -> Nat] /\ \A n \in Members : streams'[n] >= streams[n]
    BY <1>0, <2>1
  <2>3. \A n \in Members : Shown(n) # {} => streams'[n] > 0
    BY <1>0, <2>2
  <2>. QED
    BY <2>1, <2>2, <2>3, StreamsKeep
<1>3. ASSUME NEW m \in Members, Close(m) PROVE SInv' /\ SummaryMoves
  BY <1>3, CloseMoves
<1>4. ASSUME NEW x \in Timers, Expire(x) PROVE SInv' /\ SummaryMoves
  <2>1. PICK m \in Members, t \in Topics : m = timer[x].member /\ t = timer[x].topic
    BY <1>4 DEF Expire, TimersTyped, Timer, Idle
  <2>2. streams' = streams
    BY <1>4 DEF Expire
  <2>3. CASE expiry[m][t] = x /\ Active(m, t)
    <3>1. /\ expiry' = [expiry EXCEPT ![m][t] = None] /\ generation' = generation + 1
          /\ summary' = [summary EXCEPT ![t] = Stopped(@, m, 1, generation + 1),
                                        ![Feed] = Stopped(@, m, 1, generation + 1)]
      BY <1>4, <2>1, <2>3 DEF Expire
    <3>2. PICK y \in Timers \cup {None} : y = None
      OBVIOUS
    <3>. QED
      BY <2>2, <2>3, <3>1, <3>2, OneMoves
  <2>4. CASE ~ (expiry[m][t] = x /\ Active(m, t))
    <3>1. UNCHANGED <<expiry, generation, summary>>
      BY <1>4, <2>1, <2>4 DEF Expire
    <3>. QED
      BY <1>1, <2>2, <3>1
  <2>. QED
    BY <2>3, <2>4
<1>5. ASSUME NEW r \in Requests, Signal(r) PROVE SInv' /\ SummaryMoves
  <2>1. PICK c \in Composers : c = signal[r].composer
    BY <1>5 DEF Signal, SignalsTyped, Signals, Idle
  <2>2. PICK m \in Members, t \in Topics : m = Scope[c].member /\ t = Scope[c].topic
    BY TypingAssumption
  <2>3. streams' = streams
    BY <1>5 DEF Signal
  <2>4. CASE Accepted(signal[r])
    <3>1. Start(m, t)
      BY <1>5, <2>1, <2>2, <2>4 DEF Signal
    <3>2. streams[m] > 0
      BY <2>1, <2>2, <2>4 DEF Accepted
    <3>. QED
      BY <2>3, <3>1, <3>2, StartMoves
  <2>5. CASE ~ Accepted(signal[r])
    BY <1>1, <1>5, <2>3, <2>5 DEF Signal, activityVars
  <2>. QED
    BY <2>4, <2>5
<1>6. ASSUME NEW c \in Composers, Posted(c) PROVE SInv' /\ SummaryMoves
  <2>1. Scope[c].member \in Members /\ Scope[c].topic \in Topics
    BY TypingAssumption
  <2>2. PICK m \in Members, t \in Topics : m = Scope[c].member /\ t = Scope[c].topic
    BY <2>1
  <2>3. Stop(m, t) /\ streams' = streams
    BY <1>6, <2>2 DEF Posted
  <2>. QED
    BY <2>3, StopMoves
<1>7. ASSUME NEW m \in Members, NEW t \in Topics, PostedWithout(m, t) PROVE SInv' /\ SummaryMoves
  BY <1>7, StopMoves DEF PostedWithout
<1>8. ASSUME NEW x \in Timers, Fire(x) PROVE SInv' /\ SummaryMoves
  BY <1>1, <1>8 DEF Fire
<1>9. ASSUME NEW r \in Requests, NEW c \in Composers, Handle(r, c) PROVE SInv' /\ SummaryMoves
  BY <1>1, <1>9 DEF Handle, activityVars
<1>10. ASSUME NEW x \in Closures, RetentionEnds(x) \/ Reopen(x) PROVE SInv' /\ SummaryMoves
  BY <1>1, <1>10, Zenon DEF RetentionEnds, Reopen, activityVars
<1>11. CASE Connect \/ Update \/ Tick
  BY <1>1, <1>11 DEF Connect, Update, Tick, activityVars
<1>12. CASE UNCHANGED vars
  BY <1>1, <1>12 DEF vars, activityVars
<1>. QED
  BY <1>2, <1>3, <1>4, <1>5, <1>6, <1>7, <1>8, <1>9, <1>10, <1>11, <1>12 DEF Next

-----------------------------------------------------------------------------
(* What a page is given.                                                   *)

(* A list without repetitions counts what it lists.                        *)
LEMMA CountOf ==
  ASSUME NEW list \in Seq(Members), Distinct(list), NEW S \in SUBSET Members,
         \A m \in Members : m \in S <=> Has(list, m)
  PROVE  IsFiniteSet(S) /\ Cardinality(S) = Len(list)
<1>1. PICK n \in Nat : n = Len(list) /\ DOMAIN list = 1..n
  OBVIOUS
<1>2. list \in [1..n -> S]
  <2>1. \A i \in 1..n : list[i] \in S
    BY <1>1 DEF Has
  <2>. QED
    BY <1>1, <2>1
<1>3. list \in Bijection(1..n, S)
  BY <1>1, <1>2 DEF Bijection, Injection, Surjection, Distinct, Has, IsInjective
<1>4. ExistsBijection(1..n, S)
  BY <1>3 DEF ExistsBijection
<1>. QED
  BY <1>1, <1>4, FS_CountingElements, FS_NatBijection

(* The beginning of a list.                                                *)
LEMMA FirstOf ==
  ASSUME NEW list \in Seq(Members), Distinct(list), NEW n \in Nat
  PROVE  /\ First(list, n) \in Seq(Members) /\ Distinct(First(list, n))
         /\ Len(First(list, n)) = Min2(n, Len(list))
         /\ \A m \in Members : Has(First(list, n), m) => Has(list, m)
         /\ Len(list) <= n => \A m \in Members : Has(list, m) => Has(First(list, n), m)
<1>1. PICK k \in Nat : k = Min2(n, Len(list)) /\ k <= Len(list) /\ (Len(list) <= n => k = Len(list))
  BY DEF Min2
<1>2. PICK f : f = SubSeq(list, 1, k)
  OBVIOUS
<1>3. f \in Seq(Members) /\ Len(f) = k /\ DOMAIN f = 1..k /\ \A i \in 1..k : f[i] = list[i]
  BY <1>1, <1>2
<1>4. 1..k \subseteq DOMAIN list
  BY <1>1
<1>5. First(list, n) = f
  BY <1>1, <1>2 DEF First
<1>6. Distinct(f)
  BY <1>3, <1>4 DEF Distinct
<1>7. \A m \in Members : Has(f, m) => Has(list, m)
  BY <1>3, <1>4 DEF Has
<1>8. Len(list) <= n => \A m \in Members : Has(list, m) => Has(f, m)
  BY <1>1, <1>3 DEF Has
<1>. QED
  BY <1>1, <1>3, <1>5, <1>6, <1>7, <1>8

(* The names and the rest, as a viewer of a place should be told them.     *)
Tells(p, v, names, remaining) ==
  LET others == Typing(p) \ {v}
      named == {names[i] : i \in 1..Len(names)}
  IN  /\ named \subseteq others
      /\ Cardinality(named) = Min2(Names, Cardinality(others))
      /\ remaining = Cardinality(others) - Cardinality(named)

(* The viewer takes no place: the candidates are one more than the names.  *)
LEMMA ReadIsTrue ==
  ASSUME TimersTyped, SInv, NEW p \in Places, NEW v
  PROVE  Tells(p, v, Read(p, v).names, Read(p, v).remaining)
<1>0. Names \in Nat /\ Candidates = Names + 1 /\ Candidates \in Nat
  BY TypingAssumption
<1>1. summary[p] \in Summary /\ Listed(summary[p])
  BY DEF SInv, SummariesTyped, SummariesListed
<1>2. PICK A \in SUBSET Members : A = {m \in Members : summary[p].activity[m] > 0}
  OBVIOUS
<1>3. Typing(p) = A
  <2>1. ASSUME NEW m \in Members
        PROVE  (streams[m] > 0 /\ \E t \in Topics : p \in {t, Feed} /\ expiry[m][t] # None)
                 <=> summary[p].activity[m] > 0
    <3>1. (\E t \in Topics : expiry[m][t] # None) <=> Shown(m) # {}
      BY DEF Shown
    <3>2. CASE p = Feed
      <4>1. summary[p].activity[m] > 0 <=> Shown(m) # {}
        BY <3>2, TopicsOf DEF SInv, TimersCounted
      <4>. QED
        BY <3>1, <3>2, <4>1 DEF SInv, ShownHasStream
    <3>3. CASE p # Feed
      <4>1. p \in Topics
        BY <3>3 DEF Places
      <4>2. summary[p].activity[m] > 0 <=> expiry[m][p] # None
        BY <4>1 DEF SInv, TimersCounted
      <4>3. expiry[m][p] # None => streams[m] > 0
        BY <4>1 DEF SInv, ShownHasStream, Shown
      <4>. QED
        BY <3>3, <4>1, <4>2, <4>3
    <3>. QED
      BY <3>2, <3>3
  <2>. QED
    BY <1>2, <2>1 DEF Typing
<1>4. PICK list \in Seq(Members) : list = summary[p].starts /\ Distinct(list)
                                  /\ \A m \in Members : m \in A <=> Has(list, m)
  BY <1>1, <1>2 DEF Summary, Listed
<1>5. IsFiniteSet(A) /\ Cardinality(A) = Len(list) /\ Len(list) \in Nat
  BY <1>4, CountOf
<1>6. PICK c : c = First(list, Candidates)
  OBVIOUS
<1>7. /\ c \in Seq(Members) /\ Distinct(c) /\ Len(c) = Min2(Candidates, Len(list))
      /\ \A m \in Members : Has(c, m) => Has(list, m)
      /\ Len(list) <= Candidates => \A m \in Members : Has(list, m) => Has(c, m)
  BY <1>0, <1>4, <1>6, FirstOf
<1>8. PICK w : w = Without(c, v)
  OBVIOUS
<1>9. /\ w \in Seq(Members) /\ Distinct(w)
      /\ \A m \in Members : Has(w, m) <=> m # v /\ Has(c, m)
      /\ Len(w) = IF Has(c, v) THEN Len(c) - 1 ELSE Len(c)
  BY <1>7, <1>8, WithoutOne
<1>10. PICK f : f = First(w, Names)
  OBVIOUS
<1>11. /\ f \in Seq(Members) /\ Distinct(f) /\ Len(f) = Min2(Names, Len(w))
       /\ \A m \in Members : Has(f, m) => Has(w, m)
  BY <1>0, <1>9, <1>10, FirstOf
<1>12. PICK named \in SUBSET Members : named = {f[i] : i \in 1..Len(f)}
  <2>1. \A i \in 1..Len(f) : f[i] \in Members
    BY <1>11
  <2>. QED
    BY <2>1
<1>13. \A m \in Members : m \in named <=> Has(f, m)
  BY <1>11, <1>12 DEF Has
<1>14. Cardinality(named) = Len(f)
  BY <1>11, <1>13, CountOf
<1>15. Cardinality(A \ {v}) = IF v \in A THEN Len(list) - 1 ELSE Len(list)
  BY <1>5, FS_RemoveElement
<1>16. named \subseteq A \ {v}
  BY <1>4, <1>7, <1>9, <1>11, <1>13
<1>17. Len(f) = Min2(Names, Cardinality(A \ {v}))
  <2>1. Has(c, v) => v \in A
    BY <1>4, <1>7 DEF Has
  <2>2. Len(list) <= Candidates /\ v \in A => Has(c, v)
    BY <1>4, <1>7
  <2>3. v \in A => Len(list) # 0
    BY <1>4 DEF Has
  <2>. QED
    BY <1>0, <1>5, <1>7, <1>9, <1>11, <1>15, <2>1, <2>2, <2>3 DEF Min2
<1>18. Read(p, v) = [names |-> f, remaining |-> Cardinality(A \ {v}) - Len(f)]
  <2>1. {m \in Members : summary[p].activity[m] > 0 /\ m # v} = A \ {v}
    BY <1>2
  <2>. QED
    BY <1>4, <1>6, <1>8, <1>10, <2>1 DEF Read
<1>19. Read(p, v).names = f /\ Read(p, v).remaining = Cardinality(A \ {v}) - Len(f)
  BY <1>18
<1>. QED
  BY <1>3, <1>12, <1>14, <1>16, <1>17, <1>19 DEF Tells
PageTyped ==
  /\ page = [viewer |-> page.viewer, place |-> page.place, seen |-> page.seen,
             read |-> page.read, names |-> page.names, remaining |-> page.remaining]
  /\ page.place \in Places
  /\ page.seen \in Nat /\ page.seen <= generation

(* A page that read its place shows what a read would give it now, unless  *)
(* the place changed after the generation the page acknowledged.           *)
Fresh ==
  page.read /\ summary[page.place].generation <= page.seen =>
    /\ page.names = Read(page.place, page.viewer).names
    /\ page.remaining = Read(page.place, page.viewer).remaining

PInv == PageTyped /\ Fresh

(* What nobody can tell apart reads the same.                              *)
LEMMA ReadSame ==
  ASSUME NEW p, NEW v, Same(summary'[p], summary[p])
  PROVE  Read(p, v)' = Read(p, v)
<1>1. {m \in Members : summary'[p].activity[m] > 0 /\ m # v}
        = {m \in Members : summary[p].activity[m] > 0 /\ m # v}
  BY DEF Same
<1>2. summary'[p].starts = summary[p].starts
  BY DEF Same
<1>. QED
  BY <1>1, <1>2 DEF Read

LEMMA PInvStep ==
  ASSUME SInv, SInv', PInv, SummaryMoves, [Next]_vars
  PROVE  PInv'
<1>0. generation \in Nat /\ generation' \in Nat /\ generation <= generation'
  BY DEF SInv, SummariesTyped, SummaryMoves
<1>1. CASE page' = page
  <2>1. PageTyped'
    BY <1>0, <1>1 DEF PInv, PageTyped
  <2>2. PICK p \in Places : p = page.place
    BY DEF PInv, PageTyped
  <2>3. PICK v : v = page.viewer
    OBVIOUS
  <2>4. Fresh'
    <3>. SUFFICES ASSUME page.read, summary'[p].generation <= page.seen
         PROVE  page.names = Read(p, v)'.names /\ page.remaining = Read(p, v)'.remaining
      BY <1>1, <2>2, <2>3 DEF Fresh
    <3>1. page.seen <= generation /\ page.seen \in Nat
      BY DEF PInv, PageTyped
    <3>2. Same(summary'[p], summary[p]) \/ summary'[p].generation > generation
      BY DEF SummaryMoves
    <3>3. Same(summary'[p], summary[p])
      <4>1. summary'[p].generation \in Nat
        BY DEF SInv, SummariesTyped, Summary
      <4>. QED
        BY <1>0, <3>1, <3>2, <4>1
    <3>4. Read(p, v)' = Read(p, v)
      BY <3>3, ReadSame
    <3>5. summary[p].generation <= page.seen
      BY <3>3 DEF Same
    <3>. QED
      BY <2>2, <2>3, <3>4, <3>5 DEF PInv, Fresh
  <2>. QED
    BY <2>1, <2>4 DEF PInv
<1>2. CASE Connect
  <2>1. page' = [page EXCEPT !.seen = 0, !.read = FALSE] /\ generation' = generation
    BY <1>2 DEF Connect, activityVars
  <2>2. PageTyped'
    <3>1. page' = [viewer |-> page.viewer, place |-> page.place, seen |-> 0,
                   read |-> FALSE, names |-> page.names, remaining |-> page.remaining]
      BY <2>1 DEF PInv, PageTyped
    <3>2. /\ page' = [viewer |-> page'.viewer, place |-> page'.place, seen |-> page'.seen,
                      read |-> page'.read, names |-> page'.names, remaining |-> page'.remaining]
          /\ page'.place = page.place /\ page'.seen = 0
      BY <3>1
    <3>. QED
      BY <1>0, <2>1, <3>2 DEF PInv, PageTyped
  <2>3. page'.read = FALSE
    BY <2>1 DEF PInv, PageTyped
  <2>4. Fresh'
    BY <2>3, Zenon DEF Fresh
  <2>. QED
    BY <2>2, <2>4 DEF PInv
<1>3. CASE Update
  <2>1. summary' = summary /\ generation' = generation
    BY <1>3 DEF Update, activityVars
  <2>2. \/ /\ page.read /\ summary[page.place].generation <= page.seen
           /\ page' = [page EXCEPT !.seen = generation]
        \/ page' = [page EXCEPT !.seen = generation, !.read = TRUE,
                                !.names = Read(page.place, page.viewer).names,
                                !.remaining = Read(page.place, page.viewer).remaining]
    BY <1>3 DEF Update
  <2>3. page'.place = page.place /\ page'.viewer = page.viewer /\ page'.seen = generation
    BY <2>2 DEF PInv, PageTyped
  <2>4. PICK p, v : p \in Places /\ p = page.place /\ v = page.viewer
    BY DEF PInv, PageTyped
  <2>5. page'.names = Read(p, v).names /\ page'.remaining = Read(p, v).remaining
    BY <2>2, <2>4 DEF PInv, PageTyped, Fresh
  <2>6. Read(p, v)' = Read(p, v)
    BY <2>1 DEF Read
  <2>7. PageTyped'
    BY <1>0, <2>1, <2>2 DEF PInv, PageTyped
  <2>8. Fresh'
    BY <2>3, <2>4, <2>5, <2>6 DEF Fresh
  <2>. QED
    BY <2>7, <2>8 DEF PInv
<1>. QED
  BY <1>1, <1>2, <1>3, Zenon
  DEF Next, vars, Open, Close, Fire, Expire, Signal, Handle, Posted, PostedWithout, RetentionEnds,
      Reopen, Tick

LEMMA PageInit == Init => SInv /\ PInv
<1>. SUFFICES ASSUME Init PROVE SInv /\ PInv
  OBVIOUS
<1>1. SummariesTyped
  <2>1. [generation |-> 0, activity |-> [m \in Members |-> 0], starts |-> <<>>] \in Summary
    <3>1. <<>> \in Seq(Members)
      OBVIOUS
    <3>. QED
      BY <3>1 DEF Summary
  <2>. QED
    BY <2>1 DEF Init, SummariesTyped
<1>2. SummariesListed
  BY DEF Init, SummariesListed, Listed, Distinct, Has
<1>3. \A m \in Members : Shown(m) = {}
  BY DEF Init, Shown
<1>4. TimersCounted
  BY <1>3, PlacesOf, FS_EmptySet DEF Init, TimersCounted
<1>5. ShownHasStream
  BY <1>3 DEF ShownHasStream
<1>6. PInv
  <2>1. PICK q \in Pages : page = [viewer |-> q.viewer, place |-> q.place, seen |-> 0, read |-> FALSE,
                                  names |-> <<>>, remaining |-> 0]
    BY DEF Init
  <2>2. q.place \in Places
    BY TypingAssumption DEF Places
  <2>3. PageTyped
    BY <2>1, <2>2 DEF Init, PageTyped
  <2>4. Fresh
    BY <2>1 DEF Fresh
  <2>. QED
    BY <2>3, <2>4 DEF PInv
<1>. QED
  BY <1>1, <1>2, <1>4, <1>5, <1>6 DEF SInv

(* A page that acknowledged the level names the newest of those who are    *)
(* typing in its place, never the viewer, and counts the others, for any   *)
(* members, topics and number of names (summary.go, streams.go,            *)
(* typing_owner.go).                                                       *)
THEOREM PageStaysCurrent == Spec => []PageIsCurrent
<1>1. Init => IInv /\ SInv /\ PInv
  BY InitHolds, PageInit
<1>2. (IInv /\ SInv /\ PInv) /\ [Next]_vars => (IInv /\ SInv /\ PInv)'
  BY IInvStep, SInvStep, PInvStep DEF IInv, TimersInv, ClosuresInv
<1>3. IInv /\ SInv /\ PInv => PageIsCurrent
  <2>. SUFFICES ASSUME IInv, SInv, PInv, page.read, page.seen = generation
       PROVE  Tells(page.place, page.viewer, page.names, page.remaining)
    BY DEF PageIsCurrent, Tells
  <2>1. PICK p, v : p \in Places /\ p = page.place /\ v = page.viewer
    BY DEF PInv, PageTyped
  <2>2. summary[p].generation <= generation
    BY <2>1 DEF SInv, SummariesListed
  <2>3. page.names = Read(p, v).names /\ page.remaining = Read(p, v).remaining
    BY <2>1, <2>2 DEF PInv, Fresh
  <2>4. Tells(p, v, Read(p, v).names, Read(p, v).remaining)
    BY <2>1, ReadIsTrue DEF IInv, TimersInv
  <2>. QED
    BY <2>1, <2>3, <2>4
<1>. QED
  BY <1>1, <1>2, <1>3, PTL DEF Spec

(* What a page reads is a list of members and a number.                    *)
LEMMA ReadIsTyped ==
  ASSUME TimersTyped, SInv, NEW p \in Places, NEW v
  PROVE  Read(p, v).names \in Seq(Members) /\ Read(p, v).remaining \in Nat
<1>1. PICK list \in Seq(Members) : list = summary[p].starts /\ Distinct(list)
  BY DEF SInv, SummariesTyped, SummariesListed, Summary, Listed
<1>2. PICK c \in Seq(Members) : c = First(list, Candidates) /\ Distinct(c)
  BY <1>1, FirstOf, TypingAssumption
<1>3. PICK w \in Seq(Members) : w = Without(c, v) /\ Distinct(w)
  BY <1>2, WithoutOne
<1>4. First(w, Names) \in Seq(Members)
  BY <1>3, FirstOf, TypingAssumption
<1>5. Read(p, v).names = First(w, Names)
  BY <1>1, <1>2, <1>3 DEF Read
<1>6. Read(p, v).remaining \in Nat
  <2>. DEFINE others == Typing(p) \ {v}
              named == {Read(p, v).names[i] : i \in 1..Len(Read(p, v).names)}
  <2>1. Typing(p) \subseteq Members
    BY DEF Typing
  <2>2. IsFiniteSet(others)
    BY <2>1, TypingAssumption, FS_Subset
  <2>3. /\ named \subseteq others
        /\ Read(p, v).remaining = Cardinality(others) - Cardinality(named)
    <3>1. Tells(p, v, Read(p, v).names, Read(p, v).remaining)
      BY ReadIsTrue
    <3>. QED
      BY <3>1 DEF Tells
  <2>. HIDE DEF others, named
  <2>4. IsFiniteSet(named) /\ Cardinality(named) <= Cardinality(others)
    BY <2>2, <2>3, FS_Subset
  <2>5. Cardinality(others) \in Nat
    BY <2>2, FS_CardinalityType
  <2>6. Cardinality(named) \in Nat
    BY <2>4, FS_CardinalityType
  <2>. QED
    BY <2>3, <2>4, <2>5, <2>6
<1>. QED
  BY <1>4, <1>5, <1>6

(* Every variable is of its type: what a page shows is a list of members   *)
(* and a count that is never negative.                                     *)
THEOREM TypeCorrect == Spec => []TypeOK
<1>. DEFINE Page == [viewer : Members \cup {None}, place : Places, seen : Nat, read : BOOLEAN,
                     names : Seq(Members), remaining : Nat]
<1>1. ASSUME Init PROVE page \in Page
  <2>1. PICK q \in Pages : page = [viewer |-> q.viewer, place |-> q.place, seen |-> 0, read |-> FALSE,
                                  names |-> <<>>, remaining |-> 0]
    BY <1>1 DEF Init
  <2>2. q.viewer \in Members \cup {None} /\ q.place \in Places
    BY TypingAssumption DEF Places
  <2>3. <<>> \in Seq(Members)
    OBVIOUS
  <2>. QED
    BY <2>1, <2>2, <2>3
<1>2. ASSUME IInv, SInv, page \in Page, [Next]_vars PROVE (page \in Page)'
  <2>1. CASE page' = page
    BY <1>2, <2>1
  <2>2. CASE Connect
    BY <1>2, <2>2 DEF Connect
  <2>3. CASE Update
    <3>1. PICK p, v : p \in Places /\ p = page.place /\ v = page.viewer
      BY <1>2
    <3>2. Read(p, v).names \in Seq(Members) /\ Read(p, v).remaining \in Nat /\ generation \in Nat
      BY <1>2, <3>1, ReadIsTyped DEF IInv, TimersInv, SInv, SummariesTyped
    <3>3. \/ page' = [page EXCEPT !.seen = generation]
          \/ page' = [page EXCEPT !.seen = generation, !.read = TRUE,
                                  !.names = Read(p, v).names, !.remaining = Read(p, v).remaining]
      BY <2>3, <3>1 DEF Update
    <3>. QED
      BY <1>2, <3>2, <3>3
  <2>. QED
    BY <1>2, <2>1, <2>2, <2>3, Zenon
    DEF Next, vars, Open, Close, Fire, Expire, Signal, Handle, Posted, PostedWithout, RetentionEnds,
        Reopen, Tick
<1>3. Init => IInv /\ SInv
  BY InitHolds, PageInit
<1>4. IInv /\ SInv /\ [Next]_vars => (IInv /\ SInv)'
  BY IInvStep, SInvStep DEF IInv, TimersInv, ClosuresInv
<1>5. IInv /\ SInv /\ page \in Page => TypeOK
  BY DEF IInv, TimersInv, TimersTyped, ClosuresInv, ClosuresTyped, SignalsTyped, SInv, SummariesTyped, TypeOK
<1>. QED
  BY <1>1, <1>2, <1>3, <1>4, <1>5, PTL DEF Spec
=============================================================================
