------------------------------ MODULE Presence ------------------------------
(***************************************************************************)
(* Who is online in one organisation, kept by presence.State in memory,    *)
(* and a page that shows it: a snapshot with a token when the page loads,  *)
(* then what changed after the token over the page's stream.               *)
(*                                                                         *)
(* A member is online from its first accepted stream until its last one    *)
(* has been closed for a while, and is forgotten some time later.  Both    *)
(* delays are timers that may have fired, and be waiting for the lock,     *)
(* when somebody stops them.  Time is abstracted: an armed timer may fire  *)
(* at any time.                                                            *)
(*                                                                         *)
(* Every operation holds the state's lock, its raise of the hub included,  *)
(* so the hub's level and the generation are one number here.  The page's  *)
(* own stream is counted like any other: it may be one of Streams, or its  *)
(* member is not among those the page lists.                               *)
(***************************************************************************)
EXTENDS Naturals, Sequences, FiniteSets

CONSTANTS
  Members,
  Streams,        \* accepted streams, of any page
  Timers,         \* timers that exist at the same time
  MaxChanges,     \* of one changed suffix
  MaxGeneration,  \* a bound on the changes in one process
  MaxProcess      \* a bound on how often the process starts

ASSUME PresenceAssumption ==
  /\ "none" \notin Members
  /\ IsFiniteSet(Streams)
  /\ "none" \notin Timers
  /\ MaxChanges \in Nat
  /\ MaxGeneration \in Nat
  /\ MaxProcess \in Nat

VARIABLES
  process,     \* the process that runs, by number
  generation,  \* of the organisation
  boundary,    \* changes up to here may have been discarded
  changes,     \* the journal: members by their last change
  members,     \* what is kept of each member
  stream,      \* the member each accepted stream was counted for
  timer,       \* each timer with what it was armed for
  page         \* the page: what it shows, its token and its stream

state == <<process, generation, boundary, changes, members, stream, timer>>
vars == <<state, page>>

Bigger(a, b) == IF a > b THEN a ELSE b

-----------------------------------------------------------------------------
(* The state.  A member's struct is told apart from a later one of the     *)
(* same member by its timer: nothing else still refers to a struct that    *)
(* was discarded.                                                          *)

Absent == [kept |-> FALSE, streams |-> 0, timer |-> "none", online |-> FALSE, generation |-> 0]

Idle == [pc |-> "idle", kind |-> "leave", member |-> "none"]

Alarms == [pc : {"armed", "fired"}, kind : {"leave", "discard"}, member : Members]

Armed(kind, m) == [pc |-> "armed", kind |-> kind, member |-> m]

(* Stop loses to a timer that fired already. *)
Stopped(t) == IF timer[t].pc = "armed" THEN [timer EXCEPT ![t] = Idle] ELSE timer

Place(m) == CHOOSE i \in DOMAIN changes : changes[i] = m

(* The journal once the member's element is removed from the list. *)
Without(m) ==
  IF \A i \in DOMAIN changes : changes[i] # m THEN changes
  ELSE [i \in 1..Len(changes) - 1 |-> changes[IF i < Place(m) THEN i ELSE i + 1]]

(* Mutant: a member that changes again keeps its place in the journal. *)
ChangeInPlace(m) ==
  /\ generation < MaxGeneration
  /\ generation' = generation + 1
  /\ changes' = IF members[m].generation = 0 THEN Append(changes, m) ELSE changes

(* A visible change of a member moves it to the journal's end. *)
Change(m) ==
  /\ generation < MaxGeneration
  /\ generation' = generation + 1
  /\ changes' = Append(Without(m), m)

Open(st, m) ==
  /\ stream[st] = "none"
  /\ stream' = [stream EXCEPT ![st] = m]
  /\ IF members[m].online THEN UNCHANGED <<generation, changes>> ELSE Change(m)
  /\ timer' = IF members[m].timer = "none" THEN timer ELSE Stopped(members[m].timer)
  /\ members' = [members EXCEPT ![m] =
       [kept |-> TRUE, streams |-> @.streams + 1, timer |-> "none", online |-> TRUE,
        generation |-> IF @.online THEN @.generation ELSE generation']]
  /\ UNCHANGED <<process, boundary, page>>

(* The cleanup of an accepted stream, which runs once. *)
Close(st) ==
  /\ stream[st] # "none"
  /\ stream' = [stream EXCEPT ![st] = "none"]
  /\ LET m == stream[st]
     IN IF members[m].streams > 1
        THEN /\ members' = [members EXCEPT ![m].streams = @ - 1]
             /\ UNCHANGED timer
        ELSE \E t \in Timers :
               /\ timer[t].pc = "idle"
               /\ timer' = [timer EXCEPT ![t] = Armed("leave", m)]
               /\ members' = [members EXCEPT ![m].streams = 0, ![m].timer = t]
  /\ UNCHANGED <<process, generation, boundary, changes, page>>

Fire(t) ==
  /\ timer[t].pc = "armed"
  /\ timer' = [timer EXCEPT ![t].pc = "fired"]
  /\ UNCHANGED <<process, generation, boundary, changes, members, stream, page>>

Running(t, kind) == timer[t].pc = "fired" /\ timer[t].kind = kind

Superseded(t) ==
  /\ timer[t].pc = "fired"
  /\ members[timer[t].member].timer # t
  /\ timer' = [timer EXCEPT ![t] = Idle]
  /\ UNCHANGED <<process, generation, boundary, changes, members, stream, page>>

(* Mutant: the callback trusts that it was not stopped. *)
GoOfflineAnyway(t) ==
  /\ Running(t, "leave")
  /\ LET m == timer[t].member
     IN /\ Change(m)
        /\ \E d \in Timers :
             /\ timer[d].pc = "idle"
             /\ timer' = [timer EXCEPT ![t] = Idle, ![d] = Armed("discard", m)]
             /\ members' = [members EXCEPT ![m].online = FALSE, ![m].generation = generation',
                                           ![m].timer = d]
  /\ UNCHANGED <<process, boundary, stream, page>>

(* Mutant: the member keeps its old timer. *)
GoOfflineOnly(t) ==
  /\ Running(t, "leave")
  /\ LET m == timer[t].member
     IN /\ members[m].timer = t
        /\ Change(m)
        /\ \E d \in Timers :
             /\ timer[d].pc = "idle"
             /\ timer' = [timer EXCEPT ![t] = Idle, ![d] = Armed("discard", m)]
             /\ members' = [members EXCEPT ![m].online = FALSE, ![m].generation = generation']
  /\ UNCHANGED <<process, boundary, stream, page>>

GoOffline(t) ==
  /\ Running(t, "leave")
  /\ LET m == timer[t].member
     IN /\ members[m].timer = t
        /\ Change(m)
        /\ \E d \in Timers :
             /\ timer[d].pc = "idle"
             /\ timer' = [timer EXCEPT ![t] = Idle, ![d] = Armed("discard", m)]
             /\ members' = [members EXCEPT ![m].online = FALSE, ![m].generation = generation',
                                           ![m].timer = d]
  /\ UNCHANGED <<process, boundary, stream, page>>

(* Mutant: a discarded change leaves no trace. *)
DiscardSilently(t) ==
  /\ Running(t, "discard")
  /\ LET m == timer[t].member
     IN /\ members[m].timer = t
        /\ changes' = Without(m)
        /\ members' = [members EXCEPT ![m] = Absent]
  /\ timer' = [timer EXCEPT ![t] = Idle]
  /\ UNCHANGED <<process, generation, boundary, stream, page>>

Discard(t) ==
  /\ Running(t, "discard")
  /\ LET m == timer[t].member
     IN /\ members[m].timer = t
        /\ boundary' = Bigger(boundary, members[m].generation)
        /\ changes' = Without(m)
        /\ members' = [members EXCEPT ![m] = Absent]
  /\ timer' = [timer EXCEPT ![t] = Idle]
  /\ UNCHANGED <<process, generation, stream, page>>

-----------------------------------------------------------------------------
(* The page.                                                               *)

Online == [m \in Members |-> members[m].online]

NoFrame == [name |-> "none", entries |-> <<>>, generation |-> 0]

Token == [process |-> process, generation |-> generation]

Load ==
  /\ page.pc \in {"none", "loaded", "reset"}
  /\ page' = [pc |-> "loaded", shown |-> Online, token |-> Token,
              seen |-> 0, frame |-> NoFrame, wire |-> NoFrame]
  /\ UNCHANGED state

(* The stream is accepted; what it has seen starts at zero. *)
Connect ==
  /\ page.pc = "loaded"
  /\ page' = [page EXCEPT !.pc = "connect"]
  /\ UNCHANGED state

(* The longest end of the journal whose changes all came after start. *)
Suffix(start) ==
  {i \in DOMAIN changes :
     \A j \in i..Len(changes) : members[changes[j]].generation > start}

(* Each entry of the suffix with its state, which stands for its markup. *)
After(start) ==
  IF \/ start.process # process
     \/ start.generation < boundary
     \/ Cardinality(Suffix(start.generation)) > MaxChanges
  THEN [name |-> "reset", entries |-> <<>>, generation |-> generation]
  ELSE LET changed == {changes[i] : i \in Suffix(start.generation)}
       IN [name       |-> IF changed = {} THEN "none" ELSE "presence",
           entries    |-> [m \in changed |-> members[m].online],
           generation |-> generation]

(* presenceOwner.Read within Stream.ephemeral, on connect and on a raise.  *)
Read ==
  /\ \/ page.pc = "connect"
     \/ page.pc = "wait" /\ generation > page.seen
  /\ LET start == [page.token EXCEPT !.generation = Bigger(@, page.seen)]
         frame == After(start)
     IN page' = IF frame.name = "none"
                THEN [page EXCEPT !.pc = "wait", !.seen = Bigger(@, frame.generation)]
                ELSE [page EXCEPT !.pc = "send", !.frame = frame]
  /\ UNCHANGED state

(* After a reset the stream ends.  The pipe holds one frame. *)
Send ==
  /\ page.pc = "send"
  /\ page.wire.name = "none"
  /\ page' = [page EXCEPT !.pc = IF page.frame.name = "reset" THEN "ended" ELSE "wait",
                          !.seen = Bigger(@, page.frame.generation),
                          !.wire = page.frame, !.frame = NoFrame]
  /\ UNCHANGED state

(* The indicators of the members in the frame are swapped in place. *)
Receive ==
  /\ page.wire.name = "presence"
  /\ page' = [page EXCEPT !.wire = NoFrame,
       !.shown = [m \in Members |-> IF m \in DOMAIN page.wire.entries
                                    THEN page.wire.entries[m] ELSE @[m]]]
  /\ UNCHANGED state

(* The page closes its source and reloads after a while. *)
ReceiveReset ==
  /\ page.wire.name = "reset"
  /\ page' = [page EXCEPT !.pc = "reset", !.wire = NoFrame]
  /\ UNCHANGED state

Connected == page.pc \in {"connect", "send", "wait", "ended"}

Cut == IF Connected
       THEN [page EXCEPT !.pc = "loaded", !.seen = 0, !.frame = NoFrame, !.wire = NoFrame]
       ELSE page

(* The connection breaks, the membership check ends the stream, or an      *)
(* error does: the browser connects again with the token it has.           *)
Break ==
  /\ Connected
  /\ page' = Cut
  /\ UNCHANGED state

(* Another process knows nothing, and its generations start over. *)
Restart ==
  /\ process < MaxProcess
  /\ process' = process + 1
  /\ generation' = 0 /\ boundary' = 0 /\ changes' = <<>>
  /\ members' = [m \in Members |-> Absent]
  /\ stream' = [st \in Streams |-> "none"]
  /\ timer' = [t \in Timers |-> Idle]
  /\ page' = Cut

-----------------------------------------------------------------------------
Init ==
  /\ process = 1
  /\ generation = 0 /\ boundary = 0 /\ changes = <<>>
  /\ members = [m \in Members |-> Absent]
  /\ stream = [st \in Streams |-> "none"]
  /\ timer = [t \in Timers |-> Idle]
  /\ page = [pc |-> "none", shown |-> Online, token |-> Token,
             seen |-> 0, frame |-> NoFrame, wire |-> NoFrame]

StreamStep == \E st \in Streams : Close(st) \/ \E m \in Members : Open(st, m)

TimerStep == \E t \in Timers : Fire(t) \/ Superseded(t) \/ GoOffline(t) \/ Discard(t)

PageStep == Load \/ Connect \/ Read \/ Send \/ Receive \/ ReceiveReset \/ Break

Next == StreamStep \/ TimerStep \/ PageStep \/ Restart

Spec == Init /\ [][Next]_vars

-----------------------------------------------------------------------------
(* The counts count the streams, and the journal is in the order of        *)
(* generations and holds everybody who is kept once (presence.go:48-61).   *)
TypeOK ==
  /\ generation \in 0..MaxGeneration /\ boundary \in 0..generation
  /\ stream \in [Streams -> Members \cup {"none"}]
  /\ timer \in [Timers -> {Idle} \cup Alarms]
  /\ \A m \in Members :
       /\ members[m].streams = Cardinality({st \in Streams : stream[st] = m})
       /\ members[m].timer \in Timers \cup {"none"}
       /\ members[m].kept <=> \E i \in DOMAIN changes : changes[i] = m
  /\ \A i, j \in DOMAIN changes :
       i < j => members[changes[i]].generation < members[changes[j]].generation
  /\ page.token.process <= process

(* Whoever has an accepted stream is kept and online, whatever timers of   *)
(* earlier closes are still about to run (presence.go:81-139).             *)
OnlineWhileOpen ==
  \A st \in Streams : stream[st] # "none" =>
    members[stream[st]].kept /\ members[stream[st]].online

(* Whoever has none will go offline, and then be forgotten: a timer that   *)
(* the member's struct still names is armed for it (presence.go:109-138).  *)
DepartureIsDue ==
  \A m \in Members : members[m].kept /\ members[m].streams = 0 =>
    /\ members[m].timer \in Timers
    /\ timer[members[m].timer].pc # "idle"
    /\ timer[members[m].timer].member = m
    /\ timer[members[m].timer].kind = IF members[m].online THEN "leave" ELSE "discard"

(* A page whose stream waits with nothing newer to see shows who is        *)
(* online, though frames were lost with connections and entries discarded  *)
(* since its snapshot (presence.go:155-203; web/presence.go:37-53).        *)
PageIsCurrent ==
  page.pc = "wait" /\ page.seen = generation /\ page.wire.name = "none" => page.shown = Online
=============================================================================
