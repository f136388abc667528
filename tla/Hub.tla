-------------------------------- MODULE Hub --------------------------------
(***************************************************************************)
(* The levels of one organisation in realtime.Hub: writers raise them,     *)
(* streams wait on several of them at once.                                *)
(*                                                                         *)
(* A level is published together with the channel that the next raise      *)
(* closes, as one immutable state behind an atomic pointer.  Raising is    *)
(* three steps (load the state, compare-and-swap a new one in, close the   *)
(* old one's channel) and waiting is one load per level of interest, a     *)
(* comparison, and a select on the captured channels; everything else may  *)
(* happen between any two of these steps.                                  *)
(***************************************************************************)
EXTENDS Naturals

CONSTANTS
  Levels,     \* the durable level and the ephemeral generations
  Durable,    \* the durable one of them
  Raisers,    \* goroutines that call Raise or RaiseGeneration
  Waiters,    \* goroutines that call waitFor
  Interests,  \* the levels each stream waits on
  MaxSeq      \* model bound on the values raised

ASSUME HubAssumption ==
  /\ Durable \in Levels
  /\ Interests \in [Waiters -> SUBSET Levels]
  /\ MaxSeq \in Nat

VARIABLES
  level,   \* the published state of each level: its value and its channel
  closed,  \* the closed channels of each level
  raise,   \* the call each raiser is in
  wait,    \* the call each stream is in, with the states it has captured
  seen     \* the values each stream has already acted on

vars == <<level, closed, raise, wait, seen>>

(* Channels are numbered in the order they are published, so equality of   *)
(* states is identity of the code's pointers.                              *)
States == [latest : Nat, changed : Nat]

Unraised == [latest |-> 0, changed |-> 0]

-----------------------------------------------------------------------------
(* raise                                                                   *)

NotRaising == [pc |-> "idle", on |-> Durable, seq |-> 0, old |-> Unraised]

RaiseCalls ==
  [pc : {"idle", "load", "swap", "close"}, on : Levels, seq : Nat, old : States]

Raise(r, k, seq) ==
  /\ raise[r].pc = "idle"
  /\ raise' = [raise EXCEPT ![r] = [pc |-> "load", on |-> k, seq |-> seq, old |-> Unraised]]
  /\ UNCHANGED <<level, closed, wait, seen>>

(* Mutant: a late notification is published like any other. *)
RaiseLoadAny(r) ==
  /\ raise[r].pc = "load"
  /\ raise' = [raise EXCEPT ![r].pc = "swap", ![r].old = level[raise[r].on]]
  /\ UNCHANGED <<level, closed, wait, seen>>

(* A value at or below the published one changes nothing. *)
RaiseLoad(r) ==
  /\ raise[r].pc = "load"
  /\ LET old == level[raise[r].on]
     IN raise' = [raise EXCEPT ![r] = IF @.seq <= old.latest THEN NotRaising
                                      ELSE [@ EXCEPT !.pc = "swap", !.old = old]]
  /\ UNCHANGED <<level, closed, wait, seen>>

(* Mutant: the new state is stored over whatever is published. *)
RaiseStore(r) ==
  /\ raise[r].pc = "swap"
  /\ level' = [level EXCEPT ![raise[r].on] =
                 [latest |-> raise[r].seq, changed |-> raise[r].old.changed + 1]]
  /\ raise' = [raise EXCEPT ![r].pc = "close"]
  /\ UNCHANGED <<closed, wait, seen>>

(* Mutant: a swap that another raiser overtook is not tried again. *)
RaiseSwapOnce(r) ==
  /\ raise[r].pc = "swap"
  /\ LET k == raise[r].on
         old == raise[r].old
     IN IF level[k] = old
        THEN /\ level' = [level EXCEPT ![k] = [latest |-> raise[r].seq,
                                               changed |-> old.changed + 1]]
             /\ raise' = [raise EXCEPT ![r].pc = "close"]
        ELSE /\ raise' = [raise EXCEPT ![r] = NotRaising]
             /\ UNCHANGED level
  /\ UNCHANGED <<closed, wait, seen>>

(* Only the raiser whose swap succeeds closes; another one starts over. *)
RaiseSwap(r) ==
  /\ raise[r].pc = "swap"
  /\ LET k == raise[r].on
         old == raise[r].old
     IN IF level[k] = old
        THEN /\ level' = [level EXCEPT ![k] = [latest |-> raise[r].seq,
                                               changed |-> old.changed + 1]]
             /\ raise' = [raise EXCEPT ![r].pc = "close"]
        ELSE /\ raise' = [raise EXCEPT ![r].pc = "load"]
             /\ UNCHANGED level
  /\ UNCHANGED <<closed, wait, seen>>

RaiseClose(r) ==
  /\ raise[r].pc = "close"
  /\ closed' = [closed EXCEPT ![raise[r].on] = @ \cup {raise[r].old.changed}]
  /\ raise' = [raise EXCEPT ![r] = NotRaising]
  /\ UNCHANGED <<level, wait, seen>>

-----------------------------------------------------------------------------
(* waitFor.  A stream loads its levels of interest one after the other (in *)
(* the code's order, which is one of those allowed here); a level of no    *)
(* interest contributes a nil channel and the value 0.                     *)

NotWaiting == [pc |-> "run", loaded |-> {}, got |-> [k \in Levels |-> Unraised]]

WaitCalls ==
  [pc : {"run", "load", "select", "ended"}, loaded : SUBSET Levels,
   got : [Levels -> States]]

WaitFor(s) ==
  /\ wait[s].pc = "run"
  /\ wait' = [wait EXCEPT ![s] = [NotWaiting EXCEPT !.pc = "load"]]
  /\ UNCHANGED <<level, closed, raise, seen>>

WaitLoad(s) ==
  /\ wait[s].pc = "load"
  /\ \E k \in Interests[s] \ wait[s].loaded :
       wait' = [wait EXCEPT ![s].loaded = @ \cup {k}, ![s].got[k] = level[k]]
  /\ UNCHANGED <<level, closed, raise, seen>>

Loaded(s) == wait[s].pc = "load" /\ wait[s].loaded = Interests[s]

Above(s) == \E k \in Interests[s] : wait[s].got[k].latest > seen[s][k]

(* Mutant: the select reads the channels again instead of the captured ones. *)
WaitSelectAfresh(s) ==
  /\ Loaded(s)
  /\ ~Above(s)
  /\ wait' = [wait EXCEPT ![s].pc = "select",
                          ![s].got = [k \in Levels |-> [@[k] EXCEPT !.changed = level[k].changed]]]
  /\ UNCHANGED <<level, closed, raise, seen>>

WaitSelect(s) ==
  /\ Loaded(s)
  /\ ~Above(s)
  /\ wait' = [wait EXCEPT ![s].pc = "select"]
  /\ UNCHANGED <<level, closed, raise, seen>>

(* A level above what the stream has seen ends the wait.  The stream then  *)
(* acts on it: it reads the log up to the returned durable level, and reads *)
(* the owners of the ephemeral levels, whose values it takes afresh.       *)
WaitReturn(s) ==
  /\ Loaded(s)
  /\ Above(s)
  /\ seen' = [seen EXCEPT ![s] = [k \in Levels |->
                LET value == IF k = Durable THEN wait[s].got[k].latest ELSE level[k].latest
                IN IF k \in Interests[s] /\ value > @[k] THEN value ELSE @[k]]]
  /\ wait' = [wait EXCEPT ![s] = NotWaiting]
  /\ UNCHANGED <<level, closed, raise>>

Woken(s) == \E k \in Interests[s] : wait[s].got[k].changed \in closed[k]

(* A captured channel was closed: the loop loads the levels again. *)
WaitWake(s) ==
  /\ wait[s].pc = "select"
  /\ Woken(s)
  /\ wait' = [wait EXCEPT ![s] = [NotWaiting EXCEPT !.pc = "load"]]
  /\ UNCHANGED <<level, closed, raise, seen>>

(* The stream's context ends: at the loop's check or in the select. *)
WaitCancelled(s) ==
  /\ wait[s].pc \in {"load", "select"}
  /\ wait' = [wait EXCEPT ![s] = [NotWaiting EXCEPT !.pc = "ended"]]
  /\ UNCHANGED <<level, closed, raise, seen>>

-----------------------------------------------------------------------------
(* A stream starts at the cursor of its request, which may be ahead of     *)
(* what a fresh process has been told, and has seen no generation.         *)
Init ==
  /\ level = [k \in Levels |-> Unraised]
  /\ closed = [k \in Levels |-> {}]
  /\ raise = [r \in Raisers |-> NotRaising]
  /\ wait = [s \in Waiters |-> NotWaiting]
  /\ seen \in {[s \in Waiters |-> [k \in Levels |-> IF k = Durable THEN c[s] ELSE 0]] :
                 c \in [Waiters -> 0 .. MaxSeq]}

RaiseStep(r) == RaiseLoad(r) \/ RaiseSwap(r) \/ RaiseClose(r)

WaitStep(s) ==
  \/ WaitFor(s)
  \/ WaitLoad(s)
  \/ WaitSelect(s)
  \/ WaitReturn(s)
  \/ WaitWake(s)

Next ==
  \/ \E r \in Raisers, k \in Levels, seq \in 1 .. MaxSeq : Raise(r, k, seq)
  \/ \E r \in Raisers : RaiseStep(r)
  \/ \E s \in Waiters : WaitStep(s) \/ WaitCancelled(s)

(* Goroutines that can run eventually do; nobody has to call Raise, and no *)
(* context has to end.                                                     *)
Fairness ==
  /\ \A r \in Raisers : WF_vars(RaiseStep(r))
  /\ \A s \in Waiters : WF_vars(WaitStep(s))

Spec == Init /\ [][Next]_vars /\ Fairness

-----------------------------------------------------------------------------
TypeOK ==
  /\ level \in [Levels -> States]
  /\ closed \in [Levels -> SUBSET Nat]
  /\ raise \in [Raisers -> RaiseCalls]
  /\ wait \in [Waiters -> WaitCalls]
  /\ seen \in [Waiters -> [Levels -> Nat]]
  /\ \A r \in Raisers : raise[r].pc \in {"swap", "close"} => raise[r].old.latest < raise[r].seq

(* A value as high was published, or is being raised. *)
Raised(k, seq) ==
  \/ level[k].latest >= seq
  \/ \E r \in Raisers : raise[r].pc # "idle" /\ raise[r].on = k /\ raise[r].seq >= seq

(* No lost wakeup: a stream blocked in its select while a level of         *)
(* interest is above what it has seen has been, or is about to be, woken:  *)
(* the channel it captured is closed, or the raiser that replaced it is    *)
(* about to close it (Hub.waitFor, hub.go:123-137).                        *)
NoLostWakeup ==
  \A s \in Waiters, k \in Levels :
    wait[s].pc = "select" /\ k \in Interests[s] /\ level[k].latest > seen[s][k] =>
      \/ wait[s].got[k].changed \in closed[k]
      \/ \E r \in Raisers : /\ raise[r].pc = "close"
                            /\ raise[r].on = k
                            /\ raise[r].old.changed = wait[s].got[k].changed

(* A channel is closed once: closing it again would panic the process.     *)
(* Whoever is about to close finds it open and is alone with it            *)
(* (Hub.raise, hub.go:130-134).                                            *)
ClosedOnce ==
  \A r \in Raisers :
    raise[r].pc = "close" =>
      /\ raise[r].old.changed \notin closed[raise[r].on]
      /\ \A q \in Raisers \ {r} :
           ~ /\ raise[q].pc = "close"
             /\ raise[q].on = raise[r].on
             /\ raise[q].old.changed = raise[r].old.changed

(* Raises may arrive late or out of order: no level ever goes down, and    *)
(* neither does what a stream has seen (Hub.Raise, hub.go:113-118).        *)
LevelsNeverFall ==
  [][/\ \A k \in Levels : level'[k].latest >= level[k].latest
     /\ \A s \in Waiters, k \in Levels : seen'[s][k] >= seen[s][k]]_vars

(* Every value a raiser was called with is eventually acted on by every    *)
(* stream that waits for its level and is not cancelled: also when another *)
(* raiser publishes first and the swap has to be tried again (Hub.raise,   *)
(* hub.go:117-137).                                                        *)
RaisesAreSeen ==
  \A s \in Waiters, k \in Levels, seq \in 1 .. MaxSeq :
    k \in Interests[s] /\ Raised(k, seq) ~> seen[s][k] >= seq \/ wait[s].pc = "ended"
=============================================================================
