---------------------------- MODULE CachedEvents ----------------------------
(***************************************************************************)
(* The shared cache behind every stream's read of the event log, for one   *)
(* key: an organisation, a cursor, a limit and a hub level.                *)
(*                                                                         *)
(* Concurrent calls of Get share one load.  A full batch is kept; it is    *)
(* the same whenever it is read.  A short batch is not kept, and goes only *)
(* to the call that started its load: the calls that joined share a second *)
(* load, begun after the first ended.  Callers may give up, the process    *)
(* may shut down, and a loader may ignore its context.                     *)
(*                                                                         *)
(* A batch is represented by its length: a log that holds n events above   *)
(* the cursor gives a batch of min(n, Limit).                              *)
(***************************************************************************)
EXTENDS Naturals, FiniteSets

CONSTANTS
  Callers,    \* streams
  Calls,      \* loads that may be started (a bound on the model)
  NoCall,     \* no load in flight
  Limit,      \* the key's limit
  MaxLoads,   \* loaders that may run at once (DefaultCacheLoads)
  MaxEvents   \* model bound on committed events

ASSUME CacheAssumption ==
  /\ IsFiniteSet(Callers)
  /\ NoCall \notin Calls
  /\ Limit \in Nat \ {0}
  /\ MaxLoads \in Nat \ {0}
  /\ MaxEvents \in Nat

VARIABLES
  events,   \* committed events above the cursor
  parent,   \* whether the process lifetime goes on
  entry,    \* the cached batch
  loading,  \* the load calls of Get join
  call,     \* every load's cacheCall, with where its goroutine is
  caller    \* every caller's Get

cacheVars == <<events, parent, entry, loading, call, caller>>

Batch(n) == IF n <= Limit THEN n ELSE Limit

fullBatch(value) == value = Limit

(* A result: a batch or an error. *)
Results == [ok : BOOLEAN, value : 0 .. Limit]
Error == [ok |-> FALSE, value |-> 0]
Loaded(value) == [ok |-> TRUE, value |-> value]

(* The goroutine of a load waits for a slot, loads, decides under the      *)
(* lock, releases the starter, and goes through a second run or not.       *)
Phases == {"unused", "slot", "load", "decide", "close", "slot again", "load again",
           "publish", "over"}

(* The loader itself: it reads the log in one snapshot and returns.        *)
Loaders == {"none", "running", "read"}

CacheCalls ==
  [phase : Phases, loader : Loaders, read : 0 .. Limit,
   result : Results, joined : Results,
   waiters : Nat, joiners : Nat, again : BOOLEAN, cancelled : BOOLEAN]

Unused ==
  [phase |-> "unused", loader |-> "none", read |-> 0,
   result |-> Error, joined |-> Error,
   waiters |-> 0, joiners |-> 0, again |-> FALSE, cancelled |-> FALSE]

Gets ==
  [pc : {"idle", "wait", "leave"}, on : Calls \cup {NoCall}, joined : BOOLEAN,
   since : Nat, result : Results]

NoGet == [pc |-> "idle", on |-> NoCall, joined |-> FALSE, since |-> 0, result |-> Error]

(* Whether the two results have been published. *)
done(c) == call[c].phase \in {"slot again", "load again", "publish", "over"}
joinedDone(c) == call[c].phase = "over"

-----------------------------------------------------------------------------
(* Get.                                                                    *)

(* A cached batch is returned at once. *)
Hit(p) ==
  /\ parent
  /\ caller[p].pc = "idle"
  /\ entry # {}
  /\ \E value \in entry :
       caller' = [caller EXCEPT ![p] = [NoGet EXCEPT !.pc = "leave", !.since = events,
                                                      !.result = Loaded(value)]]
  /\ UNCHANGED <<events, parent, entry, loading, call>>

(* Loads are alike, so any unused one may stand for the next.              *)
NextCall == LET unused == {c \in Calls : call[c] = Unused}
            IN  IF unused = {} THEN {} ELSE {CHOOSE c \in unused : TRUE}

Start(p) ==
  /\ parent
  /\ caller[p].pc = "idle"
  /\ entry = {} /\ loading = NoCall
  /\ \E c \in NextCall :
       /\ call' = [call EXCEPT ![c].phase = "slot", ![c].waiters = 1]
       /\ loading' = c
       /\ caller' = [caller EXCEPT ![p] = [NoGet EXCEPT !.pc = "wait", !.on = c,
                                                        !.since = events]]
  /\ UNCHANGED <<events, parent, entry>>

Join(p) ==
  /\ parent
  /\ caller[p].pc = "idle"
  /\ entry = {} /\ loading # NoCall
  /\ call' = [call EXCEPT ![loading].waiters = @ + 1, ![loading].joiners = @ + 1]
  /\ caller' = [caller EXCEPT ![p] = [NoGet EXCEPT !.pc = "wait", !.on = loading,
                                                   !.joined = TRUE, !.since = events]]
  /\ UNCHANGED <<events, parent, entry, loading>>

(* The starter waits for the first result, a joiner for the second. *)
Return(p) ==
  /\ caller[p].pc = "wait"
  /\ LET c == caller[p].on
     IN /\ IF caller[p].joined THEN joinedDone(c) ELSE done(c)
        /\ caller' = [caller EXCEPT ![p].pc = "leave",
                        ![p].result = IF caller[p].joined THEN call[c].joined
                                                          ELSE call[c].result]
  /\ UNCHANGED <<events, parent, entry, loading, call>>

(* The caller's context ends. *)
GiveUp(p) ==
  /\ caller[p].pc = "wait"
  /\ caller' = [caller EXCEPT ![p].pc = "leave"]
  /\ UNCHANGED <<events, parent, entry, loading, call>>

(* Mutant: the load ends with the caller that started it. *)
NobodyWaitsButJoiners(waiters, joiners, again) == waiters = joiners \/ (again /\ joiners = 0)

(* A load is cancelled with its last waiter, a second load with its last   *)
(* joiner.                                                                 *)
NobodyWaits(waiters, joiners, again) == waiters = 0 \/ (again /\ joiners = 0)

(* New callers must not join an abandoned load. *)
LoadingAfter(c, waiters) == IF waiters = 0 /\ loading = c THEN NoCall ELSE loading

(* leave: a Get that was served from the cache has nothing to leave, and   *)
(* once both results are out the counts die with the call.                 *)
Leave(p) ==
  /\ caller[p].pc = "leave"
  /\ LET c == caller[p].on
     IN IF c = NoCall \/ (c # NoCall /\ joinedDone(c))
        THEN UNCHANGED <<loading, call>>
        ELSE LET waiters == call[c].waiters - 1
                 joiners == IF caller[p].joined THEN call[c].joiners - 1 ELSE call[c].joiners
             IN /\ call' = [call EXCEPT
                              ![c].waiters = waiters, ![c].joiners = joiners,
                              ![c].cancelled = @ \/ NobodyWaits(waiters, joiners, call[c].again)]
                /\ loading' = LoadingAfter(c, waiters)
  /\ caller' = [caller EXCEPT ![p] = NoGet]
  /\ UNCHANGED <<events, parent, entry>>

-----------------------------------------------------------------------------
(* The goroutine of a load.  run happens twice: for the starter and, if    *)
(* the joiners need it, again for them.                                    *)

Cancelled(c) == call[c].cancelled \/ ~parent

Running == {c \in Calls : call[c].loader # "none"}

Waiting(phase) == phase \in {"slot", "slot again"}
Loading(phase) == phase \in {"load", "load again"}

(* A run ends with a result, which is dropped if the load was cancelled:   *)
(* the first one goes to the decision, the second to the joiners.          *)
Ended(c, result) ==
  LET kept == IF Cancelled(c) THEN Error ELSE result
  IN IF call[c].phase \in {"slot", "load"}
     THEN [call[c] EXCEPT !.phase = "decide", !.result = kept]
     ELSE [call[c] EXCEPT !.phase = "publish", !.joined = kept]

(* Mutant: loaders are not counted. *)
SlotFreeAlways == TRUE

SlotFree == Cardinality(Running) < MaxLoads

Acquire(c) ==
  /\ Waiting(call[c].phase)
  /\ SlotFree
  /\ ~Cancelled(c)
  /\ call[c].loader = "none"
  /\ call' = [call EXCEPT ![c].loader = "running",
                          ![c].phase = IF @ = "slot" THEN "load" ELSE "load again"]
  /\ UNCHANGED <<events, parent, entry, loading, caller>>

(* The loader's snapshot. *)
ReadEvents(c) ==
  /\ call[c].loader = "running"
  /\ call' = [call EXCEPT ![c].loader = "read", ![c].read = Batch(events)]
  /\ UNCHANGED <<events, parent, entry, loading, caller>>

(* The loader returns its batch, or an error; its slot is free.            *)
LoadReturns(c) ==
  /\ Loading(call[c].phase)
  /\ call[c].loader = "read"
  /\ \E result \in {Loaded(call[c].read), Error} :
       call' = [call EXCEPT ![c] = [Ended(c, result) EXCEPT !.loader = "none", !.read = 0]]
  /\ UNCHANGED <<events, parent, entry, loading, caller>>

(* Mutant: only the wait for a slot is bounded. *)
GiveUpSlot(c) ==
  /\ Waiting(call[c].phase)
  /\ call' = [call EXCEPT ![c] = Ended(c, Error)]
  /\ UNCHANGED <<events, parent, entry, loading, caller>>

(* The run's timeout, or its cancellation, does not wait for the loader:   *)
(* a loader that ignores its context keeps only its slot.                  *)
GiveUpRun(c) ==
  /\ Waiting(call[c].phase) \/ Loading(call[c].phase)
  /\ call' = [call EXCEPT ![c] = Ended(c, Error)]
  /\ UNCHANGED <<events, parent, entry, loading, caller>>

(* A loader whose run is over returns at last. *)
OrphanReturns(c) ==
  /\ call[c].loader # "none"
  /\ ~Loading(call[c].phase)
  /\ call' = [call EXCEPT ![c].loader = "none", ![c].read = 0]
  /\ UNCHANGED <<events, parent, entry, loading, caller>>

(* Mutant: the decision looks only at the loaded value. *)
AcceptedAnyway(c) == call[c].result

(* What the decision accepts: nothing once the load was cancelled. *)
Accepted(c) == IF Cancelled(c) THEN Error ELSE call[c].result

(* Mutant: joiners take the starter's short batch. *)
AgainNever(c, kept) == FALSE

(* Joiners need a load of their own unless the value is kept. *)
Again(c, kept) == call[c].result.ok /\ Accepted(c).ok /\ ~kept /\ call[c].joiners > 0

(* Under the lock: the call can be joined no more, a full batch of a call  *)
(* not abandoned is kept, and a second load is decided on.                 *)
Decide(c) ==
  /\ call[c].phase = "decide"
  /\ LET accepted == Accepted(c)
         kept == loading = c /\ accepted.ok /\ fullBatch(accepted.value)
     IN /\ entry' = IF kept THEN {accepted.value} ELSE entry
        /\ call' = [call EXCEPT ![c].phase = "close", ![c].result = accepted,
                                ![c].again = Again(c, kept)]
  /\ loading' = IF loading = c THEN NoCall ELSE loading
  /\ UNCHANGED <<events, parent, caller>>

(* The starter is released; joiners get the same result unless they run    *)
(* again.                                                                  *)
Close(c) ==
  /\ call[c].phase = "close"
  /\ call' = [call EXCEPT ![c].phase = IF call[c].again THEN "slot again" ELSE "publish",
                          ![c].joined = IF call[c].again THEN @ ELSE call[c].result]
  /\ UNCHANGED <<events, parent, entry, loading, caller>>

Publish(c) ==
  /\ call[c].phase = "publish"
  /\ call' = [call EXCEPT ![c].phase = "over"]
  /\ UNCHANGED <<events, parent, entry, loading, caller>>

-----------------------------------------------------------------------------
CommitEvent ==
  /\ events < MaxEvents
  /\ events' = events + 1
  /\ UNCHANGED <<parent, entry, loading, call, caller>>

(* The entry expires or is evicted by another key. *)
Evict ==
  /\ entry # {}
  /\ entry' = {}
  /\ UNCHANGED <<events, parent, loading, call, caller>>

Shutdown ==
  /\ parent
  /\ parent' = FALSE
  /\ UNCHANGED <<events, entry, loading, call, caller>>

CacheInit ==
  /\ events = 0
  /\ parent = TRUE
  /\ entry = {}
  /\ loading = NoCall
  /\ call = [c \in Calls |-> Unused]
  /\ caller = [p \in Callers |-> NoGet]

GetStep(p) == Return(p) \/ Leave(p)

LoadStep(c) == Acquire(c) \/ GiveUpRun(c) \/ Decide(c) \/ Close(c) \/ Publish(c)

CacheNext ==
  \/ \E p \in Callers : Hit(p) \/ Start(p) \/ Join(p) \/ GetStep(p) \/ GiveUp(p)
  \/ \E c \in Calls : LoadStep(c) \/ ReadEvents(c) \/ LoadReturns(c) \/ OrphanReturns(c)
  \/ CommitEvent \/ Evict \/ Shutdown

(* Callers and the load's goroutine go on, and every run ends by its       *)
(* timeout at the latest; no loader has to return.                         *)
Fairness ==
  /\ \A p \in Callers : WF_cacheVars(GetStep(p))
  /\ \A c \in Calls : WF_cacheVars(LoadStep(c))

CacheSpec == CacheInit /\ [][CacheNext]_cacheVars /\ Fairness

-----------------------------------------------------------------------------
CacheTypeOK ==
  /\ events \in 0 .. MaxEvents
  /\ parent \in BOOLEAN
  /\ entry \in {{}, {Limit}}
  /\ loading \in Calls \cup {NoCall}
  /\ call \in [Calls -> CacheCalls]
  /\ caller \in [Callers -> Gets]
  /\ Cardinality(Running) <= MaxLoads

(* A batch holds every event committed before its Get began, up to the     *)
(* limit: a joined load, a kept batch or one cancelled late never hides a  *)
(* commit from a stream (CachedEvents' promise, cached_events.go:14-33).   *)
FreshForItsCall ==
  \A p \in Callers :
    caller[p].pc = "leave" /\ caller[p].result.ok =>
      caller[p].result.value >= Batch(caller[p].since)

(* A caller giving up, the starter included, never ends a load another     *)
(* caller still waits for (Cache.leave).                                   *)
LoadLivesForItsWaiters ==
  \A p \in Callers :
    LET c == caller[p].on
    IN caller[p].pc = "wait" /\ call[c].cancelled =>
         IF caller[p].joined THEN joinedDone(c)
         ELSE call[c].phase \in {"close", "slot again", "load again", "publish", "over"}

(* After shutdown nothing is stored and no result is accepted              *)
(* (Cache.rejectCancelled).                                                *)
NothingAfterShutdown ==
  [][~parent => /\ entry' \subseteq entry
                /\ \A c \in Calls : call[c].phase = "decide" /\ call'[c].phase = "close" =>
                     ~call'[c].result.ok]_cacheVars

(* Every Get returns, though its loader may never do (Cache.run's timeout). *)
EveryGetReturns == \A p \in Callers : caller[p].pc = "wait" ~> caller[p].pc # "wait"
=============================================================================
