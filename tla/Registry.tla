------------------------------ MODULE Registry ------------------------------
(***************************************************************************)
(* The hub's registry of open streams, the sessions that authenticate      *)
(* them, and the requests that end sessions: sign-out, a sign-in that      *)
(* replaces a session, and signing out everywhere else.                    *)
(*                                                                         *)
(* A stream's request resolves its session in the middleware, registers,   *)
(* and only then looks at the session again.  Ending a session deletes its *)
(* row and then cancels its streams; the store may report an error of a    *)
(* deletion that committed.  Each hub call runs under the hub's lock and   *)
(* is one step.                                                            *)
(***************************************************************************)
EXTENDS Naturals, FiniteSets

CONSTANTS
  Streams,     \* stream requests
  Sessions,    \* every session that may ever be created
  AccountOf,   \* the account of each session
  Endings,     \* requests that end sessions
  NoSession,   \* the session of a request that has none yet
  Limit,       \* streams per account
  MaxStreams   \* streams per process

ASSUME RegistryAssumption ==
  /\ IsFiniteSet(Streams)
  /\ NoSession \notin Sessions
  /\ DOMAIN AccountOf = Sessions
  /\ Limit \in Nat
  /\ MaxStreams \in Nat

VARIABLES
  session,   \* each session: not created yet, stored, or deleted
  expired,   \* the sessions past their expiry
  shutdown,  \* Hub.shutdown
  stream,    \* each stream's request and registration
  ending     \* each request that ends sessions

store == <<session, expired>>
registryVars == <<store, shutdown, stream, ending>>

(* What SessionAccount finds. *)
Live(s) == session[s] = "stored" /\ s \notin expired

Expire(s) ==
  /\ session[s] # "new"
  /\ expired' = expired \cup {s}
  /\ UNCHANGED <<session, shutdown, stream, ending>>

(* A sign-in without a session to replace. *)
Create(s) ==
  /\ session[s] = "new"
  /\ session' = [session EXCEPT ![s] = "stored"]
  /\ UNCHANGED <<expired, shutdown, stream, ending>>

DeleteExpired ==
  /\ session' = [s \in Sessions |->
                   IF session[s] = "stored" /\ s \in expired THEN "deleted" ELSE session[s]]
  /\ UNCHANGED <<expired, shutdown, stream, ending>>

-----------------------------------------------------------------------------
(* A stream's request.  cause is what ended its context, "none" while it   *)
(* lives.  A request that is refused, or whose stream has ended, keeps its *)
(* slot until it unregisters.                                              *)

Off == [pc |-> "off", session |-> NoSession, cause |-> "none"]

Causes == {"none", "session ended", "account cancelled", "shutdown", "expired"}

Requests ==
  [pc : {"off", "resolved", "registered", "checked", "refused", "open"},
   session : Sessions \cup {NoSession}, cause : Causes]

Registered == {st \in Streams : stream[st].pc \in {"registered", "checked", "refused", "open"}}

OfAccount(a) == {st \in Registered : AccountOf[stream[st].session] = a}

OfSession(s) == {st \in Registered : stream[st].session = s}

(* The middleware. *)
Resolve(st, s) ==
  /\ stream[st].pc = "off"
  /\ Live(s)
  /\ stream' = [stream EXCEPT ![st] = [pc |-> "resolved", session |-> s, cause |-> "none"]]
  /\ UNCHANGED <<store, shutdown, ending>>

(* Mutant: only the process's limit is checked. *)
FullProcess(st) == Cardinality(Registered) >= MaxStreams

Full(st) ==
  \/ Cardinality(Registered) >= MaxStreams
  \/ Cardinality(OfAccount(AccountOf[stream[st].session])) >= Limit

(* Mutant: a registration does not look whether the hub is shutting down. *)
RegisterLate(st) ==
  /\ stream[st].pc = "resolved"
  /\ stream' = IF Full(st)
               THEN [stream EXCEPT ![st] = Off]
               ELSE [stream EXCEPT ![st].pc = "registered"]
  /\ UNCHANGED <<store, shutdown, ending>>

Register(st) ==
  /\ stream[st].pc = "resolved"
  /\ stream' = IF shutdown \/ Full(st)
               THEN [stream EXCEPT ![st] = Off]
               ELSE [stream EXCEPT ![st].pc = "registered"]
  /\ UNCHANGED <<store, shutdown, ending>>

(* The lookup may fail, and fails once the context has ended, before or    *)
(* while it runs.                                                          *)
LookAgain(st) ==
  /\ stream[st].pc = "registered"
  /\ \/ /\ Live(stream[st].session)
        /\ stream' = [stream EXCEPT ![st].pc = "checked"]
     \/ stream' = [stream EXCEPT ![st].pc = "refused"]
  /\ UNCHANGED <<store, shutdown, ending>>

(* From here on frames may be sent, until the context ends. *)
OpenStream(st) ==
  /\ stream[st].pc = "checked"
  /\ stream' = [stream EXCEPT ![st].pc =
                  IF stream[st].cause # "none" \/ stream[st].session \in expired
                  THEN "refused" ELSE "open"]
  /\ UNCHANGED <<store, shutdown, ending>>

(* The deadline of the stream's context. *)
Deadline(st) ==
  /\ stream[st].pc = "open"
  /\ stream[st].cause = "none"
  /\ stream[st].session \in expired
  /\ stream' = [stream EXCEPT ![st].cause = "expired"]
  /\ UNCHANGED <<store, shutdown, ending>>

(* The client leaves, a delivery fails or the context has ended. *)
Unregister(st) ==
  /\ stream[st].pc \in {"refused", "open"}
  /\ stream' = [stream EXCEPT ![st] = Off]
  /\ UNCHANGED <<store, shutdown, ending>>

-----------------------------------------------------------------------------
(* Cancel calls of the hub: a context keeps its first cause.               *)

Cancelled(which, cause) ==
  [st \in Streams |->
     IF st \in which /\ stream[st].cause = "none" THEN [stream[st] EXCEPT !.cause = cause]
                                                  ELSE stream[st]]

-----------------------------------------------------------------------------
(* A request that ends sessions.  found is what it resolved beforehand,    *)
(* ended the sessions whose streams it has yet to cancel.                  *)

Idle == [pc |-> "idle", kind |-> "delete", session |-> NoSession, found |-> FALSE, ended |-> {}]

EndingCalls ==
  [pc : {"idle", "resolve", "delete", "cancel", "cancel account"},
   kind : {"delete", "replace", "others"}, session : Sessions \cup {NoSession},
   found : BOOLEAN, ended : SUBSET Sessions]

(* A token names a session that exists or did; signing out elsewhere comes *)
(* from a session that was live when its request was resolved.             *)
Begin(e, kind, s) ==
  /\ ending[e].pc = "idle"
  /\ IF kind = "others" THEN Live(s) ELSE session[s] # "new"
  /\ ending' = [ending EXCEPT ![e] = [Idle EXCEPT !.kind = kind, !.session = s,
                  !.pc = IF kind = "others" THEN "delete" ELSE "resolve"]]
  /\ UNCHANGED <<store, shutdown, stream>>

(* A failed lookup ends the request before it changed anything. *)
ResolvePrevious(e) ==
  /\ ending[e].pc = "resolve"
  /\ \/ ending' = [ending EXCEPT ![e].pc = "delete", ![e].found = Live(ending[e].session)]
     \/ ending' = [ending EXCEPT ![e] = Idle]
  /\ UNCHANGED <<store, shutdown, stream>>

(* Mutant: an error cancels nothing. *)
EndedNone(e, deleted, ok) == IF ok THEN deleted ELSE {}

(* The sessions whose streams to cancel after the mutation of a Delete or  *)
(* a Replace: those it reports, or after an error the one resolved before. *)
Ended(e, deleted, ok) ==
  IF ok THEN deleted ELSE IF ending[e].found THEN {ending[e].session} ELSE {}

(* The sessions a mutation deletes. *)
Doomed(e) ==
  LET s == ending[e].session
  IN {t \in Sessions :
        /\ session[t] = "stored"
        /\ IF ending[e].kind = "others" THEN AccountOf[t] = AccountOf[s] /\ t # s ELSE t = s}

(* One transaction, whose outcome the store may not learn.  A replacement  *)
(* also stores the new session.                                            *)
Mutate(e) ==
  /\ ending[e].pc = "delete"
  /\ \E ok, committed \in BOOLEAN, new \in SUBSET {s \in Sessions : session[s] = "new"} :
       /\ ok => committed
       /\ Cardinality(new) = IF ending[e].kind = "replace" /\ committed THEN 1 ELSE 0
       /\ session' = IF committed
                     THEN [s \in Sessions |-> IF s \in Doomed(e) THEN "deleted"
                                              ELSE IF s \in new THEN "stored" ELSE session[s]]
                     ELSE session
       /\ LET whole == ending[e].kind = "others" /\ ~ok
              ended == IF whole THEN {} ELSE Ended(e, Doomed(e), ok)
          IN ending' = [ending EXCEPT ![e] =
               IF whole THEN [Idle EXCEPT !.pc = "cancel account", !.session = ending[e].session]
                        ELSE [Idle EXCEPT !.pc = "cancel", !.ended = ended]]
  /\ UNCHANGED <<expired, shutdown, stream>>

CancelSession(e) ==
  /\ ending[e].pc = "cancel"
  /\ IF ending[e].ended = {}
     THEN /\ ending' = [ending EXCEPT ![e] = Idle]
          /\ UNCHANGED stream
     ELSE \E s \in ending[e].ended :
            /\ stream' = Cancelled(OfSession(s), "session ended")
            /\ ending' = [ending EXCEPT ![e].ended = @ \ {s}]
  /\ UNCHANGED <<store, shutdown>>

CancelAccount(e) ==
  /\ ending[e].pc = "cancel account"
  /\ stream' = Cancelled(OfAccount(AccountOf[ending[e].session]), "account cancelled")
  /\ ending' = [ending EXCEPT ![e] = Idle]
  /\ UNCHANGED <<store, shutdown>>

-----------------------------------------------------------------------------
(* The first step of serviceLifecycle.close.                               *)

CancelAll ==
  /\ ~shutdown
  /\ shutdown' = TRUE
  /\ stream' = Cancelled(Registered, "shutdown")
  /\ UNCHANGED <<store, ending>>

-----------------------------------------------------------------------------
RegistryInit ==
  /\ session = [s \in Sessions |-> "new"]
  /\ expired = {}
  /\ shutdown = FALSE
  /\ stream = [st \in Streams |-> Off]
  /\ ending = [e \in Endings |-> Idle]

StreamStep(st) ==
  \/ \E s \in Sessions : Resolve(st, s)
  \/ Register(st) \/ LookAgain(st) \/ OpenStream(st) \/ Deadline(st) \/ Unregister(st)

EndingStep(e) ==
  \/ \E kind \in {"delete", "replace", "others"}, s \in Sessions : Begin(e, kind, s)
  \/ ResolvePrevious(e) \/ Mutate(e) \/ CancelSession(e) \/ CancelAccount(e)

RegistryNext ==
  \/ \E st \in Streams : StreamStep(st)
  \/ \E e \in Endings : EndingStep(e)
  \/ \E s \in Sessions : Create(s) \/ Expire(s)
  \/ DeleteExpired
  \/ CancelAll

RegistrySpec == RegistryInit /\ [][RegistryNext]_registryVars

-----------------------------------------------------------------------------
(* The limits belong to the type: nothing registers beyond them. *)
RegistryTypeOK ==
  /\ session \in [Sessions -> {"new", "stored", "deleted"}]
  /\ expired \subseteq Sessions
  /\ shutdown \in BOOLEAN
  /\ stream \in [Streams -> Requests]
  /\ \A st \in Streams : stream[st].pc # "off" => stream[st].session \in Sessions
  /\ ending \in [Endings -> EndingCalls]
  /\ Cardinality(Registered) <= MaxStreams
  /\ \A s \in Sessions : Cardinality(OfAccount(AccountOf[s])) <= Limit

(* A request is about to cancel the streams of session s. *)
AboutToCancel(s) ==
  \E e \in Endings :
    \/ ending[e].pc = "cancel" /\ s \in ending[e].ended
    \/ ending[e].pc = "cancel account" /\ AccountOf[s] = AccountOf[ending[e].session]

(* No stream outlives its session: an open stream whose session is gone is *)
(* cancelled, about to be cancelled, or past its own deadline, whichever   *)
(* request deleted the session, in whatever order with the registration,   *)
(* and whether or not the store reported the deletion (openStream,         *)
(* web/stream.go:184-237; Sessions.Replace, Delete and DeleteOthers).      *)
NoStreamOutlivesSession ==
  \A st \in Streams :
    stream[st].pc = "open" /\ stream[st].cause = "none" =>
      LET s == stream[st].session
      IN session[s] = "stored" \/ s \in expired \/ AboutToCancel(s)

(* Once shutdown has begun no stream goes on, whenever its request arrived *)
(* (Hub.CancelAll, Hub.Register; serviceLifecycle.close waits for them).   *)
ShutdownReachesAll ==
  shutdown => \A st \in Registered : stream[st].cause # "none"
=============================================================================
