------------------------ MODULE StreamAuthorization ------------------------
(***************************************************************************)
(* The check a stream makes right before it sends: may this account still  *)
(* receive events of this organisation?  Allows are cached by account and  *)
(* slug.  Every change that may take access away gives its organisation a  *)
(* new access epoch in the same transaction, and a check believes a cached *)
(* membership only if its epoch is not below one read after the check      *)
(* began.                                                                  *)
(*                                                                         *)
(* The epoch's read goes through a Cache without entries, whose promise    *)
(* (FreshForItsCall of CachedEvents) is that it began after the call.  The *)
(* order of the cached allows is abstracted: any other may be evicted.     *)
(***************************************************************************)
EXTENDS Naturals, FiniteSets

CONSTANTS
  Streams,    \* streams, each making one check at a time
  Orgs,       \* every organisation that may ever exist
  Slugs,
  Members,    \* every member row that may ever exist
  AccountOf,  \* the account of each of them
  Capacity,   \* of the cached allows
  MaxEpoch    \* a bound on the epochs handed out

ASSUME StreamAuthorizationAssumption ==
  /\ "none" \notin Streams /\ "none" \notin Slugs
  /\ {"none", "new", "left"} \cap Orgs = {}
  /\ "none" \notin Members
  /\ DOMAIN AccountOf = Members
  /\ Capacity \in Nat \ {0}
  /\ MaxEpoch \in Nat

VARIABLES
  organization,  \* each organisation's slug and access epoch
  member,        \* the organisation of each member row
  seq,           \* organization_access_epoch_seq
  entries,       \* the cached allow of each key
  latest,        \* the newest check of each key, while it runs
  check,         \* each stream's subscription and check
  was,           \* members who had access at some time of the check
  absent         \* whether nobody had, at some time of the check

rows == <<organization, member, seq>>
cache == <<entries, latest>>
history == <<was, absent>>
authorizationVars == <<rows, cache, check, history>>

Accounts == {AccountOf[m] : m \in Members}

Keys == Accounts \X Slugs

Missing == [member |-> "none", org |-> "none", epoch |-> 0]

Memberships == [member : Members, org : Orgs, epoch : Nat]

NotStreaming == [pc |-> "off", account |-> "none", slug |-> "none", org |-> "none",
                 epoch |-> 0, cached |-> Missing, read |-> Missing]

Key(st) == <<check[st].account, check[st].slug>>

Checking(st) == check[st].pc \notin {"off", "open"}

-----------------------------------------------------------------------------
(* The rows.  Writers lock the organisation first, so the epochs of one    *)
(* organisation commit in order.                                           *)

Exists(o) == organization[o].slug # "none"

Free(s) == \A o \in Orgs : organization[o].slug # s

(* The rows that give a stream's account access to what it subscribed to. *)
Standing(st) ==
  {m \in Members :
     /\ check[st].pc # "off"
     /\ member[m] = check[st].org
     /\ AccountOf[m] = check[st].account
     /\ organization[check[st].org].slug = check[st].slug}

(* What running checks live through. *)
Witness ==
  /\ was' = [st \in Streams |-> IF Checking(st) THEN was[st] \cup Standing(st)' ELSE was[st]]
  /\ absent' = [st \in Streams |-> absent[st] \/ (Checking(st) /\ Standing(st)' = {})]

RowsChange == UNCHANGED <<cache, check>> /\ Witness

Bumped(o, epoch) == [organization EXCEPT ![o].access_epoch = epoch]

Create(o, s) ==
  /\ organization[o] = [slug |-> "none", access_epoch |-> 0]
  /\ Free(s)
  /\ seq < MaxEpoch
  /\ seq' = seq + 1
  /\ organization' = [organization EXCEPT ![o] = [slug |-> s, access_epoch |-> seq']]
  /\ UNCHANGED member
  /\ RowsChange

Rename(o, s) ==
  /\ Exists(o) /\ Free(s)
  /\ seq < MaxEpoch
  /\ seq' = seq + 1
  /\ organization' = [organization EXCEPT ![o] = [slug |-> s, access_epoch |-> seq']]
  /\ UNCHANGED member
  /\ RowsChange

Delete(o) ==
  /\ Exists(o)
  /\ \A m \in Members : member[m] # o
  /\ organization' = [organization EXCEPT ![o].slug = "none"]
  /\ UNCHANGED <<member, seq>>
  /\ RowsChange

(* One row per organisation and account. *)
Joinable(m, o) ==
  Exists(o) /\ \A n \in Members \ {m} : member[n] = o => AccountOf[n] # AccountOf[m]

Join(m, o) ==
  /\ member[m] = "new"
  /\ Joinable(m, o)
  /\ member' = [member EXCEPT ![m] = o]
  /\ UNCHANGED <<organization, seq>>
  /\ RowsChange

Leave(m) ==
  /\ member[m] \in Orgs
  /\ seq < MaxEpoch
  /\ seq' = seq + 1
  /\ organization' = Bumped(member[m], seq')
  /\ member' = [member EXCEPT ![m] = "left"]
  /\ RowsChange

ChangeRole(m) ==
  /\ member[m] \in Orgs
  /\ seq < MaxEpoch
  /\ seq' = seq + 1
  /\ organization' = Bumped(member[m], seq')
  /\ UNCHANGED member
  /\ RowsChange

Move(m, o) ==
  /\ member[m] \in Orgs \ {o}
  /\ Joinable(m, o)
  /\ seq + 1 < MaxEpoch
  /\ seq' = seq + 2
  /\ organization' = [Bumped(member[m], seq + 1) EXCEPT ![o].access_epoch = seq + 2]
  /\ member' = [member EXCEPT ![m] = o]
  /\ RowsChange

-----------------------------------------------------------------------------
(* The check.                                                              *)

(* The page's request resolved the membership. *)
Open(st) ==
  /\ check[st].pc = "off"
  /\ \E m \in Members :
       /\ member[m] \in Orgs
       /\ check' = [check EXCEPT ![st] =
            [NotStreaming EXCEPT !.pc = "open", !.account = AccountOf[m], !.org = member[m],
                                 !.slug = organization[member[m]].slug]]
  /\ UNCHANGED <<rows, cache, history>>

Close(st) ==
  /\ check[st].pc = "open"
  /\ check' = [check EXCEPT ![st] = NotStreaming]
  /\ UNCHANGED <<rows, cache, history>>

Begin(st) ==
  /\ check[st].pc = "open"
  /\ latest' = [latest EXCEPT ![Key(st)] = st]
  /\ check' = [check EXCEPT ![st].pc = "epoch", ![st].cached = entries[Key(st)]]
  /\ was' = [was EXCEPT ![st] = Standing(st)]
  /\ absent' = [absent EXCEPT ![st] = Standing(st) = {}]
  /\ UNCHANGED <<rows, entries>>

(* The process shuts down, the stream's context ends or a query fails.     *)
QueryFails(st) ==
  /\ check[st].pc \in {"epoch", "decide", "member", "store"}
  /\ check' = [check EXCEPT ![st].pc = "failed"]
  /\ UNCHANGED <<rows, cache, history>>

ReadEpoch(st) ==
  /\ check[st].pc = "epoch"
  /\ LET o == check[st].org
     IN check' = IF Exists(o)
                 THEN [check EXCEPT ![st].pc = "decide", ![st].epoch = organization[o].access_epoch]
                 ELSE [check EXCEPT ![st].pc = "denied"]
  /\ UNCHANGED <<rows, cache, history>>

(* Mutant: any cached membership of the organisation will do. *)
CoversAny(m, st) == m.org = check[st].org

(* Mutant: only the very epoch read will do. *)
CoversExactly(m, st) == m.org = check[st].org /\ m.epoch = check[st].epoch

Covers(m, st) == m.org = check[st].org /\ m.epoch >= check[st].epoch

Allowed(st, m) == [check EXCEPT ![st].pc = "allowed", ![st].read = m]

Hit(st) ==
  /\ check[st].pc = "decide"
  /\ Covers(check[st].cached, st)
  /\ check' = Allowed(st, check[st].cached)
  /\ UNCHANGED <<rows, cache, history>>

SecondLook(st) ==
  /\ check[st].pc = "decide"
  /\ ~ Covers(check[st].cached, st)
  /\ LET entry == entries[Key(st)]
     IN IF Covers(entry, st)
        THEN /\ check' = Allowed(st, entry)
             /\ UNCHANGED entries
        ELSE /\ check' = [check EXCEPT ![st].pc = "member"]
             /\ entries' = [entries EXCEPT ![Key(st)] = Missing]
  /\ UNCHANGED <<rows, latest, history>>

(* The membership of the account in whatever organisation has the slug. *)
Found(st) ==
  {[member |-> m, org |-> member[m], epoch |-> organization[member[m]].access_epoch] :
     m \in {n \in Members :
              /\ member[n] \in Orgs
              /\ AccountOf[n] = check[st].account
              /\ organization[member[n]].slug = check[st].slug}}

ReadMember(st) ==
  /\ check[st].pc = "member"
  /\ \E m \in IF Found(st) = {} THEN {Missing} ELSE Found(st) :
       check' = [check EXCEPT ![st].pc = "store", ![st].read = m]
  /\ UNCHANGED <<rows, cache, history>>

Resident == {k \in Keys : entries[k] # Missing}

(* Mutant: nothing is ever evicted. *)
PutUnbounded(k, m) == entries' = [entries EXCEPT ![k] = m]

Put(k, m) ==
  LET others == Resident \ {k}
  IN IF Cardinality(others) < Capacity
     THEN entries' = [entries EXCEPT ![k] = m]
     ELSE \E j \in others : entries' = [entries EXCEPT ![k] = m, ![j] = Missing]

Store(st) ==
  /\ check[st].pc = "store"
  /\ LET k == Key(st)
         m == check[st].read
     IN /\ IF latest[k] = st /\ Covers(m, st) /\ entries[k].epoch <= m.epoch
           THEN Put(k, m)
           ELSE UNCHANGED entries
        /\ check' = [check EXCEPT ![st].pc = IF Covers(m, st) THEN "allowed" ELSE "denied"]
  /\ UNCHANGED <<rows, latest, history>>

(* The deferred release, and the answer to the stream. *)
Return(st) ==
  /\ check[st].pc \in {"allowed", "denied", "failed"}
  /\ latest' = IF latest[Key(st)] = st THEN [latest EXCEPT ![Key(st)] = "none"] ELSE latest
  /\ check' = [check EXCEPT ![st].pc = "open", ![st].epoch = 0,
                            ![st].cached = Missing, ![st].read = Missing]
  /\ was' = [was EXCEPT ![st] = {}]
  /\ absent' = [absent EXCEPT ![st] = FALSE]
  /\ UNCHANGED <<rows, entries>>

-----------------------------------------------------------------------------
AuthorizationInit ==
  /\ organization = [o \in Orgs |-> [slug |-> "none", access_epoch |-> 0]]
  /\ member = [m \in Members |-> "new"]
  /\ seq = 0
  /\ entries = [k \in Keys |-> Missing]
  /\ latest = [k \in Keys |-> "none"]
  /\ check = [st \in Streams |-> NotStreaming]
  /\ was = [st \in Streams |-> {}]
  /\ absent = [st \in Streams |-> FALSE]

RowStep ==
  \/ \E o \in Orgs, s \in Slugs : Create(o, s) \/ Rename(o, s)
  \/ \E o \in Orgs : Delete(o)
  \/ \E m \in Members, o \in Orgs : Join(m, o) \/ Move(m, o)
  \/ \E m \in Members : Leave(m) \/ ChangeRole(m)

CheckStep(st) ==
  \/ Open(st) \/ Close(st) \/ Begin(st) \/ QueryFails(st) \/ ReadEpoch(st) \/ Hit(st)
  \/ SecondLook(st) \/ ReadMember(st) \/ Store(st) \/ Return(st)

AuthorizationNext == RowStep \/ \E st \in Streams : CheckStep(st)

AuthorizationSpec == AuthorizationInit /\ [][AuthorizationNext]_authorizationVars

-----------------------------------------------------------------------------
Pcs == {"off", "open", "epoch", "decide", "member", "store", "allowed", "denied", "failed"}

Checks ==
  [pc : Pcs, account : Accounts, slug : Slugs, org : Orgs, epoch : Nat,
   cached : Memberships \cup {Missing}, read : Memberships \cup {Missing}]

Typed ==
  /\ organization \in [Orgs -> [slug : Slugs \cup {"none"}, access_epoch : Nat]]
  /\ member \in [Members -> Orgs \cup {"new", "left"}]
  /\ seq \in Nat
  /\ entries \in [Keys -> Memberships \cup {Missing}]
  /\ latest \in [Keys -> Streams \cup {"none"}]
  /\ check \in [Streams -> Checks \cup {NotStreaming}]
  /\ was \in [Streams -> SUBSET Members]
  /\ absent \in [Streams -> BOOLEAN]

(* The capacity belongs to the type: no more allows are kept. *)
AuthorizationTypeOK == Typed /\ Cardinality(Resident) <= Capacity

(* A check never answers with a membership that ended before the check     *)
(* began, whatever was cached, shared or read by others meanwhile          *)
(* (streamMembership, stream_authorizer.go:86-184; migration 00010).       *)
AllowedWasMember ==
  \A st \in Streams : check[st].pc = "allowed" => check[st].read.member \in was[st]

(* A check never denies an account that had access all the time it ran: a  *)
(* stream skips a denied event for good (stream_authorizer.go:130-184).    *)
DeniedWasNot ==
  \A st \in Streams : check[st].pc = "denied" => absent[st]
=============================================================================
