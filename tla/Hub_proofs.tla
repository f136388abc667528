---------------------------- MODULE Hub_proofs ----------------------------
(***************************************************************************)
(* Proofs about the two halves of realtime.Hub.                            *)
(*                                                                         *)
(* The levels (module Hub): type correctness, no lost wakeup, one close    *)
(* per channel, and levels that never fall, for any levels, raisers,       *)
(* waiters and interests.                                                  *)
(*                                                                         *)
(* The registry (module Registry): its limits hold, no stream outlives its *)
(* session, and none goes on after shutdown, for any number of streams,    *)
(* sessions and requests that end them.                                    *)
(***************************************************************************)
EXTENDS Hub, Registry, FiniteSetTheorems, TLAPS

Closing(r, k, c) == raise[r].pc = "close" /\ raise[r].on = k /\ raise[r].old.changed = c

(* A published channel is open; one that was replaced is closed, or the    *)
(* raiser that replaced it is about to close it.                           *)
ChannelsOwned ==
  \A k \in Levels :
    /\ \A c \in closed[k] : c < level[k].changed
    /\ \A c \in Nat : c < level[k].changed =>
         c \in closed[k] \/ \E r \in Raisers : Closing(r, k, c)
    /\ \A r \in Raisers, c \in Nat : Closing(r, k, c) => c < level[k].changed

(* What a stream captured is a state that was published: an older channel, *)
(* or the value published together with the current one.                   *)
CapturedTogether ==
  \A s \in Waiters :
    /\ \A k \in wait[s].loaded :
         /\ wait[s].got[k].changed <= level[k].changed
         /\ wait[s].got[k].changed = level[k].changed => wait[s].got[k].latest = level[k].latest
    /\ wait[s].pc = "select" =>
         /\ wait[s].loaded = Interests[s]
         /\ \A k \in Interests[s] : wait[s].got[k].latest <= seen[s][k]

IInv == TypeOK /\ ClosedOnce /\ ChannelsOwned /\ CapturedTogether

-----------------------------------------------------------------------------
(* Type correctness, action by action. *)
LEMMA InitTypeOK == Init => TypeOK
<1>. SUFFICES ASSUME Init PROVE TypeOK
  OBVIOUS
<1>. PICK c \in [Waiters -> 0 .. MaxSeq] :
       seen = [s \in Waiters |-> [k \in Levels |-> IF k = Durable THEN c[s] ELSE 0]]
  BY DEF Init
<1>. QED
  BY HubAssumption
     DEF Init, TypeOK, States, Unraised, NotRaising, RaiseCalls, NotWaiting, WaitCalls

LEMMA RaiserTypeOK ==
  ASSUME NEW r \in Raisers, TypeOK,
         RaiseStep(r) \/ (\E k \in Levels, seq \in 1 .. MaxSeq : Raise(r, k, seq))
  PROVE  TypeOK'
<1>0. /\ raise \in [Raisers -> RaiseCalls] /\ raise[r] \in RaiseCalls
      /\ \A q \in Raisers : raise[q].pc \in {"swap", "close"} => raise[q].old.latest < raise[q].seq
  BY DEF TypeOK
<1>1. ASSUME NEW call \in RaiseCalls, raise' = [raise EXCEPT ![r] = call],
             call.pc \in {"swap", "close"} => call.old.latest < call.seq
      PROVE  /\ raise' \in [Raisers -> RaiseCalls]
             /\ \A q \in Raisers :
                  raise'[q].pc \in {"swap", "close"} => raise'[q].old.latest < raise'[q].seq
  BY <1>0, <1>1
<1>2. CASE \E k \in Levels, seq \in 1 .. MaxSeq : Raise(r, k, seq)
  <2>. PICK k \in Levels, seq \in 1 .. MaxSeq : Raise(r, k, seq)
    BY <1>2
  <2>. DEFINE call == [pc |-> "load", on |-> k, seq |-> seq, old |-> Unraised]
  <2>0. seq \in Nat
    BY HubAssumption
  <2>1. call \in RaiseCalls /\ call.pc = "load"
    BY <2>0 DEF RaiseCalls, States, Unraised
  <2>2. raise' = [raise EXCEPT ![r] = call] /\ UNCHANGED <<level, closed, wait, seen>>
    BY DEF Raise
  <2>. QED
    BY <1>1, <2>1, <2>2 DEF TypeOK
<1>3. CASE RaiseLoad(r)
  <2>. DEFINE old == level[raise[r].on]
              call == IF raise[r].seq <= old.latest THEN NotRaising
                      ELSE [raise[r] EXCEPT !.pc = "swap", !.old = old]
  <2>1. old \in States
    BY DEF TypeOK, RaiseCalls
  <2>2. call \in RaiseCalls /\ (call.pc \in {"swap", "close"} => call.old.latest < call.seq)
    <3>1. CASE raise[r].seq <= old.latest
      BY <3>1, HubAssumption DEF NotRaising, RaiseCalls, States, Unraised
    <3>2. CASE ~(raise[r].seq <= old.latest)
      <4>1. raise[r].seq \in Nat /\ old.latest \in Nat
        BY <1>0, <2>1 DEF RaiseCalls, States
      <4>2. call = [raise[r] EXCEPT !.pc = "swap", !.old = old]
        BY <3>2
      <4>3. call \in RaiseCalls /\ call.old = old /\ call.seq = raise[r].seq
        BY <1>0, <2>1, <4>2 DEF RaiseCalls
      <4>. QED
        BY <3>2, <4>1, <4>3
    <3>. QED
      BY <3>1, <3>2
  <2>3. raise' = [raise EXCEPT ![r] = call] /\ UNCHANGED <<level, closed, wait, seen>>
    BY <1>3, <1>0 DEF RaiseLoad
  <2>. QED
    BY <1>1, <2>2, <2>3 DEF TypeOK
<1>4. CASE RaiseSwap(r)
  <2>. DEFINE k == raise[r].on
              old == raise[r].old
              pc == IF level[k] = old THEN "close" ELSE "load"
              call == [raise[r] EXCEPT !.pc = pc]
              next == [latest |-> raise[r].seq, changed |-> old.changed + 1]
  <2>1. call \in RaiseCalls /\ (call.pc \in {"swap", "close"} => call.old.latest < call.seq)
    BY <1>0, <1>4 DEF RaiseCalls, RaiseSwap
  <2>2. next \in States
    BY <1>0 DEF RaiseCalls, States
  <2>3. raise' = [raise EXCEPT ![r] = call] /\ UNCHANGED <<closed, wait, seen>>
    BY <1>4, <1>0 DEF RaiseSwap
  <2>4. level' = IF level[k] = old THEN [level EXCEPT ![k] = next] ELSE level
    BY <1>4 DEF RaiseSwap
  <2>5. level' \in [Levels -> States]
    BY <2>2, <2>4 DEF TypeOK
  <2>. QED
    BY <1>1, <2>1, <2>3, <2>5 DEF TypeOK
<1>5. CASE RaiseClose(r)
  <2>1. NotRaising \in RaiseCalls /\ NotRaising.pc = "idle"
    BY HubAssumption DEF NotRaising, RaiseCalls, States, Unraised
  <2>2. closed' \in [Levels -> SUBSET Nat]
    BY <1>0, <1>5 DEF RaiseClose, TypeOK, RaiseCalls, States
  <2>3. raise' = [raise EXCEPT ![r] = NotRaising] /\ UNCHANGED <<level, wait, seen>>
    BY <1>5 DEF RaiseClose
  <2>. QED
    BY <1>1, <2>1, <2>2, <2>3 DEF TypeOK
<1>. QED
  BY <1>2, <1>3, <1>4, <1>5 DEF RaiseStep

LEMMA StreamTypeOK ==
  ASSUME NEW s \in Waiters, TypeOK, WaitStep(s) \/ WaitCancelled(s)
  PROVE  TypeOK'
<1>. USE DEF TypeOK, States, WaitCalls, NotWaiting, Unraised
<1>1. CASE WaitFor(s)
  BY <1>1 DEF WaitFor
<1>2. CASE WaitLoad(s)
  <2>. PICK k \in Interests[s] :
         wait' = [wait EXCEPT ![s].loaded = @ \cup {k}, ![s].got[k] = level[k]]
    BY <1>2 DEF WaitLoad
  <2>1. k \in Levels /\ level[k] \in States
    BY HubAssumption
  <2>2. [wait[s] EXCEPT !.loaded = @ \cup {k}, !.got[k] = level[k]] \in WaitCalls
    BY <2>1
  <2>3. wait' = [wait EXCEPT ![s] = [wait[s] EXCEPT !.loaded = @ \cup {k}, !.got[k] = level[k]]]
    OBVIOUS
  <2>. QED
    BY <1>2, <2>2, <2>3 DEF WaitLoad
<1>3. CASE WaitSelect(s)
  BY <1>3 DEF WaitSelect
<1>4. CASE WaitReturn(s)
  BY <1>4 DEF WaitReturn
<1>5. CASE WaitWake(s)
  BY <1>5 DEF WaitWake
<1>6. CASE WaitCancelled(s)
  BY <1>6 DEF WaitCancelled
<1>. QED
  BY <1>1, <1>2, <1>3, <1>4, <1>5, <1>6 DEF WaitStep

LEMMA StepTypeOK == TypeOK /\ [Next]_vars => TypeOK'
<1>. SUFFICES ASSUME TypeOK, [Next]_vars PROVE TypeOK'
  OBVIOUS
<1>1. CASE UNCHANGED vars
  BY <1>1 DEF vars, TypeOK
<1>2. CASE Next
  BY <1>2, RaiserTypeOK, StreamTypeOK DEF Next
<1>. QED
  BY <1>1, <1>2

(* Every variable stays in its set, and a raiser that is past its first    *)
(* comparison holds a state below the value it raises (Hub.raise).         *)
THEOREM TypeCorrect == Spec => []TypeOK
  BY InitTypeOK, StepTypeOK, PTL DEF Spec

-----------------------------------------------------------------------------
(* The inductive invariant. *)
LEMMA InitIInv == Init => IInv
<1>. SUFFICES ASSUME Init PROVE IInv
  OBVIOUS
<1>1. TypeOK
  BY InitTypeOK
<1>2. ClosedOnce /\ ChannelsOwned
  BY DEF Init, ClosedOnce, ChannelsOwned, Closing, NotRaising, Unraised
<1>3. CapturedTogether
  BY DEF Init, CapturedTogether, NotWaiting
<1>. QED
  BY <1>1, <1>2, <1>3 DEF IInv

(* A successful swap hands the replaced channel to the raiser alone. *)
LEMMA SwapIInv ==
  ASSUME NEW r \in Raisers, IInv, RaiseSwap(r), level[raise[r].on] = raise[r].old
  PROVE  IInv'
<1>. DEFINE k == raise[r].on
            old == raise[r].old
<1>1. TypeOK'
  BY RaiserTypeOK DEF IInv, RaiseStep
<1>2. /\ raise[r].pc = "swap"
      /\ level' = [level EXCEPT ![k] = [latest |-> raise[r].seq, changed |-> old.changed + 1]]
      /\ raise' = [raise EXCEPT ![r].pc = "close"]
      /\ UNCHANGED <<closed, wait, seen>>
  BY DEF RaiseSwap
<1>3. k \in Levels /\ old \in States /\ raise \in [Raisers -> RaiseCalls]
      /\ level \in [Levels -> States] /\ closed \in [Levels -> SUBSET Nat]
  BY DEF IInv, TypeOK, RaiseCalls
<1>4. /\ raise'[r].pc = "close" /\ raise'[r].on = k /\ raise'[r].old = old
      /\ \A q \in Raisers \ {r} : raise'[q] = raise[q]
  BY <1>2, <1>3 DEF RaiseCalls
<1>5. /\ level'[k].changed = level[k].changed + 1
      /\ level[k].changed \in Nat
      /\ \A j \in Levels \ {k} : level'[j] = level[j]
  BY <1>2, <1>3 DEF States
<1>6. ClosedOnce'
  <2>1. old.changed \notin closed[k]
    BY <1>3 DEF IInv, ChannelsOwned, States
  <2>2. \A q \in Raisers : ~Closing(q, k, old.changed)
    BY <1>3 DEF IInv, ChannelsOwned, States
  <2>. QED
    BY <1>2, <1>4, <2>1, <2>2 DEF IInv, ClosedOnce, Closing
<1>7. ChannelsOwned'
  <2>. SUFFICES ASSUME NEW j \in Levels
                PROVE  /\ \A c \in closed'[j] : c < level'[j].changed
                       /\ \A c \in Nat : c < level'[j].changed =>
                            c \in closed'[j] \/ \E q \in Raisers : Closing(q, j, c)'
                       /\ \A q \in Raisers, c \in Nat : Closing(q, j, c)' => c < level'[j].changed
    BY DEF ChannelsOwned
  <2>0. \A q \in Raisers \ {r}, c \in Nat : Closing(q, j, c)' <=> Closing(q, j, c)
    BY <1>4 DEF Closing
  <2>1. \A c \in Nat : Closing(r, j, c)' <=> j = k /\ c = level[k].changed
    BY <1>4, <1>3 DEF Closing
  <2>2. ~ \E c \in Nat : Closing(r, j, c)
    BY <1>2 DEF Closing
  <2>3. CASE j = k
    <3>1. level'[j].changed = level[j].changed + 1 /\ level[j].changed \in Nat
          /\ closed' = closed /\ closed[j] \subseteq Nat
      BY <2>3, <1>2, <1>3, <1>5
    <3>2. \A c \in closed'[j] : c < level'[j].changed
      BY <3>1 DEF IInv, ChannelsOwned
    <3>3. ASSUME NEW c \in Nat, c < level'[j].changed
          PROVE  c \in closed'[j] \/ \E q \in Raisers : Closing(q, j, c)'
      <4>1. CASE c = level[j].changed
        BY <4>1, <2>1, <2>3
      <4>2. CASE c < level[j].changed
        <5>1. c \in closed[j] \/ \E q \in Raisers : Closing(q, j, c)
          BY <4>2 DEF IInv, ChannelsOwned
        <5>. QED
          BY <5>1, <3>1, <2>0, <2>2
      <4>. QED
        BY <3>1, <3>3, <4>1, <4>2
    <3>4. \A q \in Raisers, c \in Nat : Closing(q, j, c)' => c < level'[j].changed
      <4>. SUFFICES ASSUME NEW q \in Raisers, NEW c \in Nat, Closing(q, j, c)'
                    PROVE  c < level'[j].changed
        OBVIOUS
      <4>1. CASE q = r
        BY <4>1, <2>1, <2>3, <3>1
      <4>2. CASE q # r
        <5>1. c < level[j].changed
          BY <4>2, <2>0 DEF IInv, ChannelsOwned
        <5>. QED
          BY <5>1, <3>1
      <4>. QED
        BY <4>1, <4>2
    <3>. QED
      BY <3>2, <3>3, <3>4
  <2>4. CASE j # k
    BY <2>0, <2>1, <2>2, <2>4, <1>2, <1>5 DEF IInv, ChannelsOwned
  <2>. QED
    BY <2>3, <2>4
<1>8. CapturedTogether'
  <2>1. \A s \in Waiters : \A j \in wait[s].loaded :
          /\ wait[s].got[j].changed <= level'[j].changed
          /\ wait[s].got[j].changed = level'[j].changed => wait[s].got[j].latest = level'[j].latest
    <3>. SUFFICES ASSUME NEW s \in Waiters, NEW j \in wait[s].loaded
                  PROVE  /\ wait[s].got[j].changed <= level'[j].changed
                         /\ wait[s].got[j].changed = level'[j].changed =>
                              wait[s].got[j].latest = level'[j].latest
      OBVIOUS
    <3>1. j \in Levels /\ wait[s].got[j].changed \in Nat
      BY DEF IInv, TypeOK, WaitCalls, States
    <3>2. CASE j = k
      BY <3>1, <3>2, <1>5 DEF IInv, CapturedTogether
    <3>3. CASE j # k
      BY <3>1, <3>3, <1>5 DEF IInv, CapturedTogether
    <3>. QED
      BY <3>2, <3>3
  <2>. QED
    BY <2>1, <1>2 DEF IInv, CapturedTogether
<1>. QED
  BY <1>1, <1>6, <1>7, <1>8 DEF IInv

(* Closing moves a channel from the raiser that owns it to closed. *)
LEMMA CloseIInv ==
  ASSUME NEW r \in Raisers, IInv, RaiseClose(r)
  PROVE  IInv'
<1>. DEFINE k == raise[r].on
            gone == raise[r].old.changed
<1>1. TypeOK'
  BY RaiserTypeOK DEF IInv, RaiseStep
<1>2. /\ raise[r].pc = "close"
      /\ closed' = [closed EXCEPT ![k] = @ \cup {gone}]
      /\ raise' = [raise EXCEPT ![r] = NotRaising]
      /\ UNCHANGED <<level, wait, seen>>
  BY DEF RaiseClose
<1>3. k \in Levels /\ gone \in Nat /\ raise \in [Raisers -> RaiseCalls]
      /\ closed \in [Levels -> SUBSET Nat]
  BY DEF IInv, TypeOK, RaiseCalls, States
<1>4. raise'[r].pc = "idle" /\ \A q \in Raisers \ {r} : raise'[q] = raise[q]
  BY <1>2, <1>3 DEF NotRaising
<1>5. Closing(r, k, gone)
  BY <1>2 DEF Closing
<1>6. closed'[k] = closed[k] \cup {gone} /\ \A j \in Levels \ {k} : closed'[j] = closed[j]
  BY <1>2, <1>3
<1>7. ClosedOnce'
  <2>. SUFFICES ASSUME NEW q \in Raisers, raise'[q].pc = "close"
                PROVE  /\ raise'[q].old.changed \notin closed'[raise'[q].on]
                       /\ \A p \in Raisers \ {q} :
                            ~ /\ raise'[p].pc = "close"
                              /\ raise'[p].on = raise'[q].on
                              /\ raise'[p].old.changed = raise'[q].old.changed
    BY DEF ClosedOnce
  <2>1. q # r /\ raise'[q] = raise[q] /\ raise[q].on \in Levels
    BY <1>4, <1>3 DEF RaiseCalls
  <2>2. ~(raise[q].on = k /\ raise[q].old.changed = gone)
    BY <2>1, <1>2 DEF IInv, ClosedOnce
  <2>3. raise'[q].old.changed \notin closed'[raise'[q].on]
    <3>1. CASE raise[q].on = k
      BY <3>1, <2>1, <2>2, <1>6 DEF IInv, ClosedOnce
    <3>2. CASE raise[q].on # k
      BY <3>2, <2>1, <1>6 DEF IInv, ClosedOnce
    <3>. QED
      BY <3>1, <3>2
  <2>4. \A p \in Raisers \ {q} : raise'[p].pc = "close" => raise'[p] = raise[p]
    BY <1>4
  <2>. QED
    BY <2>1, <2>3, <2>4 DEF IInv, ClosedOnce
<1>8. ChannelsOwned'
  <2>1. \A q \in Raisers, j \in Levels, c \in Nat :
          Closing(q, j, c)' <=> q # r /\ Closing(q, j, c)
    BY <1>4 DEF Closing
  <2>2. \A j \in Levels, c \in Nat : Closing(r, j, c) => j = k /\ c = gone
    BY DEF Closing
  <2>3. gone < level[k].changed
    BY <1>3, <1>5 DEF IInv, ChannelsOwned
  <2>. SUFFICES ASSUME NEW j \in Levels
                PROVE  /\ \A c \in closed'[j] : c < level[j].changed
                       /\ \A c \in Nat : c < level[j].changed =>
                            c \in closed'[j] \/ \E q \in Raisers : Closing(q, j, c)'
                       /\ \A q \in Raisers, c \in Nat : Closing(q, j, c)' => c < level[j].changed
    BY <1>2 DEF ChannelsOwned
  <2>4. \A c \in closed'[j] : c < level[j].changed
    BY <2>3, <1>6 DEF IInv, ChannelsOwned
  <2>5. ASSUME NEW c \in Nat, c < level[j].changed
        PROVE  c \in closed'[j] \/ \E q \in Raisers : Closing(q, j, c)'
    BY <2>5, <2>1, <2>2, <1>6 DEF IInv, ChannelsOwned
  <2>6. \A q \in Raisers, c \in Nat : Closing(q, j, c)' => c < level[j].changed
    BY <2>1 DEF IInv, ChannelsOwned
  <2>. QED
    BY <2>4, <2>5, <2>6
<1>9. CapturedTogether'
  BY <1>2 DEF IInv, CapturedTogether
<1>. QED
  BY <1>1, <1>7, <1>8, <1>9 DEF IInv

(* A raiser that only moves to another step before its swap changes no     *)
(* channel's owner.                                                        *)
LEMMA QuietRaiseIInv ==
  ASSUME NEW r \in Raisers, IInv, TypeOK',
         raise[r].pc # "close", raise'[r].pc # "close",
         \A q \in Raisers \ {r} : raise'[q] = raise[q],
         UNCHANGED <<level, closed, wait, seen>>
  PROVE  IInv'
<1>1. \A q \in Raisers : raise'[q].pc = "close" => raise'[q] = raise[q]
  OBVIOUS
<1>2. \A q \in Raisers, k \in Levels, c \in Nat : Closing(q, k, c)' <=> Closing(q, k, c)
  BY DEF Closing
<1>3. ClosedOnce'
  BY <1>1 DEF IInv, ClosedOnce
<1>4. ChannelsOwned'
  BY <1>2 DEF IInv, ChannelsOwned
<1>5. CapturedTogether'
  BY DEF IInv, CapturedTogether
<1>. QED
  BY <1>3, <1>4, <1>5 DEF IInv

LEMMA RaiserIInv ==
  ASSUME NEW r \in Raisers, IInv,
         RaiseStep(r) \/ (\E k \in Levels, seq \in 1 .. MaxSeq : Raise(r, k, seq))
  PROVE  IInv'
<1>1. TypeOK'
  BY RaiserTypeOK DEF IInv
<1>2. raise \in [Raisers -> RaiseCalls]
  BY DEF IInv, TypeOK
<1>3. CASE \E k \in Levels, seq \in 1 .. MaxSeq : Raise(r, k, seq)
  BY <1>1, <1>2, <1>3, QuietRaiseIInv DEF Raise, NotRaising
<1>4. CASE RaiseLoad(r)
  <2>1. raise[r].pc = "load" /\ raise'[r].pc # "close"
    BY <1>2, <1>4 DEF RaiseLoad, NotRaising, RaiseCalls
  <2>2. /\ \A q \in Raisers \ {r} : raise'[q] = raise[q]
        /\ UNCHANGED <<level, closed, wait, seen>>
    BY <1>2, <1>4 DEF RaiseLoad
  <2>. QED
    BY <1>1, <2>1, <2>2, QuietRaiseIInv
<1>5. CASE RaiseSwap(r) /\ level[raise[r].on] = raise[r].old
  BY <1>5, SwapIInv
<1>6. CASE RaiseSwap(r) /\ level[raise[r].on] # raise[r].old
  <2>1. raise[r].pc = "swap" /\ raise'[r].pc # "close"
    BY <1>2, <1>6 DEF RaiseSwap, RaiseCalls
  <2>2. /\ \A q \in Raisers \ {r} : raise'[q] = raise[q]
        /\ UNCHANGED <<level, closed, wait, seen>>
    BY <1>2, <1>6 DEF RaiseSwap
  <2>. QED
    BY <1>1, <2>1, <2>2, QuietRaiseIInv
<1>7. CASE RaiseClose(r)
  BY <1>7, CloseIInv
<1>. QED
  BY <1>3, <1>4, <1>5, <1>6, <1>7 DEF RaiseStep

(* A waiting stream only touches its own captures. *)
LEMMA StreamIInv ==
  ASSUME NEW s \in Waiters, IInv, WaitStep(s) \/ WaitCancelled(s)
  PROVE  IInv'
<1>1. TypeOK'
  BY StreamTypeOK DEF IInv
<1>2. UNCHANGED <<level, closed, raise>>
  BY DEF WaitStep, WaitFor, WaitLoad, WaitSelect, WaitReturn, WaitWake, WaitCancelled
<1>3. ClosedOnce' /\ ChannelsOwned'
  <2>1. \A q \in Raisers, k \in Levels, c \in Nat : Closing(q, k, c)' <=> Closing(q, k, c)
    BY <1>2 DEF Closing
  <2>. QED
    BY <2>1, <1>2 DEF IInv, ClosedOnce, ChannelsOwned
<1>4. CapturedTogether'
  <2>0. /\ wait \in [Waiters -> WaitCalls]
        /\ level \in [Levels -> States]
        /\ Interests \in [Waiters -> SUBSET Levels]
        /\ \A t \in Waiters \ {s} : wait'[t] = wait[t] /\ seen'[t] = seen[t]
    BY HubAssumption
       DEF IInv, TypeOK, WaitStep, WaitFor, WaitLoad, WaitSelect, WaitReturn, WaitWake,
           WaitCancelled
  <2>. SUFFICES
         /\ \A k \in wait'[s].loaded :
              /\ wait'[s].got[k].changed <= level[k].changed
              /\ wait'[s].got[k].changed = level[k].changed =>
                   wait'[s].got[k].latest = level[k].latest
         /\ wait'[s].pc = "select" =>
              /\ wait'[s].loaded = Interests[s]
              /\ \A k \in Interests[s] : wait'[s].got[k].latest <= seen'[s][k]
    BY <2>0, <1>2 DEF IInv, CapturedTogether
  <2>1. CASE WaitFor(s)
    BY <2>0, <2>1 DEF WaitFor, NotWaiting
  <2>2. CASE WaitLoad(s)
    <3>. PICK k \in Interests[s] \ wait[s].loaded :
           wait' = [wait EXCEPT ![s].loaded = @ \cup {k}, ![s].got[k] = level[k]]
      BY <2>2 DEF WaitLoad
    <3>1. /\ wait'[s].loaded = wait[s].loaded \cup {k}
          /\ wait'[s].got = [wait[s].got EXCEPT ![k] = level[k]]
          /\ wait'[s].pc = "load"
      BY <2>0, <2>2 DEF WaitLoad, WaitCalls
    <3>2. wait[s].loaded \subseteq Levels /\ wait[s].got \in [Levels -> States]
          /\ k \in Levels /\ level[k].changed \in Nat
      BY <2>0 DEF WaitCalls, States
    <3>3. ASSUME NEW j \in wait'[s].loaded
          PROVE  /\ wait'[s].got[j].changed <= level[j].changed
                 /\ wait'[s].got[j].changed = level[j].changed =>
                      wait'[s].got[j].latest = level[j].latest
      <4>1. CASE j = k
        BY <4>1, <3>1, <3>2
      <4>2. CASE j # k
        <5>1. j \in wait[s].loaded /\ wait'[s].got[j] = wait[s].got[j]
          BY <4>2, <3>1, <3>2
        <5>. QED
          BY <5>1 DEF IInv, CapturedTogether
      <4>. QED
        BY <4>1, <4>2
    <3>. QED
      BY <3>1, <3>3
  <2>3. CASE WaitSelect(s)
    <3>1. /\ wait'[s].loaded = wait[s].loaded /\ wait'[s].got = wait[s].got
          /\ wait[s].loaded = Interests[s] /\ seen' = seen
          /\ \A k \in Interests[s] : ~(wait[s].got[k].latest > seen[s][k])
      BY <2>0, <2>3 DEF WaitSelect, Loaded, Above, WaitCalls
    <3>2. \A k \in Interests[s] : wait[s].got[k].latest \in Nat /\ seen[s][k] \in Nat
      BY <2>0 DEF IInv, TypeOK, WaitCalls, States
    <3>. QED
      BY <3>1, <3>2 DEF IInv, CapturedTogether
  <2>4. CASE WaitReturn(s)
    BY <2>0, <2>4 DEF WaitReturn, NotWaiting
  <2>5. CASE WaitWake(s)
    BY <2>0, <2>5 DEF WaitWake, NotWaiting
  <2>6. CASE WaitCancelled(s)
    BY <2>0, <2>6 DEF WaitCancelled, NotWaiting
  <2>. QED
    BY <2>1, <2>2, <2>3, <2>4, <2>5, <2>6 DEF WaitStep
<1>. QED
  BY <1>1, <1>3, <1>4 DEF IInv

LEMMA StepIInv == IInv /\ [Next]_vars => IInv'
<1>. SUFFICES ASSUME IInv, [Next]_vars PROVE IInv'
  OBVIOUS
<1>1. CASE UNCHANGED vars
  <2>1. \A q \in Raisers, k \in Levels, c \in Nat : Closing(q, k, c)' <=> Closing(q, k, c)
    BY <1>1 DEF Closing, vars
  <2>. QED
    BY <1>1, <2>1, StepTypeOK DEF vars, IInv, ClosedOnce, ChannelsOwned, CapturedTogether
<1>2. CASE Next
  BY <1>2, RaiserIInv, StreamIInv DEF Next
<1>. QED
  BY <1>1, <1>2

LEMMA InductiveInvariant == Spec => []IInv
  BY InitIInv, StepIInv, PTL DEF Spec

-----------------------------------------------------------------------------
(* A stream blocked while a level of interest is above what it has seen    *)
(* holds a channel that is closed or about to be.                          *)
THEOREM WakeupsAreNotLost == Spec => []NoLostWakeup
<1>1. IInv => NoLostWakeup
  <2>. SUFFICES ASSUME IInv, NEW s \in Waiters, NEW k \in Levels,
                       wait[s].pc = "select", k \in Interests[s], level[k].latest > seen[s][k]
                PROVE  \/ wait[s].got[k].changed \in closed[k]
                       \/ \E r \in Raisers : Closing(r, k, wait[s].got[k].changed)
    BY DEF NoLostWakeup, Closing
  <2>1. wait[s].got[k] \in States /\ level[k] \in States /\ seen[s][k] \in Nat
    BY DEF IInv, TypeOK, WaitCalls
  <2>2. /\ wait[s].got[k].latest <= seen[s][k]
        /\ wait[s].got[k].changed <= level[k].changed
        /\ wait[s].got[k].changed = level[k].changed => wait[s].got[k].latest = level[k].latest
    BY DEF IInv, CapturedTogether
  <2>3. wait[s].got[k].changed < level[k].changed
    BY <2>1, <2>2 DEF States
  <2>. QED
    BY <2>1, <2>3 DEF IInv, ChannelsOwned, States
<1>. QED
  BY <1>1, InductiveInvariant, PTL

(* No channel is ever closed twice, however raisers race. *)
THEOREM ChannelsCloseOnce == Spec => []ClosedOnce
<1>1. IInv => ClosedOnce
  BY DEF IInv
<1>. QED
  BY <1>1, InductiveInvariant, PTL

(* Late and reordered raises never lower a level, and no stream forgets    *)
(* what it has seen.                                                       *)
THEOREM LevelsOnlyRise == Spec => LevelsNeverFall
<1>. DEFINE Rise == /\ \A k \in Levels : level'[k].latest >= level[k].latest
                    /\ \A s \in Waiters, k \in Levels : seen'[s][k] >= seen[s][k]
<1>1. TypeOK /\ [Next]_vars => [Rise]_vars
  <2>. SUFFICES ASSUME TypeOK, Next PROVE Rise
    BY DEF vars
  <2>1. /\ \A k \in Levels : level[k].latest \in Nat
        /\ \A s \in Waiters, k \in Levels : seen[s][k] \in Nat
    BY DEF TypeOK, States
  <2>2. CASE UNCHANGED <<level, seen>>
    BY <2>1, <2>2
  <2>3. ASSUME NEW r \in Raisers, RaiseSwap(r) PROVE Rise
    <3>1. raise[r].old.latest < raise[r].seq /\ raise[r] \in RaiseCalls
      BY <2>3 DEF TypeOK, RaiseSwap
    <3>2. CASE level[raise[r].on] = raise[r].old
      <4>1. /\ level' = [level EXCEPT ![raise[r].on] =
                           [latest |-> raise[r].seq, changed |-> raise[r].old.changed + 1]]
            /\ seen' = seen
        BY <2>3, <3>2 DEF RaiseSwap
      <4>2. ASSUME NEW k \in Levels PROVE level'[k].latest >= level[k].latest
        <5>1. CASE k = raise[r].on
          BY <5>1, <4>1, <3>1, <3>2, <2>1 DEF TypeOK, RaiseCalls
        <5>2. CASE k # raise[r].on
          BY <5>2, <4>1, <2>1 DEF TypeOK
        <5>. QED
          BY <5>1, <5>2
      <4>. QED
        BY <4>1, <4>2, <2>1
    <3>3. CASE level[raise[r].on] # raise[r].old
      BY <2>3, <3>3, <2>2 DEF RaiseSwap
    <3>. QED
      BY <3>2, <3>3
  <2>4. ASSUME NEW t \in Waiters, WaitReturn(t) PROVE Rise
    <3>1. level' = level
      BY <2>4 DEF WaitReturn
    <3>2. ASSUME NEW s \in Waiters, NEW k \in Levels PROVE seen'[s][k] >= seen[s][k]
      <4>. DEFINE value == IF k = Durable THEN wait[t].got[k].latest ELSE level[k].latest
      <4>1. value \in Nat
        BY DEF TypeOK, WaitCalls, States
      <4>2. seen'[s][k] = IF s = t /\ k \in Interests[s] /\ value > seen[s][k]
                          THEN value ELSE seen[s][k]
        BY <2>4 DEF WaitReturn, TypeOK
      <4>. QED
        BY <4>1, <4>2, <2>1
    <3>. QED
      BY <3>1, <3>2, <2>1
  <2>. QED
    BY <2>2, <2>3, <2>4
       DEF Next, RaiseStep, WaitStep, Raise, RaiseLoad, RaiseClose, WaitFor, WaitLoad,
           WaitSelect, WaitWake, WaitCancelled
<1>. QED
  BY <1>1, TypeCorrect, PTL DEF Spec, LevelsNeverFall

-----------------------------------------------------------------------------
(* The registry.                                                           *)

StoreTyped ==
  /\ session \in [Sessions -> {"new", "stored", "deleted"}]
  /\ expired \subseteq Sessions

StreamsTyped ==
  /\ shutdown \in BOOLEAN
  /\ stream \in [Streams -> Requests]
  /\ \A st \in Streams : stream[st].pc # "off" => stream[st].session \in Sessions

(* A request works on a session; one that has looked its session up and    *)
(* did not find it has nothing to delete but an expired row.               *)
Gone(s) == session[s] = "deleted" \/ s \in expired

Sound(call) ==
  /\ call.pc \in {"resolve", "delete", "cancel account"} => call.session \in Sessions
  /\ call.pc = "resolve" => session[call.session] # "new"
  /\ call.pc = "delete" /\ call.kind # "others" /\ call.found = FALSE => Gone(call.session)

EndingsTyped ==
  /\ ending \in [Endings -> EndingCalls]
  /\ \A e \in Endings : Sound(ending[e])

Typed == StoreTyped /\ StreamsTyped /\ EndingsTyped

(* A session that is gone has somebody who cancels its streams.            *)
Covered(s) == session[s] = "stored" \/ s \in expired \/ AboutToCancel(s)

(* A stream that has looked again is covered, before it is opened already. *)
Fenced ==
  \A st \in Streams :
    stream[st].pc \in {"checked", "open"} /\ stream[st].cause = "none" => Covered(stream[st].session)

Limits ==
  /\ Cardinality(Registered) <= MaxStreams
  /\ \A s \in Sessions : Cardinality(OfAccount(AccountOf[s])) <= Limit

-----------------------------------------------------------------------------
(* Types.                                                                  *)

LEMMA InitTyped == RegistryInit => Typed
<1>. SUFFICES ASSUME RegistryInit PROVE Typed
  OBVIOUS
<1>1. StoreTyped /\ StreamsTyped
  BY DEF RegistryInit, StoreTyped, StreamsTyped, Off, Requests, Causes
<1>2. EndingsTyped
  BY DEF RegistryInit, EndingsTyped, Sound, Idle, EndingCalls
<1>. QED
  BY <1>1, <1>2 DEF Typed

(* What a store's change keeps of a session keeps the requests sound.      *)
LEMMA StoreKeepsSound ==
  ASSUME EndingsTyped, ending' = ending,
         \A s \in Sessions : session[s] # "new" => session'[s] # "new",
         \A s \in Sessions : Gone(s) => Gone(s)'
  PROVE  EndingsTyped'
<1>1. ASSUME NEW e \in Endings PROVE Sound(ending[e])'
  <2>1. Sound(ending[e]) /\ ending'[e] = ending[e]
    BY DEF EndingsTyped
  <2>. QED
    BY <2>1 DEF Sound
<1>. QED
  BY <1>1 DEF EndingsTyped

LEMMA CancelledTyped ==
  ASSUME StreamsTyped, NEW which, NEW cause \in Causes, stream' = Cancelled(which, cause)
  PROVE  /\ stream' \in [Streams -> Requests]
         /\ \A st \in Streams :
              /\ stream'[st].pc = stream[st].pc /\ stream'[st].session = stream[st].session
              /\ stream[st].cause # "none" => stream'[st] = stream[st]
              /\ st \in which /\ cause # "none" => stream'[st].cause # "none"
              /\ st \notin which => stream'[st] = stream[st]
<1>1. ASSUME NEW r \in Streams
      PROVE  /\ [stream[r] EXCEPT !.cause = cause] \in Requests
             /\ [stream[r] EXCEPT !.cause = cause].pc = stream[r].pc
             /\ [stream[r] EXCEPT !.cause = cause].session = stream[r].session
             /\ [stream[r] EXCEPT !.cause = cause].cause = cause
  BY <1>1 DEF StreamsTyped, Requests
<1>2. stream' \in [Streams -> Requests]
  BY <1>1 DEF StreamsTyped, Cancelled
<1>3. \A st \in Streams :
        stream'[st] = IF st \in which /\ stream[st].cause = "none"
                      THEN [stream[st] EXCEPT !.cause = cause] ELSE stream[st]
  BY DEF Cancelled
<1>. QED
  BY <1>1, <1>2, <1>3

LEMMA StreamStepTyped ==
  ASSUME Typed, NEW st \in Streams, StreamStep(st)
  PROVE  Typed'
<1>1. StoreTyped' /\ EndingsTyped'
  BY DEF StreamStep, Resolve, Register, LookAgain, OpenStream, Deadline, Unregister, store,
     Typed, StoreTyped, EndingsTyped, Sound, Gone
<1>2. /\ \A r \in Streams : r # st => stream'[r] = stream[r]
      /\ stream' \in [Streams -> Requests]
      /\ stream'[st].pc # "off" => stream'[st].session \in Sessions
  <2>. USE DEF Typed, StreamsTyped, Requests, Causes
  <2>1. ASSUME NEW s \in Sessions, Resolve(st, s) PROVE <1>2
    BY <2>1 DEF Resolve
  <2>2. CASE Register(st)
    BY <2>2 DEF Register, Off
  <2>3. CASE LookAgain(st)
    BY <2>3 DEF LookAgain
  <2>4. CASE OpenStream(st)
    BY <2>4 DEF OpenStream
  <2>5. CASE Deadline(st)
    BY <2>5 DEF Deadline
  <2>6. CASE Unregister(st)
    BY <2>6 DEF Unregister, Off
  <2>. QED
    BY <2>1, <2>2, <2>3, <2>4, <2>5, <2>6 DEF StreamStep
<1>3. shutdown' = shutdown
  BY DEF StreamStep, Resolve, Register, LookAgain, OpenStream, Deadline, Unregister
<1>4. StreamsTyped'
  BY <1>2, <1>3 DEF Typed, StreamsTyped
<1>. QED
  BY <1>1, <1>4 DEF Typed

LEMMA CreateTyped ==
  ASSUME Typed, NEW s \in Sessions, Create(s) \/ Expire(s) \/ DeleteExpired
  PROVE  Typed'
<1>1. StoreTyped' /\ StreamsTyped'
  BY DEF Create, Expire, DeleteExpired, Typed, StoreTyped, StreamsTyped
<1>2. EndingsTyped'
  <2>1. /\ \A t \in Sessions : session[t] # "new" => session'[t] # "new"
        /\ \A t \in Sessions : Gone(t) => Gone(t)'
    BY DEF Create, Expire, DeleteExpired, Typed, StoreTyped, Gone
  <2>. QED
    BY <2>1, StoreKeepsSound DEF Create, Expire, DeleteExpired, Typed
<1>. QED
  BY <1>1, <1>2 DEF Typed

LEMMA BeginTyped ==
  ASSUME Typed, NEW e \in Endings, NEW kind \in {"delete", "replace", "others"},
         NEW s \in Sessions, Begin(e, kind, s)
  PROVE  Typed'
<1>1. StoreTyped' /\ StreamsTyped'
  BY DEF Begin, Typed, StoreTyped, StreamsTyped, store
<1>2. ending' \in [Endings -> EndingCalls]
  BY DEF Begin, Typed, EndingsTyped, EndingCalls, Idle
<1>3. ASSUME NEW f \in Endings, f # e PROVE Sound(ending[f])'
  BY <1>3 DEF Begin, Typed, EndingsTyped, Sound, Gone, store
<1>4. Sound(ending[e])'
  BY DEF Begin, Typed, EndingsTyped, Sound, Gone, store, Idle, Live
<1>. QED
  BY <1>1, <1>2, <1>3, <1>4 DEF Typed, EndingsTyped

LEMMA ResolvePreviousTyped ==
  ASSUME Typed, NEW e \in Endings, ResolvePrevious(e)
  PROVE  Typed'
<1>. DEFINE found == Live(ending[e].session)
            looked == [ending[e] EXCEPT !.pc = "delete", !.found = found]
<1>1. StoreTyped' /\ StreamsTyped' /\ session' = session /\ expired' = expired
  BY DEF ResolvePrevious, Typed, StoreTyped, StreamsTyped, store
<1>2. found \in BOOLEAN
  BY DEF Live
<1>3. ending[e] \in EndingCalls /\ ending[e].pc = "resolve" /\ ending[e].session \in Sessions
  BY DEF ResolvePrevious, Typed, EndingsTyped, Sound
<1>4. looked \in EndingCalls /\ looked.session \in Sessions /\ Sound(looked)
  <2>. HIDE DEF found
  <2>1. /\ looked \in EndingCalls /\ looked.pc = "delete" /\ looked.found = found
        /\ looked.session = ending[e].session
    BY <1>2, <1>3 DEF EndingCalls
  <2>2. found = FALSE => Gone(ending[e].session)
    BY <1>3 DEF found, Live, Gone, Typed, StoreTyped, EndingsTyped, Sound
  <2>. QED
    BY <1>3, <2>1, <2>2 DEF Sound
<1>5. Idle \in EndingCalls /\ Sound(Idle)
  BY DEF Idle, EndingCalls, Sound
<1>6. ending' = [ending EXCEPT ![e] = looked] \/ ending' = [ending EXCEPT ![e] = Idle]
  BY DEF ResolvePrevious, Typed, EndingsTyped
<1>7. EndingsTyped'
  <2>. HIDE DEF looked
  <2>1. /\ ending' \in [Endings -> EndingCalls]
        /\ \A f \in Endings : Sound(ending'[f])
    BY <1>4, <1>5, <1>6 DEF Typed, EndingsTyped
  <2>. QED
    BY <1>1, <2>1 DEF EndingsTyped, Sound, Gone
<1>. QED
  BY <1>1, <1>7 DEF Typed

LEMMA MutateStore ==
  ASSUME Typed, NEW e \in Endings, Mutate(e)
  PROVE  /\ StoreTyped' /\ UNCHANGED <<expired, shutdown, stream>>
         /\ \A s \in Sessions : session[s] # "new" => session'[s] # "new"
         /\ \A s \in Sessions : session[s] = "deleted" => session'[s] = "deleted"
         /\ \A s \in Sessions : session[s] = "stored" /\ session'[s] # "stored" => s \in Doomed(e)
<1>. QED
  BY DEF Mutate, Typed, StoreTyped, Doomed

LEMMA MutateEnding ==
  ASSUME Typed, NEW e \in Endings, Mutate(e)
  PROVE  /\ ending' \in [Endings -> EndingCalls]
         /\ \A f \in Endings : f # e => ending'[f] = ending[f]
         /\ ending[e].pc = "delete" /\ ending[e].session \in Sessions
         /\ ending'[e].pc \in {"cancel", "cancel account"}
         /\ ending'[e].pc = "cancel account" => ending'[e].session \in Sessions
         /\ \A s \in Doomed(e) : session'[s] # session[s] => Gone(s) \/ AboutToCancel(s)'
<1>1. ending[e].pc = "delete" /\ ending[e].session \in Sessions /\ ending[e] \in EndingCalls
  BY DEF Mutate, Typed, EndingsTyped, Sound
<1>2. Doomed(e) \in SUBSET Sessions
  BY DEF Doomed
<1>3. \A ok \in BOOLEAN : Ended(e, Doomed(e), ok) \in SUBSET Sessions
  BY <1>1, <1>2 DEF Ended
<1>4. PICK ok \in BOOLEAN, committed \in BOOLEAN, new \in SUBSET {s \in Sessions : session[s] = "new"} :
        /\ session' = IF committed
                      THEN [s \in Sessions |-> IF s \in Doomed(e) THEN "deleted"
                                               ELSE IF s \in new THEN "stored" ELSE session[s]]
                      ELSE session
        /\ ending' = [ending EXCEPT ![e] =
              IF ending[e].kind = "others" /\ ~ok
              THEN [Idle EXCEPT !.pc = "cancel account", !.session = ending[e].session]
              ELSE [Idle EXCEPT !.pc = "cancel", !.ended = Ended(e, Doomed(e), ok)]]
  BY Zenon DEF Mutate
<1>5. CASE ending[e].kind = "others" /\ ~ok
  <2>1. ending' = [ending EXCEPT ![e] =
              [Idle EXCEPT !.pc = "cancel account", !.session = ending[e].session]]
    BY <1>4, <1>5
  <2>2. /\ ending' \in [Endings -> EndingCalls]
        /\ \A f \in Endings : f # e => ending'[f] = ending[f]
        /\ ending'[e].pc = "cancel account" /\ ending'[e].session = ending[e].session
    BY <1>1, <2>1 DEF Typed, EndingsTyped, EndingCalls, Idle
  <2>3. \A s \in Doomed(e) : AboutToCancel(s)'
    BY <1>5, <2>2 DEF Doomed, AboutToCancel
  <2>. QED
    BY <1>1, <2>2, <2>3
<1>6. CASE ~(ending[e].kind = "others" /\ ~ok)
  <2>1. ending' = [ending EXCEPT ![e] = [Idle EXCEPT !.pc = "cancel", !.ended = Ended(e, Doomed(e), ok)]]
    BY <1>4, <1>6
  <2>2. /\ ending' \in [Endings -> EndingCalls]
        /\ \A f \in Endings : f # e => ending'[f] = ending[f]
        /\ ending'[e].pc = "cancel" /\ ending'[e].ended = Ended(e, Doomed(e), ok)
    BY <1>1, <1>3, <2>1 DEF Typed, EndingsTyped, EndingCalls, Idle
  <2>3. ASSUME NEW s \in Doomed(e) PROVE Gone(s) \/ AboutToCancel(s)'
    <3>1. s \in Ended(e, Doomed(e), ok) => AboutToCancel(s)'
      BY <2>2 DEF AboutToCancel
    <3>2. CASE ok
      BY <3>1, <3>2 DEF Ended
    <3>3. CASE ~ok
      <4>1. s = ending[e].session /\ ending[e].kind # "others"
        BY <1>6, <3>3 DEF Doomed
      <4>2. CASE ending[e].found
        BY <3>1, <3>3, <4>1, <4>2 DEF Ended
      <4>3. CASE ~ending[e].found
        <5>1. Sound(ending[e]) /\ ending[e].found = FALSE
          BY <1>1, <4>3 DEF Typed, EndingsTyped, EndingCalls
        <5>. QED
          BY <1>1, <4>1, <5>1 DEF Sound
      <4>. QED
        BY <4>2, <4>3
    <3>. QED
      BY <3>2, <3>3
  <2>. QED
    BY <1>1, <2>2, <2>3
<1>. QED
  BY <1>5, <1>6

LEMMA MutateTyped ==
  ASSUME Typed, NEW e \in Endings, Mutate(e)
  PROVE  Typed'
<1>. USE MutateStore, MutateEnding
<1>1. StoreTyped' /\ StreamsTyped'
  BY DEF Typed, StreamsTyped
<1>2. ASSUME NEW f \in Endings, f # e PROVE Sound(ending[f])'
  <2>1. Sound(ending[f]) /\ ending'[f] = ending[f]
    BY <1>2 DEF Typed, EndingsTyped
  <2>2. /\ \A s \in Sessions : session[s] # "new" => session'[s] # "new"
        /\ \A s \in Sessions : Gone(s) => Gone(s)'
    BY DEF Gone
  <2>. QED
    BY <2>1, <2>2 DEF Sound
<1>3. Sound(ending[e])'
  BY DEF Sound
<1>. QED
  BY <1>1, <1>2, <1>3 DEF Typed, EndingsTyped

LEMMA CancelStreams ==
  ASSUME StreamsTyped, shutdown' \in BOOLEAN,
         NEW which, NEW cause \in Causes, stream' = Cancelled(which, cause)
  PROVE  StreamsTyped'
<1>1. /\ stream' \in [Streams -> Requests]
      /\ \A st \in Streams : stream'[st].pc = stream[st].pc /\ stream'[st].session = stream[st].session
  BY CancelledTyped
<1>. QED
  BY <1>1 DEF StreamsTyped

LEMMA CancelTyped ==
  ASSUME Typed, NEW e \in Endings, CancelSession(e) \/ CancelAccount(e)
  PROVE  Typed'
<1>1. StoreTyped' /\ session' = session /\ expired' = expired
  BY DEF CancelSession, CancelAccount, Typed, StoreTyped, store
<1>2. StreamsTyped'
  <2>1. CASE stream' = stream
    BY <2>1 DEF CancelSession, CancelAccount, Typed, StreamsTyped
  <2>2. ASSUME NEW which, NEW cause \in Causes, stream' = Cancelled(which, cause)
        PROVE  StreamsTyped'
    <3>1. StreamsTyped /\ shutdown' \in BOOLEAN
      BY DEF CancelSession, CancelAccount, Typed, StreamsTyped
    <3>. QED
      BY <2>2, <3>1, CancelStreams
  <2>3. \/ stream' = stream
        \/ \E s \in ending[e].ended : stream' = Cancelled(OfSession(s), "session ended")
        \/ stream' = Cancelled(OfAccount(AccountOf[ending[e].session]), "account cancelled")
    BY DEF CancelSession, CancelAccount
  <2>4. "session ended" \in Causes /\ "account cancelled" \in Causes
    BY DEF Causes
  <2>. QED
    BY <2>1, <2>2, <2>3, <2>4
<1>3. ending[e] \in EndingCalls /\ Idle \in EndingCalls /\ Sound(Idle)
  BY DEF Typed, EndingsTyped, EndingCalls, Idle, Sound
<1>4. \/ ending' = [ending EXCEPT ![e] = Idle]
      \/ \E s \in ending[e].ended :
           /\ ending[e].pc = "cancel"
           /\ ending' = [ending EXCEPT ![e] = [ending[e] EXCEPT !.ended = ending[e].ended \ {s}]]
  BY DEF CancelSession, CancelAccount, Typed, EndingsTyped
<1>5. PICK call \in EndingCalls : Sound(call) /\ ending' = [ending EXCEPT ![e] = call]
  <2>1. ASSUME NEW s, ending[e].pc = "cancel"
        PROVE  LET less == [ending[e] EXCEPT !.ended = ending[e].ended \ {s}]
               IN  less \in EndingCalls /\ Sound(less)
    BY <1>3, <2>1 DEF EndingCalls, Sound
  <2>. QED
    BY <1>3, <1>4, <2>1
<1>6. /\ ending' \in [Endings -> EndingCalls]
      /\ \A f \in Endings : Sound(ending'[f])
  BY <1>5 DEF Typed, EndingsTyped
<1>7. EndingsTyped'
  BY <1>1, <1>6 DEF EndingsTyped, Sound, Gone
<1>. QED
  BY <1>1, <1>2, <1>7 DEF Typed

LEMMA CancelAllTyped ==
  ASSUME Typed, CancelAll
  PROVE  Typed'
<1>1. StoreTyped' /\ EndingsTyped'
  BY DEF CancelAll, Typed, StoreTyped, EndingsTyped, Sound, Gone, store
<1>2. StreamsTyped /\ shutdown' \in BOOLEAN /\ "shutdown" \in Causes
      /\ stream' = Cancelled(Registered, "shutdown")
  BY DEF CancelAll, Typed, Causes
<1>3. StreamsTyped'
  BY <1>2, CancelStreams
<1>. QED
  BY <1>1, <1>3 DEF Typed

LEMMA StepTyped == Typed /\ [RegistryNext]_registryVars => Typed'
<1>. SUFFICES ASSUME Typed, [RegistryNext]_registryVars PROVE Typed'
  OBVIOUS
<1>1. CASE UNCHANGED registryVars
  BY <1>1 DEF registryVars, store, Typed, StoreTyped, StreamsTyped, EndingsTyped, Sound, Gone
<1>2. ASSUME NEW st \in Streams, StreamStep(st) PROVE Typed'
  BY <1>2, StreamStepTyped
<1>3. ASSUME NEW e \in Endings, EndingStep(e) PROVE Typed'
  BY <1>3, BeginTyped, ResolvePreviousTyped, MutateTyped, CancelTyped DEF EndingStep
<1>4. ASSUME NEW s \in Sessions, Create(s) \/ Expire(s) PROVE Typed'
  BY <1>4, CreateTyped
<1>5. CASE DeleteExpired
  <2>1. StoreTyped' /\ StreamsTyped'
    BY <1>5 DEF DeleteExpired, Typed, StoreTyped, StreamsTyped
  <2>2. /\ \A t \in Sessions : session[t] # "new" => session'[t] # "new"
        /\ \A t \in Sessions : Gone(t) => Gone(t)'
    BY <1>5 DEF DeleteExpired, Typed, StoreTyped, Gone
  <2>3. EndingsTyped'
    BY <1>5, <2>2, StoreKeepsSound DEF DeleteExpired, Typed
  <2>. QED
    BY <2>1, <2>3 DEF Typed
<1>6. CASE CancelAll
  BY <1>6, CancelAllTyped
<1>. QED
  BY <1>1, <1>2, <1>3, <1>4, <1>5, <1>6 DEF RegistryNext

-----------------------------------------------------------------------------
(* No stream outlives its session.                                         *)

(* Nobody takes back what covers a session but the request that cancels    *)
(* its streams.                                                            *)
LEMMA StoreKeepsCovered ==
  ASSUME Typed, NEW s \in Sessions, Covered(s), ending' = ending,
         \/ UNCHANGED store
         \/ \E t \in Sessions : Create(t) \/ Expire(t)
         \/ DeleteExpired
  PROVE  Covered(s)'
<1>. QED
  BY DEF Typed, StoreTyped, Covered, AboutToCancel, Create, Expire, DeleteExpired, store

LEMMA EndingKeepsCovered ==
  ASSUME Typed, NEW e \in Endings, NEW s \in Sessions, Covered(s),
         \/ \E kind \in {"delete", "replace", "others"}, t \in Sessions : Begin(e, kind, t)
         \/ ResolvePrevious(e)
         \/ Mutate(e)
  PROVE  Covered(s)'
<1>1. ASSUME NEW f \in Endings, f # e PROVE ending'[f] = ending[f]
  BY <1>1 DEF Begin, ResolvePrevious, Mutate, Typed, EndingsTyped
<1>2. ending[e].pc \notin {"cancel", "cancel account"}
  BY DEF Begin, ResolvePrevious, Mutate
<1>3. AboutToCancel(s) => AboutToCancel(s)'
  BY <1>1, <1>2 DEF AboutToCancel
<1>4. CASE UNCHANGED store
  BY <1>3, <1>4 DEF Covered, store
<1>5. CASE Mutate(e)
  <2>1. expired' = expired /\ (session[s] = "stored" /\ session'[s] # "stored" => s \in Doomed(e))
    BY <1>5, MutateStore
  <2>2. s \in Doomed(e) /\ session'[s] # session[s] => Gone(s) \/ AboutToCancel(s)'
    BY <1>5, MutateEnding
  <2>. QED
    BY <1>3, <2>1, <2>2 DEF Covered, Gone
<1>. QED
  BY <1>4, <1>5 DEF Begin, ResolvePrevious

LEMMA CancelKeepsFenced ==
  ASSUME Typed, Fenced, NEW e \in Endings, CancelSession(e) \/ CancelAccount(e)
  PROVE  Fenced'
<1>1. session' = session /\ expired' = expired
  BY DEF CancelSession, CancelAccount, store
<1>2. ASSUME NEW f \in Endings, f # e PROVE ending'[f] = ending[f]
  BY <1>2 DEF CancelSession, CancelAccount, Typed, EndingsTyped
<1>3. StreamsTyped /\ "session ended" \in Causes /\ "account cancelled" \in Causes
  BY DEF Typed, Causes
<1>4. ASSUME NEW st \in Streams, stream'[st].pc \in {"checked", "open"}, stream'[st].cause = "none"
      PROVE  Covered(stream[st].session)' /\ stream'[st].session = stream[st].session
  <2>. DEFINE s == stream[st].session
  <2>1. CASE CancelSession(e) /\ ending[e].ended = {}
    <3>1. stream' = stream /\ Covered(s)
      BY <1>4, <2>1 DEF CancelSession, Fenced
    <3>2. AboutToCancel(s) => AboutToCancel(s)'
      BY <1>2, <2>1 DEF AboutToCancel, CancelSession
    <3>. QED
      BY <1>1, <3>1, <3>2 DEF Covered
  <2>2. ASSUME NEW t \in ending[e].ended, CancelSession(e),
               stream' = Cancelled(OfSession(t), "session ended"),
               ending' = [ending EXCEPT ![e].ended = @ \ {t}]
        PROVE  Covered(s)' /\ stream'[st].session = s
    <3>1. /\ stream'[st].pc = stream[st].pc /\ stream'[st].session = s
          /\ stream[st].cause # "none" => stream'[st] = stream[st]
          /\ st \in OfSession(t) => stream'[st].cause # "none"
          /\ st \notin OfSession(t) => stream'[st] = stream[st]
      BY <1>3, <2>2, CancelledTyped
    <3>2. st \in Registered /\ s # t /\ Covered(s)
      BY <1>4, <3>1 DEF Registered, OfSession, Fenced
    <3>3. ending[e].pc = "cancel" /\ ending'[e].pc = "cancel" /\ ending'[e].ended = ending[e].ended \ {t}
      BY <2>2 DEF CancelSession, Typed, EndingsTyped, EndingCalls
    <3>4. AboutToCancel(s) => AboutToCancel(s)'
      BY <1>2, <3>1, <3>2, <3>3 DEF AboutToCancel
    <3>. QED
      BY <1>1, <3>1, <3>2, <3>4 DEF Covered
  <2>3. CASE CancelAccount(e)
    <3>0. stream' = Cancelled(OfAccount(AccountOf[ending[e].session]), "account cancelled")
      BY <2>3 DEF CancelAccount
    <3>1. /\ stream'[st].pc = stream[st].pc /\ stream'[st].session = s
          /\ stream[st].cause # "none" => stream'[st] = stream[st]
          /\ st \in OfAccount(AccountOf[ending[e].session]) => stream'[st].cause # "none"
          /\ st \notin OfAccount(AccountOf[ending[e].session]) => stream'[st] = stream[st]
      BY <1>3, <3>0, CancelledTyped
    <3>2. st \in Registered /\ AccountOf[s] # AccountOf[ending[e].session] /\ Covered(s)
      BY <1>4, <3>1 DEF Registered, OfAccount, Fenced
    <3>3. ending[e].pc = "cancel account"
      BY <2>3 DEF CancelAccount
    <3>4. AboutToCancel(s) => AboutToCancel(s)'
      BY <1>2, <3>1, <3>2, <3>3 DEF AboutToCancel
    <3>. QED
      BY <1>1, <3>1, <3>2, <3>4 DEF Covered
  <2>4. CancelSession(e) => \/ ending[e].ended = {}
                           \/ \E t \in ending[e].ended :
                                /\ stream' = Cancelled(OfSession(t), "session ended")
                                /\ ending' = [ending EXCEPT ![e].ended = @ \ {t}]
    BY DEF CancelSession
  <2>. QED
    BY <2>1, <2>2, <2>3, <2>4
<1>. QED
  BY <1>4 DEF Fenced

LEMMA StreamStepFenced ==
  ASSUME Typed, Fenced, NEW st \in Streams, StreamStep(st)
  PROVE  Fenced'
<1>1. UNCHANGED <<store, ending>> /\ \A r \in Streams : r # st => stream'[r] = stream[r]
  BY DEF StreamStep, Resolve, Register, LookAgain, OpenStream, Deadline, Unregister,
     Typed, StreamsTyped
<1>2. \A s : Covered(s) => Covered(s)'
  BY <1>1 DEF Covered, AboutToCancel, store
<1>3. ASSUME stream'[st].pc \in {"checked", "open"}, stream'[st].cause = "none"
      PROVE  Covered(stream'[st].session)
  <2>. USE <1>3 DEF Typed, StreamsTyped, Requests
  <2>1. CASE \E s \in Sessions : Resolve(st, s)
    BY <2>1 DEF Resolve
  <2>2. CASE Register(st)
    BY <2>2 DEF Register, Off
  <2>3. CASE LookAgain(st)
    BY <2>3 DEF LookAgain, Live, Covered
  <2>4. CASE OpenStream(st)
    BY <2>4 DEF OpenStream, Fenced
  <2>5. CASE Deadline(st)
    BY <2>5 DEF Deadline
  <2>6. CASE Unregister(st)
    BY <2>6 DEF Unregister, Off
  <2>. QED
    BY <2>1, <2>2, <2>3, <2>4, <2>5, <2>6 DEF StreamStep
<1>. QED
  BY <1>1, <1>2, <1>3 DEF Fenced

LEMMA StepFenced == Typed /\ Fenced /\ [RegistryNext]_registryVars => Fenced'
<1>. SUFFICES ASSUME Typed, Fenced, [RegistryNext]_registryVars PROVE Fenced'
  OBVIOUS
<1>1. \A st \in Streams : stream[st].pc \in {"checked", "open"} => stream[st].session \in Sessions
  BY DEF Typed, StreamsTyped
<1>2. CASE UNCHANGED registryVars
  BY <1>2 DEF registryVars, store, Fenced, Covered, AboutToCancel
<1>3. ASSUME NEW st \in Streams, StreamStep(st) PROVE Fenced'
  BY <1>3, StreamStepFenced
<1>4. ASSUME NEW e \in Endings, EndingStep(e) PROVE Fenced'
  <2>1. CASE CancelSession(e) \/ CancelAccount(e)
    BY <2>1, CancelKeepsFenced
  <2>2. CASE ~(CancelSession(e) \/ CancelAccount(e))
    <3>1. \/ \E kind \in {"delete", "replace", "others"}, t \in Sessions : Begin(e, kind, t)
          \/ ResolvePrevious(e) \/ Mutate(e)
      BY <1>4, <2>2 DEF EndingStep
    <3>2. stream' = stream
      BY <3>1 DEF Begin, ResolvePrevious, Mutate
    <3>3. \A s \in Sessions : Covered(s) => Covered(s)'
      BY <3>1, EndingKeepsCovered
    <3>. QED
      BY <1>1, <3>2, <3>3 DEF Fenced
  <2>. QED
    BY <2>1, <2>2
<1>5. CASE DeleteExpired \/ \E s \in Sessions : Create(s) \/ Expire(s)
  <2>1. stream' = stream /\ ending' = ending
    BY <1>5 DEF Create, Expire, DeleteExpired
  <2>2. \A s \in Sessions : Covered(s) => Covered(s)'
    BY <1>5, <2>1, StoreKeepsCovered
  <2>. QED
    BY <1>1, <2>1, <2>2 DEF Fenced
<1>6. CASE CancelAll
  <2>1. StreamsTyped /\ "shutdown" \in Causes /\ stream' = Cancelled(Registered, "shutdown")
        /\ UNCHANGED <<store, ending>>
    BY <1>6 DEF Typed, Causes, CancelAll
  <2>2. \A st \in Streams : /\ stream'[st].pc = stream[st].pc
                            /\ st \in Registered => stream'[st].cause # "none"
    BY <2>1, CancelledTyped
  <2>. QED
    BY <2>2 DEF Fenced, Registered
<1>. QED
  BY <1>2, <1>3, <1>4, <1>5, <1>6 DEF RegistryNext

-----------------------------------------------------------------------------
(* Limits.                                                                 *)

LEMMA Counting ==
  ASSUME NEW S \in SUBSET Streams, NEW T \in SUBSET Streams
  PROVE  /\ Cardinality(S) \in Nat
         /\ S \subseteq T => Cardinality(S) <= Cardinality(T)
         /\ \A st \in Streams : S \subseteq T \cup {st} => Cardinality(S) <= Cardinality(T) + 1
<1>1. IsFiniteSet(S) /\ IsFiniteSet(T) /\ Cardinality(T) \in Nat /\ Cardinality(S) \in Nat
  BY RegistryAssumption, FS_Subset, FS_CardinalityType
<1>2. S \subseteq T => Cardinality(S) <= Cardinality(T)
  BY <1>1, FS_Subset
<1>3. ASSUME NEW st \in Streams, S \subseteq T \cup {st}
      PROVE  Cardinality(S) <= Cardinality(T) + 1
  <2>0. IsFiniteSet(T \cup {st})
        /\ Cardinality(T \cup {st}) = IF st \in T THEN Cardinality(T) ELSE Cardinality(T) + 1
    BY <1>1, FS_AddElement
  <2>1. /\ IsFiniteSet(T \cup {st}) /\ Cardinality(T \cup {st}) \in Nat
        /\ Cardinality(T \cup {st}) <= Cardinality(T) + 1
    BY <1>1, <2>0
  <2>2. Cardinality(S) <= Cardinality(T \cup {st})
    BY <1>3, <2>1, FS_Subset
  <2>. QED
    BY <1>1, <2>1, <2>2
<1>. QED
  BY <1>1, <1>2, <1>3

(* Steps that register nobody keep within the limits.                      *)
LEMMA FewerKeepLimits ==
  ASSUME Limits, Registered' \subseteq Registered,
         \A st \in Registered' : stream'[st].session = stream[st].session
  PROVE  Limits'
<1>1. Registered \subseteq Streams /\ Registered' \subseteq Streams
  BY DEF Registered
<1>2. Cardinality(Registered') <= MaxStreams
  <2>. DEFINE R == Registered
              Q == Registered'
  <2>. HIDE DEF R, Q
  <2>1. Cardinality(Q) \in Nat /\ Cardinality(R) \in Nat /\ Cardinality(Q) <= Cardinality(R)
    <3>1. R \in SUBSET Streams /\ Q \in SUBSET Streams /\ Q \subseteq R
      BY <1>1 DEF R, Q
    <3>. QED
      BY <3>1, Counting
  <2>2. Cardinality(R) <= MaxStreams
    BY DEF R, Limits
  <2>. QED
    BY <2>1, <2>2, RegistryAssumption DEF Q
<1>3. ASSUME NEW s \in Sessions PROVE Cardinality(OfAccount(AccountOf[s])') <= Limit
  <2>. DEFINE R == OfAccount(AccountOf[s])
              Q == OfAccount(AccountOf[s])'
  <2>1. R \in SUBSET Streams /\ Q \in SUBSET Streams /\ Q \subseteq R
    BY <1>1 DEF OfAccount
  <2>2. Cardinality(R) <= Limit
    BY DEF Limits
  <2>. HIDE DEF R, Q
  <2>3. Cardinality(Q) \in Nat /\ Cardinality(R) \in Nat /\ Cardinality(Q) <= Cardinality(R)
    BY <2>1, Counting
  <2>4. Cardinality(Q) <= Limit
    BY <2>2, <2>3, RegistryAssumption
  <2>. QED
    BY <2>4 DEF Q
<1>. QED
  BY <1>2, <1>3 DEF Limits

LEMMA RegisterLimits ==
  ASSUME Typed, Limits, NEW st \in Streams, Register(st)
  PROVE  Limits'
<1>. DEFINE a == AccountOf[stream[st].session]
<1>1. /\ \A r \in Streams : r # st => stream'[r] = stream[r]
      /\ stream'[st] = Off \/ (~Full(st) /\ stream'[st].pc = "registered"
                                /\ stream'[st].session = stream[st].session)
      /\ stream[st].pc = "resolved"
  BY DEF Register, Typed, StreamsTyped, Requests
<1>2. CASE stream'[st] = Off
  <2>1. Registered' \subseteq Registered /\ \A r \in Registered' : stream'[r].session = stream[r].session
    BY <1>1, <1>2 DEF Registered, Off
  <2>. QED
    BY <2>1, FewerKeepLimits
<1>3. CASE stream'[st] # Off
  <2>1. Registered \in SUBSET Streams /\ Registered' \subseteq Registered \cup {st}
        /\ \A r \in Registered' : stream'[r].session = stream[r].session
    BY <1>1, <1>3 DEF Registered
  <2>2. Cardinality(Registered') <= MaxStreams
    <3>. DEFINE R == Registered
                Q == Registered'
    <3>1. R \in SUBSET Streams /\ Q \in SUBSET Streams /\ Q \subseteq R \cup {st}
      BY <2>1 DEF Registered
    <3>2. ~(Cardinality(R) >= MaxStreams)
      BY <1>1, <1>3 DEF Full
    <3>. HIDE DEF R, Q
    <3>3. Cardinality(Q) \in Nat /\ Cardinality(R) \in Nat /\ Cardinality(Q) <= Cardinality(R) + 1
      BY <3>1, Counting
    <3>4. Cardinality(Q) <= MaxStreams
      BY <3>2, <3>3, RegistryAssumption
    <3>. QED
      BY <3>4 DEF Q
  <2>3. ASSUME NEW s \in Sessions PROVE Cardinality(OfAccount(AccountOf[s])') <= Limit
    <3>. DEFINE R == OfAccount(AccountOf[s])
                Q == OfAccount(AccountOf[s])'
    <3>1. R \in SUBSET Streams /\ Q \in SUBSET Streams /\ Q \subseteq R \cup {st}
          /\ (AccountOf[s] # a => Q \subseteq R)
      BY <2>1 DEF OfAccount, Registered
    <3>2. Cardinality(R) <= Limit /\ (AccountOf[s] = a => ~(Cardinality(R) >= Limit))
      BY <1>1, <1>3 DEF Limits, Full
    <3>. HIDE DEF R, Q, a
    <3>3. /\ Cardinality(Q) \in Nat /\ Cardinality(R) \in Nat /\ Cardinality(Q) <= Cardinality(R) + 1
          /\ AccountOf[s] # a => Cardinality(Q) <= Cardinality(R)
      BY <3>1, Counting
    <3>4. Cardinality(Q) <= Limit
      BY <3>2, <3>3, RegistryAssumption
    <3>. QED
      BY <3>4 DEF Q
  <2>. QED
    BY <2>2, <2>3 DEF Limits
<1>. QED
  BY <1>2, <1>3

LEMMA StepLimits == Typed /\ Limits /\ [RegistryNext]_registryVars => Limits'
<1>. SUFFICES ASSUME Typed, Limits, [RegistryNext]_registryVars PROVE Limits'
  OBVIOUS
<1>. DEFINE Fewer == Registered' \subseteq Registered
                     /\ \A st \in Registered' : stream'[st].session = stream[st].session
<1>1. CASE UNCHANGED stream
  BY <1>1, FewerKeepLimits DEF Registered
<1>2. ASSUME NEW st \in Streams, StreamStep(st) PROVE Limits'
  <2>1. CASE Register(st)
    BY <2>1, RegisterLimits
  <2>2. CASE ~Register(st)
    <3>1. Fewer
      <4>. USE DEF Typed, StreamsTyped, Requests, Registered
      <4>1. CASE \E s \in Sessions : Resolve(st, s)
        BY <4>1 DEF Resolve
      <4>2. CASE LookAgain(st)
        BY <4>2 DEF LookAgain
      <4>3. CASE OpenStream(st)
        BY <4>3 DEF OpenStream
      <4>4. CASE Deadline(st)
        BY <4>4 DEF Deadline
      <4>5. CASE Unregister(st)
        BY <4>5 DEF Unregister, Off
      <4>. QED
        BY <1>2, <2>2, <4>1, <4>2, <4>3, <4>4, <4>5 DEF StreamStep
    <3>. QED
      BY <3>1, FewerKeepLimits
  <2>. QED
    BY <2>1, <2>2
<1>3. ASSUME NEW which, NEW cause \in Causes, stream' = Cancelled(which, cause) PROVE Limits'
  <2>1. \A st \in Streams : stream'[st].pc = stream[st].pc /\ stream'[st].session = stream[st].session
    BY <1>3, CancelledTyped DEF Typed
  <2>2. Fewer
    BY <2>1 DEF Registered
  <2>. QED
    BY <2>2, FewerKeepLimits
<1>4. {"session ended", "account cancelled", "shutdown"} \subseteq Causes
  BY DEF Causes
<1>5. ASSUME NEW e \in Endings, EndingStep(e) PROVE Limits'
  <2>1. \/ UNCHANGED stream
        \/ \E s \in ending[e].ended : stream' = Cancelled(OfSession(s), "session ended")
        \/ stream' = Cancelled(OfAccount(AccountOf[ending[e].session]), "account cancelled")
    BY <1>5 DEF EndingStep, Begin, ResolvePrevious, Mutate, CancelSession, CancelAccount
  <2>. QED
    BY <1>1, <1>3, <1>4, <2>1
<1>6. CASE CancelAll
  BY <1>3, <1>4, <1>6 DEF CancelAll
<1>7. CASE DeleteExpired \/ \E s \in Sessions : Create(s) \/ Expire(s)
  BY <1>1, <1>7 DEF DeleteExpired, Create, Expire
<1>8. CASE UNCHANGED registryVars
  BY <1>1, <1>8 DEF registryVars
<1>. QED
  BY <1>2, <1>5, <1>6, <1>7, <1>8 DEF RegistryNext

-----------------------------------------------------------------------------
(* Shutdown.                                                               *)

LEMMA StepShutdown == Typed /\ ShutdownReachesAll /\ [RegistryNext]_registryVars => ShutdownReachesAll'
<1>. SUFFICES ASSUME Typed, ShutdownReachesAll, [RegistryNext]_registryVars PROVE ShutdownReachesAll'
  OBVIOUS
<1>1. ASSUME NEW which, NEW cause \in Causes, stream' = Cancelled(which, cause), shutdown' = shutdown
      PROVE  ShutdownReachesAll'
  <2>1. \A st \in Streams : /\ stream'[st].pc = stream[st].pc
                            /\ stream[st].cause # "none" => stream'[st] = stream[st]
    BY <1>1, CancelledTyped DEF Typed
  <2>. QED
    BY <1>1, <2>1 DEF ShutdownReachesAll, Registered
<1>2. CASE UNCHANGED <<stream, shutdown>>
  BY <1>2 DEF ShutdownReachesAll, Registered
<1>3. {"session ended", "account cancelled", "shutdown"} \subseteq Causes
  BY DEF Causes
<1>4. ASSUME NEW st \in Streams, StreamStep(st) PROVE ShutdownReachesAll'
  <2>. USE DEF ShutdownReachesAll, Registered, Typed, StreamsTyped, Requests
  <2>1. CASE \E s \in Sessions : Resolve(st, s)
    BY <2>1 DEF Resolve
  <2>2. CASE Register(st)
    BY <2>2 DEF Register, Off
  <2>3. CASE LookAgain(st)
    BY <2>3 DEF LookAgain
  <2>4. CASE OpenStream(st)
    BY <2>4 DEF OpenStream
  <2>5. CASE Deadline(st)
    BY <2>5 DEF Deadline
  <2>6. CASE Unregister(st)
    BY <2>6 DEF Unregister, Off
  <2>. QED
    BY <1>4, <2>1, <2>2, <2>3, <2>4, <2>5, <2>6 DEF StreamStep
<1>5. ASSUME NEW e \in Endings, EndingStep(e) PROVE ShutdownReachesAll'
  <2>1. shutdown' = shutdown
    BY <1>5 DEF EndingStep, Begin, ResolvePrevious, Mutate, CancelSession, CancelAccount
  <2>2. \/ UNCHANGED stream
        \/ \E s \in ending[e].ended : stream' = Cancelled(OfSession(s), "session ended")
        \/ stream' = Cancelled(OfAccount(AccountOf[ending[e].session]), "account cancelled")
    BY <1>5 DEF EndingStep, Begin, ResolvePrevious, Mutate, CancelSession, CancelAccount
  <2>. QED
    BY <1>1, <1>2, <1>3, <2>1, <2>2
<1>6. CASE CancelAll
  <2>1. stream' = Cancelled(Registered, "shutdown")
    BY <1>6 DEF CancelAll
  <2>2. \A st \in Streams : /\ stream'[st].pc = stream[st].pc
                            /\ st \in Registered => stream'[st].cause # "none"
    BY <1>3, <2>1, CancelledTyped DEF Typed
  <2>. QED
    BY <2>2 DEF ShutdownReachesAll, Registered
<1>7. CASE DeleteExpired \/ \E s \in Sessions : Create(s) \/ Expire(s)
  BY <1>2, <1>7 DEF DeleteExpired, Create, Expire
<1>8. CASE UNCHANGED registryVars
  BY <1>2, <1>8 DEF registryVars
<1>. QED
  BY <1>4, <1>5, <1>6, <1>7, <1>8 DEF RegistryNext

-----------------------------------------------------------------------------
RegistryIInv == Typed /\ Fenced /\ Limits /\ ShutdownReachesAll

LEMMA Inductive == RegistrySpec => []RegistryIInv
<1>1. RegistryInit => RegistryIInv
  <2>. SUFFICES ASSUME RegistryInit PROVE RegistryIInv
    OBVIOUS
  <2>1. Registered = {} /\ \A a : OfAccount(a) = {}
    BY DEF RegistryInit, Registered, OfAccount, Off
  <2>2. Limits
    BY <2>1, FS_EmptySet, RegistryAssumption DEF Limits
  <2>3. Fenced /\ ShutdownReachesAll
    BY DEF RegistryInit, Fenced, ShutdownReachesAll, Off
  <2>. QED
    BY <2>2, <2>3, InitTyped DEF RegistryIInv
<1>2. RegistryIInv /\ [RegistryNext]_registryVars => RegistryIInv'
  BY StepTyped, StepFenced, StepLimits, StepShutdown DEF RegistryIInv
<1>. QED
  BY <1>1, <1>2, PTL DEF RegistrySpec

(* The limits on streams hold, however registrations, cancellations and    *)
(* departures interleave (Hub.Register, Hub.unregister).                   *)
THEOREM RegistryTypeCorrect == RegistrySpec => []RegistryTypeOK
<1>1. RegistryIInv => RegistryTypeOK
  BY DEF RegistryIInv, Typed, StoreTyped, StreamsTyped, EndingsTyped, Limits, RegistryTypeOK
<1>. QED
  BY <1>1, Inductive, PTL

(* No stream outlives its session: who deletes a session cancels every     *)
(* stream that registered with it, and who registers later looks again     *)
(* (openStream, web/stream.go:184-237).                                    *)
THEOREM StreamsEndWithSessions == RegistrySpec => []NoStreamOutlivesSession
<1>1. RegistryIInv => NoStreamOutlivesSession
  BY DEF RegistryIInv, Fenced, Covered, NoStreamOutlivesSession
<1>. QED
  BY <1>1, Inductive, PTL

(* No stream goes on once shutdown has begun, whenever it registered       *)
(* (Hub.CancelAll, Hub.Register).                                          *)
THEOREM ShutdownIsComplete == RegistrySpec => []ShutdownReachesAll
<1>1. RegistryIInv => ShutdownReachesAll
  BY DEF RegistryIInv
<1>. QED
  BY <1>1, Inductive, PTL
=============================================================================
