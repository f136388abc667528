--------------------------- MODULE Posting_proofs ---------------------------
(***************************************************************************)
(* Proofs about posting for any keys, texts, items, requests and           *)
(* disturbances: what the page says of a send is true, messages are stored *)
(* in the order they were sent in, no text is stored more often than it    *)
(* was asked for, and no item stays behind its message.                    *)
(*                                                                         *)
(* The argument is about the queue (predicate Queue). A key belongs to one *)
(* item, hold or restored text at most (Owned), so what is stored under    *)
(* the key of an item, and what a request under it will still store, is    *)
(* that item's doing: if the outcome is known, nothing is stored and no    *)
(* request is left that could (ItemOK, Clean). One item is sent at a time  *)
(* and after nothing in doubt (Order). Every operation of the queue keeps  *)
(* this, and each action of the model is a few of them in turn.            *)
(*                                                                         *)
(* Three invariants stand on it: a text is stored, or may yet be, under at *)
(* most as many keys as it was asked for (Claims, AskedInv); the list is   *)
(* right about all the stream is through with, and a confirmed item waits  *)
(* for a frame that will come (ViewInv); and the counters keep within      *)
(* their bounds (BoundsInv).                                               *)
(***************************************************************************)
EXTENDS Posting, FiniteSetTheorems, WellFoundedInduction, TLAPS

-----------------------------------------------------------------------------
(* What is to hold of the queue. The predicates speak of the stored texts  *)
(* st, the items is, the requests rs with f awaited, the holds hs, the key *)
(* rk the composer was restored with, and the next key nk.                 *)

Under(q) == q.at \in {"look", "insert", "repeat"}

(* Nothing was and nothing will be stored under k.                         *)
Clean(st, rs, k) ==
  /\ st[k] = Empty
  /\ \A r \in 1..MaxRequests : Under(rs[r]) => rs[r].key # k

(* The request sends the item; if its outcome was known, alone.            *)
Sends(st, rs, f, item) ==
  /\ rs[f].key = item.requestKey /\ rs[f].text = item.text
  /\ ~item.unconfirmed =>
       /\ st[item.requestKey] = Empty /\ rs[f].at # "repeat"
       /\ \A r \in 1..MaxRequests : Under(rs[r]) /\ rs[r].key = item.requestKey => r = f

(* The answer is true of what the item sent.                               *)
Tells(st, rs, q, item) ==
  /\ q.status = "ok" => st[item.requestKey] = item.text
  /\ q.status = "conflict" => st[item.requestKey] \notin {Empty, item.text}
  /\ ~item.unconfirmed =>
       /\ q.status # "conflict"
       /\ q.status = "refused" => Clean(st, rs, item.requestKey)

ItemOK(st, rs, f, item) ==
  /\ item.posted <=> (item.state = "confirmed")
  /\ item.state = "confirmed" => st[item.requestKey] = item.text
  /\ item.state \in {"queued", "failed"} /\ ~item.unconfirmed => Clean(st, rs, item.requestKey)
  /\ item.state = "sending" =>
       /\ f # 0
       /\ Under(rs[f]) => Sends(st, rs, f, item)
       /\ rs[f].at = "answer" => Tells(st, rs, rs[f], item)
       /\ rs[f] # Idle

Settling(item) == item.state = "confirmed" \/ (item.state = "failed" /\ ~item.unconfirmed)

Order(is) == \A i, j \in 1..Len(is) : i < j /\ is[j].state # "queued" => Settling(is[i])

KeysOf(item) == {item.requestKey, item.draftKey}

Owned(is, hs, rk) ==
  /\ \A i, j \in 1..Len(is) : i # j => KeysOf(is[i]) \cap KeysOf(is[j]) = {}
  /\ \A i \in 1..Len(is), t \in Texts : hs[t] \notin KeysOf(is[i])
  /\ \A i \in 1..Len(is) : rk \notin KeysOf(is[i])
  /\ \A t, u \in Texts : hs[t] # None /\ hs[t] = hs[u] => t = u
  /\ \A t \in Texts : rk # None => hs[t] # rk

Numbered(st, is, rs, hs, rk, nk) ==
  /\ \A k \in Keys : k >= nk => Clean(st, rs, k)
  /\ \A i \in 1..Len(is) : is[i].requestKey < nk /\ is[i].draftKey < nk
  /\ \A t \in Texts : hs[t] < nk
  /\ rk < nk

Heard(st, rs, f) ==
  \A r \in 1..MaxRequests :
    /\ rs[r].at = "answer" => f = r
    /\ rs[r].at = "repeat" => st[rs[r].key] # Empty

Sending(is, f) == (f # 0) <=> \E i \in 1..Len(is) : is[i].state = "sending"

RestoredOK(st, rs, re) == re # NotRestored /\ ~re.unconfirmed => Clean(st, rs, re.key)

Typed(st, is, rs, f, hs, re, nk) ==
  /\ st \in [Keys -> Texts \cup {Empty}]
  /\ is \in Seq(Item) /\ Len(is) <= MaxItems
  /\ rs \in [1..MaxRequests -> Request \cup {Idle}]
  /\ f \in 0..MaxRequests
  /\ hs \in [Texts -> KeyOrNone]
  /\ re \in Restoration \cup {NotRestored}
  /\ nk \in 1..(Cardinality(Keys) + 1)

Queue(st, is, rs, f, hs, re, nk) ==
  /\ Typed(st, is, rs, f, hs, re, nk)
  /\ Order(is)
  /\ Sending(is, f)
  /\ \A i \in 1..Len(is) : ItemOK(st, rs, f, is[i])
  /\ Owned(is, hs, re.key)
  /\ Numbered(st, is, rs, hs, re.key, nk)
  /\ Heard(st, rs, f)
  /\ RestoredOK(st, rs, re)
-----------------------------------------------------------------------------
(* Lists.                                                                  *)

(* A set of numbers that is not empty has a least one.                     *)
LEMMA Least ==
  ASSUME NEW S, S \subseteq Nat, S # {}
  PROVE  Min(S) \in S /\ \A y \in S : Min(S) <= y
<1>1. IsWellFoundedOn(OpToRel(<, Nat), Nat)
  BY NatLessThanWellFounded
<1>2. PICK x \in S : \A y \in S : ~ (<<y, x>> \in OpToRel(<, Nat))
  BY <1>1, WFMin
<1>3. \A y \in S : x <= y
  <2>. SUFFICES ASSUME NEW y \in S PROVE x <= y
    OBVIOUS
  <2>1. ~ (y < x)
    BY <1>2 DEF OpToRel
  <2>. QED
    BY <2>1
<1>. QED
  BY <1>3 DEF Min

(* And a set of numbers up to n a greatest.                                *)
LEMMA Greatest ==
  ASSUME NEW n \in Nat, NEW S, S \subseteq 0..n, S # {}
  PROVE  Max(S) \in S /\ \A y \in S : y <= Max(S)
<1>. DEFINE T == {n - y : y \in S}
<1>1. \A y \in S : y \in Nat /\ n - y \in Nat
  OBVIOUS
<1>2. T \subseteq Nat /\ T # {}
  BY <1>1
<1>3. Min(T) \in T /\ \A y \in T : Min(T) <= y
  BY <1>2, Least
<1>4. PICK x \in S : Min(T) = n - x
  BY <1>3
<1>5. \A y \in S : y <= x
  <2>. SUFFICES ASSUME NEW y \in S PROVE y <= x
    OBVIOUS
  <2>1. n - y \in T
    OBVIOUS
  <2>. HIDE DEF T
  <2>2. n - x <= n - y
    BY <1>3, <1>4, <2>1
  <2>. QED
    BY <1>1, <2>2
<1>6. \A y \in S : x >= y
  BY <1>1, <1>5
<1>. QED
  BY <1>5, <1>6 DEF Max

(* js is what e leaves of is, in its order.                                *)
Fewer(is, js, e) ==
  /\ js \in Seq(Item) /\ Len(js) <= Len(is)
  /\ e \in [1..Len(js) -> 1..Len(is)]
  /\ \A n \in 1..Len(js) : js[n] = is[e[n]]
  /\ \A m, n \in 1..Len(js) : m < n => e[m] < e[n]

(* Nothing that is in S is left out.                                       *)
Keeps(js, e, S) == \A i \in S : \E n \in 1..Len(js) : e[n] = i

LEMMA RemoveAtIs ==
  ASSUME NEW is \in Seq(Item), NEW i \in 1..Len(is)
  PROVE  \E e : /\ Fewer(is, RemoveAt(is, i), e)
                /\ \A n \in 1..Len(RemoveAt(is, i)) : e[n] # i
                /\ Keeps(RemoveAt(is, i), e, 1..Len(is) \ {i})
                /\ Len(RemoveAt(is, i)) = Len(is) - 1
<1>. DEFINE a == SubSeq(is, 1, i - 1)
           b == SubSeq(is, i + 1, Len(is))
           js == RemoveAt(is, i)
           e == [n \in 1..Len(js) |-> IF n < i THEN n ELSE n + 1]
<1>1. a \in Seq(Item) /\ Len(a) = i - 1 /\ \A n \in 1..(i - 1) : a[n] = is[n]
  OBVIOUS
<1>2. b \in Seq(Item) /\ Len(b) = Len(is) - i /\ \A n \in 1..(Len(is) - i) : b[n] = is[n + i]
  OBVIOUS
<1>3. js = a \o b
  BY DEF RemoveAt
<1>. HIDE DEF a, b, js
<1>4. js \in Seq(Item) /\ Len(js) = Len(is) - 1
  BY <1>1, <1>2, <1>3
<1>5. \A n \in 1..Len(js) : js[n] = IF n < i THEN is[n] ELSE is[n + 1]
  <2>. SUFFICES ASSUME NEW n \in 1..Len(js) PROVE js[n] = IF n < i THEN is[n] ELSE is[n + 1]
    OBVIOUS
  <2>1. CASE n < i
    BY <1>1, <1>2, <1>3, <1>4, <2>1
  <2>2. CASE n >= i
    <3>1. js[n] = b[n - i + 1]
      BY <1>1, <1>2, <1>3, <1>4, <2>2
    <3>2. n - i + 1 \in 1..(Len(is) - i)
      BY <1>4, <2>2
    <3>3. b[n - i + 1] = is[n - i + 1 + i]
      BY <1>2, <3>2
    <3>. QED
      BY <2>2, <3>1, <3>3
  <2>. QED
    BY <2>1, <2>2
<1>6. e \in [1..Len(js) -> 1..Len(is)] /\ \A n \in 1..Len(js) : e[n] = IF n < i THEN n ELSE n + 1
  BY <1>4
<1>. HIDE DEF e
<1>7. Fewer(is, js, e)
  BY <1>4, <1>5, <1>6 DEF Fewer
<1>8. \A n \in 1..Len(js) : e[n] # i
  BY <1>6
<1>9. Keeps(js, e, 1..Len(is) \ {i})
  <2>. SUFFICES ASSUME NEW j \in 1..Len(is), j # i
                PROVE  \E n \in 1..Len(js) : e[n] = j
    BY DEF Keeps
  <2>1. CASE j < i
    BY <1>4, <1>6, <2>1
  <2>2. CASE j > i
    <3>1. j - 1 \in 1..Len(js) /\ e[j - 1] = j
      BY <1>4, <1>6, <2>2
    <3>. QED
      BY <3>1
  <2>. QED
    BY <2>1, <2>2
<1>. QED
  BY <1>4, <1>7, <1>8, <1>9 DEF js

(* s is what is left of the first n items by Delivered, and where it was.  *)
LeftOf(is, ids, n, s, e) ==
  /\ s \in Seq(Item) /\ Len(s) <= n
  /\ e \in [1..Len(s) -> 1..n]
  /\ \A m \in 1..Len(s) : s[m] = is[e[m]] /\ ~(s[m].posted /\ s[m].requestKey \in ids)
  /\ \A l, m \in 1..Len(s) : l < m => e[l] < e[m]
  /\ \A i \in 1..n : ~is[i].posted => \E m \in 1..Len(s) : e[m] = i

Leaves(is, ids, g, n) ==
  /\ g \in [0..n -> Seq(Item)]
  /\ \A m \in 0..n :
       g[m] = IF m = 0 THEN <<>>
              ELSE IF is[m].posted /\ is[m].requestKey \in ids THEN g[m - 1] ELSE Append(g[m - 1], is[m])

(* The recursion of Delivered has a solution.                              *)
LEMMA LeavesExist ==
  ASSUME NEW is \in Seq(Item), NEW ids
  PROVE  \E g : Leaves(is, ids, g, Len(is))
<1>. DEFINE S == {n \in 0..Len(is) : ~ \E g : Leaves(is, ids, g, n)}
<1>1. Len(is) \in 0..Len(is)
  OBVIOUS
<1>. SUFFICES ASSUME S # {} PROVE FALSE
  BY <1>1
<1>. DEFINE n == Min(S)
<1>2. n \in S /\ \A m \in S : n <= m
  BY Least, S \subseteq Nat
<1>. HIDE DEF S
<1>. HIDE DEF n
<1>3. n \in 0..Len(is) /\ ~ \E g : Leaves(is, ids, g, n)
  BY <1>2 DEF S
<1>4. CASE n = 0
  <2>1. Leaves(is, ids, [m \in 0..n |-> <<>>], n)
    BY <1>4 DEF Leaves
  <2>. QED
    BY <1>3, <2>1
<1>5. CASE n > 0
  <2>1. n - 1 \in 0..Len(is) /\ n - 1 \notin S
    BY <1>3, <1>2, <1>5
  <2>2. PICK g : Leaves(is, ids, g, n - 1)
    BY <2>1 DEF S
  <2>. DEFINE last == IF is[n].posted /\ is[n].requestKey \in ids THEN g[n - 1] ELSE Append(g[n - 1], is[n])
             h == [m \in 0..n |-> IF m = n THEN last ELSE g[m]]
  <2>3. is[n] \in Item /\ g[n - 1] \in Seq(Item)
    BY <1>3, <1>5, <2>2 DEF Leaves
  <2>4. last \in Seq(Item)
    BY <2>3
  <2>. HIDE DEF last
  <2>5. h \in [0..n -> Seq(Item)]
    BY <1>3, <1>5, <2>2, <2>4 DEF Leaves
  <2>6. \A m \in 0..(n - 1) : h[m] = g[m]
    BY <1>3, <1>5
  <2>7. h[n] = last
    BY <1>3, <1>5
  <2>. HIDE DEF h
  <2>8. ASSUME NEW m \in 0..n
        PROVE  h[m] = IF m = 0 THEN <<>>
                      ELSE IF is[m].posted /\ is[m].requestKey \in ids THEN h[m - 1] ELSE Append(h[m - 1], is[m])
    <3>1. CASE m = n
      <4>1. h[m - 1] = g[n - 1]
        BY <1>3, <1>5, <2>6, <3>1
      <4>. QED
        BY <1>5, <2>7, <3>1, <4>1 DEF last
    <3>2. CASE m # n /\ m > 0
      <4>1. m \in 0..(n - 1) /\ m - 1 \in 0..(n - 1)
        BY <1>3, <3>2
      <4>2. h[m] = g[m] /\ h[m - 1] = g[m - 1]
        BY <2>6, <4>1
      <4>3. g[m] = IF is[m].posted /\ is[m].requestKey \in ids THEN g[m - 1] ELSE Append(g[m - 1], is[m])
        BY <2>2, <3>2, <4>1 DEF Leaves
      <4>. QED
        BY <3>2, <4>2, <4>3
    <3>3. CASE m # n /\ m = 0
      BY <1>3, <1>5, <2>2, <2>6, <3>3 DEF Leaves
    <3>. QED
      BY <1>3, <3>1, <3>2, <3>3
  <2>9. Leaves(is, ids, h, n)
    BY <2>5, <2>8 DEF Leaves
  <2>. QED
    BY <1>3, <2>9
<1>. QED
  BY <1>3, <1>4, <1>5

(* What Delivered keeps are items that are not done, in their order.       *)
LEMMA DeliveredIs ==
  ASSUME NEW is \in Seq(Item), NEW ids
  PROVE  \E e : LeftOf(is, ids, Len(is), Delivered(is, ids), e)
<1>. DEFINE left[n \in 0..Len(is)] ==
              IF n = 0 THEN <<>>
              ELSE IF is[n].posted /\ is[n].requestKey \in ids THEN left[n - 1] ELSE Append(left[n - 1], is[n])
<1>1. Delivered(is, ids) = left[Len(is)]
  BY DEF Delivered
<1>2. PICK g : Leaves(is, ids, g, Len(is))
  BY LeavesExist
<1>3. g = [n \in 0..Len(is) |->
             IF n = 0 THEN <<>>
             ELSE IF is[n].posted /\ is[n].requestKey \in ids THEN g[n - 1] ELSE Append(g[n - 1], is[n])]
  BY <1>2 DEF Leaves
<1>4. left = [n \in 0..Len(is) |->
                IF n = 0 THEN <<>>
                ELSE IF is[n].posted /\ is[n].requestKey \in ids THEN left[n - 1] ELSE Append(left[n - 1], is[n])]
  BY <1>3
<1>. HIDE DEF left
<1>5. left[0] = <<>>
  <2>1. 0 \in 0..Len(is)
    OBVIOUS
  <2>. QED
    BY <1>4, <2>1
<1>6. ASSUME NEW n \in 1..Len(is)
      PROVE  left[n] = IF is[n].posted /\ is[n].requestKey \in ids THEN left[n - 1] ELSE Append(left[n - 1], is[n])
  <2>1. n \in 0..Len(is) /\ n # 0
    OBVIOUS
  <2>. QED
    BY <1>4, <2>1
<1>. DEFINE S == {n \in 0..Len(is) : ~ \E e : LeftOf(is, ids, n, left[n], e)}
<1>7. S = {}
  <2>. SUFFICES ASSUME S # {} PROVE FALSE
    OBVIOUS
  <2>. DEFINE n == Min(S)
  <2>1. n \in S /\ \A m \in S : n <= m
    BY Least, S \subseteq Nat
  <2>. HIDE DEF S
  <2>. HIDE DEF n
  <2>2. n \in 0..Len(is) /\ ~ \E e : LeftOf(is, ids, n, left[n], e)
    BY <2>1 DEF S
  <2>3. CASE n = 0
    <3>1. LeftOf(is, ids, 0, <<>>, <<>>)
      BY DEF LeftOf
    <3>. QED
      BY <1>5, <2>2, <2>3, <3>1
  <2>4. CASE n > 0
    <3>1. n - 1 \in 0..Len(is) /\ n - 1 \notin S /\ n \in 1..Len(is)
      BY <2>1, <2>2, <2>4
    <3>. DEFINE s == left[n - 1]
    <3>2. PICK e : LeftOf(is, ids, n - 1, s, e)
      BY <3>1 DEF S
    <3>3. left[n] = IF is[n].posted /\ is[n].requestKey \in ids THEN s ELSE Append(s, is[n])
      BY <1>6, <3>1
    <3>. HIDE DEF s
    <3>4. is[n] \in Item
      BY <3>1
    <3>5. CASE is[n].posted /\ is[n].requestKey \in ids
      <4>1. LeftOf(is, ids, n, s, e)
        <5>1. s \in Seq(Item) /\ Len(s) <= n /\ e \in [1..Len(s) -> 1..n]
          BY <3>1, <3>2 DEF LeftOf
        <5>2. \A i \in 1..n : ~is[i].posted => \E m \in 1..Len(s) : e[m] = i
          <6>. SUFFICES ASSUME NEW i \in 1..n, ~is[i].posted PROVE \E m \in 1..Len(s) : e[m] = i
            OBVIOUS
          <6>1. i \in 1..(n - 1)
            BY <3>1, <3>5
          <6>. QED
            BY <3>2, <6>1 DEF LeftOf
        <5>. QED
          BY <3>2, <5>1, <5>2 DEF LeftOf
      <4>. QED
        BY <2>2, <3>3, <3>5, <4>1
    <3>6. CASE ~(is[n].posted /\ is[n].requestKey \in ids)
      <4>. DEFINE k == Len(s) + 1
                 s2 == Append(s, is[n])
                 e2 == [m \in 1..k |-> IF m = k THEN n ELSE e[m]]
      <4>1. s \in Seq(Item) /\ Len(s) \in Nat /\ Len(s) <= n - 1 /\ e \in [1..Len(s) -> 1..(n - 1)]
        BY <3>2 DEF LeftOf
      <4>2. /\ s2 \in Seq(Item) /\ Len(s2) = k /\ s2[k] = is[n]
            /\ \A m \in 1..Len(s) : s2[m] = s[m]
        BY <3>4, <4>1
      <4>3. \A m \in 1..Len(s) : e[m] \in 1..(n - 1)
        BY <4>1
      <4>4. e2[k] = n /\ \A m \in 1..Len(s) : e2[m] = e[m]
        BY <4>1
      <4>5. e2 \in [1..k -> 1..n]
        BY <3>1, <4>1, <4>3
      <4>6. e2 \in [1..k -> 1..n] /\ e2[k] = n /\ \A m \in 1..Len(s) : e2[m] = e[m] /\ e[m] \in 1..(n - 1)
        BY <4>3, <4>4, <4>5
      <4>7. k <= n /\ k \in Nat /\ \A m \in 1..k : m = k \/ m \in 1..Len(s)
        BY <3>1, <4>1
      <4>. HIDE DEF s2, e2
      <4>8. \A m \in 1..k : s2[m] = is[e2[m]] /\ ~(s2[m].posted /\ s2[m].requestKey \in ids)
        BY <3>2, <3>6, <4>2, <4>6, <4>7 DEF LeftOf
      <4>9. \A l, m \in 1..k : l < m => e2[l] < e2[m]
        <5>. SUFFICES ASSUME NEW l \in 1..k, NEW m \in 1..k, l < m PROVE e2[l] < e2[m]
          OBVIOUS
        <5>1. l \in 1..Len(s)
          BY <4>1
        <5>2. CASE m = k
          BY <3>1, <4>6, <5>1, <5>2
        <5>3. CASE m \in 1..Len(s)
          BY <3>2, <4>6, <5>1, <5>3 DEF LeftOf
        <5>. QED
          BY <4>7, <5>2, <5>3
      <4>10. \A i \in 1..n : ~is[i].posted => \E m \in 1..k : e2[m] = i
        <5>. SUFFICES ASSUME NEW i \in 1..n, ~is[i].posted PROVE \E m \in 1..k : e2[m] = i
          OBVIOUS
        <5>1. CASE i = n
          BY <4>1, <4>6, <5>1
        <5>2. CASE i # n
          <6>1. i \in 1..(n - 1)
            BY <3>1, <5>2
          <6>2. PICK m \in 1..Len(s) : e[m] = i
            BY <3>2, <6>1 DEF LeftOf
          <6>. QED
            BY <4>1, <4>6, <6>2
        <5>. QED
          BY <5>1, <5>2
      <4>11. LeftOf(is, ids, n, s2, e2)
        BY <4>2, <4>6, <4>7, <4>8, <4>9, <4>10 DEF LeftOf
      <4>. QED
        BY <2>2, <3>3, <3>6, <4>11 DEF s2
    <3>. QED
      BY <3>5, <3>6
  <2>. QED
    BY <2>2, <2>3, <2>4
<1>8. Len(is) \in 0..Len(is) /\ Len(is) \notin S
  BY <1>7
<1>. QED
  BY <1>1, <1>8

LEMMA LeftIsFewer ==
  ASSUME NEW is \in Seq(Item), NEW ids, NEW js, NEW e, LeftOf(is, ids, Len(is), js, e)
  PROVE  Fewer(is, js, e)
BY DEF LeftOf, Fewer

-----------------------------------------------------------------------------
(* The next send.                                                          *)

Requests == [1..MaxRequests -> Request \cup {Idle}]

(* The h-th item of is leaves as request m, which makes the items js, the  *)
(* requests ss and m the awaited one.                                      *)
Starts(is, rs, h, m, js, ss, g) ==
  /\ h \in 1..Len(is) /\ is[h].state = "queued"
  /\ MayDispatch(is) /\ \A j \in 1..(h - 1) : is[j].state # "queued"
  /\ js = [is EXCEPT ![h].state = "sending"]
  /\ m \in 1..MaxRequests /\ rs[m] = Idle /\ g = m
  /\ ss = [rs EXCEPT ![m] = [at |-> Entry(is[h].text), key |-> is[h].requestKey, text |-> is[h].text]]

LEMMA DispatchedIs ==
  ASSUME NEW is \in Seq(Item)
  PROVE  \/ Dispatched(is) = is
         \/ \E h \in 1..Len(is) :
              /\ is[h].state = "queued" /\ MayDispatch(is)
              /\ \A j \in 1..(h - 1) : is[j].state # "queued"
              /\ Dispatched(is) = [is EXCEPT ![h].state = "sending"]
              /\ SelectInSeq(Dispatched(is), IsSending) = h
<1>. DEFINE I == {i \in 1..Len(is) : is[i].state = "queued"}
<1>1. SelectInSeq(is, IsQueued) = IF I # {} THEN Min(I) ELSE 0
  BY DEF SelectInSeq, IsQueued
<1>2. CASE I = {} \/ ~MayDispatch(is)
  BY <1>1, <1>2 DEF Dispatched
<1>3. CASE I # {} /\ MayDispatch(is)
  <2>. DEFINE h == Min(I)
             js == [is EXCEPT ![h].state = "sending"]
             J == {i \in 1..Len(js) : js[i].state = "sending"}
  <2>1. h \in I /\ \A j \in I : h <= j
    BY <1>3, Least, I \subseteq Nat
  <2>. HIDE DEF h
  <2>2. h \in 1..Len(is) /\ is[h].state = "queued" /\ h # 0
    BY <2>1
  <2>3. \A j \in 1..(h - 1) : is[j].state # "queued"
    BY <2>1, <2>2
  <2>4. Dispatched(is) = js
    BY <1>1, <1>3, <2>2 DEF Dispatched, h
  <2>5. SelectInSeq(js, IsSending) = IF J # {} THEN Min(J) ELSE 0
    BY DEF SelectInSeq, IsSending
  <2>6. J = {h}
    <3>1. \A i \in 1..Len(is) : is[i].state # "sending"
      BY <1>3 DEF MayDispatch
    <3>2. Len(js) = Len(is) /\ js[h].state = "sending" /\ \A i \in 1..Len(is) : i # h => js[i] = is[i]
      BY <2>2 DEF Item
    <3>. QED
      BY <2>2, <3>1, <3>2
  <2>. HIDE DEF js, J
  <2>7. Min({h}) = h
    BY <2>2 DEF Min
  <2>8. SelectInSeq(js, IsSending) = h
    BY <2>5, <2>6, <2>7
  <2>. QED
    BY <1>3, <2>2, <2>3, <2>4, <2>8 DEF js
<1>. QED
  BY <1>2, <1>3

LEMMA ProceedIs ==
  ASSUME NEW is \in Seq(Item), NEW rs \in Requests, NEW f, Proceed(is, rs, f)
  PROVE  \/ items' = is /\ reqs' = rs /\ flight' = f
         \/ \E h, m : Starts(is, rs, h, m, items', reqs', flight')
<1>1. CASE Dispatched(is) = is
  BY <1>1 DEF Proceed
<1>2. CASE Dispatched(is) # is
  <2>1. PICK h \in 1..Len(is) :
          /\ is[h].state = "queued" /\ MayDispatch(is)
          /\ \A j \in 1..(h - 1) : is[j].state # "queued"
          /\ Dispatched(is) = [is EXCEPT ![h].state = "sending"]
          /\ SelectInSeq(Dispatched(is), IsSending) = h
    BY <1>2, DispatchedIs
  <2>. DEFINE ds == Dispatched(is)
             free == {r \in DOMAIN rs : rs[r] = Idle}
             m == Min(free)
  <2>2. /\ items' = ds /\ free # {} /\ flight' = m
        /\ reqs' = [rs EXCEPT ![m] = [at |-> Entry(ds[h].text), key |-> ds[h].requestKey, text |-> ds[h].text]]
    BY <1>2, <2>1 DEF Proceed
  <2>3. free \subseteq 1..MaxRequests
    BY DEF Requests
  <2>4. m \in free
    BY <2>2, <2>3, Least, 1..MaxRequests \subseteq Nat
  <2>5. ds[h].text = is[h].text /\ ds[h].requestKey = is[h].requestKey
    BY <2>1 DEF Item
  <2>. HIDE DEF ds, free, m
  <2>6. m \in 1..MaxRequests /\ rs[m] = Idle
    BY <2>3, <2>4 DEF free
  <2>7. items' = [is EXCEPT ![h].state = "sending"]
    BY <2>1, <2>2 DEF ds
  <2>8. reqs' = [rs EXCEPT ![m] = [at |-> Entry(is[h].text), key |-> is[h].requestKey, text |-> is[h].text]]
    BY <2>2, <2>5
  <2>9. Starts(is, rs, h, m, items', reqs', flight')
    BY <2>1, <2>2, <2>6, <2>7, <2>8 DEF Starts
  <2>. QED
    BY <2>9
<1>. QED
  BY <1>1, <1>2

LEMMA KeysAre ==
  /\ Keys \subseteq Nat \ {0} /\ None \notin Keys /\ KeyOrNone \subseteq Nat
  /\ Cardinality(Keys) \in Nat /\ IsFiniteSet(Keys)
  /\ Keys = 1..Cardinality(Keys)
  /\ MaxRequests \in Nat /\ MaxItems \in Nat
<1>1. IsFiniteSet(Keys) /\ Keys = 1..Cardinality(Keys)
  BY PostingAssumption
<1>2. Cardinality(Keys) \in Nat
  BY <1>1, FS_CardinalityType
<1>3. Keys \subseteq Nat \ {0}
  BY <1>1, <1>2
<1>4. None \notin Keys /\ KeyOrNone \subseteq Nat
  BY <1>3 DEF None, KeyOrNone
<1>. QED
  BY <1>1, <1>2, <1>3, <1>4, PostingAssumption

LEMMA RequestIs ==
  ASSUME NEW q \in Request \cup {Idle}
  PROVE  /\ Under(q) => q.key \in Keys /\ q.text \in Texts /\ q # Idle /\ q.at # "answer"
         /\ q.at = "answer" => q.status \in Statuses /\ q.topic \in Topics /\ q # Idle /\ ~Under(q)
         /\ q # Idle => Under(q) \/ q.at = "answer"
<1>1. CASE q = Idle
  BY <1>1 DEF Idle, Under
<1>2. CASE q \in [at: {"look", "insert", "repeat"}, key: Keys, text: Texts]
  BY <1>2 DEF Idle, Under
<1>3. CASE q \in [at: {"answer"}, status: Statuses, topic: Topics]
  BY <1>3 DEF Idle, Under
<1>. QED
  BY <1>1, <1>2, <1>3 DEF Request

LEMMA IdleIs == Idle.at = "idle" /\ ~Under(Idle)
BY DEF Idle, Under

LEMMA RestorationIs ==
  ASSUME NEW re \in Restoration \cup {NotRestored}
  PROVE  /\ re.key \in KeyOrNone
         /\ re # NotRestored <=> re.key # None
         /\ re.key # None => re.key \in Keys /\ re.unconfirmed \in BOOLEAN /\ re.text \in Texts \cup {Kept}
<1>1. CASE re = NotRestored
  BY <1>1 DEF NotRestored, KeyOrNone
<1>2. CASE re \in Restoration
  <2>1. re.key \in Keys /\ re.unconfirmed \in BOOLEAN /\ re.text \in Texts \cup {Kept}
    BY <1>2 DEF Restoration
  <2>2. re.key # None /\ re # NotRestored
    BY <2>1, KeysAre DEF NotRestored
  <2>. QED
    BY <2>1, <2>2 DEF KeyOrNone
<1>. QED
  BY <1>1, <1>2

(* What a start makes of the lists.                                        *)
Started(is, rs, f, h, m, js, ss, g) ==
  /\ f = 0 /\ g = m /\ m # 0 /\ h \in 1..Len(is)
  /\ \A i \in 1..Len(is) : is[i].state # "sending"
  /\ js \in Seq(Item) /\ Len(js) = Len(is)
  /\ \A i \in 1..Len(is) : i # h => js[i] = is[i]
  /\ js[h] = [is[h] EXCEPT !.state = "sending"]
  /\ ss \in [1..MaxRequests -> Request \cup {Idle}]
  /\ \A r \in 1..MaxRequests : r # m => ss[r] = rs[r]
  /\ Under(ss[m]) /\ ss[m].at # "repeat" /\ ss[m].key = is[h].requestKey /\ ss[m].text = is[h].text
  /\ rs[m] = Idle /\ m \in 1..MaxRequests

LEMMA StartIs ==
  ASSUME NEW st, NEW is, NEW rs, NEW f, NEW hs, NEW re, NEW nk, NEW js, NEW ss, NEW g, NEW h, NEW m,
         Queue(st, is, rs, f, hs, re, nk), Starts(is, rs, h, m, js, ss, g)
  PROVE  Started(is, rs, f, h, m, js, ss, g)
<1>1. /\ is \in Seq(Item) /\ rs \in [1..MaxRequests -> Request \cup {Idle}]
      /\ h \in 1..Len(is) /\ m \in 1..MaxRequests /\ MaxRequests \in Nat
  BY KeysAre DEF Queue, Typed, Starts
<1>2. \A i \in 1..Len(is) : is[i].state # "sending"
  BY DEF Starts, MayDispatch
<1>3. f = 0
  BY <1>2 DEF Queue, Sending
<1>4. is[h] \in Item
  BY <1>1
<1>5. [is[h] EXCEPT !.state = "sending"] \in Item
  BY <1>4 DEF Item, States
<1>6. /\ js \in Seq(Item) /\ Len(js) = Len(is)
      /\ \A i \in 1..Len(is) : i # h => js[i] = is[i]
      /\ js[h] = [is[h] EXCEPT !.state = "sending"]
  BY <1>1, <1>5 DEF Starts
<1>. DEFINE q == [at |-> Entry(is[h].text), key |-> is[h].requestKey, text |-> is[h].text]
<1>7. q \in Request /\ Under(q) /\ q.at # "repeat" /\ q.key = is[h].requestKey /\ q.text = is[h].text
  <2>1. is[h].requestKey \in Keys /\ is[h].text \in Texts /\ Entry(is[h].text) \in {"look", "insert"}
    BY <1>4 DEF Item, Entry
  <2>. QED
    BY <2>1 DEF Request, Under
<1>8. ss = [rs EXCEPT ![m] = q]
  BY DEF Starts
<1>. HIDE DEF q
<1>9. /\ ss \in [1..MaxRequests -> Request \cup {Idle}] /\ ss[m] = q
      /\ \A r \in 1..MaxRequests : r # m => ss[r] = rs[r]
  BY <1>1, <1>7, <1>8
<1>. QED
  BY <1>1, <1>2, <1>3, <1>6, <1>7, <1>9 DEF Starts, Started

(* A start keeps what is to hold of the queue.                             *)
LEMMA StartKeepsQueue ==
  ASSUME NEW st, NEW is, NEW rs, NEW f, NEW hs, NEW re, NEW nk, NEW js, NEW ss, NEW g, NEW h, NEW m,
         Queue(st, is, rs, f, hs, re, nk),
         Starts(is, rs, h, m, js, ss, g)
  PROVE  Queue(st, js, ss, g, hs, re, nk)
<1>1. /\ f = 0 /\ g = m /\ m # 0 /\ h \in 1..Len(is)
      /\ \A i \in 1..Len(is) : is[i].state # "sending"
      /\ js \in Seq(Item) /\ Len(js) = Len(is)
      /\ \A i \in 1..Len(is) : i # h => js[i] = is[i]
      /\ js[h] = [is[h] EXCEPT !.state = "sending"]
      /\ ss \in [1..MaxRequests -> Request \cup {Idle}]
      /\ \A r \in 1..MaxRequests : r # m => ss[r] = rs[r]
      /\ Under(ss[m]) /\ ss[m].at # "repeat" /\ ss[m].key = is[h].requestKey /\ ss[m].text = is[h].text
      /\ rs[m] = Idle /\ m \in 1..MaxRequests
  <2>1. Started(is, rs, f, h, m, js, ss, g)
    BY StartIs
  <2>. QED
    BY <2>1 DEF Started
<1>2. /\ is \in Seq(Item) /\ is[h] \in Item /\ is[h].state = "queued"
      /\ MayDispatch(is) /\ \A j \in 1..(h - 1) : is[j].state # "queued"
      /\ \A i \in 1..Len(is) : is[i] \in Item
  BY <1>1 DEF Queue, Typed, Starts
<1>3. /\ js[h].state = "sending" /\ js[h].requestKey = is[h].requestKey /\ js[h].draftKey = is[h].draftKey
      /\ js[h].text = is[h].text /\ js[h].unconfirmed = is[h].unconfirmed /\ js[h].posted = is[h].posted
  BY <1>1, <1>2 DEF Item
<1>4. ss[m].at # "answer"
  BY <1>1 DEF Under
<1>5. ~Under(rs[m]) /\ \A r \in 1..MaxRequests : rs[r].at # "answer"
  BY <1>1, IdleIs DEF Queue, Heard
<1>6. \A i \in 1..Len(is) : KeysOf(js[i]) = KeysOf(is[i])
        /\ js[i].requestKey = is[i].requestKey /\ js[i].draftKey = is[i].draftKey
  BY <1>1, <1>3 DEF KeysOf
<1>7. \A k \in Keys : k # is[h].requestKey /\ Clean(st, rs, k) => Clean(st, ss, k)
  BY <1>1 DEF Clean
<1>8. Order(js)
  <2>. SUFFICES ASSUME NEW i \in 1..Len(js), NEW j \in 1..Len(js), i < j, js[j].state # "queued"
                PROVE  Settling(js[i])
    BY DEF Order
  <2>1. CASE j # h /\ i # h
    BY <1>1, <2>1 DEF Queue, Order
  <2>2. CASE j = h
    <3>1. i \in 1..(h - 1) /\ js[i] = is[i] /\ is[i] \in Item
      BY <1>1, <1>2, <2>2
    <3>2. is[i].state # "queued" /\ is[i].state # "sending" /\ ~(is[i].state = "failed" /\ is[i].unconfirmed)
      BY <1>1, <1>2, <3>1 DEF MayDispatch
    <3>3. is[i].state \in States
      BY <3>1 DEF Item
    <3>. QED
      BY <3>1, <3>2, <3>3 DEF Settling, States
  <2>3. CASE i = h /\ j # h
    <3>1. Settling(is[h])
      BY <1>1, <2>3 DEF Queue, Order
    <3>. QED
      BY <1>2, <3>1 DEF Settling
  <2>. QED
    BY <2>1, <2>2, <2>3
<1>9. Sending(js, g)
  BY <1>1, <1>3 DEF Sending
<1>10. ASSUME NEW i \in 1..Len(js) PROVE ItemOK(st, ss, g, js[i])
  <2>1. CASE i = h
    <3>1. ItemOK(st, rs, f, is[h])
      BY <1>1 DEF Queue
    <3>2. ~is[h].posted
      BY <1>2, <3>1 DEF ItemOK
    <3>3. ~is[h].unconfirmed => Clean(st, rs, is[h].requestKey)
      BY <1>2, <3>1 DEF ItemOK
    <3>4. Sends(st, ss, m, js[h])
      <4>1. ASSUME ~is[h].unconfirmed, NEW r \in 1..MaxRequests, Under(ss[r]), ss[r].key = is[h].requestKey
            PROVE  r = m
        BY <1>1, <3>3, <4>1 DEF Clean
      <4>2. ~is[h].unconfirmed => st[is[h].requestKey] = Empty
        BY <3>3 DEF Clean
      <4>. QED
        BY <1>1, <1>3, <4>1, <4>2 DEF Sends
    <3>5. ss[m] # Idle
      BY <1>1, IdleIs
    <3>. QED
      BY <1>1, <1>3, <1>4, <2>1, <3>2, <3>4, <3>5 DEF ItemOK
  <2>2. CASE i # h
    <3>1. js[i] = is[i] /\ ItemOK(st, rs, f, is[i]) /\ is[i].state # "sending"
      BY <1>1, <2>2 DEF Queue
    <3>2. is[i].requestKey # is[h].requestKey /\ is[i].requestKey \in Keys
      <4>1. KeysOf(is[i]) \cap KeysOf(is[h]) = {}
        BY <1>1, <2>2 DEF Queue, Owned
      <4>2. is[i].requestKey \in KeysOf(is[i]) /\ is[h].requestKey \in KeysOf(is[h])
        BY DEF KeysOf
      <4>3. is[i] \in Item
        BY <1>1, <1>2
      <4>4. is[i].requestKey \in Keys
        BY <4>3 DEF Item
      <4>. QED
        BY <4>1, <4>2, <4>4
    <3>3. Clean(st, rs, is[i].requestKey) => Clean(st, ss, is[i].requestKey)
      BY <1>7, <3>2
    <3>. QED
      BY <3>1, <3>3 DEF ItemOK
  <2>. QED
    BY <2>1, <2>2
<1>11. Owned(js, hs, re.key)
  <2>1. Owned(is, hs, re.key)
    BY DEF Queue
  <2>2. Len(js) = Len(is) /\ \A i \in 1..Len(is) : KeysOf(js[i]) = KeysOf(is[i])
    BY <1>1, <1>6
  <2>3. \A i, j \in 1..Len(js) : i # j => KeysOf(js[i]) \cap KeysOf(js[j]) = {}
    BY <2>1, <2>2 DEF Owned
  <2>4. \A i \in 1..Len(js) : re.key \notin KeysOf(js[i]) /\ \A t \in Texts : hs[t] \notin KeysOf(js[i])
    BY <2>1, <2>2 DEF Owned
  <2>. QED
    BY <2>1, <2>3, <2>4 DEF Owned
<1>12. Numbered(st, js, ss, hs, re.key, nk)
  <2>1. Numbered(st, is, rs, hs, re.key, nk)
    BY DEF Queue
  <2>2. is[h].requestKey < nk /\ is[h].requestKey \in Keys
    BY <1>1, <1>2, <2>1 DEF Numbered, Item
  <2>3. ASSUME NEW k \in Keys, k >= nk PROVE Clean(st, ss, k)
    <3>1. k # is[h].requestKey
      BY <2>2, <2>3, KeysAre DEF Queue, Typed
    <3>. QED
      BY <1>7, <2>1, <2>3, <3>1 DEF Numbered
  <2>. QED
    BY <1>1, <1>6, <2>1, <2>3 DEF Numbered
<1>13. Heard(st, ss, g)
  <2>1. Heard(st, rs, f)
    BY DEF Queue
  <2>. SUFFICES ASSUME NEW r \in 1..MaxRequests
                PROVE  (ss[r].at = "answer" => g = r) /\ (ss[r].at = "repeat" => st[ss[r].key] # Empty)
    BY DEF Heard
  <2>2. CASE r = m
    BY <1>1, <1>4, <2>2
  <2>3. CASE r # m
    BY <1>1, <1>5, <2>1, <2>3 DEF Heard
  <2>. QED
    BY <2>2, <2>3
<1>14. RestoredOK(st, ss, re)
  <2>. SUFFICES ASSUME re # NotRestored, ~re.unconfirmed PROVE Clean(st, ss, re.key)
    BY DEF RestoredOK
  <2>1. Clean(st, rs, re.key)
    BY DEF Queue, RestoredOK
  <2>2. re.key \in Keys
    BY RestorationIs DEF Queue, Typed
  <2>3. re.key # is[h].requestKey
    BY <1>1 DEF Queue, Owned, KeysOf
  <2>. QED
    BY <1>7, <2>1, <2>2, <2>3
<1>15. Typed(st, js, ss, g, hs, re, nk)
  <2>1. Typed(st, is, rs, f, hs, re, nk)
    BY DEF Queue
  <2>. QED
    BY <1>1, <2>1, KeysAre DEF Typed
<1>. QED
  BY <1>8, <1>9, <1>10, <1>11, <1>12, <1>13, <1>14, <1>15 DEF Queue

LEMMA ProceedKeepsQueue ==
  ASSUME NEW st, NEW is, NEW rs, NEW f, NEW hs, NEW re, NEW nk,
         Queue(st, is, rs, f, hs, re, nk), Proceed(is, rs, f)
  PROVE  Queue(st, items', reqs', flight', hs, re, nk)
<1>1. is \in Seq(Item) /\ rs \in Requests
  BY DEF Queue, Typed, Requests
<1>2. CASE items' = is /\ reqs' = rs /\ flight' = f
  BY <1>2
<1>3. CASE \E h, m : Starts(is, rs, h, m, items', reqs', flight')
  <2>1. PICK h, m : Starts(is, rs, h, m, items', reqs', flight')
    BY <1>3
  <2>2. PICK js, ss, g : js = items' /\ ss = reqs' /\ g = flight'
    OBVIOUS
  <2>3. Starts(is, rs, h, m, js, ss, g)
    BY <2>1, <2>2
  <2>4. Queue(st, js, ss, g, hs, re, nk)
    BY <2>3, StartKeepsQueue
  <2>. QED
    BY <2>2, <2>4
<1>. QED
  BY <1>1, <1>2, <1>3, ProceedIs

-----------------------------------------------------------------------------
(* The changes to the queue.                                               *)

(* An item that is not being sent, or is done, may go.                     *)
LEMMA ShrinkKeepsQueue ==
  ASSUME NEW st, NEW is, NEW rs, NEW f, NEW hs, NEW re, NEW nk, NEW js, NEW e,
         Queue(st, is, rs, f, hs, re, nk), Fewer(is, js, e),
         Keeps(js, e, {i \in 1..Len(is) : is[i].state = "sending"})
  PROVE  Queue(st, js, rs, f, hs, re, nk)
<1>1. /\ is \in Seq(Item) /\ js \in Seq(Item) /\ Len(js) <= Len(is) /\ Len(is) \in Nat /\ Len(js) \in Nat
      /\ \A n \in 1..Len(js) : e[n] \in 1..Len(is) /\ js[n] = is[e[n]]
      /\ \A m, n \in 1..Len(js) : m < n => e[m] < e[n]
  BY DEF Queue, Typed, Fewer
<1>2. \A m, n \in 1..Len(js) : m # n => e[m] # e[n]
  <2>. SUFFICES ASSUME NEW m \in 1..Len(js), NEW n \in 1..Len(js), m # n PROVE e[m] # e[n]
    OBVIOUS
  <2>1. CASE m < n
    BY <1>1, <2>1
  <2>2. CASE n < m
    BY <1>1, <2>2
  <2>. QED
    BY <1>1, <2>1, <2>2
<1>3. Typed(st, js, rs, f, hs, re, nk)
  BY <1>1, KeysAre DEF Queue, Typed
<1>4. Order(js)
  BY <1>1 DEF Queue, Order
<1>5. Sending(js, f)
  <2>1. ASSUME NEW n \in 1..Len(js), js[n].state = "sending" PROVE f # 0
    BY <1>1, <2>1 DEF Queue, Sending
  <2>2. ASSUME f # 0 PROVE \E n \in 1..Len(js) : js[n].state = "sending"
    <3>1. PICK i \in 1..Len(is) : is[i].state = "sending"
      BY <2>2 DEF Queue, Sending
    <3>2. PICK n \in 1..Len(js) : e[n] = i
      BY <3>1 DEF Keeps
    <3>. QED
      BY <1>1, <3>1, <3>2
  <2>. QED
    BY <2>1, <2>2 DEF Sending
<1>6. \A n \in 1..Len(js) : ItemOK(st, rs, f, js[n])
  BY <1>1 DEF Queue
<1>7. Owned(js, hs, re.key)
  <2>1. Owned(is, hs, re.key)
    BY DEF Queue
  <2>2. \A m, n \in 1..Len(js) : m # n => KeysOf(js[m]) \cap KeysOf(js[n]) = {}
    <3>. SUFFICES ASSUME NEW m \in 1..Len(js), NEW n \in 1..Len(js), m # n
                  PROVE  KeysOf(js[m]) \cap KeysOf(js[n]) = {}
      OBVIOUS
    <3>1. e[m] \in 1..Len(is) /\ e[n] \in 1..Len(is) /\ e[m] # e[n] /\ js[m] = is[e[m]] /\ js[n] = is[e[n]]
      BY <1>1, <1>2
    <3>2. KeysOf(is[e[m]]) \cap KeysOf(is[e[n]]) = {}
      BY <2>1, <3>1 DEF Owned
    <3>. QED
      BY <3>1, <3>2
  <2>3. /\ \A n \in 1..Len(js), t \in Texts : hs[t] \notin KeysOf(js[n])
        /\ \A n \in 1..Len(js) : re.key \notin KeysOf(js[n])
    BY <1>1, <2>1 DEF Owned
  <2>. QED
    BY <2>1, <2>2, <2>3 DEF Owned
<1>8. Numbered(st, js, rs, hs, re.key, nk)
  BY <1>1 DEF Queue, Numbered
<1>. QED
  BY <1>3, <1>4, <1>5, <1>6, <1>7, <1>8 DEF Queue

(* Only one item is sent, and those behind it wait.                        *)
LEMMA SendingIsAlone ==
  ASSUME NEW is \in Seq(Item), Order(is), NEW i \in 1..Len(is), is[i].state = "sending"
  PROVE  /\ \A j \in 1..Len(is) : j # i => is[j].state # "sending"
         /\ \A j \in 1..Len(is) : j > i => is[j].state = "queued"
         /\ \A j \in 1..Len(is) : j < i => Settling(is[j])
<1>1. ~Settling(is[i])
  BY DEF Settling
<1>2. \A j \in 1..Len(is) : j > i => is[j].state = "queued"
  BY <1>1 DEF Order
<1>3. \A j \in 1..Len(is) : j < i => Settling(is[j])
  BY DEF Order
<1>4. \A j \in 1..Len(is) : j # i => is[j].state # "sending"
  BY <1>2, <1>3 DEF Settling
<1>. QED
  BY <1>2, <1>3, <1>4

(* The requests when the awaited one is over: no answer is left, and what  *)
(* is under way was before.                                                *)
Quieter(rs, ss) ==
  /\ ss \in [1..MaxRequests -> Request \cup {Idle}]
  /\ \A r \in 1..MaxRequests : Under(ss[r]) => ss[r] = rs[r]
  /\ \A r \in 1..MaxRequests : ss[r].at # "answer"

LEMMA QuieterIsClean ==
  ASSUME NEW st, NEW rs, NEW ss, NEW k, Quieter(rs, ss), Clean(st, rs, k)
  PROVE  Clean(st, ss, k)
BY DEF Quieter, Clean

(* The item that was sent is settled, as it, under its key or a new one.   *)
LEMMA SettleKeepsQueue ==
  ASSUME NEW st, NEW is, NEW rs, NEW f, NEW hs, NEW re, NEW nk, NEW i \in 1..Len(is), NEW it, NEW ss, NEW nn,
         Queue(st, is, rs, f, hs, re, nk),
         is[i].state = "sending", Quieter(rs, ss),
         it \in Item, it.state \in {"failed", "confirmed"}, ItemOK(st, ss, 0, it),
         nn \in nk..(Cardinality(Keys) + 1),
         KeysOf(it) \subseteq KeysOf(is[i]) \cup {k \in Keys : nk <= k /\ k < nn}
  PROVE  Queue(st, [is EXCEPT ![i] = it], ss, 0, hs, re, nn)
<1>. DEFINE js == [is EXCEPT ![i] = it]
<1>1. /\ is \in Seq(Item) /\ Len(is) \in Nat /\ i \in 1..Len(is) /\ nk \in Nat /\ nk # 0 /\ nn \in Nat /\ nn >= nk
      /\ \A j \in 1..Len(is) : is[j] \in Item
  BY KeysAre DEF Queue, Typed
<1>2. /\ js \in Seq(Item) /\ Len(js) = Len(is) /\ js[i] = it
      /\ \A j \in 1..Len(is) : j # i => js[j] = is[j]
  BY <1>1
<1>. HIDE DEF js
<1>3. /\ \A j \in 1..Len(is) : j # i => is[j].state # "sending"
      /\ \A j \in 1..Len(is) : j > i => is[j].state = "queued"
      /\ \A j \in 1..Len(is) : j < i => Settling(is[j])
  BY <1>1, SendingIsAlone DEF Queue
<1>4. Typed(st, js, ss, 0, hs, re, nn)
  <2>1. nn \in 1..(Cardinality(Keys) + 1) /\ 0 \in 0..MaxRequests
    BY <1>1, KeysAre
  <2>. QED
    BY <1>2, <2>1 DEF Queue, Typed, Quieter
<1>5. Order(js)
  <2>. SUFFICES ASSUME NEW l \in 1..Len(js), NEW j \in 1..Len(js), l < j, js[j].state # "queued"
                PROVE  Settling(js[l])
    BY DEF Order
  <2>1. CASE j = i
    BY <1>1, <1>2, <1>3, <2>1
  <2>2. CASE j # i
    <3>1. js[j] = is[j] /\ j < i
      BY <1>1, <1>2, <1>3, <2>2
    <3>. QED
      BY <1>1, <1>2, <1>3, <3>1
  <2>. QED
    BY <2>1, <2>2
<1>6. Sending(js, 0)
  BY <1>2, <1>3 DEF Sending
<1>7. ASSUME NEW j \in 1..Len(js) PROVE ItemOK(st, ss, 0, js[j])
  <2>1. CASE j = i
    BY <1>2, <2>1
  <2>2. CASE j # i
    <3>1. js[j] = is[j] /\ ItemOK(st, rs, f, is[j]) /\ is[j].state # "sending"
      BY <1>2, <1>3, <2>2 DEF Queue
    <3>. QED
      BY <3>1, QuieterIsClean DEF ItemOK
  <2>. QED
    BY <2>1, <2>2
<1>8. Numbered(st, is, rs, hs, re.key, nk)
  BY DEF Queue
<1>9. /\ \A j \in 1..Len(is) : is[j].requestKey \in Nat /\ is[j].draftKey \in Nat
      /\ \A t \in Texts : hs[t] \in Nat
      /\ re.key \in Nat
  <2>1. \A j \in 1..Len(is) : is[j].requestKey \in Keys /\ is[j].draftKey \in Keys
    BY <1>1 DEF Item
  <2>2. \A t \in Texts : hs[t] \in KeyOrNone
    BY DEF Queue, Typed
  <2>3. re.key \in KeyOrNone
    BY RestorationIs DEF Queue, Typed
  <2>. QED
    BY <2>1, <2>2, <2>3, KeysAre
<1>10. Numbered(st, js, ss, hs, re.key, nn)
  <2>1. ASSUME NEW k \in Keys, k >= nn PROVE Clean(st, ss, k)
    <3>1. k >= nk
      BY <1>1, <2>1, KeysAre
    <3>. QED
      BY <1>8, <3>1, QuieterIsClean DEF Numbered
  <2>2. ASSUME NEW j \in 1..Len(js) PROVE js[j].requestKey < nn /\ js[j].draftKey < nn
    <3>1. CASE j = i
      <4>1. is[i].requestKey < nn /\ is[i].draftKey < nn
        BY <1>1, <1>8, <1>9 DEF Numbered
      <4>. QED
        BY <1>2, <3>1, <4>1 DEF KeysOf
    <3>2. CASE j # i
      BY <1>1, <1>2, <1>8, <1>9, <3>2 DEF Numbered
    <3>. QED
      BY <3>1, <3>2
  <2>3. (\A t \in Texts : hs[t] < nn) /\ re.key < nn
    BY <1>1, <1>8, <1>9 DEF Numbered
  <2>. QED
    BY <2>1, <2>2, <2>3 DEF Numbered
<1>11. Owned(js, hs, re.key)
  <2>1. Owned(is, hs, re.key)
    BY DEF Queue
  <2>2. ASSUME NEW k \in KeysOf(it), k \notin KeysOf(is[i])
        PROVE  /\ \A j \in 1..Len(is) : k \notin KeysOf(is[j])
               /\ \A t \in Texts : hs[t] # k
               /\ re.key # k
    <3>1. k >= nk /\ k \in Nat
      BY <2>2, KeysAre
    <3>. QED
      BY <1>1, <1>8, <1>9, <3>1 DEF Numbered, KeysOf
  <2>3. ASSUME NEW j \in 1..Len(js), NEW l \in 1..Len(js), j # l
        PROVE  KeysOf(js[j]) \cap KeysOf(js[l]) = {}
    <3>1. CASE j # i /\ l # i
      BY <1>2, <2>1, <2>3, <3>1 DEF Owned
    <3>2. CASE j = i
      BY <1>2, <2>1, <2>2, <2>3, <3>2 DEF Owned
    <3>3. CASE l = i
      BY <1>2, <2>1, <2>2, <2>3, <3>3 DEF Owned
    <3>. QED
      BY <3>1, <3>2, <3>3
  <2>4. ASSUME NEW j \in 1..Len(js), NEW t \in Texts PROVE hs[t] \notin KeysOf(js[j])
    <3>1. CASE j = i
      BY <1>2, <2>1, <2>2, <3>1 DEF Owned
    <3>2. CASE j # i
      BY <1>2, <2>1, <3>2 DEF Owned
    <3>. QED
      BY <3>1, <3>2
  <2>5. ASSUME NEW j \in 1..Len(js) PROVE re.key \notin KeysOf(js[j])
    <3>1. CASE j = i
      BY <1>2, <2>1, <2>2, <3>1 DEF Owned
    <3>2. CASE j # i
      BY <1>2, <2>1, <3>2 DEF Owned
    <3>. QED
      BY <3>1, <3>2
  <2>. QED
    BY <2>1, <2>3, <2>4, <2>5 DEF Owned
<1>12. Heard(st, ss, 0)
  BY DEF Queue, Heard, Quieter, Under
<1>13. RestoredOK(st, ss, re)
  BY QuieterIsClean DEF Queue, RestoredOK
<1>. QED
  BY <1>4, <1>5, <1>6, <1>7, <1>10, <1>11, <1>12, <1>13 DEF Queue, js

(* Nobody but its owner has this key.                                      *)
Spare(is, hs, rk, k) ==
  /\ \A i \in 1..Len(is) : k \notin KeysOf(is[i])
  /\ \A t \in Texts : hs[t] # k
  /\ rk # k

LEMMA AppendKeepsQueue ==
  ASSUME NEW st, NEW is, NEW rs, NEW f, NEW hs, NEW re, NEW nk, NEW it,
         Queue(st, is, rs, f, hs, re, nk), Len(is) < MaxItems,
         it \in Item, it.state = "queued", ItemOK(st, rs, f, it),
         \A k \in KeysOf(it) : k < nk /\ Spare(is, hs, re.key, k)
  PROVE  Queue(st, Append(is, it), rs, f, hs, re, nk)
<1>. DEFINE js == Append(is, it)
           n == Len(is) + 1
<1>1. is \in Seq(Item) /\ Len(is) \in Nat
  BY DEF Queue, Typed
<1>2. /\ js \in Seq(Item) /\ Len(js) = n /\ js[n] = it
      /\ \A i \in 1..Len(is) : js[i] = is[i]
  BY <1>1
<1>3. \A i \in 1..n : i = n \/ i \in 1..Len(is)
  BY <1>1
<1>. HIDE DEF js
<1>4. Typed(st, js, rs, f, hs, re, nk)
  BY <1>1, <1>2, KeysAre DEF Queue, Typed
<1>5. Order(js)
  <2>. SUFFICES ASSUME NEW i \in 1..n, NEW j \in 1..n, i < j, js[j].state # "queued"
                PROVE  Settling(js[i])
    BY <1>2 DEF Order
  <2>1. j # n /\ j \in 1..Len(is) /\ i \in 1..Len(is)
    BY <1>1, <1>2, <1>3
  <2>. QED
    BY <1>2, <2>1 DEF Queue, Order
<1>6. Sending(js, f)
  BY <1>2, <1>3 DEF Queue, Sending
<1>7. \A i \in 1..Len(js) : ItemOK(st, rs, f, js[i])
  BY <1>2, <1>3 DEF Queue
<1>8. Owned(js, hs, re.key)
  <2>1. Owned(is, hs, re.key)
    BY DEF Queue
  <2>2. ASSUME NEW i \in 1..n, NEW j \in 1..n, i # j
        PROVE  KeysOf(js[i]) \cap KeysOf(js[j]) = {}
    <3>1. CASE i = n
      BY <1>2, <1>3, <2>2, <3>1 DEF Spare
    <3>2. CASE j = n
      BY <1>2, <1>3, <2>2, <3>2 DEF Spare
    <3>3. CASE i # n /\ j # n
      BY <1>2, <1>3, <2>1, <2>2, <3>3 DEF Owned
    <3>. QED
      BY <3>1, <3>2, <3>3
  <2>3. ASSUME NEW i \in 1..n
        PROVE  /\ \A t \in Texts : hs[t] \notin KeysOf(js[i])
               /\ re.key \notin KeysOf(js[i])
    <3>1. CASE i = n
      BY <1>2, <3>1 DEF Spare
    <3>2. CASE i # n
      BY <1>2, <1>3, <2>1, <3>2 DEF Owned
    <3>. QED
      BY <3>1, <3>2
  <2>. QED
    BY <1>2, <2>1, <2>2, <2>3 DEF Owned
<1>9. Numbered(st, js, rs, hs, re.key, nk)
  BY <1>2, <1>3 DEF Queue, Numbered, KeysOf
<1>. QED
  BY <1>4, <1>5, <1>6, <1>7, <1>8, <1>9 DEF Queue, js

(* An item whose outcome is unknown waits again in its place.              *)
LEMMA RequeueKeepsQueue ==
  ASSUME NEW st, NEW is, NEW rs, NEW f, NEW hs, NEW re, NEW nk, NEW i \in 1..Len(is),
         Queue(st, is, rs, f, hs, re, nk), is[i].state = "failed", is[i].unconfirmed
  PROVE  Queue(st, [is EXCEPT ![i] = [is[i] EXCEPT !.state = "queued"]], rs, f, hs, re, nk)
<1>. DEFINE it == [is[i] EXCEPT !.state = "queued"]
           js == [is EXCEPT ![i] = it]
<1>1. is \in Seq(Item) /\ Len(is) \in Nat /\ is[i] \in Item
  BY DEF Queue, Typed
<1>2. /\ it \in Item /\ it.state = "queued" /\ it.requestKey = is[i].requestKey /\ it.draftKey = is[i].draftKey
      /\ it.posted = is[i].posted /\ it.unconfirmed = is[i].unconfirmed
  BY <1>1 DEF Item, States
<1>. HIDE DEF it
<1>3. /\ js \in Seq(Item) /\ Len(js) = Len(is) /\ js[i] = it
      /\ \A j \in 1..Len(is) : j # i => js[j] = is[j]
  BY <1>1, <1>2
<1>. HIDE DEF js
<1>4. \A j \in 1..Len(is) : KeysOf(js[j]) = KeysOf(is[j])
  BY <1>2, <1>3 DEF KeysOf
<1>5. Typed(st, js, rs, f, hs, re, nk)
  BY <1>3 DEF Queue, Typed
<1>6. Order(js)
  <2>. SUFFICES ASSUME NEW l \in 1..Len(js), NEW j \in 1..Len(js), l < j, js[j].state # "queued"
                PROVE  Settling(js[l])
    BY DEF Order
  <2>1. j # i /\ is[j].state # "queued" /\ Settling(is[l])
    BY <1>2, <1>3 DEF Queue, Order
  <2>2. l # i
    BY <2>1 DEF Settling
  <2>. QED
    BY <1>3, <2>1, <2>2
<1>7. Sending(js, f)
  BY <1>2, <1>3 DEF Queue, Sending
<1>8. ASSUME NEW j \in 1..Len(js) PROVE ItemOK(st, rs, f, js[j])
  <2>1. CASE j = i
    BY <1>1, <1>2, <1>3, <2>1 DEF Queue, ItemOK
  <2>2. CASE j # i
    BY <1>3, <2>2 DEF Queue
  <2>. QED
    BY <2>1, <2>2
<1>9. Owned(js, hs, re.key)
  <2>1. Owned(is, hs, re.key)
    BY DEF Queue
  <2>. QED
    BY <1>3, <1>4, <2>1 DEF Owned
<1>10. Numbered(st, js, rs, hs, re.key, nk)
  <2>1. \A j \in 1..Len(js) : js[j].requestKey = is[j].requestKey /\ js[j].draftKey = is[j].draftKey
    BY <1>2, <1>3
  <2>. QED
    BY <1>3, <2>1 DEF Queue, Numbered
<1>. QED
  BY <1>5, <1>6, <1>7, <1>8, <1>9, <1>10 DEF Queue, it, js

(* Holds that are dropped.                                                 *)
LEMMA DropKeepsQueue ==
  ASSUME NEW st, NEW is, NEW rs, NEW f, NEW hs, NEW re, NEW nk, NEW hh,
         Queue(st, is, rs, f, hs, re, nk),
         hh \in [Texts -> KeyOrNone], \A t \in Texts : hh[t] \in {None, hs[t]}
  PROVE  Queue(st, is, rs, f, hh, re, nk)
<1>1. Typed(st, is, rs, f, hh, re, nk)
  BY DEF Queue, Typed
<1>2. nk \in Nat \ {0} /\ \A i \in 1..Len(is) : None \notin KeysOf(is[i])
  <2>1. nk \in Nat \ {0}
    BY KeysAre DEF Queue, Typed
  <2>2. ASSUME NEW i \in 1..Len(is) PROVE None \notin KeysOf(is[i])
    <3>1. is[i] \in Item
      BY DEF Queue, Typed
    <3>. QED
      BY <3>1, KeysAre DEF Item, KeysOf
  <2>. QED
    BY <2>1, <2>2
<1>3. Owned(is, hh, re.key)
  <2>1. Owned(is, hs, re.key)
    BY DEF Queue
  <2>2. \A i \in 1..Len(is), t \in Texts : hh[t] \notin KeysOf(is[i])
    BY <1>2, <2>1 DEF Owned
  <2>3. \A t, u \in Texts : hh[t] # None /\ hh[t] = hh[u] => t = u
    BY <2>1 DEF Owned
  <2>4. \A t \in Texts : re.key # None => hh[t] # re.key
    BY <2>1 DEF Owned
  <2>. QED
    BY <2>1, <2>2, <2>3, <2>4 DEF Owned
<1>4. Numbered(st, is, rs, hh, re.key, nk)
  <2>1. Numbered(st, is, rs, hs, re.key, nk)
    BY DEF Queue
  <2>2. \A t \in Texts : hh[t] < nk
    BY <1>2, <2>1 DEF Numbered, None
  <2>. QED
    BY <2>1, <2>2 DEF Numbered
<1>. QED
  BY <1>1, <1>3, <1>4 DEF Queue

(* The key k is held for t.                                                *)
LEMMA HoldKeepsQueue ==
  ASSUME NEW st, NEW is, NEW rs, NEW f, NEW hs, NEW re, NEW nk, NEW t \in Texts, NEW k \in Keys,
         Queue(st, is, rs, f, hs, re, nk), k < nk, Spare(is, hs, re.key, k)
  PROVE  Queue(st, is, rs, f, [hs EXCEPT ![t] = k], re, nk)
<1>. DEFINE hh == [hs EXCEPT ![t] = k]
<1>1. hs \in [Texts -> KeyOrNone] /\ k \in KeyOrNone
  BY DEF Queue, Typed, KeyOrNone
<1>2. hh \in [Texts -> KeyOrNone] /\ hh[t] = k /\ \A u \in Texts : u # t => hh[u] = hs[u]
  BY <1>1
<1>. HIDE DEF hh
<1>3. Typed(st, is, rs, f, hh, re, nk)
  BY <1>2 DEF Queue, Typed
<1>4. Owned(is, hh, re.key)
  <2>1. Owned(is, hs, re.key)
    BY DEF Queue
  <2>2. \A i \in 1..Len(is), u \in Texts : hh[u] \notin KeysOf(is[i])
    BY <1>2, <2>1 DEF Owned, Spare
  <2>3. \A u, v \in Texts : hh[u] # None /\ hh[u] = hh[v] => u = v
    BY <1>2, <2>1 DEF Owned, Spare
  <2>4. \A u \in Texts : re.key # None => hh[u] # re.key
    BY <1>2, <2>1 DEF Owned, Spare
  <2>. QED
    BY <2>1, <2>2, <2>3, <2>4 DEF Owned
<1>5. Numbered(st, is, rs, hh, re.key, nk)
  BY <1>2 DEF Queue, Numbered
<1>. QED
  BY <1>3, <1>4, <1>5 DEF Queue, hh

(* The composer is restored with a key that is nobody's, or with none.     *)
LEMMA RestoreKeepsQueue ==
  ASSUME NEW st, NEW is, NEW rs, NEW f, NEW hs, NEW re, NEW nk, NEW rr \in Restoration,
         Queue(st, is, rs, f, hs, re, nk), rr.key < nk, Spare(is, hs, None, rr.key), RestoredOK(st, rs, rr)
  PROVE  Queue(st, is, rs, f, hs, rr, nk)
<1>1. Typed(st, is, rs, f, hs, rr, nk)
  BY DEF Queue, Typed
<1>2. Owned(is, hs, rr.key)
  BY DEF Queue, Owned, Spare
<1>3. Numbered(st, is, rs, hs, rr.key, nk)
  BY DEF Queue, Numbered
<1>. QED
  BY <1>1, <1>2, <1>3 DEF Queue

LEMMA ForgetKeepsQueue ==
  ASSUME NEW st, NEW is, NEW rs, NEW f, NEW hs, NEW re, NEW nk, Queue(st, is, rs, f, hs, re, nk)
  PROVE  Queue(st, is, rs, f, hs, NotRestored, nk)
<1>1. NotRestored.key = None
  BY DEF NotRestored
<1>2. Typed(st, is, rs, f, hs, NotRestored, nk)
  BY DEF Queue, Typed
<1>3. Owned(is, hs, NotRestored.key)
  <2>1. ASSUME NEW i \in 1..Len(is) PROVE None \notin KeysOf(is[i])
    <3>1. is[i] \in Item
      BY DEF Queue, Typed
    <3>. QED
      BY <3>1, KeysAre DEF Item, KeysOf
  <2>. QED
    BY <1>1, <2>1 DEF Queue, Owned
<1>4. Numbered(st, is, rs, hs, NotRestored.key, nk)
  <2>1. nk \in Nat \ {0}
    BY KeysAre DEF Queue, Typed
  <2>. QED
    BY <1>1, <2>1 DEF Queue, Numbered, None
<1>5. RestoredOK(st, rs, NotRestored)
  BY DEF RestoredOK
<1>. QED
  BY <1>2, <1>3, <1>4, <1>5 DEF Queue

(* A key is generated.                                                     *)
LEMMA NextKeyKeepsQueue ==
  ASSUME NEW st, NEW is, NEW rs, NEW f, NEW hs, NEW re, NEW nk, NEW nn,
         Queue(st, is, rs, f, hs, re, nk), nn \in nk..(Cardinality(Keys) + 1)
  PROVE  Queue(st, is, rs, f, hs, re, nn)
<1>1. nk \in Nat \ {0} /\ nn \in Nat \ {0} /\ nn >= nk /\ nn \in 1..(Cardinality(Keys) + 1)
  BY KeysAre DEF Queue, Typed
<1>2. /\ \A j \in 1..Len(is) : is[j].requestKey \in Nat /\ is[j].draftKey \in Nat
      /\ \A t \in Texts : hs[t] \in Nat
      /\ re.key \in Nat
  <2>1. \A j \in 1..Len(is) : is[j] \in Item
    BY DEF Queue, Typed
  <2>2. \A j \in 1..Len(is) : is[j].requestKey \in Keys /\ is[j].draftKey \in Keys
    BY <2>1 DEF Item
  <2>3. \A t \in Texts : hs[t] \in KeyOrNone
    BY DEF Queue, Typed
  <2>4. re.key \in KeyOrNone
    BY RestorationIs DEF Queue, Typed
  <2>. QED
    BY <2>2, <2>3, <2>4, KeysAre
<1>3. Typed(st, is, rs, f, hs, re, nn)
  BY <1>1 DEF Queue, Typed
<1>4. Numbered(st, is, rs, hs, re.key, nn)
  <2>1. Numbered(st, is, rs, hs, re.key, nk)
    BY DEF Queue
  <2>2. \A k \in Keys : k >= nn => Clean(st, rs, k)
    <3>. SUFFICES ASSUME NEW k \in Keys, k >= nn PROVE Clean(st, rs, k)
      OBVIOUS
    <3>1. k >= nk
      BY <1>1, KeysAre
    <3>. QED
      BY <2>1, <3>1 DEF Numbered
  <2>. QED
    BY <1>1, <1>2, <2>1, <2>2 DEF Numbered
<1>. QED
  BY <1>3, <1>4 DEF Queue

-----------------------------------------------------------------------------
(* The server's steps.                                                     *)

(* Request r, under key k with the text tx, becomes q and the stored texts *)
(* st become tt.                                                           *)
Served(st, rs, f, r, tt, q) ==
  LET k == rs[r].key
      tx == rs[r].text
  IN  /\ Under(rs[r])
      /\ tt = st \/ (st[k] = Empty /\ tt = [st EXCEPT ![k] = tx])
      /\ \/ /\ Under(q) /\ q.key = k /\ q.text = tx /\ tt = st
            /\ q.at = "repeat" => st[k] # Empty
         \/ f # r /\ q = Idle
         \/ /\ f = r /\ q.at = "answer"
            /\ q.status = "ok" => tt[k] = tx
            /\ q.status = "conflict" => tt = st /\ st[k] \notin {Empty, tx}
            /\ q.status = "refused" => tt = st

LEMMA ServeKeepsQueue ==
  ASSUME NEW st, NEW is, NEW rs, NEW f, NEW hs, NEW re, NEW nk,
         NEW r \in 1..MaxRequests, NEW tt, NEW q \in Request \cup {Idle},
         Queue(st, is, rs, f, hs, re, nk), Served(st, rs, f, r, tt, q)
  PROVE  Queue(tt, is, [rs EXCEPT ![r] = q], f, hs, re, nk)
<1>. DEFINE ss == [rs EXCEPT ![r] = q]
           k == rs[r].key
           tx == rs[r].text
<1>1. /\ st \in [Keys -> Texts \cup {Empty}] /\ rs \in [1..MaxRequests -> Request \cup {Idle}]
      /\ f \in 0..MaxRequests /\ MaxRequests \in Nat
      /\ \A i \in 1..Len(is) : is[i] \in Item
  BY KeysAre DEF Queue, Typed
<1>2. rs[r] \in Request \cup {Idle} /\ Under(rs[r])
  BY <1>1 DEF Served
<1>3. k \in Keys /\ tx \in Texts /\ tx # Empty /\ rs[r].at # "answer"
  BY <1>2, RequestIs, PostingAssumption
<1>4. /\ tt \in [Keys -> Texts \cup {Empty}]
      /\ \A l \in Keys : l # k => tt[l] = st[l]
      /\ st[k] # Empty => tt = st
      /\ tt = st \/ tt[k] = tx
  BY <1>1, <1>3 DEF Served
<1>5. /\ ss \in [1..MaxRequests -> Request \cup {Idle}] /\ ss[r] = q
      /\ \A m \in 1..MaxRequests : m # r => ss[m] = rs[m]
  BY <1>1
<1>6. Under(q) => q.key = k /\ q.text = tx /\ tt = st /\ (q.at = "repeat" => st[k] # Empty)
  BY IdleIs DEF Served, Under
<1>7. q.at = "answer" =>
        /\ f = r
        /\ q.status = "ok" => tt[k] = tx
        /\ q.status = "conflict" => tt = st /\ st[k] \notin {Empty, tx}
        /\ q.status = "refused" => tt = st
  BY IdleIs DEF Served, Under
<1>8. q # Idle => Under(q) \/ q.at = "answer"
  BY RequestIs
<1>9. q = Idle => f # r
  BY IdleIs DEF Served
<1>. HIDE DEF ss, k, tx
<1>10. ASSUME NEW l \in Keys, Clean(st, rs, l)
      PROVE  l # k /\ Clean(tt, ss, l)
  <2>1. l # k
    BY <1>2, <1>10 DEF Clean, k
  <2>2. tt[l] = Empty
    BY <1>4, <1>10, <2>1 DEF Clean
  <2>3. \A m \in 1..MaxRequests : Under(ss[m]) => ss[m].key # l
    BY <1>5, <1>6, <1>10, <2>1 DEF Clean
  <2>. QED
    BY <2>1, <2>2, <2>3 DEF Clean
<1>11. Typed(tt, is, ss, f, hs, re, nk)
  BY <1>4, <1>5 DEF Queue, Typed
<1>12. ASSUME NEW i \in 1..Len(is) PROVE ItemOK(tt, ss, f, is[i])
  <2>. DEFINE it == is[i]
             l == it.requestKey
  <2>1. ItemOK(st, rs, f, it) /\ l \in Keys /\ it.text \in Texts /\ it.text # Empty
    BY <1>1, PostingAssumption DEF Queue, Item
  <2>. HIDE DEF it
  <2>2. st[l] # Empty => tt[l] = st[l]
    BY <1>4, <2>1
  <2>3. it.posted <=> (it.state = "confirmed")
    BY <2>1 DEF ItemOK
  <2>4. it.state = "confirmed" => tt[l] = it.text
    BY <2>1, <2>2 DEF ItemOK
  <2>5. it.state \in {"queued", "failed"} /\ ~it.unconfirmed => Clean(tt, ss, l)
    BY <1>10, <2>1 DEF ItemOK
  <2>6. ASSUME it.state = "sending"
        PROVE  /\ f # 0
               /\ Under(ss[f]) => Sends(tt, ss, f, it)
               /\ ss[f].at = "answer" => Tells(tt, ss, ss[f], it)
               /\ ss[f] # Idle
    <3>1. /\ f # 0 /\ f \in 1..MaxRequests
          /\ Under(rs[f]) => Sends(st, rs, f, it)
          /\ rs[f].at = "answer" => Tells(st, rs, rs[f], it)
          /\ rs[f] # Idle
      BY <1>1, <2>1, <2>6 DEF ItemOK
    <3>2. CASE f # r
      <4>1. ss[f] = rs[f]
        BY <1>5, <3>1, <3>2
      <4>2. ASSUME Under(rs[f]) PROVE Sends(tt, ss, f, it)
        <5>1. Sends(st, rs, f, it)
          BY <3>1, <4>2
        <5>2. ASSUME ~it.unconfirmed
              PROVE  /\ tt[l] = Empty /\ ss[f].at # "repeat"
                     /\ \A m \in 1..MaxRequests : Under(ss[m]) /\ ss[m].key = l => m = f
          <6>1. l # k
            BY <1>2, <3>2, <5>1, <5>2 DEF Sends, k
          <6>2. tt[l] = Empty
            BY <1>4, <2>1, <5>1, <5>2, <6>1 DEF Sends
          <6>3. \A m \in 1..MaxRequests : Under(ss[m]) /\ ss[m].key = l => m = f
            BY <1>5, <1>6, <5>1, <5>2, <6>1 DEF Sends
          <6>. QED
            BY <4>1, <5>1, <5>2, <6>2, <6>3 DEF Sends
        <5>. QED
          BY <4>1, <5>1, <5>2 DEF Sends
      <4>3. ASSUME rs[f].at = "answer" PROVE Tells(tt, ss, rs[f], it)
        <5>1. Tells(st, rs, rs[f], it)
          BY <3>1, <4>3
        <5>. QED
          BY <1>10, <2>1, <2>2, <5>1 DEF Tells
      <4>. QED
        BY <3>1, <4>1, <4>2, <4>3
    <3>3. CASE f = r
      <4>1. Sends(st, rs, f, it)
        BY <1>2, <3>1, <3>3
      <4>2. l = k /\ it.text = tx /\ ss[f] = q
        BY <1>5, <3>3, <4>1 DEF Sends, k, tx
      <4>3. ASSUME Under(q) PROVE Sends(tt, ss, f, it)
        <5>1. q.key = k /\ q.text = tx /\ tt = st /\ (q.at = "repeat" => st[k] # Empty)
          BY <1>6, <4>3
        <5>2. ~it.unconfirmed => st[l] = Empty /\ \A m \in 1..MaxRequests : Under(rs[m]) /\ rs[m].key = l => m = f
          BY <4>1 DEF Sends
        <5>3. ~it.unconfirmed => \A m \in 1..MaxRequests : Under(ss[m]) /\ ss[m].key = l => m = f
          BY <1>5, <3>3, <5>2
        <5>. QED
          BY <4>2, <5>1, <5>2, <5>3 DEF Sends
      <4>4. ASSUME q.at = "answer" PROVE Tells(tt, ss, q, it)
        <5>1. /\ q.status = "ok" => tt[k] = tx
              /\ q.status = "conflict" => tt = st /\ st[k] \notin {Empty, tx}
              /\ q.status = "refused" => tt = st
          BY <1>7, <4>4
        <5>2. ~it.unconfirmed => st[l] = Empty /\ \A m \in 1..MaxRequests : Under(rs[m]) /\ rs[m].key = l => m = f
          BY <4>1 DEF Sends
        <5>3. ~Under(q)
          BY <4>4 DEF Under
        <5>4. ~it.unconfirmed => \A m \in 1..MaxRequests : Under(ss[m]) => ss[m].key # l
          BY <1>5, <3>3, <5>2, <5>3
        <5>5. ~it.unconfirmed /\ q.status = "refused" => Clean(tt, ss, l)
          BY <5>1, <5>2, <5>4 DEF Clean
        <5>. QED
          BY <4>2, <5>1, <5>2, <5>5 DEF Tells
      <4>. QED
        BY <1>9, <3>1, <3>3, <4>2, <4>3, <4>4
    <3>. QED
      BY <3>2, <3>3
  <2>. QED
    BY <2>3, <2>4, <2>5, <2>6 DEF ItemOK, it
<1>13. Numbered(tt, is, ss, hs, re.key, nk)
  <2>1. Numbered(st, is, rs, hs, re.key, nk)
    BY DEF Queue
  <2>2. \A l \in Keys : l >= nk => Clean(tt, ss, l)
    BY <1>10, <2>1 DEF Numbered
  <2>. QED
    BY <2>1, <2>2 DEF Numbered
<1>14. Heard(tt, ss, f)
  <2>. SUFFICES ASSUME NEW m \in 1..MaxRequests
                PROVE  (ss[m].at = "answer" => f = m) /\ (ss[m].at = "repeat" => tt[ss[m].key] # Empty)
    BY DEF Heard
  <2>1. CASE m = r
    BY <1>5, <1>6, <1>7, <2>1 DEF Under
  <2>2. CASE m # r
    <3>1. ss[m] = rs[m] /\ (rs[m].at = "answer" => f = m) /\ (rs[m].at = "repeat" => st[rs[m].key] # Empty)
      BY <1>5, <2>2 DEF Queue, Heard
    <3>2. rs[m].at = "repeat" => rs[m].key \in Keys
      BY <1>1, RequestIs DEF Under
    <3>. QED
      BY <1>3, <1>4, <3>1, <3>2
  <2>. QED
    BY <2>1, <2>2
<1>15. RestoredOK(tt, ss, re)
  <2>. SUFFICES ASSUME re # NotRestored, ~re.unconfirmed PROVE Clean(tt, ss, re.key)
    BY DEF RestoredOK
  <2>1. Clean(st, rs, re.key)
    BY DEF Queue, RestoredOK
  <2>2. re.key \in Keys
    BY RestorationIs DEF Queue, Typed
  <2>. QED
    BY <1>10, <2>1, <2>2
<1>. QED
  BY <1>11, <1>12, <1>13, <1>14, <1>15 DEF Queue, ss

-----------------------------------------------------------------------------
(* The log and what it stores.                                             *)

Posts(lg, k) == {n \in 1..Len(lg) : lg[n].kind = "posted" /\ lg[n].key = k}
MemoryOf(lg) == [k \in Keys |-> IF Posts(lg, k) # {} THEN lg[CHOOSE n \in Posts(lg, k) : TRUE].text ELSE Empty]

(* Nothing is stored twice under a key, and only what was stored is moved. *)
LogGood(lg) ==
  /\ lg \in Seq(Event)
  /\ \A k \in Keys : \A m, n \in Posts(lg, k) : m = n
  /\ \A n \in 1..Len(lg) : lg[n].kind = "moved" => \E m \in Posts(lg, lg[n].key) : m < n

LEMMA EventIs ==
  ASSUME NEW v \in Event
  PROVE  /\ v.kind \in {"posted", "moved"} /\ v.key \in Keys /\ v.text \in Texts /\ v.topic \in Topics
         /\ v.kind = "posted" => v.topic = Here
BY DEF Event, Topics

LEMMA StoredIs ==
  ASSUME NEW k \in Keys
  PROVE  /\ PostedAt(k) = Posts(log, k)
         /\ Stored(k) <=> Posts(log, k) # {}
         /\ PostSeq(k) = CHOOSE n \in Posts(log, k) : TRUE
         /\ TextOf(k) = log[CHOOSE n \in Posts(log, k) : TRUE].text
BY DEF PostedAt, Posts, Stored, PostSeq, TextOf

LEMMA MemoryIs ==
  ASSUME NEW lg, LogGood(lg)
  PROVE  /\ MemoryOf(lg) \in [Keys -> Texts \cup {Empty}]
         /\ \A k \in Keys : MemoryOf(lg)[k] # Empty <=> Posts(lg, k) # {}
         /\ \A k \in Keys : \A n \in Posts(lg, k) : MemoryOf(lg)[k] = lg[n].text
<1>1. ASSUME NEW k \in Keys, NEW n \in Posts(lg, k)
      PROVE  /\ (CHOOSE m \in Posts(lg, k) : TRUE) = n
             /\ lg[n].text \in Texts /\ lg[n].text # Empty
  <2>1. (CHOOSE m \in Posts(lg, k) : TRUE) \in Posts(lg, k)
    BY <1>1
  <2>2. n \in 1..Len(lg) /\ lg \in Seq(Event)
    BY <1>1 DEF Posts, LogGood
  <2>3. lg[n] \in Event
    BY <2>2
  <2>. QED
    BY <1>1, <2>1, <2>3, EventIs, PostingAssumption DEF LogGood
<1>2. ASSUME NEW k \in Keys
      PROVE  /\ MemoryOf(lg)[k] \in Texts \cup {Empty}
             /\ MemoryOf(lg)[k] # Empty <=> Posts(lg, k) # {}
             /\ \A n \in Posts(lg, k) : MemoryOf(lg)[k] = lg[n].text
  <2>1. MemoryOf(lg)[k] = IF Posts(lg, k) # {} THEN lg[CHOOSE n \in Posts(lg, k) : TRUE].text ELSE Empty
    BY DEF MemoryOf
  <2>2. CASE Posts(lg, k) = {}
    BY <2>1, <2>2
  <2>3. CASE Posts(lg, k) # {}
    <3>1. PICK n \in Posts(lg, k) : TRUE
      BY <2>3
    <3>2. \A m \in Posts(lg, k) : m = n
      BY <3>1 DEF LogGood
    <3>. QED
      BY <1>1, <2>1, <2>3, <3>1, <3>2
  <2>. QED
    BY <2>2, <2>3
<1>3. MemoryOf(lg) \in [Keys -> Texts \cup {Empty}]
  <2>1. MemoryOf(lg) = [k \in Keys |-> MemoryOf(lg)[k]]
    BY DEF MemoryOf
  <2>. QED
    BY <1>2, <2>1
<1>. QED
  BY <1>2, <1>3

LEMMA PostsAppended ==
  ASSUME NEW lg \in Seq(Event), NEW v \in Event, NEW k \in Keys
  PROVE  /\ v.kind = "posted" /\ v.key = k => Posts(Append(lg, v), k) = Posts(lg, k) \cup {Len(lg) + 1}
         /\ ~(v.kind = "posted" /\ v.key = k) => Posts(Append(lg, v), k) = Posts(lg, k)
<1>. DEFINE a == Append(lg, v)
           n == Len(lg) + 1
<1>1. /\ Len(lg) \in Nat /\ Len(a) = n /\ a[n] = v
      /\ \A m \in 1..Len(lg) : a[m] = lg[m]
  OBVIOUS
<1>2. 1..n = 1..Len(lg) \cup {n} /\ n \notin 1..Len(lg)
  BY <1>1
<1>. HIDE DEF a, n
<1>3. Posts(a, k) = {m \in 1..Len(lg) \cup {n} : a[m].kind = "posted" /\ a[m].key = k}
  BY <1>1, <1>2 DEF Posts
<1>4. {m \in 1..Len(lg) : a[m].kind = "posted" /\ a[m].key = k} = Posts(lg, k)
  BY <1>1 DEF Posts
<1>5. CASE v.kind = "posted" /\ v.key = k
  BY <1>1, <1>3, <1>4, <1>5 DEF a, n
<1>6. CASE ~(v.kind = "posted" /\ v.key = k)
  BY <1>1, <1>3, <1>4, <1>6 DEF a
<1>. QED
  BY <1>5, <1>6

(* A message is stored under a key under which none was.                   *)
LEMMA PostGrowsLog ==
  ASSUME NEW lg, LogGood(lg), NEW k \in Keys, NEW t \in Texts, MemoryOf(lg)[k] = Empty
  PROVE  LET v == [kind |-> "posted", key |-> k, text |-> t, topic |-> Here]
         IN  /\ LogGood(Append(lg, v))
             /\ MemoryOf(Append(lg, v)) = [MemoryOf(lg) EXCEPT ![k] = t]
<1>. DEFINE v == [kind |-> "posted", key |-> k, text |-> t, topic |-> Here]
           a == Append(lg, v)
           n == Len(lg) + 1
<1>1. v \in Event /\ lg \in Seq(Event) /\ v.kind = "posted" /\ v.key = k /\ v.text = t
  BY DEF Event, LogGood
<1>. HIDE DEF v
<1>2. /\ Len(lg) \in Nat /\ Len(a) = n /\ a[n] = v /\ a \in Seq(Event)
      /\ \A m \in 1..Len(lg) : a[m] = lg[m]
  BY <1>1
<1>3. Posts(lg, k) = {}
  BY MemoryIs
<1>4. Posts(a, k) = {n}
  BY <1>1, <1>3, PostsAppended
<1>5. \A l \in Keys : l # k => Posts(a, l) = Posts(lg, l)
  BY <1>1, PostsAppended
<1>. HIDE DEF a, n
<1>6. LogGood(a)
  <2>1. \A l \in Keys : \A i, j \in Posts(a, l) : i = j
    BY <1>4, <1>5 DEF LogGood
  <2>2. ASSUME NEW m \in 1..Len(a), a[m].kind = "moved" PROVE \E i \in Posts(a, a[m].key) : i < m
    <3>1. m \in 1..Len(lg)
      BY <1>1, <1>2, <2>2 DEF n
    <3>2. a[m] = lg[m] /\ lg[m] \in Event
      BY <1>1, <1>2, <3>1
    <3>3. PICK i \in Posts(lg, lg[m].key) : i < m
      BY <2>2, <3>1, <3>2 DEF LogGood
    <3>4. lg[m].key # k /\ lg[m].key \in Keys
      BY <1>3, <3>2, <3>3, EventIs
    <3>. QED
      BY <1>5, <3>2, <3>3, <3>4
  <2>. QED
    BY <1>2, <2>1, <2>2 DEF LogGood
<1>7. MemoryOf(a) = [MemoryOf(lg) EXCEPT ![k] = t]
  <2>1. MemoryOf(a) \in [Keys -> Texts \cup {Empty}] /\ MemoryOf(lg) \in [Keys -> Texts \cup {Empty}]
    BY <1>6, MemoryIs
  <2>2. MemoryOf(a)[k] = t
    BY <1>1, <1>2, <1>4, <1>6, MemoryIs
  <2>3. ASSUME NEW l \in Keys, l # k PROVE MemoryOf(a)[l] = MemoryOf(lg)[l]
    <3>1. Posts(a, l) = Posts(lg, l)
      BY <1>5, <2>3
    <3>2. CASE Posts(lg, l) = {}
      BY <1>6, <3>1, <3>2, MemoryIs
    <3>3. CASE Posts(lg, l) # {}
      <4>1. PICK m \in Posts(lg, l) : TRUE
        BY <3>3
      <4>2. a[m] = lg[m]
        BY <1>2, <4>1 DEF Posts
      <4>3. MemoryOf(lg)[l] = lg[m].text
        BY <4>1, MemoryIs
      <4>4. MemoryOf(a)[l] = a[m].text
        BY <1>6, <3>1, <4>1, MemoryIs
      <4>. QED
        BY <4>2, <4>3, <4>4
    <3>. QED
      BY <3>2, <3>3
  <2>. QED
    BY <2>1, <2>2, <2>3
<1>. QED
  BY <1>6, <1>7 DEF a, v

(* A stored message is moved.                                              *)
LEMMA MoveGrowsLog ==
  ASSUME NEW lg, LogGood(lg), NEW v \in Event, v.kind = "moved", Posts(lg, v.key) # {}
  PROVE  /\ LogGood(Append(lg, v))
         /\ MemoryOf(Append(lg, v)) = MemoryOf(lg)
         /\ \A l \in Keys : Posts(Append(lg, v), l) = Posts(lg, l)
<1>. DEFINE a == Append(lg, v)
           n == Len(lg) + 1
<1>1. lg \in Seq(Event) /\ v.key \in Keys
  BY EventIs DEF LogGood
<1>2. /\ Len(lg) \in Nat /\ Len(a) = n /\ a[n] = v /\ a \in Seq(Event)
      /\ \A m \in 1..Len(lg) : a[m] = lg[m]
  BY <1>1
<1>3. \A l \in Keys : Posts(a, l) = Posts(lg, l)
  BY <1>1, PostsAppended
<1>. HIDE DEF a
<1>4. LogGood(a)
  <2>1. \A l \in Keys : \A i, j \in Posts(a, l) : i = j
    BY <1>3 DEF LogGood
  <2>2. ASSUME NEW m \in 1..Len(a), a[m].kind = "moved" PROVE \E i \in Posts(a, a[m].key) : i < m
    <3>1. CASE m = n
      <4>1. PICK i \in Posts(lg, v.key) : TRUE
        OBVIOUS
      <4>2. i \in 1..Len(lg)
        BY <4>1 DEF Posts
      <4>. QED
        BY <1>1, <1>2, <1>3, <3>1, <4>1, <4>2
    <3>2. CASE m # n
      <4>1. m \in 1..Len(lg)
        BY <1>2, <3>2
      <4>2. a[m] = lg[m] /\ lg[m] \in Event
        BY <1>1, <1>2, <4>1
      <4>3. PICK i \in Posts(lg, lg[m].key) : i < m
        BY <2>2, <4>1, <4>2 DEF LogGood
      <4>4. lg[m].key \in Keys
        BY <4>2, EventIs
      <4>. QED
        BY <1>3, <4>2, <4>3, <4>4
    <3>. QED
      BY <3>1, <3>2
  <2>. QED
    BY <1>2, <2>1, <2>2 DEF LogGood
<1>5. MemoryOf(a) = MemoryOf(lg)
  <2>1. MemoryOf(a) \in [Keys -> Texts \cup {Empty}] /\ MemoryOf(lg) \in [Keys -> Texts \cup {Empty}]
    BY <1>4, MemoryIs
  <2>2. ASSUME NEW l \in Keys PROVE MemoryOf(a)[l] = MemoryOf(lg)[l]
    <3>1. Posts(a, l) = Posts(lg, l)
      BY <1>3
    <3>2. CASE Posts(lg, l) = {}
      BY <1>4, <3>1, <3>2, MemoryIs
    <3>3. CASE Posts(lg, l) # {}
      <4>1. PICK m \in Posts(lg, l) : TRUE
        BY <3>3
      <4>2. a[m] = lg[m]
        BY <1>2, <4>1 DEF Posts
      <4>3. MemoryOf(lg)[l] = lg[m].text
        BY <4>1, MemoryIs
      <4>4. MemoryOf(a)[l] = a[m].text
        BY <1>4, <3>1, <4>1, MemoryIs
      <4>. QED
        BY <4>2, <4>3, <4>4
    <3>. QED
      BY <3>2, <3>3
  <2>. QED
    BY <2>1, <2>2
<1>. QED
  BY <1>3, <1>4, <1>5 DEF a

(* The newest of the first n events that is about k.                       *)
LastAt(lg, k, n) == Max({m \in 1..n : lg[m].key = k})

LEMMA LastIs ==
  ASSUME NEW lg \in Seq(Event), NEW k \in Keys, NEW n \in 0..Len(lg), NEW p \in 1..n, lg[p].key = k
  PROVE  /\ LastAt(lg, k, n) \in 1..n /\ lg[LastAt(lg, k, n)].key = k
         /\ lg[LastAt(lg, k, n)].topic \in Topics
         /\ \A m \in 1..n : lg[m].key = k => m <= LastAt(lg, k, n)
<1>. DEFINE S == {m \in 1..n : lg[m].key = k}
<1>1. n \in Nat /\ S \subseteq 0..n /\ S # {}
  OBVIOUS
<1>2. Max(S) \in S /\ \A y \in S : y <= Max(S)
  BY <1>1, Greatest
<1>. HIDE DEF S
<1>3. Max(S) \in 1..n /\ lg[Max(S)].key = k
  BY <1>2 DEF S
<1>4. lg[Max(S)] \in Event
  BY <1>3
<1>5. \A m \in 1..n : lg[m].key = k => m <= Max(S)
  BY <1>2 DEF S
<1>. QED
  BY <1>3, <1>4, <1>5, EventIs DEF LastAt, S

LEMMA TopicIs ==
  ASSUME LogGood(log), NEW k \in Keys, NEW p \in Posts(log, k), NEW n \in 0..Len(log), p <= n
  PROVE  TopicAt(k, n) = log[LastAt(log, k, n)].topic /\ TopicAt(k, n) \in Topics
<1>1. log \in Seq(Event) /\ p \in 1..n /\ log[p].key = k
  BY DEF LogGood, Posts
<1>2. TopicAt(k, n) = log[LastAt(log, k, n)].topic
  BY DEF TopicAt, LastAt
<1>. QED
  BY <1>1, <1>2, LastIs

-----------------------------------------------------------------------------
(* What the page makes of the queue.                                       *)

LEMMA SendingIsFound ==
  ASSUME NEW is \in Seq(Item), Order(is), NEW i \in 1..Len(is), is[i].state = "sending"
  PROVE  SelectInSeq(is, IsSending) = i
<1>. DEFINE I == {j \in 1..Len(is) : is[j].state = "sending"}
<1>1. SelectInSeq(is, IsSending) = IF I # {} THEN Min(I) ELSE 0
  BY DEF SelectInSeq, IsSending
<1>2. I = {i}
  BY SendingIsAlone
<1>3. Min({i}) = i
  BY DEF Min
<1>. QED
  BY <1>1, <1>2, <1>3

(* The i-th item, which failed, is taken out: its keys are nobody's.       *)
LEMMA RemoveKeepsQueue ==
  ASSUME NEW st, NEW is, NEW rs, NEW f, NEW hs, NEW re, NEW nk, NEW i \in 1..Len(is),
         Queue(st, is, rs, f, hs, re, nk), is[i].state = "failed"
  PROVE  /\ Queue(st, RemoveAt(is, i), rs, f, hs, re, nk)
         /\ Len(RemoveAt(is, i)) < Len(is)
         /\ \A k \in KeysOf(is[i]) : k \in Keys /\ k < nk /\ Spare(RemoveAt(is, i), hs, re.key, k)
<1>. DEFINE js == RemoveAt(is, i)
<1>1. is \in Seq(Item) /\ is[i] \in Item /\ Len(is) \in Nat
  BY DEF Queue, Typed
<1>2. PICK e : /\ Fewer(is, js, e) /\ (\A n \in 1..Len(js) : e[n] # i) /\ Keeps(js, e, 1..Len(is) \ {i})
               /\ Len(js) = Len(is) - 1
  BY <1>1, RemoveAtIs
<1>3. Len(js) < Len(is)
  BY <1>1, <1>2
<1>. HIDE DEF js
<1>4. Keeps(js, e, {j \in 1..Len(is) : is[j].state = "sending"})
  BY <1>2 DEF Keeps
<1>5. Queue(st, js, rs, f, hs, re, nk)
  BY <1>2, <1>4, ShrinkKeepsQueue
<1>6. ASSUME NEW k \in KeysOf(is[i]) PROVE k \in Keys /\ k < nk /\ Spare(js, hs, re.key, k)
  <2>1. k \in Keys
    BY <1>1 DEF Item, KeysOf
  <2>2. k < nk
    BY DEF Queue, Numbered, KeysOf
  <2>3. ASSUME NEW n \in 1..Len(js) PROVE k \notin KeysOf(js[n])
    <3>1. js[n] = is[e[n]] /\ e[n] \in 1..Len(is) /\ e[n] # i
      BY <1>2 DEF Fewer
    <3>2. KeysOf(is[e[n]]) \cap KeysOf(is[i]) = {}
      BY <3>1 DEF Queue, Owned
    <3>. QED
      BY <3>1, <3>2
  <2>4. (\A t \in Texts : hs[t] # k) /\ re.key # k
    BY DEF Queue, Owned
  <2>. QED
    BY <2>1, <2>2, <2>3, <2>4 DEF Spare
<1>. QED
  BY <1>3, <1>5, <1>6 DEF js

LEMMA RetryKeepsQueue ==
  ASSUME NEW st, NEW is, NEW rs, NEW f, NEW hs, NEW re, NEW nk, NEW i \in 1..Len(is),
         Queue(st, is, rs, f, hs, re, nk), is[i].state = "failed"
  PROVE  Queue(st, Retried(is, i), rs, f, hs, re, nk)
<1>. DEFINE it == [is[i] EXCEPT !.state = "queued"]
           js == RemoveAt(is, i)
<1>1. is \in Seq(Item) /\ is[i] \in Item /\ Len(is) \in Nat /\ Len(is) <= MaxItems
  BY DEF Queue, Typed
<1>2. CASE is[i].unconfirmed
  BY <1>2, RequeueKeepsQueue DEF Retried
<1>3. CASE ~is[i].unconfirmed
  <2>1. Retried(is, i) = Append(js, it)
    BY <1>3 DEF Retried
  <2>2. /\ Queue(st, js, rs, f, hs, re, nk) /\ Len(js) < Len(is)
        /\ \A k \in KeysOf(is[i]) : k \in Keys /\ k < nk /\ Spare(js, hs, re.key, k)
    BY RemoveKeepsQueue
  <2>. HIDE DEF js
  <2>3. /\ it \in Item /\ it.state = "queued" /\ it.requestKey = is[i].requestKey /\ it.draftKey = is[i].draftKey
        /\ it.posted = is[i].posted /\ it.unconfirmed = is[i].unconfirmed
    BY <1>1 DEF Item, States
  <2>. HIDE DEF it
  <2>4. ItemOK(st, rs, f, is[i])
    BY DEF Queue
  <2>5. ItemOK(st, rs, f, it)
    BY <2>3, <2>4 DEF ItemOK
  <2>6. KeysOf(it) = KeysOf(is[i])
    BY <2>3 DEF KeysOf
  <2>7. js \in Seq(Item)
    BY <2>2 DEF Queue, Typed
  <2>8. Len(js) < MaxItems
    BY <1>1, <2>2, <2>7, KeysAre
  <2>9. \A k \in KeysOf(it) : k < nk /\ Spare(js, hs, re.key, k)
    BY <2>2, <2>6
  <2>. QED
    BY <2>1, <2>2, <2>3, <2>5, <2>8, <2>9, AppendKeepsQueue
<1>. QED
  BY <1>2, <1>3

LEMMA EditKeepsQueue ==
  ASSUME NEW st, NEW is, NEW rs, NEW f, NEW hs, NEW re, NEW nk, NEW i \in 1..Len(is),
         Queue(st, is, rs, f, hs, re, nk), is[i].state = "failed"
  PROVE  Queue(st, RemoveAt(is, i), rs, f, hs,
               [key |-> is[i].requestKey, text |-> Kept, unconfirmed |-> is[i].unconfirmed], nk)
<1>. DEFINE rr == [key |-> is[i].requestKey, text |-> Kept, unconfirmed |-> is[i].unconfirmed]
           k == is[i].requestKey
<1>1. is[i] \in Item /\ ItemOK(st, rs, f, is[i])
  BY DEF Queue, Typed
<1>2. rr \in Restoration /\ rr.key = k /\ rr.unconfirmed = is[i].unconfirmed
  BY <1>1 DEF Item, Restoration
<1>. HIDE DEF rr
<1>3. /\ Queue(st, RemoveAt(is, i), rs, f, hs, re, nk)
      /\ \A l \in KeysOf(is[i]) : l \in Keys /\ l < nk /\ Spare(RemoveAt(is, i), hs, re.key, l)
  BY RemoveKeepsQueue
<1>4. k < nk /\ k \in Keys /\ Spare(RemoveAt(is, i), hs, None, k)
  <2>1. k \in KeysOf(is[i])
    BY DEF KeysOf
  <2>2. k < nk /\ k \in Keys /\ Spare(RemoveAt(is, i), hs, re.key, k)
    BY <1>3, <2>1
  <2>. QED
    BY <2>2, KeysAre DEF Spare
<1>5. RestoredOK(st, rs, rr)
  BY <1>1, <1>2 DEF RestoredOK, ItemOK
<1>6. rr.key < nk /\ Spare(RemoveAt(is, i), hs, None, rr.key)
  BY <1>2, <1>4
<1>7. Queue(st, RemoveAt(is, i), rs, f, hs, rr, nk)
  BY <1>2, <1>3, <1>5, <1>6, RestoreKeepsQueue
<1>. QED
  BY <1>7 DEF rr

LEMMA TakeBackKeepsQueue ==
  ASSUME NEW st, NEW is, NEW rs, NEW f, NEW hs, NEW re, NEW nk, NEW i \in 1..Len(is),
         Queue(st, is, rs, f, hs, re, nk), is[i].state = "failed"
  PROVE  Queue(st, RemoveAt(is, i), rs, f,
               IF is[i].unconfirmed THEN [hs EXCEPT ![is[i].text] = is[i].requestKey] ELSE hs, re, nk)
<1>1. is[i].text \in Texts
  <2>1. is[i] \in Item
    BY DEF Queue, Typed
  <2>. QED
    BY <2>1 DEF Item
<1>2. Queue(st, RemoveAt(is, i), rs, f, hs, re, nk)
  BY RemoveKeepsQueue
<1>3. /\ is[i].requestKey \in Keys /\ is[i].requestKey < nk
      /\ Spare(RemoveAt(is, i), hs, re.key, is[i].requestKey)
  <2>1. is[i].requestKey \in KeysOf(is[i])
    BY DEF KeysOf
  <2>. QED
    BY <2>1, RemoveKeepsQueue
<1>. QED
  BY <1>1, <1>2, <1>3, HoldKeepsQueue

LEMMA AdmitKeepsQueue ==
  ASSUME NEW st, NEW is, NEW rs, NEW f, NEW hs, NEW re, NEW nk, NEW t \in Texts, NEW key \in Keys, NEW doubt,
         Queue(st, is, rs, f, hs, re, nk), Len(is) < MaxItems,
         key = IF re # NotRestored THEN re.key ELSE IF hs[t] # None THEN hs[t] ELSE nk,
         doubt = (hs[t] = key \/ (re # NotRestored /\ re.unconfirmed))
  PROVE  Queue(st, Append(is, NewItem(key, t, doubt)), rs, f, [hs EXCEPT ![t] = None], NotRestored,
               IF key = nk THEN nk + 1 ELSE nk)
<1>. DEFINE hh == [hs EXCEPT ![t] = None]
           nn == IF key = nk THEN nk + 1 ELSE nk
           it == NewItem(key, t, doubt)
<1>1. hs \in [Texts -> KeyOrNone] /\ re \in Restoration \cup {NotRestored}
      /\ nk \in Nat /\ nk \in 1..(Cardinality(Keys) + 1)
  BY KeysAre DEF Queue, Typed
<1>2. hh \in [Texts -> KeyOrNone] /\ hh[t] = None /\ \A u \in Texts : u # t => hh[u] = hs[u]
  BY <1>1 DEF KeyOrNone
<1>3. \A u \in Texts : hh[u] \in {None, hs[u]}
  BY <1>2
<1>4. nn \in nk..(Cardinality(Keys) + 1)
  <2>1. key \in 1..Cardinality(Keys) /\ Cardinality(Keys) \in Nat
    BY KeysAre
  <2>. QED
    BY <1>1, <2>1
<1>5. key < nn
  <2>1. CASE key = nk
    BY <1>1, <2>1
  <2>2. CASE key # nk
    BY <2>2 DEF Queue, Numbered
  <2>. QED
    BY <2>1, <2>2
<1>6. doubt \in BOOLEAN /\ it \in Item /\ it.state = "queued" /\ it.requestKey = key /\ it.draftKey = key
      /\ it.posted = FALSE /\ it.unconfirmed = doubt
  <2>1. doubt \in BOOLEAN
    BY <1>1, RestorationIs
  <2>. QED
    BY <2>1 DEF NewItem, Item, States
<1>. HIDE DEF hh, nn, it
<1>7. Queue(st, is, rs, f, hh, re, nk)
  BY <1>2, <1>3, DropKeepsQueue
<1>8. Queue(st, is, rs, f, hh, NotRestored, nk)
  BY <1>7, ForgetKeepsQueue
<1>9. Queue(st, is, rs, f, hh, NotRestored, nn)
  BY <1>4, <1>8, NextKeyKeepsQueue
<1>10. ~doubt => Clean(st, rs, key)
  <2>1. CASE re # NotRestored
    BY <2>1 DEF Queue, RestoredOK
  <2>2. CASE re = NotRestored /\ hs[t] # None
    BY <2>2
  <2>3. CASE re = NotRestored /\ hs[t] = None
    BY <1>1, <2>3 DEF Queue, Numbered
  <2>. QED
    BY <2>1, <2>2, <2>3
<1>11. ItemOK(st, rs, f, it)
  BY <1>6, <1>10 DEF ItemOK
<1>12. Spare(is, hh, None, key)
  <2>1. Owned(is, hs, re.key) /\ None \notin Keys
    BY KeysAre DEF Queue
  <2>2. CASE re # NotRestored
    <3>1. re.key # None /\ key = re.key
      BY <1>1, <2>2, RestorationIs
    <3>2. \A i \in 1..Len(is) : key \notin KeysOf(is[i])
      BY <2>1, <3>1 DEF Owned
    <3>3. \A u \in Texts : hh[u] # key
      BY <1>2, <2>1, <3>1 DEF Owned
    <3>. QED
      BY <2>1, <3>2, <3>3 DEF Spare
  <2>3. CASE re = NotRestored /\ hs[t] # None
    <3>1. key = hs[t]
      BY <2>3
    <3>2. \A i \in 1..Len(is) : key \notin KeysOf(is[i])
      BY <2>1, <3>1 DEF Owned
    <3>3. ASSUME NEW u \in Texts PROVE hh[u] # key
      <4>1. CASE u = t
        BY <1>2, <2>1, <4>1
      <4>2. CASE u # t
        <5>1. hh[u] = hs[u] /\ hs[u] # hs[t]
          BY <1>2, <2>1, <2>3, <4>2 DEF Owned
        <5>. QED
          BY <3>1, <5>1
      <4>. QED
        BY <4>1, <4>2
    <3>. QED
      BY <2>1, <3>2, <3>3 DEF Spare
  <2>4. CASE re = NotRestored /\ hs[t] = None
    <3>1. key = nk
      BY <2>4
    <3>2. ASSUME NEW i \in 1..Len(is) PROVE key \notin KeysOf(is[i])
      <4>1. is[i].requestKey < nk /\ is[i].draftKey < nk
        BY DEF Queue, Numbered
      <4>. QED
        BY <1>1, <3>1, <4>1 DEF KeysOf
    <3>3. ASSUME NEW u \in Texts PROVE hh[u] # key
      <4>1. hs[u] < nk
        BY DEF Queue, Numbered
      <4>2. hs[u] # key
        BY <1>1, <3>1, <4>1
      <4>. QED
        BY <1>3, <2>1, <4>2
    <3>. QED
      BY <2>1, <3>2, <3>3 DEF Spare
  <2>. QED
    BY <2>2, <2>3, <2>4
<1>13. \A k \in KeysOf(it) : k < nn /\ Spare(is, hh, NotRestored.key, k)
  BY <1>5, <1>6, <1>12 DEF KeysOf, NotRestored
<1>14. Queue(st, Append(is, it), rs, f, hh, NotRestored, nn)
  BY <1>6, <1>9, <1>11, <1>13, AppendKeepsQueue
<1>. QED
  BY <1>14 DEF hh, nn, it

LEMMA DeliveredKeepsQueue ==
  ASSUME NEW st, NEW is, NEW rs, NEW f, NEW hs, NEW re, NEW nk, NEW ids,
         Queue(st, is, rs, f, hs, re, nk)
  PROVE  Queue(st, Delivered(is, ids), rs, f, hs, re, nk)
<1>. DEFINE js == Delivered(is, ids)
<1>1. is \in Seq(Item)
  BY DEF Queue, Typed
<1>2. PICK e : LeftOf(is, ids, Len(is), js, e)
  BY <1>1, DeliveredIs
<1>3. Fewer(is, js, e)
  BY <1>1, <1>2, LeftIsFewer
<1>. HIDE DEF js
<1>4. \A i \in 1..Len(is) : is[i].state = "sending" => ~is[i].posted
  BY DEF Queue, ItemOK
<1>5. Keeps(js, e, {i \in 1..Len(is) : is[i].state = "sending"})
  BY <1>2, <1>4 DEF Keeps, LeftOf
<1>6. Queue(st, js, rs, f, hs, re, nk)
  BY <1>3, <1>5, ShrinkKeepsQueue
<1>. QED
  BY <1>6 DEF js

(* The requests once the awaited one is over.                              *)
LEMMA AnsweredIsQuieter ==
  ASSUME NEW st, NEW rs \in Requests, NEW r \in 1..MaxRequests, Heard(st, rs, r)
  PROVE  Quieter(rs, [rs EXCEPT ![r] = Idle])
<1>1. /\ [rs EXCEPT ![r] = Idle] \in Requests /\ [rs EXCEPT ![r] = Idle][r] = Idle
      /\ \A m \in 1..MaxRequests : m # r => [rs EXCEPT ![r] = Idle][m] = rs[m]
  BY DEF Requests
<1>. QED
  BY <1>1, IdleIs DEF Quieter, Heard, Requests

LEMMA UnheardIsQuieter ==
  ASSUME reqs \in Requests
  PROVE  Quieter(reqs, Unheard)
<1>1. /\ Unheard \in Requests
      /\ \A m \in 1..MaxRequests : Unheard[m] = IF reqs[m].at = "answer" THEN Idle ELSE reqs[m]
  BY DEF Unheard, Requests
<1>. QED
  BY <1>1, IdleIs DEF Quieter, Requests, Under

(* The send was answered: its message is stored.                           *)
LEMMA ConfirmKeepsQueue ==
  ASSUME NEW st, NEW is, NEW rs, NEW f, NEW hs, NEW re, NEW nk, NEW i \in 1..Len(is), NEW ss,
         Queue(st, is, rs, f, hs, re, nk), is[i].state = "sending", Quieter(rs, ss),
         rs[f].at = "answer", rs[f].status = "ok"
  PROVE  Queue(st, [is EXCEPT ![i] = Settled(is[i], "ok", None)], ss, 0, hs, re, nk)
<1>. DEFINE it == Settled(is[i], "ok", None)
<1>1. is[i] \in Item /\ nk \in 1..(Cardinality(Keys) + 1) /\ Cardinality(Keys) \in Nat
  BY KeysAre DEF Queue, Typed
<1>2. /\ it \in Item /\ it.state = "confirmed" /\ it.posted = TRUE /\ it.text = is[i].text
      /\ it.requestKey = is[i].requestKey /\ it.draftKey = is[i].draftKey
  BY <1>1 DEF Settled, Item, States
<1>. HIDE DEF it
<1>3. Tells(st, rs, rs[f], is[i])
  BY DEF Queue, ItemOK
<1>4. ItemOK(st, ss, 0, it)
  BY <1>2, <1>3 DEF ItemOK, Tells
<1>5. nk \in nk..(Cardinality(Keys) + 1)
  BY <1>1
<1>6. KeysOf(it) \subseteq KeysOf(is[i]) \cup {k \in Keys : nk <= k /\ k < nk}
  BY <1>2 DEF KeysOf
<1>7. it.state \in {"failed", "confirmed"}
  BY <1>2
<1>8. Queue(st, [is EXCEPT ![i] = it], ss, 0, hs, re, nk)
  BY <1>2, <1>4, <1>5, <1>6, <1>7, SettleKeepsQueue
<1>. QED
  BY <1>8 DEF it

(* The key is another message's: the item gets a new one.                  *)
LEMMA ConflictKeepsQueue ==
  ASSUME NEW st, NEW is, NEW rs, NEW f, NEW hs, NEW re, NEW nk, NEW i \in 1..Len(is), NEW ss,
         Queue(st, is, rs, f, hs, re, nk), is[i].state = "sending", Quieter(rs, ss), nk \in Keys
  PROVE  Queue(st, [is EXCEPT ![i] = Settled(is[i], "conflict", nk)], ss, 0, hs, re, nk + 1)
<1>. DEFINE it == Settled(is[i], "conflict", nk)
<1>1. is[i] \in Item /\ nk \in 1..Cardinality(Keys) /\ Cardinality(Keys) \in Nat
  BY KeysAre DEF Queue, Typed
<1>2. /\ it \in Item /\ it.state = "failed" /\ it.posted = is[i].posted /\ ~it.unconfirmed
      /\ it.requestKey = nk /\ it.draftKey = is[i].draftKey
  BY <1>1 DEF Settled, Item, States
<1>. HIDE DEF it
<1>3. ~is[i].posted
  BY DEF Queue, ItemOK
<1>4. Clean(st, ss, nk)
  <2>1. Clean(st, rs, nk)
    BY <1>1 DEF Queue, Numbered
  <2>. QED
    BY <2>1, QuieterIsClean
<1>5. ItemOK(st, ss, 0, it)
  BY <1>2, <1>3, <1>4 DEF ItemOK
<1>6. nk + 1 \in nk..(Cardinality(Keys) + 1)
  BY <1>1
<1>7. KeysOf(it) \subseteq KeysOf(is[i]) \cup {k \in Keys : nk <= k /\ k < nk + 1}
  <2>1. nk <= nk /\ nk < nk + 1
    BY <1>1
  <2>. QED
    BY <1>2, <2>1 DEF KeysOf
<1>8. it.state \in {"failed", "confirmed"}
  BY <1>2
<1>9. Queue(st, [is EXCEPT ![i] = it], ss, 0, hs, re, nk + 1)
  BY <1>2, <1>5, <1>6, <1>7, <1>8, SettleKeepsQueue
<1>. QED
  BY <1>9 DEF it

(* The send was refused, or failed with its outcome unknown.               *)
LEMMA FailKeepsQueue ==
  ASSUME NEW st, NEW is, NEW rs, NEW f, NEW hs, NEW re, NEW nk, NEW i \in 1..Len(is), NEW ss,
         NEW status \in {"refused", "failed"},
         Queue(st, is, rs, f, hs, re, nk), is[i].state = "sending", Quieter(rs, ss),
         status = "refused" => rs[f].at = "answer" /\ rs[f].status = "refused"
  PROVE  Queue(st, [is EXCEPT ![i] = Settled(is[i], status, None)], ss, 0, hs, re, nk)
<1>. DEFINE it == Settled(is[i], status, None)
<1>1. is[i] \in Item /\ nk \in 1..(Cardinality(Keys) + 1) /\ Cardinality(Keys) \in Nat
  BY KeysAre DEF Queue, Typed
<1>2. /\ it \in Item /\ it.state = "failed" /\ it.posted = is[i].posted
      /\ it.requestKey = is[i].requestKey /\ it.draftKey = is[i].draftKey
      /\ ~it.unconfirmed => status = "refused" /\ ~is[i].unconfirmed
  <2>1. CASE status = "refused"
    BY <1>1, <2>1 DEF Settled, Item, States
  <2>2. CASE status = "failed"
    BY <1>1, <2>2 DEF Settled, Item, States
  <2>. QED
    BY <2>1, <2>2
<1>. HIDE DEF it
<1>3. ~is[i].posted
  BY DEF Queue, ItemOK
<1>4. ~it.unconfirmed => Clean(st, ss, is[i].requestKey)
  <2>. SUFFICES ASSUME ~it.unconfirmed PROVE Clean(st, ss, is[i].requestKey)
    OBVIOUS
  <2>1. Tells(st, rs, rs[f], is[i])
    BY <1>2 DEF Queue, ItemOK
  <2>2. Clean(st, rs, is[i].requestKey)
    BY <1>2, <2>1 DEF Tells
  <2>. QED
    BY <2>2, QuieterIsClean
<1>5. ItemOK(st, ss, 0, it)
  BY <1>2, <1>3, <1>4 DEF ItemOK
<1>6. nk \in nk..(Cardinality(Keys) + 1)
  BY <1>1
<1>7. KeysOf(it) \subseteq KeysOf(is[i]) \cup {k \in Keys : nk <= k /\ k < nk}
  BY <1>2 DEF KeysOf
<1>8. it.state \in {"failed", "confirmed"}
  BY <1>2
<1>9. Queue(st, [is EXCEPT ![i] = it], ss, 0, hs, re, nk)
  BY <1>2, <1>5, <1>6, <1>7, <1>8, SettleKeepsQueue
<1>. QED
  BY <1>9 DEF it

(* A confirmed item is taken out with its confirmation.                    *)
LEMMA RoutedKeepsQueue ==
  ASSUME NEW st, NEW is, NEW ss, NEW f, NEW hs, NEW re, NEW nk, NEW i \in 1..Len(is), NEW it,
         is \in Seq(Item), it \in Item, it.state # "sending",
         Queue(st, [is EXCEPT ![i] = it], ss, f, hs, re, nk)
  PROVE  Queue(st, RemoveAt(is, i), ss, f, hs, re, nk)
<1>. DEFINE js == RemoveAt(is, i)
           ks == [is EXCEPT ![i] = it]
<1>1. PICK e : /\ Fewer(is, js, e) /\ (\A n \in 1..Len(js) : e[n] # i) /\ Keeps(js, e, 1..Len(is) \ {i})
               /\ Len(js) = Len(is) - 1
  BY RemoveAtIs
<1>. HIDE DEF js
<1>2. Len(ks) = Len(is) /\ ks[i] = it /\ \A j \in 1..Len(is) : j # i => ks[j] = is[j]
  OBVIOUS
<1>. HIDE DEF ks
<1>3. Fewer(ks, js, e)
  <2>1. \A n \in 1..Len(js) : js[n] = ks[e[n]]
    BY <1>1, <1>2 DEF Fewer
  <2>. QED
    BY <1>1, <1>2, <2>1 DEF Fewer
<1>4. Keeps(js, e, {j \in 1..Len(ks) : ks[j].state = "sending"})
  BY <1>1, <1>2 DEF Keeps
<1>5. Queue(st, js, ss, f, hs, re, nk)
  BY <1>3, <1>4, ShrinkKeepsQueue DEF ks
<1>. QED
  BY <1>5 DEF js

(* The page is loaded again.                                               *)
LEMMA ReloadKeepsQueue ==
  ASSUME NEW st, NEW is, NEW rs, NEW f, NEW hs, NEW re, NEW nk, NEW ss, NEW rr \in Restoration \cup {NotRestored},
         Queue(st, is, rs, f, hs, re, nk), Quieter(rs, ss),
         rr.key < nk, rr # NotRestored => rr.unconfirmed
  PROVE  Queue(st, <<>>, ss, 0, [t \in Texts |-> None], rr, nk)
<1>. DEFINE hh == [t \in Texts |-> None]
<1>1. nk \in Nat \ {0} /\ 0 \in 0..MaxRequests /\ 0 <= MaxItems
  BY KeysAre DEF Queue, Typed
<1>2. \A t \in Texts : hh[t] = None
  OBVIOUS
<1>3. hh \in [Texts -> KeyOrNone]
  BY DEF KeyOrNone
<1>. HIDE DEF hh
<1>4. Typed(st, <<>>, ss, 0, hh, rr, nk)
  BY <1>1, <1>3 DEF Queue, Typed, Quieter
<1>5. Order(<<>>) /\ Sending(<<>>, 0)
  BY DEF Order, Sending
<1>6. \A i \in 1..Len(<<>>) : ItemOK(st, ss, 0, <<>>[i])
  OBVIOUS
<1>7. Owned(<<>>, hh, rr.key)
  BY <1>2 DEF Owned
<1>8. Numbered(st, <<>>, ss, hh, rr.key, nk)
  <2>1. \A k \in Keys : k >= nk => Clean(st, ss, k)
    BY QuieterIsClean DEF Queue, Numbered
  <2>. QED
    BY <1>1, <1>2, <2>1 DEF Numbered, None
<1>9. Heard(st, ss, 0)
  BY DEF Queue, Heard, Quieter, Under
<1>10. RestoredOK(st, ss, rr)
  BY DEF RestoredOK
<1>. QED
  BY <1>4, <1>5, <1>6, <1>7, <1>8, <1>9, <1>10 DEF Queue, hh

-----------------------------------------------------------------------------
(* The actions.                                                            *)

QueueInv ==
  /\ LogGood(log)
  /\ Queue(MemoryOf(log), items, reqs, flight, holds, restored, nextKey)

ComposerInv ==
  /\ composer \in Texts \cup {Empty} /\ draft \in Draft
  /\ source \in KeyOrNone /\ dirty \in BOOLEAN /\ typed \in BOOLEAN
  /\ draft.key < nextKey

LEMMA TypeKeepsQueue ==
  ASSUME QueueInv, NEW t \in Texts \cup {Empty}, Type(t)
  PROVE  QueueInv'
<1>1. /\ items' = items /\ reqs' = reqs /\ flight' = flight /\ holds' = holds /\ nextKey' = nextKey /\ log' = log
      /\ restored' = restored \/ restored' = NotRestored
  BY DEF Type, serverVars
<1>2. Queue(MemoryOf(log), items, reqs, flight, holds, restored', nextKey)
  BY <1>1, ForgetKeepsQueue DEF QueueInv
<1>. QED
  BY <1>1, <1>2 DEF QueueInv

LEMMA AdmitKeepsInv ==
  ASSUME QueueInv, ComposerInv, Admit
  PROVE  QueueInv'
<1>. DEFINE t == composer
           key == KeyFor(t)
           doubt == holds[t] = key \/ (restored # NotRestored /\ restored.unconfirmed)
           nn == IF key = nextKey THEN nextKey + 1 ELSE nextKey
           is == Append(items, NewItem(key, t, doubt))
           hh == [holds EXCEPT ![t] = None]
           st == MemoryOf(log)
<1>1. /\ t # Empty /\ Len(items) < MaxItems /\ key \in Keys
      /\ Proceed(is, reqs, flight)
      /\ nextKey' = nn /\ holds' = hh /\ restored' = NotRestored /\ log' = log
  BY DEF Admit
<1>2. t \in Texts
  BY <1>1 DEF ComposerInv
<1>3. key = IF restored # NotRestored THEN restored.key ELSE IF holds[t] # None THEN holds[t] ELSE nextKey
  BY DEF KeyFor
<1>4. doubt = (holds[t] = key \/ (restored # NotRestored /\ restored.unconfirmed))
  OBVIOUS
<1>. HIDE DEF t, key, doubt
<1>5. Queue(st, is, reqs, flight, hh, NotRestored, nn)
  BY <1>1, <1>2, <1>3, <1>4, AdmitKeepsQueue DEF QueueInv
<1>. HIDE DEF nn, is, hh, st
<1>6. Queue(st, items', reqs', flight', hh, NotRestored, nn)
  BY <1>1, <1>5, ProceedKeepsQueue
<1>. QED
  BY <1>1, <1>6 DEF QueueInv, st

LEMMA RetryKeepsInv ==
  ASSUME QueueInv, NEW i \in 1..Len(items), Retry(i)
  PROVE  QueueInv'
<1>1. /\ items[i].state = "failed" /\ Proceed(Retried(items, i), reqs, flight)
      /\ log' = log /\ holds' = holds /\ restored' = restored /\ nextKey' = nextKey
  BY DEF Retry
<1>2. Queue(MemoryOf(log), Retried(items, i), reqs, flight, holds, restored, nextKey)
  BY <1>1, RetryKeepsQueue DEF QueueInv
<1>3. Queue(MemoryOf(log), items', reqs', flight', holds, restored, nextKey)
  BY <1>1, <1>2, ProceedKeepsQueue
<1>. QED
  BY <1>1, <1>3 DEF QueueInv

LEMMA EditKeepsInv ==
  ASSUME QueueInv, NEW i \in 1..Len(items), Edit(i)
  PROVE  QueueInv'
<1>. DEFINE rr == [key |-> items[i].requestKey, text |-> Kept, unconfirmed |-> items[i].unconfirmed]
<1>1. /\ items[i].state = "failed" /\ Proceed(RemoveAt(items, i), reqs, flight)
      /\ restored' = rr
      /\ log' = log /\ holds' = holds /\ nextKey' = nextKey
  BY DEF Edit
<1>2. Queue(MemoryOf(log), RemoveAt(items, i), reqs, flight, holds, rr, nextKey)
  BY <1>1, EditKeepsQueue DEF QueueInv
<1>. HIDE DEF rr
<1>3. Queue(MemoryOf(log), items', reqs', flight', holds, rr, nextKey)
  BY <1>1, <1>2, ProceedKeepsQueue
<1>. QED
  BY <1>1, <1>3 DEF QueueInv

LEMMA TakeBackKeepsInv ==
  ASSUME QueueInv, NEW i \in 1..Len(items), TakeBack(i)
  PROVE  QueueInv'
<1>. DEFINE hh == IF items[i].unconfirmed THEN [holds EXCEPT ![items[i].text] = items[i].requestKey] ELSE holds
<1>1. /\ items[i].state = "failed" /\ Proceed(RemoveAt(items, i), reqs, flight)
      /\ holds' = hh
      /\ log' = log /\ restored' = restored /\ nextKey' = nextKey
  BY DEF TakeBack
<1>2. Queue(MemoryOf(log), RemoveAt(items, i), reqs, flight, hh, restored, nextKey)
  BY <1>1, TakeBackKeepsQueue DEF QueueInv
<1>. HIDE DEF hh
<1>3. Queue(MemoryOf(log), items', reqs', flight', hh, restored, nextKey)
  BY <1>1, <1>2, ProceedKeepsQueue
<1>. QED
  BY <1>1, <1>3 DEF QueueInv

LEMMA HoldExpiresKeepsInv ==
  ASSUME QueueInv, NEW t \in Texts, HoldExpires(t)
  PROVE  QueueInv'
<1>. DEFINE hh == [holds EXCEPT ![t] = None]
<1>1. /\ holds' = hh /\ log' = log /\ reqs' = reqs /\ flight' = flight
      /\ items' = items /\ restored' = restored /\ nextKey' = nextKey
  BY DEF HoldExpires, serverVars
<1>2. holds \in [Texts -> KeyOrNone]
  BY DEF QueueInv, Queue, Typed
<1>3. hh \in [Texts -> KeyOrNone] /\ \A u \in Texts : hh[u] \in {None, holds[u]}
  BY <1>2 DEF KeyOrNone
<1>. HIDE DEF hh
<1>4. Queue(MemoryOf(log), items, reqs, flight, hh, restored, nextKey)
  BY <1>3, DropKeepsQueue DEF QueueInv
<1>. QED
  BY <1>1, <1>4 DEF QueueInv

LEMMA ReloadKeepsInv ==
  ASSUME QueueInv, ComposerInv, Reload
  PROVE  QueueInv'
<1>1. PICK saved \in {draft} \cup (IF dirty THEN {[text |-> composer, key |-> None]} ELSE {}) :
        LET key == IF saved.text = Empty THEN None ELSE saved.key
        IN  /\ draft' = saved
            /\ restored' = IF key = None THEN NotRestored
                           ELSE [key |-> key, text |-> saved.text, unconfirmed |-> TRUE]
  BY DEF Reload
<1>2. /\ items' = <<>> /\ holds' = [t \in Texts |-> None] /\ flight' = 0 /\ reqs' = Unheard
      /\ log' = log /\ nextKey' = nextKey
  BY DEF Reload
<1>. DEFINE key == IF saved.text = Empty THEN None ELSE saved.key
<1>3. nextKey \in Nat \ {0} /\ nextKey > None
  <2>1. nextKey \in Nat \ {0}
    BY KeysAre DEF QueueInv, Queue, Typed
  <2>. QED
    BY <2>1 DEF None
<1>4. saved.text \in Texts \cup {Empty} /\ key \in KeyOrNone /\ key < nextKey /\ (key # None => saved.text \in Texts)
  <2>1. draft.text \in Texts \cup {Empty} /\ draft.key \in KeyOrNone /\ draft.key < nextKey /\ None \in KeyOrNone
    BY DEF ComposerInv, Draft, KeyOrNone
  <2>2. saved.text \in Texts \cup {Empty} /\ saved.key \in KeyOrNone /\ saved.key < nextKey
    BY <1>1, <1>3, <2>1 DEF ComposerInv
  <2>. QED
    BY <1>3, <2>1, <2>2
<1>5. restored' = IF key = None THEN NotRestored ELSE [key |-> key, text |-> saved.text, unconfirmed |-> TRUE]
  BY <1>1
<1>. HIDE DEF key
<1>6. PICK rr : rr = restored'
  OBVIOUS
<1>7. /\ rr \in Restoration \cup {NotRestored} /\ rr.key < nextKey
      /\ rr # NotRestored => rr.unconfirmed
  <2>1. CASE key = None
    BY <1>3, <1>5, <1>6, <2>1 DEF NotRestored
  <2>2. CASE key # None
    <3>1. key \in Keys
      BY <1>4, <2>2 DEF KeyOrNone
    <3>2. rr = [key |-> key, text |-> saved.text, unconfirmed |-> TRUE]
      BY <1>5, <1>6, <2>2
    <3>3. rr \in Restoration /\ rr.key = key /\ rr.unconfirmed
      BY <1>4, <2>2, <3>1, <3>2 DEF Restoration
    <3>. QED
      BY <1>4, <3>3
  <2>. QED
    BY <2>1, <2>2
<1>8. Quieter(reqs, Unheard)
  BY UnheardIsQuieter DEF QueueInv, Queue, Typed, Requests
<1>9. Queue(MemoryOf(log), items, reqs, flight, holds, restored, nextKey)
  BY DEF QueueInv
<1>10. Queue(MemoryOf(log), <<>>, Unheard, 0, [t \in Texts |-> None], rr, nextKey)
  BY <1>7, <1>8, <1>9, ReloadKeepsQueue
<1>. QED
  BY <1>2, <1>6, <1>10 DEF QueueInv

LEMMA SendingAtIs ==
  ASSUME QueueInv, flight # 0
  PROVE  /\ SendingAt \in 1..Len(items) /\ items[SendingAt].state = "sending"
         /\ \A j \in 1..Len(items) : j # SendingAt => items[j].state # "sending"
<1>1. PICK i \in 1..Len(items) : items[i].state = "sending"
  BY DEF QueueInv, Queue, Sending
<1>2. items \in Seq(Item) /\ Order(items)
  BY DEF QueueInv, Queue, Typed
<1>3. SendingAt = i
  BY <1>1, <1>2, SendingIsFound DEF SendingAt
<1>. QED
  BY <1>1, <1>2, <1>3, SendingIsAlone

LEMMA AwaitedIs ==
  ASSUME QueueInv, NEW r \in 1..MaxRequests, flight = r
  PROVE  flight # 0 /\ Quieter(reqs, [reqs EXCEPT ![r] = Idle])
<1>1. flight # 0
  BY KeysAre
<1>2. reqs \in Requests /\ Heard(MemoryOf(log), reqs, r)
  BY DEF QueueInv, Queue, Typed, Requests
<1>. QED
  BY <1>1, <1>2, AnsweredIsQuieter

LEMMA AnswerOkKeepsInv ==
  ASSUME QueueInv, NEW r \in 1..MaxRequests, AnswerOk(r)
  PROVE  QueueInv'
<1>. DEFINE i == SendingAt
           item == items[i]
           it == Settled(item, "ok", None)
           settled == [items EXCEPT ![i] = it]
           hh == [t \in Texts |-> IF holds[t] = item.draftKey THEN None ELSE holds[t]]
           ss == [reqs EXCEPT ![r] = Idle]
           is == IF Routed(item.requestKey, reqs[r].topic) THEN RemoveAt(items, i) ELSE Delivered(settled, list)
           st == MemoryOf(log)
<1>1. /\ flight = r /\ reqs[r].at = "answer" /\ reqs[r].status = "ok"
      /\ Proceed(is, ss, 0)
      /\ holds' = hh
      /\ restored' = restored \/ restored' = NotRestored
      /\ log' = log /\ nextKey' = nextKey
  BY DEF AnswerOk
<1>2. flight # 0 /\ Quieter(reqs, ss)
  BY <1>1, AwaitedIs
<1>3. i \in 1..Len(items) /\ item.state = "sending"
  BY <1>2, SendingAtIs
<1>4. items \in Seq(Item) /\ item \in Item /\ holds \in [Texts -> KeyOrNone]
  BY <1>3 DEF QueueInv, Queue, Typed
<1>5. it \in Item /\ it.state # "sending"
  BY <1>4 DEF Settled, Item, States
<1>6. hh \in [Texts -> KeyOrNone] /\ \A t \in Texts : hh[t] \in {None, holds[t]}
  BY <1>4 DEF KeyOrNone
<1>. HIDE DEF hh, ss
<1>7. Queue(st, settled, ss, 0, holds, restored, nextKey)
  BY <1>1, <1>2, <1>3, ConfirmKeepsQueue DEF QueueInv
<1>. HIDE DEF st, it
<1>8. Queue(st, RemoveAt(items, i), ss, 0, holds, restored, nextKey)
  BY <1>3, <1>4, <1>5, <1>7, RoutedKeepsQueue
<1>. HIDE DEF settled, i
<1>9. Queue(st, Delivered(settled, list), ss, 0, holds, restored, nextKey)
  BY <1>7, DeliveredKeepsQueue
<1>10. Queue(st, is, ss, 0, holds, restored, nextKey)
  BY <1>8, <1>9
<1>. HIDE DEF is
<1>11. Queue(st, is, ss, 0, hh, restored, nextKey)
  BY <1>6, <1>10, DropKeepsQueue
<1>12. Queue(st, is, ss, 0, hh, restored', nextKey)
  BY <1>1, <1>11, ForgetKeepsQueue
<1>13. Queue(st, items', reqs', flight', hh, restored', nextKey)
  <2>1. PICK rr : rr = restored'
    OBVIOUS
  <2>2. Queue(st, is, ss, 0, hh, rr, nextKey)
    BY <1>12, <2>1
  <2>3. Queue(st, items', reqs', flight', hh, rr, nextKey)
    BY <1>1, <2>2, ProceedKeepsQueue
  <2>. QED
    BY <2>1, <2>3
<1>. QED
  BY <1>1, <1>13 DEF QueueInv, st

LEMMA AnswerConflictKeepsInv ==
  ASSUME QueueInv, NEW r \in 1..MaxRequests, AnswerConflict(r)
  PROVE  QueueInv'
<1>. DEFINE i == SendingAt
           is == [items EXCEPT ![i] = Settled(items[i], "conflict", nextKey)]
           ss == [reqs EXCEPT ![r] = Idle]
           st == MemoryOf(log)
<1>1. /\ flight = r /\ nextKey \in Keys /\ nextKey' = nextKey + 1
      /\ Proceed(is, ss, 0)
      /\ log' = log /\ holds' = holds /\ restored' = restored
  BY DEF AnswerConflict
<1>2. flight # 0 /\ Quieter(reqs, ss)
  BY <1>1, AwaitedIs
<1>3. i \in 1..Len(items) /\ items[i].state = "sending"
  BY <1>2, SendingAtIs
<1>. HIDE DEF ss
<1>4. Queue(st, is, ss, 0, holds, restored, nextKey + 1)
  BY <1>1, <1>2, <1>3, ConflictKeepsQueue DEF QueueInv
<1>. HIDE DEF st, is
<1>5. Queue(st, items', reqs', flight', holds, restored, nextKey + 1)
  BY <1>1, <1>4, ProceedKeepsQueue
<1>. QED
  BY <1>1, <1>5 DEF QueueInv, st

LEMMA AnswerErrorKeepsInv ==
  ASSUME QueueInv, NEW r \in 1..MaxRequests, AnswerError(r)
  PROVE  QueueInv'
<1>. DEFINE i == SendingAt
           status == reqs[r].status
           is == [items EXCEPT ![i] = Settled(items[i], status, None)]
           ss == [reqs EXCEPT ![r] = Idle]
           st == MemoryOf(log)
<1>1. /\ flight = r /\ reqs[r].at = "answer" /\ status \in {"refused", "failed"}
      /\ Proceed(is, ss, 0)
      /\ log' = log /\ holds' = holds /\ restored' = restored /\ nextKey' = nextKey
  BY DEF AnswerError
<1>2. flight # 0 /\ Quieter(reqs, ss)
  BY <1>1, AwaitedIs
<1>3. i \in 1..Len(items) /\ items[i].state = "sending"
  BY <1>2, SendingAtIs
<1>4. status = "refused" => reqs[flight].at = "answer" /\ reqs[flight].status = "refused"
  BY <1>1
<1>. HIDE DEF ss, status
<1>5. Queue(st, is, ss, 0, holds, restored, nextKey)
  BY <1>1, <1>2, <1>3, <1>4, FailKeepsQueue DEF QueueInv
<1>. HIDE DEF st, is
<1>6. Queue(st, items', reqs', flight', holds, restored, nextKey)
  BY <1>1, <1>5, ProceedKeepsQueue
<1>. QED
  BY <1>1, <1>6 DEF QueueInv, st

LEMMA LoseAnswerKeepsInv ==
  ASSUME QueueInv, LoseAnswer
  PROVE  QueueInv'
<1>. DEFINE i == SendingAt
           is == [items EXCEPT ![i] = Settled(items[i], "failed", None)]
           st == MemoryOf(log)
<1>1. /\ flight # 0 /\ Proceed(is, Unheard, 0)
      /\ log' = log /\ holds' = holds /\ restored' = restored /\ nextKey' = nextKey
  BY DEF LoseAnswer
<1>2. Quieter(reqs, Unheard)
  BY UnheardIsQuieter DEF QueueInv, Queue, Typed, Requests
<1>3. i \in 1..Len(items) /\ items[i].state = "sending"
  BY <1>1, SendingAtIs
<1>4. Queue(st, is, Unheard, 0, holds, restored, nextKey)
  BY <1>2, <1>3, FailKeepsQueue DEF QueueInv
<1>. HIDE DEF st, is
<1>5. Queue(st, items', reqs', flight', holds, restored, nextKey)
  BY <1>1, <1>4, ProceedKeepsQueue
<1>. QED
  BY <1>1, <1>5 DEF QueueInv, st

LEMMA DeliverKeepsInv ==
  ASSUME QueueInv, Deliver
  PROVE  QueueInv'
<1>1. /\ \E ids : items' = Delivered(items, ids)
      /\ log' = log /\ reqs' = reqs /\ flight' = flight /\ holds' = holds
      /\ restored' = restored /\ nextKey' = nextKey
  BY DEF Deliver, serverVars
<1>2. PICK ids : items' = Delivered(items, ids)
  BY <1>1
<1>3. Queue(MemoryOf(log), Delivered(items, ids), reqs, flight, holds, restored, nextKey)
  BY DeliveredKeepsQueue DEF QueueInv
<1>. QED
  BY <1>1, <1>2, <1>3 DEF QueueInv

(* What a served request becomes.                                          *)
LEMMA RepeatedIs ==
  ASSUME QueueInv, NEW r \in 1..MaxRequests, Under(reqs[r]), Stored(reqs[r].key)
  PROVE  \E q \in Request \cup {Idle} :
           /\ Repeated(r) = [reqs EXCEPT ![r] = q]
           /\ Served(MemoryOf(log), reqs, flight, r, MemoryOf(log), q)
<1>. DEFINE k == reqs[r].key
           st == MemoryOf(log)
           status == IF SameText(r) THEN "ok" ELSE "conflict"
           q == IF flight = r THEN [at |-> "answer", status |-> status, topic |-> TopicOf(k)] ELSE Idle
<1>1. k \in Keys /\ reqs[r].text \in Texts
  <2>1. reqs[r] \in Request \cup {Idle}
    BY DEF QueueInv, Queue, Typed
  <2>. QED
    BY <2>1, RequestIs
<1>2. PICK n \in Posts(log, k) : TRUE
  BY <1>1, StoredIs
<1>3. LogGood(log)
  BY DEF QueueInv
<1>4. st[k] = log[n].text /\ st[k] # Empty /\ TextOf(k) = log[n].text
  <2>1. (CHOOSE m \in Posts(log, k) : TRUE) = n
    <3>1. (CHOOSE m \in Posts(log, k) : TRUE) \in Posts(log, k)
      BY <1>2
    <3>. QED
      BY <1>1, <1>2, <1>3, <3>1 DEF LogGood
  <2>2. st[k] # Empty
    BY <1>1, <1>2, <1>3, MemoryIs
  <2>3. st[k] = log[n].text
    BY <1>1, <1>2, <1>3, MemoryIs
  <2>. QED
    BY <1>1, <2>1, <2>2, <2>3, StoredIs
<1>5. SameText(r) <=> st[k] = reqs[r].text
  BY <1>4 DEF SameText
<1>6. TopicOf(k) \in Topics
  <2>1. Len(log) \in 0..Len(log) /\ n <= Len(log)
    BY <1>2, <1>3 DEF LogGood, Posts
  <2>. QED
    BY <1>1, <1>2, <1>3, <2>1, TopicIs DEF TopicOf
<1>7. Repeated(r) = [reqs EXCEPT ![r] = q]
  BY DEF Repeated, Answered
<1>8. q \in Request \cup {Idle}
  BY <1>6 DEF Request, Statuses
<1>9. flight = r => q.at = "answer" /\ q.status = status
  OBVIOUS
<1>10. Served(st, reqs, flight, r, st, q)
  BY <1>4, <1>5, <1>9 DEF Served
<1>. QED
  BY <1>7, <1>8, <1>10

LEMMA ServesIs ==
  ASSUME QueueInv, NEW r \in 1..MaxRequests, Serve(r)
  PROVE  /\ LogGood(log')
         /\ \E q \in Request \cup {Idle} :
              /\ reqs' = [reqs EXCEPT ![r] = q]
              /\ Served(MemoryOf(log), reqs, flight, r, MemoryOf(log'), q)
<1>. DEFINE k == reqs[r].key
           tx == reqs[r].text
           st == MemoryOf(log)
<1>1. reqs[r] \in Request \cup {Idle} /\ LogGood(log)
  BY DEF QueueInv, Queue, Typed
<1>2. Under(reqs[r])
  BY DEF Serve, LookFirst, Insert, KeyTaken, Repeat, Refuse, Break, Under
<1>3. k \in Keys /\ tx \in Texts /\ reqs[r] \in [at: {"look", "insert", "repeat"}, key: Keys, text: Texts]
  <2>1. k \in Keys /\ tx \in Texts /\ reqs[r] # Idle
    BY <1>1, <1>2, RequestIs
  <2>. QED
    BY <1>1, <1>2, <2>1 DEF Request, Under
<1>4. Stored(k) <=> st[k] # Empty
  BY <1>1, <1>3, StoredIs, MemoryIs
<1>5. ASSUME NEW at \in {"insert", "repeat"}, reqs' = [reqs EXCEPT ![r].at = at], log' = log,
             at = "repeat" => Stored(k)
      PROVE  \E q \in Request \cup {Idle} :
               reqs' = [reqs EXCEPT ![r] = q] /\ Served(st, reqs, flight, r, st, q)
  <2>. DEFINE q == [reqs[r] EXCEPT !.at = at]
  <2>1. q \in Request /\ q.at = at /\ q.key = k /\ q.text = tx
    BY <1>3 DEF Request
  <2>2. reqs' = [reqs EXCEPT ![r] = q]
    BY <1>5
  <2>. HIDE DEF q
  <2>3. Served(st, reqs, flight, r, st, q)
    BY <1>2, <1>4, <1>5, <2>1 DEF Served, Under
  <2>. QED
    BY <2>1, <2>2, <2>3
<1>6. ASSUME NEW status \in {"ok", "refused", "failed"}, NEW tt, reqs' = Answered(r, status, Here),
             tt = st \/ (st[k] = Empty /\ tt = [st EXCEPT ![k] = tx]),
             status = "ok" => tt[k] = tx,
             status = "refused" => tt = st
      PROVE  \E q \in Request \cup {Idle} :
               reqs' = [reqs EXCEPT ![r] = q] /\ Served(st, reqs, flight, r, tt, q)
  <2>. DEFINE q == IF flight = r THEN [at |-> "answer", status |-> status, topic |-> Here] ELSE Idle
  <2>1. q \in Request \cup {Idle}
    BY DEF Request, Statuses, Topics
  <2>2. reqs' = [reqs EXCEPT ![r] = q]
    BY <1>6 DEF Answered
  <2>3. flight = r => q.at = "answer" /\ q.status = status
    OBVIOUS
  <2>4. flight # r => q = Idle
    OBVIOUS
  <2>. HIDE DEF q
  <2>5. Served(st, reqs, flight, r, tt, q)
    BY <1>2, <1>6, <2>3, <2>4 DEF Served
  <2>. QED
    BY <2>1, <2>2, <2>5
<1>7. CASE LookFirst(r)
  <2>1. log' = log /\ reqs[r].at = "look"
    BY <1>7 DEF LookFirst
  <2>2. CASE Stored(k)
    <3>1. reqs' = Repeated(r)
      BY <1>7, <2>2 DEF LookFirst
    <3>. QED
      BY <1>1, <1>2, <2>1, <2>2, <3>1, RepeatedIs
  <2>3. CASE ~Stored(k)
    <3>1. reqs' = [reqs EXCEPT ![r].at = "insert"]
      BY <1>7, <2>3 DEF LookFirst
    <3>. QED
      BY <1>1, <1>5, <2>1, <3>1
  <2>. QED
    BY <2>2, <2>3
<1>8. CASE Insert(r)
  <2>1. /\ st[k] = Empty
        /\ log' = Append(log, [kind |-> "posted", key |-> k, text |-> tx, topic |-> Here])
    BY <1>4, <1>8 DEF Insert
  <2>2. PICK status \in {"ok", "failed"} : reqs' = Answered(r, status, Here)
    BY <1>8 DEF Insert
  <2>3. LogGood(log') /\ MemoryOf(log') = [st EXCEPT ![k] = tx]
    BY <1>1, <1>3, <2>1, PostGrowsLog
  <2>4. [st EXCEPT ![k] = tx][k] = tx
    BY <1>1, <1>3, MemoryIs
  <2>5. \E q \in Request \cup {Idle} :
          reqs' = [reqs EXCEPT ![r] = q] /\ Served(st, reqs, flight, r, [st EXCEPT ![k] = tx], q)
    BY <1>6, <2>1, <2>2, <2>4
  <2>. QED
    BY <2>3, <2>5
<1>9. CASE KeyTaken(r)
  <2>1. log' = log /\ Stored(k) /\ reqs' = [reqs EXCEPT ![r].at = "repeat"]
    BY <1>9 DEF KeyTaken
  <2>. QED
    BY <1>1, <1>5, <2>1
<1>10. CASE Repeat(r)
  <2>1. log' = log /\ reqs' = Repeated(r) /\ reqs[r].at = "repeat"
    BY <1>10 DEF Repeat
  <2>2. Stored(k)
    BY <1>4, <2>1 DEF QueueInv, Queue, Heard
  <2>. QED
    BY <1>1, <1>2, <2>1, <2>2, RepeatedIs
<1>11. CASE Refuse(r)
  <2>1. log' = log /\ reqs' = Answered(r, "refused", Here)
    BY <1>11 DEF Refuse
  <2>. QED
    BY <1>1, <1>6, <2>1
<1>12. CASE Break(r)
  <2>1. log' = log /\ reqs' = Answered(r, "failed", Here)
    BY <1>12 DEF Break
  <2>. QED
    BY <1>1, <1>6, <2>1
<1>. QED
  BY <1>7, <1>8, <1>9, <1>10, <1>11, <1>12 DEF Serve

LEMMA ServeKeepsInv ==
  ASSUME QueueInv, NEW r \in 1..MaxRequests, Serve(r)
  PROVE  QueueInv'
<1>1. /\ flight' = flight /\ items' = items /\ holds' = holds /\ restored' = restored /\ nextKey' = nextKey
  BY DEF Serve, LookFirst, Insert, KeyTaken, Repeat, Refuse, Break, serverUnchanged, queueVars
<1>2. PICK q \in Request \cup {Idle} :
        /\ reqs' = [reqs EXCEPT ![r] = q]
        /\ Served(MemoryOf(log), reqs, flight, r, MemoryOf(log'), q)
  BY ServesIs
<1>3. PICK tt : tt = MemoryOf(log')
  OBVIOUS
<1>4. Served(MemoryOf(log), reqs, flight, r, tt, q)
  BY <1>2, <1>3
<1>5. Queue(tt, items, [reqs EXCEPT ![r] = q], flight, holds, restored, nextKey)
  BY <1>4, ServeKeepsQueue DEF QueueInv
<1>6. LogGood(log')
  BY ServesIs
<1>. QED
  BY <1>1, <1>2, <1>3, <1>5, <1>6 DEF QueueInv

LEMMA BranchIs ==
  ASSUME LogGood(log), NEW k \in Keys, Branch(k)
  PROVE  \E v \in Event :
           /\ log' = Append(log, v) /\ v.kind = "moved" /\ v.key = k /\ v.topic # TopicOf(k)
           /\ Posts(log, k) # {}
<1>1. PICK n \in Posts(log, k) : TRUE
  BY StoredIs DEF Branch
<1>2. log \in Seq(Event) /\ n \in 1..Len(log) /\ Len(log) \in 0..Len(log) /\ n <= Len(log)
  BY <1>1 DEF LogGood, Posts
<1>3. TopicOf(k) \in Topics
  BY <1>1, <1>2, TopicIs DEF TopicOf
<1>4. PICK to \in Topics : to # TopicOf(k) /\ to = CHOOSE other \in Topics : other # TopicOf(k)
  <2>1. \E to \in Topics : to # TopicOf(k)
    BY DEF Topics, Here, Away
  <2>. QED
    BY <2>1
<1>5. TextOf(k) \in Texts
  <2>1. (CHOOSE m \in Posts(log, k) : TRUE) \in Posts(log, k)
    BY <1>1
  <2>2. log[CHOOSE m \in Posts(log, k) : TRUE] \in Event
    BY <1>2, <2>1 DEF Posts
  <2>. QED
    BY <2>2, StoredIs, EventIs
<1>. DEFINE v == [kind |-> "moved", key |-> k, text |-> TextOf(k), topic |-> to]
<1>6. v \in Event /\ v.kind = "moved" /\ v.key = k /\ v.topic = to
  BY <1>5 DEF Event
<1>7. log' = Append(log, v)
  BY <1>4 DEF Branch
<1>. QED
  BY <1>1, <1>4, <1>6, <1>7

LEMMA BranchKeepsInv ==
  ASSUME QueueInv, NEW k \in Keys, Branch(k)
  PROVE  QueueInv'
<1>1. /\ flight' = flight /\ items' = items /\ holds' = holds /\ restored' = restored /\ nextKey' = nextKey
      /\ reqs' = reqs
  BY DEF Branch, serverUnchanged, queueVars
<1>2. LogGood(log)
  BY DEF QueueInv
<1>3. PICK v \in Event : log' = Append(log, v) /\ v.kind = "moved" /\ v.key = k /\ Posts(log, k) # {}
  BY <1>2, BranchIs
<1>4. LogGood(log') /\ MemoryOf(log') = MemoryOf(log)
  BY <1>2, <1>3, MoveGrowsLog
<1>. QED
  BY <1>1, <1>4 DEF QueueInv

LEMMA NextKeyIs ==
  ASSUME QueueInv
  PROVE  /\ nextKey \in Nat /\ None < nextKey
         /\ \A i \in 1..Len(items) :
              /\ items[i] \in Item /\ items[i].requestKey \in Keys /\ items[i].text \in Texts
              /\ items[i].requestKey < nextKey
         /\ \A t \in Texts : holds[t] < nextKey
         /\ restored.key < nextKey
<1>1. nextKey \in Nat /\ None < nextKey
  BY KeysAre DEF QueueInv, Queue, Typed, None
<1>2. \A i \in 1..Len(items) : items[i] \in Item
  BY DEF QueueInv, Queue, Typed
<1>3. \A i \in 1..Len(items) : items[i].requestKey \in Keys /\ items[i].text \in Texts
  BY <1>2 DEF Item
<1>4. Numbered(MemoryOf(log), items, reqs, holds, restored.key, nextKey)
  BY DEF QueueInv, Queue
<1>. QED
  BY <1>1, <1>2, <1>3, <1>4 DEF Numbered

(* The entry on the device stays, or the sent text is taken out of it.     *)
Redrafted ==
  /\ composer' = composer /\ typed' = typed
  /\ \/ draft' = draft /\ source' = source /\ dirty' = dirty
     \/ draft' = [text |-> composer, key |-> None] /\ source' = None /\ dirty' = FALSE

LEMMA SnapshotIs ==
  ASSUME NEW key, ReplaceSnapshot(key, composer), composer' = composer, typed' = typed
  PROVE  Redrafted
BY DEF ReplaceSnapshot, Redrafted

LEMMA DraftVarsIs == UNCHANGED draftVars => Redrafted
BY DEF draftVars, Redrafted

(* The composer, its draft and the key of the draft are of their types.    *)
LEMMA StepKeepsComposer ==
  ASSUME QueueInv, ComposerInv, Next
  PROVE  ComposerInv'
<1>1. /\ nextKey \in Nat /\ None < nextKey /\ None \in KeyOrNone /\ Keys \subseteq KeyOrNone /\ Keys \subseteq Nat
      /\ KeyOrNone \subseteq Nat
  BY NextKeyIs, KeysAre DEF KeyOrNone
<1>2. draft.key \in KeyOrNone /\ draft.text \in Texts \cup {Empty} /\ draft.key \in Nat
  BY <1>1 DEF ComposerInv, Draft
<1>3. ASSUME Redrafted, nextKey' \in Nat, nextKey' >= nextKey
      PROVE  ComposerInv'
  <2>1. CASE draft' = draft /\ source' = source /\ dirty' = dirty
    BY <1>1, <1>2, <1>3, <2>1 DEF ComposerInv, Redrafted
  <2>2. CASE draft' = [text |-> composer, key |-> None] /\ source' = None /\ dirty' = FALSE
    <3>1. draft' \in Draft /\ draft'.key = None
      BY <1>1, <2>2 DEF ComposerInv, Draft
    <3>2. None < nextKey'
      BY <1>1, <1>3 DEF None
    <3>. QED
      BY <1>1, <1>3, <2>2, <3>1, <3>2 DEF ComposerInv, Redrafted
  <2>. QED
    BY <1>3, <2>1, <2>2 DEF Redrafted
<1>4. ASSUME UNCHANGED draftVars, nextKey' = nextKey
      PROVE  ComposerInv'
  <2>1. nextKey' \in Nat /\ nextKey' >= nextKey
    BY <1>1, <1>4
  <2>. QED
    BY <1>3, <1>4, <2>1, DraftVarsIs
<1>5. ASSUME NEW t \in Texts \cup {Empty}, Type(t) PROVE ComposerInv'
  BY <1>1, <1>5 DEF Type, ComposerInv
<1>6. CASE Admit
  <2>1. /\ draft' = [text |-> composer, key |-> KeyFor(composer)] /\ source' = KeyFor(composer)
        /\ dirty' = FALSE /\ composer' = Empty /\ typed' = FALSE /\ KeyFor(composer) \in Keys
        /\ nextKey' = IF KeyFor(composer) = nextKey THEN nextKey + 1 ELSE nextKey
        /\ composer # Empty
    BY <1>6 DEF Admit
  <2>2. composer \in Texts
    BY <2>1 DEF ComposerInv
  <2>3. KeyFor(composer) < nextKey'
    <3>1. CASE KeyFor(composer) = nextKey
      BY <1>1, <2>1, <3>1
    <3>2. CASE KeyFor(composer) # nextKey
      BY <2>1, <2>2, <3>2, NextKeyIs DEF KeyFor
    <3>. QED
      BY <3>1, <3>2
  <2>4. draft' \in Draft /\ draft'.key = KeyFor(composer)
    BY <1>1, <2>1, <2>2 DEF Draft
  <2>. QED
    BY <1>1, <2>1, <2>3, <2>4 DEF ComposerInv
<1>7. ASSUME NEW i \in 1..Len(items), Retry(i) PROVE ComposerInv'
  BY <1>4, <1>7 DEF Retry
<1>8. ASSUME NEW i \in 1..Len(items), Edit(i) PROVE ComposerInv'
  <2>1. /\ composer' = items[i].text /\ typed' = FALSE /\ source' = None /\ dirty' = FALSE /\ nextKey' = nextKey
        /\ draft' = [text |-> items[i].text, key |-> items[i].requestKey]
    BY <1>8 DEF Edit
  <2>2. items[i].text \in Texts /\ items[i].requestKey \in Keys /\ items[i].requestKey < nextKey
    BY NextKeyIs
  <2>3. draft' \in Draft /\ draft'.key = items[i].requestKey
    BY <1>1, <2>1, <2>2 DEF Draft
  <2>. QED
    BY <1>1, <2>1, <2>2, <2>3 DEF ComposerInv
<1>9. ASSUME NEW i \in 1..Len(items), TakeBack(i) PROVE ComposerInv'
  <2>1. nextKey' = nextKey /\ composer' = composer /\ typed' = typed
    BY <1>9 DEF TakeBack
  <2>2. ReplaceSnapshot(items[i].draftKey, composer)
    BY <1>9 DEF TakeBack
  <2>3. nextKey' \in Nat /\ nextKey' >= nextKey
    BY <1>1, <2>1
  <2>. QED
    BY <1>3, <2>1, <2>2, <2>3, SnapshotIs
<1>10. ASSUME NEW t \in Texts, HoldExpires(t) PROVE ComposerInv'
  BY <1>4, <1>10 DEF HoldExpires
<1>11. CASE Reload
  <2>1. PICK saved \in {draft} \cup (IF dirty THEN {[text |-> composer, key |-> None]} ELSE {}) :
          /\ draft' = saved /\ composer' = saved.text
          /\ source' = IF saved.text = Empty THEN None ELSE saved.key
          /\ typed' \in BOOLEAN
    BY <1>11 DEF Reload
  <2>2. dirty' = FALSE /\ nextKey' = nextKey
    BY <1>11 DEF Reload
  <2>3. saved \in Draft /\ saved.key < nextKey
    <3>1. CASE saved = draft
      BY <3>1 DEF ComposerInv
    <3>2. CASE saved = [text |-> composer, key |-> None]
      BY <1>1, <3>2 DEF ComposerInv, Draft
    <3>. QED
      BY <2>1, <3>1, <3>2
  <2>4. saved.text \in Texts \cup {Empty} /\ saved.key \in KeyOrNone
    BY <2>3 DEF Draft
  <2>. QED
    BY <1>1, <2>1, <2>2, <2>3, <2>4 DEF ComposerInv
<1>12. ASSUME NEW r \in 1..MaxRequests, AnswerOk(r) PROVE ComposerInv'
  <2>1. nextKey' = nextKey /\ composer' = composer /\ typed' = typed
    BY <1>12 DEF AnswerOk
  <2>2. ReplaceSnapshot(items[SendingAt].draftKey, composer)
    BY <1>12 DEF AnswerOk
  <2>3. nextKey' \in Nat /\ nextKey' >= nextKey
    BY <1>1, <2>1
  <2>. QED
    BY <1>3, <2>1, <2>2, <2>3, SnapshotIs
<1>13. ASSUME NEW r \in 1..MaxRequests, AnswerConflict(r) PROVE ComposerInv'
  <2>1. nextKey' = nextKey + 1 /\ UNCHANGED draftVars
    BY <1>13 DEF AnswerConflict
  <2>2. nextKey' \in Nat /\ nextKey' >= nextKey
    BY <1>1, <2>1
  <2>. QED
    BY <1>3, <2>1, <2>2, DraftVarsIs
<1>14. ASSUME NEW r \in 1..MaxRequests, AnswerError(r) PROVE ComposerInv'
  BY <1>4, <1>14 DEF AnswerError
<1>15. CASE LoseAnswer
  BY <1>4, <1>15 DEF LoseAnswer
<1>16. ASSUME NEW r \in 1..MaxRequests, Serve(r) PROVE ComposerInv'
  BY <1>4, <1>16 DEF Serve, LookFirst, Insert, KeyTaken, Repeat, Refuse, Break, serverUnchanged, queueVars
<1>17. ASSUME NEW k \in Keys, Branch(k) PROVE ComposerInv'
  BY <1>4, <1>17 DEF Branch, serverUnchanged, queueVars
<1>18. CASE Deliver
  BY <1>4, <1>18 DEF Deliver
<1>. QED
  BY <1>5, <1>6, <1>7, <1>8, <1>9, <1>10, <1>11, <1>12, <1>13, <1>14, <1>15, <1>16, <1>17, <1>18 DEF Next, Answer

LEMMA StepKeepsQueue ==
  ASSUME QueueInv, ComposerInv, Next
  PROVE  QueueInv'
BY TypeKeepsQueue, AdmitKeepsInv, RetryKeepsInv, EditKeepsInv, TakeBackKeepsInv, HoldExpiresKeepsInv, ReloadKeepsInv,
   AnswerOkKeepsInv, AnswerConflictKeepsInv, AnswerErrorKeepsInv, LoseAnswerKeepsInv, ServeKeepsInv, BranchKeepsInv,
   DeliverKeepsInv
   DEF Next, Answer

LEMMA InitIsSafe ==
  ASSUME Init
  PROVE  QueueInv /\ ComposerInv
<1>1. /\ log = <<>> /\ reqs = [r \in 1..MaxRequests |-> Idle] /\ flight = 0
      /\ items = <<>> /\ holds = [t \in Texts |-> None] /\ restored = NotRestored /\ nextKey = 1
      /\ composer = Empty /\ draft = [text |-> Empty, key |-> None] /\ source = None
      /\ dirty = FALSE /\ typed = FALSE
  BY DEF Init
<1>2. LogGood(log)
  BY <1>1 DEF LogGood, Posts
<1>3. \A k \in Keys : MemoryOf(log)[k] = Empty
  BY <1>1, <1>2, MemoryIs DEF Posts
<1>4. \A r \in 1..MaxRequests : reqs[r] = Idle
  BY <1>1
<1>5. \A k \in Keys : Clean(MemoryOf(log), reqs, k)
  BY <1>3, <1>4, IdleIs DEF Clean
<1>6. Typed(MemoryOf(log), items, reqs, flight, holds, restored, nextKey)
  <2>1. 1 \in 1..(Cardinality(Keys) + 1) /\ 0 \in 0..MaxRequests /\ 0 <= MaxItems
    BY KeysAre
  <2>2. MemoryOf(log) \in [Keys -> Texts \cup {Empty}]
    BY <1>2, MemoryIs
  <2>. QED
    BY <1>1, <2>1, <2>2 DEF Typed, KeyOrNone
<1>7. Order(items) /\ Sending(items, flight)
  BY <1>1 DEF Order, Sending
<1>8. \A i \in 1..Len(items) : ItemOK(MemoryOf(log), reqs, flight, items[i])
  BY <1>1
<1>9. Owned(items, holds, restored.key)
  BY <1>1 DEF Owned, NotRestored
<1>10. Numbered(MemoryOf(log), items, reqs, holds, restored.key, nextKey)
  <2>1. Len(items) = 0 /\ None < nextKey /\ restored.key = None /\ \A t \in Texts : holds[t] = None
    BY <1>1 DEF NotRestored, None
  <2>. QED
    BY <1>5, <2>1 DEF Numbered
<1>11. Heard(MemoryOf(log), reqs, flight)
  BY <1>4, IdleIs DEF Heard
<1>12. RestoredOK(MemoryOf(log), reqs, restored)
  BY <1>1 DEF RestoredOK
<1>13. QueueInv
  BY <1>2, <1>6, <1>7, <1>8, <1>9, <1>10, <1>11, <1>12 DEF QueueInv, Queue
<1>14. ComposerInv
  <2>1. draft \in Draft /\ draft.key = None /\ None \in KeyOrNone
    BY <1>1 DEF Draft, KeyOrNone
  <2>2. None < nextKey
    BY <1>1 DEF None
  <2>. QED
    BY <1>1, <2>1, <2>2 DEF ComposerInv
<1>. QED
  BY <1>13, <1>14

LEMMA StutterKeepsSafe ==
  ASSUME QueueInv, ComposerInv, UNCHANGED vars
  PROVE  QueueInv' /\ ComposerInv'
BY DEF QueueInv, ComposerInv, vars, serverVars, queueVars, draftVars

-----------------------------------------------------------------------------
(* How often a text may come to be stored.                                 *)

(* Text t is stored under k, or may yet be: by a request, an item, a hold, *)
(* the composer's text tx restored with re, or the entry dr on the device. *)
Claims(k, t, st, is, rs, hs, re, tx, dr) ==
  \/ st[k] = t
  \/ st[k] = Empty /\ \E r \in 1..MaxRequests : Under(rs[r]) /\ rs[r].key = k /\ rs[r].text = t
  \/ \E i \in 1..Len(is) : is[i].requestKey = k /\ is[i].text = t
  \/ hs[t] = k
  \/ re.key = k /\ tx = t
  \/ dr.key = k /\ dr.text = t

(* The text of the composer that was not typed, and the entry of the       *)
(* device that is the snapshot of a send while no key was another's.       *)
Unsent == IF typed THEN Empty ELSE composer
Saved == IF conflicts = 0 THEN draft ELSE [text |-> Empty, key |-> None]

ClaimsNow(k, t) == Claims(k, t, MemoryOf(log), items, reqs, holds, restored, Unsent, Saved)

Bounded == \A t \in Texts : Cardinality({k \in Keys : ClaimsNow(k, t)}) <= asked[t]

AskedInv ==
  /\ asked \in [Texts -> Nat] /\ conflicts \in Nat /\ loads \in Nat
  /\ composer # Empty /\ ~typed => restored # NotRestored
  /\ loads = 0 \/ conflicts = 0 => Bounded

LEMMA StartClaims ==
  ASSUME NEW st, NEW is \in Seq(Item), NEW rs \in Requests, NEW hs, NEW re, NEW js, NEW ss, NEW g, NEW h, NEW m,
         NEW k, NEW t, NEW tx, NEW dr,
         Starts(is, rs, h, m, js, ss, g),
         Claims(k, t, st, js, ss, hs, re, tx, dr)
  PROVE  Claims(k, t, st, is, rs, hs, re, tx, dr)
<1>1. /\ h \in 1..Len(is) /\ m \in 1..MaxRequests
      /\ Len(js) = Len(is)
      /\ \A i \in 1..Len(is) : i # h => js[i] = is[i]
      /\ js[h] = [is[h] EXCEPT !.state = "sending"]
      /\ \A r \in 1..MaxRequests : r # m => ss[r] = rs[r]
      /\ ss[m].key = is[h].requestKey /\ ss[m].text = is[h].text
  <2>1. h \in 1..Len(is) /\ m \in 1..MaxRequests /\ js = [is EXCEPT ![h].state = "sending"]
    BY DEF Starts
  <2>2. ss = [rs EXCEPT ![m] = [at |-> Entry(is[h].text), key |-> is[h].requestKey, text |-> is[h].text]]
    BY DEF Starts
  <2>3. ss[m] = [at |-> Entry(is[h].text), key |-> is[h].requestKey, text |-> is[h].text]
        /\ \A r \in 1..MaxRequests : r # m => ss[r] = rs[r]
    BY <2>1, <2>2 DEF Requests
  <2>. QED
    BY <2>1, <2>3
<1>2. is[h] \in Item
  BY <1>1
<1>3. js[h].requestKey = is[h].requestKey /\ js[h].text = is[h].text
  BY <1>1, <1>2 DEF Item
<1>4. ASSUME NEW i \in 1..Len(js), js[i].requestKey = k, js[i].text = t
      PROVE  \E j \in 1..Len(is) : is[j].requestKey = k /\ is[j].text = t
  BY <1>1, <1>3, <1>4
<1>5. ASSUME NEW r \in 1..MaxRequests, Under(ss[r]), ss[r].key = k, ss[r].text = t, st[k] = Empty
      PROVE  Claims(k, t, st, is, rs, hs, re, tx, dr)
  <2>1. CASE r = m
    BY <1>1, <1>5, <2>1 DEF Claims
  <2>2. CASE r # m
    BY <1>1, <1>5, <2>2 DEF Claims
  <2>. QED
    BY <2>1, <2>2
<1>. QED
  BY <1>4, <1>5 DEF Claims

LEMMA ProceedClaims ==
  ASSUME NEW st, NEW is \in Seq(Item), NEW rs \in Requests, NEW f, NEW hs, NEW re, NEW k, NEW t, NEW tx, NEW dr,
         Proceed(is, rs, f),
         Claims(k, t, st, items', reqs', hs, re, tx, dr)
  PROVE  Claims(k, t, st, is, rs, hs, re, tx, dr)
<1>1. CASE items' = is /\ reqs' = rs /\ flight' = f
  BY <1>1
<1>2. CASE \E h, m : Starts(is, rs, h, m, items', reqs', flight')
  <2>1. PICK h, m : Starts(is, rs, h, m, items', reqs', flight')
    BY <1>2
  <2>2. PICK js, ss, g : js = items' /\ ss = reqs' /\ g = flight'
    OBVIOUS
  <2>3. Starts(is, rs, h, m, js, ss, g) /\ Claims(k, t, st, js, ss, hs, re, tx, dr)
    BY <2>1, <2>2
  <2>. QED
    BY <2>3, StartClaims
<1>. QED
  BY <1>1, <1>2, ProceedIs

(* Fewer claims are within the same bound.                                 *)
LEMMA FewerClaimsAreBounded ==
  ASSUME Bounded, asked' = asked, asked \in [Texts -> Nat],
         \A k \in Keys, t \in Texts : ClaimsNow(k, t)' => ClaimsNow(k, t)
  PROVE  Bounded'
<1>. SUFFICES ASSUME NEW t \in Texts
              PROVE  Cardinality({k \in Keys : ClaimsNow(k, t)'}) <= asked[t]
  BY DEF Bounded
<1>. DEFINE S == {k \in Keys : ClaimsNow(k, t)}
           T == {k \in Keys : ClaimsNow(k, t)'}
<1>1. IsFiniteSet(S) /\ Cardinality(S) \in Nat /\ asked[t] \in Nat /\ Cardinality(S) <= asked[t]
  <2>1. IsFiniteSet(S)
    BY KeysAre, FS_Subset
  <2>2. Cardinality(S) <= asked[t]
    BY DEF Bounded
  <2>. QED
    BY <2>1, <2>2, FS_CardinalityType
<1>2. T \in SUBSET S
  OBVIOUS
<1>3. Cardinality(T) <= Cardinality(S) /\ Cardinality(T) \in Nat
  <2>1. IsFiniteSet(T) /\ Cardinality(T) <= Cardinality(S)
    BY <1>1, <1>2, FS_Subset
  <2>. QED
    BY <2>1, FS_CardinalityType
<1>. HIDE DEF S, T
<1>4. Cardinality(T) <= asked[t]
  BY <1>1, <1>3
<1>. QED
  BY <1>4 DEF T

(* A step that leaves what is counted alone and adds no claim.             *)
LEMMA FewerClaimsKeepAsked ==
  ASSUME AskedInv, asked' = asked, conflicts' = conflicts, loads' = loads,
         composer' # Empty /\ ~typed' => restored' # NotRestored,
         \A k \in Keys, t \in Texts : ClaimsNow(k, t)' => ClaimsNow(k, t)
  PROVE  AskedInv'
BY FewerClaimsAreBounded DEF AskedInv

LEMMA TypeKeepsAsked ==
  ASSUME QueueInv, AskedInv, NEW t \in Texts \cup {Empty}, Type(t)
  PROVE  AskedInv'
<1>1. /\ items' = items /\ reqs' = reqs /\ holds' = holds /\ log' = log /\ draft' = draft
      /\ typed' = TRUE /\ asked' = asked /\ conflicts' = conflicts /\ loads' = loads
  BY DEF Type, serverVars, viewVars, historyVars
<1>2. Unsent' = Empty /\ Saved' = Saved
  BY <1>1 DEF Unsent, Saved
<1>3. ASSUME NEW k \in Keys, NEW u \in Texts, ClaimsNow(k, u)' PROVE ClaimsNow(k, u)
  BY <1>1, <1>2, <1>3, PostingAssumption DEF ClaimsNow, Claims
<1>. QED
  BY <1>1, <1>3, FewerClaimsKeepAsked

LEMMA RetryKeepsAsked ==
  ASSUME QueueInv, AskedInv, NEW i \in 1..Len(items), Retry(i)
  PROVE  AskedInv'
<1>. DEFINE is == Retried(items, i)
<1>1. /\ items[i].state = "failed" /\ Proceed(is, reqs, flight)
      /\ log' = log /\ holds' = holds /\ restored' = restored /\ typed' = typed /\ composer' = composer
      /\ draft' = draft /\ asked' = asked /\ conflicts' = conflicts /\ loads' = loads
  BY DEF Retry, draftVars, viewVars, historyVars
<1>2. items \in Seq(Item) /\ reqs \in Requests /\ items[i] \in Item
  BY DEF QueueInv, Queue, Typed, Requests
<1>3. /\ is \in Seq(Item)
      /\ \A n \in 1..Len(is) : \E j \in 1..Len(items) :
           is[n].requestKey = items[j].requestKey /\ is[n].text = items[j].text
  <2>. DEFINE it == [items[i] EXCEPT !.state = "queued"]
  <2>1. it \in Item /\ it.requestKey = items[i].requestKey /\ it.text = items[i].text
    BY <1>2 DEF Item, States
  <2>. HIDE DEF it
  <2>2. CASE items[i].unconfirmed
    <3>1. is = [items EXCEPT ![i] = it]
      BY <2>2 DEF Retried, it
    <3>. HIDE DEF is
    <3>. QED
      BY <1>2, <2>1, <3>1
  <2>3. CASE ~items[i].unconfirmed
    <3>. DEFINE js == RemoveAt(items, i)
    <3>1. is = Append(js, it)
      BY <2>3 DEF Retried, it
    <3>. HIDE DEF is
    <3>2. PICK e : Fewer(items, js, e)
      BY <1>2, RemoveAtIs
    <3>. HIDE DEF js
    <3>3. js \in Seq(Item) /\ \A n \in 1..Len(js) : e[n] \in 1..Len(items) /\ js[n] = items[e[n]]
      BY <3>2 DEF Fewer
    <3>4. is \in Seq(Item) /\ Len(is) = Len(js) + 1 /\ is[Len(js) + 1] = it /\ Len(js) \in Nat
          /\ \A n \in 1..Len(js) : is[n] = js[n]
      BY <2>1, <3>1, <3>3
    <3>5. ASSUME NEW n \in 1..Len(is)
          PROVE  \E j \in 1..Len(items) :
                   is[n].requestKey = items[j].requestKey /\ is[n].text = items[j].text
      <4>1. CASE n = Len(js) + 1
        BY <2>1, <3>4, <4>1
      <4>2. CASE n # Len(js) + 1
        <5>1. n \in 1..Len(js)
          BY <3>4, <4>2
        <5>. QED
          BY <3>3, <3>4, <5>1
      <4>. QED
        BY <4>1, <4>2
    <3>. QED
      BY <3>4, <3>5
  <2>. QED
    BY <2>2, <2>3
<1>. HIDE DEF is
<1>4. Unsent' = Unsent /\ Saved' = Saved
  BY <1>1 DEF Unsent, Saved
<1>5. ASSUME NEW k \in Keys, NEW u \in Texts, ClaimsNow(k, u)' PROVE ClaimsNow(k, u)
  <2>1. Claims(k, u, MemoryOf(log), items', reqs', holds, restored, Unsent, Saved)
    BY <1>1, <1>4, <1>5 DEF ClaimsNow
  <2>2. Claims(k, u, MemoryOf(log), is, reqs, holds, restored, Unsent, Saved)
    BY <1>1, <1>2, <1>3, <2>1, ProceedClaims
  <2>. QED
    BY <1>3, <2>2 DEF ClaimsNow, Claims
<1>. QED
  BY <1>1, <1>5, FewerClaimsKeepAsked DEF AskedInv

(* Taking an item out takes its claim out.                                 *)
LEMMA RemovedClaims ==
  ASSUME NEW is \in Seq(Item), NEW i \in 1..Len(is)
  PROVE  /\ RemoveAt(is, i) \in Seq(Item)
         /\ \A n \in 1..Len(RemoveAt(is, i)) : \E j \in 1..Len(is) : RemoveAt(is, i)[n] = is[j]
<1>1. PICK e : Fewer(is, RemoveAt(is, i), e)
  BY RemoveAtIs
<1>. QED
  BY <1>1 DEF Fewer

LEMMA EditKeepsAsked ==
  ASSUME QueueInv, AskedInv, NEW i \in 1..Len(items), Edit(i)
  PROVE  AskedInv'
<1>. DEFINE is == RemoveAt(items, i)
<1>1. /\ Proceed(is, reqs, flight)
      /\ restored' = [key |-> items[i].requestKey, text |-> Kept, unconfirmed |-> items[i].unconfirmed]
      /\ composer' = items[i].text /\ typed' = FALSE
      /\ draft' = [text |-> items[i].text, key |-> items[i].requestKey]
      /\ log' = log /\ holds' = holds /\ asked' = asked /\ conflicts' = conflicts /\ loads' = loads
  BY DEF Edit, viewVars, historyVars
<1>2. items \in Seq(Item) /\ reqs \in Requests /\ items[i] \in Item
  BY DEF QueueInv, Queue, Typed, Requests
<1>3. is \in Seq(Item) /\ \A n \in 1..Len(is) : \E j \in 1..Len(items) : is[n] = items[j]
  BY <1>2, RemovedClaims
<1>. HIDE DEF is
<1>4. /\ restored'.key = items[i].requestKey /\ Unsent' = items[i].text
      /\ Saved'.key \in {items[i].requestKey, None} /\ (Saved'.key # None => Saved'.text = items[i].text)
  BY <1>1 DEF Unsent, Saved
<1>5. restored' # NotRestored
  BY <1>1, <1>2, <1>4, KeysAre DEF NotRestored, Item
<1>6. PICK re, tx, dr : re = restored' /\ tx = Unsent' /\ dr = Saved'
  OBVIOUS
<1>7. ASSUME NEW k \in Keys, NEW u \in Texts, ClaimsNow(k, u)' PROVE ClaimsNow(k, u)
  <2>1. Claims(k, u, MemoryOf(log), items', reqs', holds, re, tx, dr)
    BY <1>1, <1>6, <1>7 DEF ClaimsNow
  <2>2. Claims(k, u, MemoryOf(log), is, reqs, holds, re, tx, dr)
    BY <1>1, <1>2, <1>3, <2>1, ProceedClaims
  <2>3. k # None
    BY KeysAre
  <2>4. (re.key = k /\ tx = u) \/ (dr.key = k /\ dr.text = u) => items[i].requestKey = k /\ items[i].text = u
    BY <1>4, <1>6, <2>3
  <2>. QED
    BY <1>3, <2>2, <2>4 DEF ClaimsNow, Claims
<1>. QED
  BY <1>1, <1>5, <1>7, FewerClaimsKeepAsked

LEMMA TakeBackKeepsAsked ==
  ASSUME QueueInv, AskedInv, NEW i \in 1..Len(items), TakeBack(i)
  PROVE  AskedInv'
<1>. DEFINE is == RemoveAt(items, i)
           hh == IF items[i].unconfirmed THEN [holds EXCEPT ![items[i].text] = items[i].requestKey] ELSE holds
<1>1. /\ Proceed(is, reqs, flight) /\ holds' = hh
      /\ ReplaceSnapshot(items[i].draftKey, composer)
      /\ log' = log /\ restored' = restored /\ composer' = composer /\ typed' = typed
      /\ asked' = asked /\ conflicts' = conflicts /\ loads' = loads
  BY DEF TakeBack, viewVars, historyVars
<1>2. items \in Seq(Item) /\ reqs \in Requests /\ items[i] \in Item /\ holds \in [Texts -> KeyOrNone]
  BY DEF QueueInv, Queue, Typed, Requests
<1>3. is \in Seq(Item) /\ \A n \in 1..Len(is) : \E j \in 1..Len(items) : is[n] = items[j]
  BY <1>2, RemovedClaims
<1>4. \A u \in Texts : hh[u] = holds[u] \/ (u = items[i].text /\ hh[u] = items[i].requestKey)
  BY <1>2
<1>. HIDE DEF is, hh
<1>5. Unsent' = Unsent /\ (Saved' = Saved \/ Saved'.key = None)
  BY <1>1 DEF Unsent, Saved, ReplaceSnapshot
<1>6. PICK dr : dr = Saved'
  OBVIOUS
<1>7. ASSUME NEW k \in Keys, NEW u \in Texts, ClaimsNow(k, u)' PROVE ClaimsNow(k, u)
  <2>1. Claims(k, u, MemoryOf(log), items', reqs', hh, restored, Unsent, dr)
    BY <1>1, <1>5, <1>6, <1>7 DEF ClaimsNow
  <2>2. Claims(k, u, MemoryOf(log), is, reqs, hh, restored, Unsent, dr)
    BY <1>1, <1>2, <1>3, <2>1, ProceedClaims
  <2>3. k # None
    BY KeysAre
  <2>. QED
    BY <1>3, <1>4, <1>5, <1>6, <2>2, <2>3 DEF ClaimsNow, Claims
<1>. QED
  BY <1>1, <1>7, FewerClaimsKeepAsked DEF AskedInv

LEMMA HoldExpiresKeepsAsked ==
  ASSUME QueueInv, AskedInv, NEW t \in Texts, HoldExpires(t)
  PROVE  AskedInv'
<1>1. /\ holds' = [holds EXCEPT ![t] = None] /\ log' = log /\ reqs' = reqs /\ items' = items
      /\ restored' = restored /\ typed' = typed /\ composer' = composer
      /\ draft' = draft /\ asked' = asked /\ conflicts' = conflicts /\ loads' = loads
  BY DEF HoldExpires, serverVars, draftVars, viewVars, historyVars
<1>2. holds \in [Texts -> KeyOrNone]
  BY DEF QueueInv, Queue, Typed
<1>3. \A u \in Texts : holds'[u] \in {None, holds[u]}
  BY <1>1, <1>2
<1>4. Unsent' = Unsent /\ Saved' = Saved
  BY <1>1 DEF Unsent, Saved
<1>5. ASSUME NEW k \in Keys, NEW u \in Texts, ClaimsNow(k, u)' PROVE ClaimsNow(k, u)
  <2>1. k # None
    BY KeysAre
  <2>. QED
    BY <1>1, <1>3, <1>4, <1>5, <2>1 DEF ClaimsNow, Claims
<1>. QED
  BY <1>1, <1>5, FewerClaimsKeepAsked DEF AskedInv

(* Settling the awaited item: what leaves of is, under the keys it had.    *)
LEMMA SettledClaims ==
  ASSUME NEW is \in Seq(Item), NEW i \in 1..Len(is), NEW it \in Item,
         it.requestKey = is[i].requestKey, it.text = is[i].text
  PROVE  /\ [is EXCEPT ![i] = it] \in Seq(Item)
         /\ \A n \in 1..Len([is EXCEPT ![i] = it]) : \E j \in 1..Len(is) :
              /\ [is EXCEPT ![i] = it][n].requestKey = is[j].requestKey
              /\ [is EXCEPT ![i] = it][n].text = is[j].text
OBVIOUS

(* Items that had the keys and texts they have, and fewer requests.        *)
LEMMA QuieterClaims ==
  ASSUME NEW st, NEW is \in Seq(Item), NEW rs \in Requests, NEW js \in Seq(Item), NEW ss \in Requests,
         NEW hs, NEW re, NEW k, NEW t, NEW tx, NEW dr,
         Quieter(rs, ss),
         \A n \in 1..Len(js) : \E j \in 1..Len(is) : js[n].requestKey = is[j].requestKey /\ js[n].text = is[j].text,
         Claims(k, t, st, js, ss, hs, re, tx, dr)
  PROVE  Claims(k, t, st, is, rs, hs, re, tx, dr)
<1>1. ASSUME NEW r \in 1..MaxRequests, Under(ss[r]), ss[r].key = k, ss[r].text = t
      PROVE  Under(rs[r]) /\ rs[r].key = k /\ rs[r].text = t
  BY <1>1 DEF Quieter
<1>2. ASSUME NEW n \in 1..Len(js), js[n].requestKey = k, js[n].text = t
      PROVE  \E j \in 1..Len(is) : is[j].requestKey = k /\ is[j].text = t
  BY <1>2
<1>. QED
  BY <1>1, <1>2 DEF Claims

LEMMA AnswerOkKeepsAsked ==
  ASSUME QueueInv, AskedInv, NEW r \in 1..MaxRequests, AnswerOk(r)
  PROVE  AskedInv'
<1>. DEFINE i == SendingAt
           item == items[i]
           it == Settled(item, "ok", None)
           settled == [items EXCEPT ![i] = it]
           hh == [t \in Texts |-> IF holds[t] = item.draftKey THEN None ELSE holds[t]]
           ss == [reqs EXCEPT ![r] = Idle]
           is == IF Routed(item.requestKey, reqs[r].topic) THEN RemoveAt(items, i) ELSE Delivered(settled, list)
<1>1. /\ flight = r /\ Proceed(is, ss, 0) /\ holds' = hh
      /\ restored' = IF restored.key = item.draftKey THEN NotRestored ELSE restored
      /\ ReplaceSnapshot(item.draftKey, composer)
      /\ log' = log /\ composer' = composer /\ typed' = typed
      /\ asked' = asked /\ conflicts' = conflicts /\ loads' = loads
  BY DEF AnswerOk, viewVars, historyVars
<1>2. flight # 0 /\ Quieter(reqs, ss)
  BY <1>1, AwaitedIs
<1>3. i \in 1..Len(items)
  BY <1>2, SendingAtIs
<1>4. items \in Seq(Item) /\ item \in Item /\ holds \in [Texts -> KeyOrNone] /\ reqs \in Requests /\ ss \in Requests
  BY <1>3, <1>2 DEF QueueInv, Queue, Typed, Requests, Quieter
<1>5. it \in Item /\ it.requestKey = item.requestKey /\ it.text = item.text
  BY <1>4 DEF Settled, Item, States
<1>6. restored' = restored
  <2>1. restored.key \notin KeysOf(item)
    BY <1>3 DEF QueueInv, Queue, Owned
  <2>. QED
    BY <1>1, <2>1 DEF KeysOf
<1>7. \A t \in Texts : hh[t] \in {None, holds[t]}
  BY <1>4
<1>. HIDE DEF hh, ss, it
<1>8. /\ settled \in Seq(Item)
      /\ \A n \in 1..Len(settled) : \E j \in 1..Len(items) :
           settled[n].requestKey = items[j].requestKey /\ settled[n].text = items[j].text
  BY <1>3, <1>4, <1>5, SettledClaims
<1>. HIDE DEF settled
<1>9. /\ is \in Seq(Item)
      /\ \A n \in 1..Len(is) : \E j \in 1..Len(items) :
           is[n].requestKey = items[j].requestKey /\ is[n].text = items[j].text
  <2>1. CASE is = RemoveAt(items, i)
    <3>. HIDE DEF is
    <3>. QED
      BY <1>3, <1>4, <2>1, RemovedClaims
  <2>2. CASE is = Delivered(settled, list)
    <3>1. PICK e : LeftOf(settled, list, Len(settled), Delivered(settled, list), e)
      BY <1>8, DeliveredIs
    <3>. HIDE DEF is
    <3>2. is \in Seq(Item) /\ \A n \in 1..Len(is) : e[n] \in 1..Len(settled) /\ is[n] = settled[e[n]]
      BY <2>2, <3>1 DEF LeftOf
    <3>3. ASSUME NEW n \in 1..Len(is)
          PROVE  \E j \in 1..Len(items) : is[n].requestKey = items[j].requestKey /\ is[n].text = items[j].text
      <4>1. e[n] \in 1..Len(settled) /\ is[n] = settled[e[n]]
        BY <3>2
      <4>2. PICK m \in 1..Len(settled) : m = e[n]
        BY <4>1
      <4>. QED
        BY <1>8, <4>1, <4>2
    <3>. QED
      BY <3>2, <3>3
  <2>. QED
    BY <2>1, <2>2
<1>. HIDE DEF is
<1>10. Unsent' = Unsent /\ (Saved' = Saved \/ Saved'.key = None)
  BY <1>1 DEF Unsent, Saved, ReplaceSnapshot
<1>11. PICK dr : dr = Saved'
  OBVIOUS
<1>12. ASSUME NEW k \in Keys, NEW u \in Texts, ClaimsNow(k, u)' PROVE ClaimsNow(k, u)
  <2>1. Claims(k, u, MemoryOf(log), items', reqs', hh, restored, Unsent, dr)
    BY <1>1, <1>6, <1>10, <1>11, <1>12 DEF ClaimsNow
  <2>2. Claims(k, u, MemoryOf(log), is, ss, hh, restored, Unsent, dr)
    BY <1>1, <1>4, <1>9, <2>1, ProceedClaims
  <2>3. Claims(k, u, MemoryOf(log), items, reqs, hh, restored, Unsent, dr)
    BY <1>2, <1>4, <1>9, <2>2, QuieterClaims
  <2>4. k # None
    BY KeysAre
  <2>. QED
    BY <1>7, <1>10, <1>11, <2>3, <2>4 DEF ClaimsNow, Claims
<1>. QED
  BY <1>1, <1>6, <1>12, FewerClaimsKeepAsked DEF AskedInv

(* The send is settled without a new key.                                  *)
LEMMA FailedKeepsAsked ==
  ASSUME QueueInv, AskedInv, flight # 0, NEW ss \in Requests, Quieter(reqs, ss), NEW status \in {"refused", "failed"},
         Proceed([items EXCEPT ![SendingAt] = Settled(items[SendingAt], status, None)], ss, 0),
         log' = log, holds' = holds, restored' = restored, composer' = composer, typed' = typed, draft' = draft,
         asked' = asked, conflicts' = conflicts, loads' = loads
  PROVE  AskedInv'
<1>. DEFINE i == SendingAt
           it == Settled(items[i], status, None)
           is == [items EXCEPT ![i] = it]
<1>1. i \in 1..Len(items)
  BY SendingAtIs
<1>2. items \in Seq(Item) /\ items[i] \in Item /\ reqs \in Requests
  BY <1>1 DEF QueueInv, Queue, Typed, Requests
<1>3. it \in Item /\ it.requestKey = items[i].requestKey /\ it.text = items[i].text
  BY <1>2 DEF Settled, Item, States
<1>. HIDE DEF it
<1>4. /\ is \in Seq(Item)
      /\ \A n \in 1..Len(is) : \E j \in 1..Len(items) :
           is[n].requestKey = items[j].requestKey /\ is[n].text = items[j].text
  BY <1>1, <1>2, <1>3, SettledClaims
<1>5. Proceed(is, ss, 0)
  BY DEF it
<1>. HIDE DEF is
<1>6. Unsent' = Unsent /\ Saved' = Saved
  BY DEF Unsent, Saved
<1>7. ASSUME NEW k \in Keys, NEW u \in Texts, ClaimsNow(k, u)' PROVE ClaimsNow(k, u)
  <2>1. Claims(k, u, MemoryOf(log), items', reqs', holds, restored, Unsent, Saved)
    BY <1>6, <1>7 DEF ClaimsNow
  <2>2. Claims(k, u, MemoryOf(log), is, ss, holds, restored, Unsent, Saved)
    BY <1>4, <1>5, <2>1, ProceedClaims
  <2>3. Claims(k, u, MemoryOf(log), items, reqs, holds, restored, Unsent, Saved)
    BY <1>2, <1>4, <2>2, QuieterClaims
  <2>. QED
    BY <2>3 DEF ClaimsNow
<1>. QED
  BY <1>7, FewerClaimsKeepAsked DEF AskedInv

LEMMA AnswerErrorKeepsAsked ==
  ASSUME QueueInv, AskedInv, NEW r \in 1..MaxRequests, AnswerError(r)
  PROVE  AskedInv'
<1>. DEFINE ss == [reqs EXCEPT ![r] = Idle]
<1>1. /\ flight = r /\ reqs[r].status \in {"refused", "failed"}
      /\ Proceed([items EXCEPT ![SendingAt] = Settled(items[SendingAt], reqs[r].status, None)], ss, 0)
      /\ log' = log /\ holds' = holds /\ restored' = restored /\ composer' = composer /\ typed' = typed
      /\ draft' = draft /\ asked' = asked /\ conflicts' = conflicts /\ loads' = loads
  BY DEF AnswerError, draftVars, viewVars, historyVars
<1>2. flight # 0 /\ Quieter(reqs, ss)
  BY <1>1, AwaitedIs
<1>3. ss \in Requests
  BY <1>2 DEF Quieter, Requests
<1>. HIDE DEF ss
<1>4. PICK status \in {"refused", "failed"} : status = reqs[r].status
  BY <1>1
<1>. QED
  BY <1>1, <1>2, <1>3, <1>4, FailedKeepsAsked

LEMMA LoseAnswerKeepsAsked ==
  ASSUME QueueInv, AskedInv, LoseAnswer
  PROVE  AskedInv'
<1>1. /\ flight # 0
      /\ Proceed([items EXCEPT ![SendingAt] = Settled(items[SendingAt], "failed", None)], Unheard, 0)
      /\ log' = log /\ holds' = holds /\ restored' = restored /\ composer' = composer /\ typed' = typed
      /\ draft' = draft /\ asked' = asked /\ conflicts' = conflicts /\ loads' = loads
  BY DEF LoseAnswer, draftVars, viewVars, historyVars
<1>2. Quieter(reqs, Unheard) /\ Unheard \in Requests
  <2>1. Quieter(reqs, Unheard)
    BY UnheardIsQuieter DEF QueueInv, Queue, Typed, Requests
  <2>. QED
    BY <2>1 DEF Quieter, Requests
<1>. QED
  BY <1>1, <1>2, FailedKeepsAsked

LEMMA DeliverKeepsAsked ==
  ASSUME QueueInv, AskedInv, Deliver
  PROVE  AskedInv'
<1>1. /\ \E ids : items' = Delivered(items, ids)
      /\ log' = log /\ reqs' = reqs /\ holds' = holds /\ restored' = restored
      /\ composer' = composer /\ typed' = typed
      /\ draft' = draft /\ asked' = asked /\ conflicts' = conflicts /\ loads' = loads
  BY DEF Deliver, serverVars, draftVars, historyVars
<1>2. items \in Seq(Item)
  BY DEF QueueInv, Queue, Typed
<1>3. PICK ids : items' = Delivered(items, ids)
  BY <1>1
<1>4. PICK e : LeftOf(items, ids, Len(items), Delivered(items, ids), e)
  BY <1>2, DeliveredIs
<1>5. \A n \in 1..Len(items') : \E j \in 1..Len(items) : items'[n] = items[j]
  BY <1>3, <1>4 DEF LeftOf
<1>6. Unsent' = Unsent /\ Saved' = Saved
  BY <1>1 DEF Unsent, Saved
<1>7. ASSUME NEW k \in Keys, NEW u \in Texts, ClaimsNow(k, u)' PROVE ClaimsNow(k, u)
  BY <1>1, <1>5, <1>6, <1>7 DEF ClaimsNow, Claims
<1>. QED
  BY <1>1, <1>7, FewerClaimsKeepAsked DEF AskedInv

LEMMA BranchKeepsAsked ==
  ASSUME QueueInv, AskedInv, NEW k \in Keys, Branch(k)
  PROVE  AskedInv'
<1>1. /\ reqs' = reqs /\ items' = items /\ holds' = holds /\ restored' = restored
      /\ composer' = composer /\ typed' = typed
      /\ draft' = draft /\ asked' = asked /\ conflicts' = conflicts /\ loads' = loads
  BY DEF Branch, serverUnchanged, queueVars, draftVars, viewVars, historyVars
<1>2. LogGood(log)
  BY DEF QueueInv
<1>3. PICK v \in Event : log' = Append(log, v) /\ v.kind = "moved" /\ v.key = k /\ Posts(log, k) # {}
  BY <1>2, BranchIs
<1>4. MemoryOf(log') = MemoryOf(log)
  BY <1>2, <1>3, MoveGrowsLog
<1>5. Unsent' = Unsent /\ Saved' = Saved
  BY <1>1 DEF Unsent, Saved
<1>6. ASSUME NEW l \in Keys, NEW u \in Texts, ClaimsNow(l, u)' PROVE ClaimsNow(l, u)
  BY <1>1, <1>4, <1>5, <1>6 DEF ClaimsNow
<1>. QED
  BY <1>1, <1>6, FewerClaimsKeepAsked DEF AskedInv

(* What a served request stores it claimed.                                *)
LEMMA ServedClaims ==
  ASSUME NEW st, st \in [Keys -> Texts \cup {Empty}], NEW is, NEW rs \in Requests, NEW f, NEW hs,
    NEW re, NEW tx, NEW dr,
         NEW r \in 1..MaxRequests, NEW tt, NEW q \in Request \cup {Idle},
         Served(st, rs, f, r, tt, q),
         NEW k \in Keys, NEW t \in Texts,
         Claims(k, t, tt, is, [rs EXCEPT ![r] = q], hs, re, tx, dr)
  PROVE  Claims(k, t, st, is, rs, hs, re, tx, dr)
<1>. DEFINE ss == [rs EXCEPT ![r] = q]
<1>1. ss[r] = q /\ \A m \in 1..MaxRequests : m # r => ss[m] = rs[m]
  BY DEF Requests
<1>2. /\ Under(rs[r]) /\ rs[r].key \in Keys /\ rs[r].text \in Texts
      /\ Under(q) => q.key = rs[r].key /\ q.text = rs[r].text
  <2>1. rs[r] \in Request \cup {Idle} /\ Under(rs[r])
    BY DEF Requests, Served
  <2>2. Under(q) => q # Idle /\ q.at # "answer"
    BY RequestIs
  <2>. QED
    BY <2>1, <2>2, RequestIs DEF Served
<1>. HIDE DEF ss
<1>3. Claims(k, t, tt, is, ss, hs, re, tx, dr)
  BY DEF ss
<1>4. tt = st \/ (st[rs[r].key] = Empty /\ tt = [st EXCEPT ![rs[r].key] = rs[r].text])
  BY DEF Served
<1>5. Empty \notin Texts
  BY PostingAssumption
<1>6. ASSUME tt[k] = t
      PROVE  st[k] = t \/ (st[k] = Empty /\ Under(rs[r]) /\ rs[r].key = k /\ rs[r].text = t)
  BY <1>2, <1>4, <1>6
<1>7. tt[k] = Empty => st[k] = Empty
  BY <1>2, <1>4, <1>5
<1>8. ASSUME NEW m \in 1..MaxRequests, Under(ss[m]), ss[m].key = k, ss[m].text = t
      PROVE  \E n \in 1..MaxRequests : Under(rs[n]) /\ rs[n].key = k /\ rs[n].text = t
  <2>1. CASE m = r
    BY <1>1, <1>2, <1>8, <2>1
  <2>2. CASE m # r
    BY <1>1, <1>8, <2>2
  <2>. QED
    BY <2>1, <2>2
<1>. QED
  BY <1>3, <1>6, <1>7, <1>8 DEF Claims

LEMMA ServeKeepsAsked ==
  ASSUME QueueInv, AskedInv, NEW r \in 1..MaxRequests, Serve(r)
  PROVE  AskedInv'
<1>1. /\ items' = items /\ holds' = holds /\ restored' = restored
      /\ composer' = composer /\ typed' = typed
      /\ draft' = draft /\ asked' = asked /\ conflicts' = conflicts /\ loads' = loads
  BY DEF Serve, LookFirst, Insert, KeyTaken, Repeat, Refuse, Break, serverUnchanged,
    queueVars, draftVars, viewVars, historyVars
<1>2. PICK q \in Request \cup {Idle} :
        /\ reqs' = [reqs EXCEPT ![r] = q]
        /\ Served(MemoryOf(log), reqs, flight, r, MemoryOf(log'), q)
  BY ServesIs
<1>3. PICK tt : tt = MemoryOf(log')
  OBVIOUS
<1>4. Served(MemoryOf(log), reqs, flight, r, tt, q)
  BY <1>2, <1>3
<1>5. MemoryOf(log) \in [Keys -> Texts \cup {Empty}] /\ reqs \in Requests
  BY DEF QueueInv, Queue, Typed, Requests
<1>6. Unsent' = Unsent /\ Saved' = Saved
  BY <1>1 DEF Unsent, Saved
<1>7. ASSUME NEW k \in Keys, NEW u \in Texts, ClaimsNow(k, u)' PROVE ClaimsNow(k, u)
  <2>1. Claims(k, u, tt, items, [reqs EXCEPT ![r] = q], holds, restored, Unsent, Saved)
    BY <1>1, <1>2, <1>3, <1>6, <1>7 DEF ClaimsNow
  <2>2. Claims(k, u, MemoryOf(log), items, reqs, holds, restored, Unsent, Saved)
    BY <1>4, <1>5, <2>1, ServedClaims
  <2>. QED
    BY <2>2 DEF ClaimsNow
<1>. QED
  BY <1>1, <1>7, FewerClaimsKeepAsked DEF AskedInv

LEMMA AdmitKeepsAsked ==
  ASSUME QueueInv, ComposerInv, AskedInv, Admit
  PROVE  AskedInv'
<1>1. PICK t, key : t = composer /\ key = KeyFor(t)
  OBVIOUS
<1>. DEFINE doubt == holds[t] = key \/ (restored # NotRestored /\ restored.unconfirmed)
           new == NewItem(key, t, doubt)
           is == Append(items, new)
           S == {k \in Keys : ClaimsNow(k, t)}
           T == {k \in Keys : ClaimsNow(k, t)'}
<1>2. /\ t # Empty /\ key \in Keys /\ Proceed(is, reqs, flight)
      /\ holds' = [holds EXCEPT ![t] = None] /\ restored' = NotRestored /\ log' = log
      /\ draft' = [text |-> t, key |-> key] /\ composer' = Empty /\ typed' = FALSE
      /\ asked' = IF Anew(t) THEN [asked EXCEPT ![t] = @ + 1] ELSE asked
      /\ conflicts' = conflicts /\ loads' = loads
  BY <1>1 DEF Admit, viewVars
<1>3. /\ t \in Texts /\ items \in Seq(Item) /\ reqs \in Requests /\ holds \in [Texts -> KeyOrNone]
      /\ restored \in Restoration \cup {NotRestored}
  BY <1>1, <1>2 DEF ComposerInv, QueueInv, Queue, Typed, Requests
<1>4. new \in Item /\ new.requestKey = key /\ new.text = t
  <2>1. doubt \in BOOLEAN
    BY <1>3, RestorationIs
  <2>. HIDE DEF doubt
  <2>. QED
    BY <1>2, <1>3, <2>1 DEF NewItem, Item, States
<1>. HIDE DEF new
<1>5. /\ is \in Seq(Item) /\ Len(is) = Len(items) + 1 /\ is[Len(items) + 1] = new /\ Len(items) \in Nat
      /\ \A n \in 1..Len(items) : is[n] = items[n]
  BY <1>3, <1>4
<1>. HIDE DEF is
<1>6. /\ \A u \in Texts : holds'[u] \in {None, holds[u]}
      /\ restored'.key = None /\ Unsent' = Empty
      /\ Saved'.key \in {key, None} /\ (Saved'.key # None => Saved'.text = t)
  BY <1>2, <1>3 DEF NotRestored, Unsent, Saved
<1>7. PICK re, dr : re = restored' /\ dr = Saved'
  OBVIOUS
<1>8. ASSUME NEW k \in Keys, NEW u \in Texts, ClaimsNow(k, u)'
      PROVE  ClaimsNow(k, u) \/ (k = key /\ u = t)
  <2>1. Claims(k, u, MemoryOf(log), items', reqs', holds', re, Empty, dr)
    BY <1>2, <1>6, <1>7, <1>8 DEF ClaimsNow
  <2>2. PICK hh : hh = holds'
    OBVIOUS
  <2>3. Claims(k, u, MemoryOf(log), items', reqs', hh, re, Empty, dr)
    BY <2>1, <2>2
  <2>4. Claims(k, u, MemoryOf(log), is, reqs, hh, re, Empty, dr)
    BY <1>2, <1>3, <1>5, <2>3, ProceedClaims
  <2>5. k # None /\ u # Empty
    BY KeysAre, PostingAssumption
  <2>6. ASSUME NEW n \in 1..Len(is), is[n].requestKey = k, is[n].text = u
        PROVE  \/ \E j \in 1..Len(items) : items[j].requestKey = k /\ items[j].text = u
               \/ k = key /\ u = t
    <3>1. CASE n = Len(items) + 1
      BY <1>4, <1>5, <2>6, <3>1
    <3>2. CASE n # Len(items) + 1
      <4>1. n \in 1..Len(items)
        BY <1>5, <3>2
      <4>. QED
        BY <1>5, <2>6, <4>1
    <3>. QED
      BY <3>1, <3>2
  <2>. QED
    BY <1>6, <1>7, <2>2, <2>4, <2>5, <2>6 DEF ClaimsNow, Claims
<1>9. ~Anew(t) => ClaimsNow(key, t)
  <2>. SUFFICES ASSUME ~Anew(t) PROVE ClaimsNow(key, t)
    OBVIOUS
  <2>1. CASE typed
    <3>1. holds[t] # None /\ restored = NotRestored
      BY <2>1 DEF Anew
    <3>2. holds[t] = key
      BY <1>1, <3>1 DEF KeyFor
    <3>. QED
      BY <3>2 DEF ClaimsNow, Claims
  <2>2. CASE ~typed
    <3>1. restored # NotRestored
      BY <1>1, <1>2, <2>2 DEF AskedInv
    <3>2. restored.key = key
      BY <1>1, <3>1 DEF KeyFor
    <3>3. Unsent = t
      BY <1>1, <2>2 DEF Unsent
    <3>. QED
      BY <3>2, <3>3 DEF ClaimsNow, Claims
  <2>. QED
    BY <2>1, <2>2 DEF ComposerInv
<1>10. asked \in [Texts -> Nat] /\ conflicts \in Nat /\ loads \in Nat
  BY DEF AskedInv
<1>11. asked' \in [Texts -> Nat] /\ \A u \in Texts : u # t => asked'[u] = asked[u]
  BY <1>2, <1>3, <1>10
<1>12. asked'[t] = IF Anew(t) THEN asked[t] + 1 ELSE asked[t]
  BY <1>2, <1>3, <1>10
<1>13. IsFiniteSet(S) /\ Cardinality(S) \in Nat
  <2>1. S \in SUBSET Keys
    OBVIOUS
  <2>2. IsFiniteSet(S)
    BY <2>1, KeysAre, FS_Subset
  <2>. QED
    BY <2>2, FS_CardinalityType
<1>14. T \subseteq S \cup {key} /\ (~Anew(t) => T \subseteq S)
  <2>1. ASSUME NEW k \in T PROVE k \in S \cup {key}
    BY <1>3, <1>8
  <2>2. ASSUME ~Anew(t), NEW k \in T PROVE k \in S
    BY <1>2, <1>3, <1>8, <1>9, <2>2
  <2>. QED
    BY <2>1, <2>2
<1>15. ASSUME Bounded PROVE Bounded'
  <2>. SUFFICES ASSUME NEW u \in Texts
                PROVE  Cardinality({k \in Keys : ClaimsNow(k, u)'}) <= asked'[u]
    BY DEF Bounded
  <2>1. CASE u = t
    <3>1. Cardinality(S) <= asked[t]
      BY <1>3, <1>15 DEF Bounded
    <3>. HIDE DEF S, T
    <3>2. CASE Anew(t)
      <4>1. IsFiniteSet(S \cup {key}) /\ Cardinality(S \cup {key}) <= Cardinality(S) + 1
            /\ Cardinality(S \cup {key}) \in Nat
        <5>1. IsFiniteSet(S \cup {key})
              /\ Cardinality(S \cup {key}) = IF key \in S THEN Cardinality(S) ELSE Cardinality(S) + 1
          BY <1>13, FS_AddElement
        <5>. QED
          BY <1>13, <5>1
      <4>2. Cardinality(T) <= Cardinality(S \cup {key}) /\ Cardinality(T) \in Nat
        <5>1. IsFiniteSet(T) /\ Cardinality(T) <= Cardinality(S \cup {key})
          BY <1>14, <4>1, FS_Subset
        <5>. QED
          BY <5>1, FS_CardinalityType
      <4>3. Cardinality(T) <= asked'[t]
        BY <1>3, <1>10, <1>12, <1>13, <3>1, <3>2, <4>1, <4>2
      <4>. QED
        BY <2>1, <4>3 DEF T
    <3>3. CASE ~Anew(t)
      <4>1. IsFiniteSet(T) /\ Cardinality(T) <= Cardinality(S)
        BY <1>13, <1>14, <3>3, FS_Subset
      <4>2. Cardinality(T) \in Nat
        BY <4>1, FS_CardinalityType
      <4>3. Cardinality(T) <= asked'[t]
        BY <1>3, <1>10, <1>12, <1>13, <3>1, <3>3, <4>1, <4>2
      <4>. QED
        BY <2>1, <4>3 DEF T
    <3>. QED
      BY <3>2, <3>3
  <2>2. CASE u # t
    <3>. DEFINE A == {k \in Keys : ClaimsNow(k, u)}
               B == {k \in Keys : ClaimsNow(k, u)'}
    <3>1. Cardinality(A) <= asked[u]
      BY <1>15 DEF Bounded
    <3>2. B \subseteq A /\ A \in SUBSET Keys
      BY <1>8, <2>2
    <3>. HIDE DEF A, B
    <3>3. IsFiniteSet(A)
      BY <3>2, KeysAre, FS_Subset
    <3>4. IsFiniteSet(B) /\ Cardinality(B) <= Cardinality(A)
      BY <3>2, <3>3, FS_Subset
    <3>5. Cardinality(A) \in Nat /\ Cardinality(B) \in Nat
      BY <3>3, <3>4, FS_CardinalityType
    <3>6. Cardinality(B) <= asked'[u]
      BY <1>10, <1>11, <2>2, <3>1, <3>4, <3>5
    <3>. QED
      BY <3>6 DEF B
  <2>. QED
    BY <2>1, <2>2
<1>. QED
  BY <1>2, <1>10, <1>11, <1>15 DEF AskedInv

LEMMA ReloadKeepsAsked ==
  ASSUME QueueInv, ComposerInv, AskedInv, Reload
  PROVE  AskedInv'
<1>1. PICK saved \in {draft} \cup (IF dirty THEN {[text |-> composer, key |-> None]} ELSE {}) :
        LET key == IF saved.text = Empty THEN None ELSE saved.key
        IN  /\ draft' = saved /\ composer' = saved.text
            /\ restored' = IF key = None THEN NotRestored
                           ELSE [key |-> key, text |-> saved.text, unconfirmed |-> TRUE]
            /\ typed' = (key = None /\ saved.text # Empty)
  BY DEF Reload
<1>2. /\ items' = <<>> /\ holds' = [t \in Texts |-> None] /\ reqs' = Unheard
      /\ log' = log /\ asked' = asked /\ conflicts' = conflicts /\ loads' = loads + 1
  BY DEF Reload
<1>3. Quieter(reqs, Unheard)
  BY UnheardIsQuieter DEF QueueInv, Queue, Typed, Requests
<1>4. asked \in [Texts -> Nat] /\ conflicts \in Nat /\ loads \in Nat
  BY DEF AskedInv
<1>5. saved.key # None => saved = draft
  BY <1>1
<1>6. composer' # Empty /\ ~typed' => restored' # NotRestored
  <2>1. ASSUME composer' # Empty, ~typed' PROVE saved.key # None /\ restored'.key = saved.key
    BY <1>1, <2>1
  <2>. QED
    BY <2>1 DEF NotRestored
<1>7. ASSUME NEW k \in Keys, restored'.key = k PROVE saved.key = k /\ saved.text # Empty
  BY <1>1, <1>7, KeysAre DEF NotRestored
<1>8. ASSUME conflicts = 0, NEW k \in Keys, NEW u \in Texts, ClaimsNow(k, u)' PROVE ClaimsNow(k, u)
  <2>1. k # None /\ u # Empty
    BY KeysAre, PostingAssumption
  <2>2. Saved = draft /\ Saved' = draft'
    BY <1>2, <1>8 DEF Saved
  <2>3. restored'.key = k /\ Unsent' = u => draft.key = k /\ draft.text = u
    <3>. SUFFICES ASSUME restored'.key = k, Unsent' = u PROVE draft.key = k /\ draft.text = u
      OBVIOUS
    <3>1. saved.key = k /\ saved = draft
      BY <1>5, <1>7, <2>1
    <3>2. composer' = u
      BY <2>1 DEF Unsent
    <3>. QED
      BY <1>1, <3>1, <3>2
  <2>4. draft'.key = k /\ draft'.text = u => draft.key = k /\ draft.text = u
    BY <1>1, <1>5, <2>1
  <2>5. \A r \in 1..MaxRequests : Under(reqs'[r]) => reqs'[r] = reqs[r]
    BY <1>2, <1>3 DEF Quieter
  <2>6. Len(items') = 0 /\ holds'[u] = None
    BY <1>2
  <2>7. \A i \in 1..Len(items') : FALSE
    BY <2>6
  <2>8. MemoryOf(log)' = MemoryOf(log)
    BY <1>2
  <2>. QED
    BY <1>8, <2>1, <2>2, <2>3, <2>4, <2>5, <2>6, <2>7, <2>8 DEF ClaimsNow, Claims
<1>9. ASSUME loads' = 0 \/ conflicts' = 0 PROVE Bounded'
  <2>1. conflicts = 0 /\ Bounded
    BY <1>2, <1>4, <1>9 DEF AskedInv
  <2>. QED
    BY <1>2, <1>4, <1>8, <2>1, FewerClaimsAreBounded
<1>. QED
  BY <1>2, <1>4, <1>6, <1>9 DEF AskedInv

(* A conflict gives up the key that is another message's for a new one.    *)
LEMMA AnswerConflictKeepsAsked ==
  ASSUME QueueInv, AskedInv, NEW r \in 1..MaxRequests, AnswerConflict(r)
  PROVE  AskedInv'
<1>1. PICK i, old : i = SendingAt /\ old = items[SendingAt].requestKey
  OBVIOUS
<1>. DEFINE it == Settled(items[i], "conflict", nextKey)
           is == [items EXCEPT ![i] = it]
           ss == [reqs EXCEPT ![r] = Idle]
           st == MemoryOf(log)
<1>2. /\ flight = r /\ reqs[r].at = "answer" /\ reqs[r].status = "conflict"
      /\ nextKey \in Keys /\ Proceed(is, ss, 0) /\ conflicts' = conflicts + 1
      /\ log' = log /\ holds' = holds /\ restored' = restored /\ composer' = composer /\ typed' = typed
      /\ asked' = asked /\ loads' = loads
  BY <1>1 DEF AnswerConflict, draftVars, viewVars
<1>3. flight # 0 /\ Quieter(reqs, ss)
  BY <1>2, AwaitedIs
<1>4. i \in 1..Len(items) /\ items[i].state = "sending" /\ items[i].requestKey = old
  BY <1>1, <1>3, SendingAtIs
<1>5. items \in Seq(Item) /\ items[i] \in Item /\ reqs \in Requests /\ ss \in Requests
  BY <1>3, <1>4 DEF QueueInv, Queue, Typed, Requests, Quieter
<1>6. it \in Item /\ it.requestKey = nextKey /\ it.text = items[i].text
  BY <1>2, <1>5 DEF Settled, Item, States
<1>7. old \in Keys /\ old # nextKey
  BY <1>4, NextKeyIs, KeysAre
<1>8. st[old] \notin {Empty, items[i].text}
  BY <1>2, <1>4 DEF QueueInv, Queue, ItemOK, Tells
<1>9. /\ \A j \in 1..Len(items) : j # i => items[j].requestKey # old
      /\ \A t \in Texts : holds[t] # old
      /\ restored.key # old
  <2>1. Owned(items, holds, restored.key)
    BY DEF QueueInv, Queue
  <2>2. old \in KeysOf(items[i])
    BY <1>4 DEF KeysOf
  <2>3. \A j \in 1..Len(items) : items[j].requestKey \in KeysOf(items[j])
    BY DEF KeysOf
  <2>. QED
    BY <1>4, <2>1, <2>2, <2>3 DEF Owned
<1>10. conflicts \in Nat /\ loads \in Nat /\ asked \in [Texts -> Nat]
  BY DEF AskedInv
<1>11. Unsent' = Unsent /\ Saved'.key = None
  BY <1>2, <1>10 DEF Unsent, Saved
<1>. HIDE DEF it, ss
<1>12. /\ is \in Seq(Item) /\ Len(is) = Len(items) /\ is[i] = it
       /\ \A j \in 1..Len(items) : j # i => is[j] = items[j]
  BY <1>4, <1>5, <1>6
<1>. HIDE DEF is
<1>13. PICK dr : dr = Saved'
  OBVIOUS
<1>14. ASSUME NEW k \in Keys, NEW u \in Texts, ClaimsNow(k, u)'
       PROVE  \/ ClaimsNow(k, u) /\ (u = items[i].text => k # old)
              \/ k = nextKey /\ u = items[i].text
  <2>1. Claims(k, u, st, items', reqs', holds, restored, Unsent, dr)
    BY <1>2, <1>11, <1>13, <1>14 DEF ClaimsNow
  <2>. HIDE DEF st
  <2>2. Claims(k, u, st, is, ss, holds, restored, Unsent, dr)
    BY <1>2, <1>5, <1>12, <2>1, ProceedClaims
  <2>3. k # None
    BY KeysAre
  <2>4. ASSUME NEW n \in 1..Len(is), is[n].requestKey = k, is[n].text = u
        PROVE  \/ /\ \E j \in 1..Len(items) : items[j].requestKey = k /\ items[j].text = u
                  /\ k # old
               \/ k = nextKey /\ u = items[i].text
    <3>1. CASE n = i
      BY <1>6, <1>12, <2>4, <3>1
    <3>2. CASE n # i
      BY <1>9, <1>12, <2>4, <3>2
    <3>. QED
      BY <3>1, <3>2
  <2>5. ASSUME NEW m \in 1..MaxRequests, Under(ss[m]), ss[m].key = k, ss[m].text = u
        PROVE  Under(reqs[m]) /\ reqs[m].key = k /\ reqs[m].text = u
    BY <1>3, <2>5 DEF Quieter
  <2>6. CASE st[k] = u
    BY <1>8, <2>6 DEF ClaimsNow, Claims, st
  <2>7. CASE st[k] = Empty /\ \E m \in 1..MaxRequests : Under(ss[m]) /\ ss[m].key = k /\ ss[m].text = u
    BY <1>8, <2>5, <2>7 DEF ClaimsNow, Claims, st
  <2>8. CASE \E n \in 1..Len(is) : is[n].requestKey = k /\ is[n].text = u
    BY <2>4, <2>8 DEF ClaimsNow, Claims
  <2>9. CASE holds[u] = k
    BY <1>9, <2>9 DEF ClaimsNow, Claims
  <2>10. CASE restored.key = k /\ Unsent = u
    BY <1>9, <2>10 DEF ClaimsNow, Claims
  <2>11. dr.key # k
    BY <1>11, <1>13, <2>3
  <2>. QED
    BY <2>2, <2>6, <2>7, <2>8, <2>9, <2>10, <2>11 DEF Claims
<1>15. ASSUME Bounded PROVE Bounded'
  <2>. SUFFICES ASSUME NEW u \in Texts
                PROVE  Cardinality({k \in Keys : ClaimsNow(k, u)'}) <= asked[u]
    BY <1>2 DEF Bounded
  <2>. DEFINE A == {k \in Keys : ClaimsNow(k, u)}
             B == {k \in Keys : ClaimsNow(k, u)'}
  <2>1. IsFiniteSet(A) /\ Cardinality(A) \in Nat
    <3>1. A \in SUBSET Keys
      OBVIOUS
    <3>2. IsFiniteSet(A)
      BY <3>1, KeysAre, FS_Subset
    <3>. QED
      BY <3>2, FS_CardinalityType
  <2>2. Cardinality(A) <= asked[u] /\ asked[u] \in Nat
    BY <1>10, <1>15 DEF Bounded
  <2>3. CASE u = items[i].text
    <3>1. old \in A
      BY <1>4, <1>7, <2>3 DEF ClaimsNow, Claims
    <3>2. B \subseteq (A \ {old}) \cup {nextKey}
      BY <1>14, <2>3
    <3>. HIDE DEF A, B
    <3>3. IsFiniteSet(A \ {old}) /\ Cardinality(A \ {old}) = Cardinality(A) - 1
      <4>1. IsFiniteSet(A \ {old})
            /\ Cardinality(A \ {old}) = IF old \in A THEN Cardinality(A) - 1 ELSE Cardinality(A)
        BY <2>1, FS_RemoveElement
      <4>. QED
        BY <3>1, <4>1
    <3>4. IsFiniteSet((A \ {old}) \cup {nextKey}) /\ Cardinality((A \ {old}) \cup {nextKey}) <= Cardinality(A)
      <4>1. PICK D : D = A \ {old}
        OBVIOUS
      <4>2. IsFiniteSet(D) /\ Cardinality(D) \in Nat /\ Cardinality(D) = Cardinality(A) - 1
        <5>1. IsFiniteSet(D) /\ Cardinality(D) = Cardinality(A) - 1
          BY <3>3, <4>1
        <5>. QED
          BY <5>1, FS_CardinalityType
      <4>3. IsFiniteSet(D \cup {nextKey})
            /\ Cardinality(D \cup {nextKey}) = IF nextKey \in D THEN Cardinality(D) ELSE Cardinality(D) + 1
        BY <4>2, FS_AddElement
      <4>4. Cardinality(D \cup {nextKey}) <= Cardinality(A)
        BY <2>1, <4>2, <4>3
      <4>. QED
        BY <4>1, <4>3, <4>4
    <3>5. IsFiniteSet(B) /\ Cardinality(B) <= Cardinality((A \ {old}) \cup {nextKey})
      BY <3>2, <3>4, FS_Subset
    <3>6. Cardinality(B) \in Nat /\ Cardinality((A \ {old}) \cup {nextKey}) \in Nat
      BY <3>4, <3>5, FS_CardinalityType
    <3>7. Cardinality(B) <= asked[u]
      BY <2>1, <2>2, <3>4, <3>5, <3>6
    <3>. QED
      BY <3>7 DEF B
  <2>4. CASE u # items[i].text
    <3>1. B \subseteq A
      BY <1>14, <2>4
    <3>. HIDE DEF A, B
    <3>2. IsFiniteSet(B) /\ Cardinality(B) <= Cardinality(A)
      BY <2>1, <3>1, FS_Subset
    <3>3. Cardinality(B) \in Nat
      BY <3>2, FS_CardinalityType
    <3>4. Cardinality(B) <= asked[u]
      BY <2>1, <2>2, <3>2, <3>3
    <3>. QED
      BY <3>4 DEF B
  <2>. QED
    BY <2>3, <2>4
<1>. QED
  BY <1>2, <1>10, <1>15 DEF AskedInv

LEMMA StepKeepsAsked ==
  ASSUME QueueInv, ComposerInv, AskedInv, Next
  PROVE  AskedInv'
BY TypeKeepsAsked, AdmitKeepsAsked, RetryKeepsAsked, EditKeepsAsked, TakeBackKeepsAsked, HoldExpiresKeepsAsked,
   ReloadKeepsAsked, AnswerOkKeepsAsked, AnswerConflictKeepsAsked, AnswerErrorKeepsAsked, LoseAnswerKeepsAsked,
   ServeKeepsAsked, BranchKeepsAsked, DeliverKeepsAsked
   DEF Next, Answer

LEMMA InitAsksNothing ==
  ASSUME Init
  PROVE  AskedInv
<1>1. /\ log = <<>> /\ reqs = [r \in 1..MaxRequests |-> Idle]
      /\ items = <<>> /\ holds = [t \in Texts |-> None] /\ restored = NotRestored
      /\ composer = Empty /\ draft = [text |-> Empty, key |-> None] /\ typed = FALSE
      /\ loads = 0 /\ conflicts = 0 /\ asked = [t \in Texts |-> 0]
  BY DEF Init
<1>2. LogGood(log)
  BY <1>1 DEF LogGood, Posts
<1>3. \A k \in Keys : MemoryOf(log)[k] = Empty
  BY <1>1, <1>2, MemoryIs DEF Posts
<1>4. \A r \in 1..MaxRequests : ~Under(reqs[r])
  BY <1>1, IdleIs
<1>5. Len(items) = 0 /\ restored.key = None /\ draft.key = None /\ \A t \in Texts : holds[t] = None
  BY <1>1 DEF NotRestored
<1>6. Saved.key = None
  BY <1>5 DEF Saved
<1>7. ASSUME NEW k \in Keys, NEW t \in Texts PROVE ~ClaimsNow(k, t)
  <2>1. k # None /\ t # Empty
    BY KeysAre, PostingAssumption
  <2>2. \A i \in 1..Len(items) : FALSE
    BY <1>5
  <2>. QED
    BY <1>3, <1>4, <1>5, <1>6, <2>1, <2>2 DEF ClaimsNow, Claims
<1>8. Bounded
  <2>. SUFFICES ASSUME NEW t \in Texts
                PROVE  Cardinality({k \in Keys : ClaimsNow(k, t)}) <= asked[t]
    BY DEF Bounded
  <2>1. {k \in Keys : ClaimsNow(k, t)} = {}
    BY <1>7
  <2>2. Cardinality({k \in Keys : ClaimsNow(k, t)}) = 0
    BY <2>1, FS_EmptySet
  <2>. QED
    BY <1>1, <2>2
<1>. QED
  BY <1>1, <1>8 DEF AskedInv

LEMMA StutterKeepsAsked ==
  ASSUME AskedInv, UNCHANGED vars
  PROVE  AskedInv'
<1>1. /\ log' = log /\ reqs' = reqs /\ items' = items /\ holds' = holds /\ restored' = restored
      /\ composer' = composer /\ typed' = typed /\ draft' = draft
      /\ asked' = asked /\ conflicts' = conflicts /\ loads' = loads
  BY DEF vars, serverVars, queueVars, draftVars, viewVars, historyVars
<1>2. Unsent' = Unsent /\ Saved' = Saved
  BY <1>1 DEF Unsent, Saved
<1>3. ASSUME NEW k \in Keys, NEW u \in Texts, ClaimsNow(k, u)' PROVE ClaimsNow(k, u)
  BY <1>1, <1>2, <1>3 DEF ClaimsNow
<1>. QED
  BY <1>1, <1>3, FewerClaimsKeepAsked DEF AskedInv

(* Every stored copy of a text has a key that claims it.                   *)
LEMMA CopiesAreClaimed ==
  ASSUME QueueInv, NEW t \in Texts
  PROVE  Copies(t) <= Cardinality({k \in Keys : ClaimsNow(k, t)}) /\ Copies(t) \in Nat
<1>. DEFINE S == {n \in 1..Len(log) : log[n].kind = "posted" /\ log[n].text = t}
           T == {k \in Keys : ClaimsNow(k, t)}
           g == [n \in S |-> log[n].key]
<1>1. LogGood(log) /\ log \in Seq(Event) /\ Len(log) \in Nat
  BY DEF QueueInv, LogGood
<1>2. \A n \in S : log[n].key \in Keys /\ n \in Posts(log, log[n].key)
  <2>. SUFFICES ASSUME NEW n \in S PROVE log[n].key \in Keys /\ n \in Posts(log, log[n].key)
    OBVIOUS
  <2>1. log[n] \in Event
    BY <1>1
  <2>. QED
    BY <2>1, EventIs DEF Posts
<1>3. g \in [S -> T]
  <2>. SUFFICES ASSUME NEW n \in S PROVE log[n].key \in T
    OBVIOUS
  <2>1. MemoryOf(log)[log[n].key] = t
    BY <1>1, <1>2, MemoryIs
  <2>. QED
    BY <1>2, <2>1 DEF ClaimsNow, Claims
<1>4. \A m, n \in S : g[m] = g[n] => m = n
  BY <1>1, <1>2 DEF LogGood
<1>5. IsFiniteSet(T)
  <2>1. T \in SUBSET Keys
    OBVIOUS
  <2>. QED
    BY <2>1, KeysAre, FS_Subset
<1>6. IsFiniteSet(S)
  <2>1. IsFiniteSet(1..Len(log))
    BY <1>1, FS_Interval
  <2>2. S \in SUBSET (1..Len(log))
    OBVIOUS
  <2>. QED
    BY <2>1, <2>2, FS_Subset
<1>. HIDE DEF S, T, g
<1>7. g \in Injection(S, T)
  BY <1>3, <1>4 DEF Injection, IsInjective
<1>8. Cardinality(S) <= Cardinality(T)
  BY <1>5, <1>7, FS_Injection DEF ExistsInjection
<1>9. Cardinality(S) \in Nat
  BY <1>6, FS_CardinalityType
<1>. QED
  BY <1>8, <1>9 DEF Copies, S, T

-----------------------------------------------------------------------------
(* The list that is shown. The predicates speak of the log lg, the p       *)
(* events that were delivered, the list ls and the newest applied one, a.  *)

TopicNow(lg, k) == lg[LastAt(lg, k, Len(lg))].topic
PostOf(lg, k) == CHOOSE n \in Posts(lg, k) : TRUE

(* The stream has more to say of the message under k.                      *)
Beyond(lg, p, k) == \E n \in (p + 1)..Len(lg) : lg[n].key = k

(* The list is right about every message the stream is through with.       *)
ListTrue(lg, p, ls) ==
  \A k \in Keys : Posts(lg, k) # {} /\ ~Beyond(lg, p, k) => (k \in ls <=> TopicNow(lg, k) = Here)

(* A confirmed item waits for a frame that will come.                      *)
Comes(is, lg, p, ls) ==
  \A i \in 1..Len(is) :
    is[i].state = "confirmed" => is[i].requestKey \notin ls /\ Beyond(lg, p, is[i].requestKey)

(* An answer that says here is still true, or a frame that tells otherwise *)
(* will come or was applied.                                               *)
Told(k, lg, p, a) == TopicNow(lg, k) = Here \/ Beyond(lg, p, k) \/ (a # 0 /\ a >= PostOf(lg, k))

SaysHere(q) == q.at = "answer" /\ q.status = "ok" /\ q.topic = Here

Fresh(is, q, lg, p, a) ==
  \A i \in 1..Len(is) : is[i].state = "sending" /\ SaysHere(q) => Told(is[i].requestKey, lg, p, a)

ViewInv ==
  /\ pos \in 0..Len(log) /\ applied \in 0..pos /\ list \subseteq Keys
  /\ ListTrue(log, pos, list)
  /\ Comes(items, log, pos, list)
  /\ Fresh(items, reqs[flight], log, pos, applied)

LEMMA PostIs ==
  ASSUME NEW lg, LogGood(lg), NEW k \in Keys, NEW n \in Posts(lg, k)
  PROVE  PostOf(lg, k) = n /\ n \in 1..Len(lg) /\ lg[n].key = k /\ lg[n].topic = Here
<1>1. PostOf(lg, k) \in Posts(lg, k)
  BY DEF PostOf
<1>2. n \in 1..Len(lg) /\ lg[n].kind = "posted" /\ lg[n].key = k /\ lg[n] \in Event
  BY DEF LogGood, Posts
<1>. QED
  BY <1>1, <1>2, EventIs DEF LogGood

(* What an event of another message leaves as it was.                      *)
LEMMA OtherIs ==
  ASSUME NEW lg, LogGood(lg), NEW v \in Event, NEW k \in Keys, NEW p \in 0..Len(lg), Posts(lg, k) # {}
  PROVE  /\ Beyond(lg, p, k) => Beyond(Append(lg, v), p, k)
         /\ v.key = k => Beyond(Append(lg, v), p, k)
         /\ v.key # k =>
              /\ PostOf(Append(lg, v), k) = PostOf(lg, k)
              /\ TopicNow(Append(lg, v), k) = TopicNow(lg, k)
              /\ Beyond(Append(lg, v), p, k) => Beyond(lg, p, k)
<1>. DEFINE a == Append(lg, v)
<1>1. /\ lg \in Seq(Event) /\ Len(lg) \in Nat /\ a \in Seq(Event) /\ Len(a) = Len(lg) + 1
      /\ a[Len(lg) + 1] = v /\ \A m \in 1..Len(lg) : a[m] = lg[m]
  BY DEF LogGood
<1>2. v.key # k => Posts(a, k) = Posts(lg, k)
  BY <1>1, PostsAppended
<1>. HIDE DEF a
<1>3. Beyond(lg, p, k) => Beyond(a, p, k)
  BY <1>1 DEF Beyond
<1>4. v.key = k => Beyond(a, p, k)
  <2>1. Len(lg) + 1 \in (p + 1)..Len(a)
    BY <1>1
  <2>. QED
    BY <1>1, <2>1 DEF Beyond
<1>5. ASSUME v.key # k
      PROVE  TopicNow(a, k) = TopicNow(lg, k) /\ (Beyond(a, p, k) => Beyond(lg, p, k))
  <2>1. {m \in 1..Len(a) : a[m].key = k} = {m \in 1..Len(lg) : lg[m].key = k}
    BY <1>1, <1>5
  <2>2. LastAt(a, k, Len(a)) = LastAt(lg, k, Len(lg))
    BY <2>1 DEF LastAt
  <2>3. LastAt(lg, k, Len(lg)) \in 1..Len(lg)
    <3>1. PICK n \in Posts(lg, k) : TRUE
      OBVIOUS
    <3>2. n \in 1..Len(lg) /\ lg[n].key = k
      BY <3>1, PostIs
    <3>. QED
      BY <1>1, <3>2, LastIs
  <2>4. ASSUME Beyond(a, p, k) PROVE Beyond(lg, p, k)
    <3>1. PICK n \in (p + 1)..Len(a) : a[n].key = k
      BY <2>4 DEF Beyond
    <3>2. n \in (p + 1)..Len(lg) /\ lg[n].key = k
      BY <1>1, <1>5, <3>1
    <3>. QED
      BY <3>2 DEF Beyond
  <2>. QED
    BY <1>1, <2>2, <2>3, <2>4 DEF TopicNow
<1>. QED
  BY <1>2, <1>3, <1>4, <1>5 DEF PostOf, a

(* An event is appended: what is shown stays right.                        *)
LEMMA AppendKeepsView ==
  ASSUME NEW lg, LogGood(lg), NEW v \in Event, v.kind = "moved" \/ Posts(lg, v.key) = {},
         NEW p \in 0..Len(lg), NEW ls
  PROVE  /\ ListTrue(lg, p, ls) => ListTrue(Append(lg, v), p, ls)
         /\ \A k \in Keys, a \in Nat : Posts(lg, k) # {} /\ Told(k, lg, p, a) => Told(k, Append(lg, v), p, a)
         /\ Beyond(Append(lg, v), p, v.key)
<1>. DEFINE lv == Append(lg, v)
<1>1. Beyond(lv, p, v.key)
  <2>1. /\ Len(lg) \in Nat /\ Len(lv) = Len(lg) + 1 /\ lv[Len(lg) + 1] = v
    BY DEF LogGood
  <2>2. Len(lg) + 1 \in (p + 1)..Len(lv)
    BY <2>1
  <2>. HIDE DEF lv
  <2>. QED
    BY <2>1, <2>2 DEF Beyond
<1>2. ASSUME NEW k \in Keys, NEW a \in Nat, Posts(lg, k) # {}, Told(k, lg, p, a)
      PROVE  Told(k, lv, p, a)
  <2>1. CASE v.key = k
    BY <1>1, <2>1 DEF Told
  <2>2. CASE v.key # k
    <3>1. /\ PostOf(lv, k) = PostOf(lg, k) /\ TopicNow(lv, k) = TopicNow(lg, k)
          /\ Beyond(lg, p, k) => Beyond(lv, p, k)
      BY <1>2, <2>2, OtherIs
    <3>. HIDE DEF lv
    <3>. QED
      BY <1>2, <3>1 DEF Told
  <2>. QED
    BY <2>1, <2>2
<1>3. ASSUME ListTrue(lg, p, ls), NEW k \in Keys, Posts(lv, k) # {}, ~Beyond(lv, p, k)
      PROVE  k \in ls <=> TopicNow(lv, k) = Here
  <2>1. v.key # k
    BY <1>1, <1>3
  <2>2. Posts(lv, k) = Posts(lg, k)
    BY <2>1, PostsAppended DEF LogGood
  <2>3. TopicNow(lv, k) = TopicNow(lg, k) /\ ~Beyond(lg, p, k)
    BY <1>3, <2>1, <2>2, OtherIs
  <2>. HIDE DEF lv
  <2>. QED
    BY <1>3, <2>2, <2>3 DEF ListTrue
<1>4. ListTrue(lg, p, ls) => ListTrue(lv, p, ls)
  <2>. HIDE DEF lv
  <2>. QED
    BY <1>3 DEF ListTrue
<1>. QED
  BY <1>1, <1>2, <1>4

(* The queue goes on: what was confirmed in is is, and what is sent anew   *)
(* is not answered yet.                                                    *)
LEMMA ProceedView ==
  ASSUME NEW is \in Seq(Item), NEW rs \in Requests, NEW f, Proceed(is, rs, f)
  PROVE  /\ \A n \in 1..Len(items') : items'[n].state = "confirmed" =>
              \E j \in 1..Len(is) : is[j].state = "confirmed" /\ is[j].requestKey = items'[n].requestKey
         /\ reqs'[flight'].at = "answer" => items' = is /\ reqs' = rs /\ flight' = f
<1>1. CASE items' = is /\ reqs' = rs /\ flight' = f
  BY <1>1
<1>2. CASE \E h, m : Starts(is, rs, h, m, items', reqs', flight')
  <2>1. PICK h, m : Starts(is, rs, h, m, items', reqs', flight')
    BY <1>2
  <2>2. /\ Len(items') = Len(is) /\ h \in 1..Len(is) /\ items'[h].state # "confirmed"
        /\ \A i \in 1..Len(is) : i # h => items'[i] = is[i]
    <3>1. h \in 1..Len(is) /\ items' = [is EXCEPT ![h].state = "sending"] /\ is[h] \in Item
      BY <2>1 DEF Starts
    <3>2. items'[h].state = "sending"
      BY <3>1 DEF Item
    <3>. QED
      BY <3>1, <3>2
  <2>3. reqs'[flight'].at # "answer"
    <3>1. reqs'[m].at = Entry(is[h].text) /\ flight' = m
      BY <2>1 DEF Starts, Requests
    <3>. QED
      BY <3>1 DEF Entry
  <2>. QED
    BY <2>2, <2>3
<1>. QED
  BY <1>1, <1>2, ProceedIs

(* The page goes on with items it had, or without an answer.               *)
LEMMA ProceedKeepsView ==
  ASSUME QueueInv, ViewInv, QueueInv', NEW is \in Seq(Item), NEW rs \in Requests, NEW f, Proceed(is, rs, f),
         f = 0 \/ (f = flight /\ rs = reqs),
         \A n \in 1..Len(is) : is[n].state \in {"confirmed", "sending"} =>
           \E j \in 1..Len(items) : items[j].state = is[n].state /\ items[j].requestKey = is[n].requestKey,
         log' = log, pos' = pos, list' = list, applied' = applied
  PROVE  ViewInv'
<1>1. Comes(items', log, pos, list)
  <2>. SUFFICES ASSUME NEW n \in 1..Len(items'), items'[n].state = "confirmed"
                PROVE  items'[n].requestKey \notin list /\ Beyond(log, pos, items'[n].requestKey)
    BY DEF Comes
  <2>1. PICK j \in 1..Len(is) : is[j].state = "confirmed" /\ is[j].requestKey = items'[n].requestKey
    BY ProceedView
  <2>2. PICK i \in 1..Len(items) : items[i].state = "confirmed" /\ items[i].requestKey = is[j].requestKey
    BY <2>1
  <2>. QED
    BY <2>1, <2>2 DEF ViewInv, Comes
<1>2. Fresh(items', reqs'[flight'], log, pos, applied)
  <2>. SUFFICES ASSUME NEW n \in 1..Len(items'), items'[n].state = "sending", SaysHere(reqs'[flight'])
                PROVE  Told(items'[n].requestKey, log, pos, applied)
    BY DEF Fresh
  <2>1. flight' # 0
    BY DEF QueueInv, Queue, Sending
  <2>2. items' = is /\ reqs' = reqs /\ flight' = flight
    BY <2>1, ProceedView DEF SaysHere
  <2>3. PICK j \in 1..Len(items) : items[j].state = "sending" /\ items[j].requestKey = items'[n].requestKey
    BY <2>2
  <2>. QED
    BY <2>2, <2>3 DEF ViewInv, Fresh
<1>. QED
  BY <1>1, <1>2 DEF ViewInv

LEMMA SameKeepsView ==
  ASSUME ViewInv, log' = log, items' = items, reqs' = reqs, flight' = flight,
         pos' = pos, list' = list, applied' = applied
  PROVE  ViewInv'
BY DEF ViewInv

LEMMA AdmitKeepsView ==
  ASSUME QueueInv, ComposerInv, ViewInv, QueueInv', Admit
  PROVE  ViewInv'
<1>1. PICK t, key : t = composer /\ key = KeyFor(t)
  OBVIOUS
<1>. DEFINE doubt == holds[t] = key \/ (restored # NotRestored /\ restored.unconfirmed)
           new == NewItem(key, t, doubt)
           is == Append(items, new)
<1>2. /\ t # Empty /\ key \in Keys /\ Proceed(is, reqs, flight)
      /\ log' = log /\ pos' = pos /\ list' = list /\ applied' = applied
  BY <1>1 DEF Admit, viewVars
<1>3. t \in Texts /\ items \in Seq(Item) /\ reqs \in Requests /\ restored \in Restoration \cup {NotRestored}
  BY <1>1, <1>2 DEF ComposerInv, QueueInv, Queue, Typed, Requests
<1>4. new \in Item /\ new.state = "queued"
  <2>1. doubt \in BOOLEAN
    BY <1>3, RestorationIs
  <2>. HIDE DEF doubt
  <2>. QED
    BY <1>2, <1>3, <2>1 DEF NewItem, Item, States
<1>. HIDE DEF new
<1>5. /\ is \in Seq(Item) /\ Len(is) = Len(items) + 1 /\ is[Len(items) + 1] = new /\ Len(items) \in Nat
      /\ \A n \in 1..Len(items) : is[n] = items[n]
  BY <1>3, <1>4
<1>. HIDE DEF is
<1>6. ASSUME NEW n \in 1..Len(is), is[n].state \in {"confirmed", "sending"}
      PROVE  \E j \in 1..Len(items) : items[j].state = is[n].state /\ items[j].requestKey = is[n].requestKey
  <2>1. n # Len(items) + 1
    BY <1>4, <1>5, <1>6
  <2>2. n \in 1..Len(items)
    BY <1>5, <2>1
  <2>. QED
    BY <1>5, <2>2
<1>. QED
  BY <1>2, <1>3, <1>5, <1>6, ProceedKeepsView

LEMMA RetryKeepsView ==
  ASSUME QueueInv, ViewInv, QueueInv', NEW i \in 1..Len(items), Retry(i)
  PROVE  ViewInv'
<1>. DEFINE is == Retried(items, i)
<1>1. /\ items[i].state = "failed" /\ Proceed(is, reqs, flight)
      /\ log' = log /\ pos' = pos /\ list' = list /\ applied' = applied
  BY DEF Retry, viewVars
<1>2. items \in Seq(Item) /\ reqs \in Requests /\ items[i] \in Item
  BY DEF QueueInv, Queue, Typed, Requests
<1>3. /\ is \in Seq(Item)
      /\ \A n \in 1..Len(is) : is[n].state \in {"confirmed", "sending"} =>
           \E j \in 1..Len(items) : items[j].state = is[n].state /\ items[j].requestKey = is[n].requestKey
  <2>. DEFINE it == [items[i] EXCEPT !.state = "queued"]
  <2>1. it \in Item /\ it.state = "queued"
    BY <1>2 DEF Item, States
  <2>. HIDE DEF it
  <2>2. CASE items[i].unconfirmed
    <3>1. is = [items EXCEPT ![i] = it]
      BY <2>2 DEF Retried, it
    <3>. HIDE DEF is
    <3>. QED
      BY <1>2, <2>1, <3>1
  <2>3. CASE ~items[i].unconfirmed
    <3>. DEFINE js == RemoveAt(items, i)
    <3>1. is = Append(js, it)
      BY <2>3 DEF Retried, it
    <3>2. js \in Seq(Item) /\ \A n \in 1..Len(js) : \E j \in 1..Len(items) : js[n] = items[j]
      BY <1>2, RemovedClaims
    <3>. HIDE DEF is, js
    <3>3. is \in Seq(Item) /\ Len(is) = Len(js) + 1 /\ is[Len(js) + 1] = it /\ Len(js) \in Nat
          /\ \A n \in 1..Len(js) : is[n] = js[n]
      BY <2>1, <3>1, <3>2
    <3>4. ASSUME NEW n \in 1..Len(is), is[n].state \in {"confirmed", "sending"}
          PROVE  \E j \in 1..Len(items) : items[j].state = is[n].state /\ items[j].requestKey = is[n].requestKey
      <4>1. n # Len(js) + 1
        BY <2>1, <3>3, <3>4
      <4>2. n \in 1..Len(js)
        BY <3>3, <4>1
      <4>. QED
        BY <3>2, <3>3, <4>2
    <3>. QED
      BY <3>3, <3>4
  <2>. QED
    BY <2>2, <2>3
<1>. HIDE DEF is
<1>. QED
  BY <1>1, <1>2, <1>3, ProceedKeepsView

(* An item is taken out.                                                   *)
LEMMA RemoveKeepsView ==
  ASSUME QueueInv, ViewInv, QueueInv', NEW i \in 1..Len(items), Proceed(RemoveAt(items, i), reqs, flight),
         log' = log, pos' = pos, list' = list, applied' = applied
  PROVE  ViewInv'
<1>1. items \in Seq(Item) /\ reqs \in Requests
  BY DEF QueueInv, Queue, Typed, Requests
<1>2. PICK is : is = RemoveAt(items, i)
  OBVIOUS
<1>3. is \in Seq(Item) /\ \A n \in 1..Len(is) : \E j \in 1..Len(items) : is[n] = items[j]
  BY <1>1, <1>2, RemovedClaims
<1>4. \A n \in 1..Len(is) : is[n].state \in {"confirmed", "sending"} =>
        \E j \in 1..Len(items) : items[j].state = is[n].state /\ items[j].requestKey = is[n].requestKey
  BY <1>3
<1>. QED
  BY <1>1, <1>2, <1>3, <1>4, ProceedKeepsView

(* The item that was sent failed.                                          *)
LEMMA FailedKeepsView ==
  ASSUME QueueInv, ViewInv, QueueInv', flight # 0, NEW it \in Item, it.state = "failed", NEW ss \in Requests,
         Proceed([items EXCEPT ![SendingAt] = it], ss, 0),
         log' = log, pos' = pos, list' = list, applied' = applied
  PROVE  ViewInv'
<1>1. SendingAt \in 1..Len(items)
  BY SendingAtIs
<1>2. items \in Seq(Item)
  BY DEF QueueInv, Queue, Typed
<1>3. PICK is : is = [items EXCEPT ![SendingAt] = it]
  OBVIOUS
<1>4. /\ is \in Seq(Item) /\ Len(is) = Len(items) /\ is[SendingAt] = it
      /\ \A j \in 1..Len(items) : j # SendingAt => is[j] = items[j]
  BY <1>1, <1>2, <1>3
<1>5. \A n \in 1..Len(is) : is[n].state \in {"confirmed", "sending"} =>
        \E j \in 1..Len(items) : items[j].state = is[n].state /\ items[j].requestKey = is[n].requestKey
  BY <1>4
<1>. QED
  BY <1>3, <1>4, <1>5, ProceedKeepsView

LEMMA AnswerConflictKeepsView ==
  ASSUME QueueInv, ViewInv, QueueInv', NEW r \in 1..MaxRequests, AnswerConflict(r)
  PROVE  ViewInv'
<1>. DEFINE ss == [reqs EXCEPT ![r] = Idle]
           it == Settled(items[SendingAt], "conflict", nextKey)
<1>1. /\ flight = r /\ nextKey \in Keys /\ Proceed([items EXCEPT ![SendingAt] = it], ss, 0)
      /\ log' = log /\ pos' = pos /\ list' = list /\ applied' = applied
  BY DEF AnswerConflict, viewVars
<1>2. flight # 0 /\ Quieter(reqs, ss)
  BY <1>1, AwaitedIs
<1>3. ss \in Requests
  BY <1>2 DEF Quieter, Requests
<1>4. items[SendingAt] \in Item
  BY <1>2, SendingAtIs, NextKeyIs
<1>5. it \in Item /\ it.state = "failed"
  BY <1>1, <1>4 DEF Settled, Item, States
<1>. HIDE DEF ss, it
<1>. QED
  BY <1>1, <1>2, <1>3, <1>5, FailedKeepsView

LEMMA AnswerErrorKeepsView ==
  ASSUME QueueInv, ViewInv, QueueInv', NEW r \in 1..MaxRequests, AnswerError(r)
  PROVE  ViewInv'
<1>. DEFINE ss == [reqs EXCEPT ![r] = Idle]
           it == Settled(items[SendingAt], reqs[r].status, None)
<1>1. /\ flight = r /\ reqs[r].status \in {"refused", "failed"}
      /\ Proceed([items EXCEPT ![SendingAt] = it], ss, 0)
      /\ log' = log /\ pos' = pos /\ list' = list /\ applied' = applied
  BY DEF AnswerError, viewVars
<1>2. flight # 0 /\ Quieter(reqs, ss)
  BY <1>1, AwaitedIs
<1>3. ss \in Requests
  BY <1>2 DEF Quieter, Requests
<1>4. items[SendingAt] \in Item
  BY <1>2, SendingAtIs, NextKeyIs
<1>5. it \in Item /\ it.state = "failed"
  BY <1>1, <1>4 DEF Settled, Item, States
<1>. HIDE DEF ss, it
<1>. QED
  BY <1>1, <1>2, <1>3, <1>5, FailedKeepsView

LEMMA LoseAnswerKeepsView ==
  ASSUME QueueInv, ViewInv, QueueInv', LoseAnswer
  PROVE  ViewInv'
<1>. DEFINE it == Settled(items[SendingAt], "failed", None)
<1>1. /\ flight # 0 /\ Proceed([items EXCEPT ![SendingAt] = it], Unheard, 0)
      /\ log' = log /\ pos' = pos /\ list' = list /\ applied' = applied
  BY DEF LoseAnswer, viewVars
<1>2. Unheard \in Requests
  <2>1. Quieter(reqs, Unheard)
    BY UnheardIsQuieter DEF QueueInv, Queue, Typed, Requests
  <2>. QED
    BY <2>1 DEF Quieter, Requests
<1>3. items[SendingAt] \in Item
  BY <1>1, SendingAtIs, NextKeyIs
<1>4. it \in Item /\ it.state = "failed"
  BY <1>3 DEF Settled, Item, States
<1>. HIDE DEF it
<1>. QED
  BY <1>1, <1>2, <1>4, FailedKeepsView

(* The send was answered: unless its message is shown or is not to come,   *)
(* the stream will come to it.                                             *)
LEMMA AnswerOkKeepsView ==
  ASSUME QueueInv, ViewInv, QueueInv', NEW r \in 1..MaxRequests, AnswerOk(r)
  PROVE  ViewInv'
<1>1. PICK i, k : i = SendingAt /\ k = items[SendingAt].requestKey
  OBVIOUS
<1>. DEFINE it == Settled(items[i], "ok", None)
           settled == [items EXCEPT ![i] = it]
           ss == [reqs EXCEPT ![r] = Idle]
           is == IF Routed(k, reqs[r].topic) THEN RemoveAt(items, i) ELSE Delivered(settled, list)
<1>2. /\ flight = r /\ reqs[r].at = "answer" /\ reqs[r].status = "ok" /\ Proceed(is, ss, 0)
      /\ log' = log /\ pos' = pos /\ list' = list /\ applied' = applied
  BY <1>1 DEF AnswerOk, viewVars
<1>3. flight # 0 /\ Quieter(reqs, ss)
  BY <1>2, AwaitedIs
<1>4. i \in 1..Len(items) /\ items[i].state = "sending" /\ items[i].requestKey = k
  BY <1>1, <1>3, SendingAtIs
<1>5. items \in Seq(Item) /\ items[i] \in Item /\ ss \in Requests /\ k \in Keys /\ items[i].text \in Texts
  BY <1>3, <1>4, NextKeyIs DEF QueueInv, Queue, Typed, Requests, Quieter
<1>6. it \in Item /\ it.requestKey = k /\ it.posted /\ it.state = "confirmed"
  BY <1>4, <1>5 DEF Settled, Item, States
<1>7. LogGood(log) /\ Posts(log, k) # {}
  <2>1. ItemOK(MemoryOf(log), reqs, flight, items[i]) /\ LogGood(log)
    BY <1>4 DEF QueueInv, Queue
  <2>2. MemoryOf(log)[k] = items[i].text
    BY <1>2, <1>4, <2>1 DEF ItemOK, Tells
  <2>. QED
    BY <1>5, <2>1, <2>2, MemoryIs, PostingAssumption
<1>8. Told(k, log, pos, applied) \/ reqs[r].topic # Here
  BY <1>2, <1>4 DEF ViewInv, Fresh, SaysHere
<1>9. ListTrue(log, pos, list) /\ applied \in 0..pos /\ pos \in 0..Len(log) /\ Comes(items, log, pos, list)
  BY DEF ViewInv
<1>. HIDE DEF ss, it
<1>10. /\ settled \in Seq(Item) /\ Len(settled) = Len(items) /\ settled[i] = it
      /\ \A j \in 1..Len(items) : j # i => settled[j] = items[j]
  BY <1>4, <1>5, <1>6
<1>. HIDE DEF settled
<1>11. CASE Routed(k, reqs[r].topic)
  <2>1. is = RemoveAt(items, i)
    BY <1>11
  <2>. HIDE DEF is
  <2>2. is \in Seq(Item) /\ \A n \in 1..Len(is) : \E j \in 1..Len(items) : is[n] = items[j]
    BY <1>4, <1>5, <2>1, RemovedClaims
  <2>3. \A n \in 1..Len(is) : is[n].state \in {"confirmed", "sending"} =>
          \E j \in 1..Len(items) : items[j].state = is[n].state /\ items[j].requestKey = is[n].requestKey
    BY <2>2
  <2>. QED
    BY <1>2, <1>5, <2>2, <2>3, ProceedKeepsView
<1>12. CASE ~Routed(k, reqs[r].topic)
  <2>1. is = Delivered(settled, list)
    BY <1>12
  <2>. HIDE DEF is
  <2>2. PICK e : LeftOf(settled, list, Len(settled), is, e)
    BY <1>10, <2>1, DeliveredIs
  <2>3. /\ is \in Seq(Item)
        /\ \A n \in 1..Len(is) : /\ e[n] \in 1..Len(settled) /\ is[n] = settled[e[n]]
                                 /\ ~(is[n].posted /\ is[n].requestKey \in list)
    BY <2>2 DEF LeftOf
  <2>4. k \notin list => Beyond(log, pos, k)
    <3>. SUFFICES ASSUME k \notin list PROVE Beyond(log, pos, k)
      OBVIOUS
    <3>1. reqs[r].topic = Here /\ ~(applied # 0 /\ applied >= PostSeq(k))
      BY <1>12 DEF Routed
    <3>2. PostSeq(k) = PostOf(log, k)
      BY <1>5, StoredIs DEF PostOf
    <3>3. TopicNow(log, k) = Here \/ Beyond(log, pos, k)
      BY <1>8, <3>1, <3>2 DEF Told
    <3>. QED
      BY <1>5, <1>7, <1>9, <3>3 DEF ListTrue
  <2>5. ASSUME NEW n \in 1..Len(is), is[n].state = "confirmed"
        PROVE  is[n].requestKey \notin list /\ Beyond(log, pos, is[n].requestKey)
    <3>1. PICK m \in 1..Len(settled) : is[n] = settled[m]
      BY <2>3
    <3>2. CASE m = i
      <4>1. is[n].requestKey = k /\ is[n].posted
        BY <1>6, <1>10, <3>1, <3>2
      <4>. QED
        BY <2>3, <2>4, <4>1
    <3>3. CASE m # i
      <4>1. m \in 1..Len(items) /\ is[n] = items[m]
        BY <1>10, <3>1, <3>3
      <4>. QED
        BY <1>9, <2>5, <4>1 DEF Comes
    <3>. QED
      BY <3>2, <3>3
  <2>6. Comes(items', log, pos, list)
    <3>. SUFFICES ASSUME NEW n \in 1..Len(items'), items'[n].state = "confirmed"
                  PROVE  items'[n].requestKey \notin list /\ Beyond(log, pos, items'[n].requestKey)
      BY DEF Comes
    <3>1. PICK j \in 1..Len(is) : is[j].state = "confirmed" /\ is[j].requestKey = items'[n].requestKey
      BY <1>2, <1>5, <2>3, ProceedView
    <3>. QED
      BY <2>5, <3>1
  <2>7. Fresh(items', reqs'[flight'], log, pos, applied)
    <3>. SUFFICES ASSUME NEW n \in 1..Len(items'), items'[n].state = "sending", SaysHere(reqs'[flight'])
                  PROVE  FALSE
      BY DEF Fresh
    <3>1. flight' # 0
      BY DEF QueueInv, Queue, Sending
    <3>2. flight' = 0
      BY <1>2, <1>5, <2>3, ProceedView DEF SaysHere
    <3>. QED
      BY <3>1, <3>2
  <2>. QED
    BY <1>2, <1>9, <2>6, <2>7 DEF ViewInv
<1>. QED
  BY <1>11, <1>12

LEMMA ReloadKeepsView ==
  ASSUME QueueInv, Reload
  PROVE  ViewInv'
<1>1. /\ items' = <<>> /\ list' = {k \in Keys : Stored(k) /\ TopicOf(k) = Here}
      /\ pos' = Len(log) /\ applied' = 0 /\ log' = log
  BY DEF Reload
<1>2. Len(log) \in Nat
  BY DEF QueueInv, LogGood
<1>3. \A k \in Keys : Stored(k) <=> Posts(log, k) # {}
  BY StoredIs
<1>4. \A k \in Keys : TopicOf(k) = TopicNow(log, k)
  BY DEF TopicOf, TopicAt, TopicNow, LastAt
<1>5. ListTrue(log, Len(log), list')
  BY <1>1, <1>3, <1>4 DEF ListTrue
<1>6. Len(items') = 0
  BY <1>1
<1>7. \A i \in 1..Len(items') : FALSE
  BY <1>6
<1>8. Comes(items', log, Len(log), list') /\ Fresh(items', reqs'[flight'], log, Len(log), 0)
  BY <1>7 DEF Comes, Fresh
<1>. QED
  BY <1>1, <1>2, <1>5, <1>8 DEF ViewInv

(* An event is appended, and an answer that says here of a message is true.*)
LEMMA AppendedKeepsView ==
  ASSUME QueueInv, ViewInv, NEW v \in Event, log' = Append(log, v), v.kind = "moved" \/ Posts(log, v.key) = {},
         items' = items, flight' = flight, pos' = pos, list' = list, applied' = applied,
         \/ reqs'[flight] = reqs[flight]
         \/ ~SaysHere(reqs'[flight])
         \/ \A i \in 1..Len(items) : items[i].state = "sending" => items[i].requestKey = v.key
  PROVE  ViewInv'
<1>1. LogGood(log) /\ log \in Seq(Event) /\ pos \in 0..Len(log) /\ applied \in 0..pos /\ applied \in Nat
  BY DEF QueueInv, LogGood, ViewInv
<1>2. \A i \in 1..Len(items) : items[i].requestKey \in Keys
  BY NextKeyIs
<1>3. /\ ListTrue(log, pos, list) => ListTrue(Append(log, v), pos, list)
      /\ \A k \in Keys, a \in Nat : Posts(log, k) # {} /\ Told(k, log, pos, a) => Told(k, Append(log, v), pos, a)
      /\ Beyond(Append(log, v), pos, v.key)
  BY <1>1, AppendKeepsView
<1>4. pos \in 0..Len(log')
  BY <1>1
<1>5. Comes(items, log', pos, list)
  <2>. SUFFICES ASSUME NEW i \in 1..Len(items), items[i].state = "confirmed"
                PROVE  items[i].requestKey \notin list /\ Beyond(log', pos, items[i].requestKey)
    BY DEF Comes
  <2>1. items[i].requestKey \notin list /\ Beyond(log, pos, items[i].requestKey)
    BY DEF ViewInv, Comes
  <2>2. \E n \in (pos + 1)..Len(log') : log'[n].key = items[i].requestKey
    <3>1. PICK n \in (pos + 1)..Len(log) : log[n].key = items[i].requestKey
      BY <2>1 DEF Beyond
    <3>2. n \in (pos + 1)..Len(log') /\ log'[n] = log[n]
      BY <1>1, <3>1
    <3>. QED
      BY <3>1, <3>2
  <2>. QED
    BY <2>1, <2>2 DEF Beyond
<1>6. Fresh(items, reqs'[flight], log', pos, applied)
  <2>. SUFFICES ASSUME NEW i \in 1..Len(items), items[i].state = "sending", SaysHere(reqs'[flight])
                PROVE  Told(items[i].requestKey, log', pos, applied)
    BY DEF Fresh
  <2>1. CASE reqs'[flight] = reqs[flight]
    <3>1. Told(items[i].requestKey, log, pos, applied)
      BY <2>1 DEF ViewInv, Fresh
    <3>2. ItemOK(MemoryOf(log), reqs, flight, items[i])
      BY DEF QueueInv, Queue
    <3>3. MemoryOf(log)[items[i].requestKey] = items[i].text
      BY <2>1, <3>2 DEF ItemOK, Tells, SaysHere
    <3>4. Posts(log, items[i].requestKey) # {}
      BY <1>1, <3>3, NextKeyIs, MemoryIs, PostingAssumption
    <3>. QED
      BY <1>1, <1>2, <1>3, <3>1, <3>4
  <2>2. CASE items[i].requestKey = v.key
    BY <1>3, <2>2 DEF Told
  <2>. QED
    BY <2>1, <2>2
<1>. QED
  BY <1>1, <1>3, <1>4, <1>5, <1>6 DEF ViewInv

LEMMA BranchKeepsView ==
  ASSUME QueueInv, ViewInv, NEW k \in Keys, Branch(k)
  PROVE  ViewInv'
<1>1. /\ flight' = flight /\ items' = items /\ reqs' = reqs /\ pos' = pos /\ list' = list /\ applied' = applied
  BY DEF Branch, serverUnchanged, queueVars, viewVars
<1>2. PICK v \in Event : log' = Append(log, v) /\ v.kind = "moved"
  BY BranchIs DEF QueueInv
<1>. QED
  BY <1>1, <1>2, AppendedKeepsView

(* The item that is being sent is the one the served request is for.       *)
LEMMA ServedItemIs ==
  ASSUME QueueInv, NEW r \in 1..MaxRequests, flight = r, Under(reqs[r]),
         NEW i \in 1..Len(items), items[i].state = "sending"
  PROVE  items[i].requestKey = reqs[r].key
BY DEF QueueInv, Queue, ItemOK, Sends

LEMMA UnderServe ==
  ASSUME NEW r, Serve(r)
  PROVE  Under(reqs[r])
BY DEF Serve, LookFirst, Insert, KeyTaken, Repeat, Refuse, Break, Under

(* The log stays: an answer that says here of a message is true of it.     *)
LEMMA SameLogKeepsView ==
  ASSUME QueueInv, ViewInv, NEW r \in 1..MaxRequests, Under(reqs[r]), NEW q, reqs' = [reqs EXCEPT ![r] = q],
         flight = r /\ SaysHere(q) => TopicNow(log, reqs[r].key) = Here,
         log' = log, items' = items, flight' = flight, pos' = pos, list' = list, applied' = applied
  PROVE  ViewInv'
<1>1. Fresh(items, reqs'[flight], log, pos, applied)
  <2>. SUFFICES ASSUME NEW i \in 1..Len(items), items[i].state = "sending", SaysHere(reqs'[flight])
                PROVE  Told(items[i].requestKey, log, pos, applied)
    BY DEF Fresh
  <2>1. flight # 0 /\ flight \in 1..MaxRequests /\ reqs \in Requests
    <3>1. Sending(items, flight) /\ flight \in 0..MaxRequests /\ reqs \in Requests
      BY DEF QueueInv, Queue, Typed, Requests
    <3>. QED
      BY <3>1, KeysAre DEF Sending
  <2>2. CASE flight = r
    <3>1. reqs'[flight] = q
      BY <2>1, <2>2 DEF Requests
    <3>2. items[i].requestKey = reqs[r].key
      BY <2>2, ServedItemIs
    <3>. QED
      BY <2>2, <3>1, <3>2 DEF Told
  <2>3. CASE flight # r
    <3>1. reqs'[flight] = reqs[flight]
      BY <2>1, <2>3 DEF Requests
    <3>. QED
      BY <3>1 DEF ViewInv, Fresh
  <2>. QED
    BY <2>2, <2>3
<1>. QED
  BY <1>1 DEF ViewInv

LEMMA RepeatedKeepsView ==
  ASSUME QueueInv, ViewInv, NEW r \in 1..MaxRequests, Under(reqs[r]), reqs' = Repeated(r),
         log' = log, items' = items, flight' = flight, pos' = pos, list' = list, applied' = applied
  PROVE  ViewInv'
<1>1. PICK q : q = IF flight = r THEN [at |-> "answer", status |-> IF SameText(r) THEN "ok" ELSE "conflict",
                                       topic |-> TopicOf(reqs[r].key)] ELSE Idle
  OBVIOUS
<1>2. reqs' = [reqs EXCEPT ![r] = q]
  BY <1>1 DEF Repeated, Answered
<1>3. flight = r /\ SaysHere(q) => TopicOf(reqs[r].key) = Here
  BY <1>1 DEF SaysHere
<1>4. TopicOf(reqs[r].key) = TopicNow(log, reqs[r].key)
  BY DEF TopicOf, TopicAt, TopicNow, LastAt
<1>. QED
  BY <1>2, <1>3, <1>4, SameLogKeepsView

LEMMA RefusedKeepsView ==
  ASSUME QueueInv, ViewInv, NEW r \in 1..MaxRequests, Under(reqs[r]), NEW status, status # "ok",
         reqs' = Answered(r, status, Here),
         log' = log, items' = items, flight' = flight, pos' = pos, list' = list, applied' = applied
  PROVE  ViewInv'
<1>1. PICK q : q = IF flight = r THEN [at |-> "answer", status |-> status, topic |-> Here] ELSE Idle
  OBVIOUS
<1>2. reqs' = [reqs EXCEPT ![r] = q]
  BY <1>1 DEF Answered
<1>3. flight = r /\ SaysHere(q) => FALSE
  BY <1>1 DEF SaysHere
<1>. QED
  BY <1>2, <1>3, SameLogKeepsView

LEMMA MovedOnKeepsView ==
  ASSUME QueueInv, ViewInv, NEW r \in 1..MaxRequests, Under(reqs[r]), NEW at, at # "answer",
         reqs' = [reqs EXCEPT ![r].at = at],
         log' = log, items' = items, flight' = flight, pos' = pos, list' = list, applied' = applied
  PROVE  ViewInv'
<1>1. PICK q : q = [reqs[r] EXCEPT !.at = at]
  OBVIOUS
<1>2. reqs[r] \in Request
  BY RequestIs DEF QueueInv, Queue, Typed
<1>3. reqs' = [reqs EXCEPT ![r] = q]
  BY <1>1
<1>4. flight = r /\ SaysHere(q) => FALSE
  BY <1>1, <1>2 DEF SaysHere, Request, Under
<1>. QED
  BY <1>3, <1>4, SameLogKeepsView

LEMMA ServeKeepsView ==
  ASSUME QueueInv, ViewInv, NEW r \in 1..MaxRequests, Serve(r)
  PROVE  ViewInv'
<1>1. /\ flight' = flight /\ items' = items /\ pos' = pos /\ list' = list /\ applied' = applied
  BY DEF Serve, LookFirst, Insert, KeyTaken, Repeat, Refuse, Break, serverUnchanged, queueVars, viewVars
<1>2. Under(reqs[r])
  BY UnderServe
<1>3. CASE LookFirst(r)
  <2>1. log' = log /\ (reqs' = Repeated(r) \/ reqs' = [reqs EXCEPT ![r].at = "insert"])
    BY <1>3 DEF LookFirst
  <2>2. CASE reqs' = Repeated(r)
    BY <1>1, <1>2, <2>1, <2>2, RepeatedKeepsView
  <2>3. CASE reqs' = [reqs EXCEPT ![r].at = "insert"]
    BY <1>1, <1>2, <2>1, <2>3, MovedOnKeepsView
  <2>. QED
    BY <2>1, <2>2, <2>3
<1>4. CASE Insert(r)
  <2>. DEFINE k == reqs[r].key
             v == [kind |-> "posted", key |-> k, text |-> reqs[r].text, topic |-> Here]
  <2>1. ~Stored(k) /\ log' = Append(log, v)
    BY <1>4 DEF Insert
  <2>2. PICK status \in {"ok", "failed"} : reqs' = Answered(r, status, Here)
    BY <1>4 DEF Insert
  <2>3. k \in Keys /\ reqs[r].text \in Texts /\ reqs \in Requests /\ flight \in 0..MaxRequests
    BY <1>2, RequestIs DEF QueueInv, Queue, Typed, Requests
  <2>4. v \in Event /\ v.key = k
    BY <2>3 DEF Event
  <2>5. Posts(log, k) = {}
    BY <2>1, <2>3, StoredIs
  <2>6. CASE flight = r
    <3>1. \A i \in 1..Len(items) : items[i].state = "sending" => items[i].requestKey = k
      BY <1>2, <2>6, ServedItemIs
    <3>. HIDE DEF v, k
    <3>. QED
      BY <1>1, <2>1, <2>4, <2>5, <3>1, AppendedKeepsView
  <2>7. CASE flight \in (1..MaxRequests) \ {r}
    <3>1. reqs'[flight] = reqs[flight]
      BY <2>2, <2>3, <2>7 DEF Answered, Requests
    <3>. HIDE DEF v, k
    <3>. QED
      BY <1>1, <2>1, <2>4, <2>5, <3>1, AppendedKeepsView
  <2>8. CASE flight = 0
    <3>1. \A i \in 1..Len(items) : items[i].state # "sending"
      BY <2>8 DEF QueueInv, Queue, Sending
    <3>. HIDE DEF v, k
    <3>. QED
      BY <1>1, <2>1, <2>4, <2>5, <3>1, AppendedKeepsView
  <2>. QED
    BY <2>3, <2>6, <2>7, <2>8, KeysAre
<1>5. CASE KeyTaken(r)
  <2>1. log' = log /\ reqs' = [reqs EXCEPT ![r].at = "repeat"]
    BY <1>5 DEF KeyTaken
  <2>. QED
    BY <1>1, <1>2, <2>1, MovedOnKeepsView
<1>6. CASE Repeat(r)
  <2>1. log' = log /\ reqs' = Repeated(r)
    BY <1>6 DEF Repeat
  <2>. QED
    BY <1>1, <1>2, <2>1, RepeatedKeepsView
<1>7. CASE Refuse(r)
  <2>1. log' = log /\ reqs' = Answered(r, "refused", Here)
    BY <1>7 DEF Refuse
  <2>. QED
    BY <1>1, <1>2, <2>1, RefusedKeepsView
<1>8. CASE Break(r)
  <2>1. log' = log /\ reqs' = Answered(r, "failed", Here)
    BY <1>8 DEF Break
  <2>. QED
    BY <1>1, <1>2, <2>1, RefusedKeepsView
<1>. QED
  BY <1>3, <1>4, <1>5, <1>6, <1>7, <1>8 DEF Serve

(* What one more frame leaves to come.                                     *)
LEMMA OneLessBeyond ==
  ASSUME NEW lg, LogGood(lg), NEW p \in Nat, p < Len(lg), NEW k \in Keys
  PROVE  /\ Beyond(lg, p + 1, k) => Beyond(lg, p, k)
         /\ lg[p + 1].key # k => (Beyond(lg, p, k) <=> Beyond(lg, p + 1, k))
<1>1. Len(lg) \in Nat
  BY DEF LogGood
<1>2. ASSUME Beyond(lg, p + 1, k) PROVE Beyond(lg, p, k)
  BY <1>1, <1>2 DEF Beyond
<1>3. ASSUME lg[p + 1].key # k, Beyond(lg, p, k) PROVE Beyond(lg, p + 1, k)
  <2>1. PICK n \in (p + 1)..Len(lg) : lg[n].key = k
    BY <1>3 DEF Beyond
  <2>2. n # p + 1
    BY <1>3, <2>1
  <2>3. n \in ((p + 1) + 1)..Len(lg)
    BY <1>1, <2>1, <2>2
  <2>. QED
    BY <2>1, <2>3 DEF Beyond
<1>. QED
  BY <1>2, <1>3

(* The n-th event is the newest of its message: it tells the topic.        *)
LEMMA NewestTells ==
  ASSUME NEW lg, LogGood(lg), NEW n \in 1..Len(lg), NEW k \in Keys, lg[n].key = k, NEW m \in n..Len(lg),
         \A l \in (n + 1)..m : lg[l].key # k
  PROVE  lg[LastAt(lg, k, m)].topic = lg[n].topic
<1>1. lg \in Seq(Event) /\ Len(lg) \in Nat /\ m \in 0..Len(lg) /\ n \in 1..m
  BY DEF LogGood
<1>2. /\ LastAt(lg, k, m) \in 1..m /\ lg[LastAt(lg, k, m)].key = k
      /\ \A l \in 1..m : lg[l].key = k => l <= LastAt(lg, k, m)
  BY <1>1, LastIs
<1>3. n <= LastAt(lg, k, m)
  BY <1>1, <1>2
<1>4. LastAt(lg, k, m) \notin (n + 1)..m
  BY <1>2
<1>5. LastAt(lg, k, m) = n
  BY <1>1, <1>2, <1>3, <1>4
<1>. QED
  BY <1>5

(* The frame of event n, which is about k, is applied to the list if it    *)
(* was rendered as of a topic its message had since.                       *)
LEMMA DeliverKeepsView ==
  ASSUME QueueInv, ViewInv, Deliver
  PROVE  ViewInv'
<1>1. PICK n, k : n = pos + 1 /\ k = log[n].key
  OBVIOUS
<1>2. PICK gone : gone = (log[n].kind = "moved" /\ log[n].topic = Away)
  OBVIOUS
<1>3. PICK topic \in IF log[n].kind = "posted" THEN {TopicAt(k, m) : m \in n..Len(log)} ELSE {log[n].topic} :
        /\ list' = IF topic = Here THEN list \cup {k} ELSE IF gone THEN list \ {k} ELSE list
        /\ applied' = IF topic = Here \/ gone THEN n ELSE applied
        /\ items' = Delivered(items, list' \cup (IF gone THEN {k} ELSE {}))
  BY <1>1, <1>2 DEF Deliver
<1>4. /\ pos < Len(log) /\ pos' = n /\ log' = log /\ reqs' = reqs /\ flight' = flight
  BY <1>1 DEF Deliver, serverVars
<1>5. /\ LogGood(log) /\ log \in Seq(Event) /\ Len(log) \in Nat /\ pos \in Nat /\ applied \in 0..pos
      /\ list \subseteq Keys /\ ListTrue(log, pos, list) /\ Comes(items, log, pos, list)
      /\ Fresh(items, reqs[flight], log, pos, applied)
  BY DEF QueueInv, LogGood, ViewInv
<1>6. n \in 1..Len(log) /\ n = pos + 1
  BY <1>1, <1>4, <1>5
<1>7. k \in Keys /\ log[n].kind \in {"posted", "moved"} /\ log[n].topic \in Topics
      /\ (log[n].kind = "posted" => log[n].topic = Here)
  <2>1. log[n] \in Event
    BY <1>5, <1>6
  <2>. QED
    BY <1>1, <2>1, EventIs
<1>8. items \in Seq(Item)
  BY DEF QueueInv, Queue, Typed
<1>9. /\ \A l \in Keys : Beyond(log, n, l) => Beyond(log, pos, l)
      /\ \A l \in Keys : l # k => (Beyond(log, pos, l) <=> Beyond(log, n, l))
  BY <1>1, <1>4, <1>5, <1>6, OneLessBeyond
(* If nothing more comes of it, the topic is the one the event gave it.    *)
<1>10. ASSUME ~Beyond(log, n, k)
      PROVE  topic = log[n].topic /\ TopicNow(log, k) = log[n].topic
  <2>1. \A l \in (n + 1)..Len(log) : log[l].key # k
    BY <1>10 DEF Beyond
  <2>2. ASSUME NEW m \in n..Len(log) PROVE log[LastAt(log, k, m)].topic = log[n].topic
    <3>1. \A l \in (n + 1)..m : log[l].key # k
      BY <1>5, <1>6, <2>1
    <3>. QED
      BY <1>1, <1>5, <1>6, <1>7, <3>1, NewestTells
  <2>3. \A m \in n..Len(log) : TopicAt(k, m) = log[LastAt(log, k, m)].topic
    BY DEF TopicAt, LastAt
  <2>4. Len(log) \in n..Len(log)
    BY <1>5, <1>6
  <2>. QED
    BY <1>3, <2>2, <2>3, <2>4 DEF TopicNow
(* Nothing is shown or gone only if an older topic was rendered.           *)
<1>11. topic # Here /\ ~gone => Beyond(log, n, k)
  <2>. SUFFICES ASSUME topic # Here, ~gone, ~Beyond(log, n, k) PROVE FALSE
    OBVIOUS
  <2>1. topic = log[n].topic
    BY <1>10
  <2>2. log[n].kind = "moved" /\ log[n].topic # Away
    BY <1>2, <1>7, <2>1
  <2>. QED
    BY <1>7, <2>1, <2>2 DEF Topics
<1>12. ASSUME NEW l \in Keys PROVE l # k => (l \in list' <=> l \in list)
  BY <1>3
<1>13. ListTrue(log, n, list')
  <2>. SUFFICES ASSUME NEW l \in Keys, Posts(log, l) # {}, ~Beyond(log, n, l)
                PROVE  l \in list' <=> TopicNow(log, l) = Here
    BY DEF ListTrue
  <2>1. CASE l = k
    <3>1. topic = log[n].topic /\ TopicNow(log, k) = log[n].topic /\ (topic = Here \/ gone)
      BY <1>10, <1>11, <2>1
    <3>2. topic = Here => k \in list'
      BY <1>3
    <3>3. topic # Here => k \notin list'
      BY <1>3, <3>1
    <3>. QED
      BY <2>1, <3>1, <3>2, <3>3
  <2>2. CASE l # k
    BY <1>5, <1>9, <1>12, <2>2 DEF ListTrue
  <2>. QED
    BY <2>1, <2>2
<1>14. PICK ids : ids = list' \cup (IF gone THEN {k} ELSE {})
  OBVIOUS
<1>15. PICK e : LeftOf(items, ids, Len(items), items', e)
  BY <1>3, <1>8, <1>14, DeliveredIs
<1>16. /\ \A i \in 1..Len(items') : e[i] \in 1..Len(items) /\ items'[i] = items[e[i]]
       /\ \A i \in 1..Len(items') : ~(items'[i].posted /\ items'[i].requestKey \in ids)
  BY <1>15 DEF LeftOf
<1>17. Comes(items', log, n, list')
  <2>. SUFFICES ASSUME NEW i \in 1..Len(items'), items'[i].state = "confirmed"
                PROVE  items'[i].requestKey \notin list' /\ Beyond(log, n, items'[i].requestKey)
    BY DEF Comes
  <2>1. PICK j \in 1..Len(items) : items'[i] = items[j]
    BY <1>16
  <2>2. PICK l : l = items[j].requestKey
    OBVIOUS
  <2>3. l \in Keys /\ items[j].posted /\ Beyond(log, pos, l)
    <3>1. ItemOK(MemoryOf(log), reqs, flight, items[j])
      BY DEF QueueInv, Queue
    <3>. QED
      BY <1>5, <2>1, <2>2, <3>1, NextKeyIs DEF ItemOK, Comes
  <2>4. l \notin ids
    BY <1>16, <2>1, <2>2, <2>3
  <2>5. l \notin list'
    BY <1>14, <2>4
  <2>6. Beyond(log, n, l)
    <3>1. CASE l = k
      BY <1>3, <1>11, <1>14, <2>4, <3>1
    <3>2. CASE l # k
      BY <1>9, <2>3, <3>2
    <3>. QED
      BY <3>1, <3>2
  <2>. QED
    BY <2>1, <2>2, <2>5, <2>6
<1>18. applied' \in 0..n /\ applied' >= applied /\ applied \in Nat /\ (topic = Here \/ gone => applied' = n)
  BY <1>3, <1>5, <1>6
<1>19. Fresh(items', reqs[flight], log, n, applied')
  <2>. SUFFICES ASSUME NEW i \in 1..Len(items'), items'[i].state = "sending", SaysHere(reqs[flight])
                PROVE  Told(items'[i].requestKey, log, n, applied')
    BY DEF Fresh
  <2>1. PICK j \in 1..Len(items) : items'[i] = items[j]
    BY <1>16
  <2>2. PICK l : l = items[j].requestKey
    OBVIOUS
  <2>3. l \in Keys /\ Told(l, log, pos, applied) /\ Posts(log, l) # {}
    <3>1. ItemOK(MemoryOf(log), reqs, flight, items[j])
      BY DEF QueueInv, Queue
    <3>2. MemoryOf(log)[l] = items[j].text
      BY <2>1, <2>2, <3>1 DEF ItemOK, Tells, SaysHere
    <3>3. l \in Keys /\ items[j].text \in Texts
      BY <2>2, NextKeyIs
    <3>. QED
      BY <1>5, <2>1, <2>2, <3>2, <3>3, MemoryIs, PostingAssumption DEF Fresh
  <2>4. PICK p \in Posts(log, l) : TRUE
    BY <2>3
  <2>5. PostOf(log, l) = p /\ p \in 1..Len(log)
    BY <1>5, <2>3, <2>4, PostIs
  <2>6. CASE TopicNow(log, l) = Here \/ Beyond(log, n, l)
    BY <2>1, <2>2, <2>6 DEF Told
  <2>7. CASE applied # 0 /\ applied >= PostOf(log, l)
    <3>1. applied' # 0 /\ applied' >= PostOf(log, l)
      BY <1>6, <1>18, <2>5, <2>7
    <3>. QED
      BY <2>1, <2>2, <3>1 DEF Told
  <2>8. CASE Beyond(log, pos, l) /\ ~Beyond(log, n, l)
    <3>1. l = k /\ applied' = n
      BY <1>9, <1>11, <1>18, <2>3, <2>8
    <3>2. p <= n
      <4>1. CASE log[n].kind = "posted"
        <5>1. n \in Posts(log, l)
          BY <1>1, <1>6, <3>1, <4>1 DEF Posts
        <5>2. p = n
          BY <1>5, <2>3, <2>4, <5>1 DEF LogGood
        <5>. QED
          BY <1>6, <5>2
      <4>2. CASE log[n].kind = "moved"
        <5>1. PICK m \in Posts(log, l) : m < n
          BY <1>1, <1>5, <1>6, <3>1, <4>2 DEF LogGood
        <5>2. p = m
          BY <1>5, <2>3, <2>4, <5>1 DEF LogGood
        <5>. QED
          BY <1>6, <2>5, <5>1, <5>2
      <4>. QED
        BY <1>7, <4>1, <4>2
    <3>3. applied' # 0 /\ applied' >= PostOf(log, l)
      BY <1>6, <2>5, <3>1, <3>2
    <3>. QED
      BY <2>1, <2>2, <3>3 DEF Told
  <2>. QED
    BY <2>3, <2>6, <2>7, <2>8 DEF Told
<1>20. list' \subseteq Keys
  BY <1>3, <1>5, <1>7
<1>. QED
  BY <1>4, <1>6, <1>13, <1>17, <1>18, <1>19, <1>20 DEF ViewInv

LEMMA StepKeepsView ==
  ASSUME QueueInv, ComposerInv, ViewInv, Next
  PROVE  ViewInv'
<1>1. QueueInv'
  BY StepKeepsQueue
<1>2. ASSUME NEW t \in Texts \cup {Empty}, Type(t) PROVE ViewInv'
  BY <1>2, SameKeepsView DEF Type, serverVars, viewVars
<1>3. ASSUME NEW i \in 1..Len(items), Edit(i) PROVE ViewInv'
  BY <1>1, <1>3, RemoveKeepsView DEF Edit, viewVars
<1>4. ASSUME NEW i \in 1..Len(items), TakeBack(i) PROVE ViewInv'
  BY <1>1, <1>4, RemoveKeepsView DEF TakeBack, viewVars
<1>5. ASSUME NEW t \in Texts, HoldExpires(t) PROVE ViewInv'
  BY <1>5, SameKeepsView DEF HoldExpires, serverVars, viewVars
<1>. QED
  BY <1>1, <1>2, <1>3, <1>4, <1>5, AdmitKeepsView, RetryKeepsView, ReloadKeepsView, AnswerOkKeepsView,
     AnswerConflictKeepsView, AnswerErrorKeepsView, LoseAnswerKeepsView, ServeKeepsView, BranchKeepsView,
     DeliverKeepsView
     DEF Next, Answer

LEMMA InitShowsNothing ==
  ASSUME Init
  PROVE  ViewInv
<1>1. log = <<>> /\ items = <<>> /\ list = {} /\ pos = 0 /\ applied = 0
  BY DEF Init
<1>2. Len(log) = 0 /\ Len(items) = 0
  BY <1>1
<1>3. \A i \in 1..0 : FALSE
  OBVIOUS
<1>4. \A k \in Keys : Posts(log, k) = {}
  BY <1>2, <1>3 DEF Posts
<1>5. ListTrue(log, pos, list)
  BY <1>4 DEF ListTrue
<1>6. Comes(items, log, pos, list) /\ Fresh(items, reqs[flight], log, pos, applied)
  BY <1>2, <1>3 DEF Comes, Fresh
<1>. QED
  BY <1>1, <1>2, <1>5, <1>6 DEF ViewInv

-----------------------------------------------------------------------------
(* Types.                                                                  *)

BoundsInv ==
  /\ loads \in 0..MaxDisturbances /\ asked \in [Texts -> 0..MaxAsked]
  /\ conflicts \in Nat /\ conflicts < nextKey

LEMMA StepKeepsBounds ==
  ASSUME QueueInv, ComposerInv, BoundsInv, Next
  PROVE  BoundsInv'
<1>1. nextKey \in Nat /\ MaxDisturbances \in Nat /\ MaxAsked \in Nat
  BY NextKeyIs, PostingAssumption
<1>2. ASSUME loads' = loads, asked' = asked, conflicts' = conflicts, nextKey' = nextKey PROVE BoundsInv'
  BY <1>2 DEF BoundsInv
<1>3. CASE Admit
  <2>1. /\ nextKey' = IF KeyFor(composer) = nextKey THEN nextKey + 1 ELSE nextKey
        /\ composer # Empty /\ (Anew(composer) => asked[composer] < MaxAsked)
        /\ asked' = IF Anew(composer) THEN [asked EXCEPT ![composer] = @ + 1] ELSE asked
        /\ loads' = loads /\ conflicts' = conflicts
    BY <1>3 DEF Admit, viewVars
  <2>2. composer \in Texts
    BY <2>1 DEF ComposerInv
  <2>3. asked' \in [Texts -> 0..MaxAsked]
    BY <1>1, <2>1, <2>2 DEF BoundsInv
  <2>. QED
    BY <1>1, <2>1, <2>3 DEF BoundsInv
<1>4. CASE Reload
  <2>1. /\ loads + Cardinality({n \in 1..Len(log) : log[n].kind = "moved"}) < MaxDisturbances /\ loads' = loads + 1
        /\ asked' = asked /\ conflicts' = conflicts /\ nextKey' = nextKey
    BY <1>4 DEF Reload, Disturbances
  <2>2. Cardinality({n \in 1..Len(log) : log[n].kind = "moved"}) \in Nat
    <3>1. IsFiniteSet(1..Len(log))
      BY FS_Interval DEF QueueInv, LogGood
    <3>2. IsFiniteSet({n \in 1..Len(log) : log[n].kind = "moved"})
      BY <3>1, FS_Subset
    <3>. QED
      BY <3>2, FS_CardinalityType
  <2>3. loads' \in 0..MaxDisturbances
    BY <1>1, <2>1, <2>2 DEF BoundsInv
  <2>. QED
    BY <2>1, <2>3 DEF BoundsInv
<1>5. ASSUME NEW r \in 1..MaxRequests, AnswerConflict(r) PROVE BoundsInv'
  <2>1. loads' = loads /\ asked' = asked /\ conflicts' = conflicts + 1 /\ nextKey' = nextKey + 1
    BY <1>5 DEF AnswerConflict, viewVars
  <2>. QED
    BY <1>1, <2>1 DEF BoundsInv
<1>6. ASSUME NEW t \in Texts \cup {Empty}, Type(t) PROVE BoundsInv'
  BY <1>2, <1>6 DEF Type, viewVars, historyVars
<1>7. ASSUME NEW i \in 1..Len(items), Retry(i) \/ Edit(i) \/ TakeBack(i) PROVE BoundsInv'
  BY <1>2, <1>7 DEF Retry, Edit, TakeBack, viewVars, historyVars
<1>8. ASSUME NEW t \in Texts, HoldExpires(t) PROVE BoundsInv'
  BY <1>2, <1>8 DEF HoldExpires, viewVars, historyVars
<1>9. ASSUME NEW r \in 1..MaxRequests, AnswerOk(r) \/ AnswerError(r) PROVE BoundsInv'
  BY <1>2, <1>9 DEF AnswerOk, AnswerError, viewVars, historyVars
<1>10. CASE LoseAnswer
  BY <1>2, <1>10 DEF LoseAnswer, viewVars, historyVars
<1>11. ASSUME NEW r \in 1..MaxRequests, Serve(r) PROVE BoundsInv'
  BY <1>2, <1>11 DEF Serve, LookFirst, Insert, KeyTaken, Repeat, Refuse, Break,
    serverUnchanged, queueVars, viewVars, historyVars
<1>12. ASSUME NEW k \in Keys, Branch(k) PROVE BoundsInv'
  BY <1>2, <1>12 DEF Branch, serverUnchanged, queueVars, viewVars, historyVars
<1>13. CASE Deliver
  BY <1>2, <1>13 DEF Deliver, historyVars
<1>. QED
  BY <1>3, <1>4, <1>5, <1>6, <1>7, <1>8, <1>9, <1>10, <1>11, <1>12, <1>13 DEF Next, Answer

LEMMA InitIsBounded ==
  ASSUME Init
  PROVE  BoundsInv
BY PostingAssumption DEF Init, BoundsInv

-----------------------------------------------------------------------------
(* The theorems.                                                           *)

Inv == QueueInv /\ ComposerInv /\ AskedInv /\ ViewInv /\ BoundsInv

LEMMA InitInv == Init => Inv
BY InitIsSafe, InitAsksNothing, InitShowsNothing, InitIsBounded DEF Inv

LEMMA NextInv == Inv /\ [Next]_vars => Inv'
<1>1. ASSUME Inv, Next PROVE Inv'
  BY <1>1, StepKeepsQueue, StepKeepsComposer, StepKeepsAsked, StepKeepsView, StepKeepsBounds DEF Inv
<1>2. ASSUME Inv, UNCHANGED vars PROVE Inv'
  <2>1. QueueInv' /\ ComposerInv' /\ AskedInv'
    BY <1>2, StutterKeepsSafe, StutterKeepsAsked DEF Inv
  <2>2. ViewInv'
    BY <1>2, SameKeepsView DEF Inv, vars, serverVars, queueVars, viewVars
  <2>3. BoundsInv'
    BY <1>2 DEF Inv, BoundsInv, vars, queueVars, viewVars, historyVars
  <2>. QED
    BY <2>1, <2>2, <2>3 DEF Inv
<1>. QED
  BY <1>1, <1>2

LEMMA InvAlways == Spec => []Inv
BY InitInv, NextInv, PTL DEF Spec

LEMMA StoredIsRemembered ==
  ASSUME LogGood(log), NEW k \in Keys
  PROVE  /\ Stored(k) <=> MemoryOf(log)[k] # Empty
         /\ Stored(k) => TextOf(k) = MemoryOf(log)[k]
<1>1. Stored(k) <=> MemoryOf(log)[k] # Empty
  BY StoredIs, MemoryIs
<1>2. ASSUME Stored(k) PROVE TextOf(k) = MemoryOf(log)[k]
  <2>1. (CHOOSE m \in Posts(log, k) : TRUE) \in Posts(log, k)
    BY <1>2, StoredIs
  <2>. QED
    BY <2>1, StoredIs, MemoryIs
<1>. QED
  BY <1>1, <1>2

(* Every variable is of its type, and the page waits for a request exactly *)
(* while one item is being sent.                                           *)
THEOREM TypeCorrect == Spec => []TypeOK
<1>1. Inv => TypeOK
  <2>. SUFFICES ASSUME QueueInv, ComposerInv, ViewInv, BoundsInv PROVE TypeOK
    BY DEF Inv
  <2>1. log \in Seq(Event) /\ pos \in 0..Len(log) /\ applied \in 0..Len(log) /\ list \subseteq Keys
    BY DEF QueueInv, LogGood, ViewInv
  <2>2. conflicts \in 0..Cardinality(Keys)
    <3>1. nextKey \in 1..(Cardinality(Keys) + 1)
      BY DEF QueueInv, Queue, Typed
    <3>. QED
      BY <3>1, KeysAre DEF BoundsInv
  <2>3. Typed(MemoryOf(log), items, reqs, flight, holds, restored, nextKey) /\ Sending(items, flight) /\ Order(items)
    BY DEF QueueInv, Queue
  <2>4. ASSUME NEW i \in 1..Len(items), NEW j \in 1..Len(items),
               items[i].state = "sending", items[j].state = "sending"
        PROVE  i = j
    BY <2>3, <2>4, SendingIsAlone DEF Typed
  <2>. QED
    BY <2>1, <2>2, <2>3, <2>4 DEF TypeOK, Typed, Sending, ComposerInv, BoundsInv
<1>. QED
  BY <1>1, InvAlways, PTL

(* What the page says of a send is true: a confirmed item has exactly its  *)
(* text stored under its key, and what is called not sent is not stored.   *)
THEOREM OutcomesAreTrue == Spec => []OutcomeIsTrue
<1>1. QueueInv => OutcomeIsTrue
  <2>. SUFFICES ASSUME QueueInv, NEW i \in 1..Len(items)
                PROVE  /\ items[i].state = "confirmed" =>
                            Stored(items[i].requestKey) /\ TextOf(items[i].requestKey) = items[i].text
                       /\ items[i].state = "failed" /\ ~items[i].unconfirmed => ~Stored(items[i].requestKey)
    BY DEF OutcomeIsTrue
  <2>1. items[i].requestKey \in Keys /\ items[i].text \in Texts /\ items[i].text # Empty
    BY NextKeyIs, PostingAssumption
  <2>2. ItemOK(MemoryOf(log), reqs, flight, items[i]) /\ LogGood(log)
    BY DEF QueueInv, Queue
  <2>. QED
    BY <2>1, <2>2, StoredIsRemembered DEF ItemOK, Clean
<1>. QED
  BY <1>1, InvAlways, PTL DEF Inv

(* Messages are stored in the order they were sent in: one is on its way   *)
(* only when each before it is stored or is known not to be.               *)
THEOREM OrderIsKept == Spec => []OrderKept
<1>1. QueueInv => OrderKept
  <2>. SUFFICES ASSUME QueueInv, NEW i \in 1..Len(items), NEW j \in 1..Len(items),
                       i < j, items[j].state # "queued"
                PROVE  \/ items[i].state = "confirmed" /\ Stored(items[i].requestKey)
                       \/ /\ items[i].state = "failed" /\ ~items[i].unconfirmed
                          /\ ~Stored(items[i].requestKey)
    BY DEF OrderKept
  <2>1. items[i].requestKey \in Keys /\ items[i].text # Empty
    BY NextKeyIs, PostingAssumption
  <2>2. ItemOK(MemoryOf(log), reqs, flight, items[i]) /\ LogGood(log) /\ Settling(items[i])
    BY DEF QueueInv, Queue, Order
  <2>. QED
    BY <2>1, <2>2, StoredIsRemembered DEF ItemOK, Clean, Settling
<1>. QED
  BY <1>1, InvAlways, PTL DEF Inv

(* Retries cannot post twice: as long as the page that met a conflict was  *)
(* not loaded again, no text is stored more often than the member asked    *)
(* for it.                                                                 *)
THEOREM NoCopyTooMany == Spec => []RetriesPostOnceHere
<1>1. QueueInv /\ AskedInv => RetriesPostOnceHere
  <2>. SUFFICES ASSUME QueueInv, AskedInv, loads = 0 \/ conflicts = 0, NEW t \in Texts
                PROVE  Copies(t) <= asked[t]
    BY DEF RetriesPostOnceHere, RetriesPostOnce
  <2>. DEFINE T == {k \in Keys : ClaimsNow(k, t)}
  <2>1. Cardinality(T) <= asked[t] /\ asked[t] \in Nat
    BY DEF AskedInv, Bounded
  <2>2. Cardinality(T) \in Nat
    <3>1. T \in SUBSET Keys
      OBVIOUS
    <3>2. IsFiniteSet(T)
      BY <3>1, KeysAre, FS_Subset
    <3>. QED
      BY <3>2, FS_CardinalityType
  <2>3. Copies(t) <= Cardinality(T) /\ Copies(t) \in Nat
    BY CopiesAreClaimed
  <2>. QED
    BY <2>1, <2>2, <2>3
<1>. QED
  BY <1>1, InvAlways, PTL DEF Inv

(* Once the stream is caught up no item stays beside its own message or    *)
(* waits for a message that will not come.                                 *)
THEOREM NoItemIsLeftBehind == Spec => []NoGhost
<1>1. ViewInv => NoGhost
  <2>. SUFFICES ASSUME ViewInv, pos = Len(log), NEW i \in 1..Len(items), items[i].state = "confirmed"
                PROVE  FALSE
    BY DEF NoGhost
  <2>1. Beyond(log, pos, items[i].requestKey) /\ pos \in Nat
    BY DEF ViewInv, Comes
  <2>. QED
    BY <2>1 DEF Beyond
<1>. QED
  BY <1>1, InvAlways, PTL DEF Inv
=============================================================================
