-------------------------- MODULE ReadState_proofs --------------------------
(***************************************************************************)
(* Proofs about the read state for every number of requests, messages,     *)
(* channels and topics: the gaps of the stored set hold unread messages,   *)
(* the counts are those of the set, a transaction marks what it was asked  *)
(* to, and it reports a change exactly when there is one.                  *)
(*                                                                         *)
(* First come the ranges: what a merge, a coalescing and an addition do to *)
(* the set of integers that the stored ranges cover.  Then what committed  *)
(* rows look like (Stored...), what each transaction knows at each step    *)
(* (Knows), and that every step of any transaction keeps both.             *)
(***************************************************************************)
EXTENDS ReadState, WellFoundedInduction, TLAPS

(* A set of ranges as it is stored, below n. *)
Sound(rs, n) == rs \subseteq SequenceRanges /\ Apart(rs) /\ \A r \in rs : r.hi <= n

LEMMA MinIs ==
  ASSUME NEW S, S \subseteq Nat, S # {}
  PROVE  Min(S) \in S /\ \A y \in S : Min(S) <= y
<1>1. IsWellFoundedOn(OpToRel(<, Nat), Nat)
  BY NatLessThanWellFounded
<1>2. PICK x \in S : \A y \in S : ~ (<<y, x>> \in OpToRel(<, Nat))
  BY <1>1, WFMin
<1>3. ASSUME NEW y \in S PROVE x <= y
  <2>1. x \in Nat /\ y \in Nat
    OBVIOUS
  <2>2. ~ (y < x)
    BY <1>2, <2>1 DEF OpToRel
  <2>. QED
    BY <2>1, <2>2
<1>. QED
  BY <1>2, <1>3 DEF Min

LEMMA MaxIs ==
  ASSUME NEW S, S \subseteq Nat, S # {}, NEW n \in Nat, \A x \in S : x <= n
  PROVE  Max(S) \in S /\ \A y \in S : y <= Max(S)
<1>. DEFINE U == {k \in Nat : \A x \in S : x <= k}
<1>1. PICK u : u = Min(U)
  OBVIOUS
<1>2. u \in U /\ \A k \in U : u <= k
  BY <1>1, MinIs
<1>3. u \in S
  <2>1. SUFFICES ASSUME u \notin S PROVE FALSE
    OBVIOUS
  <2>2. PICK x \in S : x <= u
    BY <1>2
  <2>3. u - 1 \in Nat
    BY <1>2, <2>1, <2>2
  <2>4. \A y \in S : y <= u - 1
    BY <1>2, <2>1
  <2>5. u - 1 \in U
    BY <2>3, <2>4
  <2>. QED
    BY <1>2, <2>5
<1>. QED
  BY <1>2, <1>3 DEF Max

LEMMA RangeIs ==
  ASSUME NEW r \in SequenceRanges
  PROVE  r.lo \in Nat /\ r.hi \in Nat /\ r.lo < r.hi /\ r = Span(r.lo, r.hi)
BY DEF SequenceRanges, Span

LEMMA SpanIs ==
  ASSUME NEW lo \in Nat, NEW hi \in Nat, lo < hi
  PROVE  Span(lo, hi) \in SequenceRanges /\ Span(lo, hi).lo = lo /\ Span(lo, hi).hi = hi
BY DEF SequenceRanges, Span

LEMMA CoveredIs ==
  ASSUME NEW rs, rs \subseteq SequenceRanges, NEW m
  PROVE  m \in Covered(rs) <=> m \in Nat /\ \E r \in rs : r.lo <= m /\ m < r.hi
BY RangeIs DEF Covered, Members

LEMMA MembersIs ==
  ASSUME NEW a \in SequenceRanges, NEW m
  PROVE  m \in Members(a) <=> m \in Nat /\ a.lo <= m /\ m < a.hi
BY RangeIs DEF Members

-----------------------------------------------------------------------------
(* The union with one range.                                               *)

(* The neighbours are the stored ranges that overlap or touch it: the one  *)
(* it is compared with first loses none.                                   *)
LEMMA NeighboursIs ==
  ASSUME NEW rs, NEW n \in Nat, Sound(rs, n), NEW a \in SequenceRanges
  PROVE  Neighbours(rs, a) = {r \in rs : Overlaps(r, a)}
<1>1. SUFFICES ASSUME NEW r \in rs, Overlaps(r, a) PROVE LowerLo(rs, a) <= r.lo
  BY DEF Neighbours
<1>. DEFINE before == {q.lo : q \in {s \in rs : s.lo <= a.lo}}
<1>2. a.lo \in Nat /\ a.hi \in Nat /\ a.lo < a.hi /\ r.lo \in Nat /\ r.hi \in Nat /\ r.lo < r.hi
  BY <1>1, RangeIs DEF Sound
<1>3. before \subseteq Nat /\ \A x \in before : x <= a.lo
  BY RangeIs DEF Sound
<1>4. LowerLo(rs, a) = IF before = {} THEN a.lo ELSE Max(before)
  BY DEF LowerLo
<1>5. CASE before = {}
  <2>1. ~ (r.lo <= a.lo)
    BY <1>1, <1>5
  <2>. QED
    BY <1>2, <1>4, <1>5, <2>1
<1>6. CASE before # {}
  <2>1. PICK x : x = Max(before)
    OBVIOUS
  <2>2. x \in before
    BY <1>2, <1>3, <1>6, <2>1, MaxIs
  <2>3. PICK s \in rs : s.lo = x /\ s.lo <= a.lo
    BY <2>2
  <2>4. s.lo \in Nat /\ s.hi \in Nat /\ s.lo < s.hi
    BY RangeIs DEF Sound
  <2>5. r = s \/ r.hi < s.lo \/ s.hi < r.lo
    BY <1>1 DEF Sound, Apart
  <2>6. x <= r.lo
    BY <1>1, <1>2, <2>3, <2>4, <2>5 DEF Overlaps
  <2>. QED
    BY <1>4, <1>6, <2>1, <2>6
<1>. QED
  BY <1>5, <1>6

LEMMA NewlyCoveredIs ==
  ASSUME NEW rs, NEW n \in Nat, Sound(rs, n), NEW a \in SequenceRanges
  PROVE  NewlyCovered(rs, a) = Members(a) \ Covered(rs)
<1>1. SUFFICES ASSUME NEW m \in Members(a), m \in Covered(rs) PROVE m \in Covered(Neighbours(rs, a))
  BY CoveredIs, NeighboursIs DEF NewlyCovered, Sound, Covered
<1>2. PICK r \in rs : m \in Nat /\ r.lo <= m /\ m < r.hi
  BY <1>1, CoveredIs DEF Sound
<1>3. a.lo <= m /\ m < a.hi
  BY <1>1, MembersIs
<1>4. Overlaps(r, a)
  BY <1>2, <1>3, RangeIs DEF Overlaps, Sound
<1>5. r \in Neighbours(rs, a)
  BY <1>4, NeighboursIs
<1>. QED
  BY <1>2, <1>5, RangeIs DEF Covered, Members, Sound

LEMMA MergedIs ==
  ASSUME NEW rs, NEW n \in Nat, Sound(rs, n), NEW a \in SequenceRanges, a.hi <= n
  PROVE  /\ Sound(Merged(rs, a), n)
         /\ Covered(Merged(rs, a)) = Covered(rs) \cup Members(a)
         /\ \A s \in Merged(rs, a) : s.lo = a.lo \/ \E r \in rs : s.lo = r.lo
<1>. DEFINE gone == {r \in rs : Overlaps(r, a)}
            los == {r.lo : r \in gone \cup {a}}
            his == {r.hi : r \in gone \cup {a}}
<1>1. PICK lo, hi : lo = Min(los) /\ hi = Max(his)
  OBVIOUS
<1>2. rs \subseteq SequenceRanges /\ (\A r \in rs : r.lo \in Nat /\ r.hi \in Nat /\ r.lo < r.hi /\ r.hi <= n)
  BY RangeIs DEF Sound
<1>3. a.lo \in Nat /\ a.hi \in Nat /\ a.lo < a.hi
  BY RangeIs
<1>4. lo \in los /\ \A x \in los : lo <= x
  <2>1. los \subseteq Nat /\ los # {}
    BY <1>2, <1>3
  <2>. QED
    BY <1>1, <2>1, MinIs
<1>5. hi \in his /\ \A x \in his : x <= hi
  <2>1. his \subseteq Nat /\ his # {} /\ \A x \in his : x <= n
    BY <1>2, <1>3
  <2>. QED
    BY <1>1, <2>1, MaxIs
<1>6. PICK first \in gone \cup {a} : lo = first.lo
  BY <1>4
<1>7. PICK last \in gone \cup {a} : hi = last.hi
  BY <1>5
<1>8. lo \in Nat /\ hi \in Nat /\ hi <= n /\ lo <= a.lo /\ a.hi <= hi /\ lo < hi
  BY <1>2, <1>3, <1>4, <1>5, <1>6, <1>7
<1>9. \A r \in gone : lo <= r.lo /\ r.hi <= hi
  BY <1>4, <1>5
<1>10. PICK whole : whole = Span(lo, hi)
  OBVIOUS
<1>11. whole \in SequenceRanges /\ whole.lo = lo /\ whole.hi = hi
  BY <1>8, <1>10, SpanIs
<1>12. Merged(rs, a) = (rs \ gone) \cup {whole}
  BY <1>1, <1>10, NeighboursIs DEF Merged
<1>13. \A r \in rs \ gone : r.hi < lo \/ hi < r.lo
  <2>1. SUFFICES ASSUME NEW r \in rs \ gone PROVE r.hi < lo \/ hi < r.lo
    OBVIOUS
  <2>2. r.hi < a.lo \/ a.hi < r.lo
    BY <1>2, <1>3 DEF Overlaps
  <2>3. \A g \in gone : (r.hi < g.lo \/ g.hi < r.lo) /\ g.lo <= a.hi /\ a.lo <= g.hi
    BY DEF Sound, Apart, Overlaps
  <2>4. first = a \/ (first \in rs /\ (r.hi < first.lo \/ first.hi < r.lo) /\ first.lo <= a.hi /\ a.lo <= first.hi)
    BY <1>6, <2>3
  <2>5. last = a \/ (last \in rs /\ (r.hi < last.lo \/ last.hi < r.lo) /\ last.lo <= a.hi /\ a.lo <= last.hi)
    BY <1>7, <2>3
  <2>6. CASE r.hi < a.lo
    BY <1>2, <1>3, <1>6, <2>4, <2>6
  <2>7. CASE a.hi < r.lo
    BY <1>2, <1>3, <1>7, <2>5, <2>7
  <2>. QED
    BY <2>2, <2>6, <2>7
<1>14. Sound(Merged(rs, a), n)
  <2>1. Apart(Merged(rs, a))
    BY <1>11, <1>12, <1>13 DEF Apart, Sound
  <2>. QED
    BY <1>2, <1>8, <1>11, <1>12, <2>1 DEF Sound
<1>15. \A m \in Nat : lo <= m /\ m < hi => m \in Covered(rs) \cup Members(a)
  <2>1. SUFFICES ASSUME NEW m \in Nat, lo <= m, m < hi, m \notin Members(a) PROVE m \in Covered(rs)
    OBVIOUS
  <2>2. m < a.lo \/ a.hi <= m
    BY <1>3, <2>1, MembersIs
  <2>3. CASE m < a.lo
    <3>1. first \in rs /\ a.lo <= first.hi
      BY <1>3, <1>6, <2>1, <2>3 DEF Overlaps
    <3>2. first.lo <= m /\ m < first.hi
      BY <1>2, <1>3, <1>6, <2>1, <2>3, <3>1
    <3>. QED
      BY <1>2, <3>1, <3>2, CoveredIs
  <2>4. CASE a.hi <= m
    <3>1. last \in rs /\ last.lo <= a.hi
      BY <1>3, <1>7, <2>1, <2>4 DEF Overlaps
    <3>2. last.lo <= m /\ m < last.hi
      BY <1>2, <1>3, <1>7, <2>1, <2>4, <3>1
    <3>. QED
      BY <1>2, <3>1, <3>2, CoveredIs
  <2>. QED
    BY <2>2, <2>3, <2>4
<1>16. Covered(Merged(rs, a)) = Covered(rs) \cup Members(a)
  <2>1. Merged(rs, a) \subseteq SequenceRanges
    BY <1>14 DEF Sound
  <2>2. ASSUME NEW m \in Covered(Merged(rs, a)) PROVE m \in Covered(rs) \cup Members(a)
    BY <1>2, <1>11, <1>12, <1>15, <2>1, <2>2, CoveredIs
  <2>3. ASSUME NEW m \in Covered(rs) PROVE m \in Covered(Merged(rs, a))
    <3>1. PICK r \in rs : m \in Nat /\ r.lo <= m /\ m < r.hi
      BY <1>2, <2>3, CoveredIs
    <3>2. r \in Merged(rs, a) \/ (lo <= m /\ m < hi)
      BY <1>2, <1>8, <1>9, <1>12, <3>1
    <3>. QED
      BY <1>11, <1>12, <2>1, <3>1, <3>2, CoveredIs
  <2>4. ASSUME NEW m \in Members(a) PROVE m \in Covered(Merged(rs, a))
    <3>1. m \in Nat /\ lo <= m /\ m < hi
      BY <1>3, <1>8, <2>4, MembersIs
    <3>. QED
      BY <1>11, <1>12, <2>1, <3>1, CoveredIs
  <2>. QED
    BY <2>2, <2>3, <2>4
<1>17. \A s \in Merged(rs, a) : s.lo = a.lo \/ \E r \in rs : s.lo = r.lo
  BY <1>6, <1>11, <1>12
<1>. QED
  BY <1>14, <1>16, <1>17

-----------------------------------------------------------------------------
(* The union with several ranges.                                          *)

(* All of l .. h - 1 is covered. *)
Filled(rs, l, h) == \A k \in Nat : l <= k /\ k < h => k \in Covered(rs)

LEMMA FilledPart ==
  ASSUME NEW rs, NEW l \in Nat, NEW h \in Nat, Filled(rs, l, h),
         NEW a \in Nat, NEW b \in Nat, l <= a, b <= h
  PROVE  Filled(rs, a, b)
BY DEF Filled

LEMMA FilledJoin ==
  ASSUME NEW rs, NEW l \in Nat, NEW m \in Nat, NEW k \in Nat, NEW h \in Nat,
         Filled(rs, l, m), Filled(rs, k, h), k <= m
  PROVE  Filled(rs, l, h)
BY DEF Filled

LEMMA FilledRange ==
  ASSUME NEW rs, rs \subseteq SequenceRanges, NEW r \in rs
  PROVE  Filled(rs, r.lo, r.hi)
BY CoveredIs DEF Filled

LEMMA FilledAt ==
  ASSUME NEW rs, NEW l \in Nat, NEW h \in Nat, Filled(rs, l, h), NEW m \in Nat, l <= m, m < h
  PROVE  m \in Covered(rs)
BY DEF Filled

Below(many, n) == many \subseteq SequenceRanges /\ \A r \in many : r.hi <= n

LEMMA BelowIs ==
  ASSUME NEW many, NEW n, Below(many, n), NEW r \in many
  PROVE  r.lo \in Nat /\ r.hi \in Nat /\ r.lo < r.hi /\ r.hi <= n /\ Filled(many, r.lo, r.hi)
BY RangeIs, FilledRange DEF Below

LEMMA CoveredBy ==
  ASSUME NEW many, NEW n, Below(many, n), NEW m \in Covered(many)
  PROVE  m \in Nat /\ \E r \in many : r.lo <= m /\ m < r.hi
BY CoveredIs DEF Below

(* A covered sequence lies in a run from where a range begins to where one *)
(* ends, with nothing beside it.                                           *)
LEMMA RunAround ==
  ASSUME NEW many, NEW n \in Nat, Below(many, n), NEW m \in Nat, m \in Covered(many)
  PROVE  \E l, h \in Nat :
           /\ l <= m /\ m < h /\ Filled(many, l, h) /\ l - 1 \notin Covered(many) /\ h \notin Covered(many)
           /\ \E first, last \in many : first.lo = l /\ last.hi = h
<1>. DEFINE L == {l \in Nat : l <= m /\ Filled(many, l, m) /\ \E q \in many : q.lo = l}
            H == {h \in Nat : m < h /\ Filled(many, m, h) /\ \E q \in many : q.hi = h}
<1>2. PICK r \in many : r.lo <= m /\ m < r.hi
  BY CoveredBy
<1>3. PICK lo \in Nat, hi \in Nat : r.lo = lo /\ r.hi = hi
  BY BelowIs
<1>4. Filled(many, lo, hi) /\ lo <= m /\ m < hi
  BY <1>2, <1>3, BelowIs
<1>5. Filled(many, lo, m) /\ Filled(many, m, hi)
  BY <1>4, FilledPart
<1>6. PICK l \in Nat : l \in L /\ \A x \in L : l <= x
  <2>1. lo \in L
    BY <1>3, <1>4, <1>5
  <2>. QED
    BY <2>1, MinIs
<1>7. PICK h \in Nat : h \in H /\ \A x \in H : x <= h
  <2>1. hi \in H
    BY <1>3, <1>4, <1>5
  <2>2. \A x \in H : x <= n
    BY BelowIs
  <2>. QED
    BY <2>1, <2>2, MaxIs
<1>11. Filled(many, l, h)
  <2>1. Filled(many, l, m) /\ Filled(many, m, h)
    BY <1>6, <1>7
  <2>. QED
    BY <2>1, FilledJoin
<1>12. l - 1 \notin Covered(many)
  <2>1. SUFFICES ASSUME l - 1 \in Covered(many) PROVE FALSE
    OBVIOUS
  <2>2. PICK q \in many : l - 1 \in Nat /\ q.lo <= l - 1 /\ l - 1 < q.hi
    BY <2>1, CoveredBy
  <2>3. PICK a \in Nat, b \in Nat : q.lo = a /\ q.hi = b
    BY BelowIs
  <2>4. Filled(many, a, b) /\ a < l /\ l <= b
    BY <2>2, <2>3, BelowIs
  <2>5. Filled(many, a, m)
    BY <1>6, <2>4, FilledJoin
  <2>6. a \in L
    BY <1>6, <2>3, <2>4, <2>5
  <2>. QED
    BY <1>6, <2>4, <2>6
<1>13. h \notin Covered(many)
  <2>1. SUFFICES ASSUME h \in Covered(many) PROVE FALSE
    OBVIOUS
  <2>2. PICK q \in many : q.lo <= h /\ h < q.hi
    BY <2>1, CoveredBy
  <2>3. PICK a \in Nat, b \in Nat : q.lo = a /\ q.hi = b
    BY BelowIs
  <2>4. Filled(many, a, b) /\ a <= h /\ h < b
    BY <2>2, <2>3, BelowIs
  <2>5. Filled(many, m, b)
    BY <1>7, <2>4, FilledJoin
  <2>6. b \in H
    BY <1>7, <2>3, <2>4, <2>5
  <2>. QED
    BY <1>7, <2>4, <2>6
<1>. QED
  BY <1>6, <1>7, <1>11, <1>12, <1>13

LEMMA CoalescedIs ==
  ASSUME NEW many, many \subseteq SequenceRanges, NEW n \in Nat, \A r \in many : r.hi <= n
  PROVE  /\ Sound(Coalesced(many), n)
         /\ Covered(Coalesced(many)) = Covered(many)
         /\ \A s \in Coalesced(many) : \E r \in many : s.lo = r.lo
<1>1. \A r \in many : r.lo \in Nat /\ r.hi \in Nat /\ r.lo < r.hi /\ r.hi <= n
  BY RangeIs
<1>2. ASSUME NEW s \in Coalesced(many)
      PROVE  /\ s \in SequenceRanges /\ s.hi <= n /\ s = Span(s.lo, s.hi)
             /\ \A m \in Nat : s.lo <= m /\ m < s.hi => m \in Covered(many)
             /\ s.lo - 1 \notin Covered(many) /\ s.hi \notin Covered(many)
             /\ \E r \in many : s.lo = r.lo
  <2>1. PICK first \in many, last \in many : s = Span(first.lo, last.hi)
    BY <1>2 DEF Coalesced
  <2>2. s.lo < s.hi /\ Members(s) \subseteq Covered(many) /\ s.lo - 1 \notin Covered(many)
        /\ s.hi \notin Covered(many)
    BY <1>2 DEF Coalesced
  <2>3. s.lo = first.lo /\ s.hi = last.hi
    BY <2>1 DEF Span
  <2>4. s \in SequenceRanges
    BY <1>1, <2>1, <2>2, <2>3, SpanIs
  <2>5. \A m \in Nat : s.lo <= m /\ m < s.hi => m \in Covered(many)
    BY <2>2, <2>4, MembersIs
  <2>. QED
    BY <1>1, <2>1, <2>2, <2>3, <2>4, <2>5
<1>3. Apart(Coalesced(many))
  <2>1. SUFFICES ASSUME NEW r \in Coalesced(many), NEW s \in Coalesced(many),
                        ~ (r.hi < s.lo), ~ (s.hi < r.lo)
                 PROVE  r = s
    BY DEF Apart
  <2>2. r.lo \in Nat /\ r.hi \in Nat /\ r.lo < r.hi /\ s.lo \in Nat /\ s.hi \in Nat /\ s.lo < s.hi
    BY <1>2, RangeIs
  <2>3. ~ (r.lo < s.lo)
    <3>1. SUFFICES ASSUME r.lo < s.lo PROVE FALSE
      OBVIOUS
    <3>2. s.lo - 1 \in Nat /\ r.lo <= s.lo - 1 /\ s.lo - 1 < r.hi
      BY <2>1, <2>2, <3>1
    <3>. QED
      BY <1>2, <3>2
  <2>4. ~ (s.lo < r.lo)
    <3>1. SUFFICES ASSUME s.lo < r.lo PROVE FALSE
      OBVIOUS
    <3>2. r.lo - 1 \in Nat /\ s.lo <= r.lo - 1 /\ r.lo - 1 < s.hi
      BY <2>1, <2>2, <3>1
    <3>. QED
      BY <1>2, <3>2
  <2>5. ~ (r.hi < s.hi)
    <3>1. SUFFICES ASSUME r.hi < s.hi PROVE FALSE
      OBVIOUS
    <3>2. s.lo <= r.hi
      BY <2>2, <2>3, <2>4
    <3>3. r.hi \in Covered(many)
      BY <1>2, <2>2, <3>1, <3>2
    <3>. QED
      BY <1>2, <3>3
  <2>6. ~ (s.hi < r.hi)
    <3>1. SUFFICES ASSUME s.hi < r.hi PROVE FALSE
      OBVIOUS
    <3>2. r.lo <= s.hi
      BY <2>2, <2>3, <2>4
    <3>3. s.hi \in Covered(many)
      BY <1>2, <2>2, <3>1, <3>2
    <3>. QED
      BY <1>2, <3>3
  <2>7. r.lo = s.lo /\ r.hi = s.hi
    BY <2>2, <2>3, <2>4, <2>5, <2>6
  <2>. QED
    BY <1>2, <2>7
<1>4. Sound(Coalesced(many), n)
  BY <1>2, <1>3 DEF Sound
<1>5. ASSUME NEW m \in Covered(many) PROVE m \in Covered(Coalesced(many))
  <2>1. m \in Nat /\ Below(many, n)
    BY <1>5, CoveredIs DEF Below
  <2>2. PICK l \in Nat, h \in Nat :
           /\ l <= m /\ m < h /\ Filled(many, l, h) /\ l - 1 \notin Covered(many) /\ h \notin Covered(many)
           /\ \E first, last \in many : first.lo = l /\ last.hi = h
    BY <1>5, <2>1, RunAround
  <2>3. l < h
    BY <2>1, <2>2
  <2>4. PICK whole : whole = Span(l, h)
    OBVIOUS
  <2>5. whole \in SequenceRanges /\ whole.lo = l /\ whole.hi = h
    BY <2>3, <2>4, SpanIs
  <2>6. Members(whole) \subseteq Covered(many)
    <3>1. SUFFICES ASSUME NEW k \in Members(whole) PROVE k \in Covered(many)
      OBVIOUS
    <3>2. k \in Nat /\ l <= k /\ k < h
      BY <2>5, MembersIs
    <3>. QED
      BY <2>2, <3>2, FilledAt
  <2>7. whole \in {Span(f.lo, g.hi) : f, g \in many}
    <3>1. PICK first \in many, last \in many : first.lo = l /\ last.hi = h
      BY <2>2
    <3>2. whole = Span(first.lo, last.hi)
      BY <2>4, <3>1
    <3>. QED
      BY <3>2
  <2>8. whole \in Coalesced(many)
    BY <2>2, <2>3, <2>5, <2>6, <2>7 DEF Coalesced
  <2>9. Coalesced(many) \subseteq SequenceRanges
    BY <1>4 DEF Sound
  <2>. QED
    BY <2>1, <2>2, <2>5, <2>8, <2>9, CoveredIs
<1>6. ASSUME NEW m \in Covered(Coalesced(many)) PROVE m \in Covered(many)
  BY <1>2, <1>4, <1>6, CoveredIs DEF Sound
<1>. QED
  BY <1>2, <1>4, <1>5, <1>6

LEMMA AddedIs ==
  ASSUME NEW rs, NEW n \in Nat, Sound(rs, n),
         NEW many, many \subseteq SequenceRanges, \A a \in many : a.hi <= n
  PROVE  /\ Sound(Added(rs, many), n)
         /\ Covered(Added(rs, many)) = Covered(rs) \cup Covered(many)
         /\ \A s \in Added(rs, many) : \E r \in rs \cup many : s.lo = r.lo
<1>1. PICK batch : batch = Coalesced(many)
  OBVIOUS
<1>2. Sound(batch, n) /\ Covered(batch) = Covered(many) /\ \A s \in batch : \E r \in many : s.lo = r.lo
  BY <1>1, CoalescedIs
<1>3. PICK touched : touched = BatchNeighbours(rs, batch)
  OBVIOUS
<1>4. touched = {r \in rs : \E a \in batch : Overlaps(r, a)}
  BY <1>2, <1>3, NeighboursIs DEF BatchNeighbours, Sound
<1>5. PICK both : both = batch \cup touched
  OBVIOUS
<1>6. both \subseteq SequenceRanges /\ (\A r \in both : r.hi <= n)
  BY <1>2, <1>4, <1>5 DEF Sound
<1>7. PICK joined : joined = Coalesced(both)
  OBVIOUS
<1>8. Sound(joined, n) /\ Covered(joined) = Covered(both) /\ \A s \in joined : \E r \in both : s.lo = r.lo
  BY <1>6, <1>7, CoalescedIs
<1>9. Added(rs, many) = (rs \ touched) \cup joined
  BY <1>1, <1>3, <1>5, <1>7 DEF Added
<1>10. ASSUME NEW r \in rs \ touched, NEW c \in joined PROVE r.hi < c.lo \/ c.hi < r.lo
  <2>1. r.lo \in Nat /\ r.hi \in Nat /\ r.lo < r.hi /\ c.lo \in Nat /\ c.hi \in Nat /\ c.lo < c.hi
    BY <1>8, RangeIs DEF Sound
  <2>2. \A f \in both : f.lo \in Nat /\ f.hi \in Nat /\ f.lo < f.hi /\ ~ Overlaps(r, f)
    <3>1. \A f \in batch : ~ Overlaps(r, f)
      BY <1>4
    <3>2. \A f \in touched : r.hi < f.lo \/ f.hi < r.lo
      BY <1>4 DEF Sound, Apart
    <3>3. \A f \in both : f.lo \in Nat /\ f.hi \in Nat /\ f.lo < f.hi
      BY <1>6, RangeIs
    <3>. QED
      BY <1>5, <2>1, <3>1, <3>2, <3>3 DEF Overlaps
  <2>3. SUFFICES ASSUME c.lo <= r.hi, r.lo <= c.hi PROVE FALSE
    BY <2>1
  <2>4. CASE r.lo <= c.lo
    <3>1. PICK f \in both : c.lo = f.lo
      BY <1>8
    <3>. QED
      BY <2>1, <2>2, <2>3, <2>4, <3>1 DEF Overlaps
  <2>5. CASE c.lo < r.lo
    <3>1. r.lo - 1 \in Nat /\ c.lo <= r.lo - 1 /\ r.lo - 1 < c.hi
      BY <2>1, <2>3, <2>5
    <3>2. r.lo - 1 \in Covered(both)
      BY <1>8, <3>1, CoveredIs DEF Sound
    <3>3. PICK f \in both : f.lo <= r.lo - 1 /\ r.lo - 1 < f.hi
      BY <1>6, <3>2, CoveredIs
    <3>. QED
      BY <2>1, <2>2, <3>3 DEF Overlaps
  <2>. QED
    BY <2>1, <2>4, <2>5
<1>11. Sound(Added(rs, many), n)
  <2>1. Apart(Added(rs, many))
    BY <1>8, <1>9, <1>10 DEF Apart, Sound
  <2>. QED
    BY <1>8, <1>9, <2>1 DEF Sound
<1>12. Covered(Added(rs, many)) = Covered(rs) \cup Covered(many)
  <2>1. Covered(both) = Covered(batch) \cup Covered(touched)
    BY <1>5 DEF Covered
  <2>2. Covered(rs) = Covered(rs \ touched) \cup Covered(touched)
    BY <1>4 DEF Covered
  <2>3. Covered(Added(rs, many)) = Covered(rs \ touched) \cup Covered(joined)
    BY <1>9 DEF Covered
  <2>. QED
    BY <1>2, <1>8, <2>1, <2>2, <2>3
<1>13. ASSUME NEW s \in Added(rs, many) PROVE \E r \in rs \cup many : s.lo = r.lo
  <2>1. CASE s \in rs
    BY <2>1
  <2>2. CASE s \in joined
    <3>1. PICK f \in both : s.lo = f.lo
      BY <1>8, <2>2
    <3>2. \E r \in rs \cup many : f.lo = r.lo
      BY <1>2, <1>4, <1>5
    <3>. QED
      BY <3>1, <3>2
  <2>. QED
    BY <1>9, <2>1, <2>2
<1>. QED
  BY <1>11, <1>12, <1>13

-----------------------------------------------------------------------------
(* What a committed read state is, and what a transaction knows.           *)

MessagesTyped ==
  /\ eventSeq \in Nat /\ Joined <= eventSeq
  /\ Messages \subseteq 1 .. eventSeq
  /\ topicOf \in [Messages -> Topics]
  /\ movedSeq \in [Messages -> 0 .. eventSeq]

HasPrefix(rs) == \A m \in 0 .. Joined : m \in Covered(rs)

(* Every range but the first begins right after a message.                 *)
Starts(rs) == \A s \in rs : s.lo <= 1 \/ s.lo - 1 \in Messages

StoredSound ==
  /\ Sound(ranges, eventSeq + 1) /\ Starts(ranges)
  /\ ranges # {} => HasPrefix(ranges)

(* A floor hides no message that the set leaves unread.                    *)
FloorTrue(rs, t, floor) ==
  /\ floor \in Nat /\ floor <= eventSeq
  /\ \A m \in Messages : topicOf[m] = t /\ m \notin Covered(rs) => m > floor \/ movedSeq[m] > floor

FloorsTrue == \A t \in DOMAIN floors : FloorTrue(ranges, t, floors[t])

(* The message a transaction is about to add, and how far its ranges go.   *)
Reader(d) == d.kind \in {"feed", "topic"}
NewSeq(d) == IF d.kind = "branch" THEN eventSeq + 2 ELSE eventSeq + 1
Own(d) == IF Reader(d) THEN {} ELSE {NewSeq(d)}
Top(d) == (IF Reader(d) THEN eventSeq ELSE NewSeq(d)) + 1

Locked == {"probe", "find", "guard", "commit"}

LocksHeld ==
  \A p \in Requests :
    /\ tx[p].pc \in Locked => channelRead = p
    /\ tx[p].pc # "idle" /\ ~ Reader(tx[p]) => orgRow = p

InPage(d) == d.through <= d.cursor /\ d.cursor <= eventSeq /\ (d.from = 0 => d.through = d.cursor)

(* Every message the candidate query was to find is in its additions, but  *)
(* for those moved since.                                                  *)
Found(d) ==
  \A m \in Messages :
    topicOf[m] = d.topic /\ d.from <= m /\ m <= d.through /\ movedSeq[m] <= d.cursor =>
      m \in Covered(d.work) \cup Covered(d.add)

Additions(rs, top) == rs \subseteq SequenceRanges /\ (\A a \in rs : a.hi <= top) /\ Starts(rs)

Begun(d) ==
  d.pc = "begun" =>
    \/ /\ d.kind = "feed" /\ d.from <= d.through /\ d.through <= eventSeq
       /\ d.asked = {m \in Messages : d.from <= m /\ m <= d.through}
    \/ d.kind = "topic" /\ d.topic \in Topics /\ InPage(d)

Merging(d) ==
  d.pc = "merge" =>
    /\ d.kind # "topic" /\ (d.kind # "feed" => d.topic \in Topics)
    /\ Additions(d.add, Top(d))
    /\ \A a \in d.add : Members(a) \cap (Messages \cup Own(d)) = d.asked

(* What the set says of the messages once d is done.                       *)
Marks(d, covered) ==
  (Messages \cup Own(d)) \cap covered = (Messages \cap Covered(Established)) \cup d.asked

Exact(d) == d.changed <=> ~ (d.asked \subseteq Covered(Established))

Working(d) ==
  d.pc \in Locked =>
    /\ Sound(d.work, Top(d)) /\ Starts(d.work) /\ HasPrefix(d.work)
    /\ Covered(Established) \subseteq Covered(d.work)
    /\ d.kind # "feed" => d.topic \in Topics
    /\ d.kind = "topic" => FloorTrue(d.work, d.topic, d.floor)

Probing(d) ==
  d.pc = "probe" =>
    /\ d.kind = "feed" /\ Marks(d, Covered(d.work))
    /\ d.new \subseteq 0 .. eventSeq /\ d.new \cap Messages = d.asked \ Covered(Established)

Finding(d) ==
  d.pc = "find" =>
    d.kind = "topic" /\ InPage(d) /\ Covered(d.work) = Covered(Established)

Guarding(d) ==
  d.pc = "guard" =>
    /\ d.kind = "topic" /\ InPage(d) /\ Additions(d.add, eventSeq + 1) /\ Found(d)
    /\ Marks(d, Covered(d.work) \cup Covered(d.add)) /\ Exact(d)

Committing(d) ==
  d.pc = "commit" => Marks(d, Covered(d.work)) /\ (Reader(d) => Exact(d))

Knows(d) ==
  /\ Begun(d) /\ Merging(d) /\ Working(d)
  /\ Probing(d) /\ Finding(d) /\ Guarding(d) /\ Committing(d)

RInv ==
  /\ MessagesTyped /\ StoredSound /\ FloorsTrue /\ LocksHeld
  /\ tx \in [Requests -> Transactions]
  /\ \A p \in Requests : Knows(tx[p])

-----------------------------------------------------------------------------
(* Facts about the parts.                                                  *)

LEMMA CoveredBelow ==
  ASSUME NEW rs, NEW n \in Nat, rs \subseteq SequenceRanges, \A r \in rs : r.hi <= n,
         NEW m \in Covered(rs)
  PROVE  m \in Nat /\ m < n
<1>1. PICK r \in rs : m \in Nat /\ r.lo <= m /\ m < r.hi
  BY CoveredIs
<1>2. r.hi \in Nat /\ r.hi <= n
  BY RangeIs
<1>. QED
  BY <1>1, <1>2

LEMMA JoinPrefixIs ==
  /\ JoinPrefix \in SequenceRanges /\ JoinPrefix.lo = 0 /\ JoinPrefix.hi = Joined + 1
  /\ Members(JoinPrefix) = 0 .. Joined
<1>1. 0 < Joined + 1 /\ Joined + 1 \in Nat /\ Joined \in Nat
  BY ReadStateAssumption
<1>2. JoinPrefix \in SequenceRanges /\ JoinPrefix.lo = 0 /\ JoinPrefix.hi = Joined + 1
  BY <1>1, SpanIs DEF JoinPrefix
<1>. QED
  BY <1>1, <1>2 DEF Members

LEMMA StoredIs ==
  ASSUME MessagesTyped, StoredSound
  PROVE  /\ Sound(Stored, eventSeq + 1) /\ Starts(Stored) /\ HasPrefix(Stored)
         /\ Covered(Stored) = Covered(ranges) \cup (0 .. Joined)
<1>0. eventSeq + 1 \in Nat /\ Joined \in Nat /\ Joined + 1 <= eventSeq + 1
  BY ReadStateAssumption DEF MessagesTyped
<1>1. CASE ranges = {}
  <2>1. Stored = {JoinPrefix}
    BY <1>1 DEF Stored
  <2>2. Covered({JoinPrefix}) = 0 .. Joined /\ Covered(ranges) = {}
    BY <1>1, JoinPrefixIs DEF Covered
  <2>3. Sound({JoinPrefix}, eventSeq + 1)
    BY <1>0, JoinPrefixIs DEF Sound, Apart
  <2>4. Starts({JoinPrefix})
    BY JoinPrefixIs DEF Starts
  <2>5. HasPrefix({JoinPrefix})
    BY <2>2 DEF HasPrefix
  <2>. QED
    BY <2>1, <2>2, <2>3, <2>4, <2>5
<1>2. CASE ranges # {}
  BY <1>2 DEF Stored, StoredSound, HasPrefix
<1>. QED
  BY <1>1, <1>2

LEMMA EstablishedIs ==
  ASSUME MessagesTyped, StoredSound
  PROVE  /\ Sound(Established, eventSeq + 1) /\ Starts(Established) /\ HasPrefix(Established)
         /\ Covered(Established) = Covered(Stored)
         /\ Covered(Established) \subseteq 0 .. eventSeq
<1>0. eventSeq + 1 \in Nat /\ eventSeq \in Nat /\ Joined \in Nat /\ Joined + 1 <= eventSeq + 1
  BY ReadStateAssumption DEF MessagesTyped
<1>1. Sound(ranges, eventSeq + 1)
  BY DEF StoredSound
<1>2. /\ Sound(Established, eventSeq + 1)
      /\ Covered(Established) = Covered(ranges) \cup Members(JoinPrefix)
      /\ \A s \in Established : s.lo = JoinPrefix.lo \/ \E r \in ranges : s.lo = r.lo
  BY <1>0, <1>1, JoinPrefixIs, MergedIs DEF Established
<1>3. Covered(Established) = Covered(Stored)
  BY <1>2, StoredIs, JoinPrefixIs
<1>4. HasPrefix(Established)
  BY <1>2, JoinPrefixIs DEF HasPrefix
<1>5. Starts(Established)
  BY <1>2, JoinPrefixIs DEF Starts, StoredSound
<1>6. Covered(Established) \subseteq 0 .. eventSeq
  <2>1. SUFFICES ASSUME NEW m \in Covered(Established) PROVE m \in 0 .. eventSeq
    OBVIOUS
  <2>2. m \in Nat /\ m < eventSeq + 1
    BY <1>0, <1>2, CoveredBelow DEF Sound
  <2>. QED
    BY <1>0, <2>2
<1>. QED
  BY <1>2, <1>3, <1>4, <1>5, <1>6

(* The first range of an established set covers the prefix and no range    *)
(* begins at its end.                                                      *)
LEMMA PrefixIs ==
  ASSUME NEW rs, NEW n \in Nat, Sound(rs, n), HasPrefix(rs)
  PROVE  /\ Prefix(rs) \in Nat /\ Joined < Prefix(rs) /\ Prefix(rs) <= n
         /\ \E r \in rs : r.lo = 0 /\ r.hi = Prefix(rs)
         /\ \A m \in Nat : m < Prefix(rs) => m \in Covered(rs)
<1>0. Joined \in Nat /\ rs \subseteq SequenceRanges
  BY ReadStateAssumption DEF Sound
<1>1. PICK r \in rs : r.lo <= 0 /\ 0 < r.hi
  BY <1>0, CoveredIs DEF HasPrefix
<1>2. PICK h \in Nat : r.hi = h /\ r.lo = 0 /\ 0 < h /\ h <= n
  BY <1>0, <1>1, RangeIs DEF Sound
<1>3. \A q \in rs : q.lo = 0 => q = r
  BY <1>0, <1>2, RangeIs DEF Sound, Apart
<1>4. {q.hi : q \in {s \in rs : s.lo = 0}} = {h}
  BY <1>2, <1>3
<1>5. Prefix(rs) = h
  <2>1. Max({h}) \in {h}
    BY MaxIs
  <2>. QED
    BY <1>4, <2>1 DEF Prefix
<1>6. Joined < h
  <2>1. SUFFICES ASSUME h <= Joined PROVE FALSE
    BY <1>0
  <2>2. PICK q \in rs : q.lo <= h /\ h < q.hi
    BY <1>0, <2>1, CoveredIs DEF HasPrefix
  <2>3. q.lo \in Nat /\ q.hi \in Nat
    BY <1>0, RangeIs
  <2>4. q = r \/ q.hi < r.lo \/ r.hi < q.lo
    BY DEF Sound, Apart
  <2>. QED
    BY <1>2, <2>2, <2>3, <2>4
<1>7. \A m \in Nat : m < h => m \in Covered(rs)
  BY <1>0, <1>2, CoveredIs
<1>. QED
  BY <1>2, <1>5, <1>6, <1>7

LEMMA LastBeforeIs ==
  ASSUME MessagesTyped, NEW s \in Nat
  PROVE  /\ LastBefore(s) \in Nat
         /\ LastBefore(s) = 0 \/ (LastBefore(s) \in Messages /\ LastBefore(s) < s)
         /\ \A m \in Messages : m < s => m <= LastBefore(s)
<1>. DEFINE S == {m \in Messages : m < s}
<1>0. Messages \subseteq Nat
  BY DEF MessagesTyped
<1>1. CASE S = {}
  BY <1>0, <1>1 DEF LastBefore
<1>2. CASE S # {}
  <2>0. S \subseteq Nat
    BY <1>0
  <2>1. S \subseteq Nat /\ \A x \in S : x <= s
    BY <2>0
  <2>2. Max(S) \in S /\ \A y \in S : y <= Max(S)
    BY <1>2, <2>1, MaxIs
  <2>3. LastBefore(s) = Max(S)
    BY <1>2 DEF LastBefore
  <2>. QED
    BY <1>0, <2>2, <2>3
<1>. QED
  BY <1>1, <1>2

LEMMA FirstAfterIs ==
  ASSUME MessagesTyped, NEW s \in Nat, NEW default \in Nat
  PROVE  /\ FirstAfter(s, default) \in Nat
         /\ \/ FirstAfter(s, default) = default /\ \A m \in Messages : m <= s
            \/ /\ FirstAfter(s, default) \in Messages /\ s < FirstAfter(s, default)
               /\ \A m \in Messages : s < m => FirstAfter(s, default) <= m
<1>. DEFINE S == {m \in Messages : m > s}
<1>0. Messages \subseteq Nat
  BY DEF MessagesTyped
<1>1. CASE S = {}
  BY <1>0, <1>1 DEF FirstAfter
<1>2. CASE S # {}
  <2>1. S \subseteq Nat
    BY <1>0
  <2>2. Min(S) \in S /\ \A y \in S : Min(S) <= y
    BY <1>2, <2>1, MinIs
  <2>3. FirstAfter(s, default) = Min(S)
    BY <1>2 DEF FirstAfter
  <2>. QED
    BY <1>0, <2>2, <2>3
<1>. QED
  BY <1>1, <1>2

-----------------------------------------------------------------------------
(* Messages come above all that a transaction has seen, and a move gives   *)
(* its messages a sequence above it.                                       *)

Grows ==
  /\ MessagesTyped' /\ eventSeq <= eventSeq'
  /\ Messages \subseteq Messages'
  /\ \A m \in Messages' : m \in Messages \/ eventSeq < m
  /\ \A m \in Messages : (topicOf'[m] = topicOf[m] /\ movedSeq'[m] = movedSeq[m]) \/ eventSeq < movedSeq'[m]

LEMMA SameGrows ==
  ASSUME MessagesTyped, UNCHANGED messages
  PROVE  Grows
BY DEF MessagesTyped, messages, Messages, Grows

LEMMA ArrivesGrows ==
  ASSUME MessagesTyped, NEW s \in Nat, eventSeq < s, NEW t \in Topics, NEW moves, NEW to \in Topics,
         NEW seq \in 0 .. s, moves = {} \/ eventSeq < seq, Arrives(s, t, moves, to, seq)
  PROVE  Grows /\ Messages' = Messages \cup {s} /\ eventSeq' = s
<1>1. Messages' = Messages \cup {s} /\ eventSeq' = s
  BY DEF Arrives, Messages
<1>2. /\ \A m \in Messages \cup {s} :
           /\ topicOf'[m] = IF m = s THEN t ELSE IF m \in moves THEN to ELSE topicOf[m]
           /\ movedSeq'[m] = IF m = s THEN 0 ELSE IF m \in moves THEN seq ELSE movedSeq[m]
      /\ topicOf' = [m \in Messages \cup {s} |-> topicOf'[m]]
      /\ movedSeq' = [m \in Messages \cup {s} |-> movedSeq'[m]]
  BY DEF Arrives
<1>3. eventSeq \in Nat /\ Messages \subseteq 1 .. eventSeq /\ Joined <= eventSeq /\ Joined \in Nat
      /\ topicOf \in [Messages -> Topics] /\ movedSeq \in [Messages -> 0 .. eventSeq]
  BY ReadStateAssumption DEF MessagesTyped
<1>4. Messages \cup {s} \subseteq 1 .. s
  BY <1>3
<1>5. \A m \in Messages \cup {s} : topicOf'[m] \in Topics /\ movedSeq'[m] \in 0 .. s
  BY <1>2, <1>3
<1>6. topicOf' \in [Messages \cup {s} -> Topics] /\ movedSeq' \in [Messages \cup {s} -> 0 .. s]
  BY <1>2, <1>5
<1>7. MessagesTyped'
  BY <1>1, <1>3, <1>4, <1>6 DEF MessagesTyped
<1>8. s \notin Messages
  BY <1>3
<1>9. \A m \in Messages : (topicOf'[m] = topicOf[m] /\ movedSeq'[m] = movedSeq[m]) \/ eventSeq < movedSeq'[m]
  BY <1>2, <1>3, <1>8
<1>. QED
  BY <1>1, <1>3, <1>7, <1>9 DEF Grows

LEMMA FloorGrows ==
  ASSUME MessagesTyped, Grows, NEW rs, NEW t, NEW floor, FloorTrue(rs, t, floor)
  PROVE  FloorTrue(rs, t, floor)'
<1>1. eventSeq \in Nat /\ eventSeq' \in Nat /\ floor \in Nat /\ floor <= eventSeq /\ floor <= eventSeq'
  BY DEF MessagesTyped, Grows, FloorTrue
<1>2. SUFFICES ASSUME NEW m \in Messages', topicOf'[m] = t, m \notin Covered(rs)
               PROVE  m > floor \/ movedSeq'[m] > floor
  BY <1>1 DEF FloorTrue, Covered, Members
<1>3. m \in Nat /\ movedSeq'[m] \in Nat
  BY DEF Grows, MessagesTyped
<1>4. CASE m \notin Messages
  BY <1>1, <1>3, <1>4 DEF Grows
<1>5. CASE m \in Messages /\ eventSeq < movedSeq'[m]
  BY <1>1, <1>3, <1>5
<1>6. CASE m \in Messages /\ topicOf'[m] = topicOf[m] /\ movedSeq'[m] = movedSeq[m]
  BY <1>2, <1>6 DEF FloorTrue
<1>. QED
  BY <1>4, <1>5, <1>6 DEF Grows

LEMMA StartsGrow ==
  ASSUME Grows, NEW rs, Starts(rs)
  PROVE  Starts(rs)'
BY DEF Grows, Starts

(* What a transaction knows it knows after the steps of others: they add   *)
(* no message while it holds the organisation's row, and leave the stored  *)
(* state alone while it holds the channel's.                               *)
LEMMA KnowsStays ==
  ASSUME MessagesTyped, StoredSound, Grows, NEW d \in Transactions, Knows(d),
         Reader(d) \/ UNCHANGED messages,
         ranges' = ranges \/ d.pc \notin Locked
  PROVE  Knows(d)'
<1>1. eventSeq \in Nat /\ eventSeq' \in Nat /\ eventSeq <= eventSeq'
      /\ Messages \subseteq 1 .. eventSeq /\ Messages' \subseteq Nat
  BY DEF MessagesTyped, Grows
<1>2. Top(d) \in Nat /\ Top(d)' \in Nat /\ Top(d) <= Top(d)' /\ Own(d)' = Own(d) /\ eventSeq + 1 <= Top(d)
  <2>1. CASE Reader(d)
    <3>1. Reader(d)' = Reader(d)
      BY DEF Reader
    <3>2. Top(d) = eventSeq + 1 /\ Own(d) = {}
      BY <2>1 DEF Top, Own
    <3>3. Top(d)' = eventSeq' + 1 /\ Own(d)' = {}
      BY <2>1, <3>1 DEF Top, Own
    <3>4. PICK n \in Nat : n = eventSeq'
      BY <1>1
    <3>5. n \in Nat /\ eventSeq \in Nat /\ eventSeq <= n
      BY <1>1, <3>4
    <3>7. n + 1 \in Nat /\ eventSeq + 1 \in Nat /\ eventSeq + 1 <= n + 1
      BY <3>5
    <3>6. Top(d)' = n + 1
      BY <3>3, <3>4
    <3>. QED
      BY <3>2, <3>3, <3>5, <3>6
  <2>2. CASE ~ Reader(d) /\ eventSeq' = eventSeq
    BY <1>1, <2>2 DEF Top, Own, NewSeq, Reader
  <2>. QED
    BY <2>1, <2>2 DEF messages
<1>3. \A m \in Messages' \cup Own(d) : m \in Nat /\ (m \in Messages \cup Own(d) \/ (Top(d) <= m /\ m \notin Own(d)))
  <2>1. CASE Reader(d)
    <3>1. Own(d) = {} /\ Top(d) = eventSeq + 1
      BY <2>1 DEF Own, Top
    <3>2. ASSUME NEW m \in Messages'
          PROVE  m \in Nat /\ (m \in Messages \/ eventSeq + 1 <= m)
      <4>1. m \in Nat /\ eventSeq \in Nat /\ (m \in Messages \/ m > eventSeq)
        BY <1>1 DEF Grows
      <4>. QED
        BY <4>1
    <3>. QED
      BY <3>1, <3>2
  <2>2. CASE UNCHANGED messages
    BY <1>1, <2>2 DEF messages, Messages, Own, NewSeq
  <2>. QED
    BY <2>1, <2>2
<1>4. d.pc \in Locked => Established' = Established
  BY DEF Established, Merged, Neighbours, LowerLo, Overlaps, JoinPrefix, Span
<1>5. \A rs : rs \subseteq SequenceRanges /\ (\A r \in rs : r.hi <= Top(d)) =>
        (Messages' \cup Own(d)) \cap Covered(rs) = (Messages \cup Own(d)) \cap Covered(rs)
  <2>1. SUFFICES ASSUME NEW rs, rs \subseteq SequenceRanges, \A r \in rs : r.hi <= Top(d),
                        NEW m \in Messages' \cup Own(d), m \in Covered(rs)
                 PROVE  m \in Messages \cup Own(d)
    BY DEF Grows
  <2>2. m \in Nat /\ m < Top(d)
    BY <1>2, <2>1, CoveredBelow
  <2>. QED
    BY <1>2, <1>3, <2>2
<1>6. Messages' \cap Covered(Established) = Messages \cap Covered(Established)
  <2>1. Covered(Established) \subseteq 0 .. eventSeq
    BY EstablishedIs
  <2>2. \A m \in Messages' : m \in Messages \/ eventSeq < m
    BY DEF Grows
  <2>. QED
    BY <1>1, <2>1, <2>2 DEF Grows
<1>7. Begun(d)'
  <2>1. SUFFICES ASSUME d.pc = "begun" PROVE Begun(d)'
    BY DEF Begun
  <2>2. d.from \in Nat /\ d.through \in Nat /\ d.cursor \in Nat
    BY DEF Transactions
  <2>3. CASE d.kind = "topic"
    BY <1>1, <2>1, <2>2, <2>3 DEF Knows, Begun, InPage
  <2>4. CASE d.kind # "topic"
    <3>1. d.kind = "feed" /\ d.from <= d.through /\ d.through <= eventSeq
          /\ d.asked = {m \in Messages : d.from <= m /\ m <= d.through}
      BY <2>1, <2>4 DEF Knows, Begun
    <3>2. d.asked = {m \in Messages' : d.from <= m /\ m <= d.through}
      <4>1. \A m \in Messages' : m \in Nat /\ (m <= d.through => m \in Messages)
        BY <1>1, <2>2, <3>1 DEF Grows
      <4>2. Messages \subseteq Messages'
        BY DEF Grows
      <4>. QED
        BY <3>1, <4>1, <4>2
    <3>. QED
      BY <1>1, <2>2, <3>1, <3>2 DEF Begun
  <2>. QED
    BY <2>3, <2>4
<1>8. \A rs : Additions(rs, Top(d)) => Additions(rs, Top(d))'
  BY <1>2, StartsGrow, RangeIs DEF Additions
<1>9. Merging(d)'
  <2>1. SUFFICES ASSUME d.pc = "merge" PROVE Merging(d)'
    BY DEF Merging
  <2>2. /\ d.kind # "topic" /\ (d.kind # "feed" => d.topic \in Topics)
        /\ Additions(d.add, Top(d))
        /\ \A a \in d.add : Members(a) \cap (Messages \cup Own(d)) = d.asked
    BY <2>1 DEF Knows, Merging
  <2>3. ASSUME NEW a \in d.add PROVE Members(a) \cap (Messages' \cup Own(d)) = d.asked
    <3>1. {a} \subseteq SequenceRanges /\ \A r \in {a} : r.hi <= Top(d)
      BY <2>2 DEF Additions
    <3>2. (Messages' \cup Own(d)) \cap Covered({a}) = (Messages \cup Own(d)) \cap Covered({a})
      BY <1>5, <3>1
    <3>3. Covered({a}) = Members(a)
      BY DEF Covered
    <3>. QED
      BY <2>2, <3>2, <3>3
  <2>. QED
    BY <1>2, <1>8, <2>2, <2>3 DEF Merging, Members
<1>10. \A rs : Sound(rs, Top(d)) => Sound(rs, Top(d))'
  BY <1>2, RangeIs DEF Sound
<1>11. Working(d)'
  <2>1. SUFFICES ASSUME d.pc \in Locked PROVE Working(d)'
    BY DEF Working, Locked
  <2>2. Established' = Established
    BY <1>4, <2>1
  <2>3. /\ Sound(d.work, Top(d)) /\ Starts(d.work) /\ HasPrefix(d.work)
        /\ Covered(Established) \subseteq Covered(d.work)
        /\ d.kind # "feed" => d.topic \in Topics
        /\ d.kind = "topic" => FloorTrue(d.work, d.topic, d.floor)
    BY <2>1 DEF Knows, Working
  <2>4. Sound(d.work, Top(d))' /\ Starts(d.work)' /\ HasPrefix(d.work)'
    BY <1>10, <2>3, StartsGrow DEF HasPrefix, Covered, Members
  <2>5. d.kind = "topic" => FloorTrue(d.work, d.topic, d.floor)'
    BY <2>3, FloorGrows
  <2>. QED
    BY <2>2, <2>3, <2>4, <2>5 DEF Working, Covered, Members
<1>12. \A rs : rs \subseteq SequenceRanges /\ (\A r \in rs : r.hi <= Top(d)) /\ Established' = Established
                 /\ Marks(d, Covered(rs)) => Marks(d, Covered(rs))'
  BY <1>2, <1>5, <1>6 DEF Marks, Covered, Members
<1>13. Established' = Established /\ Exact(d) => Exact(d)'
  BY DEF Exact, Covered, Members
<1>14. Probing(d)'
  <2>1. SUFFICES ASSUME d.pc = "probe" PROVE Probing(d)'
    BY DEF Probing
  <2>2. /\ d.kind = "feed" /\ Marks(d, Covered(d.work))
        /\ d.new \subseteq 0 .. eventSeq /\ d.new \cap Messages = d.asked \ Covered(Established)
    BY <2>1 DEF Knows, Probing
  <2>3. Established' = Established /\ Sound(d.work, Top(d))
    BY <1>4, <2>1 DEF Knows, Working, Locked
  <2>4. Marks(d, Covered(d.work))'
    BY <1>12, <2>2, <2>3 DEF Sound
  <2>5. d.new \cap Messages' = d.new \cap Messages
    BY <1>1, <2>2 DEF Grows
  <2>6. d.new \subseteq 0 .. eventSeq'
    BY <1>1, <2>2
  <2>. QED
    BY <2>2, <2>3, <2>4, <2>5, <2>6 DEF Probing, Covered, Members
<1>15. Finding(d)'
  <2>1. SUFFICES ASSUME d.pc = "find" PROVE Finding(d)'
    BY DEF Finding
  <2>2. d.kind = "topic" /\ InPage(d) /\ Covered(d.work) = Covered(Established)
    BY <2>1 DEF Knows, Finding
  <2>3. Established' = Established
    BY <1>4, <2>1 DEF Locked
  <2>4. InPage(d)'
    BY <1>1, <2>2 DEF InPage, Transactions
  <2>. QED
    BY <2>2, <2>3, <2>4 DEF Finding, Covered, Members
<1>16. Guarding(d)'
  <2>1. SUFFICES ASSUME d.pc = "guard" PROVE Guarding(d)'
    BY DEF Guarding
  <2>2. /\ d.kind = "topic" /\ InPage(d) /\ Additions(d.add, eventSeq + 1) /\ Found(d)
        /\ Marks(d, Covered(d.work) \cup Covered(d.add)) /\ Exact(d)
    BY <2>1 DEF Knows, Guarding
  <2>3. Established' = Established /\ Sound(d.work, Top(d))
    BY <1>4, <2>1 DEF Knows, Working, Locked
  <2>4. InPage(d)'
    BY <1>1, <2>2 DEF InPage, Transactions
  <2>5. Top(d) = eventSeq + 1 /\ Top(d)' = eventSeq' + 1
    BY <2>2 DEF Top, Reader
  <2>6. Additions(d.add, eventSeq + 1)'
    BY <1>8, <2>2, <2>5
  <2>7. Marks(d, Covered(d.work \cup d.add))'
    <3>1. Covered(d.work \cup d.add) = Covered(d.work) \cup Covered(d.add)
      BY DEF Covered
    <3>2. d.work \cup d.add \subseteq SequenceRanges /\ \A r \in d.work \cup d.add : r.hi <= Top(d)
      BY <2>2, <2>3, <2>5 DEF Sound, Additions
    <3>. QED
      BY <1>12, <2>2, <2>3, <3>1, <3>2
  <2>8. Found(d)'
    <3>1. SUFFICES ASSUME NEW m \in Messages', topicOf'[m] = d.topic, d.from <= m, m <= d.through,
                          movedSeq'[m] <= d.cursor
                   PROVE  m \in Covered(d.work) \cup Covered(d.add)
      BY DEF Found, Covered, Members
    <3>2. m \in Nat /\ movedSeq'[m] \in Nat /\ d.through \in Nat /\ d.cursor \in Nat
          /\ d.through <= eventSeq /\ d.cursor <= eventSeq
      BY <1>1, <2>2 DEF Grows, MessagesTyped, InPage, Transactions
    <3>3. m \in Messages
      BY <1>1, <3>1, <3>2 DEF Grows
    <3>4. topicOf'[m] = topicOf[m] /\ movedSeq'[m] = movedSeq[m]
      BY <1>1, <3>1, <3>2, <3>3 DEF Grows
    <3>. QED
      BY <2>2, <3>1, <3>3, <3>4 DEF Found
  <2>9. Exact(d)'
    BY <1>13, <2>2, <2>3
  <2>. QED
    BY <2>2, <2>4, <2>6, <2>7, <2>8, <2>9 DEF Guarding, Marks, Covered
<1>17. Committing(d)'
  <2>1. SUFFICES ASSUME d.pc = "commit" PROVE Committing(d)'
    BY DEF Committing
  <2>2. Marks(d, Covered(d.work)) /\ (Reader(d) => Exact(d))
    BY <2>1 DEF Knows, Committing
  <2>3. Established' = Established /\ Sound(d.work, Top(d))
    BY <1>4, <2>1 DEF Knows, Working, Locked
  <2>4. Marks(d, Covered(d.work))'
    BY <1>12, <2>2, <2>3 DEF Sound
  <2>. QED
    BY <1>13, <2>2, <2>3, <2>4 DEF Committing, Reader, Covered, Members
<1>. QED
  BY <1>7, <1>9, <1>11, <1>14, <1>15, <1>16, <1>17 DEF Knows

(* A step of one transaction keeps the locks of the others.                *)
LEMMA LocksFollow ==
  ASSUME LocksHeld, tx \in [Requests -> Transactions], NEW p \in Requests, NEW d,
         tx' = [tx EXCEPT ![p] = d],
         \A q \in Requests : q # p => /\ channelRead = q => channelRead' = q
                                      /\ orgRow = q => orgRow' = q,
         d.pc \in Locked => channelRead' = p,
         d.pc # "idle" /\ ~ Reader(d) => orgRow' = p
  PROVE  LocksHeld'
<1>1. SUFFICES ASSUME NEW q \in Requests
               PROVE  /\ tx'[q].pc \in Locked => channelRead' = q
                      /\ tx'[q].pc # "idle" /\ ~ Reader(tx'[q]) => orgRow' = q
  BY DEF LocksHeld, Locked, Reader
<1>2. CASE q = p
  <2>1. tx'[q] = d
    BY <1>2
  <2>. QED
    BY <1>2, <2>1
<1>3. CASE q # p
  <2>1. tx'[q] = tx[q]
    BY <1>3
  <2>. QED
    BY <1>3, <2>1 DEF LocksHeld
<1>. QED
  BY <1>2, <1>3

(* A step of one transaction before its commit changes what only it knows. *)
LEMMA OneMoves ==
  ASSUME RInv, NEW p \in Requests, NEW d \in Transactions, tx' = [tx EXCEPT ![p] = d],
         UNCHANGED messages, UNCHANGED readState, LocksHeld', Knows(d)
  PROVE  RInv'
<1>1. Grows
  BY SameGrows DEF RInv
<1>2. ranges' = ranges /\ floors' = floors
  BY DEF readState
<1>3. MessagesTyped' /\ Messages' = Messages /\ eventSeq' = eventSeq /\ topicOf' = topicOf /\ movedSeq' = movedSeq
  BY <1>1 DEF Grows, messages, Messages
<1>4. StoredSound'
  BY <1>2, <1>3 DEF RInv, StoredSound, Sound, Starts, HasPrefix, Apart, Covered, Members, SequenceRanges
<1>5. FloorsTrue'
  BY <1>2, <1>3 DEF RInv, FloorsTrue, FloorTrue, Covered, Members
<1>6. tx' \in [Requests -> Transactions]
  BY DEF RInv
<1>7. ASSUME NEW q \in Requests PROVE Knows(tx[q])'
  <2>1. PICK e : e = tx'[q]
    OBVIOUS
  <2>2. e \in Transactions /\ Knows(e)
    BY <2>1 DEF RInv
  <2>3. Knows(e)'
    BY <1>1, <1>2, <2>2, KnowsStays DEF RInv
  <2>. QED
    BY <2>1, <2>3
<1>. QED
  BY <1>3, <1>4, <1>5, <1>6, <1>7 DEF RInv

-----------------------------------------------------------------------------
(* What each step of a transaction knows.                                  *)

LEMMA IdleKnows == Idle \in Transactions /\ Idle.pc = "idle" /\ Knows(Idle)
<1>1. Idle \in Transactions /\ Idle.pc = "idle"
  BY DEF Idle, Transactions, Kinds
<1>. QED
  BY <1>1 DEF Knows, Begun, Merging, Working, Probing, Finding, Guarding, Committing, Locked

LEMMA FeedBegins ==
  ASSUME MessagesTyped, NEW from \in 0 .. eventSeq, NEW through \in 0 .. eventSeq,
         IsRun(through, from, through), NEW d,
         d = [Idle EXCEPT !.pc = "begun", !.from = from, !.through = through,
                !.asked = {m \in Messages : from <= m /\ m <= through}]
  PROVE  d \in Transactions /\ d.pc = "begun" /\ d.kind = "feed" /\ Knows(d)
<1>1. eventSeq \in Nat /\ from \in Nat /\ through \in Nat /\ from <= through /\ through <= eventSeq
      /\ Messages \subseteq Nat
  BY DEF MessagesTyped, IsRun
<1>2. d.pc = "begun" /\ d.kind = "feed" /\ d.from = from /\ d.through = through
      /\ d.asked = {m \in Messages : from <= m /\ m <= through}
  BY DEF Idle
<1>3. d \in Transactions
  BY <1>1, IdleKnows DEF Idle, Transactions
<1>4. Begun(d)
  BY <1>1, <1>2 DEF Begun
<1>. QED
  BY <1>2, <1>3, <1>4 DEF Knows, Begun, Merging, Working, Probing, Finding, Guarding, Committing, Locked

TopicBegun(t, cursor, from, through) ==
  [Idle EXCEPT !.pc = "begun", !.kind = "topic", !.topic = t,
     !.cursor = cursor, !.from = from, !.through = through]

LEMMA TopicBegins ==
  ASSUME MessagesTyped, NEW t \in Topics, NEW cursor \in 0 .. eventSeq,
         NEW from \in 0 .. eventSeq, NEW through \in 0 .. eventSeq,
         IsRun(cursor, from, through), NEW d, d = TopicBegun(t, cursor, from, through)
  PROVE  d \in Transactions /\ d.pc = "begun" /\ d.kind = "topic" /\ Knows(d)
<1>1. eventSeq \in Nat /\ from \in Nat /\ through \in Nat /\ cursor \in Nat
      /\ through <= cursor /\ cursor <= eventSeq /\ (from = 0 => through = cursor)
  BY DEF MessagesTyped, IsRun
<1>2. d.pc = "begun" /\ d.kind = "topic" /\ d.topic = t /\ d.from = from /\ d.through = through
      /\ d.cursor = cursor
  BY DEF Idle, TopicBegun
<1>3. d \in Transactions
  BY <1>1, IdleKnows DEF Idle, Transactions, Kinds, TopicBegun
<1>4. Begun(d)
  BY <1>1, <1>2 DEF Begun, InPage
<1>. QED
  BY <1>2, <1>3, <1>4 DEF Knows, Begun, Merging, Working, Probing, Finding, Guarding, Committing, Locked

(* The channel's neighbours of a run bound no other message.               *)
LowEnd(d) == IF LastBefore(d.from) = 0 THEN 0 ELSE LastBefore(d.from) + 1

Bounded(d, lo, hi) == [d EXCEPT !.pc = "merge", !.add = {Span(lo, hi)}, !.from = 0, !.through = 0]

LEMMA NeighboursAdd ==
  ASSUME MessagesTyped, NEW d \in Transactions, Knows(d), d.pc = "begun", d.kind = "feed",
         NEW lo, lo = LowEnd(d), NEW hi, hi = FirstAfter(d.through, d.through + 1),
         NEW e, e = Bounded(d, lo, hi)
  PROVE  e \in Transactions /\ e.pc = "merge" /\ e.kind = "feed" /\ Knows(e)
<1>1. d.from \in Nat /\ d.through \in Nat /\ d.through + 1 \in Nat
  BY DEF Transactions
<1>2. d.from <= d.through /\ d.through <= eventSeq
      /\ d.asked = {m \in Messages : d.from <= m /\ m <= d.through}
  BY DEF Knows, Begun
<1>3. eventSeq \in Nat /\ Messages \subseteq 1 .. eventSeq
  BY DEF MessagesTyped
<1>4. PICK b, f, g : b = LastBefore(d.from) /\ f = d.from /\ g = d.through
  OBVIOUS
<1>5. /\ b \in Nat /\ (b = 0 \/ (b \in Messages /\ b < f))
      /\ \A m \in Messages : m < f => m <= b
  BY <1>1, <1>4, LastBeforeIs
<1>6. /\ hi \in Nat
      /\ \/ hi = g + 1 /\ \A m \in Messages : m <= g
         \/ hi \in Messages /\ g < hi /\ \A m \in Messages : g < m => hi <= m
  BY <1>1, <1>4, FirstAfterIs
<1>7. lo = IF b = 0 THEN 0 ELSE b + 1
  BY <1>4 DEF LowEnd
<1>8. f \in Nat /\ g \in Nat /\ f <= g /\ g <= eventSeq /\ d.asked = {m \in Messages : f <= m /\ m <= g}
  BY <1>1, <1>2, <1>4
<1>9. lo \in Nat /\ lo <= f /\ (lo = 0 \/ lo - 1 \in Messages)
  BY <1>5, <1>7, <1>8
<1>10. g < hi /\ hi <= eventSeq + 1
  BY <1>3, <1>6, <1>8
<1>11. PICK a : a = Span(lo, hi)
  OBVIOUS
<1>12. a \in SequenceRanges /\ a.lo = lo /\ a.hi = hi
  BY <1>6, <1>8, <1>9, <1>10, <1>11, SpanIs
<1>13. ASSUME NEW m \in Messages PROVE m \in Members(a) <=> f <= m /\ m <= g
  <2>1. m \in Nat /\ 1 <= m
    BY <1>3
  <2>2. m \in Members(a) <=> lo <= m /\ m < hi
    BY <1>12, <2>1, MembersIs
  <2>3. f <= m /\ m <= g => lo <= m /\ m < hi
    BY <1>6, <1>8, <1>9, <1>10, <2>1
  <2>4. lo <= m /\ m < hi => f <= m
    BY <1>5, <1>7, <1>8, <2>1
  <2>5. lo <= m /\ m < hi => m <= g
    BY <1>6, <1>8, <2>1
  <2>. QED
    BY <2>2, <2>3, <2>4, <2>5
<1>14. e.pc = "merge" /\ e.kind = "feed" /\ e.add = {a} /\ e.asked = d.asked
  BY <1>11 DEF Transactions, Bounded
<1>15. e \in Transactions
  BY <1>11, <1>12 DEF Transactions, Bounded
<1>16. Top(e) = eventSeq + 1 /\ Own(e) = {}
  BY <1>14 DEF Top, Own, Reader
<1>17. Additions({a}, eventSeq + 1)
  BY <1>9, <1>10, <1>12 DEF Additions, Starts
<1>18. Members(a) \cap Messages = d.asked
  BY <1>8, <1>13
<1>19. Merging(e)
  BY <1>14, <1>16, <1>17, <1>18 DEF Merging
<1>. QED
  BY <1>14, <1>15, <1>19 DEF Knows, Begun, Merging, Working, Probing, Finding, Guarding, Committing, Locked

(* The range of an own message holds no other.                             *)
LEMMA OwnAdds ==
  ASSUME MessagesTyped, NEW d, d \in Transactions, d.pc = "merge", d.kind \in {"post", "branch"}, d.topic \in Topics,
         NEW seq \in Nat, eventSeq < seq, seq = NewSeq(d),
         d.add = {Span(LastBefore(seq) + 1, seq + 1)}, d.asked = {seq}
  PROVE  Knows(d)
<1>1. eventSeq \in Nat /\ Messages \subseteq 1 .. eventSeq
  BY DEF MessagesTyped
<1>2. PICK b : b = LastBefore(seq)
  OBVIOUS
<1>3. /\ b \in Nat /\ (b = 0 \/ (b \in Messages /\ b < seq))
      /\ \A m \in Messages : m < seq => m <= b
  BY <1>2, LastBeforeIs
<1>4. b + 1 \in Nat /\ seq + 1 \in Nat /\ b < seq /\ b + 1 < seq + 1
  BY <1>3, <1>1
<1>5. PICK a : a = Span(b + 1, seq + 1)
  OBVIOUS
<1>6. a \in SequenceRanges /\ a.lo = b + 1 /\ a.hi = seq + 1
  BY <1>4, <1>5, SpanIs
<1>7. Top(d) = seq + 1 /\ Own(d) = {seq} /\ ~ Reader(d)
  BY DEF Top, Own, Reader
<1>8. Starts({a})
  BY <1>3, <1>6 DEF Starts
<1>9. Additions({a}, seq + 1)
  BY <1>4, <1>6, <1>8 DEF Additions
<1>10. ASSUME NEW m \in Messages PROVE m \notin Members(a)
  <2>1. m \in Nat /\ m < seq /\ m <= b
    BY <1>1, <1>3
  <2>. QED
    BY <1>3, <1>6, <2>1, MembersIs
<1>11. seq \in Members(a)
  BY <1>4, <1>3, <1>6, MembersIs
<1>12. Members(a) \cap (Messages \cup {seq}) = {seq}
  BY <1>10, <1>11
<1>13. d.add = {a}
  BY <1>2, <1>5
<1>14. Merging(d)
  BY <1>7, <1>9, <1>12, <1>13 DEF Merging
<1>. QED
  BY <1>14 DEF Knows, Begun, Merging, Working, Probing, Finding, Guarding, Committing, Locked

(* The union under the lock marks what was asked, and new is what it adds. *)
United(d, a) ==
  [d EXCEPT !.work = Merged(Established, a),
            !.new = IF d.kind = "feed" THEN NewlyCovered(Established, a) ELSE {},
            !.add = {}, !.pc = IF d.kind = "feed" THEN "probe" ELSE "commit"]

LEMMA MergeMarks ==
  ASSUME MessagesTyped, StoredSound, NEW d \in Transactions, Knows(d), d.pc = "merge", NEW a \in d.add,
         NEW e, e = United(d, a)
  PROVE  e \in Transactions /\ e.pc \in {"probe", "commit"} /\ e.kind = d.kind /\ Knows(e)
<1>1. /\ d.kind # "topic" /\ (d.kind # "feed" => d.topic \in Topics)
      /\ d.add \subseteq SequenceRanges /\ a.hi <= Top(d) /\ Starts(d.add)
      /\ Members(a) \cap (Messages \cup Own(d)) = d.asked
  BY DEF Knows, Merging, Additions
<1>2. a \in SequenceRanges
  BY <1>1
<1>3. eventSeq \in Nat /\ Messages \subseteq 1 .. eventSeq
  BY DEF MessagesTyped
<1>4. Top(d) \in Nat /\ eventSeq + 1 <= Top(d)
  BY <1>3 DEF Top, NewSeq
<1>5. PICK est : est = Established
  OBVIOUS
<1>6. Sound(est, eventSeq + 1) /\ Starts(est) /\ HasPrefix(est) /\ Covered(est) \subseteq 0 .. eventSeq
  BY <1>5, EstablishedIs
<1>7. Sound(est, Top(d))
  BY <1>3, <1>4, <1>6, RangeIs DEF Sound
<1>8. PICK work : work = Merged(est, a)
  OBVIOUS
<1>9. /\ Sound(work, Top(d)) /\ Covered(work) = Covered(est) \cup Members(a)
      /\ \A s \in work : s.lo = a.lo \/ \E r \in est : s.lo = r.lo
  BY <1>1, <1>2, <1>4, <1>7, <1>8, MergedIs
<1>10. Starts(work)
  BY <1>1, <1>6, <1>9 DEF Starts
<1>11. HasPrefix(work) /\ Covered(est) \subseteq Covered(work)
  BY <1>6, <1>9 DEF HasPrefix
<1>12. Own(d) \cap Covered(est) = {}
  BY <1>3, <1>6 DEF Own, NewSeq
<1>13. (Messages \cup Own(d)) \cap Covered(work) = (Messages \cap Covered(est)) \cup d.asked
  BY <1>1, <1>9, <1>12
<1>14. NewlyCovered(est, a) = Members(a) \ Covered(est)
  BY <1>2, <1>3, <1>6, NewlyCoveredIs
<1>15. Members(a) \subseteq Nat
  BY <1>2, MembersIs
<1>16. work \subseteq SequenceRanges
  BY <1>9 DEF Sound
<1>17. /\ e.work = work /\ e.kind = d.kind /\ e.topic = d.topic /\ e.asked = d.asked
       /\ e.new = (IF d.kind = "feed" THEN NewlyCovered(est, a) ELSE {})
       /\ e.pc = (IF d.kind = "feed" THEN "probe" ELSE "commit")
  BY <1>5, <1>8 DEF Transactions, United
<1>18. e \in Transactions
  BY <1>5, <1>8, <1>14, <1>15, <1>16 DEF Transactions, United
<1>19. Top(e) = Top(d) /\ Own(e) = Own(d)
  BY <1>17 DEF Top, Own, Reader, NewSeq
<1>20. Working(e)
  BY <1>1, <1>5, <1>9, <1>10, <1>11, <1>17, <1>19 DEF Working
<1>21. Marks(e, Covered(e.work))
  BY <1>5, <1>13, <1>17, <1>19 DEF Marks
<1>22. CASE d.kind = "feed"
  <2>1. e.pc = "probe" /\ e.kind = "feed"
    BY <1>17, <1>22
  <2>2. Own(d) = {} /\ Top(d) = eventSeq + 1
    BY <1>22 DEF Own, Top, Reader
  <2>3. e.new = Members(a) \ Covered(est)
    BY <1>14, <1>17, <1>22
  <2>4. Members(a) \subseteq 0 .. eventSeq
    <3>1. SUFFICES ASSUME NEW m \in Members(a) PROVE m \in 0 .. eventSeq
      OBVIOUS
    <3>2. m \in Nat /\ m < a.hi /\ a.hi \in Nat /\ a.hi <= eventSeq + 1
      BY <1>1, <1>2, <2>2, MembersIs, RangeIs
    <3>. QED
      BY <1>3, <3>2
  <2>5. e.new \subseteq 0 .. eventSeq
    BY <2>3, <2>4
  <2>6. e.new \cap Messages = e.asked \ Covered(Established)
    BY <1>1, <1>5, <1>17, <2>2, <2>3
  <2>7. Probing(e)
    BY <1>21, <2>1, <2>5, <2>6 DEF Probing
  <2>. QED
    BY <1>17, <1>18, <1>20, <2>1, <2>7 DEF Knows, Begun, Merging, Finding, Guarding, Committing
<1>23. CASE d.kind # "feed"
  <2>1. e.pc = "commit"
    BY <1>17, <1>23
  <2>2. ~ Reader(e)
    BY <1>1, <1>17, <1>23 DEF Reader
  <2>3. Committing(e)
    BY <1>21, <2>2 DEF Committing
  <2>. QED
    BY <1>17, <1>18, <1>20, <2>1, <2>3 DEF Knows, Begun, Merging, Finding, Guarding, Probing
<1>. QED
  BY <1>22, <1>23

LEMMA ProbeTells ==
  ASSUME MessagesTyped, NEW d \in Transactions, Knows(d), d.pc = "probe",
         NEW e, e = [d EXCEPT !.changed = (d.new \cap Messages # {}), !.new = {}, !.pc = "commit"]
  PROVE  e \in Transactions /\ e.pc = "commit" /\ e.kind = d.kind /\ Knows(e)
<1>1. /\ d.kind = "feed" /\ Marks(d, Covered(d.work))
      /\ d.new \cap Messages = d.asked \ Covered(Established)
  BY DEF Knows, Probing
<1>2. Working(d)
  BY DEF Knows
<1>3. PICK c \in BOOLEAN : c = (d.new \cap Messages # {})
  OBVIOUS
<1>4. e = [d EXCEPT !.changed = c, !.new = {}, !.pc = "commit"]
  BY <1>3
<1>5. /\ e.pc = "commit" /\ e.kind = d.kind /\ e.topic = d.topic /\ e.work = d.work /\ e.floor = d.floor
      /\ e.asked = d.asked
  BY <1>4 DEF Transactions
<1>6. e.changed = c
  BY <1>4 DEF Transactions
<1>7. e \in Transactions
  BY <1>4 DEF Transactions
<1>8. Top(e) = Top(d) /\ Own(e) = Own(d)
  BY <1>5 DEF Top, Own, Reader, NewSeq
<1>9. Working(e)
  BY <1>2, <1>5, <1>8 DEF Working, Locked
<1>10. Marks(e, Covered(e.work))
  BY <1>1, <1>5, <1>8 DEF Marks
<1>11. c <=> ~ (e.asked \subseteq Covered(Established))
  BY <1>1, <1>3, <1>5
<1>12. Exact(e)
  BY <1>6, <1>11 DEF Exact
<1>. QED
  BY <1>5, <1>7, <1>9, <1>10, <1>12 DEF Knows, Begun, Merging, Finding, Guarding, Probing, Committing

(* Without a floor the prefix stands for one: below it all is read.        *)
LEMMA PrefixFloor ==
  ASSUME MessagesTyped, NEW rs, Sound(rs, eventSeq + 1), HasPrefix(rs), NEW t
  PROVE  FloorTrue(rs, t, Prefix(rs) - 1)
<1>1. eventSeq \in Nat /\ eventSeq + 1 \in Nat /\ Messages \subseteq Nat /\ Joined \in Nat
  BY ReadStateAssumption DEF MessagesTyped
<1>2. PICK x : x = Prefix(rs)
  OBVIOUS
<1>3. x \in Nat /\ Joined < x /\ x <= eventSeq + 1 /\ \A m \in Nat : m < x => m \in Covered(rs)
  BY <1>1, <1>2, PrefixIs
<1>4. x - 1 \in Nat /\ x - 1 <= eventSeq
  BY <1>1, <1>3
<1>5. ASSUME NEW m \in Messages, m \notin Covered(rs) PROVE m > x - 1
  BY <1>1, <1>3, <1>5
<1>. QED
  BY <1>2, <1>4, <1>5 DEF FloorTrue

LEMMA FloorMore ==
  ASSUME NEW rs, NEW more, Covered(rs) \subseteq Covered(more), NEW t, NEW floor, FloorTrue(rs, t, floor)
  PROVE  FloorTrue(more, t, floor)
BY DEF FloorTrue

LEMMA PrepareKnows ==
  ASSUME MessagesTyped, StoredSound, FloorsTrue, NEW d \in Transactions, Knows(d), d.pc = "begun", d.kind = "topic",
         NEW e, e = [d EXCEPT !.pc = "find", !.work = Established,
                       !.floor = IF d.topic \in DOMAIN floors THEN floors[d.topic]
                                 ELSE Prefix(Established) - 1]
  PROVE  e \in Transactions /\ e.pc = "find" /\ e.kind = "topic" /\ Knows(e)
<1>1. d.topic \in Topics /\ InPage(d)
  BY DEF Knows, Begun
<1>2. PICK est, f : est = Established
                    /\ f = IF d.topic \in DOMAIN floors THEN floors[d.topic] ELSE Prefix(Established) - 1
  OBVIOUS
<1>3. Sound(est, eventSeq + 1) /\ Starts(est) /\ HasPrefix(est) /\ Covered(est) = Covered(Stored)
  BY <1>2, EstablishedIs
<1>4. Covered(ranges) \subseteq Covered(est)
  BY <1>3, StoredIs
<1>5. FloorTrue(est, d.topic, f)
  <2>1. CASE d.topic \in DOMAIN floors
    <3>1. FloorTrue(ranges, d.topic, f)
      BY <1>2, <2>1 DEF FloorsTrue
    <3>. QED
      BY <1>4, <3>1, FloorMore
  <2>2. CASE d.topic \notin DOMAIN floors
    <3>1. f = Prefix(est) - 1
      BY <1>2, <2>2
    <3>. QED
      BY <1>3, <3>1, PrefixFloor
  <2>. QED
    BY <2>1, <2>2
<1>6. e = [d EXCEPT !.pc = "find", !.work = est, !.floor = f]
  BY <1>2
<1>7. /\ e.pc = "find" /\ e.kind = "topic" /\ e.topic = d.topic /\ e.work = est /\ e.floor = f
      /\ e.cursor = d.cursor /\ e.from = d.from /\ e.through = d.through
  BY <1>6 DEF Transactions
<1>8. e \in Transactions
  BY <1>3, <1>5, <1>6 DEF Transactions, Sound, FloorTrue
<1>9. Top(e) = eventSeq + 1
  BY <1>7 DEF Top, Reader
<1>10. Working(e)
  BY <1>1, <1>2, <1>3, <1>5, <1>7, <1>9 DEF Working
<1>11. Finding(e)
  BY <1>1, <1>2, <1>7 DEF Finding, InPage
<1>. QED
  BY <1>7, <1>8, <1>10, <1>11 DEF Knows, Begun, Merging, Committing, Guarding, Probing

(* The counting query finds exactly what the ranges leave unread.          *)
LEMMA UnreadIs ==
  ASSUME MessagesTyped, NEW rs, Sound(rs, eventSeq + 1), HasPrefix(rs),
         NEW t, NEW floor, FloorTrue(rs, t, floor)
  PROVE  Unread(t, rs, floor) = {m \in Messages : topicOf[m] = t /\ m \notin Covered(rs)}
<1>1. eventSeq \in Nat /\ eventSeq + 1 \in Nat /\ Messages \subseteq Nat
  BY DEF MessagesTyped
<1>2. PICK x : x = Prefix(rs)
  OBVIOUS
<1>3. x \in Nat /\ \A m \in Nat : m < x => m \in Covered(rs)
  BY <1>1, <1>2, PrefixIs
<1>4. ASSUME NEW m \in Messages, m \notin Covered(rs) PROVE m > x - 1
  BY <1>1, <1>3, <1>4
<1>5. ASSUME NEW m \in Messages, topicOf[m] = t, m \notin Covered(rs) PROVE m > floor \/ movedSeq[m] > floor
  BY <1>5 DEF FloorTrue
<1>. QED
  BY <1>2, <1>4, <1>5 DEF Unread

LEMMA BoundsIs ==
  ASSUME MessagesTyped, NEW m \in Messages
  PROVE  /\ Bounds(m) \in SequenceRanges /\ Bounds(m).hi <= eventSeq + 1
         /\ Members(Bounds(m)) \cap Messages = {m}
         /\ Bounds(m).lo <= 1 \/ Bounds(m).lo - 1 \in Messages
<1>1. eventSeq \in Nat /\ Messages \subseteq 1 .. eventSeq /\ m \in Nat /\ m + 1 \in Nat /\ m <= eventSeq
  BY DEF MessagesTyped
<1>2. PICK b, h : b = LastBefore(m) /\ h = FirstAfter(m, m + 1)
  OBVIOUS
<1>3. /\ b \in Nat /\ (b = 0 \/ (b \in Messages /\ b < m))
      /\ \A q \in Messages : q < m => q <= b
  BY <1>1, <1>2, LastBeforeIs
<1>4. /\ h \in Nat
      /\ \/ h = m + 1 /\ \A q \in Messages : q <= m
         \/ h \in Messages /\ m < h /\ \A q \in Messages : m < q => h <= q
  BY <1>1, <1>2, FirstAfterIs
<1>5. b + 1 \in Nat /\ b + 1 <= m /\ m < h /\ h <= eventSeq + 1
  BY <1>1, <1>3, <1>4
<1>6. PICK a : a = Span(b + 1, h)
  OBVIOUS
<1>7. a \in SequenceRanges /\ a.lo = b + 1 /\ a.hi = h
  BY <1>1, <1>4, <1>5, <1>6, SpanIs
<1>8. m \in Members(a)
  BY <1>1, <1>5, <1>7, MembersIs
<1>9. ASSUME NEW q \in Messages, q \in Members(a) PROVE q = m
  <2>1. q \in Nat /\ b + 1 <= q /\ q < h
    BY <1>7, <1>9, MembersIs
  <2>. QED
    BY <1>1, <1>3, <1>4, <2>1
<1>10. Members(a) \cap Messages = {m}
  BY <1>8, <1>9
<1>11. a = Bounds(m)
  BY <1>2, <1>6 DEF Bounds
<1>12. a.lo <= 1 \/ a.lo - 1 \in Messages
  BY <1>3, <1>7
<1>13. a.hi <= eventSeq + 1
  BY <1>5, <1>7
<1>. QED
  BY <1>7, <1>10, <1>11, <1>12, <1>13

(* The candidates' bounds mark what the candidate query was asked for.     *)
Left(asked, rs) == {m \in asked : m \notin Covered(rs)}

BoundsOf(unread) == {Bounds(m) : m \in unread}

LEMMA CandidatesMark ==
  ASSUME MessagesTyped, NEW asked, asked \subseteq Messages, NEW rs, NEW unread,
         unread = Left(asked, rs), NEW found, found = BoundsOf(unread)
  PROVE  /\ Additions(found, eventSeq + 1)
         /\ Messages \cap (Covered(rs) \cup Covered(found)) = (Messages \cap Covered(rs)) \cup asked
         /\ found # {} <=> ~ (asked \subseteq Covered(rs))
<1>0. unread \subseteq Messages
  BY DEF Left
<1>1. \A m \in unread : /\ Bounds(m) \in SequenceRanges /\ Bounds(m).hi <= eventSeq + 1
                        /\ Members(Bounds(m)) \cap Messages = {m}
                        /\ Bounds(m).lo <= 1 \/ Bounds(m).lo - 1 \in Messages
  BY <1>0, BoundsIs
<1>2. Additions(found, eventSeq + 1)
  BY <1>1 DEF Additions, Starts, BoundsOf
<1>3. ASSUME NEW m \in Messages PROVE m \in Covered(found) <=> m \in unread
  <2>1. m \in Covered(found) <=> \E q \in unread : m \in Members(Bounds(q))
    BY DEF Covered, BoundsOf
  <2>2. \A q \in unread : m \in Members(Bounds(q)) <=> m = q
    BY <1>1
  <2>. QED
    BY <2>1, <2>2
<1>4. Messages \cap (Covered(rs) \cup Covered(found)) = (Messages \cap Covered(rs)) \cup asked
  BY <1>3 DEF Left
<1>5. found # {} <=> ~ (asked \subseteq Covered(rs))
  BY DEF BoundsOf, Left
<1>. QED
  BY <1>2, <1>4, <1>5

(* What a request's additions make read, and whether it tells.             *)
Adds(d, found, asked) ==
  Messages \cap (Covered(d.work) \cup Covered(found)) = (Messages \cap Covered(Established)) \cup asked

Tells(changed, asked) == changed <=> ~ (asked \subseteq Covered(Established))

(* The transaction after a topic's additions and floor are written.        *)
Ended(d, work, floor, changed, asked) ==
  [d EXCEPT !.pc = "commit", !.work = work, !.add = {}, !.floor = floor,
            !.cursor = 0, !.from = 0, !.through = 0, !.changed = changed, !.asked = asked]

LEMMA EndedIs ==
  ASSUME NEW d \in Transactions, NEW work \in SUBSET SequenceRanges, NEW floor \in Nat,
         NEW changed \in BOOLEAN, NEW asked \in SUBSET Nat,
         NEW e, e = Ended(d, work, floor, changed, asked)
  PROVE  /\ e \in Transactions
         /\ e.pc = "commit" /\ e.kind = d.kind /\ e.topic = d.topic /\ e.work = work /\ e.floor = floor
         /\ e.asked = asked
         /\ e.changed = changed
<1>1. e = [d EXCEPT !.pc = "commit", !.work = work, !.add = {}, !.floor = floor,
            !.cursor = 0, !.from = 0, !.through = 0, !.changed = changed, !.asked = asked]
  BY DEF Ended
<1>2. e \in Transactions
  <2>1. PICK f : f = [d EXCEPT !.pc = "commit", !.work = work, !.add = {}, !.floor = floor]
    OBVIOUS
  <2>2. f \in Transactions
    BY <2>1 DEF Transactions
  <2>3. PICK g : g = [f EXCEPT !.cursor = 0, !.from = 0, !.through = 0]
    OBVIOUS
  <2>4. g \in Transactions
    BY <2>2, <2>3 DEF Transactions
  <2>5. PICK h : h = [g EXCEPT !.changed = changed]
    OBVIOUS
  <2>6. h \in Transactions
    BY <2>4, <2>5 DEF Transactions
  <2>7. [h EXCEPT !.asked = asked] \in Transactions
    BY <2>6 DEF Transactions
  <2>8. e = [h EXCEPT !.asked = asked]
    BY <1>1, <2>1, <2>3, <2>5 DEF Transactions
  <2>. QED
    BY <2>7, <2>8
<1>3. /\ e.pc = "commit" /\ e.kind = d.kind /\ e.topic = d.topic /\ e.work = work /\ e.floor = floor
      /\ e.asked = asked
  BY <1>1 DEF Transactions
<1>4. e.changed = changed
  BY <1>1 DEF Transactions
<1>. QED
  BY <1>2, <1>3, <1>4

Extended(d, work, floor) ==
  [d EXCEPT !.pc = "commit", !.work = work, !.add = {}, !.floor = floor,
            !.cursor = 0, !.from = 0, !.through = 0]

LEMMA EndedSame ==
  ASSUME NEW d \in Transactions, NEW work, NEW floor
  PROVE  Ended(d, work, floor, d.changed, d.asked) = Extended(d, work, floor)
BY Zenon DEF Ended, Extended, Transactions

(* A transaction that has read its candidates: what they mark, and what a  *)
(* union with them and a raised floor leaves.                              *)
LEMMA AddKnows ==
  ASSUME MessagesTyped, StoredSound, NEW d \in Transactions, d.kind = "topic", d.topic \in Topics,
         Sound(d.work, eventSeq + 1), Starts(d.work), HasPrefix(d.work),
         Covered(Established) \subseteq Covered(d.work),
         NEW found, Additions(found, eventSeq + 1),
         NEW floor, FloorTrue(Added(d.work, found), d.topic, floor),
         NEW changed \in BOOLEAN, NEW asked \in SUBSET Nat,
         Adds(d, found, asked), Tells(changed, asked),
         NEW e, e = Ended(d, Added(d.work, found), floor, changed, asked)
  PROVE  e \in Transactions /\ e.pc = "commit" /\ e.kind = "topic" /\ Knows(e)
<1>1. eventSeq \in Nat /\ eventSeq + 1 \in Nat
  BY DEF MessagesTyped
<1>2. PICK work : work = Added(d.work, found)
  OBVIOUS
<1>3. found \subseteq SequenceRanges /\ (\A a \in found : a.hi <= eventSeq + 1) /\ Starts(found)
  BY DEF Additions
<1>4. /\ Sound(work, eventSeq + 1) /\ Covered(work) = Covered(d.work) \cup Covered(found)
      /\ \A s \in work : \E r \in d.work \cup found : s.lo = r.lo
  BY <1>1, <1>2, <1>3, AddedIs
<1>5. Starts(work)
  BY <1>3, <1>4 DEF Starts
<1>6. HasPrefix(work) /\ Covered(Established) \subseteq Covered(work)
  BY <1>4 DEF HasPrefix
<1>7. work \in SUBSET SequenceRanges /\ floor \in Nat
  BY <1>4 DEF Sound, FloorTrue
<1>8. /\ e.pc = "commit" /\ e.kind = "topic" /\ e.topic = d.topic /\ e.work = work /\ e.floor = floor
      /\ e.asked = asked
  BY <1>2, <1>7, EndedIs
<1>9. e.changed = changed
  BY <1>2, <1>7, EndedIs
<1>10. e \in Transactions
  BY <1>2, <1>7, EndedIs
<1>11. Top(e) = eventSeq + 1 /\ Own(e) = {}
  BY <1>8 DEF Top, Own, Reader
<1>12. FloorTrue(work, d.topic, floor)
  BY <1>2
<1>13. Working(e)
  BY <1>4, <1>5, <1>6, <1>8, <1>11, <1>12 DEF Working
<1>14. Marks(e, Covered(e.work))
  BY <1>4, <1>8, <1>11 DEF Marks, Adds
<1>15. Exact(e)
  BY <1>8, <1>9 DEF Exact, Tells
<1>. QED
  BY <1>8, <1>10, <1>13, <1>14, <1>15 DEF Knows, Begun, Merging, Finding, Guarding, Probing, Committing

(* The whole topic up to the cursor: no message at or below it is left     *)
(* unread but one moved since.                                             *)
LEMMA WholeFloor ==
  ASSUME MessagesTyped, NEW rs, NEW more, Covered(rs) \subseteq Covered(more), NEW t,
         NEW floor, FloorTrue(rs, t, floor), NEW cursor \in Nat, cursor <= eventSeq,
         \A m \in Messages : topicOf[m] = t /\ m <= cursor /\ movedSeq[m] <= cursor => m \in Covered(more)
  PROVE  FloorTrue(more, t, IF cursor > floor THEN cursor ELSE floor)
<1>1. CASE cursor > floor
  <2>1. ASSUME NEW m \in Messages, topicOf[m] = t, m \notin Covered(more) PROVE m > cursor \/ movedSeq[m] > cursor
    <3>1. m \in Nat /\ movedSeq[m] \in Nat
      BY DEF MessagesTyped
    <3>. QED
      BY <2>1, <3>1
  <2>. QED
    BY <1>1, <2>1 DEF FloorTrue
<1>2. CASE ~ (cursor > floor)
  BY <1>2, FloorMore
<1>. QED
  BY <1>1, <1>2

(* What the candidate query of a run is to find, and what it finds.        *)
ToMark(d) ==
  {m \in Messages : d.from <= m /\ m <= d.through /\ topicOf[m] = d.topic /\ movedSeq[m] <= d.cursor}

ToAdd(d) == Left(ToMark(d), d.work)

LEMMA FindingIs ==
  ASSUME NEW d, Knows(d), d.pc = "find"
  PROVE  /\ d.kind = "topic" /\ d.topic \in Topics /\ InPage(d)
         /\ Sound(d.work, eventSeq + 1) /\ Starts(d.work) /\ HasPrefix(d.work)
         /\ Covered(d.work) = Covered(Established) /\ FloorTrue(d.work, d.topic, d.floor)
<1>1. d.kind = "topic" /\ InPage(d) /\ Covered(d.work) = Covered(Established)
  BY DEF Knows, Finding
<1>2. Top(d) = eventSeq + 1
  BY <1>1 DEF Top, Reader
<1>. QED
  BY <1>1, <1>2 DEF Knows, Working, Locked

LEMMA FindWhole ==
  ASSUME MessagesTyped, StoredSound, NEW d \in Transactions, Knows(d), d.pc = "find", d.from = 0,
         NEW found, found = BoundsOf(ToAdd(d)), NEW changed \in BOOLEAN, changed <=> found # {},
         NEW e, e = Ended(d, Added(d.work, found), IF d.cursor > d.floor THEN d.cursor ELSE d.floor,
                          changed, ToMark(d))
  PROVE  e \in Transactions /\ e.pc = "commit" /\ e.kind = "topic" /\ Knows(e)
<1>1. /\ d.kind = "topic" /\ d.topic \in Topics /\ InPage(d)
      /\ Sound(d.work, eventSeq + 1) /\ Starts(d.work) /\ HasPrefix(d.work)
      /\ Covered(d.work) = Covered(Established) /\ FloorTrue(d.work, d.topic, d.floor)
  BY FindingIs
<1>2. d.cursor \in Nat /\ d.cursor <= eventSeq /\ d.through = d.cursor
  BY <1>1 DEF InPage, Transactions
<1>3. eventSeq \in Nat /\ eventSeq + 1 \in Nat /\ Messages \subseteq Nat
  BY DEF MessagesTyped
<1>4. PICK asked, unread : asked = ToMark(d) /\ unread = ToAdd(d)
  OBVIOUS
<1>5. asked \subseteq Messages /\ asked \in SUBSET Nat /\ unread = Left(asked, d.work)
  BY <1>3, <1>4 DEF ToMark, ToAdd
<1>6. found = BoundsOf(unread)
  BY <1>4
<1>7. /\ Additions(found, eventSeq + 1)
      /\ Messages \cap (Covered(d.work) \cup Covered(found)) = (Messages \cap Covered(d.work)) \cup asked
      /\ found # {} <=> ~ (asked \subseteq Covered(d.work))
  <2>1. asked \subseteq Messages
    BY <1>5
  <2>2. unread = Left(asked, d.work)
    BY <1>5
  <2>. QED
    BY <1>6, <2>1, <2>2, CandidatesMark
<1>8. PICK more : more = Added(d.work, found)
  OBVIOUS
<1>9. Covered(more) = Covered(d.work) \cup Covered(found)
  BY <1>1, <1>3, <1>7, <1>8, AddedIs DEF Additions
<1>10. ASSUME NEW m \in Messages, topicOf[m] = d.topic, m <= d.cursor, movedSeq[m] <= d.cursor
       PROVE  m \in Covered(more)
  <2>1. m \in asked
    BY <1>2, <1>3, <1>4, <1>10 DEF ToMark
  <2>. QED
    BY <1>7, <1>9, <2>1
<1>11. PICK top : top = IF d.cursor > d.floor THEN d.cursor ELSE d.floor
  OBVIOUS
<1>12. FloorTrue(more, d.topic, top)
  <2>1. Covered(d.work) \subseteq Covered(more)
    BY <1>9
  <2>. QED
    BY <1>1, <1>2, <1>10, <1>11, <2>1, WholeFloor
<1>13. FloorTrue(Added(d.work, found), d.topic, top)
  BY <1>8, <1>12
<1>14. e = Ended(d, Added(d.work, found), top, changed, asked)
  BY <1>4, <1>11
<1>15. Tells(changed, asked)
  BY <1>1, <1>7 DEF Tells
<1>16. Adds(d, found, asked)
  BY <1>1, <1>7 DEF Adds
<1>17. Covered(Established) \subseteq Covered(d.work)
  BY <1>1
<1>18. Additions(found, eventSeq + 1) /\ asked \in SUBSET Nat
  BY <1>5, <1>7
<1>. QED
  BY <1>1, <1>13, <1>14, <1>15, <1>16, <1>17, <1>18, AddKnows

Guarded(d, found, changed, asked) ==
  [d EXCEPT !.pc = "guard", !.add = found, !.changed = changed, !.asked = asked]

LEMMA FindRun ==
  ASSUME MessagesTyped, StoredSound, NEW d \in Transactions, Knows(d), d.pc = "find",
         NEW found, found = BoundsOf(ToAdd(d)), NEW changed \in BOOLEAN, changed <=> found # {},
         NEW asked, asked = ToMark(d),
         NEW e, e = Guarded(d, found, changed, asked)
  PROVE  e \in Transactions /\ e.pc = "guard" /\ e.kind = "topic" /\ Knows(e)
<1>1. /\ d.kind = "topic" /\ d.topic \in Topics /\ InPage(d)
      /\ Sound(d.work, eventSeq + 1) /\ Starts(d.work) /\ HasPrefix(d.work)
      /\ Covered(d.work) = Covered(Established) /\ FloorTrue(d.work, d.topic, d.floor)
  BY FindingIs
<1>3. eventSeq \in Nat /\ eventSeq + 1 \in Nat /\ Messages \subseteq Nat
  BY DEF MessagesTyped
<1>4. PICK unread : unread = ToAdd(d)
  OBVIOUS
<1>5. asked \subseteq Messages /\ asked \in SUBSET Nat /\ unread = Left(asked, d.work)
  BY <1>3, <1>4 DEF ToMark, ToAdd
<1>6. found = BoundsOf(unread)
  BY <1>4
<1>7. /\ Additions(found, eventSeq + 1)
      /\ Messages \cap (Covered(d.work) \cup Covered(found)) = (Messages \cap Covered(d.work)) \cup asked
      /\ found # {} <=> ~ (asked \subseteq Covered(d.work))
  <2>1. asked \subseteq Messages
    BY <1>5
  <2>2. unread = Left(asked, d.work)
    BY <1>5
  <2>. QED
    BY <1>6, <2>1, <2>2, CandidatesMark
<1>8. found \in SUBSET SequenceRanges
  BY <1>7 DEF Additions
<1>9. /\ e.pc = "guard" /\ e.kind = d.kind /\ e.topic = d.topic /\ e.work = d.work /\ e.floor = d.floor
      /\ e.from = d.from /\ e.through = d.through /\ e.cursor = d.cursor
      /\ e.add = found /\ e.asked = asked
  BY DEF Transactions, Guarded
<1>10. e.changed = changed
  BY DEF Transactions, Guarded
<1>11. e \in Transactions
  <2>1. PICK f : f = [d EXCEPT !.pc = "guard", !.add = found]
    OBVIOUS
  <2>2. f \in Transactions
    BY <1>8, <2>1 DEF Transactions
  <2>3. PICK g : g = [f EXCEPT !.changed = changed]
    OBVIOUS
  <2>4. g \in Transactions
    BY <2>2, <2>3 DEF Transactions
  <2>5. [g EXCEPT !.asked = asked] \in Transactions
    BY <1>5, <2>4 DEF Transactions
  <2>6. e = [g EXCEPT !.asked = asked]
    BY <2>1, <2>3 DEF Transactions, Guarded
  <2>. QED
    BY <2>5, <2>6
<1>12. Top(e) = eventSeq + 1 /\ Own(e) = {}
  BY <1>1, <1>9 DEF Top, Own, Reader
<1>13. Working(e)
  BY <1>1, <1>9, <1>12 DEF Working
<1>14. Marks(e, Covered(e.work) \cup Covered(e.add))
  BY <1>1, <1>7, <1>9, <1>12 DEF Marks
<1>15. Exact(e)
  BY <1>1, <1>7, <1>9, <1>10 DEF Exact
<1>16. Found(e)
  <2>1. SUFFICES ASSUME NEW m \in Messages, topicOf[m] = d.topic, d.from <= m, m <= d.through, movedSeq[m] <= d.cursor
                 PROVE  m \in Covered(d.work) \cup Covered(found)
    BY <1>9 DEF Found
  <2>2. m \in asked
    BY <2>1 DEF ToMark
  <2>. QED
    BY <1>7, <2>2
<1>17. InPage(e)
  BY <1>1, <1>9 DEF InPage
<1>18. Guarding(e)
  BY <1>1, <1>7, <1>9, <1>14, <1>15, <1>16, <1>17 DEF Guarding
<1>. QED
  BY <1>1, <1>9, <1>11, <1>13, <1>18 DEF Knows, Begun, Merging, Finding, Probing, Committing

(* A run's floor stops below every unread message and every move that the  *)
(* run does not mark.                                                      *)
LEMMA RunFloorIs ==
  ASSUME MessagesTyped, NEW p \in Requests, NEW d \in Transactions, d = tx[p], Knows(d), d.pc = "guard",
         NEW more, Covered(more) = Covered(d.work) \cup Covered(d.add)
  PROVE  FloorTrue(more, d.topic, IF RunFloor(p) > d.floor THEN RunFloor(p) ELSE d.floor)
<1>1. /\ d.kind = "topic" /\ InPage(d) /\ Found(d)
  BY DEF Knows, Guarding
<1>2. Top(d) = eventSeq + 1
  BY <1>1 DEF Top, Reader
<1>3. Sound(d.work, eventSeq + 1) /\ HasPrefix(d.work) /\ FloorTrue(d.work, d.topic, d.floor)
  BY <1>1, <1>2 DEF Knows, Working, Locked
<1>4. /\ eventSeq \in Nat /\ Messages \subseteq Nat /\ (\A m \in Messages : movedSeq[m] \in Nat)
      /\ d.from \in Nat /\ d.through \in Nat /\ d.cursor \in Nat /\ d.floor \in Nat
      /\ d.through <= d.cursor /\ d.cursor <= eventSeq /\ d.floor <= eventSeq
  BY <1>1, <1>3 DEF MessagesTyped, InPage, Transactions, FloorTrue
<1>. DEFINE unread == {m \in Messages : topicOf[m] = d.topic /\ m \notin Covered(d.work)}
            below == {m \in unread : m < d.from}
            blocking == {m \in below : m > d.floor} \cup {movedSeq[m] : m \in {n \in below : n <= d.floor}}
            bound == blocking \cup {d.through + 1}
<1>5. Unread(d.topic, d.work, d.floor) = unread
  BY <1>3, UnreadIs
<1>6. RunFloor(p) = Min(bound) - 1
  BY <1>5 DEF RunFloor
<1>7. ASSUME NEW m \in below, m <= d.floor PROVE movedSeq[m] > d.floor /\ movedSeq[m] \in Nat
  <2>1. m \in Messages /\ topicOf[m] = d.topic /\ m \notin Covered(d.work)
    OBVIOUS
  <2>2. m > d.floor \/ movedSeq[m] > d.floor
    BY <1>3, <2>1 DEF FloorTrue
  <2>3. m \in Nat /\ movedSeq[m] \in Nat
    BY <1>4, <2>1
  <2>. QED
    BY <1>4, <1>7, <2>2, <2>3
<1>8. bound \subseteq Nat /\ bound # {} /\ \A x \in bound : 1 <= x
  <2>1. \A x \in below : x \in Nat
    BY <1>4
  <2>2. \A x \in {m \in below : m > d.floor} : x \in Nat /\ 1 <= x
    BY <1>4, <2>1
  <2>3. \A x \in {movedSeq[m] : m \in {n \in below : n <= d.floor}} : x \in Nat /\ 1 <= x
    BY <1>4, <1>7
  <2>4. d.through + 1 \in Nat /\ 1 <= d.through + 1
    BY <1>4
  <2>. QED
    BY <2>2, <2>3, <2>4
<1>9. PICK x : x = Min(bound)
  OBVIOUS
<1>10. x \in bound /\ \A y \in bound : x <= y
  BY <1>8, <1>9, MinIs
<1>11. x \in Nat /\ 1 <= x /\ x <= d.through + 1
  BY <1>8, <1>10
<1>12. PICK f : f = x - 1
  OBVIOUS
<1>13. f \in Nat /\ f < x /\ f <= d.through
  BY <1>4, <1>11, <1>12
<1>14. ASSUME NEW m \in Messages, topicOf[m] = d.topic, m \notin Covered(more)
       PROVE  m > f \/ movedSeq[m] > f
  <2>1. m \in Nat /\ movedSeq[m] \in Nat /\ m \in unread /\ m \notin Covered(d.work) \cup Covered(d.add)
    BY <1>4, <1>14
  <2>2. CASE m < d.from
    <3>1. m \in below
      BY <2>1, <2>2
    <3>2. CASE m > d.floor
      <4>1. m \in bound
        BY <3>1, <3>2
      <4>. QED
        BY <1>10, <1>11, <1>13, <2>1, <4>1
    <3>3. CASE ~ (m > d.floor)
      <4>1. m <= d.floor
        BY <1>4, <2>1, <3>3
      <4>2. movedSeq[m] \in bound
        BY <3>1, <4>1
      <4>. QED
        BY <1>10, <1>11, <1>13, <2>1, <4>2
    <3>. QED
      BY <3>2, <3>3
  <2>3. CASE d.from <= m /\ m <= d.through
    <3>1. ~ (movedSeq[m] <= d.cursor)
      BY <1>1, <1>14, <2>1, <2>3 DEF Found
    <3>. QED
      BY <1>4, <1>13, <2>1, <3>1
  <2>4. CASE d.through < m
    BY <1>4, <1>13, <2>1, <2>4
  <2>. QED
    BY <1>4, <2>1, <2>2, <2>3, <2>4
<1>15. RunFloor(p) = f
  BY <1>6, <1>9, <1>12
<1>16. FloorTrue(more, d.topic, f)
  BY <1>4, <1>13, <1>14 DEF FloorTrue
<1>17. FloorTrue(more, d.topic, d.floor)
  <2>1. Covered(d.work) \subseteq Covered(more)
    OBVIOUS
  <2>. QED
    BY <1>3, <2>1, FloorMore
<1>. QED
  BY <1>15, <1>16, <1>17

-----------------------------------------------------------------------------
(* The steps before a commit.                                              *)

LEMMA RInvParts ==
  ASSUME RInv, NEW p \in Requests
  PROVE  /\ MessagesTyped /\ StoredSound /\ FloorsTrue /\ LocksHeld
         /\ tx \in [Requests -> Transactions] /\ tx[p] \in Transactions /\ Knows(tx[p])
BY DEF RInv

LEMMA ReadFeedKeeps ==
  ASSUME RInv, NEW p \in Requests, ReadFeed(p)
  PROVE  RInv'
<1>1. PICK from, through \in 0 .. eventSeq :
         /\ IsRun(through, from, through)
         /\ tx' = [tx EXCEPT ![p] = [Idle EXCEPT !.pc = "begun", !.from = from, !.through = through,
                                       !.asked = {m \in Messages : from <= m /\ m <= through}]]
  BY DEF ReadFeed
<1>2. PICK e : e = [Idle EXCEPT !.pc = "begun", !.from = from, !.through = through,
                      !.asked = {m \in Messages : from <= m /\ m <= through}]
  OBVIOUS
<1>3. e \in Transactions /\ e.pc = "begun" /\ e.kind = "feed" /\ Knows(e)
  BY <1>1, <1>2, RInvParts, FeedBegins
<1>4. tx' = [tx EXCEPT ![p] = e]
  BY <1>1, <1>2
<1>5. UNCHANGED messages /\ UNCHANGED readState /\ orgRow' = orgRow /\ channelRead' = channelRead
  BY DEF ReadFeed
<1>6. LocksHeld'
  <2>1. e.pc \notin Locked /\ Reader(e)
    BY <1>3 DEF Locked, Reader
  <2>. QED
    BY <1>4, <1>5, <2>1, RInvParts, LocksFollow
<1>. QED
  BY <1>3, <1>4, <1>5, <1>6, OneMoves

LEMMA ReadTopicKeeps ==
  ASSUME RInv, NEW p \in Requests, ReadTopic(p)
  PROVE  RInv'
<1>1. PICK t \in Topics, cursor, from, through \in 0 .. eventSeq :
         /\ IsRun(cursor, from, through)
         /\ tx' = [tx EXCEPT ![p] = [Idle EXCEPT !.pc = "begun", !.kind = "topic", !.topic = t,
                                       !.cursor = cursor, !.from = from, !.through = through]]
  BY DEF ReadTopic
<1>2. PICK e : e = TopicBegun(t, cursor, from, through)
  OBVIOUS
<1>3. e \in Transactions /\ e.pc = "begun" /\ e.kind = "topic" /\ Knows(e)
  <2>1. t \in Topics /\ cursor \in 0 .. eventSeq /\ from \in 0 .. eventSeq /\ through \in 0 .. eventSeq
        /\ IsRun(cursor, from, through)
    BY <1>1
  <2>. QED
    BY <1>2, <2>1, RInvParts, TopicBegins
<1>4. tx' = [tx EXCEPT ![p] = e]
  BY <1>1, <1>2 DEF TopicBegun
<1>5. UNCHANGED messages /\ UNCHANGED readState /\ orgRow' = orgRow /\ channelRead' = channelRead
  BY DEF ReadTopic
<1>6. LocksHeld'
  <2>1. e.pc \notin Locked /\ Reader(e)
    BY <1>3 DEF Locked, Reader
  <2>. QED
    BY <1>4, <1>5, <2>1, RInvParts, LocksFollow
<1>. QED
  BY <1>3, <1>4, <1>5, <1>6, OneMoves

LEMMA FeedNeighboursKeeps ==
  ASSUME RInv, NEW p \in Requests, FeedNeighbours(p)
  PROVE  RInv'
<1>1. PICK d : d = tx[p]
  OBVIOUS
<1>2. d \in Transactions /\ Knows(d) /\ d.pc = "begun" /\ d.kind = "feed"
  BY <1>1, RInvParts DEF FeedNeighbours
<1>3. PICK lo, hi : lo = LowEnd(d) /\ hi = FirstAfter(d.through, d.through + 1)
  OBVIOUS
<1>4. PICK e : e = Bounded(d, lo, hi)
  OBVIOUS
<1>5. e \in Transactions /\ e.pc = "merge" /\ e.kind = "feed" /\ Knows(e)
  BY <1>2, <1>3, <1>4, RInvParts, NeighboursAdd
<1>6. tx' = [tx EXCEPT ![p] = e]
  BY <1>1, <1>3, <1>4 DEF FeedNeighbours, LowEnd, Bounded
<1>7. UNCHANGED messages /\ UNCHANGED readState /\ orgRow' = orgRow /\ channelRead' = channelRead
  BY DEF FeedNeighbours
<1>8. LocksHeld'
  <2>1. e.pc \notin Locked /\ Reader(e)
    BY <1>5 DEF Locked, Reader
  <2>. QED
    BY <1>6, <1>7, <2>1, RInvParts, LocksFollow
<1>. QED
  BY <1>5, <1>6, <1>7, <1>8, OneMoves

LEMMA MergeKeeps ==
  ASSUME RInv, NEW p \in Requests, Merge(p)
  PROVE  RInv'
<1>1. PICK d : d = tx[p]
  OBVIOUS
<1>2. d \in Transactions /\ Knows(d) /\ d.pc = "merge" /\ Free(channelRead, p) /\ channelRead' = p
  BY <1>1, RInvParts DEF Merge
<1>3. PICK a \in d.add :
       tx' = [tx EXCEPT ![p].work = Merged(Established, a),
                        ![p].new = IF tx[p].kind = "feed" THEN NewlyCovered(Established, a) ELSE {},
                        ![p].add = {},
                        ![p].pc = IF tx[p].kind = "feed" THEN "probe" ELSE "commit"]
  BY <1>1 DEF Merge
<1>4. PICK e : e = United(d, a)
  OBVIOUS
<1>5. e \in Transactions /\ e.pc \in {"probe", "commit"} /\ e.kind = d.kind /\ Knows(e)
  <2>1. a \in d.add
    BY <1>3
  <2>. QED
    BY <1>2, <1>4, <2>1, RInvParts, MergeMarks
<1>6. tx' = [tx EXCEPT ![p] = e]
  BY <1>1, <1>3, <1>4 DEF United
<1>7. UNCHANGED messages /\ UNCHANGED readState /\ orgRow' = orgRow
  BY DEF Merge
<1>8. LocksHeld'
  <2>1. \A q \in Requests : q # p => channelRead # q
    BY <1>2, ReadStateAssumption DEF Free, Requests
  <2>2. ~ Reader(e) => orgRow' = p
    BY <1>1, <1>2, <1>5, <1>7, RInvParts DEF LocksHeld, Reader
  <2>. QED
    BY <1>2, <1>6, <1>7, <2>1, <2>2, RInvParts, LocksFollow
<1>. QED
  BY <1>5, <1>6, <1>7, <1>8, OneMoves

LEMMA FeedProbeKeeps ==
  ASSUME RInv, NEW p \in Requests, FeedProbe(p)
  PROVE  RInv'
<1>1. PICK d : d = tx[p]
  OBVIOUS
<1>2. d \in Transactions /\ Knows(d) /\ d.pc = "probe"
  BY <1>1, RInvParts DEF FeedProbe
<1>3. PICK e : e = [d EXCEPT !.changed = (d.new \cap Messages # {}), !.new = {}, !.pc = "commit"]
  OBVIOUS
<1>4. e \in Transactions /\ e.pc = "commit" /\ e.kind = d.kind /\ Knows(e)
  BY <1>2, <1>3, RInvParts, ProbeTells
<1>5. tx' = [tx EXCEPT ![p] = e]
  BY <1>1, <1>3 DEF FeedProbe
<1>6. UNCHANGED messages /\ UNCHANGED readState /\ orgRow' = orgRow /\ channelRead' = channelRead
  BY DEF FeedProbe
<1>7. LocksHeld'
  <2>1. channelRead = p
    BY <1>1, <1>2, RInvParts DEF LocksHeld, Locked
  <2>2. Reader(e)
    BY <1>2, <1>4 DEF Knows, Probing, Reader
  <2>. QED
    BY <1>5, <1>6, <2>1, <2>2, RInvParts, LocksFollow
<1>. QED
  BY <1>4, <1>5, <1>6, <1>7, OneMoves

LEMMA PrepareKeeps ==
  ASSUME RInv, NEW p \in Requests, Prepare(p)
  PROVE  RInv'
<1>1. PICK d : d = tx[p]
  OBVIOUS
<1>2. d \in Transactions /\ Knows(d) /\ d.pc = "begun" /\ d.kind = "topic"
      /\ Free(channelRead, p) /\ channelRead' = p
  BY <1>1, RInvParts DEF Prepare
<1>3. PICK e : e = [d EXCEPT !.pc = "find", !.work = Established,
                       !.floor = IF d.topic \in DOMAIN floors THEN floors[d.topic]
                                 ELSE Prefix(Established) - 1]
  OBVIOUS
<1>4. e \in Transactions /\ e.pc = "find" /\ e.kind = "topic" /\ Knows(e)
  BY <1>2, <1>3, RInvParts, PrepareKnows
<1>5. tx' = [tx EXCEPT ![p] = e]
  BY <1>1, <1>3 DEF Prepare
<1>6. UNCHANGED messages /\ UNCHANGED readState /\ orgRow' = orgRow
  BY DEF Prepare
<1>7. LocksHeld'
  <2>1. \A q \in Requests : q # p => channelRead # q
    BY <1>2, ReadStateAssumption DEF Free, Requests
  <2>2. Reader(e)
    BY <1>4 DEF Reader
  <2>. QED
    BY <1>2, <1>5, <1>6, <2>1, <2>2, RInvParts, LocksFollow
<1>. QED
  BY <1>4, <1>5, <1>6, <1>7, OneMoves

LEMMA FindCandidatesKeeps ==
  ASSUME RInv, NEW p \in Requests, FindCandidates(p)
  PROVE  RInv'
<1>1. PICK d : d = tx[p]
  OBVIOUS
<1>2. d \in Transactions /\ Knows(d) /\ d.pc = "find"
  BY <1>1, RInvParts DEF FindCandidates
<1>3. /\ d.kind = "topic" /\ Sound(d.work, eventSeq + 1) /\ HasPrefix(d.work)
      /\ FloorTrue(d.work, d.topic, d.floor)
  BY <1>2, FindingIs
<1>4. Unread(d.topic, d.work, d.floor) = {m \in Messages : topicOf[m] = d.topic /\ m \notin Covered(d.work)}
  BY <1>3, RInvParts, UnreadIs
<1>5. Candidates(p) = ToAdd(d)
  BY <1>1, <1>4 DEF Candidates, ToAdd, Left, ToMark, InRun, MoveSeen
<1>6. PICK found, asked, c : found = BoundsOf(ToAdd(d)) /\ asked = ToMark(d)
  OBVIOUS
<1>7. PICK changed \in BOOLEAN : changed = (found # {})
  OBVIOUS
<1>8. {Bounds(m) : m \in Candidates(p)} = found
  BY <1>5, <1>6 DEF BoundsOf
<1>9. {m \in InRun(p) : topicOf[m] = tx[p].topic /\ movedSeq[m] <= tx[p].cursor} = asked
  BY <1>1, <1>6 DEF ToMark, InRun
<1>10. UNCHANGED messages /\ UNCHANGED readState /\ orgRow' = orgRow /\ channelRead' = channelRead
  BY DEF FindCandidates
<1>11. PICK next : next = IF tx[p].from = 0 THEN Add(p, found, tx[p].cursor)
                                           ELSE [tx[p] EXCEPT !.pc = "guard", !.add = found]
  OBVIOUS
<1>12. tx' = [tx EXCEPT ![p] = [next EXCEPT !.changed = (found # {}), !.asked = asked]]
  BY <1>8, <1>9, <1>11 DEF FindCandidates
<1>13. PICK e : e = [next EXCEPT !.changed = changed, !.asked = asked]
  OBVIOUS
<1>14. tx' = [tx EXCEPT ![p] = e]
  BY <1>7, <1>12, <1>13
<1>15. e \in Transactions /\ e.pc \in {"commit", "guard"} /\ e.kind = "topic" /\ Knows(e)
  <2>0. changed <=> found # {}
    BY <1>7
  <2>1. CASE d.from = 0
    <3>1. PICK top, work : top = (IF d.cursor > d.floor THEN d.cursor ELSE d.floor) /\ work = Added(d.work, found)
      OBVIOUS
    <3>2. next = [d EXCEPT !.pc = "commit", !.work = work, !.add = {}, !.floor = top,
                           !.cursor = 0, !.from = 0, !.through = 0]
      BY <1>1, <1>11, <2>1, <3>1 DEF Add
    <3>3. e = Ended(d, work, top, changed, asked)
      BY <1>2, <1>13, <3>2 DEF Ended, Transactions
    <3>4. e = Ended(d, Added(d.work, found), IF d.cursor > d.floor THEN d.cursor ELSE d.floor, changed, ToMark(d))
      BY <1>6, <3>1, <3>3
    <3>. QED
      BY <1>2, <1>6, <2>0, <2>1, <3>4, RInvParts, FindWhole
  <2>2. CASE d.from # 0
    <3>1. next = [d EXCEPT !.pc = "guard", !.add = found]
      BY <1>1, <1>11, <2>2
    <3>2. e = Guarded(d, found, changed, asked)
      BY <1>2, <1>13, <3>1 DEF Transactions, Guarded
    <3>. QED
      BY <1>2, <1>6, <2>0, <3>2, RInvParts, FindRun
  <2>. QED
    BY <2>1, <2>2
<1>16. LocksHeld'
  <2>1. channelRead = p
    BY <1>1, <1>2, RInvParts DEF LocksHeld, Locked
  <2>2. Reader(e)
    BY <1>15 DEF Reader
  <2>. QED
    BY <1>14, <1>10, <2>1, <2>2, RInvParts, LocksFollow
<1>. QED
  BY <1>14, <1>15, <1>10, <1>16, OneMoves

LEMMA GuardFloorKeeps ==
  ASSUME RInv, NEW p \in Requests, GuardFloor(p)
  PROVE  RInv'
<1>1. PICK d : d = tx[p]
  OBVIOUS
<1>2. d \in Transactions /\ Knows(d) /\ d.pc = "guard"
  BY <1>1, RInvParts DEF GuardFloor
<1>3. /\ d.kind = "topic" /\ Additions(d.add, eventSeq + 1)
      /\ Marks(d, Covered(d.work) \cup Covered(d.add)) /\ Exact(d)
  BY <1>2 DEF Knows, Guarding
<1>4. Top(d) = eventSeq + 1 /\ Own(d) = {}
  BY <1>3 DEF Top, Own, Reader
<1>0. d.changed \in BOOLEAN
  BY <1>2, Zenon DEF Transactions
<1>. PICK changed \in BOOLEAN : changed = d.changed
  BY <1>0
<1>5. PICK found, top, asked :
        /\ found = d.add /\ changed = d.changed /\ asked = d.asked
        /\ top = IF RunFloor(p) > d.floor THEN RunFloor(p) ELSE d.floor
  OBVIOUS
<1>6. /\ d.topic \in Topics /\ Sound(d.work, eventSeq + 1) /\ Starts(d.work) /\ HasPrefix(d.work)
      /\ Covered(Established) \subseteq Covered(d.work)
  BY <1>2, <1>3, <1>4 DEF Knows, Working, Locked
<1>7. Covered(Added(d.work, found)) = Covered(d.work) \cup Covered(d.add)
  <2>1. found \subseteq SequenceRanges /\ \A a \in found : a.hi <= eventSeq + 1
    BY <1>3, <1>5 DEF Additions
  <2>2. eventSeq + 1 \in Nat
    BY RInvParts DEF MessagesTyped
  <2>. QED
    BY <1>5, <1>6, <2>1, <2>2, AddedIs
<1>8. FloorTrue(Added(d.work, found), d.topic, top)
  BY <1>1, <1>2, <1>5, <1>7, RInvParts, RunFloorIs
<1>9. Adds(d, found, asked)
  BY <1>3, <1>4, <1>5 DEF Adds, Marks
<1>10. Tells(changed, asked)
  BY <1>3, <1>5 DEF Tells, Exact
<1>11. changed \in BOOLEAN
  OBVIOUS
<1>12. asked \in SUBSET Nat
  BY <1>2, <1>5 DEF Transactions
<1>13. PICK e : e = Ended(d, Added(d.work, found), top, changed, asked)
  OBVIOUS
<1>14. e \in Transactions /\ e.pc = "commit" /\ e.kind = "topic" /\ Knows(e)
  BY <1>2, <1>3, <1>5, <1>6, <1>8, <1>9, <1>10, <1>11, <1>12, <1>13, RInvParts, AddKnows
<1>15. Add(p, tx[p].add, RunFloor(p)) = e
  <2>1. PICK work : work = Added(d.work, found)
    OBVIOUS
  <2>2. Add(p, tx[p].add, RunFloor(p)) = Extended(d, work, top)
    BY <1>1, <1>5, <2>1 DEF Add, Extended
  <2>3. e = Ended(d, work, top, d.changed, d.asked)
    BY <1>5, <1>13, <2>1
  <2>4. d \in Transactions
    BY <1>2
  <2>5. Ended(d, work, top, d.changed, d.asked) = Extended(d, work, top)
    BY <2>4, EndedSame, Zenon
  <2>. QED
    BY <2>2, <2>3, <2>5, Zenon
<1>16. tx' = [tx EXCEPT ![p] = e]
  BY <1>15 DEF GuardFloor
<1>17. UNCHANGED messages /\ UNCHANGED readState /\ orgRow' = orgRow /\ channelRead' = channelRead
  BY DEF GuardFloor
<1>18. LocksHeld'
  <2>1. channelRead = p
    BY <1>1, <1>2, RInvParts DEF LocksHeld, Locked
  <2>2. Reader(e)
    BY <1>14 DEF Reader
  <2>. QED
    BY <1>16, <1>17, <2>1, <2>2, RInvParts, LocksFollow
<1>. QED
  BY <1>14, <1>16, <1>17, <1>18, OneMoves

(* A posting transaction with the range of its own message.                *)
Posted(kind, t, moves, seq) ==
  [Idle EXCEPT !.pc = "merge", !.kind = kind, !.topic = t, !.moves = moves,
     !.add = {Span(LastBefore(seq) + 1, seq + 1)}, !.asked = {seq}]

LEMMA PostedKnows ==
  ASSUME MessagesTyped, NEW kind \in {"post", "branch"}, NEW t \in Topics, NEW moves \in SUBSET Nat,
         NEW seq \in Nat, eventSeq < seq, seq = IF kind = "branch" THEN eventSeq + 2 ELSE eventSeq + 1,
         NEW e, e = Posted(kind, t, moves, seq)
  PROVE  e \in Transactions /\ e.pc = "merge" /\ ~ Reader(e) /\ Knows(e)
<1>1. PICK b : b = LastBefore(seq)
  OBVIOUS
<1>2. b \in Nat /\ b + 1 < seq + 1 /\ seq + 1 \in Nat /\ b + 1 \in Nat
  <2>1. b \in Nat /\ (b = 0 \/ b < seq) /\ eventSeq \in Nat
    BY <1>1, LastBeforeIs DEF MessagesTyped
  <2>. QED
    BY <2>1
<1>3. Span(b + 1, seq + 1) \in SequenceRanges
  BY <1>2, SpanIs
<1>4. /\ e.pc = "merge" /\ e.kind = kind /\ e.topic = t
      /\ e.add = {Span(LastBefore(seq) + 1, seq + 1)} /\ e.asked = {seq}
  BY DEF Posted, Idle
<1>5. e \in Transactions
  <2>1. PICK add, asked : add = {Span(b + 1, seq + 1)} /\ asked = {seq}
    OBVIOUS
  <2>2. add \in SUBSET SequenceRanges /\ asked \in SUBSET Nat /\ kind \in Kinds
    BY <1>3, <2>1 DEF Kinds
  <2>3. e = [Idle EXCEPT !.pc = "merge", !.kind = kind, !.topic = t, !.moves = moves,
               !.add = add, !.asked = asked]
    BY <1>1, <2>1 DEF Posted
  <2>4. PICK f, g : f = [Idle EXCEPT !.pc = "merge", !.kind = kind, !.topic = t]
                    /\ g = [f EXCEPT !.moves = moves, !.add = add]
    OBVIOUS
  <2>5. f \in Transactions
    BY <2>2, <2>4, IdleKnows DEF Transactions
  <2>6. g \in Transactions
    BY <2>2, <2>4, <2>5 DEF Transactions
  <2>7. [g EXCEPT !.asked = asked] \in Transactions
    BY <2>2, <2>6 DEF Transactions
  <2>8. e = [g EXCEPT !.asked = asked]
    BY <2>3, <2>4 DEF Idle
  <2>. QED
    BY <2>7, <2>8
<1>6. seq = NewSeq(e)
  BY <1>4 DEF NewSeq
<1>7. Knows(e)
  BY <1>4, <1>5, <1>6, OwnAdds
<1>. QED
  BY <1>4, <1>5, <1>7 DEF Reader

LEMMA PostingBegins ==
  ASSUME RInv, NEW p \in Requests, orgRow = NoOne, orgRow' = p, channelRead' = channelRead,
         UNCHANGED messages, UNCHANGED readState,
         NEW e \in Transactions, e.pc = "merge", ~ Reader(e), Knows(e), tx' = [tx EXCEPT ![p] = e]
  PROVE  RInv'
<1>1. \A q \in Requests : orgRow # q
  BY ReadStateAssumption DEF Requests
<1>2. e.pc \notin Locked
  BY DEF Locked
<1>3. LocksHeld'
  BY <1>1, <1>2, RInvParts, LocksFollow
<1>. QED
  BY <1>3, OneMoves

LEMMA PostKeeps ==
  ASSUME RInv, NEW p \in Requests, Post(p)
  PROVE  RInv'
<1>1. /\ orgRow = NoOne /\ orgRow' = p /\ channelRead' = channelRead
      /\ UNCHANGED messages /\ UNCHANGED readState
  BY DEF Post
<1>2. PICK t \in Topics :
       tx' = [tx EXCEPT ![p] = [Idle EXCEPT !.pc = "merge", !.kind = "post", !.topic = t,
                                  !.add = {OwnRange(p, eventSeq + 1)}, !.asked = {eventSeq + 1}]]
  BY DEF Post
<1>3. PICK seq, moves : seq = eventSeq + 1 /\ moves = {}
  OBVIOUS
<1>4. eventSeq \in Nat /\ seq \in Nat /\ eventSeq < seq /\ moves \in SUBSET Nat
  BY <1>3, RInvParts DEF MessagesTyped
<1>5. PICK e : e = Posted("post", t, moves, seq)
  OBVIOUS
<1>6. e \in Transactions /\ e.pc = "merge" /\ ~ Reader(e) /\ Knows(e)
  <2>1. t \in Topics /\ "post" \in {"post", "branch"} /\ seq = IF "post" = "branch" THEN eventSeq + 2 ELSE eventSeq + 1
    BY <1>2, <1>3
  <2>. QED
    BY <1>4, <1>5, <2>1, RInvParts, PostedKnows
<1>7. tx' = [tx EXCEPT ![p] = e]
  <2>1. [Idle EXCEPT !.pc = "merge", !.kind = "post", !.topic = t,
                                  !.add = {OwnRange(p, seq)}, !.asked = {seq}] = e
    <3>1. PICK add, asked : add = {OwnRange(p, seq)} /\ asked = {seq}
      OBVIOUS
    <3>2. e = [Idle EXCEPT !.pc = "merge", !.kind = "post", !.topic = t, !.moves = {},
                 !.add = add, !.asked = asked]
      BY <1>3, <1>5, <3>1 DEF Posted, OwnRange
    <3>3. [Idle EXCEPT !.pc = "merge", !.kind = "post", !.topic = t, !.add = add, !.asked = asked] = e
      <4>1. e = [pc |-> "merge", kind |-> "post", topic |-> t, cursor |-> 0, from |-> 0, through |-> 0,
                 moves |-> {}, add |-> add, floor |-> 0, work |-> {}, new |-> {}, changed |-> FALSE, asked |-> asked]
        BY <3>2 DEF Idle
      <4>2. PICK f : f = [Idle EXCEPT !.pc = "merge", !.kind = "post", !.topic = t, !.add = add, !.asked = asked]
        OBVIOUS
      <4>3. f = [pc |-> "merge", kind |-> "post", topic |-> t, cursor |-> 0, from |-> 0, through |-> 0,
                 moves |-> {}, add |-> add, floor |-> 0, work |-> {}, new |-> {}, changed |-> FALSE, asked |-> asked]
        BY <4>2 DEF Idle
      <4>. QED
        BY <4>1, <4>2, <4>3
    <3>. QED
      BY <3>1, <3>3
  <2>. QED
    BY <1>2, <1>3, <2>1
<1>. QED
  BY <1>1, <1>6, <1>7, PostingBegins

LEMMA BranchKeeps ==
  ASSUME RInv, NEW p \in Requests, Branch(p)
  PROVE  RInv'
<1>1. /\ orgRow = NoOne /\ orgRow' = p /\ channelRead' = channelRead
      /\ UNCHANGED messages /\ UNCHANGED readState
  BY DEF Branch
<1>. PICK t \in Topics : \E moves \in SUBSET {m \in Messages : topicOf[m] = t} \ {{}} :
       tx' = [tx EXCEPT ![p] = [Idle EXCEPT !.pc = "merge", !.kind = "branch", !.topic = t,
                                  !.moves = moves, !.add = {OwnRange(p, eventSeq + 2)},
                                  !.asked = {eventSeq + 2}]]
  BY DEF Branch
<1>2. PICK moves \in SUBSET {m \in Messages : topicOf[m] = t} :
       tx' = [tx EXCEPT ![p] = [Idle EXCEPT !.pc = "merge", !.kind = "branch", !.topic = t,
                                  !.moves = moves, !.add = {OwnRange(p, eventSeq + 2)},
                                  !.asked = {eventSeq + 2}]]
  OBVIOUS
<1>3. PICK seq : seq = eventSeq + 2
  OBVIOUS
<1>4. eventSeq \in Nat /\ seq \in Nat /\ eventSeq < seq /\ moves \in SUBSET Nat
  BY <1>2, <1>3, RInvParts DEF MessagesTyped
<1>5. PICK e : e = Posted("branch", t, moves, seq)
  OBVIOUS
<1>6. e \in Transactions /\ e.pc = "merge" /\ ~ Reader(e) /\ Knows(e)
  <2>1. t \in Topics /\ "branch" \in {"post", "branch"} /\ seq = IF "branch" = "branch" THEN eventSeq + 2 ELSE eventSeq + 1
    BY <1>2, <1>3
  <2>. QED
    BY <1>4, <1>5, <2>1, RInvParts, PostedKnows
<1>7. tx' = [tx EXCEPT ![p] = e]
  <2>1. [Idle EXCEPT !.pc = "merge", !.kind = "branch", !.topic = t, !.moves = moves,
                                  !.add = {OwnRange(p, seq)}, !.asked = {seq}] = e
    BY <1>3, <1>5 DEF Posted, OwnRange, Idle
  <2>. QED
    BY <1>2, <1>3, <2>1
<1>. QED
  BY <1>1, <1>6, <1>7, PostingBegins

LEMMA RollbackKeeps ==
  ASSUME RInv, NEW p \in Requests, Rollback(p)
  PROVE  RInv'
<1>1. /\ channelRead' = (IF channelRead = p THEN NoOne ELSE channelRead)
      /\ orgRow' = (IF orgRow = p THEN NoOne ELSE orgRow)
      /\ tx' = [tx EXCEPT ![p] = Idle] /\ UNCHANGED messages /\ UNCHANGED readState
  BY DEF Rollback
<1>2. PICK e : e = Idle
  OBVIOUS
<1>3. e \in Transactions /\ e.pc = "idle" /\ Knows(e)
  BY <1>2, IdleKnows
<1>4. tx' = [tx EXCEPT ![p] = e]
  BY <1>1, <1>2
<1>5. LocksHeld'
  <2>1. e.pc \notin Locked
    BY <1>3 DEF Locked
  <2>2. \A q \in Requests : q # p => /\ channelRead = q => channelRead' = q
                                     /\ orgRow = q => orgRow' = q
    BY <1>1
  <2>. QED
    BY <1>3, <1>4, <2>1, <2>2, RInvParts, LocksFollow
<1>. QED
  BY <1>1, <1>3, <1>4, <1>5, OneMoves

-----------------------------------------------------------------------------
(* The commit.                                                             *)

(* After it the channel holds the transaction's own message, and the       *)
(* stored ranges reach no further than the committed sequence.             *)
LEMMA CommitGrows ==
  ASSUME RInv, NEW p \in Requests, Commit(p), NEW d, d = tx[p]
  PROVE  /\ Grows /\ Messages' = Messages \cup Own(d) /\ eventSeq' + 1 = Top(d)
         /\ Reader(d) => UNCHANGED messages
<1>1. d \in Transactions /\ Knows(d) /\ d.pc = "commit"
  BY RInvParts DEF Commit
<1>2. Reads(p) <=> Reader(d)
  BY DEF Reads, Reader
<1>3. CASE Reader(d)
  <2>1. UNCHANGED messages
    BY <1>2, <1>3 DEF Commit
  <2>2. Grows
    BY <2>1, RInvParts, SameGrows
  <2>3. Messages' = Messages /\ eventSeq' = eventSeq
    BY <2>1 DEF messages, Messages
  <2>4. Own(d) = {} /\ Top(d) = eventSeq + 1
    BY <1>3 DEF Own, Top
  <2>. QED
    BY <2>1, <2>2, <2>3, <2>4
<1>4. CASE ~ Reader(d)
  <2>1. PICK to \in Topics : Arrives(OwnSeq(p), tx[p].topic, tx[p].moves, to, eventSeq + 1)
    BY <1>2, <1>4 DEF Commit
  <2>2. PICK s, t, moves, seq : s = OwnSeq(p) /\ t = d.topic /\ moves = d.moves /\ seq = eventSeq + 1
    OBVIOUS
  <2>3. Arrives(s, t, moves, to, seq)
    BY <2>1, <2>2
  <2>4. s = NewSeq(d)
    BY <2>2 DEF OwnSeq, NewSeq
  <2>5. eventSeq \in Nat
    BY RInvParts DEF MessagesTyped
  <2>6. s \in Nat /\ eventSeq < s /\ seq \in 0 .. s /\ eventSeq < seq
    BY <2>2, <2>4, <2>5 DEF NewSeq
  <2>7. t \in Topics
    BY <1>1, <1>4, <2>2 DEF Knows, Working, Locked, Reader
  <2>8. to \in Topics
    BY <2>1
  <2>9. Grows /\ Messages' = Messages \cup {s} /\ eventSeq' = s
    BY <2>3, <2>6, <2>7, <2>8, RInvParts, ArrivesGrows
  <2>10. Own(d) = {s} /\ Top(d) = s + 1
    BY <1>4, <2>4 DEF Own, Top
  <2>. QED
    BY <1>4, <2>9, <2>10
<1>. QED
  BY <1>3, <1>4

LEMMA CommitKeeps ==
  ASSUME RInv, NEW p \in Requests, Commit(p)
  PROVE  RInv'
<1>1. PICK d, w : d = tx[p] /\ w = d.work
  OBVIOUS
<1>2. d \in Transactions /\ Knows(d) /\ d.pc = "commit"
  BY <1>1, RInvParts DEF Commit
<1>3. /\ Grows /\ Messages' = Messages \cup Own(d) /\ eventSeq' + 1 = Top(d)
      /\ Reader(d) => UNCHANGED messages
  BY <1>1, CommitGrows
<1>4. /\ Sound(w, Top(d)) /\ Starts(w) /\ HasPrefix(w)
      /\ Covered(Established) \subseteq Covered(w)
      /\ d.kind = "topic" => FloorTrue(w, d.topic, d.floor)
  BY <1>1, <1>2 DEF Knows, Working, Locked
<1>5. ranges' = w
  BY <1>1 DEF Commit
<1>6. /\ channelRead = p
      /\ ~ Reader(d) => orgRow = p
  BY <1>1, <1>2, RInvParts DEF LocksHeld, Locked
<1>7. MessagesTyped'
  BY <1>3 DEF Grows
<1>8. StoredSound'
  <2>1. Starts(w)'
    BY <1>3, <1>4, StartsGrow
  <2>2. PICK top : top = Top(d)
    OBVIOUS
  <2>3. Sound(w, top)
    BY <1>4, <2>2
  <2>4. eventSeq' + 1 = top
    BY <1>3, <2>2
  <2>5. Sound(ranges', eventSeq' + 1)
    BY <1>5, <2>3, <2>4
  <2>6. Starts(ranges)' /\ HasPrefix(ranges)'
    BY <1>4, <1>5, <2>1 DEF Starts, HasPrefix
  <2>. QED
    BY <2>5, <2>6 DEF StoredSound, Sound, Apart
<1>9. FloorsTrue'
  <2>1. ASSUME NEW t \in DOMAIN floors' PROVE FloorTrue(ranges, t, floors[t])'
    <3>1. PICK f : f = floors'[t]
      OBVIOUS
    <3>2. FloorTrue(w, t, f)
      <4>1. CASE d.kind = "topic" /\ t = d.topic
        <5>1. f = d.floor
          BY <1>1, <2>1, <3>1, <4>1 DEF Commit
        <5>. QED
          BY <1>4, <4>1, <5>1
      <4>2. CASE ~ (d.kind = "topic" /\ t = d.topic)
        <5>1. t \in DOMAIN floors /\ f = floors[t]
          BY <1>1, <2>1, <3>1, <4>2 DEF Commit
        <5>2. FloorTrue(ranges, t, f)
          BY <5>1 DEF RInv, FloorsTrue
        <5>3. Covered(ranges) \subseteq Covered(w)
          BY <1>4, RInvParts, EstablishedIs, StoredIs
        <5>. QED
          BY <5>2, <5>3, FloorMore
      <4>. QED
        BY <4>1, <4>2
    <3>3. FloorTrue(w, t, f)'
      BY <1>3, <3>2, RInvParts, FloorGrows
    <3>. QED
      BY <1>5, <3>1, <3>3
  <2>. QED
    BY <2>1 DEF FloorsTrue
<1>10. tx' = [tx EXCEPT ![p] = Idle]
  BY DEF Commit
<1>11. tx' \in [Requests -> Transactions]
  BY <1>10, RInvParts, IdleKnows
<1>12. LocksHeld'
  <2>1. PICK e : e = Idle
    OBVIOUS
  <2>2. e.pc = "idle" /\ e.pc \notin Locked
    BY <2>1, IdleKnows DEF Locked
  <2>3. \A q \in Requests : q # p => /\ channelRead = q => channelRead' = q
                                     /\ orgRow = q => orgRow' = q
    BY <1>6 DEF Commit
  <2>. QED
    BY <1>10, <2>1, <2>2, <2>3, RInvParts, LocksFollow
<1>13. ASSUME NEW q \in Requests PROVE Knows(tx[q])'
  <2>1. PICK e : e = tx'[q]
    OBVIOUS
  <2>2. Knows(e)'
    <3>1. CASE q = p
      <4>1. e = Idle
        BY <1>10, <2>1, <3>1, RInvParts
      <4>2. e \in Transactions /\ Knows(e) /\ e.pc \notin Locked /\ Reader(e)
        BY <4>1, IdleKnows DEF Idle, Locked, Reader
      <4>. QED
        BY <1>3, <4>2, RInvParts, KnowsStays
    <3>2. CASE q # p
      <4>1. e = tx[q] /\ e \in Transactions /\ Knows(e)
        BY <1>10, <2>1, <3>2, RInvParts
      <4>2. e.pc \notin Locked
        BY <1>6, <3>2, <4>1, RInvParts DEF LocksHeld
      <4>3. CASE e.pc = "idle"
        BY <4>3 DEF Knows, Begun, Merging, Working, Probing, Finding, Guarding, Committing, Locked
      <4>4. CASE e.pc # "idle"
        <5>1. Reader(e) \/ UNCHANGED messages
          BY <1>3, <1>6, <3>2, <4>1, <4>4, RInvParts DEF LocksHeld
        <5>. QED
          BY <1>3, <4>1, <4>2, <5>1, RInvParts, KnowsStays
      <4>. QED
        BY <4>3, <4>4
    <3>. QED
      BY <3>1, <3>2
  <2>. QED
    BY <2>1, <2>2
<1>. QED
  BY <1>7, <1>8, <1>9, <1>11, <1>12, <1>13 DEF RInv

-----------------------------------------------------------------------------
(* Everybody else's steps, and the start.                                  *)

LEMMA RInvPlain ==
  ASSUME RInv
  PROVE  /\ MessagesTyped /\ StoredSound /\ FloorsTrue /\ LocksHeld
         /\ tx \in [Requests -> Transactions] /\ \A p \in Requests : Knows(tx[p])
BY DEF RInv

LEMMA OthersArrive ==
  ASSUME RInv, Grows, orgRow = NoOne, orgRow' = orgRow, UNCHANGED readState, channelRead' = channelRead, tx' = tx
  PROVE  RInv'
<1>1. ranges' = ranges /\ floors' = floors
  BY DEF readState
<1>2. MessagesTyped' /\ LocksHeld' /\ tx' \in [Requests -> Transactions]
  BY DEF RInv, Grows, LocksHeld, Locked, Reader
<1>3. StoredSound'
  <2>1. Starts(ranges)'
    BY <1>1, RInvPlain, StartsGrow DEF StoredSound, Starts
  <2>0. PICK b, g : b = eventSeq /\ g = eventSeq'
    OBVIOUS
  <2>8. b \in Nat /\ g \in Nat /\ b <= g
    BY <1>2, <2>0, RInvPlain DEF MessagesTyped, Grows
  <2>9. b + 1 \in Nat /\ g + 1 \in Nat /\ b + 1 <= g + 1
    BY <2>8
  <2>2. PICK n, k : n = b + 1 /\ k = g + 1
    OBVIOUS
  <2>3. n <= k /\ n \in Nat /\ k \in Nat /\ n = eventSeq + 1 /\ k = eventSeq' + 1
    BY <2>0, <2>2, <2>9
  <2>4. Sound(ranges, n)
    BY <2>3, RInvPlain DEF StoredSound
  <2>5. Sound(ranges, k)
    <3>1. \A r \in ranges : r.hi <= k
      <4>1. SUFFICES ASSUME NEW r \in ranges PROVE r.hi <= k
        OBVIOUS
      <4>2. r.hi \in Nat /\ r.hi <= n
        BY <2>4, RangeIs DEF Sound
      <4>. QED
        BY <2>3, <4>2
    <3>. QED
      BY <2>4, <3>1 DEF Sound
  <2>6. Sound(ranges', eventSeq' + 1)
    BY <1>1, <2>3, <2>5
  <2>7. ranges' # {} => HasPrefix(ranges)'
    BY <1>1, RInvPlain DEF StoredSound, HasPrefix, Covered, Members
  <2>. QED
    BY <2>1, <2>6, <2>7 DEF StoredSound, Sound, Apart
<1>4. FloorsTrue'
  <2>1. ASSUME NEW t \in DOMAIN floors' PROVE FloorTrue(ranges, t, floors[t])'
    <3>1. PICK f, rs : f = floors[t] /\ rs = ranges
      OBVIOUS
    <3>2. FloorTrue(rs, t, f)
      BY <1>1, <2>1, <3>1, RInvPlain DEF FloorsTrue
    <3>3. FloorTrue(rs, t, f)'
      BY <3>2, RInvPlain, FloorGrows
    <3>. QED
      BY <1>1, <3>1, <3>3
  <2>. QED
    BY <2>1 DEF FloorsTrue
<1>5. ASSUME NEW q \in Requests PROVE Knows(tx[q])'
  <2>1. PICK e : e = tx[q] /\ e = tx'[q]
    OBVIOUS
  <2>2. e \in Transactions /\ Knows(e)
    BY <2>1, RInvParts
  <2>3. Knows(e)'
    <3>1. CASE e.pc = "idle"
      BY <3>1 DEF Knows, Begun, Merging, Working, Probing, Finding, Guarding, Committing, Locked
    <3>2. CASE e.pc # "idle"
      <4>1. Reader(e)
        BY <2>1, <3>2, RInvPlain, ReadStateAssumption DEF LocksHeld, Requests
      <4>. QED
        BY <1>1, <2>2, <4>1, RInvPlain, KnowsStays
    <3>. QED
      BY <3>1, <3>2
  <2>. QED
    BY <2>1, <2>3
<1>. QED
  BY <1>2, <1>3, <1>4, <1>5 DEF RInv

LEMMA OtherPostGrows ==
  ASSUME RInv, OtherPost
  PROVE  Grows
<1>1. PICK t \in Topics : Arrives(eventSeq + 1, t, {}, t, 0)
  BY DEF OtherPost
<1>2. PICK s, moves, seq : s = eventSeq + 1 /\ moves = {} /\ seq = 0
  OBVIOUS
<1>3. s \in Nat /\ eventSeq < s /\ seq \in 0 .. s
  BY <1>2, RInvPlain DEF MessagesTyped
<1>4. Arrives(s, t, moves, t, seq) /\ t \in Topics
  BY <1>1, <1>2
<1>. QED
  BY <1>2, <1>3, <1>4, RInvPlain, ArrivesGrows

LEMMA OtherBranchGrows ==
  ASSUME RInv, OtherBranch
  PROVE  Grows
<1>1. PICK t, to, moves : t \in Topics /\ to \in Topics /\ Arrives(eventSeq + 2, t, moves, to, eventSeq + 1)
  BY DEF OtherBranch
<1>2. PICK s, seq : s = eventSeq + 2 /\ seq = eventSeq + 1
  OBVIOUS
<1>3. s \in Nat /\ eventSeq < s /\ seq \in 0 .. s /\ eventSeq < seq
  BY <1>2, RInvPlain DEF MessagesTyped
<1>4. Arrives(s, t, moves, to, seq) /\ t \in Topics /\ to \in Topics
  BY <1>1, <1>2
<1>. QED
  BY <1>3, <1>4, RInvPlain, ArrivesGrows

LEMMA OtherEventGrows ==
  ASSUME RInv, OtherEvent
  PROVE  Grows
<1>1. eventSeq \in Nat /\ Joined <= eventSeq /\ Messages \subseteq 1 .. eventSeq /\ Joined \in Nat
      /\ topicOf \in [Messages -> Topics] /\ movedSeq \in [Messages -> 0 .. eventSeq]
  BY RInvPlain, ReadStateAssumption DEF MessagesTyped
<1>2. PICK s : s = eventSeq + 1
  OBVIOUS
<1>3. eventSeq' = s /\ topicOf' = topicOf /\ movedSeq' = movedSeq /\ Messages' = Messages
  BY <1>2 DEF OtherEvent, Messages
<1>4. s \in Nat /\ eventSeq <= s /\ Joined <= s /\ 1 .. eventSeq \subseteq 1 .. s /\ 0 .. eventSeq \subseteq 0 .. s
  BY <1>1, <1>2
<1>5. Messages \subseteq 1 .. s /\ movedSeq \in [Messages -> 0 .. s]
  BY <1>1, <1>4
<1>6. MessagesTyped'
  BY <1>1, <1>3, <1>4, <1>5 DEF MessagesTyped
<1>. QED
  BY <1>1, <1>3, <1>4, <1>6 DEF Grows

LEMMA OthersKeep ==
  ASSUME RInv, OtherPost \/ OtherBranch \/ OtherEvent
  PROVE  Grows /\ RInv'
<1>1. Grows
  BY OtherPostGrows, OtherBranchGrows, OtherEventGrows
<1>2. /\ orgRow = NoOne /\ orgRow' = orgRow /\ UNCHANGED readState /\ channelRead' = channelRead /\ tx' = tx
  BY DEF OtherPost, OtherBranch, OtherEvent
<1>. QED
  BY <1>1, <1>2, OthersArrive

LEMMA StutterKeeps ==
  ASSUME RInv, UNCHANGED messages, UNCHANGED readState, tx' = tx, orgRow' = orgRow, channelRead' = channelRead
  PROVE  RInv'
<1>1. Grows
  BY SameGrows, RInvPlain
<1>2. ranges' = ranges /\ floors' = floors
  BY DEF readState
<1>3. MessagesTyped' /\ Messages' = Messages /\ eventSeq' = eventSeq /\ topicOf' = topicOf /\ movedSeq' = movedSeq
  BY <1>1 DEF Grows, messages, Messages
<1>4. StoredSound'
  BY <1>2, <1>3 DEF RInv, StoredSound, Sound, Starts, HasPrefix, Apart, Covered, Members, SequenceRanges
<1>5. FloorsTrue'
  BY <1>2, <1>3 DEF RInv, FloorsTrue, FloorTrue, Covered, Members
<1>6. tx' \in [Requests -> Transactions] /\ LocksHeld'
  BY DEF RInv, LocksHeld, Locked, Reader
<1>7. ASSUME NEW q \in Requests PROVE Knows(tx[q])'
  <2>1. PICK e : e = tx'[q]
    OBVIOUS
  <2>2. e \in Transactions /\ Knows(e)
    BY <2>1 DEF RInv
  <2>3. Knows(e)'
    BY <1>1, <1>2, <2>2, KnowsStays DEF RInv
  <2>. QED
    BY <2>1, <2>3
<1>. QED
  BY <1>3, <1>4, <1>5, <1>6, <1>7 DEF RInv

LEMMA InitKnows == Init => RInv
<1>. SUFFICES ASSUME Init PROVE RInv
  OBVIOUS
<1>1. eventSeq = Joined /\ Joined \in Nat /\ 1 <= Joined
  BY ReadStateAssumption DEF Init
<1>2. PICK older \in SUBSET (1 .. Joined - 1) : topicOf \in [older -> Topics]
  BY DEF Init
<1>3. Messages = older
  BY <1>2 DEF Messages
<1>4. MessagesTyped
  BY <1>1, <1>2, <1>3 DEF Init, MessagesTyped
<1>5. StoredSound /\ FloorsTrue
  BY DEF Init, StoredSound, Sound, Starts, Apart, FloorsTrue
<1>6. \A p \in Requests : tx[p] = Idle
  BY DEF Init
<1>7. tx \in [Requests -> Transactions]
  BY IdleKnows DEF Init
<1>8. LocksHeld
  BY <1>6, IdleKnows DEF LocksHeld, Locked
<1>. QED
  BY <1>4, <1>5, <1>6, <1>7, <1>8, IdleKnows DEF RInv

LEMMA RInvKept == RInv /\ [Next]_vars => RInv'
<1>. SUFFICES ASSUME RInv, [Next]_vars PROVE RInv'
  OBVIOUS
<1>1. ASSUME NEW p \in Readings, Reading(p) PROVE RInv'
  <2>1. p \in Requests
    BY DEF Requests
  <2>. QED
    BY <1>1, <2>1, ReadFeedKeeps, FeedNeighboursKeeps, FeedProbeKeeps, ReadTopicKeeps, PrepareKeeps,
       FindCandidatesKeeps, GuardFloorKeeps DEF Reading
<1>2. ASSUME NEW p \in Writings, Writing(p) PROVE RInv'
  <2>1. p \in Requests
    BY DEF Requests
  <2>. QED
    BY <1>2, <2>1, PostKeeps, BranchKeeps DEF Writing
<1>3. ASSUME NEW p \in Requests, Merge(p) \/ Commit(p) \/ Rollback(p) PROVE RInv'
  BY <1>3, MergeKeeps, CommitKeeps, RollbackKeeps
<1>4. CASE OtherPost \/ OtherBranch \/ OtherEvent
  BY <1>4, OthersKeep
<1>5. CASE UNCHANGED vars
  <2>1. UNCHANGED messages /\ UNCHANGED readState /\ tx' = tx /\ orgRow' = orgRow /\ channelRead' = channelRead
    BY <1>5 DEF vars
  <2>2. MessagesTyped
    BY RInvPlain
  <2>3. Grows
    BY <2>1, <2>2, SameGrows
  <2>. QED
    BY <2>1, <2>3, StutterKeeps
<1>. QED
  BY <1>1, <1>2, <1>3, <1>4, <1>5 DEF Next

(* In every state the committed rows are sound and every transaction knows *)
(* what its step relies on, whoever commits in between: the locked rows     *)
(* stay as the transaction that locked them has read them.                  *)
THEOREM ReadStateInvariant == Spec => []RInv
<1>1. Init => RInv
  BY InitKnows
<1>2. RInv /\ [Next]_vars => RInv'
  BY RInvKept
<1>. QED
  BY <1>1, <1>2, PTL DEF Spec

-----------------------------------------------------------------------------
(* The theorems.                                                           *)

(* Every gap between two neighbouring ranges holds an unread message: the   *)
(* bounds that FeedWriter, TopicUnreadRangeBounds and the posting writers   *)
(* choose reach to their neighbours (docs/domain/unread.md).                *)
THEOREM GapsStayUnread == Spec => []GapsHoldUnread
<1>1. RInv => GapsHoldUnread
  <2>1. SUFFICES ASSUME RInv, NEW r \in ranges, NEW s \in ranges, r.hi < s.lo
                 PROVE  \E m \in Messages : r.hi <= m /\ m < s.lo
    BY DEF GapsHoldUnread
  <2>2. r \in SequenceRanges /\ s \in SequenceRanges /\ (s.lo <= 1 \/ s.lo - 1 \in Messages)
    BY <2>1, RInvPlain DEF StoredSound, Sound, Starts
  <2>3. r.lo \in Nat /\ r.hi \in Nat /\ r.lo < r.hi /\ s.lo \in Nat
    BY <2>2, RangeIs
  <2>4. s.lo - 1 \in Messages /\ r.hi <= s.lo - 1 /\ s.lo - 1 < s.lo
    BY <2>1, <2>2, <2>3
  <2>. QED
    BY <2>4
<1>. QED
  BY <1>1, ReadStateInvariant, PTL

(* Counting over the gaps and from a topic's floor finds exactly what the   *)
(* set leaves unread: no floor hides a message, whatever was moved where    *)
(* between or during the reads (TopicWriter.ReadShown, CountTopicUnread).   *)
THEOREM CountsStayExact == Spec => []CountsMatchTheSet
<1>1. RInv => CountsMatchTheSet
  <2>. SUFFICES ASSUME RInv PROVE CountsMatchTheSet
    OBVIOUS
  <2>1. /\ MessagesTyped /\ eventSeq \in Nat /\ eventSeq + 1 \in Nat /\ Messages \subseteq Nat
        /\ Joined \in Nat
    BY RInvPlain, ReadStateAssumption DEF MessagesTyped
  <2>2. PICK rs : rs = Stored
    OBVIOUS
  <2>3. Sound(rs, eventSeq + 1) /\ HasPrefix(rs) /\ Covered(ranges) \subseteq Covered(rs)
    BY <2>2, RInvPlain, StoredIs
  <2>4. rs \subseteq SequenceRanges /\ Apart(rs)
    BY <2>3 DEF Sound
  <2>5. ASSUME NEW m \in Messages
        PROVE  m \in ChannelUnread <=> m \notin Covered(rs)
    <3>0. m \in Nat
      BY <2>1
    <3>1. ASSUME m \in ChannelUnread, m \in Covered(rs) PROVE FALSE
      <4>1. PICK r \in rs : r.hi <= m /\ \A s \in rs : s.lo > r.lo => m < s.lo
        BY <2>2, <3>1 DEF ChannelUnread
      <4>2. PICK s \in rs : s.lo <= m /\ m < s.hi
        BY <2>4, <3>1, CoveredIs
      <4>3. r.lo \in Nat /\ r.hi \in Nat /\ r.lo < r.hi /\ s.lo \in Nat /\ s.hi \in Nat /\ s.lo < s.hi
        BY <2>4, RangeIs
      <4>4. r = s \/ r.hi < s.lo \/ s.hi < r.lo
        BY <2>4 DEF Apart
      <4>5. ~ (s.lo > r.lo)
        BY <3>0, <4>1, <4>2, <4>3
      <4>. QED
        BY <3>0, <4>1, <4>2, <4>3, <4>4, <4>5
    <3>2. ASSUME m \notin Covered(rs) PROVE m \in ChannelUnread
      <4>. DEFINE los == {s.lo : s \in {q \in rs : q.lo <= m}}
      <4>1. los \subseteq Nat /\ \A x \in los : x <= m
        BY <2>4, RangeIs
      <4>2. los # {}
        <5>1. 0 \in Covered(rs)
          BY <2>1, <2>3 DEF HasPrefix
        <5>2. PICK q \in rs : q.lo <= 0
          BY <2>4, <5>1, CoveredIs
        <5>3. q.lo \in Nat /\ q.lo <= m
          BY <2>4, <3>0, <5>2, RangeIs
        <5>. QED
          BY <5>3
      <4>3. PICK top : top = Max(los)
        OBVIOUS
      <4>4. top \in los /\ \A y \in los : y <= top
        BY <3>0, <4>1, <4>2, <4>3, MaxIs
      <4>5. PICK r \in rs : r.lo = top /\ r.lo <= m
        BY <4>4
      <4>6. r.lo \in Nat /\ r.hi \in Nat
        BY <2>4, RangeIs
      <4>7. r.hi <= m
        <5>1. ~ (m < r.hi)
          BY <2>4, <3>0, <3>2, <4>5, CoveredIs
        <5>. QED
          BY <3>0, <4>6, <5>1
      <4>8. ASSUME NEW s \in rs, s.lo > r.lo PROVE m < s.lo
        <5>1. s.lo \in Nat
          BY <2>4, RangeIs
        <5>2. ~ (s.lo <= m)
          <6>1. SUFFICES ASSUME s.lo <= m PROVE FALSE
            OBVIOUS
          <6>2. s.lo \in los
            BY <6>1
          <6>3. s.lo <= r.lo
            BY <4>4, <4>5, <6>2
          <6>. QED
            BY <4>6, <4>8, <5>1, <6>3
        <5>. QED
          BY <3>0, <5>1, <5>2
      <4>. QED
        BY <2>2, <4>7, <4>8 DEF ChannelUnread
    <3>. QED
      BY <3>1, <3>2
  <2>6. ChannelUnread = Messages \ Read
    <3>1. ChannelUnread \subseteq Messages /\ Read = Messages \cap Covered(rs)
      BY <2>2 DEF ChannelUnread, Read
    <3>. QED
      BY <2>5, <3>1
  <2>7. ASSUME NEW t \in Topics PROVE TopicUnread(t) = {m \in Messages \ Read : topicOf[m] = t}
    <3>1. PICK f : f = Floor(t)
      OBVIOUS
    <3>2. FloorTrue(rs, t, f)
      <4>1. CASE t \in DOMAIN floors
        <5>1. f = floors[t]
          BY <3>1, <4>1 DEF Floor
        <5>2. FloorTrue(ranges, t, f)
          BY <4>1, <5>1, RInvPlain DEF FloorsTrue
        <5>. QED
          BY <2>3, <5>2, FloorMore
      <4>2. CASE t \notin DOMAIN floors
        <5>1. f = Prefix(rs) - 1
          BY <2>2, <3>1, <4>2 DEF Floor
        <5>. QED
          BY <2>1, <2>3, <5>1, PrefixFloor
      <4>. QED
        BY <4>1, <4>2
    <3>3. Unread(t, rs, f) = {m \in Messages : topicOf[m] = t /\ m \notin Covered(rs)}
      BY <2>1, <2>3, <3>2, UnreadIs
    <3>. QED
      BY <2>2, <3>1, <3>3 DEF TopicUnread, Read
  <2>. QED
    BY <2>6, <2>7 DEF CountsMatchTheSet
<1>. QED
  BY <1>1, ReadStateInvariant, PTL

(* A commit makes read what was asked for, and that is all.                *)
LEMMA CommitMarks ==
  ASSUME RInv, NEW p \in Requests, Commit(p), NEW d, d = tx[p]
  PROVE  /\ d.pc = "commit" /\ Read' = Read \cup d.asked
         /\ Reader(d) => (d.changed <=> Read' # Read)
<1>1. d \in Transactions /\ Knows(d) /\ d.pc = "commit"
  BY RInvParts DEF Commit
<1>2. PICK w : w = d.work
  OBVIOUS
<1>3. HasPrefix(w) /\ Marks(d, Covered(w)) /\ (Reader(d) => Exact(d))
  BY <1>1, <1>2 DEF Knows, Working, Committing, Locked
<1>4. ranges' = w /\ Messages' = Messages \cup Own(d)
  BY <1>2, CommitGrows DEF Commit
<1>5. Read = Messages \cap Covered(Established)
  BY RInvParts, EstablishedIs DEF Read
<1>6. w # {}
  <2>1. 0 \in 0 .. Joined
    BY ReadStateAssumption
  <2>. QED
    BY <1>3, <2>1 DEF HasPrefix, Covered
<1>7. Read' = (Messages \cup Own(d)) \cap Covered(w)
  BY <1>4, <1>6 DEF Read, Stored, Covered, Members
<1>8. Read' = Read \cup d.asked
  BY <1>3, <1>5, <1>7 DEF Marks
<1>9. ASSUME Reader(d) PROVE d.changed <=> Read' # Read
  <2>1. Own(d) = {}
    BY <1>9 DEF Own
  <2>2. d.asked \subseteq Messages
    BY <1>3, <2>1 DEF Marks
  <2>3. Read' # Read <=> ~ (d.asked \subseteq Covered(Established))
    BY <1>5, <1>8, <2>2
  <2>4. d.changed <=> ~ (d.asked \subseteq Covered(Established))
    BY <1>3, <1>9 DEF Exact
  <2>. QED
    BY <2>3, <2>4
<1>. QED
  BY <1>1, <1>8, <1>9

LEMMA SameReads ==
  ASSUME UNCHANGED messages, UNCHANGED readState
  PROVE  Read' = Read
BY DEF messages, readState, Messages, Read, Stored, JoinPrefix, Span, Covered, Members

(* A message that arrives is not read.                                     *)
LEMMA OthersRead ==
  ASSUME RInv, OtherPost \/ OtherBranch \/ OtherEvent
  PROVE  Read' = Read
<1>1. Grows
  BY OthersKeep
<1>2. PICK rs : rs = Stored
  OBVIOUS
<1>3. Stored' = rs
  BY <1>2 DEF OtherPost, OtherBranch, OtherEvent, readState, Stored, JoinPrefix, Span
<1>4. Covered(rs) \subseteq 0 .. eventSeq
  BY <1>2, RInvPlain, EstablishedIs
<1>5. \A m \in Messages' : m \in Messages \/ (m \in Nat /\ eventSeq < m /\ eventSeq \in Nat)
  BY <1>1, RInvPlain DEF Grows, MessagesTyped
<1>6. Read = Messages \cap Covered(rs)
  BY <1>2 DEF Read
<1>7. Read' = Messages' \cap Covered(rs)
  BY <1>3 DEF Read, Covered, Members
<1>8. Messages \subseteq Messages'
  BY <1>1 DEF Grows
<1>9. \A m \in Messages' : m \in Covered(rs) => m \in Messages
  BY <1>4, <1>5
<1>. QED
  BY <1>6, <1>7, <1>8, <1>9

(* Every step but a commit leaves the read messages read and the others    *)
(* unread, and every step but its own commit or rollback a committing      *)
(* transaction.                                                            *)
LEMMA StepReads ==
  ASSUME RInv, [Next]_vars
  PROVE  \/ Read' = Read /\ \A p \in Requests : tx[p].pc = "commit" => tx'[p] = tx[p]
         \/ \E p \in Requests : Commit(p)
         \/ \E p \in Requests : Rollback(p)
<1>1. ASSUME NEW q \in Readings, Reading(q)
      PROVE  Read' = Read /\ \A p \in Requests : tx[p].pc = "commit" => tx'[p] = tx[p]
  <2>1. UNCHANGED messages /\ UNCHANGED readState /\ tx[q].pc # "commit"
    BY <1>1 DEF Reading, ReadFeed, FeedNeighbours, FeedProbe, ReadTopic, Prepare, FindCandidates, GuardFloor
  <2>2. \E e : tx' = [tx EXCEPT ![q] = e]
    BY <1>1 DEF Reading, ReadFeed, FeedNeighbours, FeedProbe, ReadTopic, Prepare, FindCandidates, GuardFloor
  <2>. QED
    BY <2>1, <2>2, SameReads, RInvPlain
<1>2. ASSUME NEW q \in Writings, Writing(q)
      PROVE  Read' = Read /\ \A p \in Requests : tx[p].pc = "commit" => tx'[p] = tx[p]
  <2>1. UNCHANGED messages /\ UNCHANGED readState /\ tx[q].pc # "commit"
    BY <1>2 DEF Writing, Post, Branch
  <2>2. \E e : tx' = [tx EXCEPT ![q] = e]
    BY <1>2 DEF Writing, Post, Branch
  <2>. QED
    BY <2>1, <2>2, SameReads, RInvPlain
<1>3. ASSUME NEW q \in Requests, Merge(q)
      PROVE  Read' = Read /\ \A p \in Requests : tx[p].pc = "commit" => tx'[p] = tx[p]
  <2>1. UNCHANGED messages /\ UNCHANGED readState /\ tx[q].pc # "commit"
    BY <1>3 DEF Merge
  <2>2. \E e : tx' = [tx EXCEPT ![q] = e]
    BY <1>3 DEF Merge
  <2>. QED
    BY <2>1, <2>2, SameReads, RInvPlain
<1>4. CASE OtherPost \/ OtherBranch \/ OtherEvent
  <2>1. tx' = tx
    BY <1>4 DEF OtherPost, OtherBranch, OtherEvent
  <2>. QED
    BY <1>4, <2>1, OthersRead
<1>5. CASE UNCHANGED vars
  BY <1>5, SameReads DEF vars
<1>. QED
  BY <1>1, <1>2, <1>3, <1>4, <1>5 DEF Next

(* Messages become read only by a commit, and then exactly those that its   *)
(* request was for: no mark is lost to a concurrent one and none is undone  *)
(* by a read or by a post's own mark.                                       *)
THEOREM OnlyWhatWasAsked == Spec => MarksWhatWasAsked
<1>1. RInv /\ [Next]_vars =>
        \/ Read' = Read
        \/ \E p \in Requests : tx[p].pc = "commit" /\ Read' = Read \cup tx[p].asked
  <2>. SUFFICES ASSUME RInv, [Next]_vars
                PROVE  \/ Read' = Read
                       \/ \E p \in Requests : tx[p].pc = "commit" /\ Read' = Read \cup tx[p].asked
    OBVIOUS
  <2>1. ASSUME NEW p \in Requests, Commit(p) PROVE tx[p].pc = "commit" /\ Read' = Read \cup tx[p].asked
    BY <2>1, CommitMarks
  <2>2. ASSUME NEW p \in Requests, Rollback(p) PROVE Read' = Read
    BY <2>2, SameReads DEF Rollback
  <2>. QED
    BY <2>1, <2>2, StepReads
<1>. QED
  BY <1>1, ReadStateInvariant, PTL DEF Spec, MarksWhatWasAsked

(* Rolled back over ranges that were already what it would have written, a *)
(* reading transaction had nothing to tell.                                *)
LEMMA RollbackTells ==
  ASSUME RInv, NEW p \in Requests, Rollback(p), tx[p].pc = "commit", Reads(p), ranges' = tx[p].work
  PROVE  Read' = Read /\ ~ tx[p].changed
<1>1. Read' = Read /\ ranges' = ranges
  BY SameReads DEF Rollback, readState
<1>2. PICK d : d = tx[p]
  OBVIOUS
<1>3. Knows(d) /\ d.pc = "commit" /\ Reader(d) /\ d.work = ranges
  BY <1>1, <1>2, RInvParts DEF Reads, Reader
<1>4. Marks(d, Covered(ranges)) /\ Exact(d) /\ Own(d) = {}
  BY <1>3 DEF Knows, Committing, Own
<1>5. Covered(ranges) \subseteq Covered(Established)
  BY RInvParts, EstablishedIs, StoredIs
<1>6. d.asked \subseteq Covered(Established)
  BY <1>4, <1>5 DEF Marks
<1>7. ~ d.changed
  BY <1>4, <1>6 DEF Exact
<1>. QED
  BY <1>1, <1>2, <1>7

(* A reading transaction asks for a recount in the member's tabs exactly    *)
(* when its commit makes a message read (Reading.publish's changed).        *)
THEOREM TellsExactly == Spec => ChangedIsExact
<1>1. RInv /\ [Next]_vars =>
        \A p \in Requests :
          tx[p].pc = "commit" /\ Reads(p) /\ ranges' = tx[p].work /\ tx'[p].pc = "idle" =>
            (tx[p].changed <=> Read' # Read)
  <2>. SUFFICES ASSUME RInv, [Next]_vars, NEW p \in Requests,
                       tx[p].pc = "commit", Reads(p), ranges' = tx[p].work, tx'[p].pc = "idle"
                PROVE  tx[p].changed <=> Read' # Read
    OBVIOUS
  <2>1. ASSUME NEW q \in Requests, Commit(q) PROVE q = p
    BY <2>1, RInvPlain DEF Commit
  <2>2. ASSUME NEW q \in Requests, Rollback(q) PROVE q = p
    BY <2>2, RInvPlain DEF Rollback
  <2>3. CASE Commit(p)
    <3>1. PICK d : d = tx[p]
      OBVIOUS
    <3>2. Reader(d)
      BY <3>1 DEF Reads, Reader
    <3>3. d.changed <=> Read' # Read
      BY <2>3, <3>1, <3>2, CommitMarks
    <3>. QED
      BY <3>1, <3>3
  <2>4. CASE Rollback(p)
    BY <2>4, RollbackTells
  <2>. QED
    BY <2>1, <2>2, <2>3, <2>4, StepReads
<1>. QED
  BY <1>1, ReadStateInvariant, PTL DEF Spec, ChangedIsExact

(* Locks are held by requests, and floors are kept by topic.               *)
Kept ==
  /\ orgRow \in Requests \cup {NoOne} /\ channelRead \in Requests \cup {NoOne}
  /\ DOMAIN floors \subseteq Topics /\ floors = [t \in DOMAIN floors |-> floors[t]]

LEMMA NextKept ==
  ASSUME RInv, Kept, [Next]_vars
  PROVE  Kept'
<1>1. ASSUME NEW p \in Requests, Reading(p) \/ Writing(p) \/ Merge(p) PROVE Kept'
  <2>1. floors' = floors /\ orgRow' \in {orgRow, p} /\ channelRead' \in {channelRead, p}
    BY <1>1 DEF Reading, Writing, ReadFeed, FeedNeighbours, FeedProbe, ReadTopic, Prepare, FindCandidates,
       GuardFloor, Post, Branch, Merge, readState
  <2>. QED
    BY <1>1, <2>1 DEF Kept
<1>2. ASSUME NEW p \in Requests, Rollback(p) PROVE Kept'
  BY <1>2 DEF Kept, Rollback, readState
<1>3. ASSUME NEW p \in Requests, Commit(p) PROVE Kept'
  <2>1. orgRow' \in {orgRow, NoOne} /\ channelRead' = NoOne
    BY <1>3 DEF Commit
  <2>2. CASE tx[p].kind = "topic"
    <3>1. floors' = [t \in DOMAIN floors \cup {tx[p].topic} |->
                       IF t = tx[p].topic THEN tx[p].floor ELSE floors[t]]
      BY <1>3, <2>2 DEF Commit
    <3>2. tx[p].topic \in Topics
      BY <1>3, <2>2, RInvPlain DEF Commit, RInv, Knows, Working, Locked
    <3>. QED
      BY <2>1, <3>1, <3>2 DEF Kept
  <2>3. CASE tx[p].kind # "topic"
    <3>1. floors' = floors
      BY <1>3, <2>3 DEF Commit
    <3>. QED
      BY <2>1, <3>1 DEF Kept
  <2>. QED
    BY <2>2, <2>3
<1>4. CASE OtherPost \/ OtherBranch \/ OtherEvent \/ UNCHANGED vars
  BY <1>4 DEF Kept, OtherPost, OtherBranch, OtherEvent, vars, readState
<1>. QED
  BY <1>1, <1>2, <1>3, <1>4 DEF Next, Requests

(* What is stored is of its type, for any members, topics and length of     *)
(* the log: ranges that neither overlap nor touch and begin at the join,    *)
(* and floors no higher than the log (the checks of read_range and          *)
(* topic_read_floor, and what the writers keep beyond them).                *)
THEOREM TypeCorrect == Spec => []TypeOK
<1>1. Init => RInv /\ Kept
  BY InitKnows DEF Init, Kept
<1>2. RInv /\ Kept /\ [Next]_vars => RInv' /\ Kept'
  BY RInvKept, NextKept
<1>3. RInv /\ Kept => TypeOK
  <2>. SUFFICES ASSUME RInv, Kept PROVE TypeOK
    OBVIOUS
  <2>1. MessagesTyped /\ StoredSound /\ FloorsTrue /\ tx \in [Requests -> Transactions]
    BY DEF RInv
  <2>2. ranges # {} => 0 \in {r.lo : r \in ranges}
    <3>. SUFFICES ASSUME ranges # {} PROVE \E r \in ranges : r.lo = 0
      OBVIOUS
    <3>1. PICK r \in ranges : 0 \in Members(r)
      BY <2>1, ReadStateAssumption DEF StoredSound, HasPrefix, Covered
    <3>2. r.lo \in Nat /\ r.hi \in Nat
      BY <2>1, RangeIs DEF StoredSound, Sound
    <3>. QED
      BY <3>1, <3>2 DEF Members
  <2>3. floors \in [DOMAIN floors -> 0 .. eventSeq]
    BY <2>1 DEF FloorsTrue, FloorTrue, Kept, MessagesTyped
  <2>. QED
    BY <2>1, <2>2, <2>3 DEF TypeOK, Kept, MessagesTyped, StoredSound, Sound
<1>. QED
  BY <1>1, <1>2, <1>3, PTL DEF Spec
=============================================================================
