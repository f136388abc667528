----------------------------- MODULE ReadRanges -----------------------------
(***************************************************************************)
(* The arithmetic of read ranges: a member's read state in a channel is a  *)
(* set of half-open ranges lo <= s < hi of sequences, and every write is   *)
(* the union with one range, or with several at once, that replaces only   *)
(* the stored ranges it overlaps or touches.                               *)
(***************************************************************************)
EXTENDS FiniteSetsExt

Span(lo, hi) == [lo |-> lo, hi |-> hi]

(* Stored rows satisfy the table's checks: 0 <= lo < hi. *)
SequenceRanges == {r \in [lo : Nat, hi : Nat] : r.lo < r.hi}

Members(r) == r.lo .. r.hi - 1

Covered(rs) == UNION {Members(r) : r \in rs}

(* No two ranges overlap or touch. *)
Apart(rs) == \A r, s \in rs : r = s \/ r.hi < s.lo \/ s.hi < r.lo

Overlaps(r, a) == r.lo <= a.hi /\ a.lo <= r.hi

(* The lowest range a union with a can reach begins at a's predecessor.    *)
LowerLo(rs, a) ==
  LET before == {r.lo : r \in {s \in rs : s.lo <= a.lo}}
  IN IF before = {} THEN a.lo ELSE Max(before)

Neighbours(rs, a) == {r \in rs : LowerLo(rs, a) <= r.lo /\ Overlaps(r, a)}

Merged(rs, a) ==
  LET gone == Neighbours(rs, a)
  IN (rs \ gone) \cup {Span(Min({r.lo : r \in gone \cup {a}}),
                             Max({r.hi : r \in gone \cup {a}}))}

(* What a union with a adds to the set. *)
NewlyCovered(rs, a) == Members(a) \ Covered(Neighbours(rs, a))

(* The same coverage in ranges that do not touch: each begins where a      *)
(* range begins and ends where one ends, with nothing missing in between   *)
(* and nothing beside it.                                                  *)
Coalesced(rs) ==
  {r \in {Span(first.lo, last.hi) : first, last \in rs} :
     /\ r.lo < r.hi
     /\ Members(r) \subseteq Covered(rs)
     /\ r.lo - 1 \notin Covered(rs)
     /\ r.hi \notin Covered(rs)}

BatchNeighbours(rs, as) == UNION {Neighbours(rs, a) : a \in as}

(* Mutant: a stored range that connects two additions is left between them. *)
AddedOnce(rs, as) ==
  (rs \ BatchNeighbours(rs, Coalesced(as))) \cup Coalesced(as)
    \cup BatchNeighbours(rs, Coalesced(as))

Added(rs, as) ==
  LET batch == Coalesced(as)
      touched == BatchNeighbours(rs, batch)
  IN (rs \ touched) \cup Coalesced(batch \cup touched)
=============================================================================
