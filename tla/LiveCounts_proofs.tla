------------------------- MODULE LiveCounts_proofs -------------------------
(***************************************************************************)
(* Proofs about unread counts in open tabs, for any tabs, slots, limits,   *)
(* events, readings, faults and pipes: a tab adds up what it has seen, and *)
(* one with nothing on its way shows the exact count.                      *)
(*                                                                         *)
(* The argument is about one tab: its stream s, pipe p, knowledge d and    *)
(* shown count c (predicate Sees).  What is in its pipe is in an order in  *)
(* which no event can be skipped; a tab that can be trusted has every      *)
(* event it was sent above its snapshot, once; so what it shows counts the *)
(* unread messages up to what it has seen.  A recount that was owed, and   *)
(* taken after the reading it is owed for, ends what counted without it    *)
(* (predicate Told).                                                       *)
(*                                                                         *)
(* First come those predicates, then pipes, the steps of a stream, the     *)
(* operators of unread-counts.ts, what they do to Sees and Told, and last  *)
(* the invariant, one lemma per action, and the theorems.                  *)
(***************************************************************************)
EXTENDS LiveCounts, FiniteSetTheorems, WellFoundedInduction, TLAPS

-----------------------------------------------------------------------------
(* What a tab, its stream and its pipe are to be. The definitions speak of *)
(* one stream s, pipe p, tab d and shown count c, of the log lg and of the *)
(* set rd of read messages.                                                *)

UnreadIn(lg, n, rd) == {m \in 1..n : lg[m] = "other" /\ m \notin rd}

Unreads == [kind : {"unread"}, seq : Nat \ {0}]
Sidebars == [kind : {"sidebar"}, seq : Nat, count : Nat]
Frames == Unreads \cup Sidebars
Pipes == Seq(Frames)
Logs == Seq(Authors)

StreamTyped(s) ==
  \/ s = Off(s.after) /\ s.after \in Nat
  \/ /\ s.at \in {"loop", "count", "send"}
     /\ s = [at |-> s.at, pos |-> s.pos, dirty |-> s.dirty, covered |-> s.covered,
             observed |-> s.observed, frame |-> s.frame]
     /\ s.pos \in Nat /\ s.dirty \in BOOLEAN /\ s.covered \in Nat /\ s.observed \in Nat
     /\ IF s.at = "send" THEN s.frame \in Sidebars ELSE s.frame = NoFrame

Events == [seq : Nat \ {0}, eligible : BOOLEAN, applied : BOOLEAN]
Resyncs == [open : BOOLEAN, losses : Nat, received : BOOLEAN, success : BOOLEAN]

TabTyped(d) ==
  /\ d = [snapshot |-> d.snapshot, seen |-> d.seen, lostThrough |-> d.lostThrough,
          recovering |-> d.recovering, losses |-> d.losses, request |-> d.request,
          events |-> d.events]
  /\ d.snapshot \in Nat /\ d.seen \in Nat /\ d.recovering \in BOOLEAN /\ d.losses \in Nat
  /\ d.request \in Resyncs
  /\ d.events \subseteq Events

IsUnread(f) == f.kind = "unread"
IsSidebar(f) == f.kind = "sidebar"

(* The unread frames in the pipe are those of the events up to pos, in     *)
(* order and without a gap.                                                *)
Coming(p, m) == \E i \in DOMAIN p : IsUnread(p[i]) /\ p[i].seq = m

Rising(p, pos) ==
  /\ \A i \in DOMAIN p : IsUnread(p[i]) => p[i].seq <= pos
  /\ \A i, j \in DOMAIN p : i < j /\ IsUnread(p[i]) /\ IsUnread(p[j]) => p[i].seq < p[j].seq

Gapless(p, pos) ==
  \A i \in DOMAIN p, m \in Nat : IsUnread(p[i]) /\ p[i].seq <= m /\ m <= pos => Coming(p, m)

(* A recount is at least as new as every frame before it, and the events   *)
(* above it come after it.                                                 *)
NewerThanBefore(p, seen, n) ==
  \A j \in DOMAIN p :
    IsSidebar(p[j]) =>
      /\ seen <= p[j].seq /\ p[j].seq <= n
      /\ \A i \in DOMAIN p : i < j => p[i].seq <= p[j].seq

RestAfter(p, pos) ==
  \A j \in DOMAIN p, m \in Nat :
    IsSidebar(p[j]) /\ p[j].seq < m /\ m <= pos =>
      \E k \in DOMAIN p : j < k /\ IsUnread(p[k]) /\ p[k].seq = m

NewestToSend(s, p, seen, n) ==
  s.at = "send" =>
    /\ s.pos <= s.frame.seq /\ seen <= s.frame.seq /\ s.frame.seq <= n
    /\ \A i \in DOMAIN p : p[i].seq <= s.frame.seq

Ordered(s, p, seen, n) ==
  IF s.at = "off" THEN p = <<>> /\ s.after <= n
  ELSE /\ s.pos <= n
       /\ Rising(p, s.pos) /\ Gapless(p, s.pos)
       /\ NewerThanBefore(p, seen, n) /\ RestAfter(p, s.pos)
       /\ NewestToSend(s, p, seen, n)

(* The events above the snapshot that the tab keeps.                       *)
Keeps(d, lg) ==
  /\ IsFiniteSet(d.events)
  /\ d.snapshot <= d.seen /\ d.seen <= Len(lg)
  /\ \A e \in d.events :
       /\ d.snapshot < e.seq /\ e.seq <= d.seen
       /\ e.eligible <=> lg[e.seq] = "other"
       /\ e.applied => e.eligible
  /\ \A e, f \in d.events : e.seq = f.seq => e = f
  /\ d.request.losses <= d.losses

AllApplied(d) == ~d.recovering => \A e \in d.events : e.eligible => e.applied

(* What a tab knows can be built upon, or will be when its request ends.   *)
Trusted(d) == ~d.recovering \/ (d.request.received /\ d.request.losses = d.losses)

Reached(s, p, d, m) ==
  \/ m <= d.seen
  \/ s.at = "off" /\ m <= s.after
  \/ s.at # "off" /\ m <= s.pos /\ ~Coming(p, m)

Has(d, m) == \E e \in d.events : e.seq = m

Complete(s, p, d) == \A m \in Nat : d.snapshot < m /\ Reached(s, p, d, m) => Has(d, m)

AppliedIn(d) == {e \in d.events : e.applied}

(* A recount, or what a tab shows, counts what is unread by rd, and rd is  *)
(* no newer.                                                               *)
Correct(f, lg, rd) == f.count = Cardinality(UnreadIn(lg, f.seq, rd)) /\ rd \subseteq 1..f.seq

Shows(d, c, lg, rd) ==
  /\ c = Cardinality(UnreadIn(lg, d.snapshot, rd)) + Cardinality(AppliedIn(d))
  /\ rd \subseteq 1..d.snapshot

TabShows(d, c, lg, rd) == Trusted(d) => Shows(d, c, lg, rd)

(* Every recount that is coming, and what the tab shows, counts what some  *)
(* readings leave unread. It never shows more than there is, nor keeps     *)
(* more events than it may.                                                *)
Recounts(s, p, lg) ==
  /\ \A j \in DOMAIN p : IsSidebar(p[j]) => \E b : Correct(p[j], lg, b)
  /\ s.at = "send" => \E b : Correct(s.frame, lg, b)

Fits(d, c, lg) == c <= Len(lg) /\ Cardinality(d.events) <= Limit

Counts(s, p, d, c, lg) == Recounts(s, p, lg) /\ (\E b : TabShows(d, c, lg, b)) /\ Fits(d, c, lg)

AllCorrect(s, p, d, c, lg, rd) ==
  /\ \A j \in DOMAIN p : IsSidebar(p[j]) => Correct(p[j], lg, rd)
  /\ s.at = "send" => Correct(s.frame, lg, rd)
  /\ TabShows(d, c, lg, rd)

(* The last recount in the pipe counts what is unread by rd, or, if there  *)
(* is none, the tab does.                                                  *)
LastCorrect(p, d, c, lg, rd) ==
  /\ \A j \in DOMAIN p :
       IsSidebar(p[j]) /\ (\A k \in DOMAIN p : j < k => ~IsSidebar(p[k])) => Correct(p[j], lg, rd)
  /\ (\A j \in DOMAIN p : ~IsSidebar(p[j])) => TabShows(d, c, lg, rd)

(* A stream that owes no recount for a generation up to ch.                *)
Told(s, p, d, c, lg, rd, ch) ==
  /\ s.at = "send" /\ s.observed = ch => Correct(s.frame, lg, rd)
  /\ s.at = "loop" /\ ~s.dirty /\ s.covered = ch => LastCorrect(p, d, c, lg, rd)

Watches(s, ch) == s.at # "off" => s.covered <= ch /\ s.observed <= ch

Sees(s, p, d, c, lg, rd) ==
  /\ StreamTyped(s) /\ p \in Pipes /\ TabTyped(d) /\ c \in Nat
  /\ Ordered(s, p, d.seen, Len(lg))
  /\ Keeps(d, lg) /\ AllApplied(d)
  /\ Trusted(d) => Complete(s, p, d)
  /\ Counts(s, p, d, c, lg)
  /\ rd = {} => AllCorrect(s, p, d, c, lg, rd)

LogTyped ==
  /\ log \in Logs /\ read \subseteq 1..Len(log) /\ landing \subseteq 1..Len(log)
  /\ changes \in Nat /\ reader \in {"idle", "committed", "unknown"}

PerTab ==
  /\ stream = [t \in Tabs |-> stream[t]] /\ pipe = [t \in Tabs |-> pipe[t]]
  /\ tab = [t \in Tabs |-> tab[t]] /\ shown = [t \in Tabs |-> shown[t]]

SeesTab(t) == Sees(stream[t], pipe[t], tab[t], shown[t], log, read)
WatchesTab(t) == Watches(stream[t], changes)
ToldTab(t) ==
  reader = "idle" /\ t \notin late =>
    Told(stream[t], pipe[t], tab[t], shown[t], log, read, changes)

LInv ==
  /\ LogTyped /\ PerTab
  /\ \A t \in Tabs : SeesTab(t) /\ WatchesTab(t) /\ ToldTab(t)


-----------------------------------------------------------------------------
(* Pipes that grow at their end and shrink at their front.                 *)

Joined(p, f, q) ==
  /\ DOMAIN p \subseteq Nat /\ DOMAIN q \subseteq Nat
  /\ \A i \in DOMAIN p : i \in DOMAIN q /\ q[i] = p[i] /\ i < Len(q)
  /\ \A i \in DOMAIN q : i \in DOMAIN p \/ i = Len(q)
  /\ Len(q) \in DOMAIN q /\ q[Len(q)] = f

Left(p, f, q) ==
  /\ DOMAIN p \subseteq Nat /\ DOMAIN q \subseteq Nat
  /\ 1 \in DOMAIN p /\ p[1] = f /\ f \in Frames
  /\ \A i \in DOMAIN p : i = 1 \/ (1 < i /\ i - 1 \in DOMAIN q /\ q[i - 1] = p[i])
  /\ \A i \in DOMAIN q : 1 < i + 1 /\ i + 1 \in DOMAIN p /\ p[i + 1] = q[i]

LEMMA AppendJoins ==
  ASSUME NEW p \in Pipes, NEW f \in Frames
  PROVE  Append(p, f) \in Pipes /\ Joined(p, f, Append(p, f))
<1>. DEFINE q == Append(p, f)
<1>1. q \in Pipes /\ Len(q) = Len(p) + 1 /\ Len(p) \in Nat
  BY DEF Pipes
<1>2. DOMAIN p = 1..Len(p) /\ DOMAIN q = 1..(Len(p) + 1)
  BY <1>1 DEF Pipes
<1>3. /\ \A i \in 1..Len(p) : q[i] = p[i]
      /\ q[Len(p) + 1] = f
  BY DEF Pipes
<1>. QED
  BY <1>1, <1>2, <1>3 DEF Joined

LEMMA TailLeft ==
  ASSUME NEW p \in Pipes, p # << >>
  PROVE  Tail(p) \in Pipes /\ Left(p, Head(p), Tail(p))
<1>. DEFINE q == Tail(p)
<1>1. q \in Pipes /\ Len(q) = Len(p) - 1 /\ Len(p) \in Nat \ {0} /\ Len(q) \in Nat
  BY DEF Pipes
<1>2. DOMAIN p = 1..Len(p) /\ DOMAIN q = 1..(Len(p) - 1)
  BY <1>1 DEF Pipes
<1>3. \A i \in 1..(Len(p) - 1) : q[i] = p[i + 1]
  BY <1>1 DEF Pipes
<1>4. Head(p) = p[1] /\ p[1] \in Frames
  BY <1>1, <1>2 DEF Pipes
<1>5. \A i \in DOMAIN p : i = 1 \/ (1 < i /\ i - 1 \in DOMAIN q /\ q[i - 1] = p[i])
  <2>. SUFFICES ASSUME NEW i \in 1..Len(p), i # 1
                PROVE  1 < i /\ i - 1 \in 1..(Len(p) - 1) /\ q[i - 1] = p[i]
    BY <1>2
  <2>1. 1 < i /\ i - 1 \in 1..(Len(p) - 1) /\ (i - 1) + 1 = i
    BY <1>1
  <2>. QED
    BY <2>1, <1>3
<1>6. \A i \in DOMAIN q : 1 < i + 1 /\ i + 1 \in DOMAIN p /\ p[i + 1] = q[i]
  BY <1>1, <1>2, <1>3
<1>. QED
  BY <1>1, <1>2, <1>4, <1>5, <1>6 DEF Left

LEMMA FrameKinds ==
  ASSUME NEW f \in Frames
  PROVE  f.seq \in Nat /\ (IsUnread(f) <=> ~IsSidebar(f)) /\ (IsUnread(f) => f.seq > 0)
         /\ (IsSidebar(f) => f.count \in Nat)
BY DEF Frames, Unreads, Sidebars, IsUnread, IsSidebar

LEMMA InPipe ==
  ASSUME NEW p \in Pipes, NEW i \in DOMAIN p
  PROVE  i \in Nat /\ p[i] \in Frames
BY DEF Pipes

(* A frame that arrives leaves the pipe ordered, for a tab that has seen   *)
(* no more than before or than the frame.                                  *)
LEMMA OrderedTail ==
  ASSUME NEW s, NEW p \in Pipes, NEW q \in Pipes, NEW f, NEW seen \in Nat, NEW now \in Nat, NEW n \in Nat,
         StreamTyped(s), Left(p, f, q), Ordered(s, p, seen, n), now <= seen \/ now <= f.seq
  PROVE  s.at # "off" /\ f.seq <= n /\ Ordered(s, q, now, n)
<1>1. s.at # "off"
  BY DEF Ordered, Left
<1>2. /\ s.pos <= n /\ s.pos \in Nat
      /\ Rising(p, s.pos) /\ Gapless(p, s.pos)
      /\ NewerThanBefore(p, seen, n) /\ RestAfter(p, s.pos)
      /\ NewestToSend(s, p, seen, n)
  BY <1>1 DEF Ordered, StreamTyped, Off
<1>3. f \in Frames /\ f = p[1] /\ 1 \in DOMAIN p
  BY DEF Left
<1>4. f.seq <= n
  BY <1>2, <1>3, FrameKinds DEF Rising, NewerThanBefore
<1>5. Rising(q, s.pos)
  <2>1. \A i \in DOMAIN q : IsUnread(q[i]) => q[i].seq <= s.pos
    BY <1>2 DEF Rising, Left
  <2>2. ASSUME NEW i \in DOMAIN q, NEW j \in DOMAIN q, i < j, IsUnread(q[i]), IsUnread(q[j])
        PROVE  q[i].seq < q[j].seq
    <3>1. i + 1 \in DOMAIN p /\ j + 1 \in DOMAIN p /\ p[i + 1] = q[i] /\ p[j + 1] = q[j] /\ i + 1 < j + 1
      BY <2>2 DEF Left
    <3>. QED
      BY <3>1, <2>2, <1>2 DEF Rising
  <2>. QED
    BY <2>1, <2>2 DEF Rising
<1>6. Gapless(q, s.pos)
  <2>. SUFFICES ASSUME NEW i \in DOMAIN q, NEW m \in Nat, IsUnread(q[i]), q[i].seq <= m, m <= s.pos
                PROVE  Coming(q, m)
    BY DEF Gapless
  <2>1. i + 1 \in DOMAIN p /\ p[i + 1] = q[i] /\ 1 < i + 1
    BY DEF Left
  <2>2. PICK k \in DOMAIN p : IsUnread(p[k]) /\ p[k].seq = m
    BY <2>1, <1>2 DEF Gapless, Coming
  <2>3. k # 1
    <3>. SUFFICES ASSUME k = 1 PROVE FALSE
      OBVIOUS
    <3>1. p[1].seq < p[i + 1].seq
      BY <2>1, <2>2, <1>2, <1>3 DEF Rising
    <3>. QED
      BY <3>1, <2>1, <2>2, InPipe, FrameKinds
  <2>4. k - 1 \in DOMAIN q /\ q[k - 1] = p[k]
    BY <2>3 DEF Left
  <2>. QED
    BY <2>2, <2>4 DEF Coming
<1>7. ASSUME NEW j \in DOMAIN q, IsSidebar(q[j])
      PROVE  now <= q[j].seq /\ q[j].seq <= n /\ \A i \in DOMAIN q : i < j => q[i].seq <= q[j].seq
  <2>1. j + 1 \in DOMAIN p /\ p[j + 1] = q[j] /\ 1 < j + 1
    BY DEF Left
  <2>2. /\ seen <= q[j].seq /\ q[j].seq <= n
        /\ \A i \in DOMAIN p : i < j + 1 => p[i].seq <= q[j].seq
    BY <2>1, <1>7, <1>2 DEF NewerThanBefore
  <2>3. f.seq <= q[j].seq
    BY <2>1, <2>2, <1>3
  <2>4. f.seq \in Nat /\ q[j].seq \in Nat
    BY <1>3, InPipe, FrameKinds
  <2>5. ASSUME NEW i \in DOMAIN q, i < j PROVE q[i].seq <= q[j].seq
    <3>1. i + 1 \in DOMAIN p /\ p[i + 1] = q[i] /\ i + 1 < j + 1
      BY <2>5 DEF Left
    <3>. QED
      BY <3>1, <2>2
  <2>. QED
    BY <2>2, <2>3, <2>4, <2>5
<1>8. NewerThanBefore(q, now, n)
  BY <1>7 DEF NewerThanBefore
<1>9. RestAfter(q, s.pos)
  <2>. SUFFICES ASSUME NEW j \in DOMAIN q, NEW m \in Nat, IsSidebar(q[j]), q[j].seq < m, m <= s.pos
                PROVE  \E k \in DOMAIN q : j < k /\ IsUnread(q[k]) /\ q[k].seq = m
    BY DEF RestAfter
  <2>1. j + 1 \in DOMAIN p /\ p[j + 1] = q[j] /\ 1 < j + 1 /\ j \in Nat
    BY DEF Left
  <2>2. PICK k \in DOMAIN p : j + 1 < k /\ IsUnread(p[k]) /\ p[k].seq = m
    BY <2>1, <1>2 DEF RestAfter
  <2>3. k \in Nat /\ k # 1
    BY <2>1, <2>2 DEF Left
  <2>4. k - 1 \in DOMAIN q /\ q[k - 1] = p[k] /\ j < k - 1
    BY <2>1, <2>2, <2>3 DEF Left
  <2>. QED
    BY <2>2, <2>4
<1>10. NewestToSend(s, q, now, n)
  <2>. SUFFICES ASSUME s.at = "send"
                PROVE  /\ s.pos <= s.frame.seq /\ now <= s.frame.seq /\ s.frame.seq <= n
                       /\ \A i \in DOMAIN q : q[i].seq <= s.frame.seq
    BY DEF NewestToSend
  <2>1. /\ s.pos <= s.frame.seq /\ seen <= s.frame.seq /\ s.frame.seq <= n
        /\ \A i \in DOMAIN p : p[i].seq <= s.frame.seq
    BY <1>2 DEF NewestToSend
  <2>2. s.frame.seq \in Nat /\ f.seq \in Nat
    BY <1>1, <1>3, FrameKinds DEF StreamTyped, Sidebars, Off
  <2>3. f.seq <= s.frame.seq
    BY <1>3, <2>1
  <2>4. \A i \in DOMAIN q : q[i].seq <= s.frame.seq
    BY <2>1 DEF Left
  <2>. QED
    BY <2>1, <2>2, <2>3, <2>4
<1>. QED
  BY <1>1, <1>2, <1>4, <1>5, <1>6, <1>8, <1>9, <1>10 DEF Ordered

-----------------------------------------------------------------------------
(* What the system does around a tab: the log grows, members read, the     *)
(* tab's stream connects, reads, counts, sends and ends.                   *)

LEMMA UnreadFinite ==
  ASSUME NEW lg, NEW n \in Nat, NEW rd
  PROVE  IsFiniteSet(UnreadIn(lg, n, rd)) /\ Cardinality(UnreadIn(lg, n, rd)) \in Nat
<1>1. IsFiniteSet(1..n)
  BY FS_Interval
<1>2. UnreadIn(lg, n, rd) \in SUBSET (1..n)
  BY DEF UnreadIn
<1>3. IsFiniteSet(UnreadIn(lg, n, rd))
  BY <1>1, <1>2, FS_Subset
<1>. QED
  BY <1>3, FS_CardinalityType

Continues(lg, more) ==
  /\ lg \in Logs /\ more \in Logs /\ Len(lg) <= Len(more)
  /\ \A m \in 1..Len(lg) : more[m] = lg[m]

LEMMA UnreadContinues ==
  ASSUME NEW lg, NEW more, Continues(lg, more), NEW n \in Nat, n <= Len(lg), NEW rd
  PROVE  UnreadIn(more, n, rd) = UnreadIn(lg, n, rd)
<1>1. Len(lg) \in Nat
  BY DEF Continues, Logs
<1>2. \A m \in 1..n : more[m] = lg[m]
  BY <1>1 DEF Continues
<1>. QED
  BY <1>2 DEF UnreadIn

(* Every recount there is, and the tab's, is at an event of the log.       *)
LEMMA WithinLog ==
  ASSUME NEW s, NEW p, NEW d, NEW c, NEW lg \in Logs, NEW rd, Sees(s, p, d, c, lg, rd)
  PROVE  /\ Len(lg) \in Nat /\ p \in Pipes
         /\ \A j \in DOMAIN p : IsSidebar(p[j]) => p[j].seq \in Nat /\ p[j].seq <= Len(lg)
         /\ s.at = "send" => s.frame.seq \in Nat /\ s.frame.seq <= Len(lg)
         /\ d.snapshot \in Nat /\ d.seen \in Nat /\ d.snapshot <= d.seen /\ d.seen <= Len(lg)
<1>1. /\ StreamTyped(s) /\ p \in Pipes /\ TabTyped(d) /\ Ordered(s, p, d.seen, Len(lg)) /\ Keeps(d, lg)
  BY DEF Sees
<1>2. Len(lg) \in Nat
  BY DEF Logs
<1>3. ASSUME NEW j \in DOMAIN p, IsSidebar(p[j])
      PROVE  p[j].seq \in Nat /\ p[j].seq <= Len(lg)
  <2>1. s.at # "off"
    BY <1>1, <1>3 DEF Ordered
  <2>2. p[j].seq <= Len(lg)
    BY <1>1, <1>3, <2>1 DEF Ordered, NewerThanBefore
  <2>. QED
    BY <2>2, <1>1, InPipe, FrameKinds
<1>4. ASSUME s.at = "send"
      PROVE  s.frame.seq \in Nat /\ s.frame.seq <= Len(lg)
  <2>1. s.frame \in Sidebars
    BY <1>1, <1>4 DEF StreamTyped, Off
  <2>. QED
    BY <2>1, <1>1, <1>4 DEF Ordered, NewestToSend, Sidebars
<1>. QED
  BY <1>1, <1>2, <1>3, <1>4 DEF TabTyped, Keeps

LEMMA StaysCorrect ==
  ASSUME NEW lg, NEW more, Continues(lg, more), NEW f, NEW rd, f.seq \in Nat, f.seq <= Len(lg)
  PROVE  Correct(f, lg, rd) <=> Correct(f, more, rd)
BY UnreadContinues DEF Correct

LEMMA StaysShown ==
  ASSUME NEW lg, NEW more, Continues(lg, more), NEW d, NEW c, NEW rd, d.snapshot \in Nat, d.snapshot <= Len(lg)
  PROVE  TabShows(d, c, lg, rd) <=> TabShows(d, c, more, rd)
BY UnreadContinues DEF TabShows, Shows

(* The log grows, and perhaps the member reads.                            *)
LEMMA SeesAround ==
  ASSUME NEW s, NEW p, NEW d, NEW c, NEW lg, NEW rd, NEW more, NEW now,
         Continues(lg, more), rd \subseteq now, Sees(s, p, d, c, lg, rd)
  PROVE  Sees(s, p, d, c, more, now)
<1>1. lg \in Logs /\ more \in Logs /\ Len(lg) \in Nat /\ Len(more) \in Nat /\ Len(lg) <= Len(more)
  BY DEF Continues, Logs
<1>2. /\ p \in Pipes
      /\ \A j \in DOMAIN p : IsSidebar(p[j]) => p[j].seq \in Nat /\ p[j].seq <= Len(lg)
      /\ s.at = "send" => s.frame.seq \in Nat /\ s.frame.seq <= Len(lg)
      /\ d.snapshot \in Nat /\ d.seen \in Nat /\ d.snapshot <= d.seen /\ d.seen <= Len(lg)
  BY <1>1, WithinLog
<1>3. /\ StreamTyped(s) /\ TabTyped(d) /\ c \in Nat
      /\ Ordered(s, p, d.seen, Len(lg)) /\ Keeps(d, lg) /\ AllApplied(d)
      /\ Trusted(d) => Complete(s, p, d)
  BY DEF Sees
<1>4. Ordered(s, p, d.seen, Len(more))
  <2>1. CASE s.at = "off"
    <3>1. s.after \in Nat
      BY <2>1, <1>3 DEF StreamTyped
    <3>. QED
      BY <2>1, <3>1, <1>1, <1>3 DEF Ordered
  <2>2. CASE s.at # "off"
    <3>1. s.pos \in Nat
      BY <2>2, <1>3 DEF StreamTyped, Off
    <3>2. NewerThanBefore(p, d.seen, Len(more))
      BY <2>2, <1>1, <1>2, <1>3 DEF Ordered, NewerThanBefore
    <3>3. NewestToSend(s, p, d.seen, Len(more))
      BY <2>2, <1>1, <1>2, <1>3 DEF Ordered, NewestToSend
    <3>. QED
      BY <2>2, <3>1, <3>2, <3>3, <1>1, <1>3 DEF Ordered
  <2>. QED
    BY <2>1, <2>2
<1>5. Keeps(d, more)
  <2>1. \A e \in d.events : e.seq \in Nat \ {0}
    BY <1>3 DEF TabTyped, Events
  <2>2. \A e \in d.events : d.snapshot < e.seq /\ e.seq <= d.seen /\ (e.eligible <=> lg[e.seq] = "other")
    BY <1>3 DEF Keeps
  <2>3. \A e \in d.events : e.eligible <=> more[e.seq] = "other"
    <3>. SUFFICES ASSUME NEW e \in d.events PROVE more[e.seq] = lg[e.seq]
      BY <2>2
    <3>1. e.seq \in 1..Len(lg)
      BY <2>1, <2>2, <1>1, <1>2
    <3>. QED
      BY <3>1 DEF Continues
  <2>. QED
    BY <2>3, <1>1, <1>2, <1>3 DEF Keeps
<1>6. ASSUME now = {}
      PROVE  AllCorrect(s, p, d, c, more, now)
  <2>1. rd = {} /\ AllCorrect(s, p, d, c, lg, rd)
    BY <1>6 DEF Sees
  <2>2. d.snapshot <= Len(lg)
    BY <1>1, <1>2
  <2>3. TabShows(d, c, more, now)
    BY <2>1, <2>2, <1>2, <1>6, StaysShown DEF AllCorrect
  <2>4. \A j \in DOMAIN p : IsSidebar(p[j]) => Correct(p[j], more, now)
    BY <2>1, <1>2, <1>6, StaysCorrect DEF AllCorrect
  <2>5. s.at = "send" => Correct(s.frame, more, now)
    BY <2>1, <1>2, <1>6, StaysCorrect DEF AllCorrect
  <2>. QED
    BY <2>3, <2>4, <2>5 DEF AllCorrect
<1>7. Counts(s, p, d, c, more)
  <2>1. Counts(s, p, d, c, lg)
    BY DEF Sees
  <2>2. \A b : TabShows(d, c, lg, b) => TabShows(d, c, more, b)
    <3>1. d.snapshot <= Len(lg)
      BY <1>1, <1>2
    <3>. QED
      BY <3>1, <1>2, StaysShown
  <2>3. \A j \in DOMAIN p : IsSidebar(p[j]) => \A b : Correct(p[j], lg, b) => Correct(p[j], more, b)
    BY <1>2, StaysCorrect
  <2>4. s.at = "send" => \A b : Correct(s.frame, lg, b) => Correct(s.frame, more, b)
    BY <1>2, StaysCorrect
  <2>5. Recounts(s, p, more)
    BY <2>1, <2>3, <2>4 DEF Counts, Recounts
  <2>6. Fits(d, c, more)
    BY <2>1, <1>1, <1>3 DEF Counts, Fits
  <2>. QED
    BY <2>1, <2>2, <2>5, <2>6 DEF Counts
<1>. QED
  BY <1>2, <1>3, <1>4, <1>5, <1>6, <1>7 DEF Sees

LEMMA ToldAround ==
  ASSUME NEW s, NEW p, NEW d, NEW c, NEW lg, NEW rd, NEW more, NEW ch,
         Continues(lg, more), Sees(s, p, d, c, lg, rd), Told(s, p, d, c, lg, rd, ch)
  PROVE  Told(s, p, d, c, more, rd, ch)
<1>1. lg \in Logs /\ Len(lg) \in Nat
  BY DEF Continues, Logs
<1>2. /\ \A j \in DOMAIN p : IsSidebar(p[j]) => p[j].seq \in Nat /\ p[j].seq <= Len(lg)
      /\ s.at = "send" => s.frame.seq \in Nat /\ s.frame.seq <= Len(lg)
      /\ d.snapshot \in Nat /\ d.seen \in Nat /\ d.snapshot <= d.seen /\ d.seen <= Len(lg)
  BY <1>1, WithinLog
<1>3. d.snapshot <= Len(lg)
  BY <1>1, <1>2
<1>4. TabShows(d, c, lg, rd) <=> TabShows(d, c, more, rd)
  BY <1>2, <1>3, StaysShown
<1>5. \A j \in DOMAIN p : IsSidebar(p[j]) => (Correct(p[j], lg, rd) <=> Correct(p[j], more, rd))
  BY <1>2, StaysCorrect
<1>6. s.at = "send" => (Correct(s.frame, lg, rd) <=> Correct(s.frame, more, rd))
  BY <1>2, StaysCorrect
<1>7. LastCorrect(p, d, c, lg, rd) => LastCorrect(p, d, c, more, rd)
  BY <1>4, <1>5 DEF LastCorrect
<1>. QED
  BY <1>6, <1>7 DEF Told

(* The stream and its pipe let the tab reach no more than before.          *)
Goes(s, p, d, s2, p2) ==
  /\ StreamTyped(s2) /\ p2 \in Pipes
  /\ \A m \in Nat : Reached(s2, p2, d, m) => Reached(s, p, d, m)

(* What is left to show when only the stream and its pipe change.          *)
LEMMA SeesStream ==
  ASSUME NEW s, NEW p, NEW d, NEW c, NEW lg, NEW rd, NEW s2, NEW p2,
         Sees(s, p, d, c, lg, rd), Goes(s, p, d, s2, p2), Ordered(s2, p2, d.seen, Len(lg)),
         Recounts(s2, p2, lg),
         rd = {} => /\ \A j \in DOMAIN p2 : IsSidebar(p2[j]) => Correct(p2[j], lg, rd)
                    /\ s2.at = "send" => Correct(s2.frame, lg, rd)
  PROVE  Sees(s2, p2, d, c, lg, rd)
<1>1. Trusted(d) => Complete(s2, p2, d)
  BY DEF Sees, Goes, Complete
<1>2. rd = {} => AllCorrect(s2, p2, d, c, lg, rd)
  BY DEF Sees, AllCorrect
<1>3. Counts(s2, p2, d, c, lg)
  BY DEF Sees, Counts
<1>. QED
  BY <1>1, <1>2, <1>3 DEF Sees, Goes

(* The stream s2 that begins after an event the tab has received.          *)
Begins(s, s2, pos) ==
  /\ s.at = "off" /\ pos \in 0..s.after
  /\ s2 = [at |-> "loop", pos |-> pos, dirty |-> TRUE, covered |-> 0, observed |-> 0, frame |-> NoFrame]

LEMMA ConnectSees ==
  ASSUME NEW s, NEW p, NEW d, NEW c, NEW lg, NEW rd, NEW s2, NEW pos, NEW ch \in Nat,
         lg \in Logs, Sees(s, p, d, c, lg, rd), Begins(s, s2, pos)
  PROVE  Sees(s2, p, d, c, lg, rd) /\ Told(s2, p, d, c, lg, rd, ch) /\ Watches(s2, ch)
<1>. USE DEF Begins
<1>1. s.after \in Nat /\ p = << >> /\ s.after <= Len(lg) /\ Len(lg) \in Nat
  BY DEF Sees, StreamTyped, Ordered, Logs
<1>2. pos \in Nat /\ pos <= s.after /\ pos <= Len(lg) /\ DOMAIN p = {}
  BY <1>1
<1>3. StreamTyped(s2)
  BY <1>2 DEF StreamTyped
<1>4. \A m \in Nat : Reached(s2, p, d, m) => Reached(s, p, d, m)
  BY <1>1, <1>2 DEF Reached
<1>5. Goes(s, p, d, s2, p)
  BY <1>3, <1>4 DEF Sees, Goes
<1>6. Ordered(s2, p, d.seen, Len(lg))
  BY <1>2 DEF Ordered, Rising, Gapless, NewerThanBefore, RestAfter, NewestToSend
<1>7. Recounts(s2, p, lg)
  BY <1>2 DEF Recounts
<1>8. Sees(s2, p, d, c, lg, rd)
  BY <1>2, <1>5, <1>6, <1>7, SeesStream
<1>. QED
  BY <1>8 DEF Told, Watches

(* The next event is read, and its frame sent.                             *)
LEMMA DeliverOrdered ==
  ASSUME NEW s, NEW p \in Pipes, NEW q \in Pipes, NEW f, NEW seen, NEW n \in Nat, NEW s2,
         StreamTyped(s), Ordered(s, p, seen, n), s.at = "loop", s.pos + 1 <= n,
         Joined(p, f, q), f \in Frames, IsUnread(f), f.seq = s.pos + 1,
         s2.at = "loop", s2.pos = s.pos + 1
  PROVE  Ordered(s2, q, seen, n)
<1>1. /\ s.pos <= n /\ s.pos \in Nat
      /\ Rising(p, s.pos) /\ Gapless(p, s.pos)
      /\ NewerThanBefore(p, seen, n) /\ RestAfter(p, s.pos)
  BY DEF Ordered, StreamTyped, Off
<1>2. ~ IsSidebar(f)
  BY FrameKinds
<1>3. Rising(q, s2.pos)
  <2>1. ASSUME NEW i \in DOMAIN q, IsUnread(q[i]) PROVE q[i].seq <= s2.pos
    <3>1. CASE i \in DOMAIN p
      <4>1. p[i].seq <= s.pos /\ q[i] = p[i]
        BY <3>1, <2>1, <1>1 DEF Rising, Joined
      <4>. QED
        BY <4>1, <3>1, <1>1, InPipe, FrameKinds
    <3>2. CASE i = Len(q)
      BY <3>2, <1>1 DEF Joined
    <3>. QED
      BY <3>1, <3>2 DEF Joined
  <2>2. ASSUME NEW i \in DOMAIN q, NEW j \in DOMAIN q, i < j, IsUnread(q[i]), IsUnread(q[j])
        PROVE  q[i].seq < q[j].seq
    <3>1. i \in DOMAIN p
      BY <2>2 DEF Joined
    <3>2. p[i].seq <= s.pos /\ q[i] = p[i] /\ p[i].seq \in Nat
      BY <3>1, <2>2, <1>1, InPipe, FrameKinds DEF Rising, Joined
    <3>3. CASE j \in DOMAIN p
      BY <3>1, <3>3, <2>2, <1>1 DEF Rising, Joined
    <3>4. CASE j = Len(q)
      BY <3>2, <3>4, <1>1 DEF Joined
    <3>. QED
      BY <3>3, <3>4 DEF Joined
  <2>. QED
    BY <2>1, <2>2 DEF Rising
<1>4. Gapless(q, s2.pos)
  <2>. SUFFICES ASSUME NEW i \in DOMAIN q, NEW m \in Nat, IsUnread(q[i]), q[i].seq <= m, m <= s2.pos
                PROVE  Coming(q, m)
    BY DEF Gapless
  <2>1. CASE m = s.pos + 1
    BY <2>1 DEF Joined, Coming
  <2>2. CASE m # s.pos + 1
    <3>1. m <= s.pos
      BY <2>2, <1>1
    <3>2. i \in DOMAIN p /\ q[i] = p[i]
      BY <3>1, <1>1 DEF Joined
    <3>3. PICK k \in DOMAIN p : IsUnread(p[k]) /\ p[k].seq = m
      BY <3>1, <3>2, <1>1 DEF Gapless, Coming
    <3>. QED
      BY <3>3 DEF Joined, Coming
  <2>. QED
    BY <2>1, <2>2
<1>5. NewerThanBefore(q, seen, n)
  <2>. SUFFICES ASSUME NEW j \in DOMAIN q, IsSidebar(q[j])
                PROVE  /\ seen <= q[j].seq /\ q[j].seq <= n
                       /\ \A i \in DOMAIN q : i < j => q[i].seq <= q[j].seq
    BY DEF NewerThanBefore
  <2>1. j \in DOMAIN p /\ q[j] = p[j]
    BY <1>2 DEF Joined
  <2>2. \A i \in DOMAIN q : i < j => i \in DOMAIN p /\ q[i] = p[i]
    BY <2>1 DEF Joined
  <2>. QED
    BY <2>1, <2>2, <1>1 DEF NewerThanBefore
<1>6. RestAfter(q, s2.pos)
  <2>. SUFFICES ASSUME NEW j \in DOMAIN q, NEW m \in Nat, IsSidebar(q[j]), q[j].seq < m, m <= s2.pos
                PROVE  \E k \in DOMAIN q : j < k /\ IsUnread(q[k]) /\ q[k].seq = m
    BY DEF RestAfter
  <2>1. j \in DOMAIN p /\ q[j] = p[j]
    BY <1>2 DEF Joined
  <2>2. CASE m = s.pos + 1
    BY <2>1, <2>2 DEF Joined
  <2>3. CASE m # s.pos + 1
    <3>1. m <= s.pos
      BY <2>3, <1>1
    <3>2. PICK k \in DOMAIN p : j < k /\ IsUnread(p[k]) /\ p[k].seq = m
      BY <3>1, <2>1, <1>1 DEF RestAfter
    <3>. QED
      BY <3>2 DEF Joined
  <2>. QED
    BY <2>2, <2>3
<1>. QED
  BY <1>1, <1>3, <1>4, <1>5, <1>6 DEF Ordered, NewestToSend

Delivers(s, p, s2, q, f, n) ==
  /\ s.at = "loop" /\ s.pos + 1 <= n
  /\ f \in Frames /\ IsUnread(f) /\ f.seq = s.pos + 1 /\ q \in Pipes /\ Joined(p, f, q)
  /\ StreamTyped(s2) /\ s2.at = "loop" /\ s2.pos = s.pos + 1
  /\ s2.covered = s.covered /\ s2.observed = s.observed /\ (s.dirty => s2.dirty)

LEMMA DeliverSees ==
  ASSUME NEW s, NEW p, NEW d, NEW c, NEW lg, NEW rd, NEW s2, NEW q, NEW f, NEW ch,
         lg \in Logs, Sees(s, p, d, c, lg, rd), Delivers(s, p, s2, q, f, Len(lg))
  PROVE  /\ Sees(s2, q, d, c, lg, rd)
         /\ Told(s, p, d, c, lg, rd, ch) => Told(s2, q, d, c, lg, rd, ch)
         /\ Watches(s, ch) => Watches(s2, ch)
<1>. USE DEF Delivers
<1>1. /\ StreamTyped(s) /\ p \in Pipes /\ TabTyped(d) /\ Ordered(s, p, d.seen, Len(lg))
      /\ s.pos \in Nat /\ Len(lg) \in Nat
  BY DEF Sees, StreamTyped, Logs, Off
<1>2. Ordered(s2, q, d.seen, Len(lg))
  BY <1>1, DeliverOrdered
<1>3. ASSUME NEW m \in Nat, Reached(s2, q, d, m)
      PROVE  Reached(s, p, d, m)
  <2>1. CASE m <= d.seen
    BY <2>1 DEF Reached
  <2>2. CASE m <= s2.pos /\ ~ Coming(q, m)
    <3>1. m # s.pos + 1
      BY <2>2 DEF Coming, Joined
    <3>2. ~ Coming(p, m)
      BY <2>2 DEF Coming, Joined
    <3>. QED
      BY <2>2, <3>1, <3>2, <1>1 DEF Reached
  <2>. QED
    BY <1>3, <2>1, <2>2 DEF Reached
<1>4. Goes(s, p, d, s2, q)
  BY <1>3 DEF Goes
<1>5. ~ IsSidebar(f)
  BY FrameKinds
<1>6. \A j \in DOMAIN q : IsSidebar(q[j]) => j \in DOMAIN p /\ q[j] = p[j]
  BY <1>5 DEF Joined
<1>7. rd = {} => \A j \in DOMAIN q : IsSidebar(q[j]) => Correct(q[j], lg, rd)
  BY <1>6 DEF Sees, AllCorrect
<1>8. Sees(s2, q, d, c, lg, rd)
  <2>1. Recounts(s2, q, lg)
    BY <1>6 DEF Sees, Counts, Recounts
  <2>. QED
    BY <2>1, <1>2, <1>4, <1>7, SeesStream
<1>9. ASSUME LastCorrect(p, d, c, lg, rd)
      PROVE  LastCorrect(q, d, c, lg, rd)
  <2>1. ASSUME NEW j \in DOMAIN q, IsSidebar(q[j]), \A k \in DOMAIN q : j < k => ~ IsSidebar(q[k])
        PROVE  Correct(q[j], lg, rd)
    <3>1. j \in DOMAIN p /\ q[j] = p[j]
      BY <2>1, <1>6
    <3>2. \A k \in DOMAIN p : j < k => ~ IsSidebar(p[k])
      BY <2>1 DEF Joined
    <3>. QED
      BY <3>1, <3>2, <2>1, <1>9 DEF LastCorrect
  <2>2. (\A j \in DOMAIN q : ~ IsSidebar(q[j])) => (\A j \in DOMAIN p : ~ IsSidebar(p[j]))
    BY DEF Joined
  <2>. QED
    BY <2>1, <2>2, <1>9 DEF LastCorrect
<1>10. s2.dirty \in BOOLEAN /\ s.dirty \in BOOLEAN
  BY <1>1 DEF StreamTyped, Off
<1>11. Told(s, p, d, c, lg, rd, ch) => Told(s2, q, d, c, lg, rd, ch)
  BY <1>9, <1>10 DEF Told
<1>12. Watches(s, ch) => Watches(s2, ch)
  BY DEF Watches
<1>. QED
  BY <1>8, <1>11, <1>12

(* The stream begins a recount, or puts it off.                            *)
LEMMA OwesSees ==
  ASSUME NEW s, NEW p, NEW d, NEW c, NEW lg, NEW rd, NEW s2, NEW ch,
         Sees(s, p, d, c, lg, rd), s.at = "loop", StreamTyped(s2), s2.at \in {"loop", "count"},
         s2.pos = s.pos, s2.dirty
  PROVE  Sees(s2, p, d, c, lg, rd) /\ Told(s2, p, d, c, lg, rd, ch)
<1>1. Goes(s, p, d, s2, p)
  BY DEF Sees, Goes, Reached
<1>2. Ordered(s2, p, d.seen, Len(lg))
  BY DEF Sees, Ordered, NewestToSend
<1>3. Recounts(s2, p, lg)
  BY DEF Sees, Counts, Recounts
<1>4. Sees(s2, p, d, c, lg, rd)
  BY <1>1, <1>2, <1>3, SeesStream DEF Sees, AllCorrect
<1>. QED
  BY <1>4 DEF Told

LEMMA CountSees ==
  ASSUME NEW s, NEW p, NEW d, NEW c, NEW lg, NEW rd, NEW s2, NEW ch,
         lg \in Logs, rd \subseteq 1..Len(lg), Sees(s, p, d, c, lg, rd), s.at = "count",
         StreamTyped(s2), s2.at = "send", s2.pos = s.pos,
         s2.frame = [kind |-> "sidebar", seq |-> Len(lg), count |-> Cardinality(UnreadIn(lg, Len(lg), rd))]
  PROVE  Sees(s2, p, d, c, lg, rd) /\ Told(s2, p, d, c, lg, rd, ch)
<1>1. /\ StreamTyped(s) /\ p \in Pipes /\ TabTyped(d) /\ Ordered(s, p, d.seen, Len(lg)) /\ Keeps(d, lg)
      /\ s.pos \in Nat /\ Len(lg) \in Nat
  BY DEF Sees, StreamTyped, Logs, Off
<1>2. Goes(s, p, d, s2, p)
  BY <1>1 DEF Goes, Reached
<1>3. Correct(s2.frame, lg, rd)
  BY DEF Correct
<1>4. \A i \in DOMAIN p : p[i].seq <= Len(lg)
  <2>. SUFFICES ASSUME NEW i \in DOMAIN p PROVE p[i].seq <= Len(lg)
    OBVIOUS
  <2>1. p[i].seq \in Nat /\ (IsUnread(p[i]) <=> ~ IsSidebar(p[i]))
    BY <1>1, InPipe, FrameKinds
  <2>2. CASE IsUnread(p[i])
    <3>1. p[i].seq <= s.pos /\ s.pos <= Len(lg)
      BY <2>2, <1>1 DEF Ordered, Rising
    <3>. QED
      BY <3>1, <2>1, <1>1
  <2>3. CASE IsSidebar(p[i])
    BY <2>3, <1>1 DEF Ordered, NewerThanBefore
  <2>. QED
    BY <2>1, <2>2, <2>3
<1>5. Ordered(s2, p, d.seen, Len(lg))
  BY <1>1, <1>4 DEF Ordered, NewestToSend, Keeps
<1>6. Recounts(s2, p, lg)
  BY <1>3 DEF Sees, Counts, Recounts
<1>7. Sees(s2, p, d, c, lg, rd)
  BY <1>2, <1>3, <1>5, <1>6, SeesStream DEF Sees, AllCorrect
<1>. QED
  BY <1>3, <1>7 DEF Told

(* The recount is sent, and covers the generation it captured.             *)
Sends(s, p, s2, q) ==
  /\ s.at = "send" /\ q \in Pipes /\ Joined(p, s.frame, q)
  /\ StreamTyped(s2) /\ s2.at = "loop" /\ s2.pos = s.pos
  /\ s2.covered = s.observed /\ s2.observed = s.observed

LEMMA SendSees ==
  ASSUME NEW s, NEW p, NEW d, NEW c, NEW lg, NEW rd, NEW s2, NEW q, NEW ch,
         lg \in Logs, Sees(s, p, d, c, lg, rd), Sends(s, p, s2, q)
  PROVE  /\ Sees(s2, q, d, c, lg, rd)
         /\ Told(s, p, d, c, lg, rd, ch) => Told(s2, q, d, c, lg, rd, ch)
         /\ Watches(s, ch) => Watches(s2, ch)
<1>. USE DEF Sends
<1>. DEFINE f == s.frame
<1>1. /\ StreamTyped(s) /\ p \in Pipes /\ TabTyped(d) /\ Ordered(s, p, d.seen, Len(lg))
      /\ s.pos \in Nat /\ Len(lg) \in Nat /\ f \in Sidebars /\ d.seen \in Nat
  BY DEF Sees, StreamTyped, Logs, Off, TabTyped
<1>2. f.seq \in Nat /\ IsSidebar(f) /\ ~ IsUnread(f)
  BY <1>1 DEF Sidebars, IsSidebar, IsUnread
<1>3. /\ s.pos <= f.seq /\ d.seen <= f.seq /\ f.seq <= Len(lg)
      /\ \A i \in DOMAIN p : p[i].seq <= f.seq
      /\ s.pos <= Len(lg) /\ Rising(p, s.pos) /\ Gapless(p, s.pos)
      /\ NewerThanBefore(p, d.seen, Len(lg)) /\ RestAfter(p, s.pos)
  BY <1>1 DEF Ordered, NewestToSend
<1>4. Len(q) \in DOMAIN q /\ q[Len(q)] = f
  BY DEF Joined
<1>5. \A i \in DOMAIN q : IsUnread(q[i]) => i \in DOMAIN p /\ q[i] = p[i]
  BY <1>2 DEF Joined
<1>6. Rising(q, s.pos)
  BY <1>3, <1>5 DEF Rising
<1>7. Gapless(q, s.pos)
  <2>. SUFFICES ASSUME NEW i \in DOMAIN q, NEW m \in Nat, IsUnread(q[i]), q[i].seq <= m, m <= s.pos
                PROVE  Coming(q, m)
    BY DEF Gapless
  <2>1. Coming(p, m)
    BY <1>3, <1>5 DEF Gapless
  <2>. QED
    BY <2>1 DEF Coming, Joined
<1>8. NewerThanBefore(q, d.seen, Len(lg))
  <2>. SUFFICES ASSUME NEW j \in DOMAIN q, IsSidebar(q[j])
                PROVE  /\ d.seen <= q[j].seq /\ q[j].seq <= Len(lg)
                       /\ \A i \in DOMAIN q : i < j => q[i].seq <= q[j].seq
    BY DEF NewerThanBefore
  <2>1. CASE j \in DOMAIN p
    <3>1. q[j] = p[j] /\ \A i \in DOMAIN q : i < j => i \in DOMAIN p /\ q[i] = p[i]
      BY <2>1 DEF Joined
    <3>. QED
      BY <2>1, <3>1, <1>3 DEF NewerThanBefore
  <2>2. CASE j = Len(q)
    <3>1. \A i \in DOMAIN q : i < j => i \in DOMAIN p /\ q[i] = p[i]
      BY <2>2 DEF Joined
    <3>. QED
      BY <2>2, <3>1, <1>3, <1>4
  <2>. QED
    BY <2>1, <2>2 DEF Joined
<1>9. RestAfter(q, s.pos)
  <2>. SUFFICES ASSUME NEW j \in DOMAIN q, NEW m \in Nat, IsSidebar(q[j]), q[j].seq < m, m <= s.pos
                PROVE  \E k \in DOMAIN q : j < k /\ IsUnread(q[k]) /\ q[k].seq = m
    BY DEF RestAfter
  <2>1. j # Len(q)
    BY <1>1, <1>2, <1>3, <1>4
  <2>2. j \in DOMAIN p /\ q[j] = p[j]
    BY <2>1 DEF Joined
  <2>3. PICK k \in DOMAIN p : j < k /\ IsUnread(p[k]) /\ p[k].seq = m
    BY <2>2, <1>3 DEF RestAfter
  <2>. QED
    BY <2>3 DEF Joined
<1>10. Ordered(s2, q, d.seen, Len(lg))
  BY <1>3, <1>6, <1>7, <1>8, <1>9 DEF Ordered, NewestToSend
<1>11. \A m \in Nat : Coming(p, m) => Coming(q, m)
  BY DEF Coming, Joined
<1>12. Goes(s, p, d, s2, q)
  BY <1>11 DEF Goes, Reached
<1>13. ASSUME rd = {}
       PROVE  \A j \in DOMAIN q : IsSidebar(q[j]) => Correct(q[j], lg, rd)
  <2>1. AllCorrect(s, p, d, c, lg, rd)
    BY <1>13 DEF Sees
  <2>. QED
    BY <2>1 DEF AllCorrect, Joined
<1>14. Sees(s2, q, d, c, lg, rd)
  <2>1. Recounts(s, p, lg)
    BY DEF Sees, Counts
  <2>2. Recounts(s2, q, lg)
    BY <2>1 DEF Recounts, Joined
  <2>. QED
    BY <2>2, <1>10, <1>12, <1>13, SeesStream
<1>15. ASSUME Correct(f, lg, rd)
       PROVE  LastCorrect(q, d, c, lg, rd)
  <2>1. ASSUME NEW j \in DOMAIN q, \A k \in DOMAIN q : j < k => ~ IsSidebar(q[k])
        PROVE  q[j] = f
    <3>1. ~ (j < Len(q))
      BY <2>1, <1>2, <1>4
    <3>. QED
      BY <3>1 DEF Joined
  <2>2. ~ \A j \in DOMAIN q : ~ IsSidebar(q[j])
    BY <1>2, <1>4
  <2>. QED
    BY <2>1, <2>2, <1>15 DEF LastCorrect
<1>16. Told(s, p, d, c, lg, rd, ch) => Told(s2, q, d, c, lg, rd, ch)
  BY <1>15 DEF Told
<1>17. Watches(s, ch) => Watches(s2, ch)
  BY DEF Watches
<1>. QED
  BY <1>14, <1>16, <1>17

(* A stream that ended: the tab reaches what it has received.              *)
LEMMA DropSees ==
  ASSUME NEW s, NEW p, NEW d, NEW c, NEW lg, NEW rd, NEW after \in Nat, NEW ch,
         lg \in Logs, Sees(s, p, d, c, lg, rd),
         s.at = "off" => after = s.after,
         s.at # "off" => after <= s.pos /\ \A m \in 1..after : ~ Coming(p, m)
  PROVE  /\ Sees(Off(after), << >>, d, c, lg, rd) /\ Told(Off(after), << >>, d, c, lg, rd, ch)
         /\ Watches(Off(after), ch)
<1>1. /\ StreamTyped(s) /\ p \in Pipes /\ TabTyped(d) /\ Ordered(s, p, d.seen, Len(lg))
      /\ Keeps(d, lg) /\ Len(lg) \in Nat
  BY DEF Sees, Logs
<1>2. StreamTyped(Off(after)) /\ << >> \in Pipes
  BY DEF StreamTyped, Off, Pipes
<1>3. after <= Len(lg)
  BY <1>1 DEF Ordered, StreamTyped, Off
<1>4. ASSUME NEW m \in Nat, m # 0, Reached(Off(after), << >>, d, m)
      PROVE  Reached(s, p, d, m)
  <2>1. m <= d.seen \/ m <= after
    BY <1>4 DEF Reached, Off
  <2>2. CASE s.at = "off"
    BY <2>1, <2>2 DEF Reached
  <2>3. CASE s.at # "off" /\ m <= after
    <3>1. ~ Coming(p, m) /\ s.pos \in Nat
      BY <1>4, <1>1, <2>3 DEF StreamTyped, Off
    <3>. QED
      BY <2>3, <3>1 DEF Reached
  <2>4. CASE m <= d.seen
    BY <2>4 DEF Reached
  <2>. QED
    BY <2>1, <2>2, <2>3, <2>4
<1>5. Trusted(d) => Complete(Off(after), << >>, d)
  <2>1. d.snapshot \in Nat
    BY <1>1 DEF TabTyped
  <2>. QED
    BY <2>1, <1>4 DEF Sees, Complete
<1>6. Ordered(Off(after), << >>, d.seen, Len(lg))
  BY <1>3 DEF Ordered, Off
<1>7. rd = {} => AllCorrect(Off(after), << >>, d, c, lg, rd)
  BY DEF Sees, AllCorrect, Off
<1>8. Counts(Off(after), << >>, d, c, lg)
  BY DEF Sees, Counts, Recounts, Off
<1>9. Sees(Off(after), << >>, d, c, lg, rd)
  BY <1>2, <1>5, <1>6, <1>7, <1>8 DEF Sees
<1>. QED
  BY <1>9 DEF Told, Watches, Off

LEMMA Least ==
  ASSUME NEW S, S \subseteq Nat, S # {}
  PROVE  Min(S) \in S /\ \A y \in S : Min(S) <= y
<1>1. IsWellFoundedOn(OpToRel(<, Nat), Nat)
  BY NatLessThanWellFounded
<1>2. PICK x \in S : \A y \in S : ~ (<<y, x>> \in OpToRel(<, Nat))
  BY <1>1, WFMin
<1>3. \A y \in S : x <= y
  <2>. SUFFICES ASSUME NEW y \in S PROVE x <= y
    OBVIOUS
  <2>1. ~ (y < x)
    BY <1>2 DEF OpToRel
  <2>. QED
    BY <2>1
<1>. QED
  BY <1>3 DEF Min

(* A tab has received every event up to where its stream is to resume.     *)
LEMMA ReceivedIsReached ==
  ASSUME NEW t \in Tabs, log \in Logs, SeesTab(t)
  PROVE  /\ ReceivedUpTo(t) \in Nat
         /\ stream[t].at = "off" => ReceivedUpTo(t) = stream[t].after
         /\ stream[t].at # "off" =>
              /\ ReceivedUpTo(t) <= stream[t].pos
              /\ \A m \in 1..ReceivedUpTo(t) : ~ Coming(pipe[t], m)
<1>. DEFINE s == stream[t]
            p == pipe[t]
            coming == {p[i].seq : i \in {j \in 1..Len(p) : p[j].kind = "unread"}}
<1>1. StreamTyped(s) /\ p \in Pipes /\ Ordered(s, p, tab[t].seen, Len(log))
  BY DEF SeesTab, Sees
<1>2. CASE s.at = "off"
  BY <1>1, <1>2 DEF ReceivedUpTo, On, StreamTyped, Off
<1>3. CASE s.at # "off"
  <2>1. s.pos \in Nat /\ Rising(p, s.pos)
    BY <1>1, <1>3 DEF StreamTyped, Off, Ordered
  <2>2. DOMAIN p = 1..Len(p)
    BY <1>1 DEF Pipes
  <2>3. \A m : m \in coming <=> Coming(p, m)
    BY <2>2 DEF Coming, IsUnread
  <2>4. \A m \in coming : m \in Nat /\ m > 0 /\ m <= s.pos
    <3>. SUFFICES ASSUME NEW m \in coming PROVE m \in Nat /\ m > 0 /\ m <= s.pos
      OBVIOUS
    <3>1. PICK i \in DOMAIN p : IsUnread(p[i]) /\ p[i].seq = m
      BY <2>3 DEF Coming
    <3>2. p[i] \in Frames /\ p[i].seq <= s.pos
      BY <3>1, <1>1, <2>1, InPipe DEF Rising
    <3>. QED
      BY <3>1, <3>2, FrameKinds
  <2>5. ReceivedUpTo(t) = IF coming = {} THEN s.pos ELSE Min(coming) - 1
    BY <1>3 DEF ReceivedUpTo, On
  <2>6. CASE coming = {}
    <3>1. ReceivedUpTo(t) = s.pos
      BY <2>5, <2>6
    <3>2. \A m : ~ Coming(p, m)
      BY <2>3, <2>6
    <3>. QED
      BY <1>3, <2>1, <3>1, <3>2
  <2>7. CASE coming # {}
    <3>1. Min(coming) \in coming /\ \A m \in coming : Min(coming) <= m
      <4>. HIDE DEF coming
      <4>. QED
        BY <2>4, <2>7, Least
    <3>2. PICK a : a = Min(coming)
      OBVIOUS
    <3>3. a \in Nat /\ a > 0 /\ a <= s.pos /\ ReceivedUpTo(t) = a - 1
      BY <2>4, <2>5, <2>7, <3>1, <3>2
    <3>4. ASSUME NEW m \in 1..(a - 1) PROVE ~ Coming(p, m)
      <4>1. m \notin coming
        <5>. HIDE DEF coming
        <5>1. m < a
          BY <3>3
        <5>. QED
          BY <2>4, <3>1, <3>2, <3>3, <5>1
      <4>. QED
        BY <4>1, <2>3
    <3>. QED
      BY <1>3, <2>1, <3>3, <3>4
  <2>. QED
    BY <2>6, <2>7
<1>. QED
  BY <1>2, <1>3

-----------------------------------------------------------------------------
(* What the operators of unread-counts.ts do to what a tab knows.          *)

Fields(d, sn, se, re, lo, rq, ev) ==
  /\ d.snapshot = sn /\ d.seen = se /\ d.recovering = re /\ d.losses = lo /\ d.request = rq
  /\ d.events = ev

Newest(d, seq) == IF seq > d.seen THEN seq ELSE d.seen

LEMMA ObserveIs ==
  ASSUME NEW d, TabTyped(d), NEW seq \in Nat
  PROVE  /\ TabTyped(observe(d, seq))
         /\ Fields(observe(d, seq), d.snapshot, Newest(d, seq), d.recovering, d.losses, d.request, d.events)
<1>. DEFINE o == observe(d, seq)
<1>1. o = [snapshot |-> d.snapshot, seen |-> Newest(d, seq), lostThrough |-> d.lostThrough,
           recovering |-> d.recovering, losses |-> d.losses, request |-> d.request,
           events |-> d.events]
  BY DEF observe, Newest, TabTyped
<1>2. Newest(d, seq) \in Nat
  BY DEF Newest, TabTyped
<1>. HIDE DEF o
<1>3. TabTyped(o)
  BY <1>1, <1>2 DEF TabTyped
<1>4. Fields(o, d.snapshot, Newest(d, seq), d.recovering, d.losses, d.request, d.events)
  BY <1>1 DEF Fields
<1>. QED
  BY <1>3, <1>4 DEF o

LEMMA LostIs ==
  ASSUME NEW d, TabTyped(d), NEW lost, NEW re, NEW lo
  PROVE  [d EXCEPT !.lostThrough = lost, !.recovering = re, !.losses = lo]
         = [snapshot |-> d.snapshot, seen |-> d.seen, lostThrough |-> lost,
            recovering |-> re, losses |-> lo, request |-> d.request, events |-> d.events]
<1>1. PICK q : q = [d EXCEPT !.lostThrough = lost]
  OBVIOUS
<1>2. PICK r : r = [q EXCEPT !.recovering = re]
  OBVIOUS
<1>3. q = [snapshot |-> d.snapshot, seen |-> d.seen, lostThrough |-> lost,
           recovering |-> d.recovering, losses |-> d.losses, request |-> d.request,
           events |-> d.events]
  BY <1>1 DEF TabTyped
<1>4. r = [snapshot |-> d.snapshot, seen |-> d.seen, lostThrough |-> lost,
           recovering |-> re, losses |-> d.losses, request |-> d.request,
           events |-> d.events]
  BY <1>2, <1>3
<1>5. [r EXCEPT !.losses = lo]
      = [snapshot |-> d.snapshot, seen |-> d.seen, lostThrough |-> lost,
         recovering |-> re, losses |-> lo, request |-> d.request, events |-> d.events]
  BY <1>4
<1>6. [d EXCEPT !.lostThrough = lost, !.recovering = re, !.losses = lo] = [r EXCEPT !.losses = lo]
  BY <1>1, <1>2, Zenon
<1>. QED
  BY <1>5, <1>6, Zenon

LEMMA LossThroughIs ==
  ASSUME NEW d, TabTyped(d), NEW through
  PROVE  /\ TabTyped(lossThrough(d, through))
         /\ Fields(lossThrough(d, through), d.snapshot, d.seen, TRUE, d.losses + 1, d.request, d.events)
<1>. DEFINE o == lossThrough(d, through)
<1>1. PICK lost : lost = IF through > d.lostThrough THEN through ELSE d.lostThrough
  OBVIOUS
<1>2. o = [snapshot |-> d.snapshot, seen |-> d.seen, lostThrough |-> lost,
           recovering |-> TRUE, losses |-> d.losses + 1, request |-> d.request, events |-> d.events]
  <2>1. PICK lo, re : lo = d.losses + 1 /\ re = TRUE
    OBVIOUS
  <2>2. o = [d EXCEPT !.lostThrough = lost, !.recovering = re, !.losses = lo]
    BY <1>1, <2>1, Zenon DEF lossThrough
  <2>3. o = [snapshot |-> d.snapshot, seen |-> d.seen, lostThrough |-> lost,
             recovering |-> re, losses |-> lo, request |-> d.request, events |-> d.events]
    BY <2>2, LostIs
  <2>. QED
    BY <2>1, <2>3, Zenon
<1>3. d.losses + 1 \in Nat
  BY DEF TabTyped
<1>. HIDE DEF o
<1>4. TabTyped(o)
  BY <1>2, <1>3 DEF TabTyped
<1>5. Fields(o, d.snapshot, d.seen, TRUE, d.losses + 1, d.request, d.events)
  BY <1>2 DEF Fields
<1>. QED
  BY <1>4, <1>5 DEF o

LEMMA LossIs ==
  ASSUME NEW d, TabTyped(d)
  PROVE  /\ TabTyped(loss(d))
         /\ Fields(loss(d), d.snapshot, d.seen, TRUE, d.losses + 1, d.request, d.events)
BY LossThroughIs DEF loss

LEMMA EventsAre ==
  ASSUME NEW d, TabTyped(d), NEW ev, ev \subseteq Events, NEW sn \in Nat
  PROVE  /\ TabTyped([d EXCEPT !.events = ev])
         /\ Fields([d EXCEPT !.events = ev], d.snapshot, d.seen, d.recovering, d.losses, d.request, ev)
         /\ TabTyped([d EXCEPT !.snapshot = sn, !.events = ev])
         /\ Fields([d EXCEPT !.snapshot = sn, !.events = ev], sn, d.seen, d.recovering, d.losses, d.request, ev)
<1>1. PICK o : o = [d EXCEPT !.events = ev]
  OBVIOUS
<1>2. PICK q : q = [d EXCEPT !.snapshot = sn, !.events = ev]
  OBVIOUS
<1>3. o = [snapshot |-> d.snapshot, seen |-> d.seen, lostThrough |-> d.lostThrough,
           recovering |-> d.recovering, losses |-> d.losses, request |-> d.request, events |-> ev]
  BY <1>1 DEF TabTyped
<1>4. q = [snapshot |-> sn, seen |-> d.seen, lostThrough |-> d.lostThrough,
           recovering |-> d.recovering, losses |-> d.losses, request |-> d.request, events |-> ev]
  BY <1>2 DEF TabTyped
<1>5. TabTyped(o) /\ Fields(o, d.snapshot, d.seen, d.recovering, d.losses, d.request, ev)
  BY <1>3 DEF TabTyped, Fields
<1>6. TabTyped(q) /\ Fields(q, sn, d.seen, d.recovering, d.losses, d.request, ev)
  BY <1>4 DEF TabTyped, Fields
<1>. QED
  BY <1>1, <1>2, <1>5, <1>6

LEMMA RequestIs ==
  ASSUME NEW d, TabTyped(d), NEW rq \in Resyncs, NEW re \in BOOLEAN
  PROVE  /\ TabTyped([d EXCEPT !.request = rq])
         /\ Fields([d EXCEPT !.request = rq], d.snapshot, d.seen, d.recovering, d.losses, rq, d.events)
         /\ TabTyped([d EXCEPT !.request = rq, !.recovering = re])
         /\ Fields([d EXCEPT !.request = rq, !.recovering = re], d.snapshot, d.seen, re, d.losses, rq, d.events)
<1>1. PICK o : o = [d EXCEPT !.request = rq]
  OBVIOUS
<1>2. PICK q : q = [d EXCEPT !.request = rq, !.recovering = re]
  OBVIOUS
<1>3. o = [snapshot |-> d.snapshot, seen |-> d.seen, lostThrough |-> d.lostThrough,
           recovering |-> d.recovering, losses |-> d.losses, request |-> rq, events |-> d.events]
  BY <1>1 DEF TabTyped
<1>4. q = [snapshot |-> d.snapshot, seen |-> d.seen, lostThrough |-> d.lostThrough,
           recovering |-> re, losses |-> d.losses, request |-> rq, events |-> d.events]
  BY <1>2 DEF TabTyped
<1>5. TabTyped(o) /\ Fields(o, d.snapshot, d.seen, d.recovering, d.losses, rq, d.events)
  BY <1>3 DEF TabTyped, Fields
<1>6. TabTyped(q) /\ Fields(q, d.snapshot, d.seen, re, d.losses, rq, d.events)
  BY <1>4 DEF TabTyped, Fields
<1>. QED
  BY <1>1, <1>2, <1>5, <1>6

(* A sidebar frame or a response is noted in the request, which the tab    *)
(* waits for until it has succeeded.                                       *)
Waits(d) == d.request # NoRequest /\ ~ d.request.success

LEMMA NotedIs ==
  ASSUME NEW d, TabTyped(d)
  PROVE  /\ TabTyped(received(d)) /\ TabTyped([d EXCEPT !.request.success = TRUE])
         /\ \E rq : /\ Fields(received(d), d.snapshot, d.seen, d.recovering, d.losses, rq, d.events)
                    /\ rq.losses = d.request.losses
         /\ Waits(received(d)) <=> Waits(d)
         /\ \E rq : /\ Fields([d EXCEPT !.request.success = TRUE], d.snapshot, d.seen, d.recovering, d.losses,
                              rq, d.events)
                    /\ rq.losses = d.request.losses /\ rq.received = d.request.received
         /\ ~ Waits([d EXCEPT !.request.success = TRUE])
<1>1. PICK r : r = d.request
  OBVIOUS
<1>2. PICK rq, rs : rq = [r EXCEPT !.received = TRUE] /\ rs = [r EXCEPT !.success = TRUE]
  OBVIOUS
<1>3. r \in Resyncs
  BY <1>1 DEF TabTyped
<1>4. rq \in Resyncs /\ rs \in Resyncs /\ rq.losses = r.losses /\ rs.losses = r.losses
      /\ rs.received = r.received
      /\ rq.received /\ rq.success = r.success /\ rs.success
  BY <1>2, <1>3 DEF Resyncs
<1>5. [d EXCEPT !.request.received = TRUE] = [d EXCEPT !.request = rq]
  BY <1>1, <1>2 DEF TabTyped
<1>6. [d EXCEPT !.request.success = TRUE] = [d EXCEPT !.request = rs]
  BY <1>1, <1>2 DEF TabTyped
<1>7. /\ TabTyped([d EXCEPT !.request = rq]) /\ TabTyped([d EXCEPT !.request = rs])
      /\ Fields([d EXCEPT !.request = rq], d.snapshot, d.seen, d.recovering, d.losses, rq, d.events)
      /\ Fields([d EXCEPT !.request = rs], d.snapshot, d.seen, d.recovering, d.losses, rs, d.events)
  BY <1>4, RequestIs
<1>8. Fields(d, d.snapshot, d.seen, d.recovering, d.losses, r, d.events)
  BY <1>1 DEF Fields
<1>9. received(d) = d \/ received(d) = [d EXCEPT !.request = rq]
  BY <1>5 DEF received
<1>10. Waits(received(d)) <=> Waits(d)
  <2>1. CASE d.request = NoRequest
    BY <2>1 DEF received
  <2>2. CASE d.request # NoRequest
    <3>1. received(d) = [d EXCEPT !.request = rq]
      BY <2>2, <1>5 DEF received
    <3>2. received(d).request = rq /\ rq # NoRequest
      BY <3>1, <1>4, <1>7 DEF Fields, NoRequest
    <3>. QED
      BY <2>2, <3>2, <1>1, <1>4 DEF Waits
  <2>. QED
    BY <2>1, <2>2
<1>11. ~ Waits([d EXCEPT !.request.success = TRUE])
  BY <1>4, <1>6, <1>7 DEF Waits, Fields
<1>. QED
  BY <1>1, <1>4, <1>6, <1>7, <1>8, <1>9, <1>10, <1>11

(* A request that is over leaves a tab recovering, unless nothing was lost *)
(* since it began.                                                         *)
LEMMA CompleteIs ==
  ASSUME NEW d, TabTyped(d)
  PROVE  /\ TabTyped(complete(d))
         /\ \/ complete(d) = d
            \/ /\ d.request.received
               /\ Fields(complete(d), d.snapshot, d.seen, complete(d).recovering, d.losses, NoRequest, d.events)
               /\ ~ complete(d).recovering => d.request.losses = d.losses
         /\ Waits(complete(d)) <=> Waits(d)
<1>1. NoRequest \in Resyncs
  BY DEF NoRequest, Resyncs
<1>2. CASE completes(d)
  <2>. DEFINE re == ~ covered(d)
  <2>1. re \in BOOLEAN
    OBVIOUS
  <2>2. complete(d) = [d EXCEPT !.request = NoRequest, !.recovering = re]
    BY <1>2, Zenon DEF complete
  <2>3. /\ TabTyped(complete(d))
        /\ Fields(complete(d), d.snapshot, d.seen, re, d.losses, NoRequest, d.events)
    <3>. HIDE DEF re
    <3>1. /\ TabTyped([d EXCEPT !.request = NoRequest, !.recovering = re])
          /\ Fields([d EXCEPT !.request = NoRequest, !.recovering = re],
                    d.snapshot, d.seen, re, d.losses, NoRequest, d.events)
      BY <1>1, <2>1, RequestIs
    <3>. QED
      BY <2>2, <3>1, Zenon
  <2>4. complete(d).recovering = re
    BY <2>3 DEF Fields
  <2>5. ~ re => d.request.losses = d.losses
    BY DEF covered
  <2>6. d.request.received /\ d.request.success
    BY <1>2 DEF completes
  <2>7. ~ Waits(complete(d)) /\ ~ Waits(d)
    BY <2>3, <2>6 DEF Waits, Fields
  <2>. QED
    BY <2>3, <2>4, <2>5, <2>6, <2>7
<1>3. CASE ~ completes(d)
  BY <1>3 DEF complete
<1>. QED
  BY <1>2, <1>3

-----------------------------------------------------------------------------
(* What is applicable is marked as applied, and is counted.                *)

Mark(e) == [seq |-> e.seq, eligible |-> e.eligible, applied |-> TRUE]

LEMMA MarkIs ==
  ASSUME NEW e \in Events
  PROVE  [e EXCEPT !.applied = TRUE] = Mark(e) /\ Mark(e) \in Events
<1>1. Mark(e) \in Events
  BY DEF Mark, Events
<1>2. [e EXCEPT !.applied = TRUE] = Mark(e)
  <2>1. PICK a, b, c : e = [seq |-> a, eligible |-> b, applied |-> c]
    BY DEF Events
  <2>2. PICK tr : tr = TRUE
    OBVIOUS
  <2>3. [e EXCEPT !.applied = tr] = [seq |-> e.seq, eligible |-> e.eligible, applied |-> tr]
    BY <2>1
  <2>. QED
    BY <2>2, <2>3, Zenon DEF Mark
<1>. QED
  BY <1>1, <1>2

(* Marking a part A of the events, no two of which are the same event.     *)
Marked(E, A) == (E \ A) \cup {Mark(e) : e \in A}

Single(E) == \A e, f \in E : e.seq = f.seq => e = f

LEMMA MarkedSingle ==
  ASSUME NEW E, E \subseteq Events, Single(E), NEW A, A \subseteq E
  PROVE  Marked(E, A) \subseteq Events /\ Single(Marked(E, A))
<1>1. Marked(E, A) \subseteq Events
  BY MarkIs DEF Marked
<1>2. ASSUME NEW e \in Marked(E, A)
      PROVE  \E o \in E : o.seq = e.seq /\ (IF o \in A THEN e = Mark(o) ELSE e = o)
  BY DEF Marked, Mark
<1>3. ASSUME NEW e \in Marked(E, A), NEW f \in Marked(E, A), e.seq = f.seq
      PROVE  e = f
  <2>1. PICK o \in E : o.seq = e.seq /\ (IF o \in A THEN e = Mark(o) ELSE e = o)
    BY <1>2
  <2>2. PICK q \in E : q.seq = f.seq /\ (IF q \in A THEN f = Mark(q) ELSE f = q)
    BY <1>2
  <2>3. o = q
    BY <2>1, <2>2, <1>3 DEF Single
  <2>. QED
    BY <2>1, <2>2, <2>3
<1>. QED
  BY <1>1, <1>3 DEF Single

AppliedOf(E) == {e \in E : e.applied}

LEMMA MarkedCount ==
  ASSUME NEW E, E \subseteq Events, IsFiniteSet(E), Single(E), NEW A, A \subseteq E, \A e \in A : ~ e.applied
  PROVE  /\ IsFiniteSet(Marked(E, A)) /\ Cardinality(A) \in Nat
         /\ Cardinality(Marked(E, A)) <= Cardinality(E)
         /\ Cardinality(AppliedOf(E)) \in Nat
         /\ Cardinality(AppliedOf(Marked(E, A))) = Cardinality(AppliedOf(E)) + Cardinality(A)
<1>. DEFINE M == {Mark(e) : e \in A}
            F == AppliedOf(E)
<1>1. IsFiniteSet(A) /\ IsFiniteSet(F) /\ IsFiniteSet(E \ A)
  <2>1. A \in SUBSET E /\ F \in SUBSET E /\ E \ A \in SUBSET E
    BY DEF AppliedOf
  <2>. QED
    BY <2>1, FS_Subset
<1>2. ExistsBijection(A, M)
  <2>. DEFINE h == [e \in A |-> Mark(e)]
  <2>1. h \in [A -> M]
    OBVIOUS
  <2>2. \A e, f \in A : h[e] = h[f] => e = f
    <3>. SUFFICES ASSUME NEW e \in A, NEW f \in A, Mark(e) = Mark(f) PROVE e = f
      OBVIOUS
    <3>1. e.seq = f.seq
      BY DEF Mark
    <3>. QED
      BY <3>1 DEF Single
  <2>3. \A m \in M : \E e \in A : h[e] = m
    OBVIOUS
  <2>. HIDE DEF h, M
  <2>4. h \in Injection(A, M)
    BY <2>1, <2>2 DEF Injection, IsInjective
  <2>5. h \in Surjection(A, M)
    BY <2>1, <2>3 DEF Surjection
  <2>6. h \in Bijection(A, M)
    BY <2>4, <2>5 DEF Bijection
  <2>. QED
    BY <2>6 DEF ExistsBijection
<1>3. IsFiniteSet(M) /\ Cardinality(M) = Cardinality(A)
  BY <1>1, <1>2, FS_Bijection
<1>4. F \cap M = {}
  <2>. SUFFICES ASSUME NEW e \in A, Mark(e) \in F PROVE FALSE
    OBVIOUS
  <2>1. Mark(e) \in E /\ Mark(e).seq = e.seq /\ Mark(e).applied
    BY DEF AppliedOf, Mark
  <2>2. Mark(e) = e
    BY <2>1 DEF Single
  <2>. QED
    BY <2>1, <2>2
<1>5. AppliedOf(Marked(E, A)) = F \cup M
  <2>1. \A m \in M : m.applied
    BY DEF Mark
  <2>2. \A e \in F : e \notin A
    BY DEF AppliedOf
  <2>. QED
    BY <2>1, <2>2 DEF AppliedOf, Marked
<1>6. IsFiniteSet(Marked(E, A))
  BY <1>1, <1>3, FS_Union DEF Marked
<1>7. Cardinality(A) \in Nat /\ Cardinality(F) \in Nat
  BY <1>1, FS_CardinalityType
<1>8. Cardinality(F \cup M) = Cardinality(F) + Cardinality(M) - Cardinality(F \cap M)
  BY <1>1, <1>3, FS_Union
<1>9. Cardinality(F \cap M) = 0
  BY <1>4, FS_EmptySet
<1>10. Cardinality(Marked(E, A)) <= Cardinality(E)
  <2>1. E \cap A = A
    OBVIOUS
  <2>2. Cardinality(E \ A) = Cardinality(E) - Cardinality(A)
    BY <2>1, FS_Difference
  <2>3. Marked(E, A) = (E \ A) \cup M
    BY DEF Marked
  <2>. HIDE DEF M
  <2>4. Cardinality((E \ A) \cup M) = Cardinality(E \ A) + Cardinality(M) - Cardinality((E \ A) \cap M)
    BY <1>1, <1>3, FS_Union
  <2>5. Cardinality(E) \in Nat
    BY FS_CardinalityType
  <2>6. Cardinality((E \ A) \cap M) \in Nat
    <3>1. IsFiniteSet((E \ A) \cap M)
      BY <1>1, FS_Intersection
    <3>. QED
      BY <3>1, FS_CardinalityType
  <2>. QED
    BY <2>2, <2>3, <2>4, <2>5, <2>6, <1>3, <1>7
<1>. QED
  BY <1>3, <1>5, <1>6, <1>7, <1>8, <1>9, <1>10

(* What a tab that knows d and shows c may be relied on for.               *)
Informed(s, p, d, c, lg) ==
  /\ TabTyped(d) /\ c \in Nat /\ Keeps(d, lg)
  /\ Trusted(d) => Complete(s, p, d)

Still(d, c, d2, c2, lg) == \A rd : TabShows(d, c, lg, rd) => TabShows(d2, c2, lg, rd)

(* Everything applicable is added to the count.                            *)
Adds(d, c, d2, c2) == d2 = markApplied(d, applicable(d)) /\ c2 = c + Cardinality(applicable(d))

LEMMA Applies ==
  ASSUME NEW s, NEW p, NEW d, NEW c, NEW lg, Informed(s, p, d, c, lg), NEW d2, NEW c2,
         Adds(d, c, d2, c2)
  PROVE  /\ Informed(s, p, d2, c2, lg) /\ AllApplied(d2) /\ d2.seen = d.seen
         /\ Still(d, c, d2, c2, lg)
         /\ d2.request = d.request /\ Cardinality(d2.events) <= Cardinality(d.events)
         /\ ~ Trusted(d2) => c2 = c
<1>. DEFINE E == d.events
            A == applicable(d)
<1>1. TabTyped(d) /\ c \in Nat /\ Keeps(d, lg) /\ E \subseteq Events /\ IsFiniteSet(E) /\ Single(E)
  BY DEF Informed, TabTyped, Keeps, Single
<1>2. A \subseteq E /\ \A e \in A : e.eligible /\ ~ e.applied
  BY DEF applicable
<1>3. {[e EXCEPT !.applied = TRUE] : e \in A} = {Mark(e) : e \in A}
  <2>1. \A e \in A : [e EXCEPT !.applied = TRUE] = Mark(e)
    BY <1>1, <1>2, MarkIs
  <2>. QED
    BY <2>1
<1>4. d2 = [d EXCEPT !.events = Marked(E, A)]
  <2>1. d2 = [d EXCEPT !.events = (E \ A) \cup {[e EXCEPT !.applied = TRUE] : e \in A}]
    BY Zenon DEF markApplied, Adds
  <2>. QED
    BY <2>1, <1>3, Zenon DEF Marked
<1>5. Marked(E, A) \subseteq Events /\ Single(Marked(E, A))
  BY <1>1, <1>2, MarkedSingle
<1>6. /\ IsFiniteSet(Marked(E, A)) /\ Cardinality(A) \in Nat /\ Cardinality(AppliedOf(E)) \in Nat
      /\ Cardinality(AppliedOf(Marked(E, A))) = Cardinality(AppliedOf(E)) + Cardinality(A)
      /\ Cardinality(Marked(E, A)) <= Cardinality(E)
  BY <1>1, <1>2, MarkedCount
<1>7. /\ TabTyped(d2)
      /\ d2.snapshot = d.snapshot /\ d2.seen = d.seen /\ d2.recovering = d.recovering
      /\ d2.losses = d.losses /\ d2.request = d.request /\ d2.events = Marked(E, A)
  <2>1. 0 \in Nat
    OBVIOUS
  <2>2. /\ TabTyped([d EXCEPT !.events = Marked(E, A)])
        /\ Fields([d EXCEPT !.events = Marked(E, A)], d.snapshot, d.seen, d.recovering, d.losses, d.request,
                  Marked(E, A))
    <3>. HIDE DEF E, A
    <3>. QED
      BY <1>1, <1>5, <2>1, EventsAre
  <2>. QED
    BY <2>2, <1>4, Zenon DEF Fields
<1>. HIDE DEF A
<1>8. c2 \in Nat
  BY <1>1, <1>6 DEF A, Adds
<1>9. \A e \in d2.events : \E o \in E : /\ o.seq = e.seq /\ o.eligible = e.eligible
                                        /\ e = o \/ (o \in A /\ e.applied)
  <2>. SUFFICES ASSUME NEW e \in d2.events
                PROVE  \E o \in E : /\ o.seq = e.seq /\ o.eligible = e.eligible
                                    /\ e = o \/ (o \in A /\ e.applied)
    OBVIOUS
  <2>1. CASE e \in E \ A
    BY <2>1
  <2>2. CASE e \in {Mark(o) : o \in A}
    <3>1. PICK o \in A : e = Mark(o)
      BY <2>2
    <3>2. o.seq = e.seq /\ o.eligible = e.eligible /\ e.applied
      BY <3>1 DEF Mark
    <3>. QED
      BY <3>2, <1>2
  <2>. QED
    BY <2>1, <2>2, <1>7 DEF Marked
<1>10. Keeps(d2, lg)
  <2>1. ASSUME NEW e \in d2.events
        PROVE  /\ d.snapshot < e.seq /\ e.seq <= d.seen
               /\ e.eligible <=> lg[e.seq] = "other"
               /\ e.applied => e.eligible
    <3>1. PICK o \in E : o.seq = e.seq /\ o.eligible = e.eligible /\ (e = o \/ (o \in A /\ e.applied))
      BY <1>9
    <3>. QED
      BY <3>1, <1>1, <1>2 DEF Keeps, A
  <2>. QED
    BY <2>1, <1>1, <1>5, <1>6, <1>7 DEF Keeps, Single
<1>11. \A m : Has(d, m) => Has(d2, m)
  <2>. SUFFICES ASSUME NEW m, NEW o \in E, o.seq = m PROVE \E e \in d2.events : e.seq = m
    BY DEF Has
  <2>1. CASE o \in A
    <3>1. Mark(o) \in d2.events
      BY <2>1, <1>7 DEF Marked
    <3>2. Mark(o).seq = m
      BY DEF Mark
    <3>. QED
      BY <3>1, <3>2
  <2>2. CASE o \notin A
    BY <2>2, <1>7 DEF Marked
  <2>. QED
    BY <2>1, <2>2
<1>12. Trusted(d2) <=> Trusted(d)
  BY <1>7 DEF Trusted
<1>13. Trusted(d2) => Complete(s, p, d2)
  BY <1>7, <1>11, <1>12 DEF Informed, Complete, Reached
<1>14. AllApplied(d2)
  <2>. SUFFICES ASSUME ~ d.recovering, NEW e \in d2.events, e.eligible PROVE e.applied
    BY <1>7 DEF AllApplied
  <2>1. PICK o \in E : o.eligible = e.eligible /\ (e = o \/ (o \in A /\ e.applied))
    BY <1>9
  <2>2. CASE e \in A
    <3>1. e \in E \ A \/ e \in {Mark(x) : x \in A}
      BY <1>7 DEF Marked
    <3>. QED
      BY <3>1, <2>2 DEF Mark
  <2>3. CASE e \notin A
    <3>1. e = o => e.applied
      BY <2>1, <2>3 DEF applicable, A
    <3>. QED
      BY <2>1, <3>1
  <2>. QED
    BY <2>2, <2>3
<1>15. Still(d, c, d2, c2, lg)
  <2>. SUFFICES ASSUME NEW rd, TabShows(d, c, lg, rd), Trusted(d2) PROVE Shows(d2, c2, lg, rd)
    BY DEF Still, TabShows
  <2>1. c = Cardinality(UnreadIn(lg, d.snapshot, rd)) + Cardinality(AppliedOf(E)) /\ rd \subseteq 1..d.snapshot
    BY <1>12 DEF TabShows, Shows, AppliedIn, AppliedOf
  <2>2. Cardinality(UnreadIn(lg, d.snapshot, rd)) \in Nat
    BY <1>1, UnreadFinite DEF TabTyped
  <2>3. Cardinality(AppliedIn(d2)) = Cardinality(AppliedOf(E)) + Cardinality(A)
    BY <1>6, <1>7 DEF AppliedIn, AppliedOf
  <2>4. c2 = Cardinality(UnreadIn(lg, d.snapshot, rd)) + Cardinality(AppliedIn(d2))
    BY <2>1, <2>2, <2>3, <1>6 DEF A, Adds
  <2>. QED
    BY <2>1, <2>4, <1>7 DEF Shows
<1>16. ~ Trusted(d2) => c2 = c
  <2>1. d.recovering => A = {}
    BY DEF A, applicable
  <2>2. d.recovering => Cardinality(A) = 0
    BY <2>1, FS_EmptySet
  <2>. QED
    BY <2>2, <1>1, <1>7 DEF Trusted, A, Adds
<1>. QED
  BY <1>6, <1>7, <1>8, <1>10, <1>13, <1>14, <1>15, <1>16 DEF Informed

LEMMA UpTo ==
  ASSUME NEW n \in Nat
  PROVE  IsFiniteSet(1..n) /\ Cardinality(1..n) = n
<1>1. n \in Int /\ 1 \in Int
  OBVIOUS
<1>2. IsFiniteSet(1..n) /\ Cardinality(1..n) = IF 1 > n THEN 0 ELSE n - 1 + 1
  BY <1>1, FS_Interval
<1>. QED
  BY <1>2

(* What a trusted tab shows is no more than there is.                      *)
LEMMA CorrectFits ==
  ASSUME NEW f, NEW lg, NEW b, f.seq \in Nat, Correct(f, lg, b)
  PROVE  f.count \in Nat /\ f.count <= f.seq
<1>1. UnreadIn(lg, f.seq, b) \in SUBSET (1..f.seq)
  BY DEF UnreadIn
<1>2. IsFiniteSet(1..f.seq) /\ Cardinality(1..f.seq) = f.seq
  BY UpTo
<1>3. Cardinality(UnreadIn(lg, f.seq, b)) <= Cardinality(1..f.seq)
  BY <1>1, <1>2, FS_Subset
<1>. QED
  BY <1>2, <1>3, UnreadFinite DEF Correct

LEMMA ShownFits ==
  ASSUME NEW d, NEW c, NEW lg \in Logs, NEW b, TabTyped(d), Keeps(d, lg), Shows(d, c, lg, b)
  PROVE  c <= Len(lg)
<1>. DEFINE old == UnreadIn(lg, d.snapshot, b)
            A == AppliedIn(d)
            above == (d.snapshot + 1)..d.seen
<1>1. /\ d.snapshot \in Nat /\ d.seen \in Nat /\ d.snapshot <= d.seen /\ d.seen <= Len(lg) /\ Len(lg) \in Nat
      /\ d.events \subseteq Events /\ Single(d.events)
  BY DEF TabTyped, Keeps, Single, Logs
<1>2. Cardinality(old) \in Nat /\ Cardinality(old) <= d.snapshot
  <2>1. old \in SUBSET (1..d.snapshot)
    BY DEF UnreadIn
  <2>2. IsFiniteSet(1..d.snapshot) /\ Cardinality(1..d.snapshot) = d.snapshot
    BY <1>1, UpTo
  <2>3. Cardinality(old) <= Cardinality(1..d.snapshot)
    BY <2>1, <2>2, FS_Subset
  <2>. QED
    BY <2>2, <2>3, <1>1, UnreadFinite
<1>3. IsFiniteSet(above) /\ Cardinality(above) = d.seen - d.snapshot
  <2>1. d.snapshot + 1 \in Int /\ d.seen \in Int
    BY <1>1
  <2>2. IsFiniteSet(above) /\ Cardinality(above) = IF d.snapshot + 1 > d.seen THEN 0 ELSE d.seen - (d.snapshot + 1) + 1
    BY <2>1, FS_Interval
  <2>. QED
    BY <2>2, <1>1
<1>4. \A e \in A : e \in d.events /\ e.seq \in above
  BY <1>1 DEF AppliedIn, Keeps, Events
<1>5. IsFiniteSet(A) /\ Cardinality(A) <= Cardinality(above)
  <2>. DEFINE h == [e \in A |-> e.seq]
  <2>1. h \in [A -> above]
    BY <1>4
  <2>2. \A e, f \in A : h[e] = h[f] => e = f
    BY <1>1, <1>4 DEF Single
  <2>. HIDE DEF h, A, above
  <2>3. h \in Injection(A, above)
    BY <2>1, <2>2 DEF Injection, IsInjective
  <2>. QED
    BY <2>3, <1>3, FS_Injection
<1>. HIDE DEF A, above, old
<1>6. Cardinality(A) \in Nat
  BY <1>5, FS_CardinalityType
<1>7. c = Cardinality(old) + Cardinality(A)
  BY DEF Shows, old, A
<1>. QED
  BY <1>1, <1>2, <1>3, <1>5, <1>6, <1>7

(* A step of a tab: it keeps no more events than it may, and adds nothing  *)
(* while it cannot be trusted.                                             *)
Steps(d, c, d2, c2) ==
  /\ Cardinality(d.events) <= Limit => Cardinality(d2.events) <= Limit
  /\ ~ Trusted(d2) => c2 = c

LEMMA StepFits ==
  ASSUME NEW d, NEW c, NEW d2, NEW c2, NEW lg \in Logs, NEW b, Steps(d, c, d2, c2),
         Cardinality(d.events) <= Limit, c <= Len(lg), TabTyped(d2), Keeps(d2, lg), TabShows(d2, c2, lg, b)
  PROVE  Fits(d2, c2, lg)
<1>1. CASE Trusted(d2)
  BY <1>1, ShownFits DEF Steps, Fits, TabShows
<1>2. CASE ~ Trusted(d2)
  BY <1>2 DEF Steps, Fits
<1>. QED
  BY <1>1, <1>2

-----------------------------------------------------------------------------
(* Steps of a tab, with or without a frame.                                *)

LEMMA SeesInformed ==
  ASSUME NEW s, NEW p, NEW d, NEW c, NEW lg, NEW rd, Sees(s, p, d, c, lg, rd)
  PROVE  /\ StreamTyped(s) /\ p \in Pipes /\ Ordered(s, p, d.seen, Len(lg)) /\ AllApplied(d)
         /\ TabTyped(d) /\ c \in Nat /\ Keeps(d, lg)
         /\ Informed(s, p, d, c, lg)
         /\ Counts(s, p, d, c, lg) /\ c <= Len(lg) /\ Cardinality(d.events) <= Limit
BY DEF Sees, Informed, Counts, Fits

LEMMA NoFrameSees ==
  ASSUME NEW s, NEW p, NEW d, NEW c, NEW lg \in Logs, NEW rd, NEW d2, NEW c2, NEW ch,
         Sees(s, p, d, c, lg, rd), Informed(s, p, d2, c2, lg), AllApplied(d2), d2.seen = d.seen,
         Still(d, c, d2, c2, lg), Steps(d, c, d2, c2)
  PROVE  /\ Sees(s, p, d2, c2, lg, rd)
         /\ Told(s, p, d, c, lg, rd, ch) => Told(s, p, d2, c2, lg, rd, ch)
<1>1. TabShows(d, c, lg, rd) => TabShows(d2, c2, lg, rd)
  BY DEF Still
<1>2. rd = {} => AllCorrect(s, p, d2, c2, lg, rd)
  BY <1>1 DEF Sees, AllCorrect
<1>3. LastCorrect(p, d, c, lg, rd) => LastCorrect(p, d2, c2, lg, rd)
  BY <1>1 DEF LastCorrect
<1>4. Told(s, p, d, c, lg, rd, ch) => Told(s, p, d2, c2, lg, rd, ch)
  BY <1>3 DEF Told
<1>5. Ordered(s, p, d2.seen, Len(lg))
  BY DEF Sees
<1>6. Counts(s, p, d2, c2, lg)
  <2>1. Counts(s, p, d, c, lg)
    BY DEF Sees
  <2>2. PICK b : TabShows(d2, c2, lg, b)
    BY <2>1 DEF Counts, Still
  <2>3. Fits(d2, c2, lg)
    BY <2>1, <2>2, StepFits DEF Counts, Fits, Informed
  <2>. QED
    BY <2>1, <2>2, <2>3 DEF Counts
<1>7. Sees(s, p, d2, c2, lg, rd)
  BY <1>2, <1>5, <1>6 DEF Sees, Informed
<1>. QED
  BY <1>4, <1>7

(* After a frame that is no recount the tab shows what it showed; after a  *)
(* recount, what that counted.                                             *)
After(f, d, c, d2, c2, lg) ==
  \A rd : (IF IsUnread(f) THEN TabShows(d, c, lg, rd) ELSE Correct(f, lg, rd)) => TabShows(d2, c2, lg, rd)

LEMMA FrameSees ==
  ASSUME NEW s, NEW p, NEW d, NEW c, NEW lg, NEW rd, NEW f, NEW q, NEW d2, NEW c2, NEW ch,
         lg \in Logs, Sees(s, p, d, c, lg, rd), q \in Pipes, Left(p, f, q), Informed(s, q, d2, c2, lg),
         AllApplied(d2), d2.seen <= d.seen \/ d2.seen <= f.seq, After(f, d, c, d2, c2, lg),
         Fits(d2, c2, lg)
  PROVE  /\ Sees(s, q, d2, c2, lg, rd)
         /\ Told(s, p, d, c, lg, rd, ch) => Told(s, q, d2, c2, lg, rd, ch)
<1>1. /\ StreamTyped(s) /\ p \in Pipes /\ Ordered(s, p, d.seen, Len(lg)) /\ TabTyped(d) /\ Keeps(d, lg)
      /\ d.seen \in Nat /\ d2.seen \in Nat /\ Len(lg) \in Nat
  BY SeesInformed DEF Informed, TabTyped, Logs
<1>2. Ordered(s, q, d2.seen, Len(lg))
  BY <1>1, OrderedTail
<1>3. f \in Frames /\ 1 \in DOMAIN p /\ p[1] = f /\ (IsUnread(f) <=> ~ IsSidebar(f))
  BY FrameKinds DEF Left
<1>4. \A j \in DOMAIN q : j + 1 \in DOMAIN p /\ p[j + 1] = q[j] /\ j + 1 > 1
  BY DEF Left
<1>5. ASSUME rd = {}
      PROVE  AllCorrect(s, q, d2, c2, lg, rd)
  <2>1. AllCorrect(s, p, d, c, lg, rd)
    BY <1>5 DEF Sees
  <2>2. TabShows(d2, c2, lg, rd)
    BY <2>1, <1>3 DEF AllCorrect, After
  <2>. QED
    BY <2>1, <2>2, <1>4 DEF AllCorrect
<1>6. ASSUME LastCorrect(p, d, c, lg, rd)
      PROVE  LastCorrect(q, d2, c2, lg, rd)
  <2>1. ASSUME NEW j \in DOMAIN q, IsSidebar(q[j]), \A k \in DOMAIN q : j < k => ~ IsSidebar(q[k])
        PROVE  Correct(q[j], lg, rd)
    <3>1. ASSUME NEW k \in DOMAIN p, j + 1 < k PROVE ~ IsSidebar(p[k])
      <4>1. k \in Nat /\ j \in Nat
        BY DEF Left
      <4>2. k - 1 \in DOMAIN q /\ q[k - 1] = p[k] /\ j < k - 1
        BY <3>1, <4>1 DEF Left
      <4>. QED
        BY <4>2, <2>1
    <3>. QED
      BY <3>1, <2>1, <1>4, <1>6 DEF LastCorrect
  <2>2. ASSUME \A j \in DOMAIN q : ~ IsSidebar(q[j])
        PROVE  TabShows(d2, c2, lg, rd)
    <3>1. \A k \in DOMAIN p : k = 1 \/ ~ IsSidebar(p[k])
      BY <2>2 DEF Left
    <3>2. \A k \in DOMAIN p : k \in Nat
      BY DEF Left
    <3>3. CASE IsUnread(f)
      BY <3>1, <3>3, <1>3, <1>6 DEF LastCorrect, After
    <3>4. CASE ~ IsUnread(f)
      <4>1. \A k \in DOMAIN p : 1 < k => ~ IsSidebar(p[k])
        BY <3>1
      <4>2. Correct(f, lg, rd)
        BY <4>1, <3>4, <1>3, <1>6 DEF LastCorrect
      <4>. QED
        BY <4>2, <3>4 DEF After
    <3>. QED
      BY <3>3, <3>4
  <2>. QED
    BY <2>1, <2>2 DEF LastCorrect
<1>7. Told(s, p, d, c, lg, rd, ch) => Told(s, q, d2, c2, lg, rd, ch)
  BY <1>6 DEF Told
<1>8. Counts(s, q, d2, c2, lg)
  <2>1. Counts(s, p, d, c, lg)
    BY DEF Sees
  <2>2. Recounts(s, q, lg)
    BY <2>1, <1>4 DEF Counts, Recounts
  <2>3. \E b : TabShows(d2, c2, lg, b)
    BY <2>1, <1>3 DEF Counts, Recounts, After
  <2>. QED
    BY <2>2, <2>3 DEF Counts
<1>9. Sees(s, q, d2, c2, lg, rd)
  BY <1>1, <1>2, <1>5, <1>8 DEF Sees, Informed
<1>. QED
  BY <1>7, <1>9

(* A tab that cannot be trusted promises nothing.                          *)
LEMMA Untrusted ==
  ASSUME NEW s, NEW q, NEW d, NEW c \in Nat, NEW lg, TabTyped(d), Keeps(d, lg), ~ Trusted(d)
  PROVE  /\ Informed(s, q, d, c, lg) /\ AllApplied(d)
         /\ \A f, e, c1 : After(f, e, c1, d, c, lg)
         /\ \A e, c1 : Still(e, c1, d, c, lg)
BY DEF Informed, AllApplied, After, Still, TabShows, Trusted

(* What a tab can have received by the time an unread frame is there.      *)
LEMMA ReachedUnread ==
  ASSUME NEW s, NEW p \in Pipes, NEW q \in Pipes, NEW d, NEW f, NEW n \in Nat, NEW d2,
         StreamTyped(s), TabTyped(d), Ordered(s, p, d.seen, n), Left(p, f, q), IsUnread(f),
         d2.seen = Newest(d, f.seq), NEW m \in Nat, Reached(s, q, d2, m)
  PROVE  Reached(s, p, d, m) \/ m = f.seq
<1>1. /\ s.at # "off" /\ s.pos \in Nat /\ Rising(p, s.pos)
      /\ f \in Frames /\ f.seq \in Nat /\ d.seen \in Nat /\ 1 \in DOMAIN p /\ p[1] = f
  BY FrameKinds DEF Left, Ordered, StreamTyped, Off, TabTyped
<1>2. f.seq <= s.pos
  BY <1>1 DEF Rising
<1>3. CASE m <= d.seen
  BY <1>3 DEF Reached
<1>4. CASE m <= f.seq
  <2>1. ASSUME NEW k \in DOMAIN p, IsUnread(p[k]), p[k].seq = m
        PROVE  m = f.seq
    <3>1. CASE k = 1
      BY <3>1, <2>1, <1>1
    <3>2. CASE k # 1
      <4>1. 1 < k
        BY <3>2 DEF Left
      <4>2. f.seq < m
        BY <4>1, <2>1, <1>1 DEF Rising
      <4>. QED
        BY <4>2, <1>1, <1>4
    <3>. QED
      BY <3>1, <3>2
  <2>2. m <= s.pos
    BY <1>1, <1>2, <1>4
  <2>. QED
    BY <2>1, <2>2, <1>1 DEF Reached, Coming
<1>5. CASE m <= s.pos /\ ~ Coming(q, m)
  <2>1. ASSUME NEW k \in DOMAIN p, IsUnread(p[k]), p[k].seq = m
        PROVE  m = f.seq
    <3>1. CASE k = 1
      BY <3>1, <2>1, <1>1
    <3>2. CASE k # 1
      <4>1. k - 1 \in DOMAIN q /\ q[k - 1] = p[k]
        BY <3>2 DEF Left
      <4>. QED
        BY <4>1, <2>1, <1>5 DEF Coming
    <3>. QED
      BY <3>1, <3>2
  <2>. QED
    BY <2>1, <1>1, <1>5 DEF Reached, Coming
<1>. QED
  BY <1>1, <1>3, <1>4, <1>5 DEF Reached, Newest

(* Nothing above a recount can have been received before it.               *)
LEMMA ReachedSidebar ==
  ASSUME NEW s, NEW p \in Pipes, NEW q \in Pipes, NEW f, NEW d, NEW n \in Nat, NEW seen,
         StreamTyped(s), Ordered(s, p, seen, n), Left(p, f, q), IsSidebar(f), d.seen = f.seq,
         NEW m \in Nat, f.seq < m
  PROVE  ~ Reached(s, q, d, m)
<1>1. /\ s.at # "off" /\ RestAfter(p, s.pos) /\ f \in Frames /\ f.seq \in Nat
      /\ 1 \in DOMAIN p /\ p[1] = f
  BY FrameKinds DEF Left, Ordered
<1>2. ASSUME m <= s.pos PROVE Coming(q, m)
  <2>1. PICK k \in DOMAIN p : 1 < k /\ IsUnread(p[k]) /\ p[k].seq = m
    BY <1>1, <1>2 DEF RestAfter
  <2>2. k # 1
    BY <2>1 DEF Left
  <2>3. k - 1 \in DOMAIN q /\ q[k - 1] = p[k]
    BY <2>2 DEF Left
  <2>. QED
    BY <2>1, <2>3 DEF Coming
<1>. QED
  BY <1>1, <1>2 DEF Reached

LEMMA KeptAlong ==
  ASSUME NEW d, NEW lg, Keeps(d, lg), NEW d2, NEW se, NEW re, NEW lo, NEW rq,
         Fields(d2, d.snapshot, se, re, lo, rq, d.events), TabTyped(d), se \in Nat, d.seen <= se,
         se <= Len(lg), rq.losses <= lo
  PROVE  Keeps(d2, lg)
<1>1. \A e \in d.events : e.seq \in Nat
  BY DEF TabTyped, Events
<1>2. d2.snapshot <= d2.seen /\ d2.seen <= Len(lg)
  BY DEF Keeps, Fields, TabTyped
<1>3. \A e \in d2.events : e.seq <= d2.seen
  BY <1>1 DEF Keeps, Fields, TabTyped
<1>. QED
  BY <1>2, <1>3 DEF Keeps, Fields

(* A tab that observes a frame.                                            *)
LEMMA Observed ==
  ASSUME NEW d, NEW lg \in Logs, TabTyped(d), Keeps(d, lg), NEW seq \in Nat, seq <= Len(lg)
  PROVE  /\ TabTyped(observe(d, seq)) /\ Keeps(observe(d, seq), lg)
         /\ observe(d, seq).seen <= d.seen \/ observe(d, seq).seen <= seq
<1>1. /\ TabTyped(observe(d, seq))
      /\ Fields(observe(d, seq), d.snapshot, Newest(d, seq), d.recovering, d.losses, d.request, d.events)
  BY ObserveIs
<1>2. Newest(d, seq) \in Nat /\ d.seen <= Newest(d, seq) /\ Newest(d, seq) <= Len(lg)
      /\ (Newest(d, seq) <= d.seen \/ Newest(d, seq) <= seq)
  BY DEF Newest, TabTyped, Keeps, Logs
<1>3. Keeps(observe(d, seq), lg)
  BY <1>1, <1>2, KeptAlong DEF Keeps
<1>. QED
  BY <1>1, <1>2, <1>3 DEF Fields

(* A tab that loses something cannot be trusted until a request that it    *)
(* sends later is answered.                                                *)
Wary(d) == d.recovering /\ d.request.losses < d.losses

LEMMA WaryIsUntrusted ==
  ASSUME NEW d, TabTyped(d), Wary(d)
  PROVE  ~ Trusted(d)
BY DEF Wary, Trusted, TabTyped, Resyncs

LEMMA Loses ==
  ASSUME NEW d, NEW lg, TabTyped(d), Keeps(d, lg)
  PROVE  /\ TabTyped(loss(d)) /\ Keeps(loss(d), lg) /\ Wary(loss(d)) /\ loss(d).seen = d.seen
         /\ loss(d).events = d.events /\ (Waits(loss(d)) <=> Waits(d))
<1>1. /\ TabTyped(loss(d))
      /\ Fields(loss(d), d.snapshot, d.seen, TRUE, d.losses + 1, d.request, d.events)
  BY LossIs
<1>2. /\ d.losses \in Nat /\ d.request.losses \in Nat /\ d.request.losses <= d.losses
      /\ d.snapshot \in Nat /\ d.seen \in Nat /\ d.seen <= Len(lg)
  BY DEF TabTyped, Resyncs, Keeps
<1>3. d.request.losses <= d.losses + 1 /\ d.request.losses < d.losses + 1
  BY <1>2
<1>4. Keeps(loss(d), lg)
  BY <1>1, <1>2, <1>3 DEF Keeps, Fields
<1>5. loss(d).events = d.events /\ (Waits(loss(d)) <=> Waits(d))
  BY <1>1 DEF Fields, Waits
<1>. QED
  BY <1>1, <1>3, <1>4, <1>5 DEF Fields, Wary

(* An answer or a recount does not make it trustworthy.                    *)
LEMMA StaysWary ==
  ASSUME NEW d, NEW lg, TabTyped(d), Keeps(d, lg), Wary(d)
  PROVE  /\ TabTyped(complete(received(d))) /\ Keeps(complete(received(d)), lg)
         /\ ~ Trusted(complete(received(d))) /\ complete(received(d)).seen = d.seen
         /\ complete(received(d)).events = d.events /\ (Waits(complete(received(d))) <=> Waits(d))
<1>1. PICK r : r = received(d)
  OBVIOUS
<1>2. PICK rq : TabTyped(r) /\ Fields(r, d.snapshot, d.seen, d.recovering, d.losses, rq, d.events)
                /\ rq.losses = d.request.losses /\ (Waits(r) <=> Waits(d))
  BY <1>1, NotedIs
<1>3. PICK k : k = complete(r)
  OBVIOUS
<1>4. /\ d.losses \in Nat /\ d.request.losses \in Nat /\ d.request.losses < d.losses /\ d.recovering
      /\ d.snapshot \in Nat /\ d.seen \in Nat /\ d.seen <= Len(lg)
  BY DEF TabTyped, Resyncs, Keeps, Wary
<1>5. r.recovering /\ r.losses = d.losses /\ r.request.losses = d.request.losses
  BY <1>2, <1>4 DEF Fields
<1>6. Keeps(r, lg)
  BY <1>2, <1>4 DEF Keeps, Fields
<1>7. TabTyped(k) /\ (Waits(k) <=> Waits(r))
  BY <1>2, <1>3, CompleteIs
<1>8. CASE k = r
  <2>1. Wary(r)
    BY <1>4, <1>5 DEF Wary
  <2>. QED
    BY <1>1, <1>2, <1>3, <1>6, <1>8, <2>1, WaryIsUntrusted DEF Fields
<1>9. CASE k # r
  <2>1. /\ Fields(k, r.snapshot, r.seen, k.recovering, r.losses, NoRequest, r.events)
        /\ ~ k.recovering => r.request.losses = r.losses
    BY <1>2, <1>3, <1>9, CompleteIs
  <2>2. k.recovering /\ k.request = NoRequest
    BY <2>1, <1>4, <1>5 DEF Fields
  <2>3. ~ Trusted(k)
    BY <2>2 DEF Trusted, NoRequest
  <2>4. NoRequest.losses <= d.losses
    BY <1>4 DEF NoRequest
  <2>5. Keeps(k, lg)
    BY <2>1, <2>4, <1>5, <1>6 DEF Keeps, Fields
  <2>6. k.seen = d.seen /\ k.events = d.events
    BY <1>2, <2>1 DEF Fields
  <2>. QED
    BY <1>1, <1>2, <1>3, <1>7, <2>3, <2>5, <2>6
<1>. QED
  BY <1>8, <1>9

(* A frame is lost: an unread frame, or a sidebar that may be shown first. *)
LEMMA LostSees ==
  ASSUME NEW s, NEW p, NEW d, NEW c, NEW lg, NEW rd, NEW f, NEW q, NEW e, NEW d2, NEW c2 \in Nat, NEW ch,
         c2 <= Len(lg), lg \in Logs, Sees(s, p, d, c, lg, rd), q \in Pipes, Left(p, f, q),
         e \in {d, observe(d, f.seq)}, d2 \in {loss(e), complete(received(loss(e)))}
  PROVE  /\ Sees(s, q, d2, c2, lg, rd)
         /\ Told(s, p, d, c, lg, rd, ch) => Told(s, q, d2, c2, lg, rd, ch)
         /\ Waits(d2) <=> Waits(d)
<1>1. /\ StreamTyped(s) /\ p \in Pipes /\ Ordered(s, p, d.seen, Len(lg)) /\ TabTyped(d) /\ Keeps(d, lg)
      /\ d.seen \in Nat /\ Len(lg) \in Nat /\ Cardinality(d.events) <= Limit
  BY SeesInformed DEF TabTyped, Logs
<1>2. f.seq <= Len(lg)
  BY <1>1, OrderedTail
<1>3. f.seq \in Nat
  BY FrameKinds DEF Left
<1>4. /\ TabTyped(e) /\ Keeps(e, lg)
      /\ e.seen <= d.seen \/ e.seen <= f.seq
      /\ e.events = d.events /\ e.request = d.request
  <2>1. CASE e = d
    BY <1>1, <2>1
  <2>2. CASE e = observe(d, f.seq)
    BY <1>1, <1>2, <1>3, <2>2, Observed, ObserveIs DEF Fields
  <2>. QED
    BY <2>1, <2>2
<1>5. PICK w : w = loss(e)
  OBVIOUS
<1>6. TabTyped(w) /\ Keeps(w, lg) /\ Wary(w) /\ w.seen = e.seen
      /\ w.events = e.events /\ (Waits(w) <=> Waits(e))
  BY <1>4, <1>5, Loses
<1>7. TabTyped(d2) /\ Keeps(d2, lg) /\ ~ Trusted(d2) /\ d2.seen = e.seen
      /\ d2.events = d.events /\ (Waits(d2) <=> Waits(e))
  <2>1. CASE d2 = w
    BY <1>4, <1>6, <2>1, WaryIsUntrusted
  <2>2. CASE d2 = complete(received(w))
    BY <1>4, <1>6, <2>2, StaysWary
  <2>. QED
    BY <1>5, <2>1, <2>2
<1>8. Informed(s, q, d2, c2, lg) /\ AllApplied(d2) /\ After(f, d, c, d2, c2, lg)
  BY <1>7, Untrusted
<1>9. d2.seen <= d.seen \/ d2.seen <= f.seq
  BY <1>4, <1>7
<1>10. Fits(d2, c2, lg)
  BY <1>1, <1>7 DEF Fits
<1>11. Waits(d2) <=> Waits(d)
  BY <1>4, <1>7 DEF Waits
<1>. QED
  BY <1>8, <1>9, <1>10, <1>11, FrameSees

(* An unread frame that the tab has no use for: it is in the snapshot, or  *)
(* retained.                                                               *)
LEMMA IgnoredSees ==
  ASSUME NEW s, NEW p, NEW d, NEW c, NEW lg, NEW rd, NEW f, NEW q, NEW o, NEW ch,
         lg \in Logs, Sees(s, p, d, c, lg, rd), q \in Pipes, Left(p, f, q), IsUnread(f),
         o = observe(d, f.seq), ignored(o, f.seq)
  PROVE  /\ Sees(s, q, o, c, lg, rd)
         /\ Told(s, p, d, c, lg, rd, ch) => Told(s, q, o, c, lg, rd, ch)
         /\ Waits(o) <=> Waits(d)
<1>1. /\ StreamTyped(s) /\ p \in Pipes /\ Ordered(s, p, d.seen, Len(lg)) /\ TabTyped(d) /\ Keeps(d, lg)
      /\ d.seen \in Nat /\ Len(lg) \in Nat /\ AllApplied(d) /\ c \in Nat /\ Informed(s, p, d, c, lg)
  BY SeesInformed DEF TabTyped, Logs
<1>2. f.seq <= Len(lg) /\ f.seq \in Nat
  BY <1>1, OrderedTail, FrameKinds DEF Left
<1>3. /\ TabTyped(o) /\ Keeps(o, lg)
      /\ o.seen <= d.seen \/ o.seen <= f.seq
  BY <1>1, <1>2, Observed
<1>4. Fields(o, d.snapshot, Newest(d, f.seq), d.recovering, d.losses, d.request, d.events)
  BY <1>1, <1>2, ObserveIs
<1>5. \A m \in Nat : Reached(s, q, o, m) => Reached(s, p, d, m) \/ m = f.seq
  BY <1>1, <1>4, ReachedUnread DEF Fields
<1>6. o.snapshot \in Nat
  BY <1>3 DEF TabTyped
<1>7. Trusted(o) => Complete(s, q, o)
  <2>. SUFFICES ASSUME Trusted(d), NEW m \in Nat, d.snapshot < m, Reached(s, q, o, m)
                PROVE  Has(d, m)
    BY <1>4 DEF Trusted, Complete, Has, Fields
  <2>1. CASE Reached(s, p, d, m)
    BY <2>1, <1>1 DEF Informed, Complete
  <2>2. CASE m = f.seq
    BY <2>2, <1>2, <1>4, <1>6 DEF ignored, Has, Fields
  <2>. QED
    BY <2>1, <2>2, <1>5
<1>8. Informed(s, q, o, c, lg)
  BY <1>1, <1>3, <1>7 DEF Informed
<1>9. AllApplied(o)
  BY <1>1, <1>4 DEF AllApplied, Fields
<1>10. After(f, d, c, o, c, lg)
  BY <1>4 DEF After, TabShows, Shows, Trusted, AppliedIn, Fields
<1>11. Fits(o, c, lg)
  BY <1>4, SeesInformed DEF Fits, Fields
<1>12. Waits(o) <=> Waits(d)
  BY <1>4 DEF Waits, Fields
<1>. QED
  BY <1>3, <1>8, <1>9, <1>10, <1>11, <1>12, FrameSees

(* One that is retained, if the retention was full instead of the others.  *)
LEMMA RoomIs ==
  ASSUME NEW o, TabTyped(o)
  PROVE  /\ TabTyped(room(o))
         /\ \/ ~ overflows(o) /\ room(o) = o
            \/ Fields(room(o), o.snapshot, o.seen, TRUE, o.losses + 1, o.request, {})
<1>1. CASE overflows(o)
  <2>1. PICK through : through = Max({event.seq : event \in o.events})
    OBVIOUS
  <2>2. PICK e : e = [o EXCEPT !.events = {}]
    OBVIOUS
  <2>3. room(o) = lossThrough(e, through)
    BY <1>1, <2>1, <2>2, Zenon DEF room
  <2>4. TabTyped(e) /\ Fields(e, o.snapshot, o.seen, o.recovering, o.losses, o.request, {})
    <3>1. {} \subseteq Events /\ 0 \in Nat
      OBVIOUS
    <3>. QED
      BY <3>1, <2>2, EventsAre
  <2>5. /\ TabTyped(room(o))
        /\ Fields(room(o), e.snapshot, e.seen, TRUE, e.losses + 1, e.request, e.events)
    BY <2>3, <2>4, LossThroughIs
  <2>. QED
    BY <2>4, <2>5 DEF Fields
<1>2. CASE ~ overflows(o)
  BY <1>2 DEF room
<1>. QED
  BY <1>1, <1>2

Retains(o, f, lg, k) == k = retain(room(o), f.seq, lg[f.seq] = "other")

LEMMA RetainedSees ==
  ASSUME NEW s, NEW p, NEW d, NEW c, NEW lg, NEW rd, NEW f, NEW q, NEW o, NEW k, NEW d2, NEW c2, NEW ch,
         lg \in Logs, Sees(s, p, d, c, lg, rd), q \in Pipes, Left(p, f, q), IsUnread(f),
         o = observe(d, f.seq), ~ ignored(o, f.seq), Retains(o, f, lg, k), Adds(k, c, d2, c2)
  PROVE  /\ Sees(s, q, d2, c2, lg, rd)
         /\ Told(s, p, d, c, lg, rd, ch) => Told(s, q, d2, c2, lg, rd, ch)
         /\ Waits(d2) <=> Waits(d)
<1>1. /\ StreamTyped(s) /\ p \in Pipes /\ Ordered(s, p, d.seen, Len(lg)) /\ TabTyped(d) /\ Keeps(d, lg)
      /\ d.seen \in Nat /\ Len(lg) \in Nat /\ AllApplied(d) /\ c \in Nat /\ Informed(s, p, d, c, lg)
      /\ d.losses \in Nat /\ d.request.losses \in Nat
  BY SeesInformed DEF TabTyped, Logs, Resyncs
<1>2. f.seq <= Len(lg) /\ f.seq \in Nat \ {0}
  <2>1. f \in Frames
    BY DEF Left
  <2>2. f.seq \in Nat \ {0}
    BY <2>1, FrameKinds
  <2>3. f.seq <= Len(lg)
    BY <1>1, OrderedTail
  <2>. QED
    BY <2>2, <2>3
<1>3. /\ TabTyped(o) /\ Keeps(o, lg)
      /\ o.seen <= d.seen \/ o.seen <= f.seq
  BY <1>1, <1>2, Observed
<1>4. Fields(o, d.snapshot, Newest(d, f.seq), d.recovering, d.losses, d.request, d.events)
  BY <1>1, <1>2, ObserveIs
<1>5. \A m \in Nat : Reached(s, q, o, m) => Reached(s, p, d, m) \/ m = f.seq
  BY <1>1, <1>2, <1>4, ReachedUnread DEF Fields
<1>6. o.snapshot < f.seq /\ \A e \in o.events : e.seq # f.seq
  BY <1>2, <1>3 DEF ignored, TabTyped
<1>7. f.seq <= o.seen
  BY <1>1, <1>2, <1>4 DEF Fields, Newest
<1>. DEFINE x == [seq |-> f.seq, eligible |-> (lg[f.seq] = "other"), applied |-> FALSE]
            r == room(o)
<1>8. x \in Events
  BY <1>2 DEF Events
<1>9. x.seq = f.seq /\ (x.eligible <=> lg[f.seq] = "other") /\ ~ x.applied
  OBVIOUS
<1>10. /\ TabTyped(r)
       /\ \/ r = o
          \/ Fields(r, o.snapshot, o.seen, TRUE, o.losses + 1, o.request, {})
  BY <1>3, RoomIs
<1>11. k = [r EXCEPT !.events = r.events \cup {x}]
  BY Zenon DEF retain, Retains
<1>. HIDE DEF x, r
<1>12. TabTyped(k) /\ Fields(k, r.snapshot, r.seen, r.recovering, r.losses, r.request, r.events \cup {x})
  <2>1. PICK ev : ev = r.events \cup {x}
    OBVIOUS
  <2>2. ev \subseteq Events /\ 0 \in Nat
    BY <2>1, <1>8, <1>10 DEF TabTyped
  <2>3. /\ TabTyped([r EXCEPT !.events = ev])
        /\ Fields([r EXCEPT !.events = ev], r.snapshot, r.seen, r.recovering, r.losses, r.request, ev)
    BY <2>2, <1>10, EventsAre
  <2>. QED
    BY <2>1, <2>3, <1>11, Zenon
<1>13. IsFiniteSet(r.events) /\ r.events \subseteq o.events
  BY <1>3, <1>10, FS_EmptySet DEF Keeps, Fields
<1>14. IsFiniteSet(r.events \cup {x})
  BY <1>13, FS_AddElement
<1>15. r.snapshot = o.snapshot /\ r.seen = o.seen /\ r.request = o.request
  BY <1>10 DEF Fields
<1>16. r.request.losses <= r.losses
  <2>1. o.request.losses <= o.losses
    BY <1>3 DEF Keeps
  <2>2. o.losses = d.losses /\ o.request = d.request
    BY <1>4 DEF Fields
  <2>3. r.losses = o.losses \/ r.losses = o.losses + 1
    BY <1>10 DEF Fields
  <2>. QED
    BY <2>1, <2>2, <2>3, <1>1, <1>15
<1>17. Keeps(k, lg)
  <2>1. ASSUME NEW e \in k.events
        PROVE  /\ k.snapshot < e.seq /\ e.seq <= k.seen
               /\ e.eligible <=> lg[e.seq] = "other"
               /\ e.applied => e.eligible
    <3>1. e \in o.events \/ e = x
      BY <1>12, <1>13 DEF Fields
    <3>2. k.snapshot = o.snapshot /\ k.seen = o.seen
      BY <1>12, <1>15 DEF Fields
    <3>3. CASE e \in o.events
      BY <3>2, <3>3, <1>3 DEF Keeps
    <3>4. CASE e = x
      BY <3>2, <3>4, <1>6, <1>7, <1>9
    <3>. QED
      BY <3>1, <3>3, <3>4
  <2>2. \A e, g \in k.events : e.seq = g.seq => e = g
    <3>1. \A e \in k.events : e \in o.events \/ e = x
      BY <1>12, <1>13 DEF Fields
    <3>. QED
      BY <3>1, <1>3, <1>6, <1>9 DEF Keeps
  <2>3. k.snapshot <= k.seen /\ k.seen <= Len(lg) /\ k.request.losses <= k.losses
    BY <1>3, <1>12, <1>15, <1>16 DEF Keeps, Fields
  <2>. QED
    BY <2>1, <2>2, <2>3, <1>12, <1>14 DEF Keeps, Fields
<1>18. /\ Informed(s, q, k, c, lg)
       /\ \A b : TabShows(d, c, lg, b) => TabShows(k, c, lg, b)
  <2>1. CASE r = o
    <3>1. Trusted(k) <=> Trusted(d)
      BY <2>1, <1>4, <1>12 DEF Trusted, Fields
    <3>2. AppliedIn(k) = AppliedIn(d)
      BY <2>1, <1>4, <1>9, <1>12 DEF AppliedIn, Fields
    <3>3. \A b : TabShows(d, c, lg, b) => TabShows(k, c, lg, b)
      <4>1. k.snapshot = d.snapshot
        BY <1>4, <1>12, <1>15 DEF Fields
      <4>. QED
        BY <3>1, <3>2, <4>1 DEF TabShows, Shows
    <3>4. Trusted(k) => Complete(s, q, k)
      <4>. SUFFICES ASSUME Trusted(d), NEW m \in Nat, d.snapshot < m, Reached(s, q, k, m)
                    PROVE  Has(k, m)
        BY <3>1, <1>4, <1>12, <1>15 DEF Complete, Fields
      <4>1. Reached(s, q, o, m)
        BY <1>12, <1>15 DEF Reached, Fields
      <4>2. CASE Reached(s, p, d, m)
        <5>1. Has(d, m)
          BY <4>2, <1>1 DEF Informed, Complete
        <5>. QED
          BY <5>1, <2>1, <1>4, <1>12 DEF Has, Fields
      <4>3. CASE m = f.seq
        BY <4>3, <1>9, <1>12 DEF Has, Fields
      <4>. QED
        BY <4>1, <4>2, <4>3, <1>5
    <3>. QED
      BY <3>3, <3>4, <1>1, <1>12, <1>17 DEF Informed
  <2>2. CASE Fields(r, o.snapshot, o.seen, TRUE, o.losses + 1, o.request, {})
    <3>1. k.recovering /\ k.losses = d.losses + 1 /\ k.request.losses <= d.losses
      BY <2>2, <1>1, <1>4, <1>12 DEF Fields, Keeps
    <3>2. k.request.losses \in Nat
      BY <1>12 DEF TabTyped, Resyncs
    <3>3. Wary(k)
      BY <3>1, <3>2, <1>1 DEF Wary
    <3>4. ~ Trusted(k)
      BY <3>3, <1>12, WaryIsUntrusted
    <3>. QED
      BY <3>4, <1>1, <1>12, <1>17 DEF Informed, TabShows
  <2>. QED
    BY <2>1, <2>2, <1>10
<1>19. /\ Informed(s, q, d2, c2, lg) /\ AllApplied(d2) /\ d2.seen = k.seen
       /\ Still(k, c, d2, c2, lg)
  BY <1>18, Applies
<1>20. After(f, d, c, d2, c2, lg)
  BY <1>18, <1>19 DEF After, Still
<1>21. d2.seen <= d.seen \/ d2.seen <= f.seq
  BY <1>3, <1>12, <1>15, <1>19 DEF Fields
<1>22. Cardinality(d.events) <= Limit /\ c <= Len(lg) /\ \E b : TabShows(d, c, lg, b)
  BY SeesInformed DEF Counts
<1>23. Cardinality(k.events) <= Limit
  <2>1. k.events = r.events \cup {x}
    BY <1>12 DEF Fields
  <2>2. Cardinality(r.events) \in Nat /\ Cardinality(r.events \cup {x}) <= Cardinality(r.events) + 1
    <3>1. Cardinality(r.events) \in Nat
      BY <1>13, FS_CardinalityType
    <3>2. Cardinality(r.events \cup {x}) = IF x \in r.events THEN Cardinality(r.events) ELSE Cardinality(r.events) + 1
      BY <1>13, FS_AddElement
    <3>. QED
      BY <3>1, <3>2
  <2>3. Cardinality(r.events) + 1 <= Limit
    <3>1. Limit \in Nat \ {0}
      BY LiveCountsAssumption
    <3>2. CASE r.events = {}
      <4>1. Cardinality(r.events) = 0
        BY <3>2, FS_EmptySet
      <4>. QED
        BY <3>1, <4>1
    <3>3. CASE r.events # {}
      <4>1. ~ overflows(o) /\ r = o
        BY <3>3, <1>3, RoomIs DEF r, Fields
      <4>2. Cardinality(r.events) # Limit /\ r.events = d.events
        BY <4>1, <1>4 DEF overflows, Fields
      <4>. QED
        BY <2>2, <3>1, <4>2, <1>22
    <3>. QED
      BY <3>2, <3>3
  <2>4. Limit \in Nat
    BY LiveCountsAssumption
  <2>5. Cardinality(r.events \cup {x}) \in Nat
    BY <1>14, FS_CardinalityType
  <2>. QED
    BY <2>1, <2>2, <2>3, <2>4, <2>5
<1>24. /\ d2.request = k.request /\ Cardinality(d2.events) <= Cardinality(k.events)
       /\ ~ Trusted(d2) => c2 = c
  BY <1>18, Applies
<1>25. Steps(d, c, d2, c2)
  <2>1. IsFiniteSet(k.events) /\ IsFiniteSet(d2.events)
    BY <1>17, <1>19 DEF Keeps, Informed
  <2>2. Cardinality(k.events) \in Nat /\ Cardinality(d2.events) \in Nat /\ Limit \in Nat
    BY <2>1, FS_CardinalityType, LiveCountsAssumption
  <2>. QED
    BY <2>2, <1>23, <1>24 DEF Steps
<1>26. Fits(d2, c2, lg)
  <2>1. PICK b : TabShows(d, c, lg, b)
    BY <1>22
  <2>2. TabShows(d2, c2, lg, b)
    BY <2>1, <1>18, <1>19 DEF Still
  <2>. QED
    BY <2>2, <1>19, <1>22, <1>25, StepFits DEF Informed
<1>27. Waits(d2) <=> Waits(d)
  <2>1. d2.request = d.request
    BY <1>4, <1>12, <1>15, <1>24 DEF Fields
  <2>. QED
    BY <2>1 DEF Waits
<1>. QED
  BY <1>19, <1>20, <1>21, <1>26, <1>27, FrameSees

(* A recount: the tab keeps nothing of what came before it.                *)
Recounted(d, f, k) == k = complete(received(snapshot(observe(d, f.seq), f.seq)))

LEMMA SidebarSees ==
  ASSUME NEW s, NEW p, NEW d, NEW c, NEW lg, NEW rd, NEW f, NEW q, NEW k, NEW d2, NEW c2, NEW ch,
         lg \in Logs, Sees(s, p, d, c, lg, rd), q \in Pipes, Left(p, f, q), IsSidebar(f),
         Recounted(d, f, k), Adds(k, f.count, d2, c2)
  PROVE  /\ Sees(s, q, d2, c2, lg, rd)
         /\ Told(s, p, d, c, lg, rd, ch) => Told(s, q, d2, c2, lg, rd, ch)
         /\ Waits(d2) <=> Waits(d)
<1>1. /\ StreamTyped(s) /\ p \in Pipes /\ Ordered(s, p, d.seen, Len(lg)) /\ TabTyped(d) /\ Keeps(d, lg)
      /\ d.seen \in Nat /\ Len(lg) \in Nat /\ AllApplied(d) /\ c \in Nat
      /\ d.losses \in Nat /\ d.request.losses \in Nat /\ d.request.losses <= d.losses
  BY SeesInformed DEF TabTyped, Logs, Resyncs, Keeps
<1>2. f \in Frames /\ f.seq \in Nat /\ f.count \in Nat /\ ~ IsUnread(f)
  BY FrameKinds DEF Left
<1>3. f.seq <= Len(lg) /\ s.at # "off"
  BY <1>1, OrderedTail
<1>4. d.seen <= f.seq
  BY <1>1, <1>3 DEF Left, Ordered, NewerThanBefore
<1>5. PICK o : o = observe(d, f.seq)
  OBVIOUS
<1>6. /\ TabTyped(o) /\ Fields(o, d.snapshot, Newest(d, f.seq), d.recovering, d.losses, d.request, d.events)
  BY <1>1, <1>2, <1>5, ObserveIs
<1>7. Newest(d, f.seq) = f.seq
  BY <1>1, <1>2, <1>4 DEF Newest
<1>8. {e \in o.events : e.seq > f.seq} = {}
  <2>. SUFFICES ASSUME NEW e \in d.events, e.seq > f.seq PROVE FALSE
    BY <1>6 DEF Fields
  <2>1. e.seq \in Nat /\ e.seq <= d.seen
    BY <1>1 DEF TabTyped, Events, Keeps
  <2>. QED
    BY <2>1, <1>1, <1>2, <1>4
<1>9. PICK ev : ev = {[event EXCEPT !.applied = FALSE] : event \in {e \in o.events : e.seq > f.seq}}
  OBVIOUS
<1>10. ev = {}
  BY <1>8, <1>9
<1>11. PICK n : n = snapshot(o, f.seq)
  OBVIOUS
<1>12. n = [o EXCEPT !.snapshot = f.seq, !.events = ev]
  BY <1>9, <1>11, Zenon DEF snapshot
<1>13. TabTyped(n) /\ Fields(n, f.seq, f.seq, d.recovering, d.losses, d.request, {})
  <2>1. ev \subseteq Events
    BY <1>10
  <2>2. TabTyped(n) /\ Fields(n, f.seq, o.seen, o.recovering, o.losses, o.request, ev)
    BY <2>1, <1>2, <1>6, <1>12, EventsAre
  <2>. QED
    BY <2>2, <1>6, <1>7, <1>10 DEF Fields
<1>14. PICK r : r = received(n)
  OBVIOUS
<1>15. PICK rq : /\ TabTyped(r) /\ Fields(r, n.snapshot, n.seen, n.recovering, n.losses, rq, n.events)
                 /\ rq.losses = n.request.losses /\ (Waits(r) <=> Waits(n))
  BY <1>13, <1>14, NotedIs
<1>16. /\ r.snapshot = f.seq /\ r.seen = f.seq /\ r.events = {}
       /\ r.losses = d.losses /\ r.request.losses = d.request.losses
  BY <1>13, <1>15 DEF Fields
<1>17. k = complete(r)
  BY <1>5, <1>11, <1>14 DEF Recounted
<1>18. TabTyped(k) /\ (Waits(k) <=> Waits(r))
  BY <1>15, <1>17, CompleteIs
<1>19. /\ k.snapshot = f.seq /\ k.seen = f.seq /\ k.events = {} /\ k.request.losses <= k.losses
  <2>1. CASE k = r
    BY <2>1, <1>1, <1>16
  <2>2. CASE k # r
    <3>1. Fields(k, r.snapshot, r.seen, k.recovering, r.losses, NoRequest, r.events)
      BY <2>2, <1>15, <1>17, CompleteIs
    <3>2. NoRequest.losses <= d.losses
      BY <1>1 DEF NoRequest
    <3>. QED
      BY <3>1, <3>2, <1>16 DEF Fields
  <2>. QED
    BY <2>1, <2>2
<1>20. IsFiniteSet({}) /\ Cardinality({}) = 0
  BY FS_EmptySet
<1>21. Keeps(k, lg)
  BY <1>2, <1>3, <1>19, <1>20 DEF Keeps
<1>22. Complete(s, q, k)
  BY <1>1, <1>19, ReachedSidebar DEF Complete
<1>23. Informed(s, q, k, f.count, lg)
  BY <1>2, <1>18, <1>21, <1>22 DEF Informed
<1>24. /\ Informed(s, q, d2, c2, lg) /\ AllApplied(d2) /\ d2.seen = k.seen
       /\ Still(k, f.count, d2, c2, lg)
  BY <1>23, Applies
<1>25. \A b : Correct(f, lg, b) => TabShows(k, f.count, lg, b)
  <2>1. AppliedIn(k) = {}
    BY <1>19 DEF AppliedIn
  <2>2. \A b : Cardinality(UnreadIn(lg, f.seq, b)) \in Nat
    BY <1>2, UnreadFinite
  <2>. QED
    BY <2>1, <2>2, <1>19, <1>20 DEF Correct, TabShows, Shows
<1>26. After(f, d, c, d2, c2, lg)
  BY <1>2, <1>24, <1>25 DEF After, Still
<1>27. d2.seen <= f.seq
  BY <1>2, <1>19, <1>24
<1>28. PICK b : Correct(f, lg, b)
  <2>1. Recounts(s, p, lg)
    BY SeesInformed DEF Counts
  <2>. QED
    BY <2>1 DEF Recounts, Left
<1>29. f.count <= Len(lg)
  BY <1>1, <1>2, <1>3, <1>28, CorrectFits
<1>30. /\ d2.request = k.request /\ Cardinality(d2.events) <= Cardinality(k.events)
       /\ ~ Trusted(d2) => c2 = f.count
  BY <1>23, Applies
<1>31. Cardinality(d2.events) <= Limit /\ Cardinality(k.events) <= Limit
  <2>1. Limit \in Nat /\ Cardinality(k.events) = 0
    BY <1>19, <1>20, LiveCountsAssumption
  <2>2. Cardinality(d2.events) \in Nat
    <3>1. IsFiniteSet(d2.events)
      BY <1>24 DEF Informed, Keeps
    <3>. QED
      BY <3>1, FS_CardinalityType
  <2>. QED
    BY <2>1, <2>2, <1>30
<1>32. Fits(d2, c2, lg)
  <2>1. TabShows(d2, c2, lg, b)
    BY <1>2, <1>26, <1>28 DEF After
  <2>2. Steps(k, f.count, d2, c2)
    BY <1>30, <1>31 DEF Steps
  <2>. QED
    BY <2>1, <2>2, <1>24, <1>29, <1>31, StepFits DEF Informed
<1>33. Waits(d2) <=> Waits(d)
  <2>1. n.request = d.request
    BY <1>13 DEF Fields
  <2>. QED
    BY <2>1, <1>15, <1>18, <1>30 DEF Waits
<1>. QED
  BY <1>24, <1>26, <1>27, <1>32, <1>33, FrameSees

-----------------------------------------------------------------------------
(* Requests for a recount.                                                 *)

Asks(d, d2) == d2 = [d EXCEPT !.request = [NoRequest EXCEPT !.open = TRUE, !.losses = d.losses]]

LEMMA DispatchSees ==
  ASSUME NEW s, NEW p, NEW d, NEW c, NEW lg \in Logs, NEW rd, NEW d2, NEW ch,
         Sees(s, p, d, c, lg, rd), Asks(d, d2)
  PROVE  /\ Sees(s, p, d2, c, lg, rd)
         /\ Told(s, p, d, c, lg, rd, ch) => Told(s, p, d2, c, lg, rd, ch)
         /\ Waits(d2)
<1>1. /\ AllApplied(d) /\ TabTyped(d) /\ c \in Nat /\ Keeps(d, lg) /\ Informed(s, p, d, c, lg)
      /\ d.losses \in Nat
  BY SeesInformed DEF TabTyped
<1>2. PICK rq : rq = [NoRequest EXCEPT !.open = TRUE, !.losses = d.losses]
  OBVIOUS
<1>3. rq \in Resyncs /\ rq.losses = d.losses /\ ~ rq.received
      /\ rq.open /\ ~ rq.success
  <2>1. PICK r : r = [NoRequest EXCEPT !.open = TRUE]
    OBVIOUS
  <2>2. r = [open |-> TRUE, losses |-> 0, received |-> FALSE, success |-> FALSE]
    BY <2>1 DEF NoRequest
  <2>3. rq = [r EXCEPT !.losses = d.losses]
    BY <2>1, <1>2, Zenon
  <2>. QED
    BY <2>2, <2>3, <1>1 DEF Resyncs
<1>4. TabTyped(d2) /\ Fields(d2, d.snapshot, d.seen, d.recovering, d.losses, rq, d.events)
  <2>1. d2 = [d EXCEPT !.request = rq]
    BY <1>2, Zenon DEF Asks
  <2>2. TRUE \in BOOLEAN
    OBVIOUS
  <2>. QED
    BY <2>1, <2>2, <1>1, <1>3, RequestIs
<1>5. Keeps(d2, lg)
  <2>1. rq.losses <= d.losses /\ d.seen \in Nat /\ d.seen <= d.seen /\ d.seen <= Len(lg)
    BY <1>1, <1>3 DEF TabTyped, Keeps
  <2>. QED
    BY <2>1, <1>1, <1>4, KeptAlong
<1>6. Trusted(d2) => Trusted(d)
  BY <1>3, <1>4 DEF Trusted, Fields
<1>7. Informed(s, p, d2, c, lg)
  BY <1>1, <1>4, <1>5, <1>6 DEF Informed, Complete, Has, Reached, Fields
<1>8. Still(d, c, d2, c, lg)
  BY <1>4, <1>6 DEF Still, TabShows, Shows, AppliedIn, Fields
<1>9. AllApplied(d2) /\ d2.seen = d.seen
  BY <1>1, <1>4 DEF AllApplied, Fields
<1>10. Steps(d, c, d2, c)
  BY <1>4 DEF Steps, Fields
<1>11. Waits(d2)
  BY <1>3, <1>4 DEF Waits, Fields, NoRequest
<1>. QED
  BY <1>7, <1>8, <1>9, <1>10, <1>11, NoFrameSees

LEMMA SucceedSees ==
  ASSUME NEW s, NEW p, NEW d, NEW c, NEW lg \in Logs, NEW rd, NEW a, NEW k, NEW d2, NEW c2, NEW ch,
         Sees(s, p, d, c, lg, rd), a = [d EXCEPT !.request.success = TRUE], k = complete(a),
         Adds(k, c, d2, c2)
  PROVE  /\ Sees(s, p, d2, c2, lg, rd)
         /\ Told(s, p, d, c, lg, rd, ch) => Told(s, p, d2, c2, lg, rd, ch)
         /\ ~ Waits(d2)
<1>1. /\ AllApplied(d) /\ TabTyped(d) /\ c \in Nat /\ Keeps(d, lg) /\ Informed(s, p, d, c, lg)
      /\ d.losses \in Nat /\ d.request.losses <= d.losses /\ d.seen \in Nat /\ d.seen <= Len(lg)
  BY SeesInformed DEF TabTyped, Keeps
<1>2. PICK rq : /\ TabTyped(a) /\ Fields(a, d.snapshot, d.seen, d.recovering, d.losses, rq, d.events)
                /\ rq.losses = d.request.losses /\ rq.received = d.request.received
                /\ ~ Waits(a)
  BY <1>1, NotedIs
<1>3. TabTyped(k) /\ ~ Waits(k)
  BY <1>2, CompleteIs
<1>4. /\ \E re, r : Fields(k, d.snapshot, d.seen, re, d.losses, r, d.events) /\ r.losses <= d.losses
      /\ Trusted(k) => Trusted(d)
  <2>1. CASE k = a
    <3>1. Fields(k, d.snapshot, d.seen, d.recovering, d.losses, rq, d.events) /\ rq.losses <= d.losses
      BY <2>1, <1>1, <1>2
    <3>2. Trusted(k) => Trusted(d)
      BY <2>1, <1>2 DEF Trusted, Fields
    <3>. QED
      BY <3>1, <3>2
  <2>2. CASE k # a
    <3>1. /\ a.request.received
          /\ Fields(k, a.snapshot, a.seen, k.recovering, a.losses, NoRequest, a.events)
          /\ ~ k.recovering => a.request.losses = a.losses
      BY <2>2, <1>2, CompleteIs
    <3>2. Fields(k, d.snapshot, d.seen, k.recovering, d.losses, NoRequest, d.events)
      BY <3>1, <1>2 DEF Fields
    <3>3. NoRequest.losses <= d.losses /\ ~ NoRequest.received
      BY <1>1 DEF NoRequest
    <3>4. Trusted(k) => ~ k.recovering
      BY <3>2, <3>3 DEF Trusted, Fields
    <3>5. ~ k.recovering => Trusted(d)
      BY <3>1, <1>2 DEF Trusted, Fields
    <3>. QED
      BY <3>2, <3>3, <3>4, <3>5
  <2>. QED
    BY <2>1, <2>2
<1>5. PICK re, r : Fields(k, d.snapshot, d.seen, re, d.losses, r, d.events) /\ r.losses <= d.losses
  BY <1>4
<1>6. Keeps(k, lg)
  <2>1. d.seen <= d.seen
    BY <1>1
  <2>. QED
    BY <2>1, <1>1, <1>5, KeptAlong
<1>7. Informed(s, p, k, c, lg)
  BY <1>1, <1>3, <1>4, <1>5, <1>6 DEF Informed, Complete, Has, Reached, Fields
<1>8. Still(d, c, k, c, lg)
  BY <1>4, <1>5 DEF Still, TabShows, Shows, AppliedIn, Fields
<1>9. /\ Informed(s, p, d2, c2, lg) /\ AllApplied(d2) /\ d2.seen = k.seen
      /\ Still(k, c, d2, c2, lg)
  BY <1>7, Applies
<1>10. Still(d, c, d2, c2, lg) /\ d2.seen = d.seen
  BY <1>5, <1>8, <1>9 DEF Still, Fields
<1>11. /\ d2.request = k.request /\ Cardinality(d2.events) <= Cardinality(k.events)
       /\ ~ Trusted(d2) => c2 = c
  BY <1>7, Applies
<1>12. Steps(d, c, d2, c2)
  <2>1. k.events = d.events
    BY <1>5 DEF Fields
  <2>2. IsFiniteSet(d.events) /\ IsFiniteSet(d2.events)
    BY <1>1, <1>9 DEF Keeps, Informed
  <2>3. Cardinality(d.events) \in Nat /\ Cardinality(d2.events) \in Nat /\ Limit \in Nat
    BY <2>2, FS_CardinalityType, LiveCountsAssumption
  <2>. QED
    BY <2>1, <2>3, <1>11 DEF Steps
<1>13. ~ Waits(d2)
  BY <1>3, <1>11 DEF Waits
<1>. QED
  BY <1>9, <1>10, <1>12, <1>13, NoFrameSees

LEMMA FailSees ==
  ASSUME NEW s, NEW p, NEW d, NEW c, NEW lg \in Logs, NEW rd, NEW d2, NEW ch,
         Sees(s, p, d, c, lg, rd), d2 = failedRequest(d)
  PROVE  /\ Sees(s, p, d2, c, lg, rd)
         /\ Told(s, p, d, c, lg, rd, ch) => Told(s, p, d2, c, lg, rd, ch)
         /\ ~ Waits(d2)
<1>1. /\ TabTyped(d) /\ c \in Nat /\ Keeps(d, lg) /\ d.losses \in Nat /\ d.seen \in Nat /\ d.seen <= Len(lg)
  BY SeesInformed DEF TabTyped, Keeps
<1>2. PICK k : k = [d EXCEPT !.request = NoRequest]
  OBVIOUS
<1>3. NoRequest \in Resyncs /\ NoRequest.losses <= d.losses
  BY <1>1 DEF NoRequest, Resyncs
<1>4. TabTyped(k) /\ Fields(k, d.snapshot, d.seen, d.recovering, d.losses, NoRequest, d.events)
  <2>1. TRUE \in BOOLEAN
    OBVIOUS
  <2>. QED
    BY <2>1, <1>1, <1>2, <1>3, RequestIs
<1>5. Keeps(k, lg)
  <2>1. d.seen <= d.seen
    BY <1>1
  <2>. QED
    BY <2>1, <1>1, <1>3, <1>4, KeptAlong
<1>6. d2 = loss(k)
  BY <1>2, Zenon DEF failedRequest
<1>7. TabTyped(d2) /\ Keeps(d2, lg) /\ Wary(d2) /\ d2.seen = d.seen
  BY <1>4, <1>5, <1>6, Loses DEF Fields
<1>9. d2.events = d.events /\ ~ Waits(d2)
  <2>1. ~ Waits(k)
    BY <1>4 DEF Waits, Fields
  <2>. QED
    BY <2>1, <1>4, <1>5, <1>6, Loses DEF Fields
<1>10. Steps(d, c, d2, c)
  BY <1>9 DEF Steps
<1>8. Informed(s, p, d2, c, lg) /\ AllApplied(d2) /\ Still(d, c, d2, c, lg)
  BY <1>1, <1>7, WaryIsUntrusted, Untrusted
<1>. QED
  BY <1>7, <1>8, <1>9, <1>10, NoFrameSees

-----------------------------------------------------------------------------
(* A tab that has everything up to n, and is not recovering, shows what is *)
(* unread up to n.                                                         *)
LEMMA ShowsExactly ==
  ASSUME NEW d, NEW c, NEW lg \in Logs, NEW rd, NEW n \in Nat, TabTyped(d), Keeps(d, lg), AllApplied(d),
         ~ d.recovering, Shows(d, c, lg, rd), d.snapshot <= n, n <= Len(lg),
         \A m \in Nat : d.snapshot < m /\ m <= n => Has(d, m),
         \A e \in d.events : e.seq <= n
  PROVE  c = Cardinality(UnreadIn(lg, n, rd))
<1>. DEFINE old == UnreadIn(lg, d.snapshot, rd)
            all == UnreadIn(lg, n, rd)
            new == {m \in all : d.snapshot < m}
            A == AppliedIn(d)
<1>1. d.snapshot \in Nat /\ d.events \subseteq Events /\ IsFiniteSet(d.events) /\ Single(d.events)
  BY DEF TabTyped, Keeps, Single
<1>2. c = Cardinality(old) + Cardinality(A) /\ rd \subseteq 1..d.snapshot
  BY DEF Shows
<1>3. IsFiniteSet(old) /\ IsFiniteSet(all) /\ Cardinality(old) \in Nat
  BY <1>1, UnreadFinite
<1>4. IsFiniteSet(new) /\ IsFiniteSet(A)
  <2>1. new \in SUBSET all /\ A \in SUBSET d.events
    BY DEF AppliedIn
  <2>. QED
    BY <2>1, <1>1, <1>3, FS_Subset
<1>5. all = old \cup new /\ old \cap new = {}
  BY <1>1 DEF UnreadIn
<1>6. \A m : m \in new <=> m \in Nat /\ d.snapshot < m /\ m <= n /\ lg[m] = "other"
  BY <1>1, <1>2 DEF UnreadIn
<1>7. \A e \in A : e \in d.events /\ e.seq \in new
  BY <1>1, <1>6 DEF AppliedIn, Keeps, Events
<1>8. \A m \in new : \E e \in A : e.seq = m
  BY <1>6 DEF Has, AppliedIn, AllApplied, Keeps
<1>9. ExistsBijection(A, new)
  <2>. DEFINE h == [e \in A |-> e.seq]
  <2>1. h \in [A -> new]
    BY <1>7
  <2>2. \A e, f \in A : h[e] = h[f] => e = f
    BY <1>1, <1>7 DEF Single
  <2>3. \A m \in new : \E e \in A : h[e] = m
    BY <1>8
  <2>. HIDE DEF h, new, A
  <2>4. h \in Injection(A, new)
    BY <2>1, <2>2 DEF Injection, IsInjective
  <2>5. h \in Surjection(A, new)
    BY <2>1, <2>3 DEF Surjection
  <2>6. h \in Bijection(A, new)
    BY <2>4, <2>5 DEF Bijection
  <2>. QED
    BY <2>6 DEF ExistsBijection
<1>. HIDE DEF old, all, new, A
<1>10. Cardinality(new) = Cardinality(A)
  BY <1>4, <1>9, FS_Bijection
<1>11. Cardinality(A) \in Nat
  BY <1>4, FS_CardinalityType
<1>12. Cardinality(all) = Cardinality(old) + Cardinality(new) - Cardinality(old \cap new)
  BY <1>3, <1>4, <1>5, FS_Union
<1>13. Cardinality(old \cap new) = 0
  BY <1>5, FS_EmptySet
<1>14. c = Cardinality(all)
  BY <1>2, <1>3, <1>10, <1>11, <1>12, <1>13
<1>. QED
  BY <1>14 DEF all

-----------------------------------------------------------------------------
(* The invariant holds at first.                                           *)

LEMMA EmptyCount == IsFiniteSet({}) /\ Cardinality({}) = 0
BY FS_EmptySet

LEMMA InitSees ==
  ASSUME NEW ch
  PROVE  /\ Sees(Off(0), << >>, unreadState(0), 0, << >>, {})
         /\ Told(Off(0), << >>, unreadState(0), 0, << >>, {}, ch) /\ Watches(Off(0), ch)
<1>. DEFINE d == unreadState(0)
            s == Off(0)
<1>1. /\ d.snapshot = 0 /\ d.seen = 0 /\ d.recovering = FALSE /\ d.losses = 0 /\ d.request = NoRequest
      /\ d.events = {}
  BY DEF unreadState
<1>2. TabTyped(d)
  <2>1. NoRequest \in Resyncs
    BY DEF NoRequest, Resyncs
  <2>2. d = [snapshot |-> 0, seen |-> 0, lostThrough |-> 0, recovering |-> FALSE, losses |-> 0,
             request |-> NoRequest, events |-> {}]
    BY DEF unreadState
  <2>. HIDE DEF d
  <2>. QED
    BY <2>1, <2>2 DEF TabTyped
<1>3. s.at = "off" /\ s.after = 0 /\ s = Off(s.after)
  BY DEF Off
<1>. HIDE DEF d, s
<1>4. StreamTyped(s) /\ << >> \in Pipes /\ << >> \in Logs /\ Len(<< >>) = 0
  BY <1>3 DEF StreamTyped, Pipes, Logs
<1>5. Ordered(s, << >>, d.seen, 0)
  BY <1>3 DEF Ordered
<1>6. Keeps(d, << >>) /\ AllApplied(d)
  BY <1>1, <1>4, EmptyCount DEF Keeps, AllApplied, NoRequest
<1>7. Complete(s, << >>, d)
  BY <1>1, <1>3 DEF Complete, Reached
<1>8. TabShows(d, 0, << >>, {})
  <2>1. UnreadIn(<< >>, d.snapshot, {}) = {} /\ AppliedIn(d) = {}
    BY <1>1 DEF UnreadIn, AppliedIn
  <2>2. Cardinality(UnreadIn(<< >>, d.snapshot, {})) = 0 /\ Cardinality(AppliedIn(d)) = 0
    BY <2>1, EmptyCount
  <2>3. Shows(d, 0, << >>, {})
    BY <2>2 DEF Shows
  <2>. QED
    BY <2>3 DEF TabShows
<1>9. AllCorrect(s, << >>, d, 0, << >>, {})
  BY <1>3, <1>8 DEF AllCorrect
<1>10. Counts(s, << >>, d, 0, << >>)
  <2>1. Limit \in Nat /\ Cardinality(d.events) = 0
    BY <1>1, EmptyCount, LiveCountsAssumption
  <2>. QED
    BY <2>1, <1>3, <1>4, <1>8 DEF Counts, Recounts, Fits
<1>11. Sees(s, << >>, d, 0, << >>, {})
  BY <1>2, <1>4, <1>5, <1>6, <1>7, <1>9, <1>10 DEF Sees
<1>12. Told(s, << >>, d, 0, << >>, {}, ch) /\ Watches(s, ch)
  BY <1>3 DEF Told, Watches
<1>. QED
  BY <1>11, <1>12 DEF s, d

LEMMA InitLInv == Init => LInv
<1>. SUFFICES ASSUME Init PROVE LInv
  OBVIOUS
<1>1. log = << >> /\ read = {} /\ landing = {} /\ reader = "idle" /\ changes = 0
  BY DEF Init
<1>2. LogTyped
  BY <1>1 DEF LogTyped, Logs
<1>3. PerTab
  BY DEF Init, PerTab
<1>4. ASSUME NEW t \in Tabs PROVE SeesTab(t) /\ WatchesTab(t) /\ ToldTab(t)
  <2>1. stream[t] = Off(0) /\ pipe[t] = << >> /\ tab[t] = unreadState(0) /\ shown[t] = 0
    BY DEF Init
  <2>. QED
    BY <1>1, <2>1, InitSees DEF SeesTab, WatchesTab, ToldTab
<1>. QED
  BY <1>2, <1>3, <1>4 DEF LInv

-----------------------------------------------------------------------------
(* Every step keeps it: what happens around the tabs,                      *)

LEMMA AroundSteps ==
  ASSUME LInv, UNCHANGED <<stream, pipe, tab, shown>>, Continues(log, log'), read \subseteq read', LogTyped',
         changes <= changes' \/ Watching = {},
         \A t \in Tabs : reader' = "idle" /\ t \notin late' =>
           \/ stream[t].at = "off" \/ changes' = changes + 1
           \/ changes' = changes /\ reader = "idle" /\ t \notin late /\ read' = read
  PROVE  LInv'
<1>1. PerTab'
  BY DEF LInv, PerTab
<1>2. ASSUME NEW t \in Tabs PROVE SeesTab(t)' /\ WatchesTab(t)' /\ ToldTab(t)'
  <2>1. SeesTab(t) /\ WatchesTab(t) /\ ToldTab(t) /\ changes \in Nat
    BY DEF LInv, LogTyped
  <2>2. stream'[t] = stream[t] /\ pipe'[t] = pipe[t] /\ tab'[t] = tab[t] /\ shown'[t] = shown[t]
    OBVIOUS
  <2>3. PICK s, p, d, c : s = stream[t] /\ p = pipe[t] /\ d = tab[t] /\ c = shown[t]
    OBVIOUS
  <2>4. PICK lg, rd, ch, ch2 : lg = log' /\ rd = read' /\ ch = changes /\ ch2 = changes'
    OBVIOUS
  <2>5. Sees(s, p, d, c, log, read) /\ Watches(s, ch)
    BY <2>1, <2>3, <2>4 DEF SeesTab, WatchesTab
  <2>6. ch \in Nat /\ ch2 \in Nat
    BY <2>1, <2>4 DEF LogTyped
  <2>7. Continues(log, lg) /\ read \subseteq rd
    BY <2>4
  <2>8. Sees(s, p, d, c, lg, rd)
    BY <2>5, <2>7, SeesAround
  <2>9. SeesTab(t)'
    BY <2>2, <2>3, <2>4, <2>8 DEF SeesTab
  <2>10. s.at = "off" \/ (s.covered \in Nat /\ s.observed \in Nat)
    BY <2>5 DEF Sees, StreamTyped, Off
  <2>11. s.at = "off" \/ ch <= ch2
    BY <2>3, <2>4 DEF Watching, On
  <2>12. Watches(s, ch2)
    BY <2>5, <2>6, <2>10, <2>11 DEF Watches
  <2>13. WatchesTab(t)'
    BY <2>2, <2>3, <2>4, <2>12 DEF WatchesTab
  <2>14. ASSUME reader' = "idle", t \notin late'
         PROVE  Told(s, p, d, c, lg, rd, ch2)
    <3>1. CASE s.at = "off"
      BY <3>1 DEF Told
    <3>2. CASE s.at # "off" /\ ch2 = ch + 1
      BY <3>2, <2>5, <2>6, <2>10 DEF Told, Watches
    <3>3. CASE ch2 = ch /\ reader = "idle" /\ t \notin late /\ read' = read
      <4>1. Told(s, p, d, c, log, read, ch)
        BY <3>3, <2>1, <2>3, <2>4 DEF ToldTab
      <4>2. Told(s, p, d, c, lg, read, ch)
        BY <4>1, <2>5, <2>7, ToldAround
      <4>. QED
        BY <4>2, <3>3, <2>4
    <3>. QED
      BY <2>14, <2>3, <2>4, <3>1, <3>2, <3>3
  <2>15. ToldTab(t)'
    BY <2>2, <2>3, <2>4, <2>14 DEF ToldTab
  <2>. QED
    BY <2>9, <2>13, <2>15
<1>. QED
  BY <1>1, <1>2 DEF LInv

LEMMA SameLog ==
  ASSUME LInv, log' = log
  PROVE  Continues(log, log')
<1>1. log \in Logs /\ Len(log) \in Nat
  BY DEF LInv, LogTyped, Logs
<1>. QED
  BY <1>1 DEF Continues

LEMMA StutterStep ==
  ASSUME LInv, UNCHANGED vars
  PROVE  LInv'
BY DEF LInv, LogTyped, PerTab, SeesTab, WatchesTab, ToldTab, vars, persistedVars, tabVars

LEMMA PostStep ==
  ASSUME LInv, NEW author \in Authors, Post(author)
  PROVE  LInv'
<1>1. /\ log' = Append(log, author)
      /\ UNCHANGED <<read, landing, reader, changes, stream, pipe, tab, shown, late>>
  BY DEF Post, tabVars
<1>2. log \in Logs /\ read \subseteq 1..Len(log) /\ landing \subseteq 1..Len(log) /\ changes \in Nat
      /\ reader \in {"idle", "committed", "unknown"}
  BY DEF LInv, LogTyped
<1>3. PICK n, lg : n = Len(log) /\ lg = log'
  OBVIOUS
<1>4. n \in Nat /\ lg \in Logs /\ Len(lg) = n + 1 /\ \A m \in 1..n : lg[m] = log[m]
  BY <1>1, <1>2, <1>3 DEF Logs
<1>5. Continues(log, lg)
  BY <1>2, <1>3, <1>4 DEF Continues
<1>6. Continues(log, log')
  BY <1>3, <1>5
<1>7. LogTyped'
  <2>1. 1..n \subseteq 1..Len(lg)
    BY <1>4
  <2>. QED
    BY <2>1, <1>1, <1>2, <1>3, <1>4 DEF LogTyped
<1>8. changes <= changes'
  BY <1>1, <1>2
<1>. QED
  BY <1>1, <1>6, <1>7, <1>8, AroundSteps

LEMMA ReadStep ==
  ASSUME LInv, NEW through \in 1..Len(log), Read(through)
  PROVE  LInv'
<1>1. /\ UNCHANGED <<log, changes, stream, pipe, tab, shown, late>>
      /\ reader' \in {"committed", "unknown"}
      /\ read' \in {read, read \cup 1..through} /\ landing' \in {{}, read \cup 1..through}
  BY DEF Read, tabVars
<1>2. log \in Logs /\ read \subseteq 1..Len(log) /\ changes \in Nat /\ Len(log) \in Nat
  BY DEF LInv, LogTyped, Logs
<1>3. read \cup 1..through \subseteq 1..Len(log)
  BY <1>2
<1>4. LogTyped'
  BY <1>1, <1>2, <1>3 DEF LogTyped
<1>5. changes <= changes' /\ read \subseteq read' /\ reader' # "idle"
  BY <1>1, <1>2
<1>. QED
  BY <1>1, <1>4, <1>5, SameLog, AroundSteps

LEMMA LandStep ==
  ASSUME LInv, Land
  PROVE  LInv'
<1>1. /\ UNCHANGED <<log, reader, changes, stream, pipe, tab, shown>>
      /\ landing' = {} /\ read' = read \cup landing
      /\ late' = IF reader = "unknown" THEN late ELSE Tabs
  BY DEF Land, tabVars
<1>2. log \in Logs /\ read \subseteq 1..Len(log) /\ landing \subseteq 1..Len(log) /\ changes \in Nat
      /\ reader \in {"idle", "committed", "unknown"}
  BY DEF LInv, LogTyped
<1>3. LogTyped'
  BY <1>1, <1>2 DEF LogTyped
<1>4. changes <= changes' /\ read \subseteq read'
  BY <1>1, <1>2
<1>5. \A t \in Tabs : ~ (reader' = "idle" /\ t \notin late')
  BY <1>1
<1>. QED
  BY <1>1, <1>3, <1>4, <1>5, SameLog, AroundSteps

(* A reading or a request that publishes tells every stream there is.      *)
LEMMA ReadChangedIs ==
  ASSUME LInv
  PROVE  /\ ReadChanged \in Nat
         /\ \/ Watching = {} /\ ReadChanged = changes /\ \A t \in Tabs : stream[t].at = "off"
            \/ ReadChanged = changes + 1
         /\ changes <= ReadChanged
<1>1. changes \in Nat
  BY DEF LInv, LogTyped
<1>. QED
  BY <1>1 DEF ReadChanged, Watching, On

LEMMA PublishStep ==
  ASSUME LInv, Publish
  PROVE  LInv'
<1>1. /\ UNCHANGED <<log, read, landing, stream, pipe, tab, shown, late>>
      /\ reader' = "idle" /\ reader # "idle"
      /\ changes' = IF Publishes THEN ReadChanged ELSE changes
  BY DEF Publish, tabVars
<1>2. log \in Logs /\ read \subseteq 1..Len(log) /\ landing \subseteq 1..Len(log) /\ changes \in Nat
      /\ reader \in {"idle", "committed", "unknown"}
  BY DEF LInv, LogTyped
<1>3. changes' = ReadChanged
  BY <1>1, <1>2 DEF Publishes
<1>4. PICK ch : ch = ReadChanged
  OBVIOUS
<1>5. /\ ch \in Nat /\ changes <= ch
      /\ (\A t \in Tabs : stream[t].at = "off") \/ ch = changes + 1
  BY <1>4, ReadChangedIs
<1>6. changes' = ch
  BY <1>3, <1>4
<1>7. LogTyped'
  BY <1>1, <1>2, <1>5, <1>6 DEF LogTyped
<1>. QED
  BY <1>1, <1>5, <1>6, <1>7, SameLog, AroundSteps

LEMMA RequestResyncStep ==
  ASSUME LInv, NEW t \in Tabs, RequestResync(t)
  PROVE  LInv'
<1>1. /\ UNCHANGED <<log, read, landing, reader, stream, pipe, tab, shown, late>>
      /\ changes' = ReadChanged
  BY DEF RequestResync, tabOnly, persistedVars
<1>2. log \in Logs /\ read \subseteq 1..Len(log) /\ landing \subseteq 1..Len(log) /\ changes \in Nat
      /\ reader \in {"idle", "committed", "unknown"}
  BY DEF LInv, LogTyped
<1>3. PICK ch : ch = ReadChanged
  OBVIOUS
<1>4. /\ ch \in Nat /\ changes <= ch
      /\ (\A u \in Tabs : stream[u].at = "off") \/ ch = changes + 1
  BY <1>3, ReadChangedIs
<1>5. changes' = ch
  BY <1>1, <1>3
<1>6. LogTyped'
  BY <1>1, <1>2, <1>4, <1>5 DEF LogTyped
<1>. QED
  BY <1>1, <1>4, <1>5, <1>6, SameLog, AroundSteps

(* the streams that end,                                                   *)
LEMMA DropsStep ==
  ASSUME LInv, NEW ts, Dropped(ts), UNCHANGED <<log, read, landing, tab, shown, late>>,
         reader' = reader \/ (Tabs \subseteq ts /\ reader' = "idle")
  PROVE  LInv'
<1>1. /\ stream' = [t \in Tabs |-> IF t \in ts THEN Off(ReceivedUpTo(t)) ELSE stream[t]]
      /\ pipe' = [t \in Tabs |-> IF t \in ts THEN << >> ELSE pipe[t]]
      /\ changes' = IF Watching \subseteq ts THEN 0 ELSE changes
  BY DEF Dropped
<1>2. log \in Logs /\ read \subseteq 1..Len(log) /\ landing \subseteq 1..Len(log) /\ changes \in Nat
      /\ reader \in {"idle", "committed", "unknown"}
  BY DEF LInv, LogTyped
<1>3. PICK ch : ch = changes'
  OBVIOUS
<1>4. ch \in Nat
  BY <1>1, <1>2, <1>3
<1>5. LogTyped'
  BY <1>2, <1>3, <1>4 DEF LogTyped
<1>6. PerTab'
  BY <1>1 DEF LInv, PerTab
<1>7. ASSUME NEW t \in Tabs PROVE SeesTab(t)' /\ WatchesTab(t)' /\ ToldTab(t)'
  <2>1. SeesTab(t) /\ WatchesTab(t) /\ ToldTab(t)
    BY DEF LInv
  <2>2. PICK s, p, d, c : s = stream[t] /\ p = pipe[t] /\ d = tab[t] /\ c = shown[t]
    OBVIOUS
  <2>3. tab'[t] = d /\ shown'[t] = c /\ Sees(s, p, d, c, log, read) /\ Watches(s, changes)
    BY <2>1, <2>2 DEF SeesTab, WatchesTab
  <2>4. CASE t \in ts
    <3>1. PICK after : after = ReceivedUpTo(t)
      OBVIOUS
    <3>2. stream'[t] = Off(after) /\ pipe'[t] = << >>
      BY <1>1, <2>4, <3>1
    <3>3. /\ after \in Nat
          /\ s.at = "off" => after = s.after
          /\ s.at # "off" => after <= s.pos /\ \A m \in 1..after : ~ Coming(p, m)
      BY <1>2, <2>1, <2>2, <3>1, ReceivedIsReached
    <3>4. /\ Sees(Off(after), << >>, d, c, log, read) /\ Told(Off(after), << >>, d, c, log, read, ch)
          /\ Watches(Off(after), ch)
      BY <1>2, <2>3, <3>3, DropSees
    <3>. QED
      BY <1>3, <2>3, <3>2, <3>4 DEF SeesTab, WatchesTab, ToldTab
  <2>5. CASE t \notin ts
    <3>1. stream'[t] = s /\ pipe'[t] = p /\ reader' = reader
      BY <1>1, <2>2, <2>5
    <3>2. ch = changes \/ s.at = "off"
      BY <1>1, <1>3, <2>2, <2>5 DEF Watching, On
    <3>3. Watches(s, ch)
      BY <2>3, <3>2 DEF Watches
    <3>4. ToldTab(t)'
      <4>1. reader = "idle" /\ t \notin late => Told(s, p, d, c, log, read, changes)
        BY <2>1, <2>2 DEF ToldTab
      <4>2. reader = "idle" /\ t \notin late => Told(s, p, d, c, log, read, ch)
        BY <4>1, <3>2 DEF Told
      <4>. QED
        BY <4>2, <1>3, <2>3, <3>1 DEF ToldTab
    <3>. QED
      BY <1>3, <2>3, <3>1, <3>3, <3>4 DEF SeesTab, WatchesTab
  <2>. QED
    BY <2>4, <2>5
<1>. QED
  BY <1>5, <1>6, <1>7 DEF LInv

(* and the steps of one tab and its stream.                                *)
Only(F, G, t) == G = [u \in Tabs |-> G[u]] /\ \A u \in Tabs : u # t => G[u] = F[u]

LEMMA OnlyAt ==
  ASSUME NEW F, F = [u \in Tabs |-> F[u]], NEW t \in Tabs, NEW x
  PROVE  Only(F, [F EXCEPT ![t] = x], t) /\ [F EXCEPT ![t] = x][t] = x /\ Only(F, F, t)
BY DEF Only

LEMMA OneTabStep ==
  ASSUME LInv, NEW t \in Tabs, UNCHANGED <<log, read, landing, reader, changes>>,
         late' = late \/ late' = late \ {t},
         Only(stream, stream', t), Only(pipe, pipe', t), Only(tab, tab', t), Only(shown, shown', t),
         NEW s, NEW p, NEW d, NEW c, s = stream'[t], p = pipe'[t], d = tab'[t], c = shown'[t],
         Sees(s, p, d, c, log, read), Watches(s, changes),
         reader = "idle" /\ t \notin late' => Told(s, p, d, c, log, read, changes)
  PROVE  LInv'
<1>1. LogTyped'
  BY DEF LInv, LogTyped
<1>2. PerTab'
  BY Zenon DEF PerTab, Only
<1>3. ASSUME NEW u \in Tabs PROVE SeesTab(u)' /\ WatchesTab(u)' /\ ToldTab(u)'
  <2>1. CASE u = t
    BY <2>1 DEF SeesTab, WatchesTab, ToldTab
  <2>2. CASE u # t
    <3>1. stream'[u] = stream[u] /\ pipe'[u] = pipe[u] /\ tab'[u] = tab[u] /\ shown'[u] = shown[u]
      BY <2>2 DEF Only
    <3>2. SeesTab(u) /\ WatchesTab(u) /\ ToldTab(u)
      BY DEF LInv
    <3>3. u \notin late' <=> u \notin late
      BY <2>2
    <3>. QED
      BY <3>1, <3>2, <3>3 DEF SeesTab, WatchesTab, ToldTab
  <2>. QED
    BY <2>1, <2>2
<1>. QED
  BY <1>1, <1>2, <1>3 DEF LInv

(* What holds of a tab, its stream and pipe before such a step.            *)
Before(t, s, p, d, c) ==
  /\ s = stream[t] /\ p = pipe[t] /\ d = tab[t] /\ c = shown[t]
  /\ log \in Logs /\ read \subseteq 1..Len(log) /\ changes \in Nat /\ PerTab
  /\ Sees(s, p, d, c, log, read) /\ Watches(s, changes)
  /\ reader = "idle" /\ t \notin late => Told(s, p, d, c, log, read, changes)
  /\ StreamTyped(s) /\ p \in Pipes /\ TabTyped(d) /\ c \in Nat

LEMMA BeforeIs ==
  ASSUME LInv, NEW t \in Tabs
  PROVE  \E s, p, d, c : Before(t, s, p, d, c)
<1>1. PICK s, p, d, c : s = stream[t] /\ p = pipe[t] /\ d = tab[t] /\ c = shown[t]
  OBVIOUS
<1>2. Sees(s, p, d, c, log, read) /\ Watches(s, changes) /\ PerTab
      /\ (reader = "idle" /\ t \notin late => Told(s, p, d, c, log, read, changes))
      /\ log \in Logs /\ read \subseteq 1..Len(log) /\ changes \in Nat
  BY <1>1 DEF LInv, LogTyped, SeesTab, WatchesTab, ToldTab
<1>3. Before(t, s, p, d, c)
  BY <1>1, <1>2 DEF Before, Sees
<1>. QED
  BY <1>3

LEMMA BeforeKnown ==
  ASSUME NEW t \in Tabs, NEW s, NEW p, NEW d, NEW c, Before(t, s, p, d, c)
  PROVE  /\ log \in Logs /\ read \subseteq 1..Len(log) /\ changes \in Nat
         /\ Sees(s, p, d, c, log, read)
BY DEF Before

(* A step of the stream to s2, and of its pipe to p2.                      *)
StreamMoves(t, s2, p2) ==
  /\ UNCHANGED <<log, read, landing, reader, changes, tab, shown>>
  /\ late' = late \/ late' = late \ {t}
  /\ stream' = [stream EXCEPT ![t] = s2] /\ pipe' = [pipe EXCEPT ![t] = p2]

LEMMA StreamStep ==
  ASSUME LInv, NEW t \in Tabs, NEW s, NEW p, NEW d, NEW c, Before(t, s, p, d, c), NEW s2, NEW p2,
         StreamMoves(t, s2, p2),
         Sees(s2, p2, d, c, log, read), Watches(s2, changes),
         reader = "idle" /\ t \notin late' => Told(s2, p2, d, c, log, read, changes)
  PROVE  LInv'
<1>1. Only(stream, stream', t) /\ stream'[t] = s2 /\ Only(pipe, pipe', t) /\ pipe'[t] = p2
  BY OnlyAt DEF Before, PerTab, StreamMoves
<1>2. Only(tab, tab', t) /\ tab'[t] = d /\ Only(shown, shown', t) /\ shown'[t] = c
  BY OnlyAt DEF Before, PerTab, StreamMoves
<1>. QED
  BY <1>1, <1>2, OneTabStep DEF StreamMoves

(* A step of the tab to d2, of its count to c2, and of the pipe to p2.     *)
TabMoves(t, p2, d2, c2) ==
  /\ UNCHANGED <<log, read, landing, reader, changes, stream, late>>
  /\ pipe' = [pipe EXCEPT ![t] = p2] \/ (pipe' = pipe /\ p2 = pipe[t])
  /\ tab' = [tab EXCEPT ![t] = d2]
  /\ shown' = [shown EXCEPT ![t] = c2] \/ (shown' = shown /\ c2 = shown[t])

LEMMA TabStep ==
  ASSUME LInv, NEW t \in Tabs, NEW s, NEW p, NEW d, NEW c, Before(t, s, p, d, c), NEW p2, NEW d2, NEW c2,
         TabMoves(t, p2, d2, c2),
         Sees(s, p2, d2, c2, log, read),
         Told(s, p, d, c, log, read, changes) => Told(s, p2, d2, c2, log, read, changes)
  PROVE  LInv'
<1>1. Only(stream, stream', t) /\ stream'[t] = s
  BY OnlyAt DEF Before, PerTab, TabMoves
<1>2. Only(pipe, pipe', t) /\ pipe'[t] = p2
  <2>1. CASE pipe' = [pipe EXCEPT ![t] = p2]
    BY <2>1, OnlyAt DEF Before, PerTab, TabMoves
  <2>2. CASE pipe' = pipe /\ p2 = pipe[t]
    BY <2>2, OnlyAt DEF Before, PerTab, TabMoves
  <2>. QED
    BY <2>1, <2>2 DEF TabMoves
<1>3. Only(tab, tab', t) /\ tab'[t] = d2
  BY OnlyAt DEF Before, PerTab, TabMoves
<1>4. Only(shown, shown', t) /\ shown'[t] = c2
  <2>1. CASE shown' = [shown EXCEPT ![t] = c2]
    BY <2>1, OnlyAt DEF Before, PerTab, TabMoves
  <2>2. CASE shown' = shown /\ c2 = shown[t]
    BY <2>2, OnlyAt DEF Before, PerTab, TabMoves
  <2>. QED
    BY <2>1, <2>2 DEF TabMoves
<1>5. Watches(s, changes) /\ (reader = "idle" /\ t \notin late' => Told(s, p2, d2, c2, log, read, changes))
  BY DEF Before, TabMoves
<1>. QED
  BY <1>1, <1>2, <1>3, <1>4, <1>5, OneTabStep DEF TabMoves

(* The step leaves the stream in this place.                               *)
StreamAfter(t, at) == \E s2 : stream' = [stream EXCEPT ![t] = s2] /\ s2.at = at

(* A running stream.                                                       *)
Runs(a, i, d, g, o, f) ==
  [at |-> a, pos |-> i, dirty |-> d, covered |-> g, observed |-> o, frame |-> f]

LEMMA SetAt ==
  ASSUME NEW F, NEW t \in Tabs, F = [u \in Tabs |-> F[u]], NEW x, NEW y, NEW G, G = [F EXCEPT ![t] = x]
  PROVE  /\ G = [u \in Tabs |-> G[u]] /\ G[t] = x
         /\ [G EXCEPT ![t] = y] = [F EXCEPT ![t] = y]
OBVIOUS

LEMMA ConnectStep ==
  ASSUME LInv, NEW t \in Tabs, Connect(t)
  PROVE  LInv' /\ StreamAfter(t, "loop")
<1>1. PICK s, p, d, c : Before(t, s, p, d, c)
  BY BeforeIs
<1>2. UNCHANGED <<log, read, landing, reader, changes, tab, shown, pipe, late>> /\ s.at = "off"
  BY <1>1 DEF Connect, On, streamOnly, persistedVars, tabVars, Before
<1>3. PICK pos \in 0..s.after :
        stream' = [stream EXCEPT ![t] = [at |-> "loop", pos |-> pos, dirty |-> TRUE,
                                         covered |-> 0, observed |-> 0, frame |-> NoFrame]]
  BY <1>1 DEF Connect, Before
<1>4. PICK s2 : s2 = [at |-> "loop", pos |-> pos, dirty |-> TRUE,
                      covered |-> 0, observed |-> 0, frame |-> NoFrame]
  OBVIOUS
<1>5. /\ Sees(s2, p, d, c, log, read) /\ Told(s2, p, d, c, log, read, changes) /\ Watches(s2, changes)
  <2>1. Begins(s, s2, pos)
    BY <1>2, <1>4 DEF Begins
  <2>2. log \in Logs /\ Sees(s, p, d, c, log, read)
    BY <1>1, BeforeKnown
  <2>. QED
    BY <1>1, <2>1, <2>2, BeforeKnown, ConnectSees
<1>6. stream' = [stream EXCEPT ![t] = s2] /\ pipe' = [pipe EXCEPT ![t] = p]
  <2>1. pipe = [u \in Tabs |-> pipe[u]] /\ p = pipe[t]
    BY <1>1 DEF Before, PerTab
  <2>. QED
    BY <2>1, <1>2, <1>3, <1>4
<1>7. StreamMoves(t, s2, p)
  BY <1>2, <1>6 DEF StreamMoves
<1>8. StreamAfter(t, "loop")
  <2>1. s2.at = "loop"
    BY <1>4
  <2>. QED
    BY <2>1, <1>6 DEF StreamAfter
<1>. QED
  BY <1>1, <1>5, <1>7, <1>8, StreamStep

LEMMA DeliverStep ==
  ASSUME LInv, NEW t \in Tabs, Deliver(t)
  PROVE  LInv' /\ StreamAfter(t, "loop")
<1>1. PICK s, p, d, c : Before(t, s, p, d, c)
  BY BeforeIs
<1>2. PICK n : n = s.pos + 1
  OBVIOUS
<1>3. PICK f : f = [kind |-> "unread", seq |-> n]
  OBVIOUS
<1>4. PICK dirty : dirty = (s.dirty \/ Triggers(n))
  OBVIOUS
<1>5. /\ UNCHANGED <<log, read, landing, reader, changes, tab, shown, late>>
      /\ s.at = "loop" /\ n <= Len(log)
      /\ stream' = [stream EXCEPT ![t].pos = n, ![t].dirty = @ \/ Triggers(n)]
      /\ pipe' = [pipe EXCEPT ![t] = Append(@, f)]
  BY <1>1, <1>2, <1>3 DEF Deliver, streamOnly, persistedVars, tabVars, Before
<1>6. s.pos \in Nat /\ s.dirty \in BOOLEAN /\ n \in Nat \ {0}
      /\ s = [at |-> s.at, pos |-> s.pos, dirty |-> s.dirty, covered |-> s.covered,
              observed |-> s.observed, frame |-> s.frame]
      /\ s.covered \in Nat /\ s.observed \in Nat /\ s.frame = NoFrame
  BY <1>1, <1>2, <1>5 DEF Before, StreamTyped, Off
<1>7. dirty \in BOOLEAN /\ (s.dirty => dirty)
  BY <1>4, <1>6
<1>8. PICK s2 : s2 = Runs(s.at, n, dirty, s.covered, s.observed, s.frame)
  OBVIOUS
<1>9. stream' = [stream EXCEPT ![t] = s2]
  <2>1. stream = [u \in Tabs |-> stream[u]] /\ stream[t] = Runs(s.at, s.pos, s.dirty, s.covered, s.observed, s.frame)
    BY <1>1, <1>6 DEF Before, PerTab, Runs
  <2>2. stream[t] = s
    BY <1>1 DEF Before
  <2>3. PICK r : r = [s EXCEPT !.pos = n]
    OBVIOUS
  <2>4. r = Runs(s.at, n, s.dirty, s.covered, s.observed, s.frame)
    BY <2>3, <1>6 DEF Runs
  <2>5. s2 = [r EXCEPT !.dirty = dirty]
    BY <2>4, <1>8 DEF Runs
  <2>6. PICK F : F = [stream EXCEPT ![t].pos = n]
    OBVIOUS
  <2>7. F = [stream EXCEPT ![t] = r]
    BY <2>2, <2>3, <2>6, Zenon
  <2>8. F = [u \in Tabs |-> F[u]] /\ F[t] = r /\ [F EXCEPT ![t] = s2] = [stream EXCEPT ![t] = s2]
    BY <2>1, <2>7, SetAt, Zenon
  <2>9. F[t].dirty = s.dirty
    BY <2>4, <2>8 DEF Runs
  <2>10. stream' = [F EXCEPT ![t].dirty = @ \/ Triggers(n)]
    BY <1>5, <2>6, Zenon
  <2>11. [F EXCEPT ![t].dirty = @ \/ Triggers(n)] = [F EXCEPT ![t].dirty = dirty]
    BY <1>4, <2>9, Zenon
  <2>12. [F EXCEPT ![t].dirty = dirty] = [F EXCEPT ![t] = s2]
    BY <2>5, <2>8, Zenon
  <2>. QED
    BY <2>8, <2>10, <2>11, <2>12, Zenon
<1>10. f \in Frames /\ IsUnread(f) /\ f.seq = s.pos + 1
  BY <1>2, <1>3, <1>6 DEF Frames, Unreads, IsUnread
<1>11. PICK q : q = Append(p, f)
  OBVIOUS
<1>12. q \in Pipes /\ Joined(p, f, q)
  BY <1>1, <1>10, <1>11, AppendJoins DEF Before
<1>13. pipe' = [pipe EXCEPT ![t] = q]
  BY <1>1, <1>5, <1>11 DEF Before
<1>14. StreamTyped(s2)
  BY <1>2, <1>5, <1>6, <1>7, <1>8 DEF StreamTyped, Runs
<1>15. /\ s2.at = "loop" /\ s2.pos = s.pos + 1 /\ s2.covered = s.covered /\ s2.observed = s.observed
       /\ s.dirty => s2.dirty
  BY <1>2, <1>5, <1>7, <1>8 DEF Runs
<1>16. s.pos + 1 <= Len(log)
  BY <1>2, <1>5
<1>17. /\ Sees(s2, q, d, c, log, read)
       /\ Told(s, p, d, c, log, read, changes) => Told(s2, q, d, c, log, read, changes)
       /\ Watches(s, changes) => Watches(s2, changes)
  <2>1. Delivers(s, p, s2, q, f, Len(log))
    BY <1>5, <1>10, <1>12, <1>14, <1>15, <1>16 DEF Delivers
  <2>2. log \in Logs /\ Sees(s, p, d, c, log, read)
    BY <1>1, BeforeKnown
  <2>. QED
    BY <2>1, <2>2, DeliverSees, Zenon
<1>18. /\ Watches(s2, changes)
       /\ reader = "idle" /\ t \notin late' => Told(s2, q, d, c, log, read, changes)
  BY <1>1, <1>5, <1>17 DEF Before
<1>19. StreamMoves(t, s2, q)
  BY <1>5, <1>9, <1>13 DEF StreamMoves
<1>20. StreamAfter(t, "loop")
  BY <1>9, <1>15 DEF StreamAfter
<1>. QED
  BY <1>1, <1>17, <1>18, <1>19, <1>20, StreamStep

LEMMA RecountStep ==
  ASSUME LInv, NEW t \in Tabs, Recount(t)
  PROVE  LInv' /\ StreamAfter(t, "count")
<1>1. PICK s, p, d, c : Before(t, s, p, d, c)
  BY BeforeIs
<1>2. PICK at, yes, ch : at = "count" /\ yes = TRUE /\ ch = changes
  OBVIOUS
<1>3. /\ UNCHANGED <<log, read, landing, reader, changes, tab, shown, pipe, late>> /\ s.at = "loop"
      /\ stream' = [stream EXCEPT ![t].at = at, ![t].dirty = yes, ![t].observed = ch]
  BY <1>1, <1>2 DEF Recount, RecountDue, streamOnly, persistedVars, tabVars, Before
<1>4. s = Runs(s.at, s.pos, s.dirty, s.covered, s.observed, s.frame) /\ s.pos \in Nat /\ s.covered \in Nat
      /\ s.frame = NoFrame
  BY <1>1, <1>3 DEF Before, StreamTyped, Off, Runs
<1>5. PICK s2 : s2 = [s EXCEPT !.at = at, !.dirty = yes, !.observed = ch]
  OBVIOUS
<1>6. s2 = Runs(at, s.pos, yes, s.covered, ch, s.frame)
  <2>1. PICK r : r = [s EXCEPT !.at = at]
    OBVIOUS
  <2>2. PICK q : q = [r EXCEPT !.dirty = yes]
    OBVIOUS
  <2>3. s2 = [q EXCEPT !.observed = ch]
    BY <2>1, <2>2, <1>5, Zenon
  <2>4. r = Runs(at, s.pos, s.dirty, s.covered, s.observed, s.frame)
    BY <2>1, <1>4 DEF Runs
  <2>5. q = Runs(at, s.pos, yes, s.covered, s.observed, s.frame)
    BY <2>2, <2>4 DEF Runs
  <2>. QED
    BY <2>3, <2>5 DEF Runs
<1>7. stream[t] = s
  BY <1>1 DEF Before
<1>8. stream' = [stream EXCEPT ![t] = s2]
  BY <1>3, <1>5, <1>7, Zenon
<1>9. pipe' = [pipe EXCEPT ![t] = p]
  BY <1>1, <1>3 DEF Before, PerTab
<1>10. StreamTyped(s2) /\ s2.at = "count" /\ s2.pos = s.pos /\ s2.dirty
  BY <1>1, <1>2, <1>4, <1>6 DEF StreamTyped, Runs, Before
<1>11. s2.covered = s.covered /\ s2.observed = ch
  BY <1>6 DEF Runs
<1>12. Watches(s2, changes)
  BY <1>1, <1>2, <1>3, <1>11 DEF Watches, Before
<1>13. Sees(s2, p, d, c, log, read) /\ Told(s2, p, d, c, log, read, changes)
  BY <1>1, <1>3, <1>10, BeforeKnown, OwesSees
<1>14. StreamMoves(t, s2, p)
  BY <1>3, <1>8, <1>9 DEF StreamMoves
<1>15. StreamAfter(t, "count")
  BY <1>8, <1>10 DEF StreamAfter
<1>. QED
  BY <1>1, <1>12, <1>13, <1>14, <1>15, StreamStep

LEMMA DeferStep ==
  ASSUME LInv, NEW t \in Tabs, Defer(t)
  PROVE  LInv' /\ StreamAfter(t, "loop")
<1>1. PICK s, p, d, c : Before(t, s, p, d, c)
  BY BeforeIs
<1>2. PICK yes : yes = TRUE
  OBVIOUS
<1>3. /\ UNCHANGED <<log, read, landing, reader, changes, tab, shown, pipe, late>> /\ s.at = "loop"
      /\ stream' = [stream EXCEPT ![t].dirty = yes]
  BY <1>1, <1>2 DEF Defer, RecountDue, streamOnly, persistedVars, tabVars, Before
<1>4. s = Runs(s.at, s.pos, s.dirty, s.covered, s.observed, s.frame) /\ s.pos \in Nat /\ s.covered \in Nat
      /\ s.observed \in Nat /\ s.frame = NoFrame
  BY <1>1, <1>3 DEF Before, StreamTyped, Off, Runs
<1>5. PICK s2 : s2 = [s EXCEPT !.dirty = yes]
  OBVIOUS
<1>6. s2 = Runs(s.at, s.pos, yes, s.covered, s.observed, s.frame)
  BY <1>4, <1>5 DEF Runs
<1>7. stream[t] = s
  BY <1>1 DEF Before
<1>8. stream' = [stream EXCEPT ![t] = s2]
  BY <1>3, <1>5, <1>7, Zenon
<1>9. pipe' = [pipe EXCEPT ![t] = p]
  BY <1>1, <1>3 DEF Before, PerTab
<1>10. StreamTyped(s2) /\ s2.at = "loop" /\ s2.pos = s.pos /\ s2.dirty
  BY <1>1, <1>2, <1>3, <1>4, <1>6 DEF StreamTyped, Runs, Before
<1>11. s2.covered = s.covered /\ s2.observed = s.observed
  BY <1>6 DEF Runs
<1>12. Watches(s2, changes)
  BY <1>1, <1>3, <1>11 DEF Watches, Before
<1>13. Sees(s2, p, d, c, log, read) /\ Told(s2, p, d, c, log, read, changes)
  BY <1>1, <1>3, <1>10, BeforeKnown, OwesSees
<1>14. StreamMoves(t, s2, p)
  BY <1>3, <1>8, <1>9 DEF StreamMoves
<1>15. StreamAfter(t, "loop")
  BY <1>8, <1>10 DEF StreamAfter
<1>. QED
  BY <1>1, <1>12, <1>13, <1>14, <1>15, StreamStep

LEMMA CountUnreadStep ==
  ASSUME LInv, NEW t \in Tabs, CountUnread(t)
  PROVE  LInv' /\ StreamAfter(t, "send")
<1>1. PICK s, p, d, c : Before(t, s, p, d, c)
  BY BeforeIs
<1>2. PICK at, n, f : at = "send" /\ n = Cardinality(UnreadIn(log, Len(log), read))
                      /\ f = [kind |-> "sidebar", seq |-> Len(log), count |-> n]
  OBVIOUS
<1>3. Count = n
  BY <1>2 DEF Count, UnreadOf, UnreadIn
<1>4. /\ UNCHANGED <<log, read, landing, reader, changes, tab, shown, pipe>> /\ late' = late \ {t}
      /\ s.at = "count"
      /\ stream' = [stream EXCEPT ![t].at = at, ![t].frame = f]
  BY <1>1, <1>2, <1>3 DEF CountUnread, streamOnly, persistedVars, tabVars, Before
<1>5. s = Runs(s.at, s.pos, s.dirty, s.covered, s.observed, s.frame) /\ s.pos \in Nat /\ s.covered \in Nat
      /\ s.observed \in Nat /\ s.dirty \in BOOLEAN
  BY <1>1, <1>4 DEF Before, StreamTyped, Off, Runs
<1>6. PICK s2 : s2 = [s EXCEPT !.at = at, !.frame = f]
  OBVIOUS
<1>7. s2 = Runs(at, s.pos, s.dirty, s.covered, s.observed, f)
  <2>1. PICK r : r = [s EXCEPT !.at = at]
    OBVIOUS
  <2>2. s2 = [r EXCEPT !.frame = f]
    BY <2>1, <1>6, Zenon
  <2>3. r = Runs(at, s.pos, s.dirty, s.covered, s.observed, s.frame)
    BY <2>1, <1>5 DEF Runs
  <2>. QED
    BY <2>2, <2>3 DEF Runs
<1>8. stream[t] = s
  BY <1>1 DEF Before
<1>9. stream' = [stream EXCEPT ![t] = s2]
  BY <1>4, <1>6, <1>8, Zenon
<1>10. pipe' = [pipe EXCEPT ![t] = p]
  BY <1>1, <1>4 DEF Before, PerTab
<1>11. Len(log) \in Nat /\ n \in Nat
  <2>1. Len(log) \in Nat
    BY <1>1 DEF Before, Logs
  <2>. QED
    BY <2>1, <1>2, UnreadFinite
<1>12. f \in Sidebars
  BY <1>2, <1>11 DEF Sidebars
<1>13. s2.at = "send" /\ s2.pos = s.pos /\ s2.covered = s.covered /\ s2.observed = s.observed /\ s2.frame = f
  BY <1>2, <1>7 DEF Runs
<1>14. StreamTyped(s2)
  BY <1>2, <1>5, <1>7, <1>12 DEF StreamTyped, Runs
<1>15. Watches(s2, changes)
  BY <1>1, <1>4, <1>13 DEF Watches, Before
<1>16. Sees(s2, p, d, c, log, read) /\ Told(s2, p, d, c, log, read, changes)
  BY <1>1, <1>2, <1>4, <1>13, <1>14, BeforeKnown, CountSees
<1>17. StreamMoves(t, s2, p)
  BY <1>4, <1>9, <1>10 DEF StreamMoves
<1>18. StreamAfter(t, "send")
  BY <1>9, <1>13 DEF StreamAfter
<1>. QED
  BY <1>1, <1>15, <1>16, <1>17, <1>18, StreamStep

LEMMA SendSidebarStep ==
  ASSUME LInv, NEW t \in Tabs, SendSidebar(t)
  PROVE  LInv' /\ StreamAfter(t, "loop")
<1>1. PICK s, p, d, c : Before(t, s, p, d, c)
  BY BeforeIs
<1>2. PICK at, no, o : at = "loop" /\ no = FALSE /\ o = s.observed
  OBVIOUS
<1>3. PICK q : q = Append(p, s.frame)
  OBVIOUS
<1>4. Covers(t) = o
  BY <1>1, <1>2 DEF Covers, Before
<1>5. /\ UNCHANGED <<log, read, landing, reader, changes, tab, shown, late>> /\ s.at = "send"
      /\ stream' = [stream EXCEPT ![t].at = at, ![t].dirty = no, ![t].covered = o, ![t].frame = NoFrame]
      /\ pipe' = [pipe EXCEPT ![t] = q]
  BY <1>1, <1>2, <1>3, <1>4 DEF SendSidebar, streamOnly, persistedVars, tabVars, Before
<1>6. s = Runs(s.at, s.pos, s.dirty, s.covered, s.observed, s.frame) /\ s.pos \in Nat /\ s.covered \in Nat
      /\ s.observed \in Nat /\ s.frame \in Sidebars
  BY <1>1, <1>5 DEF Before, StreamTyped, Off, Runs
<1>7. PICK s2 : s2 = [s EXCEPT !.at = at, !.dirty = no, !.covered = o, !.frame = NoFrame]
  OBVIOUS
<1>8. s2 = Runs(at, s.pos, no, o, s.observed, NoFrame)
  <2>1. PICK r : r = [s EXCEPT !.at = at]
    OBVIOUS
  <2>2. PICK u : u = [r EXCEPT !.dirty = no]
    OBVIOUS
  <2>3. PICK v : v = [u EXCEPT !.covered = o]
    OBVIOUS
  <2>4. s2 = [v EXCEPT !.frame = NoFrame]
    BY <2>1, <2>2, <2>3, <1>7, Zenon
  <2>5. r = Runs(at, s.pos, s.dirty, s.covered, s.observed, s.frame)
    BY <2>1, <1>6 DEF Runs
  <2>6. u = Runs(at, s.pos, no, s.covered, s.observed, s.frame)
    BY <2>2, <2>5 DEF Runs
  <2>7. v = Runs(at, s.pos, no, o, s.observed, s.frame)
    BY <2>3, <2>6 DEF Runs
  <2>. QED
    BY <2>4, <2>7 DEF Runs
<1>9. stream[t] = s
  BY <1>1 DEF Before
<1>10. stream' = [stream EXCEPT ![t] = s2]
  BY <1>5, <1>7, <1>9, Zenon
<1>11. s2.at = "loop" /\ s2.pos = s.pos /\ s2.covered = s.observed /\ s2.observed = s.observed
  BY <1>2, <1>8 DEF Runs
<1>12. StreamTyped(s2)
  BY <1>2, <1>6, <1>8 DEF StreamTyped, Runs
<1>13. s.frame \in Frames
  BY <1>6 DEF Frames
<1>14. q \in Pipes /\ Joined(p, s.frame, q)
  BY <1>1, <1>3, <1>13, AppendJoins DEF Before
<1>15. /\ Sees(s2, q, d, c, log, read)
       /\ Told(s, p, d, c, log, read, changes) => Told(s2, q, d, c, log, read, changes)
       /\ Watches(s, changes) => Watches(s2, changes)
  <2>1. Sends(s, p, s2, q)
    BY <1>5, <1>11, <1>12, <1>14 DEF Sends
  <2>2. log \in Logs /\ Sees(s, p, d, c, log, read)
    BY <1>1, BeforeKnown
  <2>. QED
    BY <2>1, <2>2, SendSees, Zenon
<1>16. /\ Watches(s2, changes)
       /\ reader = "idle" /\ t \notin late' => Told(s2, q, d, c, log, read, changes)
  BY <1>1, <1>5, <1>15 DEF Before
<1>17. StreamMoves(t, s2, q)
  BY <1>5, <1>10 DEF StreamMoves
<1>18. StreamAfter(t, "loop")
  BY <1>10, <1>11 DEF StreamAfter
<1>. QED
  BY <1>1, <1>15, <1>16, <1>17, <1>18, StreamStep

(* The step leaves the tab waiting for its request, or not.                *)
WaitsAfter(t, yes) == \E d2 : tab' = [tab EXCEPT ![t] = d2] /\ (Waits(d2) <=> yes)

(* A frame f arrives, and leaves q in the pipe.                            *)
Arrives(t, f, q) ==
  /\ UNCHANGED <<log, read, landing, reader, changes, stream, late>>
  /\ pipe' = [pipe EXCEPT ![t] = q]
  /\ q \in Pipes /\ Left(pipe[t], f, q)

LEMMA ReceivedIs ==
  ASSUME LInv, NEW t \in Tabs, Received(t)
  PROVE  \E q : Arrives(t, Head(pipe[t]), q)
<1>1. PICK s, p, d, c : Before(t, s, p, d, c)
  BY BeforeIs
<1>2. p = pipe[t] /\ p \in Pipes
  BY <1>1 DEF Before
<1>3. p # << >> /\ pipe' = [pipe EXCEPT ![t] = Tail(p)]
      /\ UNCHANGED <<log, read, landing, reader, changes, stream, late>>
  BY <1>2 DEF Received, persistedVars
<1>4. Tail(p) \in Pipes /\ Left(p, Head(p), Tail(p))
  BY <1>2, <1>3, TailLeft
<1>5. Arrives(t, Head(p), Tail(p))
  BY <1>2, <1>3, <1>4 DEF Arrives
<1>. QED
  BY <1>2, <1>5

LEMMA FrameStep ==
  ASSUME LInv, NEW t \in Tabs, NEW s, NEW p, NEW d, NEW c, Before(t, s, p, d, c), NEW f, NEW q,
         Arrives(t, f, q), NEW d2, NEW c2, NEW needed, Becomes(t, d2, c2, needed),
         Sees(s, q, d2, c2, log, read), Waits(d2) <=> Waits(d),
         Told(s, p, d, c, log, read, changes) => Told(s, q, d2, c2, log, read, changes)
  PROVE  LInv' /\ WaitsAfter(t, Waits(tab[t]))
<1>1. TabMoves(t, q, d2, c2)
  BY DEF TabMoves, Becomes, Arrives
<1>2. WaitsAfter(t, Waits(tab[t]))
  BY DEF WaitsAfter, Becomes, Before
<1>. QED
  BY <1>1, <1>2, TabStep

LEMMA ReceiveUnreadStep ==
  ASSUME LInv, NEW t \in Tabs, ReceiveUnread(t)
  PROVE  LInv' /\ WaitsAfter(t, Waits(tab[t]))
<1>1. PICK s, p, d, c : Before(t, s, p, d, c)
  BY BeforeIs
<1>2. PICK f, o : f = Head(pipe[t]) /\ o = observe(d, f.seq)
  OBVIOUS
<1>3. PICK q : Arrives(t, f, q)
  BY <1>2, ReceivedIs DEF ReceiveUnread
<1>4. q \in Pipes /\ Left(p, f, q)
  BY <1>1, <1>3 DEF Arrives, Before
<1>5. IsUnread(f)
  BY <1>2 DEF ReceiveUnread, IsUnread
<1>6. /\ d = tab[t] /\ c = shown[t] /\ log \in Logs /\ Sees(s, p, d, c, log, read)
  BY <1>1 DEF Before
<1>7. CASE ignored(o, f.seq)
  <2>1. Becomes(t, o, c, FALSE)
    BY <1>2, <1>6, <1>7 DEF ReceiveUnread
  <2>2. /\ Sees(s, q, o, c, log, read)
        /\ Told(s, p, d, c, log, read, changes) => Told(s, q, o, c, log, read, changes)
        /\ Waits(o) <=> Waits(d)
    <3>1. o = observe(d, f.seq) /\ log \in Logs /\ Sees(s, p, d, c, log, read)
      BY <1>2, <1>6
    <3>. QED
      BY <3>1, <1>4, <1>5, <1>7, IgnoredSees
  <2>. QED
    BY <1>1, <1>3, <2>1, <2>2, FrameStep
<1>8. CASE ~ ignored(o, f.seq)
  <2>1. PICK k : Retains(o, f, log, k)
    BY DEF Retains
  <2>2. PICK d2, c2 : Adds(k, c, d2, c2)
    BY DEF Adds
  <2>3. Applied(t, k, c, overflows(o))
    BY <1>2, <1>6, <1>8, <2>1, Zenon DEF ReceiveUnread, Retains
  <2>4. Becomes(t, d2, c2, overflows(o))
    BY <2>2, <2>3, Zenon DEF Applied, Adds
  <2>5. /\ Sees(s, q, d2, c2, log, read)
        /\ Told(s, p, d, c, log, read, changes) => Told(s, q, d2, c2, log, read, changes)
        /\ Waits(d2) <=> Waits(d)
    BY <1>2, <1>4, <1>5, <1>6, <1>8, <2>1, <2>2, RetainedSees
  <2>. QED
    BY <1>1, <1>3, <2>4, <2>5, FrameStep
<1>. QED
  BY <1>7, <1>8

LEMMA ReceiveSidebarStep ==
  ASSUME LInv, NEW t \in Tabs, ReceiveSidebar(t)
  PROVE  LInv' /\ WaitsAfter(t, Waits(tab[t]))
<1>1. PICK s, p, d, c : Before(t, s, p, d, c)
  BY BeforeIs
<1>2. PICK f, k : f = Head(pipe[t]) /\ Recounted(d, f, k)
  BY DEF Recounted
<1>3. PICK q : Arrives(t, f, q)
  BY <1>2, ReceivedIs DEF ReceiveSidebar
<1>4. q \in Pipes /\ Left(p, f, q)
  BY <1>1, <1>3 DEF Arrives, Before
<1>5. IsSidebar(f)
  BY <1>2 DEF ReceiveSidebar, IsSidebar
<1>6. /\ d = tab[t] /\ log \in Logs /\ Sees(s, p, d, c, log, read)
  BY <1>1 DEF Before
<1>7. PICK d2, c2 : Adds(k, f.count, d2, c2)
  BY DEF Adds
<1>8. Applied(t, k, f.count, k.recovering)
  BY <1>2, <1>6, Zenon DEF ReceiveSidebar, Recounted
<1>9. Becomes(t, d2, c2, k.recovering)
  BY <1>7, <1>8, Zenon DEF Applied, Adds
<1>10. /\ Sees(s, q, d2, c2, log, read)
       /\ Told(s, p, d, c, log, read, changes) => Told(s, q, d2, c2, log, read, changes)
       /\ Waits(d2) <=> Waits(d)
  BY <1>2, <1>4, <1>5, <1>6, <1>7, SidebarSees
<1>. QED
  BY <1>1, <1>3, <1>9, <1>10, FrameStep

LEMMA LoseStep ==
  ASSUME LInv, NEW t \in Tabs, LoseUnread(t) \/ LoseSidebar(t)
  PROVE  LInv' /\ WaitsAfter(t, Waits(tab[t]))
<1>1. PICK s, p, d, c : Before(t, s, p, d, c)
  BY BeforeIs
<1>2. PICK f : f = Head(pipe[t])
  OBVIOUS
<1>3. PICK q : Arrives(t, f, q)
  BY <1>2, ReceivedIs DEF LoseUnread, LoseSidebar
<1>4. q \in Pipes /\ Left(p, f, q) /\ p \in Pipes
  BY <1>1, <1>3 DEF Arrives, Before
<1>5. /\ d = tab[t] /\ c = shown[t] /\ c \in Nat /\ log \in Logs /\ Sees(s, p, d, c, log, read)
  BY <1>1 DEF Before
<1>6. \E e \in {d, observe(d, f.seq)}, c2 \in 0..Len(log) :
        Becomes(t, loss(e), c2, TRUE) \/ Becomes(t, complete(received(loss(e))), c2, TRUE)
  <2>1. c \in 0..Len(log)
    BY <1>5, SeesInformed DEF Logs
  <2>2. CASE LoseUnread(t)
    <3>1. PICK e \in {d, observe(d, f.seq)} : Becomes(t, loss(e), c, TRUE)
      BY <1>2, <1>5, <2>2, Zenon DEF LoseUnread
    <3>. QED
      BY <2>1, <3>1
  <2>3. CASE LoseSidebar(t)
    <3>1. f.count \in 0..Len(log)
      <4>1. IsSidebar(f)
        BY <1>2, <2>3 DEF LoseSidebar, IsSidebar
      <4>2. f.seq \in Nat /\ f.seq <= Len(log) /\ Len(log) \in Nat
        <5>1. Ordered(s, p, d.seen, Len(log)) /\ StreamTyped(s) /\ TabTyped(d) /\ Len(log) \in Nat
          BY <1>5, SeesInformed DEF Logs
        <5>2. d.seen \in Nat
          BY <5>1 DEF TabTyped
        <5>. QED
          BY <1>4, <5>1, <5>2, OrderedTail, FrameKinds DEF Left
      <4>3. PICK b : Correct(f, log, b)
        <5>1. Recounts(s, p, log)
          BY <1>5, SeesInformed DEF Counts
        <5>. QED
          BY <4>1, <5>1, <1>4 DEF Recounts, Left
      <4>. QED
        BY <4>2, <4>3, CorrectFits
    <3>2. PICK e \in {d, observe(d, f.seq)} :
            \E c2 \in {c, f.count} : Becomes(t, complete(received(loss(e))), c2, TRUE)
      BY <1>2, <1>5, <2>3, Zenon DEF LoseSidebar
    <3>3. PICK c2 \in {c, f.count} : Becomes(t, complete(received(loss(e))), c2, TRUE)
      BY <3>2
    <3>. QED
      BY <2>1, <3>1, <3>3
  <2>. QED
    BY <2>2, <2>3
<1>7. PICK e \in {d, observe(d, f.seq)}, c2 \in 0..Len(log) :
        Becomes(t, loss(e), c2, TRUE) \/ Becomes(t, complete(received(loss(e))), c2, TRUE)
  BY <1>6
<1>8. PICK d2 \in {loss(e), complete(received(loss(e)))} : Becomes(t, d2, c2, TRUE)
  BY <1>7
<1>9. /\ Sees(s, q, d2, c2, log, read)
      /\ Told(s, p, d, c, log, read, changes) => Told(s, q, d2, c2, log, read, changes)
      /\ Waits(d2) <=> Waits(d)
  <2>1. c2 \in Nat /\ c2 <= Len(log)
    BY <1>5, <1>7 DEF Logs
  <2>. QED
    BY <2>1, <1>4, <1>5, <1>7, <1>8, LostSees
<1>. QED
  BY <1>1, <1>3, <1>8, <1>9, FrameStep

(* The other steps of a tab leave its pipe alone.                          *)
LEMMA AloneStep ==
  ASSUME LInv, NEW t \in Tabs, NEW s, NEW p, NEW d, NEW c, Before(t, s, p, d, c), tabOnly,
         changes' = changes, NEW d2, NEW c2, NEW needed, Becomes(t, d2, c2, needed),
         Sees(s, p, d2, c2, log, read), NEW yes, Waits(d2) <=> yes,
         Told(s, p, d, c, log, read, changes) => Told(s, p, d2, c2, log, read, changes)
  PROVE  LInv' /\ WaitsAfter(t, yes)
<1>1. TabMoves(t, p, d2, c2)
  BY DEF TabMoves, Becomes, tabOnly, persistedVars, Before
<1>2. WaitsAfter(t, yes)
  BY DEF WaitsAfter, Becomes
<1>. QED
  BY <1>1, <1>2, TabStep

LEMMA ResumeStep ==
  ASSUME LInv, NEW t \in Tabs, Resume(t)
  PROVE  LInv' /\ WaitsAfter(t, Waits(tab[t]))
<1>1. PICK s, p, d, c : Before(t, s, p, d, c)
  BY BeforeIs
<1>2. /\ d = tab[t] /\ c = shown[t] /\ Sees(s, p, d, c, log, read)
  BY <1>1 DEF Before
<1>3. Becomes(t, d, c, TRUE) /\ tabOnly /\ changes' = changes
  BY <1>2 DEF Resume
<1>. QED
  BY <1>1, <1>2, <1>3, AloneStep

LEMMA DispatchStep ==
  ASSUME LInv, NEW t \in Tabs, Dispatch(t)
  PROVE  LInv' /\ WaitsAfter(t, TRUE)
<1>1. PICK s, p, d, c : Before(t, s, p, d, c)
  BY BeforeIs
<1>2. /\ d = tab[t] /\ c = shown[t] /\ p = pipe[t] /\ log \in Logs /\ Sees(s, p, d, c, log, read)
  BY <1>1 DEF Before
<1>3. PICK rq : rq = [NoRequest EXCEPT !.open = TRUE, !.losses = d.losses]
  OBVIOUS
<1>4. PICK d2 : d2 = [d EXCEPT !.request = rq]
  OBVIOUS
<1>5. tab' = [tab EXCEPT ![t].request = rq] /\ shown' = shown /\ changes' = changes
      /\ UNCHANGED <<log, read, landing, reader, stream, pipe, late>>
  BY <1>2, <1>3, Zenon DEF Dispatch, tabOnly, persistedVars
<1>6. tab' = [tab EXCEPT ![t] = d2]
  BY <1>2, <1>4, <1>5, Zenon
<1>7. TabMoves(t, p, d2, c)
  BY <1>2, <1>5, <1>6 DEF TabMoves
<1>8. Asks(d, d2)
  BY <1>3, <1>4, Zenon DEF Asks
<1>9. /\ Sees(s, p, d2, c, log, read)
      /\ Told(s, p, d, c, log, read, changes) => Told(s, p, d2, c, log, read, changes)
      /\ Waits(d2)
  BY <1>2, <1>8, DispatchSees
<1>10. WaitsAfter(t, TRUE)
  BY <1>6, <1>9 DEF WaitsAfter
<1>. QED
  BY <1>1, <1>7, <1>9, <1>10, TabStep

LEMMA SucceedStep ==
  ASSUME LInv, NEW t \in Tabs, Succeed(t)
  PROVE  LInv' /\ WaitsAfter(t, FALSE)
<1>1. PICK s, p, d, c : Before(t, s, p, d, c)
  BY BeforeIs
<1>2. /\ d = tab[t] /\ c = shown[t] /\ log \in Logs /\ Sees(s, p, d, c, log, read)
  BY <1>1 DEF Before
<1>3. PICK a : a = [d EXCEPT !.request.success = TRUE]
  OBVIOUS
<1>4. PICK k, needed : k = complete(a) /\ needed = needsAnother(a)
  OBVIOUS
<1>5. PICK d2, c2 : Adds(k, c, d2, c2)
  BY DEF Adds
<1>6. Applied(t, k, c, needsAnother(a)) /\ tabOnly /\ changes' = changes
  BY <1>2, <1>3, <1>4, Zenon DEF Succeed
<1>7. Becomes(t, d2, c2, needsAnother(a))
  BY <1>5, <1>6, Zenon DEF Applied, Adds
<1>8. /\ Sees(s, p, d2, c2, log, read)
      /\ Told(s, p, d, c, log, read, changes) => Told(s, p, d2, c2, log, read, changes)
      /\ ~ Waits(d2)
  BY <1>2, <1>3, <1>4, <1>5, SucceedSees
<1>. QED
  BY <1>1, <1>6, <1>7, <1>8, AloneStep

LEMMA FailStep ==
  ASSUME LInv, NEW t \in Tabs, Fail(t)
  PROVE  LInv' /\ WaitsAfter(t, FALSE)
<1>1. PICK s, p, d, c : Before(t, s, p, d, c)
  BY BeforeIs
<1>2. /\ d = tab[t] /\ c = shown[t] /\ log \in Logs /\ Sees(s, p, d, c, log, read)
  BY <1>1 DEF Before
<1>3. PICK d2 : d2 = failedRequest(d)
  OBVIOUS
<1>4. Becomes(t, d2, c, TRUE) /\ tabOnly /\ changes' = changes
  BY <1>2, <1>3 DEF Fail
<1>5. /\ Sees(s, p, d2, c, log, read)
      /\ Told(s, p, d, c, log, read, changes) => Told(s, p, d2, c, log, read, changes)
      /\ ~ Waits(d2)
  BY <1>2, <1>3, FailSees
<1>. QED
  BY <1>1, <1>4, <1>5, AloneStep

LEMMA NextLInv ==
  ASSUME LInv, [Next]_vars
  PROVE  LInv'
<1>1. ASSUME NEW t \in Tabs, Run(t) \/ Connect(t) \/ Defer(t)
      PROVE  LInv'
  BY <1>1, DeliverStep, RecountStep, CountUnreadStep, SendSidebarStep, ConnectStep, DeferStep DEF Run
<1>2. ASSUME NEW t \in Tabs, Receive(t) \/ LoseUnread(t) \/ LoseSidebar(t)
      PROVE  LInv'
  BY <1>2, ReceiveUnreadStep, ReceiveSidebarStep, LoseStep DEF Receive
<1>3. ASSUME NEW t \in Tabs, Resume(t) \/ Dispatch(t) \/ Resync(t) \/ Fail(t)
      PROVE  LInv'
  BY <1>3, ResumeStep, DispatchStep, RequestResyncStep, SucceedStep, FailStep DEF Resync
<1>4. ASSUME NEW t \in Tabs, Drop(t)
      PROVE  LInv'
  BY <1>4, DropsStep DEF Drop, persistedVars, tabVars
<1>5. ASSUME Restart
      PROVE  LInv'
  BY <1>5, DropsStep DEF Restart, tabVars
<1>. QED
  BY <1>1, <1>2, <1>3, <1>4, <1>5, PostStep, ReadStep, LandStep, PublishStep, StutterStep DEF Next

(* The invariant is one of the specification.                              *)
THEOREM LiveCountsInvariant == Spec => []LInv
BY InitLInv, NextLInv, PTL DEF Spec

-----------------------------------------------------------------------------
(* As long as nothing is read, a tab that is not recovering shows exactly  *)
(* the unread messages up to the newest event it has seen, for any tabs,   *)
(* losses, reconnections and overflows (unread-counts.ts:30-64).           *)
THEOREM TabsAddUp == Spec => []AddsUpWhatItSaw
<1>1. LInv => AddsUpWhatItSaw
  <2>. SUFFICES ASSUME LInv, read = {}, NEW t \in Tabs, ~ tab[t].recovering
                PROVE  shown[t] = Cardinality(UnreadOf(tab[t].seen, {}))
    BY DEF AddsUpWhatItSaw
  <2>1. PICK s, p, d, c : Before(t, s, p, d, c)
    BY BeforeIs
  <2>2. /\ d = tab[t] /\ c = shown[t] /\ log \in Logs /\ Sees(s, p, d, c, log, read)
    BY <2>1 DEF Before
  <2>3. /\ TabTyped(d) /\ Keeps(d, log) /\ AllApplied(d) /\ Trusted(d) /\ Complete(s, p, d)
        /\ AllCorrect(s, p, d, c, log, read)
    BY <2>2 DEF Sees, Trusted
  <2>4. Shows(d, c, log, read)
    BY <2>3 DEF AllCorrect, TabShows
  <2>5. d.seen \in Nat /\ d.snapshot <= d.seen /\ d.seen <= Len(log) /\ \A e \in d.events : e.seq <= d.seen
    BY <2>3 DEF TabTyped, Keeps
  <2>6. \A m \in Nat : d.snapshot < m /\ m <= d.seen => Has(d, m)
    BY <2>3 DEF Complete, Reached
  <2>7. c = Cardinality(UnreadIn(log, d.seen, read))
    BY <2>2, <2>3, <2>4, <2>5, <2>6, ShowsExactly
  <2>. QED
    BY <2>2, <2>7 DEF UnreadOf, UnreadIn
<1>. QED
  BY <1>1, LiveCountsInvariant, PTL

(* A tab with nothing on its way shows the exact count, whatever was lost, *)
(* repeated or read in another tab (decision 34, reading.go:83-99).        *)
THEOREM QuietIsExact == Spec => []ExactWhenQuiet
<1>1. LInv => ExactWhenQuiet
  <2>. SUFFICES ASSUME LInv, NEW t \in Tabs, Quiet(t)
                PROVE  shown[t] = Count
    BY DEF ExactWhenQuiet
  <2>1. PICK s, p, d, c : Before(t, s, p, d, c)
    BY BeforeIs
  <2>2. /\ d = tab[t] /\ c = shown[t] /\ p = pipe[t] /\ s = stream[t] /\ log \in Logs
        /\ Sees(s, p, d, c, log, read)
        /\ reader = "idle" /\ t \notin late => Told(s, p, d, c, log, read, changes)
    BY <2>1 DEF Before
  <2>3. /\ s.at = "loop" /\ s.pos = Len(log) /\ ~ s.dirty /\ s.covered = changes /\ p = << >>
        /\ ~ d.recovering /\ Told(s, p, d, c, log, read, changes)
    BY <2>2 DEF Quiet
  <2>4. /\ TabTyped(d) /\ Keeps(d, log) /\ AllApplied(d) /\ Trusted(d) /\ Complete(s, p, d)
    BY <2>2, <2>3 DEF Sees, Trusted
  <2>5. DOMAIN p = {}
    BY <2>3
  <2>6. Shows(d, c, log, read)
    BY <2>3, <2>4, <2>5 DEF Told, LastCorrect, TabShows
  <2>7. /\ Len(log) \in Nat /\ d.snapshot \in Nat /\ d.seen \in Nat /\ d.snapshot <= d.seen
        /\ d.seen <= Len(log)
    BY <2>2, <2>4 DEF TabTyped, Keeps, Logs
  <2>8. d.snapshot <= Len(log) /\ \A e \in d.events : e.seq <= Len(log)
    <3>1. \A e \in d.events : e.seq \in Nat /\ e.seq <= d.seen
      BY <2>4 DEF TabTyped, Events, Keeps
    <3>. QED
      BY <2>7, <3>1
  <2>9. \A m \in Nat : d.snapshot < m /\ m <= Len(log) => Has(d, m)
    BY <2>3, <2>4, <2>5 DEF Complete, Reached, Coming
  <2>10. Len(log) <= Len(log)
    BY <2>7
  <2>11. c = Cardinality(UnreadIn(log, Len(log), read))
    BY <2>2, <2>3, <2>4, <2>6, <2>7, <2>8, <2>9, <2>10, ShowsExactly
  <2>. QED
    BY <2>2, <2>11 DEF Count, UnreadOf, UnreadIn
<1>. QED
  BY <1>1, LiveCountsInvariant, PTL

-----------------------------------------------------------------------------
(* What the invariant leaves out of the type invariant: the bounds, the    *)
(* slots, the watches of unread.Changes and the requests.                  *)
Bounded ==
  /\ Len(log) <= MaxEvents /\ late \subseteq Tabs
  /\ reads \in 0..MaxReads /\ faults \in 0..MaxFaults
  /\ timer \in [Tabs -> BOOLEAN] /\ post \in [Tabs -> {"none", "sent", "served"}]

Watched == Watching = {} => changes = 0
Slotted == SlotsUsed <= Slots
Piped == \A t \in Tabs : Len(pipe[t]) <= MaxPipe
Posted == \A t \in Tabs : post[t] # "none" <=> Waits(tab[t])

(* What the steps of a tab do around it.                                   *)
Arriving(t) ==
  /\ Received(t) /\ (Fault \/ NoFault) /\ WaitsAfter(t, Waits(tab[t]))
  /\ \E d, c, needed : Becomes(t, d, c, needed)

LEMMA ArrivingIs ==
  ASSUME LInv, NEW t \in Tabs, Receive(t) \/ LoseUnread(t) \/ LoseSidebar(t)
  PROVE  Arriving(t)
<1>1. CASE ReceiveUnread(t)
  <2>1. WaitsAfter(t, Waits(tab[t]))
    BY <1>1, ReceiveUnreadStep
  <2>2. Received(t) /\ NoFault
    BY <1>1 DEF ReceiveUnread
  <2>3. \E d, c, needed : Becomes(t, d, c, needed)
    BY <1>1, Zenon DEF ReceiveUnread, Applied
  <2>. QED
    BY <2>1, <2>2, <2>3 DEF Arriving
<1>2. CASE ReceiveSidebar(t)
  <2>1. WaitsAfter(t, Waits(tab[t]))
    BY <1>2, ReceiveSidebarStep
  <2>2. Received(t) /\ NoFault
    BY <1>2 DEF ReceiveSidebar
  <2>3. \E d, c, needed : Becomes(t, d, c, needed)
    BY <1>2, Zenon DEF ReceiveSidebar, Applied
  <2>. QED
    BY <2>1, <2>2, <2>3 DEF Arriving
<1>3. CASE LoseUnread(t) \/ LoseSidebar(t)
  <2>1. WaitsAfter(t, Waits(tab[t]))
    BY <1>3, LoseStep
  <2>2. Received(t) /\ Fault
    BY <1>3 DEF LoseUnread, LoseSidebar
  <2>3. \E d, c, needed : Becomes(t, d, c, needed)
    BY <1>3, Zenon DEF LoseUnread, LoseSidebar
  <2>. QED
    BY <2>1, <2>2, <2>3 DEF Arriving
<1>. QED
  BY <1>1, <1>2, <1>3 DEF Receive

(* The timer a step of the tab may set.                                    *)
LEMMA TimerTyped ==
  ASSUME timer \in [Tabs -> BOOLEAN], NEW t \in Tabs, NEW d, NEW c, NEW needed, Becomes(t, d, c, needed)
  PROVE  timer' \in [Tabs -> BOOLEAN]
BY DEF Becomes

LEMMA NextBounded ==
  ASSUME LInv, Bounded, [Next]_vars
  PROVE  Bounded'
<1>1. ASSUME NEW author \in Authors, Post(author) PROVE Bounded'
  <2>1. log \in Logs
    BY DEF LInv, LogTyped
  <2>2. Len(log') <= MaxEvents
    BY <1>1, <2>1, LiveCountsAssumption DEF Post, Logs
  <2>. QED
    BY <1>1, <2>2 DEF Bounded, Post, tabVars, NoFault
<1>2. ASSUME \/ \E through \in 1..Len(log) : Read(through)
             \/ Land \/ Publish
      PROVE  Bounded'
  BY <1>2, LiveCountsAssumption DEF Bounded, Read, Land, Publish, tabVars, NoFault
<1>3. ASSUME NEW t \in Tabs, Run(t) \/ Connect(t) \/ Defer(t) PROVE Bounded'
  <2>1. streamOnly /\ (late' = late \/ late' = late \ {t})
    BY <1>3 DEF Run, Deliver, Recount, CountUnread, SendSidebar, Connect, Defer
  <2>. QED
    BY <2>1 DEF Bounded, streamOnly, persistedVars, tabVars, NoFault
<1>4. ASSUME Restart \/ \E t \in Tabs : Drop(t) PROVE Bounded'
  <2>1. UNCHANGED <<log, reads, late, timer, post>> /\ Fault
    BY <1>4 DEF Restart, Drop, persistedVars, tabVars
  <2>. QED
    BY <2>1, LiveCountsAssumption DEF Bounded, Fault
<1>5. ASSUME NEW t \in Tabs, Receive(t) \/ LoseUnread(t) \/ LoseSidebar(t) PROVE Bounded'
  <2>1. Arriving(t)
    BY <1>5, ArrivingIs
  <2>2. faults' \in 0..MaxFaults
    BY <2>1, LiveCountsAssumption DEF Bounded, Arriving, Fault, NoFault
  <2>3. timer' \in [Tabs -> BOOLEAN]
    BY <2>1, TimerTyped DEF Bounded, Arriving
  <2>. QED
    BY <2>1, <2>2, <2>3 DEF Bounded, Arriving, Received, persistedVars
<1>6. ASSUME NEW t \in Tabs, Resume(t) \/ Succeed(t) \/ Fail(t) PROVE Bounded'
  <2>1. tabOnly /\ (Fault \/ NoFault) /\ (post' = post \/ post' = [post EXCEPT ![t] = "none"])
    BY <1>6 DEF Resume, Succeed, Fail
  <2>2. \E d, c, needed : Becomes(t, d, c, needed)
    BY <1>6, Zenon DEF Resume, Succeed, Fail, Applied
  <2>3. faults' \in 0..MaxFaults
    BY <2>1, LiveCountsAssumption DEF Bounded, Fault, NoFault
  <2>4. timer' \in [Tabs -> BOOLEAN]
    BY <2>2, TimerTyped DEF Bounded
  <2>5. post' \in [Tabs -> {"none", "sent", "served"}]
    BY <2>1 DEF Bounded
  <2>. QED
    BY <2>1, <2>3, <2>4, <2>5 DEF Bounded, tabOnly, persistedVars
<1>7. ASSUME NEW t \in Tabs, Dispatch(t) \/ RequestResync(t) PROVE Bounded'
  <2>1. timer' = timer \/ timer' = [timer EXCEPT ![t] = FALSE]
    BY <1>7 DEF Dispatch, RequestResync
  <2>2. post' = [post EXCEPT ![t] = "sent"] \/ post' = [post EXCEPT ![t] = "served"]
    BY <1>7 DEF Dispatch, RequestResync
  <2>3. tabOnly /\ NoFault
    BY <1>7 DEF Dispatch, RequestResync
  <2>. QED
    BY <2>1, <2>2, <2>3 DEF Bounded, tabOnly, persistedVars, NoFault
<1>8. CASE UNCHANGED vars
  BY <1>8 DEF Bounded, vars, persistedVars, tabVars
<1>. QED
  BY <1>1, <1>2, <1>3, <1>4, <1>5, <1>6, <1>7, <1>8 DEF Next, Resync

(* Where a step leaves the streams: one of them moves, some end, or none   *)
(* does.                                                                   *)
LEMMA StreamsMove ==
  ASSUME LInv, NEW t \in Tabs, Run(t) \/ Connect(t) \/ Defer(t)
  PROVE  \E at \in {"loop", "count", "send"} :
           StreamAfter(t, at) /\ changes' = changes /\ (at = "count" => SlotsUsed < Slots)
<1>1. changes' = changes
  BY DEF Run, Deliver, Recount, CountUnread, SendSidebar, Connect, Defer, streamOnly
<1>2. CASE Deliver(t) \/ SendSidebar(t) \/ Connect(t) \/ Defer(t)
  BY <1>1, <1>2, DeliverStep, SendSidebarStep, ConnectStep, DeferStep
<1>3. CASE CountUnread(t)
  BY <1>1, <1>3, CountUnreadStep
<1>4. CASE Recount(t)
  <2>1. SlotsUsed < Slots
    BY <1>4 DEF Recount
  <2>. QED
    BY <1>1, <1>4, <2>1, RecountStep
<1>. QED
  BY <1>2, <1>3, <1>4 DEF Run

LEMMA StreamsStay ==
  ASSUME LInv,
         \/ \E author \in Authors : Post(author)
         \/ \E through \in 1..Len(log) : Read(through)
         \/ Land \/ Publish
         \/ \E t \in Tabs : \/ Receive(t) \/ LoseUnread(t) \/ LoseSidebar(t)
                            \/ Resume(t) \/ Dispatch(t) \/ Resync(t) \/ Fail(t)
         \/ UNCHANGED vars
  PROVE  stream' = stream /\ (changes' = changes \/ changes' = ReadChanged)
<1>1. CASE \/ \E author \in Authors : Post(author)
           \/ \E through \in 1..Len(log) : Read(through)
           \/ Land \/ Publish
  BY <1>1 DEF Post, Read, Land, Publish
<1>2. ASSUME NEW t \in Tabs, Receive(t) \/ LoseUnread(t) \/ LoseSidebar(t)
      PROVE  stream' = stream /\ changes' = changes
  BY <1>2, ArrivingIs DEF Arriving, Received
<1>3. ASSUME NEW t \in Tabs, Resume(t) \/ Dispatch(t) \/ Resync(t) \/ Fail(t)
      PROVE  stream' = stream /\ (changes' = changes \/ changes' = ReadChanged)
  BY <1>3 DEF Resume, Dispatch, Resync, RequestResync, Succeed, Fail, tabOnly
<1>4. CASE UNCHANGED vars
  BY <1>4 DEF vars
<1>. QED
  BY <1>1, <1>2, <1>3, <1>4

LEMMA DropsAre ==
  ASSUME Restart \/ \E t \in Tabs : Drop(t)
  PROVE  \E ts : Dropped(ts)
BY DEF Restart, Drop

(* The changes are counted from zero after the last watch has ended.       *)
LEMMA NextWatched ==
  ASSUME LInv, Watched, [Next]_vars
  PROVE  Watched'
<1>1. stream = [u \in Tabs |-> stream[u]]
  BY DEF LInv, PerTab
<1>2. ASSUME NEW t \in Tabs, Run(t) \/ Connect(t) \/ Defer(t) PROVE Watched'
  <2>1. PICK at \in {"loop", "count", "send"} : StreamAfter(t, at)
    BY <1>2, StreamsMove
  <2>2. PICK s2 : stream' = [stream EXCEPT ![t] = s2] /\ s2.at = at
    BY <2>1 DEF StreamAfter
  <2>3. stream'[t].at # "off"
    BY <1>1, <2>2
  <2>. QED
    BY <2>3 DEF Watched, Watching, On
<1>3. ASSUME NEW ts, Dropped(ts) PROVE Watched'
  <2>1. CASE Watching \subseteq ts
    BY <1>3, <2>1 DEF Watched, Dropped
  <2>2. CASE ~ (Watching \subseteq ts)
    <3>1. PICK u \in Tabs : On(u) /\ u \notin ts
      BY <2>2 DEF Watching
    <3>2. stream'[u] = stream[u]
      BY <1>3, <3>1 DEF Dropped
    <3>. QED
      BY <3>1, <3>2 DEF Watched, Watching, On
  <2>. QED
    BY <2>1, <2>2
<1>4. ASSUME stream' = stream, changes' = changes \/ changes' = ReadChanged PROVE Watched'
  BY <1>4 DEF Watched, Watching, On, ReadChanged
<1>. QED
  BY <1>2, <1>3, <1>4, StreamsStay, DropsAre DEF Next

(* No more streams count at once than there are slots.                     *)
LEMMA NextSlotted ==
  ASSUME LInv, Slotted, [Next]_vars
  PROVE  Slotted'
<1>. DEFINE counting == {t \in Tabs : stream[t].at = "count"}
<1>1. stream = [u \in Tabs |-> stream[u]]
  BY DEF LInv, PerTab
<1>2. /\ IsFiniteSet(counting) /\ Cardinality(counting) \in Nat /\ Slots \in Nat
      /\ SlotsUsed = Cardinality(counting) /\ SlotsUsed' = Cardinality(counting')
  <2>1. counting \in SUBSET Tabs /\ IsFiniteSet(Tabs)
    BY LiveCountsAssumption
  <2>2. IsFiniteSet(counting)
    BY <2>1, FS_Subset
  <2>. QED
    BY <2>2, FS_CardinalityType, LiveCountsAssumption DEF SlotsUsed
<1>3. ASSUME counting' \subseteq counting PROVE Slotted'
  <2>. HIDE DEF counting
  <2>1. IsFiniteSet(counting') /\ Cardinality(counting') <= Cardinality(counting)
    BY <1>2, <1>3, FS_Subset
  <2>2. Cardinality(counting') \in Nat
    BY <2>1, FS_CardinalityType
  <2>. QED
    BY <1>2, <2>1, <2>2 DEF Slotted
<1>4. ASSUME NEW t \in Tabs, Run(t) \/ Connect(t) \/ Defer(t) PROVE Slotted'
  <2>1. PICK at \in {"loop", "count", "send"} : StreamAfter(t, at) /\ (at = "count" => SlotsUsed < Slots)
    BY <1>4, StreamsMove
  <2>2. PICK s2 : stream' = [stream EXCEPT ![t] = s2] /\ s2.at = at
    BY <2>1 DEF StreamAfter
  <2>3. stream'[t].at = at /\ \A u \in Tabs : u # t => stream'[u] = stream[u]
    BY <1>1, <2>2
  <2>4. CASE at # "count"
    <3>1. counting' \subseteq counting
      BY <2>3, <2>4
    <3>. QED
      BY <3>1, <1>3
  <2>5. CASE at = "count"
    <3>1. counting' \in SUBSET (counting \cup {t})
      BY <2>3
    <3>. HIDE DEF counting
    <3>2. IsFiniteSet(counting \cup {t}) /\ Cardinality(counting \cup {t}) =
            IF t \in counting THEN Cardinality(counting) ELSE Cardinality(counting) + 1
      BY <1>2, FS_AddElement
    <3>3. IsFiniteSet(counting') /\ Cardinality(counting') <= Cardinality(counting \cup {t})
      BY <3>1, <3>2, FS_Subset
    <3>4. Cardinality(counting') \in Nat
      BY <3>3, FS_CardinalityType
    <3>. QED
      BY <1>2, <2>1, <2>5, <3>2, <3>3, <3>4 DEF Slotted
  <2>. QED
    BY <2>4, <2>5
<1>5. ASSUME NEW ts, Dropped(ts) PROVE Slotted'
  <2>1. \A u \in Tabs : stream'[u] = stream[u] \/ stream'[u].at = "off"
    BY <1>5 DEF Dropped, Off
  <2>2. counting' \subseteq counting
    BY <2>1
  <2>. QED
    BY <2>2, <1>3
<1>6. ASSUME stream' = stream PROVE Slotted'
  BY <1>6 DEF Slotted, SlotsUsed
<1>. QED
  BY <1>4, <1>5, <1>6, StreamsStay, DropsAre DEF Next

(* A stream waits while its pipe is full.                                  *)
LEMMA NextPiped ==
  ASSUME LInv, Piped, [Next]_vars
  PROVE  Piped'
<1>1. /\ pipe = [u \in Tabs |-> pipe[u]] /\ MaxPipe \in Nat
      /\ \A u \in Tabs : pipe[u] \in Pipes /\ Len(pipe[u]) \in Nat
  BY LiveCountsAssumption DEF LInv, PerTab, SeesTab, Sees, Pipes
<1>2. ASSUME NEW t \in Tabs, Len(pipe'[t]) <= MaxPipe, \A u \in Tabs : u # t => pipe'[u] = pipe[u]
      PROVE  Piped'
  BY <1>2 DEF Piped
<1>3. ASSUME NEW t \in Tabs, Deliver(t) \/ SendSidebar(t) PROVE Piped'
  <2>1. PICK f : pipe' = [pipe EXCEPT ![t] = Append(@, f)] /\ Len(pipe[t]) < MaxPipe
    BY <1>3 DEF Deliver, SendSidebar
  <2>2. Len(Append(pipe[t], f)) = Len(pipe[t]) + 1
    BY <1>1 DEF Pipes
  <2>3. Len(pipe'[t]) <= MaxPipe /\ \A u \in Tabs : u # t => pipe'[u] = pipe[u]
    BY <1>1, <2>1, <2>2
  <2>. QED
    BY <1>2, <2>3
<1>4. ASSUME NEW t \in Tabs, Receive(t) \/ LoseUnread(t) \/ LoseSidebar(t) PROVE Piped'
  <2>1. pipe[t] # << >> /\ pipe' = [pipe EXCEPT ![t] = Tail(@)]
    BY <1>4, ArrivingIs DEF Arriving, Received
  <2>2. Len(Tail(pipe[t])) = Len(pipe[t]) - 1
    BY <1>1, <2>1 DEF Pipes
  <2>3. Len(pipe'[t]) <= MaxPipe /\ \A u \in Tabs : u # t => pipe'[u] = pipe[u]
    BY <1>1, <2>1, <2>2 DEF Piped
  <2>. QED
    BY <1>2, <2>3
<1>5. ASSUME NEW ts, Dropped(ts) PROVE Piped'
  <2>1. \A u \in Tabs : pipe'[u] = pipe[u] \/ pipe'[u] = << >>
    BY <1>5 DEF Dropped
  <2>2. Len(<< >>) = 0
    OBVIOUS
  <2>. QED
    BY <1>1, <2>1, <2>2 DEF Piped
<1>6. ASSUME pipe' = pipe PROVE Piped'
  BY <1>6 DEF Piped
<1>7. ASSUME \/ \E author \in Authors : Post(author)
             \/ \E through \in 1..Len(log) : Read(through)
             \/ Land \/ Publish \/ UNCHANGED vars
      PROVE  pipe' = pipe
  BY <1>7 DEF Post, Read, Land, Publish, vars
<1>8. ASSUME NEW t \in Tabs, \/ Recount(t) \/ CountUnread(t) \/ Connect(t) \/ Defer(t)
                             \/ Resume(t) \/ Dispatch(t) \/ Resync(t) \/ Fail(t)
      PROVE  pipe' = pipe
  BY <1>8 DEF Recount, CountUnread, Connect, Defer, Resume, Dispatch, Resync, RequestResync, Succeed, Fail, tabOnly
<1>. QED
  BY <1>3, <1>4, <1>5, <1>6, <1>7, <1>8, DropsAre DEF Next, Run

(* A tab has a request under way exactly while it waits for its answer.    *)
LEMMA NextPosted ==
  ASSUME LInv, Bounded, Posted, [Next]_vars
  PROVE  Posted'
<1>1. tab = [u \in Tabs |-> tab[u]] /\ post = [u \in Tabs |-> post[u]]
  BY DEF LInv, PerTab, Bounded
<1>2. ASSUME NEW t \in Tabs, NEW yes, WaitsAfter(t, yes), post'[t] # "none" <=> yes,
             \A u \in Tabs : u # t => post'[u] = post[u]
      PROVE  Posted'
  <2>1. PICK d2 : tab' = [tab EXCEPT ![t] = d2] /\ (Waits(d2) <=> yes)
    BY <1>2 DEF WaitsAfter
  <2>2. tab'[t] = d2 /\ \A u \in Tabs : u # t => tab'[u] = tab[u]
    BY <1>1, <2>1
  <2>3. ASSUME NEW u \in Tabs PROVE post'[u] # "none" <=> Waits(tab'[u])
    BY <1>2, <2>1, <2>2 DEF Posted
  <2>. QED
    BY <2>3 DEF Posted, Waits
<1>3. ASSUME tab' = tab, post' = post PROVE Posted'
  BY <1>3 DEF Posted, Waits
<1>4. ASSUME NEW t \in Tabs, Receive(t) \/ LoseUnread(t) \/ LoseSidebar(t) PROVE Posted'
  <2>1. WaitsAfter(t, Waits(tab[t])) /\ post' = post
    BY <1>4, ArrivingIs DEF Arriving, Received
  <2>. QED
    BY <1>2, <2>1 DEF Posted
<1>5. ASSUME NEW t \in Tabs, Resume(t) PROVE Posted'
  <2>1. WaitsAfter(t, Waits(tab[t])) /\ post' = post
    BY <1>5, ResumeStep DEF Resume
  <2>. QED
    BY <1>2, <2>1 DEF Posted
<1>6. ASSUME NEW t \in Tabs, Dispatch(t) PROVE Posted'
  <2>1. WaitsAfter(t, TRUE) /\ post' = [post EXCEPT ![t] = "sent"]
    BY <1>6, DispatchStep DEF Dispatch
  <2>2. post'[t] # "none" /\ \A u \in Tabs : u # t => post'[u] = post[u]
    BY <1>1, <2>1
  <2>. QED
    BY <1>2, <2>1, <2>2
<1>7. ASSUME NEW t \in Tabs, Succeed(t) \/ Fail(t) PROVE Posted'
  <2>1. WaitsAfter(t, FALSE) /\ post' = [post EXCEPT ![t] = "none"]
    BY <1>7, SucceedStep, FailStep DEF Succeed, Fail
  <2>2. post'[t] = "none" /\ \A u \in Tabs : u # t => post'[u] = post[u]
    BY <1>1, <2>1
  <2>. QED
    BY <1>2, <2>1, <2>2
<1>8. ASSUME NEW t \in Tabs, RequestResync(t) PROVE Posted'
  <2>1. tab' = tab /\ post[t] = "sent" /\ post' = [post EXCEPT ![t] = "served"]
    BY <1>8 DEF RequestResync
  <2>2. \A u \in Tabs : post'[u] # "none" <=> post[u] # "none"
    BY <1>1, <2>1
  <2>. QED
    BY <2>1, <2>2 DEF Posted, Waits
<1>9. ASSUME \/ \E author \in Authors : Post(author)
             \/ \E through \in 1..Len(log) : Read(through)
             \/ Land \/ Publish \/ Restart \/ UNCHANGED vars
      PROVE  tab' = tab /\ post' = post
  BY <1>9 DEF Post, Read, Land, Publish, Restart, vars, tabVars
<1>10. ASSUME NEW t \in Tabs, Run(t) \/ Connect(t) \/ Defer(t) \/ Drop(t)
       PROVE  tab' = tab /\ post' = post
  BY <1>10 DEF Run, Deliver, Recount, CountUnread, SendSidebar, Connect, Defer, Drop, streamOnly, tabVars
<1>. QED
  BY <1>3, <1>4, <1>5, <1>6, <1>7, <1>8, <1>9, <1>10 DEF Next, Resync

Confined == Bounded /\ Watched /\ Slotted /\ Piped /\ Posted

LEMMA InitConfined == Init => Confined
<1>. SUFFICES ASSUME Init PROVE Confined
  OBVIOUS
<1>1. Bounded /\ Watched
  BY LiveCountsAssumption DEF Init, Bounded, Watched
<1>2. Slotted
  <2>1. {t \in Tabs : stream[t].at = "count"} = {}
    BY DEF Init, Off
  <2>. QED
    BY <2>1, EmptyCount, LiveCountsAssumption DEF Slotted, SlotsUsed
<1>3. Piped
  <2>1. \A t \in Tabs : pipe[t] = << >>
    BY DEF Init
  <2>2. Len(<< >>) = 0
    OBVIOUS
  <2>. QED
    BY <2>1, <2>2, LiveCountsAssumption DEF Piped
<1>4. Posted
  <2>1. \A t \in Tabs : post[t] = "none" /\ tab[t].request = NoRequest
    BY DEF Init, unreadState
  <2>. QED
    BY <2>1 DEF Posted, Waits
<1>. QED
  BY <1>1, <1>2, <1>3, <1>4 DEF Confined

(* What a tab, its stream and its pipe are, within the bounds.             *)
LEMMA PerTabTyped ==
  ASSUME LInv, Confined, NEW t \in Tabs
  PROVE  /\ stream[t] \in Running \cup [at : {"off"}, after : 0..MaxEvents]
         /\ pipe[t] \in Seq(Frame) /\ Len(pipe[t]) <= MaxPipe /\ (On(t) \/ pipe[t] = << >>)
         /\ Cardinality(tab[t].events) <= Limit
         /\ post[t] # "none" <=> (tab[t].request # NoRequest /\ ~ tab[t].request.success)
         /\ shown[t] \in 0..MaxEvents
<1>1. PICK s, p, d, c : Before(t, s, p, d, c)
  BY BeforeIs
<1>2. /\ s = stream[t] /\ p = pipe[t] /\ d = tab[t] /\ c = shown[t] /\ c \in Nat /\ log \in Logs
      /\ Sees(s, p, d, c, log, read) /\ StreamTyped(s) /\ p \in Pipes /\ TabTyped(d)
  BY <1>1 DEF Before
<1>3. /\ Ordered(s, p, d.seen, Len(log)) /\ Recounts(s, p, log) /\ Fits(d, c, log)
  BY <1>2 DEF Sees, Counts
<1>4. Len(log) \in Nat /\ Len(log) <= MaxEvents /\ MaxEvents \in Nat
  BY <1>2, LiveCountsAssumption DEF Confined, Bounded, Logs
<1>5. ASSUME NEW f \in Sidebars, f.seq <= Len(log), NEW b, Correct(f, log, b)
      PROVE  f \in Frame
  <2>1. f.seq \in Nat /\ f.count \in Nat /\ f = [kind |-> "sidebar", seq |-> f.seq, count |-> f.count]
    BY <1>5 DEF Sidebars
  <2>2. f.count <= f.seq
    BY <1>5, <2>1, CorrectFits
  <2>. QED
    BY <1>4, <1>5, <2>1, <2>2 DEF Frame
<1>6. stream[t] \in Running \cup [at : {"off"}, after : 0..MaxEvents]
  <2>1. CASE s.at = "off"
    <3>1. s = Off(s.after) /\ s.after \in Nat /\ s.after <= Len(log)
      BY <1>2, <1>3, <2>1 DEF StreamTyped, Ordered
    <3>. QED
      BY <3>1, <1>2, <1>4 DEF Off
  <2>2. CASE s.at # "off"
    <3>1. /\ s.at \in {"loop", "count", "send"}
          /\ s = [at |-> s.at, pos |-> s.pos, dirty |-> s.dirty, covered |-> s.covered,
                  observed |-> s.observed, frame |-> s.frame]
          /\ s.pos \in Nat /\ s.dirty \in BOOLEAN /\ s.covered \in Nat /\ s.observed \in Nat
          /\ IF s.at = "send" THEN s.frame \in Sidebars ELSE s.frame = NoFrame
      BY <1>2, <2>2 DEF StreamTyped, Off
    <3>2. s.pos <= Len(log) /\ NewestToSend(s, p, d.seen, Len(log))
      BY <1>3, <2>2 DEF Ordered
    <3>3. s.frame \in Frame \cup {NoFrame}
      <4>1. CASE s.at = "send"
        <5>1. s.frame \in Sidebars /\ s.frame.seq <= Len(log) /\ \E b : Correct(s.frame, log, b)
          BY <1>3, <3>1, <3>2, <4>1 DEF NewestToSend, Recounts
        <5>. QED
          BY <5>1, <1>5
      <4>2. CASE s.at # "send"
        BY <3>1, <4>2
      <4>. QED
        BY <4>1, <4>2
    <3>4. s.pos \in 0..MaxEvents
      BY <1>4, <3>1, <3>2
    <3>5. s \in Running
      BY <3>1, <3>3, <3>4 DEF Running
    <3>. QED
      BY <3>5, <1>2
  <2>. QED
    BY <2>1, <2>2
<1>7. pipe[t] \in Seq(Frame)
  <2>1. ASSUME NEW i \in DOMAIN p PROVE p[i] \in Frame
    <3>1. p[i] \in Frames
      BY <1>2, <2>1 DEF Pipes
    <3>2. s.at # "off"
      BY <1>3, <2>1 DEF Ordered
    <3>3. s.pos \in Nat /\ s.pos <= Len(log) /\ Rising(p, s.pos) /\ NewerThanBefore(p, d.seen, Len(log))
      BY <1>2, <1>3, <3>2 DEF Ordered, StreamTyped, Off
    <3>4. CASE p[i] \in Unreads
      <4>1. p[i].seq \in Nat \ {0} /\ p[i] = [kind |-> "unread", seq |-> p[i].seq]
        BY <3>4 DEF Unreads
      <4>2. p[i].seq <= s.pos
        BY <3>3, <3>4 DEF Rising, IsUnread, Unreads
      <4>3. p[i].seq \in 1..MaxEvents
        BY <1>4, <3>3, <4>1, <4>2
      <4>. QED
        BY <4>1, <4>3 DEF Frame
    <3>5. CASE p[i] \in Sidebars
      <4>1. IsSidebar(p[i])
        BY <3>5 DEF IsSidebar, Sidebars
      <4>2. p[i].seq <= Len(log) /\ \E b : Correct(p[i], log, b)
        BY <1>3, <3>3, <4>1 DEF NewerThanBefore, Recounts
      <4>. QED
        BY <3>5, <4>2, <1>5
    <3>. QED
      BY <3>1, <3>4, <3>5 DEF Frames
  <2>2. p \in Seq(Frames)
    BY <1>2 DEF Pipes
  <2>3. Len(p) \in Nat /\ DOMAIN p = 1..Len(p) /\ p = [i \in 1..Len(p) |-> p[i]]
    BY <2>2
  <2>4. p \in [1..Len(p) -> Frame]
    BY <2>1, <2>3
  <2>5. p \in Seq(Frame)
    BY <2>3, <2>4
  <2>. QED
    BY <2>5, <1>2
<1>8. Len(pipe[t]) <= MaxPipe /\ (post[t] # "none" <=> Waits(tab[t]))
  BY DEF Confined, Piped, Posted
<1>9. On(t) \/ pipe[t] = << >>
  BY <1>2, <1>3 DEF Ordered, On
<1>10. Cardinality(tab[t].events) <= Limit /\ shown[t] \in 0..MaxEvents
  BY <1>2, <1>3, <1>4 DEF Fits
<1>. QED
  BY <1>6, <1>7, <1>8, <1>9, <1>10 DEF Waits

(* Within the bounds of the model every state is of its type: no tab shows *)
(* more than there is or keeps more events than its limit                  *)
(* (unread-counts.ts:31-40), no more streams recount than there are slots  *)
(* (recount_limit.go), no watch leaves a generation behind (changes.go),   *)
(* and a tab waits for a request exactly while there is one.               *)
THEOREM TypeCorrect == Spec => []TypeOK
<1>1. Init => LInv /\ Confined
  BY InitLInv, InitConfined
<1>2. LInv /\ Confined /\ [Next]_vars => LInv' /\ Confined'
  BY NextLInv, NextBounded, NextWatched, NextSlotted, NextPiped, NextPosted DEF Confined
<1>3. LInv /\ Confined => TypeOK
  <2>. SUFFICES ASSUME LInv, Confined PROVE TypeOK
    OBVIOUS
  <2>1. PerTab /\ LogTyped
    BY DEF LInv
  <2>2. stream \in [Tabs -> Running \cup [at : {"off"}, after : 0..MaxEvents]]
    BY <2>1, PerTabTyped DEF PerTab
  <2>3. pipe \in [Tabs -> Seq(Frame)]
    BY <2>1, PerTabTyped DEF PerTab
  <2>4. shown \in [Tabs -> 0..MaxEvents]
    BY <2>1, PerTabTyped DEF PerTab
  <2>5. \A t \in Tabs :
          /\ Len(pipe[t]) <= MaxPipe /\ (On(t) \/ pipe[t] = << >>)
          /\ Cardinality(tab[t].events) <= Limit
          /\ post[t] # "none" <=> (tab[t].request # NoRequest /\ ~ tab[t].request.success)
    BY PerTabTyped
  <2>. QED
    BY <2>1, <2>2, <2>3, <2>4, <2>5
    DEF TypeOK, Confined, Bounded, Watched, Slotted, SlotsUsed, LogTyped, Logs
<1>. QED
  BY <1>1, <1>2, <1>3, PTL DEF Spec
=============================================================================
