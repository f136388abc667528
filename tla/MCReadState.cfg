SPECIFICATION Spec
CONSTANTS
  Readings = {p1}
  Writings = {q1}
  NoOne = NoOne
  Topics = {t1, t2}
  Joined = 1
  MaxSeq = 4
SYMMETRY Symmetry
INVARIANTS
  GapsHoldUnread
  CountsMatchTheSet
PROPERTIES
  MarksWhatWasAsked
  ChangedIsExact
