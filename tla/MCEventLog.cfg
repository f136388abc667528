SPECIFICATION Spec
CONSTANTS
  Writers = {w1, w2, old}
  Legacy = {old}
  Cleaners = {c1, c2}
  Readers = {r1}
  NoOne = NoOne
  MigratedSeq = 1
  RetainBatch = 2
  ReadLimit = 1
  MaxSeq = 4
  MaxTime = 2
SYMMETRY Symmetry
INVARIANTS
  LogContiguous
  ReaderMissesNothing
PROPERTIES
  NoEventBehindCursor
  OnlyExpiredDeleted
  ImplementsCommittedLog
