SPECIFICATION Spec
CONSTANTS
  Histories <- TwoHistories
  BatchSize = 2
  PipeSize = 1
  MaxSeq = 2
  MaxFailures = 1
CHECK_DEADLOCK FALSE
INVARIANTS
  NothingMissed
  OnceInOrder
  OneLateFrame
  ResetOnlyWhenGone
PROPERTIES
  EveryEventReaches
  RevokedStreamEnds
