SPECIFICATION Spec
CONSTANTS
  Durable = durable
  presence = presence
  stream = stream
  Levels = {durable, presence}
  Raisers = {r1, r2}
  Waiters = {stream}
  Interests <- Both
  MaxSeq = 2
INVARIANTS
  NoLostWakeup
  ClosedOnce
PROPERTIES
  RaisesAreSeen
