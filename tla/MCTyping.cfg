SPECIFICATION Spec
CONSTANTS
  ann = ann
  bob = bob
  t1 = t1
  t2 = t2
  Members = {ann, bob}
  Topics = {t1, t2}
  Feed = feed
  Composers = {1, 2, 3}
  Scope <- Issued
  Timers = {x1, x2}
  Closures = {y1, y2}
  Requests = {r1}
  Names = 1
  Candidates = 2
  Expiry = 1
  SignalDeadline = 0
  ClosedRetention = 1
  None = none
  MaxStreams = 1
  Pages <- Looked
  MaxGeneration = 3
SYMMETRY Symmetry
INVARIANTS
  PageIsCurrent
PROPERTIES
  NothingAfterPost
  RefreshHolds
