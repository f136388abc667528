SPECIFICATION CacheSpec
CONSTANTS
  Callers = {p1, p2}
  Calls = {c1, c2}
  NoCall = NoCall
  Limit = 1
  MaxLoads = 1
  MaxEvents = 1
CHECK_DEADLOCK FALSE
INVARIANTS
  FreshForItsCall
  LoadLivesForItsWaiters
PROPERTIES
  NothingAfterShutdown
  EveryGetReturns
