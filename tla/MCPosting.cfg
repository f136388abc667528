SPECIFICATION Spec
CONSTANTS
  plain = plain
  handle = handle
  Keys <- ThreeKeys
  Texts = {plain, handle}
  Handles = {handle}
  Empty = empty
  Kept = kept
  MaxItems = 2
  MaxRequests = 2
  MaxDisturbances = 1
  MaxAsked = 1
INVARIANTS
  OutcomeIsTrue
  OrderKept
  NoGhost
  RetriesPostOnceHere
