SPECIFICATION Spec
CONSTANTS
  plain = plain
  handle = handle
  Keys <- ThreeKeys
  Texts = {plain, handle}
  Handles = {}
  Empty = empty
  Kept = kept
  MaxItems = 1
  MaxRequests = 1
  MaxDisturbances = 1
  MaxAsked = 1
INVARIANTS
  RetriesPostOnce
