SPECIFICATION Spec
CONSTANTS
  tab1 = tab1
  Tabs = {tab1}
  Slots = 1
  Limit = 1
  MaxEvents = 2
  MaxReads = 1
  MaxFaults = 1
  MaxPipe = 1
CHECK_DEADLOCK FALSE
INVARIANTS
  ExactWhenQuiet
  AddsUpWhatItSaw
PROPERTIES
  ExactAgain
