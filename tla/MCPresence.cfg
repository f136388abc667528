SPECIFICATION Spec
CONSTANTS
  Members = {ann, ben}
  Streams = {s1, s2}
  Timers = {t1, t2, t3}
  MaxChanges = 1
  MaxGeneration = 4
  MaxProcess = 2
SYMMETRY Symmetry
INVARIANTS
  OnlineWhileOpen
  DepartureIsDue
  PageIsCurrent
