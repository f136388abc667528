SPECIFICATION RegistrySpec
CONSTANTS
  s1 = s1
  s2 = s2
  alice = alice
  Streams = {r1, r2}
  Sessions = {s1, s2}
  AccountOf <- Accounts
  Endings = {e1, e2}
  NoSession = NoSession
  Limit = 1
  MaxStreams = 2
SYMMETRY Symmetry
INVARIANTS
  RegistryTypeOK
  NoStreamOutlivesSession
  ShutdownReachesAll
