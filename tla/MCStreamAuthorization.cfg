SPECIFICATION AuthorizationSpec
CONSTANTS
  m1 = m1
  m2 = m2
  alice = alice
  Streams = {r1, r2}
  Orgs = {o1, o2}
  Slugs = {x, y}
  Members = {m1, m2}
  AccountOf <- Account
  Capacity = 1
  MaxEpoch = 4
SYMMETRY Symmetry
INVARIANTS
  AllowedWasMember
  DeniedWasNot
CHECK_DEADLOCK FALSE
