SPECIFICATION Spec
CONSTANTS
  Ids = {i1, i2}
  Artifacts = {}
  Policies = {p1, p2}
  NoPolicy = NoPolicy
  MaxSource = 1
  MaxTarget = 0
  MaxTime = 1
INVARIANTS
  IntendedImportsPass
CHECK_DEADLOCK FALSE
