SPECIFICATION Spec
CONSTANTS
  Ids = {i1, i2}
  Artifacts = {a1}
  Policies = {p1, p2}
  NoPolicy = NoPolicy
  MaxSource = 1
  MaxTarget = 1
  MaxTime = 0
INVARIANTS
  TargetEvidenceReadable
CHECK_DEADLOCK FALSE
