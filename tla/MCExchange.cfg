SPECIFICATION Spec
CONSTANTS
  Ids = {i1, i2}
  Artifacts = {a1, a2}
  Policies = {p1, p2}
  NoPolicy = NoPolicy
  MaxSource = 2
  MaxTarget = 1
  MaxTime = 1
SYMMETRY Symmetry
INVARIANTS
  TypeOK
  RoundTripCharacterised
  ReimportReplays
PROPERTIES
  VerifiedImportReproducesSource
  ImportNeverRewrites
CHECK_DEADLOCK FALSE
