SPECIFICATION Spec
CONSTANTS
  Clients = {c1, c2}
  Keys = {k1, k2}
  ProposalIds = {i1}
  Entities = {plain}
  Governed = {}
  Digests = {d1}
  Policies = {p1, p2}
  NoClient = NoClient
  NoPolicy = NoPolicy
  NoFingerprint = NoFingerprint
  NoAttempt = NoAttempt
  Observed = {k1}
  MaxAudit = 2
  MaxBatch = 1
SYMMETRY Symmetry
INVARIANTS
  AckedDecisionsAreDurable
  NoReversedAnswer
PROPERTIES
  ImplementsLedger
