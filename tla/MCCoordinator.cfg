SPECIFICATION FairSpec
CONSTANTS
  Clients = {c1, c2}
  Keys = {k1, k2}
  ProposalIds = {i1, i2}
  Entities = {governed}
  Governed = {governed}
  Digests = {}
  Policies = {p1, p2}
  NoClient = NoClient
  NoPolicy = NoPolicy
  NoFingerprint = NoFingerprint
  NoAttempt = NoAttempt
  Observed = {}
  MaxAudit = 2
  MaxBatch = 2
INVARIANTS
  KeyDecidedOnce
  PolicyHistoryReplays
  StaleClientsAcceptNothing
  TypeOK
  TransactionsMatchAudit
  ProjectionsMatchAudit
PROPERTIES
  HistoryOnlyGrows
  UnitOfWorkEnds
