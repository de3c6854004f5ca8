SPECIFICATION LedgersSpec
CONSTANTS
  Policies = {"lean", "strict"}
  Document <- MCDocument
  Checks = {"support", "resolution"}
  Groundings = {"HUMAN_JUDGMENT"}
  Actors = {m, n, h}
  Humans = {h}
  Cases <- EvaluatorCases
  RunIds = {r1}
  AuditIds = {a1, a2}
  MeasurementIds = {s1, s2}
  Bundles <- AllBundles
  VersionIds = {v1, v2}
  DecisionIds = {d1}
  NoPolicy = NoPolicy
  NoVersion = NoVersion
  NoRequirement = NoRequirement
  MaxTransitions = 1
  PrimitiveHumans = {"h"}
  PrimitivePolicies = {"p", "q"}
  PrimitivesGoverned = {"p"}
  PrimitivesProtected = {"p"}
  Primitives = {"A", "B"}
  PrimitivePool <- MCPrimitives
  EvaluationPool <- MCEvaluations
  MaxEvaluated = 4
  MaxSupported = 2
SYMMETRY AdaptationSymmetry
CHECK_DEADLOCK FALSE
INVARIANTS
  AdaptationTyped
  IdentitiesNameOneRecord
  CandidatesIndependentlyAudited
  CanonicalChains
