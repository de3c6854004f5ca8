SPECIFICATION AdaptationSpec
CONSTANTS
  Policies = {"lean"}
  Document <- MCDocument
  Checks = {"support", "resolution"}
  Groundings = {"HUMAN_JUDGMENT"}
  Actors = {m, h1, h2}
  Humans = {h1, h2}
  Cases <- EvaluatorCases
  RunIds = {r1}
  AuditIds = {a1}
  MeasurementIds = {s1}
  Bundles <- AllBundles
  VersionIds = {v1, v2}
  DecisionIds = {d1}
  NoPolicy = NoPolicy
  NoVersion = NoVersion
  NoRequirement = NoRequirement
  MaxTransitions = 0
SYMMETRY AdaptationSymmetry
CHECK_DEADLOCK FALSE
INVARIANTS
  FirstSuccessionPossible
