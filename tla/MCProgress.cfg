SPECIFICATION Spec
CONSTANTS
  Policies = {p, q}
  GovernsRuns = {p, q}
  GovernsProgress = {p, q}
  Actors = {model, validator, human}
  Humans = {human}
  model = model
  validator = validator
  human = human
  Configuration <- MCConfiguration
  RunIds = {r1}
  PlanIds = {l1, l2}
  EventIds = {1, 2, 3}
  BudgetIds = {1, 2}
  CheckpointIds = {c1}
  CompletionIds = {f1}
  Bodies <- MCBodies
  MaxRecords = 3
  Evidence = {e1}
  Times = {1, 2}
  Cases <- Reports
SYMMETRY Symmetry
CONSTRAINT Bounds
CHECK_DEADLOCK FALSE
INVARIANTS
  TypeOK
  OfficialIsClosure
PROPERTIES
  ImplementsReplay
  EventTakesEffect
