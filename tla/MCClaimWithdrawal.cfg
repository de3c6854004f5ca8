SPECIFICATION Spec
CONSTANTS
  Claims = {c1, c2}
  Evidence = {e1, e2}
  Spans = {s1}
  Contents = {x, y}
  Assumptions = {a1}
  RequiredChecks = {"source_exists", "evidence_span_exists"}
  MaxVersions = 4
INVARIANTS
  AdmissionKeepsWorkspaceVerifiable
CHECK_DEADLOCK FALSE
