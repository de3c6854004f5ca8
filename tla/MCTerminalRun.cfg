SPECIFICATION ResearchSpec
CONSTANTS
  ResearchActors = {a, b}
  ResearchRunIds = {r1}
  RunEventIds = {1, 2, 3}
  NoAssessor = NoAssessor
SYMMETRY ResearchSymmetry
CHECK_DEADLOCK FALSE
INVARIANTS
  TerminalRunsEnd
