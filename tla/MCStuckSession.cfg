SPECIFICATION CollaborationSpec
CONSTANTS
  SessionPolicies = {"p", "q"}
  SessionsGoverned = {"p"}
  Peers = {1, 2}
  SessionPool <- MCSessions
  RequestIds = {v1, v2}
  ContributionIds = {v1, v2}
  TopologyEventIds = {d1, d2, d3}
  Usages = {0, 1}
  MaxParents = 1
SYMMETRY CollaborationSymmetry
CHECK_DEADLOCK FALSE
INVARIANTS
  EveryBoundEndsSessions
