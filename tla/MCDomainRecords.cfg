SPECIFICATION DomainRecordsSpec
CONSTANTS
  Claims = {v1, v2}
  Contents = {v1, v2}
  Evidence = {"e1", "e2"}
  Spans = {"s"}
  Assumptions = {"a1"}
  RequiredChecks = {"source_exists", "evidence_span_exists"}
  MaxVersions = 4
  RuleActors = {"m", "n", "x", "y", "h"}
  RuleHumans = {"h"}
  RulePolicies = {"p", "q"}
  RulesGoverned = {"p"}
  RulesProtected = {"p"}
  ReviewerRoles = {"CONFLICT", "VERIFICATION"}
  RuleIds = {"r1", "r2"}
  RuleDecisionIds = {d1, d2, d3}
  RuleIncidentPool <- MCRuleIncidents
  RuleProposalPool <- MCRuleProposals
  RuleReviewPool <- MCRuleReviews
  RuleCandidatePool <- MCRuleCandidates
  NoConflict = "none"
  HypothesisHumans = {"h"}
  HypothesisPolicies = {"p", "q"}
  HypothesesGoverned = {"p", "q"}
  HypothesisIds = {"H"}
  HypothesisPool <- MCVersions
  ModelPool <- MCModels
  MechanismPool <- MCMechanisms
  SimulationPool <- MCSimulations
  ResultPool <- MCResults
  CounterexamplePool <- MCCounterexamples
  RevisionPool <- MCRevisions
  MaxRenewals = 1
  RenewedStages = {"SIMULATION"}
  Tasks = {v1, v2}
  Digests = {v1, v2}
  MaxRequests = 2
  NoTask = "none"
  HarnessPolicies = {"p", "q"}
  HarnessGoverned = {"p"}
  HarnessProtected = {"p"}
  HarnessActors = {"m", "h"}
  HarnessHumans = {"h"}
  HarnessPartitions = {"DISCOVERY", "SAFETY"}
  CampaignPool <- MCCampaignPool
  IterationPool <- MCIterations
  CampaignResultPool <- MCCampaignResults
  ConfoundPool <- MCConfounds
  MaxCampaignSupport = 1
  SessionPolicies = {"p", "q"}
  SessionsGoverned = {"p"}
  Peers = {1, 2}
  SessionPool <- MCSessions
  RequestIds = {v1, v2}
  ContributionIds = {v1, v2}
  TopologyEventIds = {d1, d2, d3}
  Usages = {0, 1}
  MaxParents = 1
  TrailPolicies = {"p", "q"}
  TrailsGoverned = {"p"}
  TrailActors = {"b", "i", "v", "h"}
  TrailHumans = {"h"}
  TrailBuilders = {"b"}
  TrailEvidence <- MCTrailEvidence
  GraphPool <- MCGraphs
  AssessmentPool <- MCAssessments
  TrailVersionIds = {v1, v2}
  ReportModalities = {"ASSERTED", "QUALIFIED"}
  ClaimStrength = "QUALIFIED"
  MaxStages = 1
  MaxClaimVersions = 2
  MaxBackdated = 1
  MaxTrailMoves = 1
  MaxTrailEntries = 9
  ProcedurePolicies = {"p", "q"}
  ProcedureGoverned = {"p"}
  SourcePool <- MCSources
  ProfilePool <- MCProfiles
  MethodPool <- MCMethods
  Reserves <- MCReserves
  ProcedureRuns = {"r"}
  CompilationIds = {"m1"}
  OutcomeIds = {"o"}
  PlanVersionIds = {"n1"}
  BudgetRecords = {"g"}
  MaxSources = 4
  MaxPolicyMoves = 1
  CognitionPolicies = {"p", "q"}
  CognitionGoverned = {"p", "q"}
  CognitionActors = {"a", "h"}
  CognitionHumans = {"h"}
  ProfileRecords <- MCProfileRecords
  CohortRequests <- MCCohortRequests
  Correlations <- MCCorrelations
  MaxProfiles = 3
  MaxCognitionMoves = 1
  Policies = {"plain", "lean", "strict", "later", "stuck"}
  Document <- MCDocument
  Checks = {"support", "resolution"}
  Groundings = {"HUMAN_JUDGMENT"}
  Actors = {"m", "h"}
  Humans = {"h"}
  Cases <- GovernanceCases
  RunIds = {"b1", "b2", "b3"}
  AuditIds = {"b1", "b2", "b3"}
  MeasurementIds = {"b1", "b2", "b3"}
  Bundles <- SharedBundles
  VersionIds = {}
  DecisionIds = {}
  NoPolicy = "none"
  NoVersion = "none"
  NoRequirement = NoRequirement
  MaxTransitions = 3
  ResearchActors = {"m", "h"}
  ResearchRunIds = {"r1"}
  RunEventIds = {1, 2, 3}
  NoAssessor = "none"
SYMMETRY RecordSymmetry
CHECK_DEADLOCK FALSE
INVARIANTS
  HistoryFollowsGraph
  OnlyEarlyWithdrawalsFail
  ConsolidationKeepsHistory
  LineageRestsOnOnePolicy
  OutputsStayReadable
  ChannelInStep
  SessionsEndOnce
  TrailsReplayInOrder
  CompiledProceduresHold
  CognitionReplays
  SelectionsHaveReasons
  ChecksOnlyAccumulate
  GovernanceNeverLocks
  ConstitutionRebuilds
  RunHistoriesHold
PROPERTIES
  AdmissionOnCompleteEvidence
