------------------------------- MODULE Campaigns -------------------------------
(***************************************************************************)
(* Harness evaluation campaigns: a candidate harness is compared with a     *)
(* baseline over partitions of tasks, by iterations whose protected results *)
(* are recorded apart from them, and a decision is recomputed from all that *)
(* was retained (application/harness_eval/service.py).                      *)
(* A submission is one step (module Coordinator).  A result has one metric, *)
(* of which more is better.  Campaigns fix budgets and partitions when they *)
(* are created; what an iteration names of them is part of its input.       *)
(***************************************************************************)
EXTENDS Integers, FiniteSets, FiniteSetsExt, Records

CONSTANTS
  HarnessPolicies,       \* governance policies V2
  HarnessGoverned,       \* those with a requirement for harness code
  HarnessProtected,      \* those that demand protected partitions
  HarnessActors, HarnessHumans,
  HarnessPartitions,     \* the partitions campaigns have: five in the code
  CampaignPool,          \* id, producer, coordinator, protected, comparable, attempts, evaluator
  IterationPool,         \* id, campaign, index, partition, variant, attempt, result, passed,
                         \* negative, evaluator
  CampaignResultPool,    \* id, campaign, observation, passed, value, evaluator
  ConfoundPool,          \* id, campaign, changed, resolved
  MaxCampaignSupport     \* bound: audited and accepted measurements there are

Variants == {"BASELINE", "CANDIDATE"}

WellFormedCampaign(c) ==
  /\ c.producer \in HarnessActors /\ c.comparable \in BOOLEAN /\ c.protected \in BOOLEAN
  /\ c.attempts \in Nat \ {0}
(* An iteration has the result and the outcome together, or neither.        *)
WellFormedIteration(i) ==
  /\ i.index \in Nat /\ i.partition \in HarnessPartitions /\ i.variant \in Variants
  /\ i.attempt \in Nat \ {0}
  /\ Cardinality(i.result) <= 1 /\ (i.result = {} => ~i.passed)
  /\ ~(i.negative /\ i.passed)
WellFormedResult(r) == r.value \in Int /\ r.passed \in BOOLEAN
WellFormedConfound(f) == f.resolved \in BOOLEAN /\ f.changed \in BOOLEAN

ASSUME CampaignPoolsAssumption ==
  /\ \A c \in CampaignPool : WellFormedCampaign(c)
  /\ \A i \in IterationPool : WellFormedIteration(i)
  /\ \A r \in CampaignResultPool : WellFormedResult(r)
  /\ \A f \in ConfoundPool : WellFormedConfound(f)

VARIABLES
  harnessPolicy,      \* the active policy
  campaigns,          \* harness_campaigns, with their manifests and budgets
  observations,       \* harness_observations
  protectedResults,   \* the accepted results, and their metrics
  confounds,          \* harness_confounds
  campaignSupport,    \* audits and measurements over the results of campaigns
  campaignDecisions,  \* harness_decisions
  campaignHeads       \* harness_campaign_heads: the last decision on a campaign

recorded == <<campaigns, observations, protectedResults, confounds>>
decided == <<campaignDecisions, campaignHeads>>
campaignVars == <<harnessPolicy, recorded, campaignSupport, decided>>

IterationsOf(campaign) == {i \in observations : i.campaign = campaign}
ResultsOf(campaign) == {r \in protectedResults : r.campaign = campaign}
ConfoundsOf(campaign) == {f \in confounds : f.campaign = campaign}

CampaignInit ==
  /\ harnessPolicy \in HarnessPolicies
  /\ campaigns = {} /\ observations = {} /\ protectedResults = {} /\ confounds = {}
  /\ campaignSupport = {} /\ campaignDecisions = {}
  /\ campaignHeads = [c \in IdsOf(CampaignPool) |-> {}]

HarnessPolicyMoves(policy) ==
  /\ harnessPolicy' = policy
  /\ UNCHANGED <<recorded, campaignSupport, decided>>

HarnessPolicyRejects(campaign) ==
  \/ harnessPolicy \notin HarnessGoverned
  \/ campaign.coordinator \notin HarnessHumans
  \/ campaign.coordinator = campaign.producer
  \/ harnessPolicy \in HarnessProtected /\ ~campaign.protected

(* The coordinator approves what the producer of the candidate proposes.    *)
CreateHarnessCampaign(campaign) ==
  /\ ~HarnessPolicyRejects(campaign)
  /\ campaign.id \notin IdsOf(campaigns)
  /\ campaigns' = campaigns \cup {[campaign EXCEPT !.policy = harnessPolicy]}
  /\ UNCHANGED <<harnessPolicy, observations, protectedResults, confounds, campaignSupport,
                 decided>>

(* A record of a campaign is brought and approved by its coordinator alone. *)
SupportRecordAccepted(campaign, proposer) ==
  proposer \in HarnessHumans /\ proposer = campaign.coordinator

(* The policy has to be the active one, which need not be the campaign's,   *)
(* and indexes are not compared with those of other iterations.             *)
RecordHarnessIteration(iteration, proposer) ==
  \E campaign \in Retained(campaigns, iteration.campaign) :
    /\ iteration.id \notin IdsOf(observations)
    /\ SupportRecordAccepted(campaign, proposer)
    /\ iteration.attempt <= campaign.attempts
    /\ observations' = observations \cup {iteration}
    /\ UNCHANGED <<harnessPolicy, campaigns, protectedResults, confounds, campaignSupport,
                   decided>>

ResultBindsObservation(result, observation) ==
  /\ observation.campaign = result.campaign
  /\ observation.result = {result.id}
  /\ observation.passed = result.passed
  /\ observation.evaluator = result.evaluator

RecordHarnessProtectedResult(result, proposer) ==
  /\ result.id \notin IdsOf(protectedResults)
  /\ \E campaign \in Retained(campaigns, result.campaign),
        observation \in Retained(observations, result.observation) :
       /\ SupportRecordAccepted(campaign, proposer)
       /\ ResultBindsObservation(result, observation)
       /\ campaign.policy = harnessPolicy
       /\ protectedResults' = protectedResults \cup {result}
       /\ UNCHANGED <<harnessPolicy, campaigns, observations, confounds, campaignSupport, decided>>

RecordHarnessConfound(confound, proposer) ==
  \E campaign \in Retained(campaigns, confound.campaign) :
    /\ confound.id \notin IdsOf(confounds)
    /\ SupportRecordAccepted(campaign, proposer)
    /\ confounds' = confounds \cup {[confound EXCEPT !.policy = harnessPolicy]}
    /\ UNCHANGED <<harnessPolicy, campaigns, observations, protectedResults, campaignSupport,
                   decided>>

(* The audit of the campaign's evaluator and the measurement of its         *)
(* candidate, over the results there are by then, are transactions of       *)
(* another component; both are accepted here.                               *)
SupportCampaign(campaign) ==
  /\ Cardinality(campaignSupport) < MaxCampaignSupport
  /\ ResultsOf(campaign.id) # {}
  /\ campaignSupport' = campaignSupport \cup
       {[campaign |-> campaign.id, results |-> IdsOf(ResultsOf(campaign.id)),
         policy |-> harnessPolicy]}
  /\ UNCHANGED <<harnessPolicy, recorded, decided>>

-----------------------------------------------------------------------------
(* The report of a campaign and the decision on it.                         *)

(* A report retains the complete history, and its policy is the campaign's. *)
ReportValid(campaign) ==
  LET iterations == IterationsOf(campaign.id)
  IN /\ {i.index : i \in iterations} = 0..(Cardinality(iterations) - 1)
     /\ \A f \in ConfoundsOf(campaign.id) : f.policy = campaign.policy
     /\ (\E i \in iterations : i.evaluator # campaign.evaluator) =>
          \E f \in ConfoundsOf(campaign.id) : f.changed

(* Mutant of ResultsComplete: iterations that await their result are left   *)
(* out of the metrics.                                                      *)
ResultsSoFar(campaign) == ResultsOf(campaign.id) # {}

ResultsComplete(campaign) ==
  LET iterations == IterationsOf(campaign.id)
  IN /\ \A i \in iterations : i.result # {}
     /\ \A i, j \in iterations : i # j => i.result # j.result
     /\ UNION {i.result : i \in iterations} = IdsOf(ResultsOf(campaign.id))
     /\ \A r \in ResultsOf(campaign.id), i \in iterations :
          r.id \in i.result => r.observation = i.id /\ ResultBindsObservation(r, i)

InPartition(campaign, partition) ==
  {i \in IterationsOf(campaign) : i.partition = partition}

(* Both variants were tried in every partition, by one evaluator version.   *)
MetricsComplete(campaign) ==
  \A partition \in HarnessPartitions :
    /\ {i.variant : i \in InPartition(campaign.id, partition)} = Variants
    /\ Cardinality({i.evaluator : i \in InPartition(campaign.id, partition)}) = 1

AuthoritativeMetrics(campaign) == ResultsComplete(campaign) /\ MetricsComplete(campaign)

ResultsIn(campaign, partition, variant) ==
  {r \in ResultsOf(campaign) :
     \E i \in InPartition(campaign, partition) : i.variant = variant /\ r.observation = i.id}

(* The difference of the means, candidate less baseline, up to a factor.    *)
Gain(campaign, partition) ==
  LET candidate == ResultsIn(campaign, partition, "CANDIDATE")
      baseline == ResultsIn(campaign, partition, "BASELINE")
      total(results) == MapThenSumSet(LAMBDA r : r.value, results)
  IN total(candidate) * Cardinality(baseline) - total(baseline) * Cardinality(candidate)

Improved(campaign, partition) ==
  partition \in HarnessPartitions => Gain(campaign, partition) > 0
Regressed(campaign, partition) ==
  partition \in HarnessPartitions /\ Gain(campaign, partition) < 0

Catastrophic(campaign) ==
  \E i \in IterationsOf(campaign) : i.variant = "CANDIDATE" /\ (i.negative \/ ~i.passed)

(* decide_campaign: the first of the conditions that holds.                 *)
DecidedStatus(campaign, rollback, admission, claimed) ==
  LET id == campaign.id
  IN CASE rollback -> "ROLLED_BACK"
       [] ~rollback /\ (Catastrophic(id) \/ Regressed(id, "REGRESSION") \/ Regressed(id, "SAFETY"))
            -> "REGRESSION_DETECTED"
       [] OTHER ->
            IF ~campaign.comparable \/ \E f \in ConfoundsOf(id) : ~f.resolved THEN "INCONCLUSIVE"
            ELSE IF ~Improved(id, "DISCOVERY") THEN "INCONCLUSIVE"
            ELSE IF ~Improved(id, "TRANSFER") THEN "BENCHMARK_SPECIFIC"
            ELSE IF ~Improved(id, "VALIDATION") THEN "DISCOVERY_GAIN"
            ELSE IF ~admission THEN "TRANSFER_VALIDATED"
            ELSE IF claimed THEN "ADMITTED" ELSE "INCONCLUSIVE"

AdmissionSupported(campaign) ==
  \E s \in campaignSupport :
    /\ s.campaign = campaign.id /\ s.policy = campaign.policy
    /\ s.results = IdsOf(ResultsOf(campaign.id))

(* Decisions are identified by their report, so there may be any number of  *)
(* them on a campaign, an admitted or a rolled back one included.           *)
DecideHarnessCampaign(campaign, authority, rollback, admission, claimed) ==
  LET status == DecidedStatus(campaign, rollback, admission, claimed)
      decision == [campaign |-> campaign.id, status |-> status,
                   results |-> IdsOf(ResultsOf(campaign.id)),
                   confounds |-> IdsOf(ConfoundsOf(campaign.id))]
  IN /\ authority \in HarnessHumans /\ authority # campaign.producer
     /\ campaign.policy = harnessPolicy
     /\ ReportValid(campaign)
     /\ AuthoritativeMetrics(campaign)
     /\ status = "ADMITTED" => AdmissionSupported(campaign)
     /\ campaignDecisions' = campaignDecisions \cup {decision}
     /\ campaignHeads' = [campaignHeads EXCEPT ![campaign.id] = {decision}]
     /\ UNCHANGED <<harnessPolicy, recorded, campaignSupport>>

CampaignNext ==
  \/ \E policy \in HarnessPolicies : HarnessPolicyMoves(policy)
  \/ \E campaign \in CampaignPool : CreateHarnessCampaign(campaign)
  \/ \E proposer \in HarnessActors :
       \/ \E iteration \in IterationPool : RecordHarnessIteration(iteration, proposer)
       \/ \E result \in CampaignResultPool : RecordHarnessProtectedResult(result, proposer)
       \/ \E confound \in ConfoundPool : RecordHarnessConfound(confound, proposer)
       \/ \E campaign \in campaigns, rollback, admission, claimed \in BOOLEAN :
            DecideHarnessCampaign(campaign, proposer, rollback, admission, claimed)
  \/ \E campaign \in campaigns : SupportCampaign(campaign)

CampaignSpec == CampaignInit /\ [][CampaignNext]_campaignVars

-----------------------------------------------------------------------------
(* Properties.                                                              *)

(* "Admission requires [...] no unresolved confounds, accepted independent  *)
(* measurement and evaluator audit records, no catastrophic regression"     *)
(* (docs/harness-evolution-evaluation.md:60-61).  A harness is only         *)
(* admitted when every iteration recorded by then has its protected result, *)
(* none of the candidate's failed, and the audit and the measurement are    *)
(* over exactly these results, however iterations, results, confounds and   *)
(* audits arrived (harness_eval/service.py:751-766, 1032-1150, 1209-1242).  *)
AdmissionOnCompleteEvidence ==
  [][\A d \in campaignDecisions' \ campaignDecisions : d.status = "ADMITTED" =>
       /\ \A i \in IterationsOf(d.campaign) :
            /\ \E r \in protectedResults : r.observation = i.id
            /\ i.variant = "CANDIDATE" => i.passed
       /\ \A f \in ConfoundsOf(d.campaign) : f.resolved
       /\ \E s \in campaignSupport :
            s.campaign = d.campaign /\ s.results = IdsOf(ResultsOf(d.campaign))]_campaignVars
=============================================================================
