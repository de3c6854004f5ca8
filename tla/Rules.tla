--------------------------------- MODULE Rules ---------------------------------
(***************************************************************************)
(* Behavioral rules: incidents, proposed versions, reviewers' assessments   *)
(* and their consolidation into canonical versions                          *)
(* (application/rules/service.py, domain/behavioral_rules).                 *)
(* A submission holds the writer lock to its commit (module Coordinator),   *)
(* so an accepted one is one step and a rejected one changes nothing.  The  *)
(* clocks of clients agree with the order in which records are accepted.    *)
(* Texts are contents: a scope, a meaning (triggers, behavior, exceptions   *)
(* and boundary) and a wording.  Semantic versions are numbers, authorities *)
(* ranks of which 0 is the strongest.                                       *)
(***************************************************************************)
EXTENDS Naturals, FiniteSets, Records

CONSTANTS
  RuleActors,        \* pairwise independent identities
  RuleHumans,        \* those that may approve
  RulePolicies,
  RulesGoverned,     \* the policies whose requirement admits behavioral rules
  RulesProtected,    \* those that demand protected evaluation
  ReviewerRoles,     \* the code has five
  RuleIds,
  RuleDecisionIds,
  \* What clients may submit; the policy is added when they do.
  RuleIncidentPool,      \* id, reporter, grounded: its evidence is retained and primary
  RuleProposalPool,      \* id, version: a version that no approval has made canonical
  RuleReviewPool,        \* id, role, reviewer, proposal, incidents, conflict
  RuleCandidatePool,     \* id, rule, number, rank, content, creator, bounded: it has exceptions
  NoConflict

(* What the pools may hold (domain/behavioral_rules/models.py).             *)
RuleVersionFields ==
  {"id", "rule", "number", "rank", "content", "incidents", "supersedes", "status", "creator",
   "approver", "policy"}
WellFormedRules(versions, reviews, candidates) ==
  /\ \A v \in versions :
       /\ DOMAIN v = RuleVersionFields
       /\ v.rule \in RuleIds /\ v.content.scope # {} /\ v.incidents # {}
  /\ \A r \in reviews : r.incidents # {}
  /\ \A c \in candidates : c.rule \in RuleIds /\ {c.number, c.rank} \subseteq Nat

ASSUME RulePoolsAssumption ==
  WellFormedRules({p.version : p \in RuleProposalPool}, RuleReviewPool, RuleCandidatePool)

VARIABLES
  rulePolicy,        \* the active policy, which component governance moves
  ruleIncidents,     \* rule_incidents
  ruleVersions,      \* behavioral_rule_versions
  ruleProposals,     \* the accepted proposals of a rule, kept as transactions
  ruleReviews,       \* reviewer_assessments
  ruleDecisions,     \* rule_consolidation_decisions
  ruleRegressions,   \* rule_regression_cases
  ruleHeads          \* behavioral_rule_heads: the canonical version, if there is one

ruleRecords == <<ruleIncidents, ruleVersions, ruleProposals, ruleReviews, ruleDecisions,
                 ruleRegressions, ruleHeads>>
ruleVars == <<rulePolicy, ruleRecords>>

(* Status PROPOSED stands for UNDER_REVIEW of a rule nothing resembles,     *)
(* action ACCEPT for ACCEPT_WITH_REVISION and SPLIT, REJECT for             *)
(* ESCALATE_TO_HUMAN.                                                       *)
ProposedStatuses == {"PROPOSED", "UNDER_REVIEW"}
CanonicalStatuses == {"ACTIVE", "QUARANTINED"}
RuleActions == {"ACCEPT", "MERGE_WITH_EXISTING", "QUARANTINE", "REJECT"}
StatusForAction(action) == IF action = "QUARANTINE" THEN "QUARANTINED" ELSE "ACTIVE"

(* Two rules are NON_REDUNDANT exactly when their scopes are disjoint.      *)
RulesOverlap(content, other) == content.scope \cap other.scope # {}
ExactDuplicate(content, other) == content = other
SemanticDuplicate(content, other) ==
  content # other /\ content.scope = other.scope /\ content.meaning = other.meaning

CanonicalRules == {v \in ruleVersions : v.status \in CanonicalStatuses}
HeadRules == {v \in ruleVersions : v.id \in ruleHeads[v.rule]}

(* The approval every rule mutation carries under the active policy.        *)
RuleApproved(approver, proposer, authorities) ==
  /\ rulePolicy \in RulesGoverned
  /\ approver \notin authorities \cup {proposer}

Reporters(ids) == {i.reporter : i \in {j \in ruleIncidents : j.id \in ids}}

-----------------------------------------------------------------------------
RuleInit ==
  /\ rulePolicy \in RulePolicies
  /\ ruleIncidents = {} /\ ruleVersions = {} /\ ruleProposals = {} /\ ruleReviews = {}
  /\ ruleDecisions = {} /\ ruleRegressions = {}
  /\ ruleHeads = [r \in RuleIds |-> {}]

(* A policy transition, as far as this component sees it.                   *)
RulePolicyMoves(policy) ==
  /\ rulePolicy' = policy
  /\ UNCHANGED ruleRecords

RecordRuleIncident(incident, approver) ==
  /\ RuleApproved(approver, incident.reporter, {})
  /\ incident.grounded
  /\ incident.id \notin IdsOf(ruleIncidents)
  /\ ruleIncidents' = ruleIncidents \cup
       {[id |-> incident.id, reporter |-> incident.reporter, policy |-> rulePolicy]}
  /\ UNCHANGED <<rulePolicy, ruleVersions, ruleProposals, ruleReviews, ruleDecisions,
                 ruleRegressions, ruleHeads>>

(* One version of each number, proposed or canonical, fits the table.       *)
NumberFree(rule, number) == \A v \in ruleVersions : v.rule # rule \/ v.number # number

(* The same version may be proposed again, under another proposal.          *)
ProposeBehavioralRule(proposal, approver) ==
  LET version == [proposal.version EXCEPT !.policy = rulePolicy]
      others == {v \in ruleVersions : v.id # version.id}
      related == {v \in others : v.rule = version.rule \/ RulesOverlap(version.content, v.content)}
  IN /\ proposal.id \notin IdsOf(ruleProposals)
     /\ RuleApproved(approver, version.creator,
          Reporters(version.incidents) \cup {v.creator : v \in related}
            \cup UNION {v.approver : v \in related})
     /\ version.id \in IdsOf(ruleVersions) => version \in ruleVersions
     /\ version \notin ruleVersions =>
          /\ version.incidents \subseteq IdsOf(ruleIncidents)
          /\ version.status \in ProposedStatuses
          /\ NumberFree(version.rule, version.number)
          /\ \A v \in others :
               /\ ~ExactDuplicate(version.content, v.content)
               /\ SemanticDuplicate(version.content, v.content) => version.status = "UNDER_REVIEW"
     /\ ruleVersions' = ruleVersions \cup {version}
     /\ ruleProposals' = ruleProposals \cup {[id |-> proposal.id, version |-> version]}
     /\ UNCHANGED <<rulePolicy, ruleIncidents, ruleReviews, ruleDecisions, ruleRegressions,
                    ruleHeads>>

(* A reviewer is independent of those whose work is reviewed.               *)
ImportReviewerAssessment(review, approver) ==
  \E proposal \in ruleProposals :
    LET authorities == {proposal.version.creator} \cup Reporters(review.incidents)
    IN /\ proposal.id = review.proposal
       /\ RuleApproved(approver, review.reviewer, authorities)
       /\ review.reviewer \notin authorities
       /\ review.id \notin IdsOf(ruleReviews)
       /\ review.incidents \subseteq IdsOf(ruleIncidents)
       /\ ruleReviews' = ruleReviews \cup {[review EXCEPT !.policy = rulePolicy]}
       /\ UNCHANGED <<rulePolicy, ruleIncidents, ruleVersions, ruleProposals, ruleDecisions,
                      ruleRegressions, ruleHeads>>

(* One review of each role, all of one proposal and under the active        *)
(* policy, by reviewers independent of one another.                         *)
CompletePanels(proposal) ==
  {panel \in SUBSET {r \in ruleReviews : r.proposal = proposal /\ r.policy = rulePolicy} :
     /\ {r.role : r \in panel} = ReviewerRoles
     /\ Cardinality(panel) = Cardinality(ReviewerRoles)
     /\ Cardinality({r.reviewer : r \in panel}) = Cardinality(panel)}

(* Contradicting incidents need a boundary between them.                    *)
ConflictsResolved(panel, bounded) ==
  LET contradicting == {r \in panel : r.conflict # NoConflict}
      incidents == UNION {r.incidents : r \in contradicting}
  IN contradicting # {} =>
       /\ Cardinality({r.conflict : r \in contradicting}) = 1
       /\ bounded
       /\ Cardinality(incidents) >= 2

(* The accepted measurement of the candidate against its base and its       *)
(* passed audit, made under the active policy, of those that may be there.  *)
EvaluationBinds(integrator) ==
  {e \in [auditor: RuleActors, protected: BOOLEAN] :
     (rulePolicy \in RulesProtected => e.protected) /\ e.auditor # integrator} # {}

(* A first canonical version descends from the reviewed proposal, a later   *)
(* one from the head of its rule.                                           *)
RuleBase(rule, proposal) ==
  LET current == {v \in HeadRules : v.rule = rule}
  IN IF current # {} THEN current
     ELSE {p.version : p \in {q \in ruleProposals : q.id = proposal}}

(* Mutant of AffectedHeads: a quarantined rule is out of the way.           *)
AffectedActiveHeads(candidate) ==
  {v \in HeadRules : /\ v.rule # candidate.rule /\ v.status = "ACTIVE"
                     /\ RulesOverlap(candidate.content, v.content)}

AffectedHeads(candidate) ==
  {v \in HeadRules : v.rule # candidate.rule /\ RulesOverlap(candidate.content, v.content)}

RuleStrengthens(candidate, base, predecessors) ==
  /\ \A v \in base : v.rule = candidate.rule => candidate.number > v.number
  /\ \A v \in predecessors : candidate.rank <= v.rank

(* Mutant of RetainedIncidents: what a predecessor rests on is left out.    *)
IncidentsAfresh(predecessors, recurrences, panel) ==
  recurrences \cup UNION {r.incidents : r \in panel}

(* The incidents a candidate retains: its predecessors', the recurrences,   *)
(* and those its panel looked at.                                           *)
RetainedIncidents(predecessors, recurrences, panel) ==
  UNION {v.incidents : v \in predecessors} \cup recurrences \cup UNION {r.incidents : r \in panel}

(* The lineage, the incidents and the status a candidate must carry are     *)
(* given; one that carries others is rejected.                              *)
CandidateVersion(candidate, base, panel, action, recurrences, approver) ==
  LET predecessors == base \cup AffectedHeads(candidate)
  IN [id |-> candidate.id, rule |-> candidate.rule, number |-> candidate.number,
      rank |-> candidate.rank, content |-> candidate.content,
      incidents |-> RetainedIncidents(predecessors, recurrences, panel),
      supersedes |-> IdsOf(predecessors), status |-> StatusForAction(action),
      creator |-> candidate.creator, approver |-> {approver}, policy |-> rulePolicy]

RuleDecision(id, panel, action, version, produced) ==
  [id |-> id, reviews |-> IdsOf(panel), incidents |-> version.incidents,
   result |-> IdsOf(produced), action |-> action, policy |-> rulePolicy]

(* The regression cases of a version cover all its incidents; where they    *)
(* leave out a recurrence or a contradiction, it is rejected.               *)
ConsolidateBehavioralRule(decision, candidate, proposal, panel, action, recurrences, approver) ==
  LET integrator == candidate.creator
      base == RuleBase(candidate.rule, proposal)
      affected == AffectedHeads(candidate)
      version == CandidateVersion(candidate, base, panel, action, recurrences, approver)
      produced == IF action = "REJECT" THEN {} ELSE {version}
  IN /\ decision \notin IdsOf(ruleDecisions)
     /\ candidate.id \notin IdsOf(ruleVersions)
     /\ produced # {} => NumberFree(candidate.rule, candidate.number)
     /\ RuleApproved(approver, integrator,
          {r.reviewer : r \in panel} \cup {v.creator : v \in base \cup affected}
            \cup Reporters(version.incidents))
     /\ EvaluationBinds(integrator)
     /\ base # {}
     /\ \A v \in HeadRules : ~ExactDuplicate(candidate.content, v.content)
     /\ affected # {} => action = "MERGE_WITH_EXISTING"
     /\ RuleStrengthens(candidate, base, base \cup affected)
     /\ integrator \notin {r.reviewer : r \in panel}
     /\ ConflictsResolved(panel, candidate.bounded)
     /\ ruleVersions' = ruleVersions \cup produced
     /\ ruleDecisions' = ruleDecisions \cup {RuleDecision(decision, panel, action, version, produced)}
     /\ ruleRegressions' = ruleRegressions \cup
          {[version |-> v.id, incidents |-> v.incidents] : v \in produced}
     /\ ruleHeads' = [r \in RuleIds |->
          IF \E v \in produced : v.rule = r THEN {candidate.id} ELSE ruleHeads[r]]
     /\ UNCHANGED <<rulePolicy, ruleIncidents, ruleProposals, ruleReviews>>

RuleNext ==
  \/ \E policy \in RulePolicies : RulePolicyMoves(policy)
  \/ \E approver \in RuleHumans :
       \/ \E incident \in RuleIncidentPool : RecordRuleIncident(incident, approver)
       \/ \E proposal \in RuleProposalPool : ProposeBehavioralRule(proposal, approver)
       \/ \E review \in RuleReviewPool : ImportReviewerAssessment(review, approver)
       \/ \E proposal \in IdsOf(ruleProposals) :
            \E panel \in CompletePanels(proposal), decision \in RuleDecisionIds,
               candidate \in RuleCandidatePool, action \in RuleActions,
               recurrences \in SUBSET IdsOf(ruleIncidents) :
              ConsolidateBehavioralRule(decision, candidate, proposal, panel, action, recurrences,
                                        approver)

RuleSpec == RuleInit /\ [][RuleNext]_ruleVars

(* The head a replay of the accepted consolidations of a rule leaves.       *)
RebuiltHead(rule) ==
  LET versions == {v \in CanonicalRules : v.rule = rule}
  IN IdsOf({v \in versions : \A u \in versions : u.number <= v.number})

-----------------------------------------------------------------------------
(* Properties.                                                              *)

(* "Supersession adds history; it never replaces or deletes it"             *)
(* (docs/behavioral-rules.md): among the canonical versions of a rule the   *)
(* numbers tell which came later, a later one keeps every incident of the   *)
(* earlier ones and never has less authority, whatever merges lie between;  *)
(* the head is the latest, which verification rebuilds                      *)
(* (rules/service.py:902-1021).                                             *)
SupersessionAddsHistory ==
  \A v \in CanonicalRules :
    /\ \A u \in CanonicalRules : u.rule = v.rule /\ u.number <= v.number =>
         /\ u.number = v.number => u = v
         /\ u.incidents \subseteq v.incidents
         /\ v.rank <= u.rank
    /\ ruleHeads[v.rule] = RebuiltHead(v.rule)

(* Two heads that bear on one scope were merged knowingly: the later one    *)
(* names the earlier among those it supersedes, which stays the head of its *)
(* own rule (rules/service.py:969-978, 727).                                *)
OverlapsAreMerged ==
  \A v, u \in HeadRules :
    v # u /\ RulesOverlap(v.content, u.content) => v.id \in u.supersedes \/ u.id \in v.supersedes
(* Consolidation keeps the history it supersedes: of one rule the versions  *)
(* accumulate incidents and authority, and of two rules that bear on one    *)
(* scope the later names the earlier (rules/service.py:902-1021, 727).      *)
ConsolidationKeepsHistory == SupersessionAddsHistory /\ OverlapsAreMerged
=============================================================================
