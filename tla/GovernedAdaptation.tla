--------------------------- MODULE GovernedAdaptation ---------------------------
(***************************************************************************)
(* Governed adaptation: the constitutional policy transition                *)
(* (application/transactions/governance.py) and the records it competes     *)
(* with and depends on, research runs, evaluator audits, measurements,      *)
(* evaluator versions and evaluator succession                              *)
(* (application/improvement/service.py, application/research_runs).         *)
(*                                                                          *)
(* A submission holds the writer lock to its commit (module Coordinator),   *)
(* so each accepted proposal is one step.  Proposals are written by clients *)
(* at any time, under whatever policy was active then.  What the code       *)
(* checks of one proposal against itself alone (that the records embedded   *)
(* in it bind one another) is one flag of the proposal's case.  The         *)
(* evaluator a version is of (an identifier is of one evaluator), the       *)
(* presence of a rollback and the evidence the gates of a succession name   *)
(* are left out: their authors choose them, and what some choice of them    *)
(* lets through is let through.                                             *)
(***************************************************************************)
EXTENDS Naturals, Sequences, FiniteSets

CONSTANTS
  Policies,        \* policy hashes
  Document,        \* the policy document each hash is the hash of
  Checks,          \* claim checks a policy may require
  Groundings,      \* external groundings, NONE left out
  Actors,          \* actor identities, pairwise independent
  Humans,          \* the human ones
  Cases,           \* the cases proposals make for themselves
  RunIds, AuditIds, MeasurementIds, VersionIds, DecisionIds,
  Bundles,         \* the records transitions bring
  NoPolicy, NoVersion, NoRequirement,
  MaxTransitions   \* bound on the number of accepted policy transitions

(* Verification levels by their rank; the top three are deterministic or    *)
(* stronger (governance.py:380-394).                                        *)
Levels == 0..7
Constitutional == {5, 6, 7}
Kinds == {"HUMAN", "MODEL"}
Kind(a) == IF a \in Humans THEN "HUMAN" ELSE "MODEL"

(* What a policy may have a requirement for: a target with a persistence.   *)
Scopes == {"governance", "evaluator", "process"}

Requirements ==
  [minimum: Levels, permitted: (SUBSET (Groundings \cup {"NONE"})) \ {{}}, approver: Kinds,
   evaluated: BOOLEAN, reversible: BOOLEAN]
Documents ==
  [version: {1, 2}, checks: SUBSET Checks, keepsHuman: BOOLEAN,
   requires: [Scopes -> Requirements \cup {NoRequirement}]]

(* A case: the classification, and whether the embedded measurement, audit  *)
(* and run are complete, accepted, within budget and bind one another.      *)
AllCases ==
  [scope: Scopes, closed: BOOLEAN, level: Levels, grounding: Groundings \cup {"NONE"},
   sound: BOOLEAN]

ASSUME DocumentAssumption == Document \in [Policies -> Documents]
ASSUME VersionOneAssumption ==
  \A p \in Policies, s \in Scopes : Document[p].version = 1 => Document[p].requires[s] = NoRequirement

(* A transition brings a run, a measurement of its candidate and the audit  *)
(* of the evaluator that measured it, by anybody but its producer.          *)
ASSUME BundlesAssumption ==
  Bundles \subseteq [run: RunIds, audit: AuditIds, measurement: MeasurementIds,
                    evaluator: VersionIds \cup {NoVersion}, producer: Actors, auditor: Actors]
ASSUME CasesAssumption == Cases \subseteq AllCases
ASSUME ActorsAssumption == Humans \subseteq Actors
ASSUME NonesAssumption ==
  NoPolicy \notin Policies /\ NoVersion \notin VersionIds /\ NoRequirement \notin Requirements
ASSUME BoundAssumption == MaxTransitions \in Nat

VARIABLES
  active,        \* governance_state: the active policy
  registered,    \* governance_policies
  transitions,   \* the accepted transitions, in the order of the audit log
  runs, audits, measurements, versions,   \* the append-only record tables
  head,          \* evaluator_heads: the active evaluator version
  decisions      \* succession decisions, with the coordinator's verdict on each

adaptationVars ==
  <<active, registered, transitions, runs, audits, measurements, versions, head, decisions>>

Runs == [id: RunIds, policy: Policies]
(* The subject of an audit is the evaluator version audited, that of a      *)
(* measurement the one whose change is measured; NoVersion for another      *)
(* evaluator, or another change.                                            *)
Subjects == VersionIds \cup {NoVersion}
Audits == [id: AuditIds, subject: Subjects, auditor: Actors, proposer: Actors,
           producer: Actors, passed: BOOLEAN, policy: Policies]
(* A measurement retains the classification of the change it measured.      *)
Class(case) ==
  [scope |-> case.scope, closed |-> case.closed, level |-> case.level, grounding |-> case.grounding]
Classes == {Class(case) : case \in Cases}
Measurements == [id: MeasurementIds, run: RunIds, audit: AuditIds, subject: Subjects,
                 class: Classes, proposer: Actors, accepted: BOOLEAN, policy: Policies]
Versions == [id: VersionIds, predecessor: VersionIds \cup {NoVersion}, producer: Actors,
             policy: Policies]
Transitions ==
  [proposer: Actors, approver: Actors, case: Cases, prior: Policies,
   candidate: Policies, rollback: Policies, bundle: Bundles]
Successions ==
  [id: DecisionIds, predecessor: VersionIds, candidate: VersionIds, audit: AuditIds,
   proposer: Actors, authority: Actors, accepted: BOOLEAN]

Ids(table) == {r.id : r \in table}
Named(table, id) == {r \in table : r.id = id}

-----------------------------------------------------------------------------
(* Authority.                                                               *)

Requirement(p, scope) == Document[p].requires[scope]
IsV2(p) == p # NoPolicy /\ Document[p].version = 2

(* An approval by somebody else, of the given kind.                         *)
ApprovedBy(proposer, approver, kind) ==
  Kind(approver) = kind /\ approver # proposer

(* What the requirement of policy p for its scope asks of a case.           *)
Meets(case, approver, p) ==
  LET r == Requirement(p, case.scope)
  IN /\ r # NoRequirement
     /\ case.level >= r.minimum
     /\ case.grounding \in r.permitted
     /\ Kind(approver) = r.approver

(* _adaptation_requirement_rejection.                                       *)
AdaptationAuthority(case, proposer, approver, evaluated) ==
  /\ IsV2(active)
  /\ ~case.closed
  /\ case.grounding # "NONE"
  /\ Meets(case, approver, active)
  /\ approver # proposer
  /\ Requirement(active, case.scope).evaluated => evaluated

(* _support_record_authority_rejection.                                     *)
SupportAuthority(proposer, approver) ==
  IsV2(active) /\ ApprovedBy(proposer, approver, "HUMAN")

(* _run_authority_rejection: run-local records ask for exactly the          *)
(* deterministic check, with human judgement and a human approver.          *)
RunAuthority(proposer, approver) ==
  LET r == Requirement(active, "process")
  IN /\ IsV2(active)
     /\ r # NoRequirement
     /\ r.minimum = 5 /\ "HUMAN_JUDGMENT" \in r.permitted /\ r.approver = "HUMAN"
     /\ ApprovedBy(proposer, approver, "HUMAN")

-----------------------------------------------------------------------------
(* The constitutional transition (ProposeGovernancePolicyTransitionHandler).*)

(* _constitutional_identity_rejection, _constitutional_classification_      *)
(* rejection and, when the case is sound, _measurement_rejection.           *)
ConstitutionalCase(t) ==
  /\ ApprovedBy(t.proposer, t.approver, "HUMAN")
  /\ t.case.scope = "governance"
  /\ ~t.case.closed
  /\ t.case.level \in Constitutional
  /\ t.case.grounding # "NONE"
  /\ t.case.sound
  /\ t.bundle.auditor \notin {t.proposer, t.bundle.producer}

(* Mutant of MeetsActive: the candidate's own requirement is consulted.     *)
MeetsCandidate(t) == Document[t.candidate].version = 2 => Meets(t.case, t.approver, t.candidate)

(* _active_policy_requirement_rejection: V1 has no requirement of its own.  *)
MeetsActive(t) == Document[active].version = 2 => Meets(t.case, t.approver, active)

(* Mutant of ConstitutionalFloor: the approver kind of the candidate's      *)
(* requirement is not looked at.                                            *)
FloorOfAnyApprover(q) ==
  LET r == Requirement(q, "governance")
  IN /\ r # NoRequirement /\ r.evaluated /\ r.reversible
     /\ r.minimum \in Constitutional /\ "NONE" \notin r.permitted

(* What every V2 candidate must still require of the next transition.       *)
ConstitutionalFloor(q) ==
  LET r == Requirement(q, "governance")
  IN /\ r # NoRequirement /\ r.approver = "HUMAN" /\ r.evaluated /\ r.reversible
     /\ r.minimum \in Constitutional /\ "NONE" \notin r.permitted

(* Mutant of Compatible: a rollback to V1 may drop checks.                  *)
CompatibleUnlessV1(p, q) ==
  /\ Document[p].version = 1 => Document[q].version = 2
  /\ Document[q].version = 2 => Document[p].checks \subseteq Document[q].checks
  /\ Document[q].keepsHuman
  /\ Document[q].version = 2 => ConstitutionalFloor(q)

(* _candidate_compatibility_rejection.                                      *)
Compatible(p, q) ==
  /\ Document[p].version = 1 => Document[q].version = 2
  /\ Document[p].checks \subseteq Document[q].checks
  /\ Document[q].keepsHuman
  /\ Document[q].version = 2 => ConstitutionalFloor(q)

(* All a transition needs but bootstrap identities nobody has used.         *)
Complies(t) ==
  /\ ConstitutionalCase(t)
  /\ t.prior = active
  /\ MeetsActive(t)
  /\ t.rollback \in registered
  /\ Compatible(active, t.candidate)

(* Mutant of FreshBootstrap: only the measurement has to be new.            *)
FreshMeasurement(t) == t.bundle.measurement \notin Ids(measurements)

FreshBootstrap(t) ==
  /\ t.bundle.run \notin Ids(runs)
  /\ t.bundle.audit \notin Ids(audits)
  /\ t.bundle.measurement \notin Ids(measurements)

(* The records the transition projects with its candidate.                  *)
BootstrapAudit(t) ==
  [id |-> t.bundle.audit, subject |-> t.bundle.evaluator, auditor |-> t.bundle.auditor,
   proposer |-> t.proposer, producer |-> t.bundle.producer, passed |-> TRUE, policy |-> t.prior]
BootstrapMeasurement(t) ==
  [id |-> t.bundle.measurement, run |-> t.bundle.run, audit |-> t.bundle.audit,
   subject |-> NoVersion, class |-> Class(t.case), proposer |-> t.proposer, accepted |-> TRUE,
   policy |-> t.prior]

ProposeGovernancePolicyTransition(t) ==
  /\ active # NoPolicy
  /\ Complies(t)
  /\ FreshBootstrap(t)
  /\ audits' = audits \cup {BootstrapAudit(t)}
  /\ runs' = runs \cup {[id |-> t.bundle.run, policy |-> t.prior]}
  /\ measurements' = measurements \cup {BootstrapMeasurement(t)}
  /\ registered' = registered \cup {t.candidate}
  /\ active' = t.candidate
  /\ transitions' = Append(transitions, t)
  /\ UNCHANGED <<versions, head, decisions>>

-----------------------------------------------------------------------------
(* init, and the ordinary proposals.                                        *)

AdaptationInit ==
  /\ active = NoPolicy
  /\ registered = {}
  /\ transitions = <<>>
  /\ runs = {} /\ audits = {} /\ measurements = {} /\ versions = {}
  /\ head = NoVersion
  /\ decisions = {}

(* Mutant of InitCommand: any policy may be installed over another.         *)
InitCommandOverActive(q) ==
  /\ active' = q
  /\ registered' = registered \cup {q}
  /\ UNCHANGED <<transitions, runs, audits, measurements, versions, head, decisions>>

InitCommand(q) ==
  /\ active \in {NoPolicy, q}
  /\ active' = q
  /\ registered' = registered \cup {q}
  /\ UNCHANGED <<transitions, runs, audits, measurements, versions, head, decisions>>

CreateResearchRun(id, proposer, approver) ==
  /\ RunAuthority(proposer, approver)
  /\ id \notin Ids(runs)
  /\ runs' = runs \cup {[id |-> id, policy |-> active]}
  /\ UNCHANGED <<active, registered, transitions, audits, measurements, versions, head, decisions>>

(* Mutant of Governed: the governing policy is not stored.                  *)
Ungoverned(record) == record

(* From here on a submitted record is written without its governing policy: *)
(* naming any but the active one is a rejection, so what is stored names    *)
(* the active one.  The subject is an evaluator version: nothing reads      *)
(* audits and measurements of other subjects again.                         *)
Governed(record) ==
  [f \in DOMAIN record \cup {"policy"} |-> IF f = "policy" THEN active ELSE record[f]]

(* The auditor proposes its own record; the record's validation demands an  *)
(* auditor independent of the audited change's proposer and producer.       *)
RecordEvaluatorAudit(a, approver) ==
  /\ SupportAuthority(a.auditor, approver)
  /\ a.auditor \notin {a.proposer, a.producer}
  /\ a.id \notin Ids(audits)
  /\ audits' = audits \cup {Governed(a)}
  /\ UNCHANGED <<active, registered, transitions, runs, measurements, versions, head, decisions>>

(* Mutant of AuditBinds: an audit made under an earlier policy still counts.*)
AuditBindsUnderAnyPolicy(a, m) == a.subject = m.subject /\ a.proposer = m.proposer

(* _audit_matches_measurement.                                              *)
AuditBinds(a, m) == a.subject = m.subject /\ a.proposer = m.proposer /\ a.policy = m.policy

(* The classification of the proposal is the measurement's own.             *)
Classified(m, case) ==
  [f \in DOMAIN m \cup {"class"} |-> IF f = "class" THEN Class(case) ELSE m[f]]

(* Only measurements of an evaluator change are looked for later.           *)
RecordSelfImprovementMeasurement(m, case, approver) ==
  /\ case.scope = "evaluator" /\ case.sound
  /\ AdaptationAuthority(case, m.proposer, approver, TRUE)
  /\ m.id \notin Ids(measurements)
  /\ m.run \in Ids(runs)
  /\ \E a \in Named(audits, m.audit) : a.passed /\ AuditBinds(a, Governed(Classified(m, case)))
  /\ measurements' = measurements \cup {Governed(Classified(m, case))}
  /\ UNCHANGED <<active, registered, transitions, runs, audits, versions, head, decisions>>

(* _measurement_binds_evaluator_candidate: accepted measurements of this    *)
(* version under the active policy and the version's own classification.    *)
Measuring(v, case) ==
  {m \in measurements :
     m.subject = v.id /\ m.accepted /\ m.policy = active /\ m.class = Class(case)}

(* Some passed audit of an accepted measurement names the version's         *)
(* producer as the producer of what was audited.                            *)
Vouched(v, case) ==
  \E m \in Measuring(v, case), a \in audits :
    a.id = m.audit /\ AuditBinds(a, m) /\ a.producer = v.producer /\ a.passed

IsRoot(v) == v.predecessor = NoVersion

ProposeEvaluatorVersion(v, case, approver) ==
  /\ case.scope = "evaluator"
  /\ AdaptationAuthority(case, v.producer, approver, IsRoot(v) \/ Measuring(v, case) # {})
  /\ v.id \notin Ids(versions)
  /\ ~IsRoot(v) => v.predecessor \in Ids(versions) /\ Vouched(v, case)
  /\ versions' = versions \cup {Governed(v)}
  /\ UNCHANGED <<active, registered, transitions, runs, audits, measurements, head, decisions>>

-----------------------------------------------------------------------------
(* Evaluator succession.                                                    *)

(* The record's own validation of a promotion: a human authority            *)
(* independent of the change (the four passed gates are not modelled).      *)
PromotionBarred(d, c) ==
  d.accepted /\ (Kind(d.authority) # "HUMAN" \/ d.authority \in {d.proposer, c.producer})

(* The candidate and the audit it rests on, all under the active policy.    *)
CandidateAudited(d, c) ==
  /\ c.predecessor = d.predecessor
  /\ c.policy = active
  /\ \E a \in Named(audits, d.audit) :
       /\ a.passed /\ a.subject = c.id /\ a.producer = c.producer
       /\ a.proposer = d.proposer /\ a.policy = active

(* Everything decide_evaluator_succession asks but the active evaluator.    *)
SuccessionSupported(d, case, approver) ==
  /\ case.scope = "evaluator"
  /\ AdaptationAuthority(case, d.authority, approver, TRUE)
  /\ \A e \in decisions : e.admitted => e.decision.id # d.id
  /\ d.predecessor \in Ids(versions)
  /\ \E c \in Named(versions, d.candidate) : CandidateAudited(d, c) /\ ~PromotionBarred(d, c)

(* ... and that the predecessor is the active evaluator.  Nothing but an    *)
(* admitted decision writes the evaluator head.                             *)
SuccessionAdmitted(d, case, approver) ==
  SuccessionSupported(d, case, approver) /\ head = d.predecessor

(* The decision is stored with its verdict; an admitted promotion moves the *)
(* head.  The models keep the supported ones only.                          *)
DecideEvaluatorSuccession(d, case, approver) ==
  /\ SuccessionSupported(d, case, approver)
  /\ LET admitted == SuccessionAdmitted(d, case, approver)
     IN /\ decisions' = decisions \cup {[decision |-> d, admitted |-> admitted]}
        /\ head' = IF admitted /\ d.accepted THEN d.candidate ELSE head
  /\ UNCHANGED <<active, registered, transitions, runs, audits, measurements, versions>>

-----------------------------------------------------------------------------
(* Transitions classified as such, from the active policy and back to a     *)
(* registered one: any other is rejected.                                   *)
SubmittedTransitions ==
  [proposer: Actors, approver: Actors, case: {c \in Cases : c.scope = "governance"},
   prior: Policies \cap {active}, candidate: Policies,
   rollback: Policies \cap registered, bundle: Bundles]
(* Audits under fresh identities, and measurements that also name a         *)
(* retained run and audit, likewise.                                        *)
SubmittedAudits ==
  [id: AuditIds \ Ids(audits), subject: VersionIds, auditor: Actors, proposer: Actors,
   producer: Actors, passed: BOOLEAN]
SubmittedMeasurements ==
  [id: MeasurementIds \ Ids(measurements), run: Ids(runs), audit: Ids(audits), subject: VersionIds,
   proposer: Actors, accepted: BOOLEAN]
(* The classifications of the proposals about evaluators: any other is a    *)
(* rejection.                                                               *)
EvaluatorChanges == {c \in Cases : c.scope = "evaluator"}
SubmittedVersions == [id: VersionIds, predecessor: VersionIds \cup {NoVersion}, producer: Actors]
(* Decisions between retained versions, a root being no candidate, and on a *)
(* retained audit: any other is rejected.                                   *)
SubmittedSuccessions ==
  [id: DecisionIds, predecessor: Ids(versions),
   candidate: Ids({v \in versions : ~IsRoot(v)}), audit: Ids(audits),
   proposer: Actors, authority: Actors, accepted: BOOLEAN]

AdaptationNext ==
  \/ \E q \in Policies : InitCommand(q)
  \/ /\ Len(transitions) < MaxTransitions
     /\ \E t \in SubmittedTransitions : ProposeGovernancePolicyTransition(t)
  \/ \E id \in RunIds, proposer \in Actors, approver \in Actors :
       CreateResearchRun(id, proposer, approver)
  \/ \E a \in SubmittedAudits, approver \in Actors : RecordEvaluatorAudit(a, approver)
  \/ \E m \in SubmittedMeasurements, case \in EvaluatorChanges, approver \in Actors :
       RecordSelfImprovementMeasurement(m, case, approver)
  \/ \E v \in SubmittedVersions, case \in EvaluatorChanges, approver \in Actors :
       ProposeEvaluatorVersion(v, case, approver)
  \/ \E d \in SubmittedSuccessions, case \in EvaluatorChanges, approver \in Actors :
       DecideEvaluatorSuccession(d, case, approver)

AdaptationSpec == AdaptationInit /\ [][AdaptationNext]_adaptationVars

-----------------------------------------------------------------------------
(* Properties.                                                              *)

AdaptationTyped ==
  /\ active \in Policies \cup {NoPolicy}
  /\ registered \subseteq Policies
  /\ transitions \in Seq(Transitions)
  /\ runs \subseteq Runs
  /\ audits \subseteq Audits
  /\ measurements \subseteq Measurements
  /\ versions \subseteq Versions
  /\ head \in VersionIds \cup {NoVersion}
  /\ decisions \subseteq [decision: Successions, admitted: BOOLEAN]

(* No sequence of transitions, a rollback to V1 and back included, drops a  *)
(* claim check that any policy of the history required                      *)
(* (governance.py:328-333): the checks only accumulate.                     *)
ChecksOnlyAccumulate ==
  \A p \in registered : Document[p].checks \subseteq Document[active].checks

(* A policy that came in by a transition, or a first policy that is V1 or   *)
(* itself meets the floor, can always be left: some proposal satisfies both *)
(* the constitution and the active policy (governance.py:252-377).  The     *)
(* safeguards never combine into a policy that nothing can change.          *)
SelfGoverning(p) == Document[p].version = 1 \/ ConstitutionalFloor(p)
FirstPolicy == IF transitions = <<>> THEN active ELSE transitions[1].prior
GovernanceNeverLocks ==
  active # NoPolicy /\ SelfGoverning(FirstPolicy) => \E t \in Transitions : Complies(t)

(* Every transition was authorised by the requirement of the policy it      *)
(* replaced, the one its predecessor installed, and never by the            *)
(* candidate's (governance.py:252-314).                                     *)
PolicyBefore(i) == IF i = 1 THEN FirstPolicy ELSE transitions[i - 1].candidate
AuthorisedByPredecessor ==
  \A i \in 1..Len(transitions) :
    LET t == transitions[i]
    IN Document[PolicyBefore(i)].version = 2 => Meets(t.case, t.approver, PolicyBefore(i))

(* Whole-workspace verification rebuilds the policies from the accepted     *)
(* transitions alone: each continues the chain, its rollback target was     *)
(* registered before it, the registered policies are the first one and the  *)
(* candidates, and the last candidate is active                             *)
(* (workspace_integrity.py:2956-3005).                                      *)
RegisteredBefore(i) == {FirstPolicy} \cup {transitions[j].candidate : j \in 1..(i - 1)}
PolicyChainRebuilds ==
  active # NoPolicy =>
    /\ \A i \in 1..Len(transitions) :
         transitions[i].prior = PolicyBefore(i) /\ transitions[i].rollback \in RegisteredBefore(i)
    /\ registered = RegisteredBefore(Len(transitions) + 1)
    /\ active = PolicyBefore(Len(transitions) + 1)

(* A constitution's history explains itself: it is rebuilt from the         *)
(* transitions, each of which the policy it replaced authorised.            *)
ConstitutionRebuilds == PolicyChainRebuilds /\ AuthorisedByPredecessor

(* ... and the records: an identifier names one run, audit or measurement,  *)
(* whichever kind of proposal brought it (workspace_integrity.py:1905-1950).*)
IdentitiesNameOneRecord ==
  \A table \in {runs, audits, measurements} : \A r, s \in table : r.id = s.id => r = s

(* Every evaluator version but a root was vouched for before it was         *)
(* recorded, under its own policy, by an audit somebody other than its      *)
(* producer made of its producer's work: a policy transition in between     *)
(* leaves measurements that no longer count (service.py:456-540).           *)
CandidatesIndependentlyAudited ==
  \A v \in versions :
    ~IsRoot(v) =>
      \E m \in measurements, a \in audits :
        /\ m.subject = v.id /\ m.accepted /\ m.policy = v.policy
        /\ a.id = m.audit /\ a.subject = v.id /\ a.passed /\ a.policy = v.policy
        /\ a.auditor # v.producer

(* The first promotion of a candidate that has everything a promotion needs *)
(* (service.py:585-695), from the only root evaluator, is admitted: before  *)
(* it the evaluator head may be empty, and only an accepted succession      *)
(* changes the head (docs/governed-adaptation.md:88-89).                    *)
Roots == {v.id : v \in {u \in versions : IsRoot(u)}}
FirstSuccessionPossible ==
  \A e \in decisions :
    e.decision.accepted /\ Roots = {e.decision.predecessor} /\ head = NoVersion => e.admitted

=============================================================================
