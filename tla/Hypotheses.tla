------------------------------- MODULE Hypotheses -------------------------------
(***************************************************************************)
(* The loop of hypotheses, models, checkers and revisions                   *)
(* (application/transactions/hypotheses.py, domain/hypotheses).             *)
(*                                                                         *)
(* A submission holds the writer lock to its commit (module Coordinator),   *)
(* so an accepted one is one step and a rejected one changes nothing.  Every*)
(* stage names receipts of the stages it rests on: accepted submissions, in *)
(* the order of their audit events.  The log of accepted stages is that     *)
(* history, and the tables hold what it appended.  Submitting a retained    *)
(* record again is accepted and makes another receipt of it.                *)
(*                                                                         *)
(* Clients' clocks agree with the order of acceptance; identities are       *)
(* pairwise independent; the evaluator audit and the measurement of an      *)
(* admission are made for it, under the active policy (GovernedAdaptation); *)
(* no hypothesis here uses a primitive.                                     *)
(***************************************************************************)
EXTENDS Naturals, Sequences, FiniteSets, Records

CONSTANTS
  HypothesisHumans,     \* those that may approve
  HypothesisPolicies,
  HypothesesGoverned,   \* the policies whose run-local requirement admits the loop
  HypothesisIds,
  \* What clients may submit; the policy is filled in when they do.
  HypothesisPool,          \* id, hypothesis, number, content, proposer, validated, grounded
  ModelPool,            \* id, version, builtin: run by a simulator of the registry, actor
  MechanismPool,        \* id, version, deterministic, actor
  SimulationPool,       \* id, version, model, reproduces: the registry computes its output
  ResultPool,           \* id, version, mechanism, simulations, outcome, searched, found, actor
  CounterexamplePool,   \* id, version, results, grounded, actor
  RevisionPool,         \* id, prior, results, counterexamples, resulting, actor
  RenewedStages,        \* bound: the stages whose records are submitted again,
  MaxRenewals           \* and how often this happens

(* What the pools may hold (domain/hypotheses/models.py).                   *)
HypothesisSpecFields ==
  {"id", "hypothesis", "number", "content", "proposer", "validated", "grounded", "policy"}
HypothesisSpecs(pool) ==
  \A v \in pool :
    /\ DOMAIN v = HypothesisSpecFields
    /\ v.hypothesis \in HypothesisIds /\ v.number \in Nat \ {0} /\ v.validated \in BOOLEAN

PolicyBound(pool) == \A r \in pool : "policy" \in DOMAIN r

VerificationResults(pool) ==
  \A r \in pool :
    /\ r.outcome \in {"PASS", "FAIL", "ABSTAIN"}
    /\ r.found => r.searched /\ r.outcome = "FAIL"

CounterexampleRecords(pool) == \A c \in pool : c.results # {}

RevisionRecords(pool) ==
  \A r \in pool : r.results # {} /\ r.resulting.number >= 2 /\ r.resulting.id # r.prior

ASSUME HypothesisPoolsAssumption ==
  /\ HypothesisSpecs(HypothesisPool \cup {r.resulting : r \in RevisionPool})
  /\ VerificationResults(ResultPool) /\ CounterexampleRecords(CounterexamplePool)
  /\ RevisionRecords(RevisionPool)
  /\ PolicyBound(ModelPool \cup MechanismPool \cup SimulationPool \cup ResultPool
                   \cup CounterexamplePool \cup RevisionPool)

VARIABLES
  hypothesisPolicy,     \* the active policy
  hypothesisLog,        \* accepted stages in the order of their audit events
  hypothesisAdmissions, \* hypothesis_admission_decisions
  hypothesisHeads       \* hypothesis_heads: the admitted version, if there is one

hypothesisVars == <<hypothesisPolicy, hypothesisLog, hypothesisAdmissions, hypothesisHeads>>

-----------------------------------------------------------------------------
(* The tables, and the receipts of what is in them.                         *)

Accepted(stage) ==
  {hypothesisLog[i].record : i \in {j \in DOMAIN hypothesisLog : hypothesisLog[j].stage = stage}}

HypothesisVersions == Accepted("VERSION") \cup {r.resulting : r \in Accepted("REVISION")}

Renewals == Len(hypothesisLog) - Cardinality({hypothesisLog[i] : i \in DOMAIN hypothesisLog})

Accept(stage, record) ==
  /\ record \in Accepted(stage) => stage \in RenewedStages /\ Renewals < MaxRenewals
  /\ hypothesisLog' = Append(hypothesisLog, [stage |-> stage, record |-> record])
  /\ UNCHANGED <<hypothesisPolicy, hypothesisAdmissions, hypothesisHeads>>

(* A version is received when it is proposed or when a revision brings it.  *)
CandidateReceived(version, i) ==
  \/ hypothesisLog[i] = [stage |-> "VERSION", record |-> version]
  \/ hypothesisLog[i].stage = "REVISION" /\ hypothesisLog[i].record.resulting = version

ReceivedIn(stage, records, positions) ==
  \A r \in records : \E i \in positions : hypothesisLog[i] = [stage |-> stage, record |-> r]

(* A submission can name receipts of the candidate, then of the records of  *)
(* one stage and then of those of another (_strict_stage_order).            *)
InTurn(candidate, stage, records, nextStage, nextRecords) ==
  \E i, j \in DOMAIN hypothesisLog :
    /\ CandidateReceived(candidate, i)
    /\ ReceivedIn(stage, records, (i + 1)..j)
    /\ ReceivedIn(nextStage, nextRecords, (j + 1)..Len(hypothesisLog))

-----------------------------------------------------------------------------
(* What every mutation needs.                                               *)

HypothesisApproved(approver, actors) ==
  hypothesisPolicy \in HypothesesGoverned /\ approver \notin actors

(* Mutant of BindsCandidate: the receipt's policy is not looked at.         *)
BindsRetained(version, candidate) == candidate \in Retained(HypothesisVersions, version)

(* A stage binds one retained candidate, received under the active policy.  *)
BindsCandidate(version, candidate) ==
  candidate \in Retained(HypothesisVersions, version) /\ candidate.policy = hypothesisPolicy

-----------------------------------------------------------------------------
HypothesisInit ==
  /\ hypothesisPolicy \in HypothesisPolicies
  /\ hypothesisLog = <<>> /\ hypothesisAdmissions = {}
  /\ hypothesisHeads = [h \in HypothesisIds |-> {}]

(* A policy transition, as far as this component sees it; one before which  *)
(* nothing was accepted leads where another initial policy does.            *)
HypothesisPolicyMoves(policy) ==
  /\ hypothesisLog # <<>>
  /\ hypothesisPolicy' = policy
  /\ UNCHANGED <<hypothesisLog, hypothesisAdmissions, hypothesisHeads>>

(* Only the first version of a new hypothesis is proposed.                  *)
ProposeHypothesisVersion(version, approver) ==
  /\ HypothesisApproved(approver, {version.proposer})
  /\ Stable(HypothesisVersions, version)
  /\ version \notin HypothesisVersions =>
       /\ version.number = 1
       /\ \A v \in HypothesisVersions : v.hypothesis # version.hypothesis
       /\ version.grounded
  /\ Accept("VERSION", version)

RegisterExecutableModel(model, approver) ==
  \E candidate \in HypothesisVersions :
    /\ BindsCandidate(model.version, candidate)
    /\ HypothesisApproved(approver, {model.actor, candidate.proposer})
    /\ Stable(Accepted("MODEL"), model)
    /\ Accept("MODEL", model)

RegisterVerificationMechanism(mechanism, approver) ==
  \E candidate \in HypothesisVersions :
    /\ BindsCandidate(mechanism.version, candidate)
    /\ HypothesisApproved(approver, {mechanism.actor, candidate.proposer})
    /\ Stable(Accepted("MECHANISM"), mechanism)
    /\ Accept("MECHANISM", mechanism)

(* A simulation is recorded by whom registered its model, and only if the   *)
(* registry reproduces its output.                                          *)
RecordSimulationResult(simulation, approver) ==
  \E candidate \in HypothesisVersions, model \in Retained(Accepted("MODEL"), simulation.model) :
    /\ BindsCandidate(simulation.version, candidate)
    /\ HypothesisApproved(approver, {model.actor, candidate.proposer})
    /\ model.version = candidate.id /\ model.policy = hypothesisPolicy
    /\ model.builtin /\ simulation.reproduces
    /\ Stable(Accepted("SIMULATION"), simulation)
    /\ Accept("SIMULATION", simulation)

(* Whoever checks made the mechanism, before the simulations it looks at,   *)
(* and did not propose the candidate (_verification_quality_rejection).     *)
RecordVerificationResult(result, approver) ==
  \E candidate \in HypothesisVersions, mechanism \in Retained(Accepted("MECHANISM"), result.mechanism) :
    LET simulations == {s \in Accepted("SIMULATION") : s.id \in result.simulations}
    IN /\ BindsCandidate(result.version, candidate)
       /\ HypothesisApproved(approver, {result.actor, candidate.proposer})
       /\ IdsOf(simulations) = result.simulations
       /\ \A s \in simulations : s.version = candidate.id
       /\ InTurn(candidate, "MECHANISM", {mechanism}, "SIMULATION", simulations)
       /\ mechanism.actor = result.actor /\ result.actor # candidate.proposer
       /\ mechanism.version = candidate.id /\ mechanism.policy = hypothesisPolicy
       /\ mechanism.deterministic => result.searched
       /\ candidate.grounded
       /\ Stable(Accepted("RESULT"), result)
       /\ Accept("RESULT", result)

(* A found counterexample rests on failed searches for one.                 *)
RecordCounterexample(counterexample, approver) ==
  \E candidate \in HypothesisVersions :
    LET results == {r \in Accepted("RESULT") : r.id \in counterexample.results}
    IN /\ BindsCandidate(counterexample.version, candidate)
       /\ HypothesisApproved(approver,
            {counterexample.actor, candidate.proposer} \cup {r.actor : r \in results})
       /\ results # {} /\ IdsOf(results) = counterexample.results
       /\ \A r \in results :
            r.version = candidate.id /\ r.outcome = "FAIL" /\ r.searched /\ r.found
       /\ InTurn(candidate, "RESULT", results, "COUNTEREXAMPLE", {})
       /\ counterexample.grounded
       /\ Stable(Accepted("COUNTEREXAMPLE"), counterexample)
       /\ Accept("COUNTEREXAMPLE", counterexample)

(* Mutant of PriorIsHead: a version need not be admitted to be revised.     *)
PriorIsRetained(prior) == prior \in HypothesisVersions

PriorIsHead(prior) == hypothesisHeads[prior.hypothesis] = {prior.id}

(* The admitted version is revised because checks of it failed or abstained;*)
(* one version of each number fits the table.                               *)
ReviseHypothesis(revision, approver) ==
  \E prior \in Retained(HypothesisVersions, revision.prior) :
    LET resulting == revision.resulting
        results == {r \in Accepted("RESULT") : r.id \in revision.results}
        counterexamples == {c \in Accepted("COUNTEREXAMPLE") : c.id \in revision.counterexamples}
    IN /\ HypothesisApproved(approver,
            {revision.actor, prior.proposer, resulting.proposer}
              \cup {r.actor : r \in results \cup counterexamples})
       /\ PriorIsHead(prior)
       /\ results # {} /\ IdsOf(results) = revision.results
       /\ IdsOf(counterexamples) = revision.counterexamples
       /\ \A r \in results : r.version = prior.id /\ r.outcome # "PASS"
       /\ \A c \in counterexamples : c.version = prior.id
       /\ resulting.hypothesis = prior.hypothesis /\ resulting.number = prior.number + 1
       /\ resulting.content # prior.content
       /\ InTurn(prior, "RESULT", results, "COUNTEREXAMPLE", counterexamples)
       /\ revision \notin Accepted("REVISION") =>
            /\ revision.id \notin IdsOf(Accepted("REVISION"))
            /\ resulting.id \notin IdsOf(HypothesisVersions)
            /\ \A v \in HypothesisVersions :
                 v.hypothesis = resulting.hypothesis => v.number # resulting.number
       /\ Accept("REVISION", revision)

(* The revisions an admission has to name, all that lead to the candidate,  *)
(* in the order of the versions they result in.                             *)
RelevantRevisions(candidate) ==
  {r \in Accepted("REVISION") :
     /\ r.resulting.hypothesis = candidate.hypothesis
     /\ r.resulting.number <= candidate.number}

AdvancesHypothesis(candidate) ==
  LET head == {v \in HypothesisVersions : v.id \in hypothesisHeads[candidate.hypothesis]}
      revisions == RelevantRevisions(candidate)
  IN IF candidate.number = 1 THEN head = {} /\ revisions = {}
     ELSE /\ \E v \in head : v.number = candidate.number - 1
          /\ candidate \in {r.resulting : r \in revisions}
          /\ \A r, s \in revisions :
               s.resulting.number = r.resulting.number + 1 => s.prior = r.resulting.id

(* One simulated model and one passed search suffice; others that a         *)
(* submission names have to satisfy the same and change nothing.            *)
AdmitHypothesis(candidate, model, search, integrator, approver) ==
  /\ HypothesisApproved(approver, {integrator, candidate.proposer, model.actor, search.actor})
  /\ candidate.validated
  /\ \A c \in Accepted("COUNTEREXAMPLE") : c.version # candidate.id
  /\ model.version = candidate.id /\ model.builtin
  /\ search.version = candidate.id /\ search.outcome = "PASS"
  /\ search.searched /\ ~search.found
  /\ \A k \in Retained(Accepted("MECHANISM"), search.mechanism) : k.deterministic
  /\ AdvancesHypothesis(candidate)
  /\ InTurn(candidate, "MODEL", {model}, "RESULT", {search})
  /\ hypothesisAdmissions' = hypothesisAdmissions \cup
       {[version |-> candidate.id, revisions |-> IdsOf(RelevantRevisions(candidate)),
         rollback |-> hypothesisHeads[candidate.hypothesis], policy |-> hypothesisPolicy]}
  /\ hypothesisHeads' = [hypothesisHeads EXCEPT ![candidate.hypothesis] = {candidate.id}]
  /\ UNCHANGED <<hypothesisPolicy, hypothesisLog>>

(* Records name the policy under which they are submitted.                  *)
Dated(record) == [record EXCEPT !.policy = hypothesisPolicy]
DatedRevision(revision) ==
  [revision EXCEPT !.policy = hypothesisPolicy, !.resulting.policy = hypothesisPolicy]

HypothesisNext ==
  \/ \E policy \in HypothesisPolicies : HypothesisPolicyMoves(policy)
  \/ \E approver \in HypothesisHumans :
       \/ \E version \in HypothesisPool : ProposeHypothesisVersion(Dated(version), approver)
       \/ \E model \in ModelPool : RegisterExecutableModel(Dated(model), approver)
       \/ \E mechanism \in MechanismPool : RegisterVerificationMechanism(Dated(mechanism), approver)
       \/ \E simulation \in SimulationPool : RecordSimulationResult(Dated(simulation), approver)
       \/ \E result \in ResultPool : RecordVerificationResult(Dated(result), approver)
       \/ \E counterexample \in CounterexamplePool :
            RecordCounterexample(Dated(counterexample), approver)
       \/ \E revision \in RevisionPool : ReviseHypothesis(DatedRevision(revision), approver)
       \/ \E candidate \in HypothesisVersions, model \in Accepted("MODEL"),
             search \in Accepted("RESULT") :
            AdmitHypothesis(candidate, model, search, candidate.proposer, approver)

HypothesisSpec == HypothesisInit /\ [][HypothesisNext]_hypothesisVars

-----------------------------------------------------------------------------
(* Properties.                                                              *)

(* A hypothesis is one line of versions: of each number there is one, every *)
(* one but the first revises the version before, which was admitted, after  *)
(* a check that it did not pass, and at most the last awaits admission      *)
(* (hypotheses.py:1629-1668, 2240; uq_hypothesis_version).                  *)
LineageIsLinear ==
  \A v \in HypothesisVersions :
    LET line == {u \in HypothesisVersions : u.hypothesis = v.hypothesis}
        admitted == {u \in line : u.id \in {a.version : a \in hypothesisAdmissions}}
        revisions == {r \in Accepted("REVISION") : r.resulting = v}
    IN /\ \A u \in line : u.number = v.number => u = v
       /\ v.number > 1 =>
            /\ Cardinality(revisions) = 1
            /\ \E r \in revisions, u \in line, c \in Accepted("RESULT") :
                 /\ u.id = r.prior /\ u.number = v.number - 1
                 /\ c.version = u.id /\ c.outcome # "PASS"
       /\ v \in admitted \/ \A u \in line : u.number <= v.number
       /\ hypothesisHeads[v.hypothesis] =
            IdsOf({u \in admitted : \A w \in admitted : w.number <= u.number})

(* What vouches for or against a version was recorded under the policy of   *)
(* the version, whatever policies have become active since: after a         *)
(* transition nothing more can be learnt of it (hypotheses.py:2145-2165).   *)
EvidenceUnderOnePolicy ==
  \A v \in HypothesisVersions :
    \A e \in UNION {Accepted(stage) :
               stage \in {"MODEL", "MECHANISM", "SIMULATION", "RESULT", "COUNTEREXAMPLE"}} :
      e.version = v.id => e.policy = v.policy
(* A hypothesis is one line of admitted versions, each revised because of a *)
(* check under its own policy, whatever becomes active and is proposed      *)
(* meanwhile (hypotheses.py:1629-1668, 2145-2165, 2240).                    *)
LineageRestsOnOnePolicy == LineageIsLinear /\ EvidenceUnderOnePolicy
=============================================================================
