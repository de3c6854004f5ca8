---------------------------- MODULE Representations ----------------------------
(***************************************************************************)
(* Representational primitives: candidate versions are staged, evaluated in *)
(* the old and in the new frame, and admitted as the canonical head of      *)
(* their primitive (application/transactions/representations.py,            *)
(* application/representations/service.py).  A version that overlaps        *)
(* another primitive is kept as a suspected duplicate.                      *)
(* The two evaluations of an admission come after its candidate and before  *)
(* its support, in either order: the chain of receipts is sorted before it  *)
(* is compared (representations.py:1339-1350).                              *)
(* A submission is one step (module Coordinator), and the clocks of clients *)
(* agree with the order in which proposals are accepted.  The check results *)
(* and the evidence an evaluation names are those of the active policy.     *)
(***************************************************************************)
EXTENDS Naturals, Sequences, FiniteSets, Records

CONSTANTS
  PrimitiveHumans,       \* those that may approve
  PrimitivePolicies,
  PrimitivesGoverned,    \* the policies whose requirement admits primitives
  PrimitivesProtected,   \* those that demand protected evaluation
  Primitives,
  \* What clients may submit; the policy is added when they do.
  PrimitivePool,     \* id, primitive, number, concept, meaning, operation, predecessors,
                     \* dependencies, proposer, status
  EvaluationPool,    \* id, candidate, frame, evaluator, checkers, passed
  MaxEvaluated,      \* bound: evaluations there are
  MaxSupported       \* bound: audited measurements there are

Frames == {"OLD_FRAME", "NEW_FRAME"}
Promotable == {"LOCALLY_USEFUL", "REPLICATED", "STABILIZED"}
PrimitiveStatuses == Promotable \cup {"DUPLICATE_SUSPECTED", "EXPERIMENTAL"}

PrimitiveFields ==
  {"id", "primitive", "number", "concept", "meaning", "operation", "predecessors", "dependencies",
   "proposer", "status", "policy"}
WellFormedPrimitive(v) ==
  /\ DOMAIN v = PrimitiveFields
  /\ v.primitive \in Primitives /\ v.status \in PrimitiveStatuses
  /\ v.number \in Nat \X Nat \X Nat
  /\ v.id \notin v.predecessors \cup v.dependencies
WellFormedEvaluation(e) ==
  /\ e.frame \in Frames /\ e.checkers # {} /\ e.passed \in BOOLEAN

ASSUME PrimitivePoolsAssumption ==
  /\ \A v \in PrimitivePool : WellFormedPrimitive(v)
  /\ \A e \in EvaluationPool : WellFormedEvaluation(e)

VARIABLES
  primitivePolicy,       \* the active policy
  stagedPrimitives,      \* primitive_versions, in the order of their acceptance
  primitiveEvaluations,  \* primitive_evaluations and the receipts of their transactions
  primitiveSupport,      \* the passed audits and the accepted measurements of candidates
  primitiveAdmissions,   \* the accepted admissions
  primitiveHeads         \* primitive_heads

primitiveVars == <<primitivePolicy, stagedPrimitives, primitiveEvaluations, primitiveSupport,
                   primitiveAdmissions, primitiveHeads>>

StagedPrimitives == {stagedPrimitives[i] : i \in DOMAIN stagedPrimitives}
VersionsOf(primitive) ==
  {i \in DOMAIN stagedPrimitives : stagedPrimitives[i].primitive = primitive}

(* The approval every primitive mutation carries under the active policy.   *)
PrimitiveApproved(approver, authorities) ==
  primitivePolicy \in PrimitivesGoverned /\ approver \notin authorities

(* Major, minor, patch, the build left aside.                               *)
Precedes(prior, current) ==
  \/ prior[1] < current[1]
  \/ prior[1] = current[1] /\ prior[2] < current[2]
  \/ prior[1] = current[1] /\ prior[2] = current[2] /\ prior[3] < current[3]

SemanticChange(prior, current) ==
  IF prior.meaning # current.meaning \/ prior.concept # current.concept
  THEN "MEANING_INCOMPATIBLE"
  ELSE IF prior.operation # current.operation THEN "COMPATIBLE_EXPANSION" ELSE "CLARIFICATION"

VersionChangeAccepted(prior, current, change) ==
  /\ Precedes(prior, current)
  /\ change = "CLARIFICATION" => prior[1] = current[1] /\ prior[2] = current[2]
  /\ change = "COMPATIBLE_EXPANSION" => prior[1] = current[1] /\ prior[2] < current[2]
  /\ change = "MEANING_INCOMPATIBLE" => prior[1] < current[1]

(* Mutant of ProjectedStatus: only canonical versions are compared with.    *)
StatusBesideHeads(version) ==
  IF \E v \in StagedPrimitives : /\ v.primitive # version.primitive /\ v.concept = version.concept
                                 /\ v.id \in primitiveHeads[v.primitive]
  THEN "DUPLICATE_SUSPECTED" ELSE version.status

(* Texts that are equal word for word also have one concept.                *)
ProjectedStatus(version) ==
  IF \E v \in StagedPrimitives : v.primitive # version.primitive /\ v.concept = version.concept
  THEN "DUPLICATE_SUSPECTED" ELSE version.status

-----------------------------------------------------------------------------
PrimitiveInit ==
  /\ primitivePolicy \in PrimitivePolicies
  /\ stagedPrimitives = <<>> /\ primitiveEvaluations = {} /\ primitiveSupport = {}
  /\ primitiveAdmissions = {}
  /\ primitiveHeads = [p \in Primitives |-> {}]

PrimitivePolicyMoves(policy) ==
  /\ primitivePolicy' = policy
  /\ UNCHANGED <<stagedPrimitives, primitiveEvaluations, primitiveSupport, primitiveAdmissions,
                 primitiveHeads>>

(* The head of a primitive, or its latest version before it has one.        *)
CurrentPredecessor(primitive) ==
  LET latest == {i \in VersionsOf(primitive) : \A j \in VersionsOf(primitive) : j <= i}
  IN IF primitiveHeads[primitive] # {} THEN primitiveHeads[primitive]
     ELSE {stagedPrimitives[i].id : i \in latest}

StageLineage(version) ==
  /\ version.predecessors = CurrentPredecessor(version.primitive)
  /\ \A v \in StagedPrimitives : v.id \in version.predecessors =>
       VersionChangeAccepted(v.number, version.number, SemanticChange(v, version))

(* An exact version staged again is accepted and changes nothing.           *)
ProposePrimitiveVersion(version, approver) ==
  /\ PrimitiveApproved(approver, {version.proposer})
  /\ version.id \notin IdsOf(StagedPrimitives)
  /\ \A v \in StagedPrimitives : v.primitive = version.primitive => v.number # version.number
  /\ version.dependencies \subseteq IdsOf(StagedPrimitives)
  /\ StageLineage(version)
  /\ stagedPrimitives' = Append(stagedPrimitives,
       [version EXCEPT !.status = ProjectedStatus(version), !.policy = primitivePolicy])
  /\ UNCHANGED <<primitivePolicy, primitiveEvaluations, primitiveSupport, primitiveAdmissions,
                 primitiveHeads>>

(* Those that take part are pairwise independent.                           *)
Independent(author, evaluations, approver) ==
  LET evaluators == {e.evaluator : e \in evaluations}
      checkers == UNION {e.checkers : e \in evaluations}
  IN /\ {author, approver} \cap (evaluators \cup checkers) = {} /\ author # approver
     /\ evaluators \cap checkers = {}
     /\ \A e, f \in evaluations :
          e # f => e.evaluator # f.evaluator /\ e.checkers \cap f.checkers = {}

(* What the receipt of an accepted candidate resolves to.                   *)
PrimitiveReceived(id) == {v \in StagedPrimitives : v.id = id}

EvaluationSound(evaluation, mustPass) ==
  /\ evaluation.policy = primitivePolicy
  /\ mustPass => evaluation.passed

(* The policy the candidate was accepted under is still the active one.     *)
RecordPrimitiveEvaluation(evaluation, approver) ==
  \E candidate \in PrimitiveReceived(evaluation.candidate) :
    /\ PrimitiveApproved(approver, {})
    /\ Independent(candidate.proposer, {evaluation}, approver)
    /\ candidate.policy = primitivePolicy
    /\ evaluation.id \notin IdsOf(primitiveEvaluations)
    /\ primitiveEvaluations' = primitiveEvaluations \cup
         {[evaluation EXCEPT !.policy = primitivePolicy]}
    /\ UNCHANGED <<primitivePolicy, stagedPrimitives, primitiveSupport, primitiveAdmissions,
                   primitiveHeads>>

(* The audit of a candidate over the checks and the evidence of two         *)
(* evaluations, and the measurement of it against the version it would      *)
(* replace, are transactions of other components; both are accepted here.   *)
SupportPrimitive(candidate, rollback, evaluations, protected) ==
  /\ Cardinality(primitiveSupport) < MaxSupported
  /\ primitivePolicy \in PrimitivesGoverned
  /\ {e.frame : e \in evaluations} = Frames
  /\ \A e \in evaluations : e.candidate = candidate /\ EvaluationSound(e, FALSE)
  /\ primitiveSupport' = primitiveSupport \cup
       {[candidate |-> candidate, rollback |-> rollback, evaluations |-> IdsOf(evaluations),
         protected |-> protected, policy |-> primitivePolicy]}
  /\ UNCHANGED <<primitivePolicy, stagedPrimitives, primitiveEvaluations, primitiveAdmissions,
                 primitiveHeads>>

(* Mutant of AdmissionLineage: the head may have moved since.               *)
AdmissionDescends(candidate, rollback) ==
  candidate.status \in Promotable /\ candidate.predecessors = {rollback}

AdmissionLineage(candidate, rollback) ==
  /\ candidate.status \in Promotable
  /\ candidate.predecessors = {rollback}
  /\ primitiveHeads[candidate.primitive] # {} => primitiveHeads[candidate.primitive] = {rollback}

AdvancedHeads(candidate) ==
  [primitiveHeads EXCEPT ![candidate.primitive] = {candidate.id}]

AdmitPrimitiveVersion(support, approver) ==
  LET evaluations == {e \in primitiveEvaluations : e.id \in support.evaluations}
  IN \E candidate \in PrimitiveReceived(support.candidate) :
       /\ PrimitiveApproved(approver, {})
       /\ primitivePolicy \in PrimitivesProtected => support.protected
       /\ Independent(candidate.proposer, evaluations, approver)
       /\ AdmissionLineage(candidate, support.rollback)
       /\ \A e \in evaluations : EvaluationSound(e, TRUE)
       /\ support.policy = primitivePolicy
       /\ primitiveAdmissions' = primitiveAdmissions \cup {support}
       /\ primitiveHeads' = AdvancedHeads(candidate)
       /\ UNCHANGED <<primitivePolicy, stagedPrimitives, primitiveEvaluations, primitiveSupport>>

PrimitiveNext ==
  \/ \E policy \in PrimitivePolicies : PrimitivePolicyMoves(policy)
  \/ \E approver \in PrimitiveHumans :
       \/ \E version \in PrimitivePool : ProposePrimitiveVersion(version, approver)
       \/ /\ Cardinality(primitiveEvaluations) < MaxEvaluated
          /\ \E evaluation \in EvaluationPool : RecordPrimitiveEvaluation(evaluation, approver)
       \/ \E support \in primitiveSupport : AdmitPrimitiveVersion(support, approver)
  \/ \E candidate, version \in StagedPrimitives :
       /\ version.primitive = candidate.primitive
       /\ \E old, new \in {e \in primitiveEvaluations : e.candidate = candidate.id},
              protected \in BOOLEAN :
            SupportPrimitive(candidate.id, version.id, {old, new}, protected)

PrimitiveSpec == PrimitiveInit /\ [][PrimitiveNext]_primitiveVars

(* What the shared gate lets schemas, evaluators and conclusions use.       *)
UsablePrimitives ==
  {v \in StagedPrimitives : v.status \in Promotable /\ primitiveHeads[v.primitive] = {v.id}}

-----------------------------------------------------------------------------
(* Properties.                                                              *)

(* The versions ever admitted of a primitive are one chain: each was        *)
(* measured against, and can be rolled back to, exactly the version it      *)
(* replaced, and the head is the latest of them, though candidates are      *)
(* staged before a head exists and while it moves                           *)
(* (transactions/representations.py:1089, 1240-1247).                       *)
AdmissionsFormOneChain ==
  LET version(id) == CHOOSE v \in StagedPrimitives : v.id = id
      admitted == {version(a.candidate) : a \in primitiveAdmissions}
  IN /\ \A a, b \in primitiveAdmissions :
          /\ a.candidate = b.candidate => a.rollback = b.rollback
          /\ a.rollback = b.rollback => a.candidate = b.candidate
     /\ \A u, v \in admitted : u.primitive = v.primitive /\ u # v =>
          Precedes(u.number, v.number) \/ Precedes(v.number, u.number)
     /\ \A u \in admitted, v \in StagedPrimitives :
          u.primitive = v.primitive /\ v.id \in primitiveHeads[v.primitive] =>
            u = v \/ Precedes(u.number, v.number)

(* "Exact or normalized-semantic overlap with another primitive [...]       *)
(* cannot be admitted as canonical" (docs/representational-primitives.md):  *)
(* no two primitives ever usable share a concept, in whatever order they    *)
(* are staged and admitted (representations/service.py:185-196).            *)
NoCanonicalDuplicates ==
  \A u, v \in UsablePrimitives : u.concept = v.concept => u = v
(* What admissions leave usable is at any time one version of each          *)
(* primitive, reached through one chain, and one primitive of each concept  *)
(* (transactions/representations.py:1089, 1240; representations/service.py: *)
(* 185-196).                                                                *)
CanonicalChains == AdmissionsFormOneChain /\ NoCanonicalDuplicates
=============================================================================
