-------------------------------- MODULE Cognition --------------------------------
(***************************************************************************)
(* Governed cognition: capability profiles of actors, cohorts selected from *)
(* profiles on record, and the diversity of a cohort                        *)
(* (application/cognition/service.py, domain/cognition).                    *)
(* A submission is one step (module Coordinator); an entry of the log is an *)
(* accepted transaction at its place in the audit chain, and a receipt is   *)
(* such a place.  Actors are numbers, in the order of their ids.            *)
(***************************************************************************)
EXTENDS Integers, Sequences, FiniteSets

CONSTANTS
  CognitionPolicies, CognitionGoverned,  \* those that admit run-local research-process records
  CognitionActors, CognitionHumans,
  ProfileRecords,      \* capability profiles
  CohortRequests,
  Correlations,        \* measured error correlations of two actors
  MaxProfiles,         \* bound: accepted profiles
  MaxCognitionMoves    \* bound: changes of policy

WellFormedProfile(p) ==
  /\ p.policy \in CognitionPolicies
  /\ p.actor \in Nat

WellFormedRequest(request) ==
  /\ request.policy \in CognitionPolicies
  /\ request.candidates # {}
  /\ \A pair \in request.prohibited : Cardinality(pair) = 2
  /\ request.max \in Nat /\ request.min \in 1 .. request.max
  /\ request.required \cap request.preferred = {}
  /\ IsFiniteSet(request.required) /\ IsFiniteSet(request.preferred)

ASSUME CognitionAssumption ==
  /\ CognitionGoverned \subseteq CognitionPolicies
  /\ CognitionHumans \subseteq CognitionActors
  /\ \A p \in ProfileRecords : WellFormedProfile(p)
  /\ \A request \in CohortRequests : WellFormedRequest(request)
  /\ {MaxProfiles, MaxCognitionMoves} \subseteq Nat

VARIABLES
  cognitionPolicy,   \* the active policy
  cognitionLog       \* accepted transactions, in the order of their audit

cognitionVars == <<cognitionPolicy, cognitionLog>>

Entries(kind) == {i \in DOMAIN cognitionLog : cognitionLog[i].kind = kind}
ProfilesAt(receipts) == {cognitionLog[i].record : i \in receipts}

-----------------------------------------------------------------------------
(* Grounding: who is selected.                                              *)

(* A capability is shown by an assertion verified on the very snapshot.     *)
Satisfies(p, requirement) ==
  [capability |-> requirement.capability, snapshot |-> requirement.snapshot] \in p.verified

Satisfied(p, requirements) == Cardinality({r \in requirements : Satisfies(p, r)})

(* More required capabilities first, then more preferred, then the id.      *)
RankedBefore(request, p, other) ==
  LET required(x) == Satisfied(x, request.required)
      preferred(x) == Satisfied(x, request.preferred)
  IN \/ required(p) > required(other)
     \/ /\ required(p) = required(other)
        /\ \/ preferred(p) > preferred(other)
           \/ preferred(p) = preferred(other) /\ p.actor < other.actor

Candidates(request, profiles) == {p \in profiles : p.actor \in request.candidates}

(* The first in rank of those left is considered next.                      *)
Best(request, left) ==
  CHOOSE p \in left : \A other \in left \ {p} : RankedBefore(request, p, other)

(* Mutant of Prohibited: compares with the last one selected only.          *)
ProhibitedWithLast(request, p, members) ==
  \E last \in members : /\ \A m \in members \ {last} : RankedBefore(request, m, last)
                        /\ {p.actor, last.actor} \in request.prohibited

Prohibited(request, p, members) ==
  \E member \in members : {p.actor, member.actor} \in request.prohibited

Considered(request, p, selection) ==
  [left    |-> selection.left \ {p},
   members |-> IF \/ Cardinality(selection.members) >= request.max
                  \/ Prohibited(request, p, selection.members)
               THEN selection.members ELSE selection.members \cup {p}]

Selected(request, profiles) ==
  LET resolved == Candidates(request, profiles)
      selection[n \in 0 .. Cardinality(resolved)] ==
        IF n = 0 THEN [left |-> resolved, members |-> {}]
        ELSE Considered(request, Best(request, selection[n - 1].left), selection[n - 1])
  IN selection[Cardinality(resolved)].members

(* One profile for each actor; declared profiles under the request's policy.*)
CohortPossible(request, profiles) ==
  /\ \A p, other \in profiles : p.actor = other.actor => p = other
  /\ \A p \in Candidates(request, profiles) : p.policy = request.policy

Cohort(request, profiles) ==
  LET members == Selected(request, profiles)
      resolved == Candidates(request, profiles)
      covering(r) == {p.actor : p \in {m \in members : Satisfies(m, r)}}
  IN [request    |-> request,
      profiles   |-> resolved,
      members    |-> members,
      excluded   |-> {p.actor : p \in resolved \ members},
      unresolved |-> request.candidates \ {p.actor : p \in resolved},
      uncovered  |-> {r.id : r \in {q \in request.required : covering(q) = {}}},
      minimumMet |-> Cardinality(members) >= request.min]

-----------------------------------------------------------------------------
(* Diversity of a cohort, for each axis of the fingerprints.                *)

DiversityPossible(cohort, profiles, correlations) ==
  /\ profiles = cohort.members
  /\ \A c \in correlations : /\ {c.left, c.right} \subseteq {p.actor : p \in profiles}
                             /\ c.policy = cohort.request.policy

AxisStatus(profiles, axis) ==
  LET values == {p.fingerprint[axis] : p \in profiles}
  IN IF values = {} \/ "NONE" \in values THEN "UNKNOWN"
     ELSE IF Cardinality(values) = 1 THEN "SAME" ELSE "DIFFERENT"

Diversity(cohort, profiles, correlations) ==
  [members      |-> {p.actor : p \in profiles},
   axes         |-> [axis \in UNION {DOMAIN p.fingerprint : p \in profiles} |->
                       AxisStatus(profiles, axis)],
   correlations |-> correlations]

-----------------------------------------------------------------------------
CognitionInit ==
  /\ cognitionPolicy \in CognitionPolicies
  /\ cognitionLog = <<>>

(* governed_cognitive_authority_rejection.                                  *)
CognitionApproved(proposer, approver) ==
  /\ cognitionPolicy \in CognitionGoverned
  /\ approver \in CognitionHumans \ {proposer}

NotOnRecord(kind, id) == \A i \in Entries(kind) : cognitionLog[i].id # id

AppendEntry(entry) ==
  cognitionLog' = Append(cognitionLog, entry) /\ UNCHANGED cognitionPolicy

(* Mutant of Resolves: a receipt accepted under a former policy still does. *)
ResolvesUnderAny(receipts, kind) == receipts \subseteq Entries(kind)

(* A receipt resolves to a transaction accepted under the active policy.    *)
Resolves(receipts, kind) ==
  /\ receipts \subseteq Entries(kind)
  /\ \A i \in receipts : cognitionLog[i].policy = cognitionPolicy

CognitionPolicyMoves(policy) ==
  /\ policy # cognitionPolicy
  /\ Cardinality(Entries("POLICY")) < MaxCognitionMoves
  /\ cognitionPolicy' = policy
  /\ cognitionLog' = Append(cognitionLog, [kind |-> "POLICY", id |-> policy, policy |-> policy])

RecordCapabilityProfile(proposer, approver, p) ==
  /\ Cardinality(Entries("PROFILE")) < MaxProfiles
  /\ CognitionApproved(proposer, approver)
  /\ p.policy = cognitionPolicy
  /\ NotOnRecord("PROFILE", p.id)
  /\ AppendEntry([kind |-> "PROFILE", id |-> p.id, policy |-> cognitionPolicy, record |-> p])

(* The plan's id derives from the request's.                                *)
RecordCohortPlan(proposer, approver, request, receipts) ==
  /\ CognitionApproved(proposer, approver)
  /\ request.policy = cognitionPolicy
  /\ Resolves(receipts, "PROFILE")
  /\ CohortPossible(request, ProfilesAt(receipts))
  /\ NotOnRecord("COHORT", request.id)
  /\ AppendEntry([kind |-> "COHORT", id |-> request.id, policy |-> cognitionPolicy,
                  receipts |-> receipts, record |-> Cohort(request, ProfilesAt(receipts))])

(* The assessment's id derives from the plan's.                             *)
RecordDiversityAssessment(proposer, approver, cohort, receipts, correlations) ==
  /\ CognitionApproved(proposer, approver)
  /\ Resolves({cohort}, "COHORT")
  /\ Resolves(receipts, "PROFILE")
  /\ DiversityPossible(cognitionLog[cohort].record, ProfilesAt(receipts), correlations)
  /\ NotOnRecord("DIVERSITY", cognitionLog[cohort].id)
  /\ AppendEntry([kind |-> "DIVERSITY", id |-> cognitionLog[cohort].id,
                  policy |-> cognitionPolicy, cohort |-> cohort, receipts |-> receipts,
                  record |-> Diversity(cognitionLog[cohort].record, ProfilesAt(receipts),
                                       correlations)])

CognitionNext ==
  \/ \E policy \in CognitionPolicies : CognitionPolicyMoves(policy)
  \/ \E proposer, approver \in CognitionActors :
       \/ \E p \in ProfileRecords : RecordCapabilityProfile(proposer, approver, p)
       \/ \E request \in CohortRequests, receipts \in SUBSET Entries("PROFILE") :
            RecordCohortPlan(proposer, approver, request, receipts)
       \/ \E cohort \in Entries("COHORT"), receipts \in SUBSET Entries("PROFILE"),
             correlations \in SUBSET Correlations :
            RecordDiversityAssessment(proposer, approver, cohort, receipts, correlations)

CognitionSpec == CognitionInit /\ [][CognitionNext]_cognitionVars

-----------------------------------------------------------------------------
(* Reconstruction from the accepted transactions (cognitive/integrity.py).  *)

(* _receipt_binding: accepted before, under the policy of the entry.        *)
BoundBefore(i, receipts, kind) ==
  \A j \in receipts : /\ j \in Entries(kind) /\ j < i
                      /\ cognitionLog[j].policy = cognitionLog[i].policy

ProfileReplays(i) == cognitionLog[i].record.policy = cognitionLog[i].policy

CohortReplays(i) ==
  LET entry == cognitionLog[i]
      request == entry.record.request
  IN /\ request.policy = entry.policy
     /\ BoundBefore(i, entry.receipts, "PROFILE")
     /\ CohortPossible(request, ProfilesAt(entry.receipts))
     /\ entry.record = Cohort(request, ProfilesAt(entry.receipts))

DiversityReplays(i) ==
  LET entry == cognitionLog[i]
      cohort == cognitionLog[entry.cohort].record
      correlations == entry.record.correlations
  IN /\ BoundBefore(i, {entry.cohort}, "COHORT")
     /\ BoundBefore(i, entry.receipts, "PROFILE")
     /\ DiversityPossible(cohort, ProfilesAt(entry.receipts), correlations)
     /\ entry.record = Diversity(cohort, ProfilesAt(entry.receipts), correlations)

(* Whatever profiles, cohorts and assessments were accepted, and whatever   *)
(* policies came and went between them, verification rebuilds each from the *)
(* transactions before it (service.py:98-321, integrity.py:528-615).        *)
CognitionReplays ==
  /\ \A i \in Entries("PROFILE") : ProfileReplays(i)
  /\ \A i \in Entries("COHORT") : CohortReplays(i)
  /\ \A i \in Entries("DIVERSITY") : DiversityReplays(i)

(* A recorded cohort can be justified: no two members may not meet, and a   *)
(* candidate is left out only because enough better candidates were taken   *)
(* or one that was taken before may not meet it                             *)
(* (grounding.py:_derive_cohort_validated, a greedy loop over a ranking).   *)
SelectionsHaveReasons ==
  \A i \in Entries("COHORT") :
    LET cohort == cognitionLog[i].record
        request == cohort.request
        better(p) == {m \in cohort.members : RankedBefore(request, m, p)}
    IN /\ \A m, other \in cohort.members : {m.actor, other.actor} \notin request.prohibited
       /\ \A p \in cohort.profiles \ cohort.members :
            \/ Cardinality(better(p)) = request.max
            \/ \E m \in better(p) : {m.actor, p.actor} \in request.prohibited
       /\ Cardinality(cohort.members) <= request.max
=============================================================================
