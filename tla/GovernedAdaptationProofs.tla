------------------------ MODULE GovernedAdaptationProofs ------------------------
(***************************************************************************)
(* Governed adaptation for any set of policies, actors and identities.      *)
(***************************************************************************)
EXTENDS GovernedAdaptation, TLAPS

(* The policy chain: before init there is no policy; from then on the       *)
(* active policy is registered and the registered ones are those of the     *)
(* chain.                                                                   *)
Unstarted == active = NoPolicy => transitions = <<>> /\ registered = {}
Started == active # NoPolicy => active \in registered

(* A policy some transition installed can be left again, because Compatible *)
(* made sure of it.                                                         *)
InstalledSelfGoverning == transitions # <<>> => SelfGoverning(active)

(* No audit was made by the producer of what it audits.                     *)
AuditorsIndependent == \A a \in audits : a.auditor # a.producer

(* What every reachable state satisfies.                                    *)
PolicyInv == AdaptationTyped /\ Unstarted /\ Started /\ PolicyChainRebuilds

(* All an instance needs for proposals to be at hand: a proposer, a human   *)
(* other than it and records audited independently of it, a sound           *)
(* governance case at the highest level for every grounding, and for every  *)
(* policy some V2 policy that keeps its checks and meets the floor.         *)
ProposalsAtHand ==
  /\ \E h \in Humans, m \in Actors, b \in Bundles : m # h /\ b.auditor \notin {m, b.producer}
  /\ Groundings \ {"NONE"} # {}
  /\ \A g \in Groundings \ {"NONE"} :
       \E c \in Cases : c = [scope |-> "governance", closed |-> FALSE, level |-> 7,
                             grounding |-> g, sound |-> TRUE]
  /\ \A p \in Policies : \E q \in Policies : Document[q].version = 2 /\ Compatible(p, q)

-----------------------------------------------------------------------------
(* Governed adds the active policy to a record and changes nothing else.    *)
LEMMA GovernedAudit ==
  ASSUME NEW a \in SubmittedAudits
  PROVE  Governed(a) = [id |-> a.id, subject |-> a.subject, auditor |-> a.auditor,
                        proposer |-> a.proposer, producer |-> a.producer, passed |-> a.passed,
                        policy |-> active]
BY DEF Governed, SubmittedAudits

LEMMA GovernedMeasurement ==
  ASSUME NEW m \in SubmittedMeasurements, NEW case
  PROVE  Governed(Classified(m, case))
                     = [id |-> m.id, run |-> m.run, audit |-> m.audit, subject |-> m.subject,
                        class |-> Class(case), proposer |-> m.proposer, accepted |-> m.accepted,
                        policy |-> active]
<1>1. PICK c : c = Class(case)
  OBVIOUS
<1>2. Classified(m, case) = [id |-> m.id, run |-> m.run, audit |-> m.audit, subject |-> m.subject,
                             class |-> c, proposer |-> m.proposer, accepted |-> m.accepted]
  BY <1>1 DEF Classified, SubmittedMeasurements
<1> QED
  BY <1>1, <1>2 DEF Governed

LEMMA GovernedVersion ==
  ASSUME NEW v \in SubmittedVersions
  PROVE  Governed(v) = [id |-> v.id, predecessor |-> v.predecessor, producer |-> v.producer,
                        policy |-> active]
BY DEF Governed, SubmittedVersions

-----------------------------------------------------------------------------
(* Type correctness, one lemma per action that needs one.                   *)

LEMMA TransitionTypes ==
  ASSUME AdaptationTyped, NEW t \in Transitions, ProposeGovernancePolicyTransition(t)
  PROVE  AdaptationTyped'
<1>1. /\ t.proposer \in Actors /\ t.approver \in Actors /\ t.prior \in Policies
      /\ t.candidate \in Policies
      /\ t.bundle.run \in RunIds /\ t.bundle.audit \in AuditIds
      /\ t.bundle.measurement \in MeasurementIds
      /\ t.bundle.evaluator \in Subjects /\ t.bundle.producer \in Actors
      /\ t.bundle.auditor \in Actors /\ t.case \in Cases
  BY BundlesAssumption DEF Transitions, Subjects
<1>2. transitions' \in Seq(Transitions)
  BY DEF ProposeGovernancePolicyTransition, AdaptationTyped
<1>3. BootstrapAudit(t) \in Audits
  BY <1>1 DEF BootstrapAudit, Audits
<1>4. BootstrapMeasurement(t) \in Measurements
  BY <1>1 DEF BootstrapMeasurement, Measurements, Subjects, Classes
<1>5. [id |-> t.bundle.run, policy |-> t.prior] \in Runs
  BY <1>1 DEF Runs
<1>6. /\ audits' = audits \cup {BootstrapAudit(t)}
      /\ measurements' = measurements \cup {BootstrapMeasurement(t)}
      /\ runs' = runs \cup {[id |-> t.bundle.run, policy |-> t.prior]}
      /\ registered' = registered \cup {t.candidate} /\ active' = t.candidate
      /\ UNCHANGED <<versions, head, decisions>>
  BY DEF ProposeGovernancePolicyTransition
<1>7. QED
  BY <1>1, <1>2, <1>3, <1>4, <1>5, <1>6 DEF AdaptationTyped

(* A record the authority checks let through is governed by a V2 policy.    *)
LEMMA AuthorityNeedsPolicy ==
  ASSUME AdaptationTyped, IsV2(active)
  PROVE  active \in Policies
BY DEF AdaptationTyped, IsV2

LEMMA AuditTypes ==
  ASSUME AdaptationTyped, NEW a \in SubmittedAudits, NEW approver \in Actors,
         RecordEvaluatorAudit(a, approver)
  PROVE  AdaptationTyped'
<1>1. active \in Policies
  BY AuthorityNeedsPolicy DEF RecordEvaluatorAudit, SupportAuthority
<1>2. Governed(a) \in Audits
  BY <1>1, GovernedAudit DEF SubmittedAudits, Audits, Subjects
<1>3. QED
  BY <1>2 DEF RecordEvaluatorAudit, AdaptationTyped

LEMMA MeasurementTypes ==
  ASSUME AdaptationTyped, NEW m \in SubmittedMeasurements, NEW case \in Cases, NEW approver \in Actors,
         RecordSelfImprovementMeasurement(m, case, approver)
  PROVE  AdaptationTyped'
<1>1. active \in Policies
  BY AuthorityNeedsPolicy DEF RecordSelfImprovementMeasurement, AdaptationAuthority
<1>2. Ids(runs) \subseteq RunIds /\ Ids(audits) \subseteq AuditIds
  BY DEF AdaptationTyped, Runs, Audits, Ids
<1>3. Governed(Classified(m, case)) \in Measurements
  BY <1>1, <1>2, GovernedMeasurement DEF SubmittedMeasurements, Measurements, Subjects, Classes
<1>4. QED
  BY <1>3 DEF RecordSelfImprovementMeasurement, AdaptationTyped

LEMMA VersionTypes ==
  ASSUME AdaptationTyped, NEW v \in SubmittedVersions, NEW case \in Cases, NEW approver \in Actors,
         ProposeEvaluatorVersion(v, case, approver)
  PROVE  AdaptationTyped'
<1>1. active \in Policies
  BY AuthorityNeedsPolicy DEF ProposeEvaluatorVersion, AdaptationAuthority
<1>2. Governed(v) \in Versions
  BY <1>1, GovernedVersion DEF SubmittedVersions, Versions
<1>3. QED
  BY <1>2 DEF ProposeEvaluatorVersion, AdaptationTyped

LEMMA SuccessionTypes ==
  ASSUME AdaptationTyped, NEW d \in Successions, NEW case \in Cases, NEW approver \in Actors,
         DecideEvaluatorSuccession(d, case, approver)
  PROVE  AdaptationTyped'
<1>1. d.candidate \in VersionIds
  BY DEF Successions
<1>2. SuccessionAdmitted(d, case, approver) \in BOOLEAN
  BY DEF SuccessionAdmitted, SuccessionSupported
<1>3. head' \in VersionIds \cup {NoVersion}
  BY <1>1 DEF DecideEvaluatorSuccession, AdaptationTyped
<1>4. decisions' \subseteq [decision: Successions, admitted: BOOLEAN]
  BY <1>2 DEF DecideEvaluatorSuccession, AdaptationTyped
<1>5. QED
  BY <1>3, <1>4 DEF DecideEvaluatorSuccession, AdaptationTyped

(* A decision is submitted over retained versions.                          *)
LEMMA SubmittedSuccession ==
  ASSUME AdaptationTyped
  PROVE  SubmittedSuccessions \subseteq Successions
<1>1. Ids(versions) \subseteq VersionIds /\ Ids({v \in versions : ~IsRoot(v)}) \subseteq VersionIds
  BY DEF AdaptationTyped, Versions, Ids
<1>2. Ids(audits) \subseteq AuditIds
  BY DEF AdaptationTyped, Audits, Ids
<1>3. QED
  BY <1>1, <1>2 DEF SubmittedSuccessions, Successions

LEMMA SubmittedTransition == SubmittedTransitions \subseteq Transitions
BY DEF SubmittedTransitions, Transitions

LEMMA StepTypes ==
  ASSUME AdaptationTyped, [AdaptationNext]_adaptationVars
  PROVE  AdaptationTyped'
<1>1. CASE UNCHANGED adaptationVars
  BY <1>1 DEF adaptationVars, AdaptationTyped
<1>2. ASSUME NEW q \in Policies, InitCommand(q) PROVE AdaptationTyped'
  BY <1>2 DEF InitCommand, AdaptationTyped
<1>3. ASSUME NEW id \in RunIds, NEW proposer \in Actors, NEW approver \in Actors,
             CreateResearchRun(id, proposer, approver)
      PROVE  AdaptationTyped'
  <2>1. active \in Policies
    BY <1>3, AuthorityNeedsPolicy DEF CreateResearchRun, RunAuthority
  <2>2. QED
    BY <1>3, <2>1 DEF CreateResearchRun, AdaptationTyped, Runs
<1>4. QED
  BY <1>1, <1>2, <1>3, TransitionTypes, AuditTypes, MeasurementTypes, VersionTypes,
     SuccessionTypes, SubmittedSuccession,
     SubmittedTransition DEF AdaptationNext, EvaluatorChanges

(* Every reachable state of governed adaptation is well typed: what is      *)
(* recorded is always governed by a registered kind of policy, never by     *)
(* none.                                                                    *)
THEOREM TypeCorrect == AdaptationSpec => []AdaptationTyped
<1>1. AdaptationInit => AdaptationTyped
  BY DEF AdaptationInit, AdaptationTyped
<1>2. QED
  BY <1>1, StepTypes, PTL DEF AdaptationSpec

-----------------------------------------------------------------------------
(* The policy chain.                                                        *)

(* A transition extends the chain: what came before it stays as it was.     *)
LEMMA ChainGrows ==
  ASSUME PolicyInv, NEW t \in Transitions, ProposeGovernancePolicyTransition(t)
  PROVE  \E n \in Nat :
           /\ n = Len(transitions) /\ Len(transitions') = n + 1 /\ transitions'[n + 1] = t
           /\ \A i \in 1..n : transitions'[i] = transitions[i]
           /\ transitions' # <<>>
           /\ FirstPolicy' = FirstPolicy
           /\ \A i \in 1..(n + 1) : PolicyBefore(i)' = PolicyBefore(i)
<1>1. PICK n \in Nat : n = Len(transitions)
  BY DEF PolicyInv, AdaptationTyped
<1>2. /\ Len(transitions') = n + 1 /\ transitions'[n + 1] = t
      /\ \A i \in 1..n : transitions'[i] = transitions[i]
      /\ transitions' # <<>>
  BY <1>1 DEF PolicyInv, AdaptationTyped, ProposeGovernancePolicyTransition
<1>3. FirstPolicy' = FirstPolicy
  <2>1. t.prior = active
    BY DEF ProposeGovernancePolicyTransition, Complies
  <2>2. CASE transitions = <<>>
    BY <2>1, <2>2, <1>1, <1>2 DEF FirstPolicy
  <2>3. CASE transitions # <<>>
    <3>1. n >= 1
      BY <2>3, <1>1 DEF PolicyInv, AdaptationTyped
    <3>2. QED BY <2>3, <3>1, <1>2 DEF FirstPolicy
  <2>4. QED BY <2>2, <2>3
<1>4. \A i \in 1..(n + 1) : PolicyBefore(i)' = PolicyBefore(i)
  BY <1>3, <1>2 DEF PolicyBefore
<1>5. QED BY <1>1, <1>2, <1>3, <1>4

LEMMA PolicyStepTransition ==
  ASSUME PolicyInv, NEW t \in Transitions, ProposeGovernancePolicyTransition(t)
  PROVE  (Unstarted /\ Started /\ PolicyChainRebuilds)'
<1>1. /\ active # NoPolicy /\ t.prior = active /\ t.rollback \in registered
      /\ registered' = registered \cup {t.candidate} /\ active' = t.candidate
  BY DEF ProposeGovernancePolicyTransition, Complies
<1>2. PICK n \in Nat :
        /\ n = Len(transitions) /\ Len(transitions') = n + 1 /\ transitions'[n + 1] = t
        /\ \A i \in 1..n : transitions'[i] = transitions[i]
        /\ transitions' # <<>>
        /\ FirstPolicy' = FirstPolicy
        /\ \A i \in 1..(n + 1) : PolicyBefore(i)' = PolicyBefore(i)
  BY ChainGrows
<1>3. active' # NoPolicy
  BY <1>1, NonesAssumption DEF Transitions
<1>4. \A i \in 1..(n + 1) : RegisteredBefore(i)' = RegisteredBefore(i)
  BY <1>2 DEF RegisteredBefore
<1>5. PolicyBefore(n + 1) = active /\ registered = RegisteredBefore(n + 1)
  BY <1>1, <1>2 DEF PolicyInv, PolicyChainRebuilds
<1>6. \A i \in 1..Len(transitions') :
        transitions'[i].prior = PolicyBefore(i)' /\ transitions'[i].rollback \in RegisteredBefore(i)'
  <2>1. ASSUME NEW i \in 1..n
        PROVE  transitions'[i].prior = PolicyBefore(i)' /\ transitions'[i].rollback \in RegisteredBefore(i)'
    BY <1>1, <1>2, <1>4, <2>1 DEF PolicyInv, PolicyChainRebuilds
  <2>2. transitions'[n + 1].prior = PolicyBefore(n + 1)' /\ transitions'[n + 1].rollback \in RegisteredBefore(n + 1)'
    BY <1>1, <1>2, <1>4, <1>5
  <2>3. QED BY <2>1, <2>2, <1>2
<1>7. registered' = RegisteredBefore(n + 2)'
  <2>1. RegisteredBefore(n + 2)' = {FirstPolicy} \cup {transitions'[j].candidate : j \in 1..(n + 1)}
    BY <1>2 DEF RegisteredBefore
  <2>2. RegisteredBefore(n + 1) = {FirstPolicy} \cup {transitions[j].candidate : j \in 1..n}
    BY <1>2 DEF RegisteredBefore
  <2>3. {transitions'[j].candidate : j \in 1..(n + 1)}
          = {transitions[j].candidate : j \in 1..n} \cup {t.candidate}
    BY <1>2
  <2>4. QED BY <2>1, <2>2, <2>3, <1>1, <1>2, <1>5
<1>8. active' = PolicyBefore(n + 2)'
  BY <1>1, <1>2 DEF PolicyBefore
<1>9. (Unstarted /\ Started)'
  BY <1>1, <1>3 DEF Unstarted, Started
<1>10. PolicyChainRebuilds'
  <2>1. Len(transitions') + 1 = n + 2
    BY <1>2
  <2>2. QED BY <2>1, <1>6, <1>7, <1>8 DEF PolicyChainRebuilds
<1>11. QED BY <1>9, <1>10

(* The chain is what the three variables say.                               *)
LEMMA ChainUntouched ==
  ASSUME PolicyChainRebuilds, UNCHANGED <<active, registered, transitions>>
  PROVE  PolicyChainRebuilds'
<1>1. FirstPolicy' = FirstPolicy
  BY DEF FirstPolicy
<1>2. \A i : PolicyBefore(i)' = PolicyBefore(i)
  BY <1>1 DEF PolicyBefore
<1>3. \A i : RegisteredBefore(i)' = RegisteredBefore(i)
  BY <1>1 DEF RegisteredBefore
<1>4. QED BY <1>1, <1>2, <1>3 DEF PolicyChainRebuilds

(* init only ever installs the first policy: the second time it changes     *)
(* nothing.                                                                 *)
LEMMA PolicyStepInit ==
  ASSUME PolicyInv, NEW q \in Policies, InitCommand(q)
  PROVE  (Unstarted /\ Started /\ PolicyChainRebuilds)'
<1>1. active' = q /\ registered' = registered \cup {q} /\ transitions' = transitions /\ q # NoPolicy
  BY NonesAssumption DEF InitCommand
<1>2. (Unstarted /\ Started)'
  BY <1>1 DEF Unstarted, Started
<1>3. CASE active = NoPolicy
  <2>1. transitions = <<>> /\ registered = {}
    BY <1>3 DEF PolicyInv, Unstarted
  <2>2. registered' = {q} /\ FirstPolicy' = q /\ Len(transitions') = 0
    BY <2>1, <1>1 DEF FirstPolicy
  <2>3. RegisteredBefore(1)' = {q} /\ PolicyBefore(1)' = q
    BY <2>2 DEF RegisteredBefore, PolicyBefore
  <2>4. QED
    BY <1>1, <1>2, <2>2, <2>3 DEF PolicyChainRebuilds
<1>4. CASE active = q
  <2>1. UNCHANGED <<active, registered, transitions>>
    BY <1>1, <1>4 DEF PolicyInv, Started
  <2>2. QED
    BY <1>2, <2>1, ChainUntouched DEF PolicyInv
<1>5. QED BY <1>3, <1>4 DEF InitCommand

(* No other action touches the policies.                                    *)
LEMMA PolicyUntouched ==
  ASSUME AdaptationNext, ~(\E q \in Policies : InitCommand(q)),
         ~(\E t \in Transitions : ProposeGovernancePolicyTransition(t))
  PROVE  UNCHANGED <<active, registered, transitions>>
BY SubmittedTransition
   DEF AdaptationNext, CreateResearchRun, RecordEvaluatorAudit, RecordSelfImprovementMeasurement,
       ProposeEvaluatorVersion, DecideEvaluatorSuccession

LEMMA PolicyStep ==
  ASSUME PolicyInv, [AdaptationNext]_adaptationVars
  PROVE  PolicyInv'
<1>1. AdaptationTyped'
  BY StepTypes DEF PolicyInv
<1>2. CASE UNCHANGED <<active, registered, transitions>>
  <2>1. Unstarted' /\ Started'
    BY <1>2 DEF PolicyInv, Unstarted, Started
  <2>2. PolicyChainRebuilds'
    BY <1>2, ChainUntouched DEF PolicyInv
  <2>3. QED
    BY <1>1, <2>1, <2>2 DEF PolicyInv
<1>3. CASE ~ UNCHANGED <<active, registered, transitions>>
  <2>1. AdaptationNext
    BY <1>3 DEF adaptationVars
  <2>2. QED
    BY <1>1, <1>3, <2>1, PolicyStepTransition, PolicyStepInit, PolicyUntouched DEF PolicyInv
<1>4. QED BY <1>2, <1>3

LEMMA PolicyInit == AdaptationInit => PolicyInv
BY DEF AdaptationInit, PolicyInv, AdaptationTyped, Unstarted, Started, PolicyChainRebuilds

(* The accepted transitions alone rebuild the registered policies and the   *)
(* active one, in any reachable state (workspace_integrity.py:2956-3005).   *)
THEOREM ChainRebuilds == AdaptationSpec => []PolicyChainRebuilds
<1>1. PolicyInv => PolicyChainRebuilds
  BY DEF PolicyInv
<1>2. QED
  BY <1>1, PolicyInit, PolicyStep, PTL DEF AdaptationSpec

(* No sequence of transitions drops a check any earlier policy required     *)
(* (governance.py:328-333).                                                 *)
THEOREM ChecksAccumulate == AdaptationSpec => []ChecksOnlyAccumulate
<1>1. AdaptationInit => ChecksOnlyAccumulate
  BY DEF AdaptationInit, ChecksOnlyAccumulate
<1>2. ASSUME PolicyInv, ChecksOnlyAccumulate, [AdaptationNext]_adaptationVars
      PROVE  ChecksOnlyAccumulate'
  <2>1. CASE UNCHANGED <<active, registered, transitions>>
    BY <1>2, <2>1 DEF ChecksOnlyAccumulate
  <2>2. ASSUME NEW q \in Policies, InitCommand(q)
        PROVE  ChecksOnlyAccumulate'
    BY <1>2, <2>2 DEF PolicyInv, Unstarted, Started, InitCommand, ChecksOnlyAccumulate
  <2>3. ASSUME NEW t \in Transitions, ProposeGovernancePolicyTransition(t)
        PROVE  ChecksOnlyAccumulate'
    <3>1. Document[active].checks \subseteq Document[t.candidate].checks
      BY <2>3 DEF ProposeGovernancePolicyTransition, Complies, Compatible
    <3>2. active' = t.candidate /\ registered' = registered \cup {t.candidate}
      BY <2>3 DEF ProposeGovernancePolicyTransition
    <3>3. QED BY <1>2, <3>1, <3>2 DEF ChecksOnlyAccumulate
  <2>4. CASE UNCHANGED adaptationVars
    BY <2>1, <2>4 DEF adaptationVars
  <2>5. QED BY <1>2, <2>1, <2>2, <2>3, <2>4, PolicyUntouched
<1>3. QED
  BY <1>1, <1>2, PolicyInit, PolicyStep, PTL DEF AdaptationSpec

(* Every transition met the requirement of the policy it replaced, whatever *)
(* its candidate would have asked (governance.py:252-314).                  *)
THEOREM AuthorisedBefore == AdaptationSpec => []AuthorisedByPredecessor
<1>1. AdaptationInit => AuthorisedByPredecessor
  BY DEF AdaptationInit, AuthorisedByPredecessor
<1>2. ASSUME PolicyInv, AuthorisedByPredecessor, [AdaptationNext]_adaptationVars
      PROVE  AuthorisedByPredecessor'
  <2>1. CASE UNCHANGED <<active, registered, transitions>>
    BY <1>2, <2>1 DEF AuthorisedByPredecessor, PolicyBefore, FirstPolicy
  <2>2. ASSUME NEW q \in Policies, InitCommand(q)
        PROVE  AuthorisedByPredecessor'
    <3>1. CASE active = NoPolicy
      <4>1. Len(transitions') = 0
        BY <1>2, <2>2, <3>1 DEF PolicyInv, Unstarted, InitCommand
      <4>2. QED BY <4>1 DEF AuthorisedByPredecessor
    <3>2. CASE active = q
      <4>1. UNCHANGED <<active, registered, transitions>>
        BY <1>2, <2>2, <3>2, NonesAssumption DEF PolicyInv, Started, InitCommand
      <4>2. QED BY <2>1, <4>1
    <3>3. QED BY <2>2, <3>1, <3>2 DEF InitCommand
  <2>3. ASSUME NEW t \in Transitions, ProposeGovernancePolicyTransition(t)
        PROVE  AuthorisedByPredecessor'
    <3>1. PICK n \in Nat :
            /\ n = Len(transitions) /\ Len(transitions') = n + 1 /\ transitions'[n + 1] = t
            /\ \A i \in 1..n : transitions'[i] = transitions[i]
            /\ \A i \in 1..(n + 1) : PolicyBefore(i)' = PolicyBefore(i)
      BY <1>2, <2>3, ChainGrows
    <3>2. PolicyBefore(n + 1) = active
      BY <1>2, <2>3, <3>1 DEF PolicyInv, PolicyChainRebuilds, ProposeGovernancePolicyTransition
    <3>3. MeetsActive(t)
      BY <2>3 DEF ProposeGovernancePolicyTransition, Complies
    <3>4. Document[PolicyBefore(n + 1)'].version = 2 => Meets(t.case, t.approver, PolicyBefore(n + 1)')
      BY <3>1, <3>2, <3>3 DEF MeetsActive
    <3>5. \A i \in 1..n : Document[PolicyBefore(i)'].version = 2
            => Meets(transitions'[i].case, transitions'[i].approver, PolicyBefore(i)')
      BY <1>2, <3>1 DEF AuthorisedByPredecessor
    <3>6. QED BY <3>1, <3>4, <3>5 DEF AuthorisedByPredecessor, Meets, Requirement
  <2>4. CASE UNCHANGED adaptationVars
    BY <2>1, <2>4 DEF adaptationVars
  <2>5. QED BY <1>2, <2>1, <2>2, <2>3, <2>4, PolicyUntouched
<1>3. QED
  BY <1>1, <1>2, PolicyInit, PolicyStep, PTL DEF AdaptationSpec

(* Both: the history of the constitution explains itself.                   *)
THEOREM ConstitutionRebuilt == AdaptationSpec => []ConstitutionRebuilds
BY ChainRebuilds, AuthorisedBefore, PTL DEF ConstitutionRebuilds

-----------------------------------------------------------------------------
(* The records.                                                             *)

(* Identifiers stay unique: every action brings a fresh one.                *)
LEMMA FreshStaysUnique ==
  ASSUME NEW table, NEW r, r.id \notin Ids(table), \A x, y \in table : x.id = y.id => x = y
  PROVE  \A x, y \in table \cup {r} : x.id = y.id => x = y
BY DEF Ids

UniqueIds(table) == \A x, y \in table : x.id = y.id => x = y
LEMMA UniqueStep ==
  ASSUME UniqueIds(runs), UniqueIds(audits), UniqueIds(measurements),
         [AdaptationNext]_adaptationVars
  PROVE  UniqueIds(runs') /\ UniqueIds(audits') /\ UniqueIds(measurements')
<1>1. CASE UNCHANGED <<runs, audits, measurements>>
  BY <1>1
<1>2. ASSUME NEW t \in Transitions, ProposeGovernancePolicyTransition(t)
      PROVE  UniqueIds(runs') /\ UniqueIds(audits') /\ UniqueIds(measurements')
  <2>1. /\ t.bundle.run \notin Ids(runs) /\ t.bundle.audit \notin Ids(audits)
        /\ t.bundle.measurement \notin Ids(measurements)
    BY <1>2 DEF ProposeGovernancePolicyTransition, FreshBootstrap
  <2>2. /\ BootstrapAudit(t).id = t.bundle.audit
        /\ BootstrapMeasurement(t).id = t.bundle.measurement
    BY DEF BootstrapAudit, BootstrapMeasurement
  <2>3. /\ audits' = audits \cup {BootstrapAudit(t)}
        /\ measurements' = measurements \cup {BootstrapMeasurement(t)}
        /\ runs' = runs \cup {[id |-> t.bundle.run, policy |-> t.prior]}
    BY <1>2 DEF ProposeGovernancePolicyTransition
  <2>4. QED
    BY <2>1, <2>2, <2>3, FreshStaysUnique DEF UniqueIds
<1>3. ASSUME NEW id \in RunIds, NEW proposer \in Actors, NEW approver \in Actors,
             CreateResearchRun(id, proposer, approver)
      PROVE  UniqueIds(runs') /\ UniqueIds(audits') /\ UniqueIds(measurements')
  BY <1>3, FreshStaysUnique DEF CreateResearchRun, UniqueIds
<1>4. ASSUME NEW a \in SubmittedAudits, NEW approver \in Actors, RecordEvaluatorAudit(a, approver)
      PROVE  UniqueIds(runs') /\ UniqueIds(audits') /\ UniqueIds(measurements')
  <2>1. Governed(a).id = a.id
    BY GovernedAudit
  <2>2. QED
    BY <1>4, <2>1, FreshStaysUnique DEF RecordEvaluatorAudit, UniqueIds
<1>5. ASSUME NEW m \in SubmittedMeasurements, NEW case \in Cases, NEW approver \in Actors,
             RecordSelfImprovementMeasurement(m, case, approver)
      PROVE  UniqueIds(runs') /\ UniqueIds(audits') /\ UniqueIds(measurements')
  <2>1. Governed(Classified(m, case)).id = m.id
    BY GovernedMeasurement
  <2>2. QED
    BY <1>5, <2>1, FreshStaysUnique DEF RecordSelfImprovementMeasurement, UniqueIds
<1>6. CASE UNCHANGED adaptationVars
  BY <1>1, <1>6 DEF adaptationVars
<1>7. ASSUME NEW q \in Policies, InitCommand(q)
      PROVE  UNCHANGED <<runs, audits, measurements>>
  BY <1>7 DEF InitCommand
<1>8. ASSUME NEW v \in SubmittedVersions, NEW case \in Cases, NEW approver \in Actors,
             ProposeEvaluatorVersion(v, case, approver)
      PROVE  UNCHANGED <<runs, audits, measurements>>
  BY <1>8 DEF ProposeEvaluatorVersion
<1>9. ASSUME NEW d \in SubmittedSuccessions, NEW case \in Cases, NEW approver \in Actors,
             DecideEvaluatorSuccession(d, case, approver)
      PROVE  UNCHANGED <<runs, audits, measurements>>
  BY <1>9 DEF DecideEvaluatorSuccession
<1>10. QED
  BY <1>1, <1>2, <1>3, <1>4, <1>5, <1>6, <1>7, <1>8, <1>9,
     SubmittedTransition DEF AdaptationNext, EvaluatorChanges

(* An identifier names one run, audit or measurement, whichever kind of     *)
(* proposal brought it.                                                     *)
THEOREM OneRecord == AdaptationSpec => []IdentitiesNameOneRecord
<1> DEFINE Unique == UniqueIds(runs) /\ UniqueIds(audits) /\ UniqueIds(measurements)
<1>1. AdaptationInit => Unique
  BY DEF AdaptationInit, UniqueIds
<1>2. Unique /\ [AdaptationNext]_adaptationVars => Unique'
  BY UniqueStep DEF UniqueIds
<1>3. Unique => IdentitiesNameOneRecord
  BY DEF UniqueIds, IdentitiesNameOneRecord
<1>4. QED
  BY <1>1, <1>2, <1>3, PTL DEF AdaptationSpec

(* The auditor of every recorded audit is independent: a transition's       *)
(* auditor is not its proposer, and a submitted audit is refused otherwise. *)
LEMMA AuditorsStep ==
  ASSUME AuditorsIndependent, [AdaptationNext]_adaptationVars
  PROVE  AuditorsIndependent' /\ audits \subseteq audits' /\ measurements \subseteq measurements'
<1>1. CASE UNCHANGED <<audits, measurements>>
  BY <1>1 DEF AuditorsIndependent
<1>2. ASSUME NEW t \in Transitions, ProposeGovernancePolicyTransition(t)
      PROVE  AuditorsIndependent' /\ audits \subseteq audits' /\ measurements \subseteq measurements'
  <2>1. t.bundle.auditor # t.bundle.producer
    BY <1>2 DEF ProposeGovernancePolicyTransition, Complies, ConstitutionalCase
  <2>2. BootstrapAudit(t).auditor # BootstrapAudit(t).producer
    BY <2>1 DEF BootstrapAudit
  <2>3. QED
    BY <1>2, <2>2 DEF ProposeGovernancePolicyTransition, AuditorsIndependent
<1>3. ASSUME NEW a \in SubmittedAudits, NEW approver \in Actors, RecordEvaluatorAudit(a, approver)
      PROVE  AuditorsIndependent' /\ audits \subseteq audits' /\ measurements \subseteq measurements'
  <2>1. Governed(a).auditor # Governed(a).producer
    BY <1>3, GovernedAudit DEF RecordEvaluatorAudit
  <2>2. QED
    BY <1>3, <2>1 DEF RecordEvaluatorAudit, AuditorsIndependent
<1>4. ASSUME NEW m \in SubmittedMeasurements, NEW case \in Cases, NEW approver \in Actors,
             RecordSelfImprovementMeasurement(m, case, approver)
      PROVE  AuditorsIndependent' /\ audits \subseteq audits' /\ measurements \subseteq measurements'
  BY <1>4 DEF RecordSelfImprovementMeasurement, AuditorsIndependent
<1>5. CASE UNCHANGED adaptationVars
  BY <1>1, <1>5 DEF adaptationVars
<1>6. QED
  BY <1>1, <1>2, <1>3, <1>4, <1>5, SubmittedTransition
     DEF AdaptationNext, EvaluatorChanges, InitCommand, CreateResearchRun, ProposeEvaluatorVersion,
         DecideEvaluatorSuccession

(* Every evaluator version but a root rests on an accepted measurement and  *)
(* a passed audit under its own policy, made by somebody other than its     *)
(* producer (service.py:456-540).                                           *)
THEOREM IndependentlyAudited == AdaptationSpec => []CandidatesIndependentlyAudited
<1>1. AdaptationInit => AuditorsIndependent /\ CandidatesIndependentlyAudited
  BY DEF AdaptationInit, AuditorsIndependent, CandidatesIndependentlyAudited
<1>2. ASSUME AuditorsIndependent, CandidatesIndependentlyAudited, [AdaptationNext]_adaptationVars
      PROVE  AuditorsIndependent' /\ CandidatesIndependentlyAudited'
  <2>1. AuditorsIndependent' /\ audits \subseteq audits' /\ measurements \subseteq measurements'
    BY <1>2, AuditorsStep
  <2>2. CASE UNCHANGED versions
    BY <1>2, <2>1, <2>2 DEF CandidatesIndependentlyAudited, IsRoot
  <2>3. ASSUME NEW v \in SubmittedVersions, NEW case \in Cases, NEW approver \in Actors,
               ProposeEvaluatorVersion(v, case, approver)
        PROVE  CandidatesIndependentlyAudited'
    <3>1. /\ versions' = versions \cup {Governed(v)}
          /\ audits' = audits /\ measurements' = measurements
          /\ ~IsRoot(v) => Vouched(v, case)
      BY <2>3 DEF ProposeEvaluatorVersion
    <3>2. /\ Governed(v).id = v.id /\ Governed(v).predecessor = v.predecessor
          /\ Governed(v).producer = v.producer /\ Governed(v).policy = active
      BY GovernedVersion
    <3>3. ~IsRoot(v) =>
            \E m \in measurements, a \in audits :
              /\ m.subject = v.id /\ m.accepted /\ m.policy = active
              /\ a.id = m.audit /\ a.subject = v.id /\ a.passed /\ a.policy = active
              /\ a.auditor # v.producer
      BY <1>2, <3>1 DEF Vouched, Measuring, AuditBinds, AuditorsIndependent
    <3>4. QED
      BY <1>2, <3>1, <3>2, <3>3 DEF CandidatesIndependentlyAudited, IsRoot
  <2>4. QED
    BY <1>2, <2>1, <2>2, <2>3, SubmittedTransition
       DEF AdaptationNext, EvaluatorChanges, adaptationVars, InitCommand, ProposeGovernancePolicyTransition,
           CreateResearchRun, RecordEvaluatorAudit, RecordSelfImprovementMeasurement, DecideEvaluatorSuccession
<1>3. QED
  BY <1>1, <1>2, PTL DEF AdaptationSpec

-----------------------------------------------------------------------------
(* Governance never locks.                                                  *)

LEMMA InstalledStep ==
  ASSUME PolicyInv, InstalledSelfGoverning, [AdaptationNext]_adaptationVars
  PROVE  InstalledSelfGoverning'
<1>1. CASE UNCHANGED <<active, registered, transitions>>
  BY <1>1 DEF InstalledSelfGoverning
<1>2. ASSUME NEW q \in Policies, InitCommand(q)
      PROVE  InstalledSelfGoverning'
  BY <1>2 DEF PolicyInv, Unstarted, InitCommand, InstalledSelfGoverning
<1>3. ASSUME NEW t \in Transitions, ProposeGovernancePolicyTransition(t)
      PROVE  InstalledSelfGoverning'
  <2>1. active' = t.candidate /\ Compatible(active, t.candidate)
    BY <1>3 DEF ProposeGovernancePolicyTransition, Complies
  <2>2. Document[t.candidate].version \in {1, 2}
    BY DocumentAssumption DEF Transitions, Documents
  <2>3. SelfGoverning(t.candidate)
    BY <2>1, <2>2 DEF Compatible, SelfGoverning
  <2>4. QED
    BY <2>1, <2>3 DEF InstalledSelfGoverning
<1>4. CASE UNCHANGED adaptationVars
  BY <1>1, <1>4 DEF adaptationVars
<1>5. QED BY <1>1, <1>2, <1>3, <1>4, PolicyUntouched

(* A self-governing policy can be left: the witness takes the highest level,*)
(* one of the groundings the requirement permits, a human approver and a    *)
(* candidate that keeps the checks.                                         *)
LEMMA SelfGoverningCanBeLeft ==
  ASSUME ProposalsAtHand, active \in Policies, active \in registered, SelfGoverning(active)
  PROVE  \E t \in Transitions : Complies(t)
<1>1. PICK h \in Humans, m \in Actors, b \in Bundles :
        m # h /\ b.auditor \notin {m, b.producer}
  BY DEF ProposalsAtHand
<1>3. PICK q \in Policies : Compatible(active, q)
  BY DEF ProposalsAtHand
<1>4. PICK g \in Groundings \ {"NONE"} :
        ConstitutionalFloor(active) => g \in Requirement(active, "governance").permitted
  <2>1. CASE ConstitutionalFloor(active)
    <3>1. /\ Requirement(active, "governance") \in Requirements
          /\ "NONE" \notin Requirement(active, "governance").permitted
      BY <2>1, DocumentAssumption
         DEF ConstitutionalFloor, Requirement, Documents, Scopes
    <3>2. QED BY <3>1 DEF Requirements
  <2>2. CASE ~ConstitutionalFloor(active)
    BY <2>2 DEF ProposalsAtHand
  <2>3. QED BY <2>1, <2>2
<1>5. PICK c \in Cases : c = [scope |-> "governance", closed |-> FALSE, level |-> 7,
                             grounding |-> g, sound |-> TRUE]
  BY DEF ProposalsAtHand
<1> DEFINE t == [proposer |-> m, approver |-> h, case |-> c, prior |-> active,
                 candidate |-> q, rollback |-> active, bundle |-> b]
<1>6. t \in Transitions
  BY <1>1, <1>3, <1>5, ActorsAssumption DEF Transitions
<1>7. ConstitutionalCase(t)
  BY <1>1, <1>5 DEF ConstitutionalCase, ApprovedBy, Kind, Constitutional
<1>8. MeetsActive(t)
  <2>1. CASE Document[active].version = 1
    BY <2>1 DEF MeetsActive
  <2>2. CASE ConstitutionalFloor(active)
    BY <2>2, <1>1, <1>4, <1>5
       DEF MeetsActive, Meets, ConstitutionalFloor, Constitutional, Kind, Requirement
  <2>3. QED BY <2>1, <2>2 DEF SelfGoverning
<1>9. Complies(t)
  BY <1>3, <1>7, <1>8 DEF Complies
<1>10. QED BY <1>6, <1>9

(* Wherever proposals are at hand, governance never locks: as long as the   *)
(* first policy could be left, a proposal exists that satisfies both the    *)
(* constitution and the policy in force (governance.py:252-377).            *)
THEOREM NeverLocks ==
  ASSUME ProposalsAtHand
  PROVE  AdaptationSpec => []GovernanceNeverLocks
<1>1. PolicyInv /\ InstalledSelfGoverning => GovernanceNeverLocks
  <2>1. SUFFICES ASSUME PolicyInv, InstalledSelfGoverning, active # NoPolicy,
                        SelfGoverning(FirstPolicy)
                 PROVE  \E t \in Transitions : Complies(t)
    BY DEF GovernanceNeverLocks
  <2>2. active \in Policies /\ active \in registered
    BY <2>1 DEF PolicyInv, AdaptationTyped, Started
  <2>3. SelfGoverning(active)
    BY <2>1 DEF FirstPolicy, InstalledSelfGoverning
  <2>4. QED BY <2>2, <2>3, SelfGoverningCanBeLeft
<1>2. AdaptationInit => InstalledSelfGoverning
  BY DEF AdaptationInit, InstalledSelfGoverning
<1>3. QED
  BY <1>1, <1>2, PolicyInit, PolicyStep, InstalledStep, PTL DEF AdaptationSpec

=============================================================================
