--------------------------- MODULE KnowledgeProofs ----------------------------
(***************************************************************************)
(* What governed knowledge rests on, for any constants: claims and their    *)
(* evidence, behavioral rules and their consolidation, hypotheses and their *)
(* lineages, representational primitives.  Each component has an inductive  *)
(* invariant of named parts and one lemma per kind of step.                 *)
(***************************************************************************)
EXTENDS ClaimLifecycle, Rules, Hypotheses, Representations, FiniteSetTheorems, TLAPS

-----------------------------------------------------------------------------
(* Claims.                                                                  *)

(* What every reachable state satisfies: the three invariants of the model, *)
(* which are inductive together.                                            *)
ClaimInv == TypeOK /\ HistoryFollowsGraph /\ OnlyEarlyWithdrawalsFail

(* No edge of the status graph returns to PROPOSED, and none leaves         *)
(* WITHDRAWN.                                                               *)
LEMMA GraphShape ==
  /\ Allowed["WITHDRAWN"] = {}
  /\ \A s \in Status : "PROPOSED" \notin Allowed[s]
BY DEF Allowed, Status

(* Adding evidence keeps every verified version verified: the checks only   *)
(* look for a record, and records are never removed.                        *)
LEMMA EvidenceKeepsVerification ==
  ASSUME NEW v, VersionVerifies(v), evidence \subseteq evidence'
  PROVE  VersionVerifies(v)'
BY DEF VersionVerifies, ChecksPass, SourceExists, SpanExists

(* A version the transition admits verifies, or withdraws a claim that is   *)
(* still only proposed.                                                     *)
LEMMA AdmittedVerifies ==
  ASSUME NEW v, NEW current, VersionVerifies(current), current.status \in Status,
         TransitionAdmits(v, current)
  PROVE  VersionVerifies(v) \/ (v.status = "WITHDRAWN" /\ current.status = "PROPOSED")
<1>1. CASE v.status # "WITHDRAWN"
  BY <1>1 DEF TransitionAdmits, EvidenceAdmits, VersionVerifies
<1>2. CASE v.status = "WITHDRAWN" /\ current.status # "PROPOSED"
  <2>1. v.links = current.links
    BY <1>2 DEF TransitionAdmits, WithdrawalAdmits
  <2>2. current.status # "WITHDRAWN"
    BY GraphShape DEF TransitionAdmits, Succeeds
  <2>3. ChecksPass(current)
    BY <1>2, <2>2 DEF VersionVerifies
  <2>4. ChecksPass(v)
    BY <2>1, <2>3 DEF ChecksPass
  <2>5. QED BY <2>4 DEF VersionVerifies
<1>3. QED BY <1>1, <1>2

(* The invariant holds initially and every submission preserves it.         *)
LEMMA ClaimInitInvariant == Init => ClaimInv
BY DEF Init, ClaimInv, TypeOK, HistoryFollowsGraph, OnlyEarlyWithdrawalsFail

(* New evidence contradicts no version.                                     *)
LEMMA AddEvidenceKeepsInv ==
  ASSUME ClaimInv, NEW e \in EvidenceRecords, AddEvidence(e)
  PROVE  ClaimInv'
<1>1. evidence' = evidence \cup {e} /\ history' = history /\ \A f \in evidence : f.id # e.id
  BY DEF AddEvidence
<1>2. TypeOK'
  BY <1>1 DEF ClaimInv, TypeOK
<1>3. HistoryFollowsGraph'
  BY <1>1 DEF ClaimInv, HistoryFollowsGraph
<1>4. OnlyEarlyWithdrawalsFail'
  BY <1>1, EvidenceKeepsVerification DEF ClaimInv, OnlyEarlyWithdrawalsFail
<1>5. QED BY <1>2, <1>3, <1>4 DEF ClaimInv

(* A proposed claim starts a history at version 1.                          *)
LEMMA ProposeClaimKeepsInv ==
  ASSUME ClaimInv, NEW c \in Claims, NEW v \in AtomicClaims, ProposeClaim(c, v)
  PROVE  ClaimInv'
<1>1. /\ history' = [history EXCEPT ![c] = <<v>>] /\ evidence' = evidence
      /\ v.status = "PROPOSED" /\ v.version = 1
  BY DEF ProposeClaim
<1>2. \A d \in Claims : history'[d] = IF d = c THEN <<v>> ELSE history[d]
  BY <1>1 DEF ClaimInv, TypeOK
<1>3. TypeOK'
  BY <1>1 DEF ClaimInv, TypeOK
<1>4. HistoryFollowsGraph'
  BY <1>1, <1>2 DEF ClaimInv, HistoryFollowsGraph
<1>5. OnlyEarlyWithdrawalsFail'
  <2>1. VersionVerifies(v)'
    BY <1>1 DEF VersionVerifies
  <2>2. QED
    BY <1>1, <1>2, <2>1, EvidenceKeepsVerification DEF ClaimInv, OnlyEarlyWithdrawalsFail
<1>6. QED BY <1>3, <1>4, <1>5 DEF ClaimInv

(* A transition follows the graph and repeats the content.                  *)
LEMMA TransitionClaimKeepsInv ==
  ASSUME ClaimInv, NEW c \in Claims, NEW v \in AtomicClaims, TransitionClaim(c, v)
  PROVE  ClaimInv'
<1> DEFINE n == Len(history[c])
<1>1. /\ history' = [history EXCEPT ![c] = Append(@, v)] /\ evidence' = evidence
      /\ history[c] # <<>> /\ TransitionAdmits(v, history[c][n]) /\ WorkspaceVerifies
  BY DEF TransitionClaim, Current
<1>2. history[c] \in Seq(AtomicClaims) /\ n \in Nat \ {0} /\ history[c][n] \in AtomicClaims
  BY <1>1 DEF ClaimInv, TypeOK
<1>3. /\ \A d \in Claims \ {c} : history'[d] = history[d]
      /\ history'[c] = Append(history[c], v)
  BY <1>1 DEF ClaimInv, TypeOK
<1>4. /\ Len(history'[c]) = n + 1 /\ history'[c][n + 1] = v
      /\ \A i \in 1..n : history'[c][i] = history[c][i]
  BY <1>2, <1>3
<1>5. /\ v.version = n + 1
      /\ v.content = history[c][1].content
      /\ v.status \in Allowed[history[c][n].status] \ NeedsReview
  <2>1. v.status \notin NeedsReview
    BY <1>1 DEF TransitionAdmits, EvidenceAdmits, NeedsReview
  <2>2. history[c][n].version = n /\ history[c][n].content = history[c][1].content
    BY <1>2 DEF ClaimInv, HistoryFollowsGraph
  <2>3. QED BY <1>1, <2>1, <2>2 DEF TransitionAdmits, Succeeds
<1>6. history[c][n].status \in Status /\ v.status # "PROPOSED"
  <2>1. history[c][n].status \in Status
    BY <1>2 DEF AtomicClaims
  <2>2. QED BY <1>5, <2>1, GraphShape
<1>7. TypeOK'
  BY <1>1, <1>2, <1>3 DEF ClaimInv, TypeOK
<1>8. HistoryFollowsGraph'
  <2>1. ASSUME NEW d \in Claims, NEW i \in 1..Len(history'[d])
        PROVE  /\ history'[d][i].version = i
               /\ history'[d][i].content = history'[d][1].content
               /\ history'[d][i].status = "PROPOSED" <=> i = 1
               /\ i > 1 => history'[d][i].status \in Allowed[history'[d][i - 1].status] \ NeedsReview
    <3>1. CASE d # c
      BY <1>3, <3>1 DEF ClaimInv, HistoryFollowsGraph
    <3>2. CASE d = c /\ i \in 1..n
      <4>1. history'[d][i] = history[d][i] /\ history'[d][1] = history[d][1]
        BY <1>2, <1>4, <3>2
      <4>2. i > 1 => history'[d][i - 1] = history[d][i - 1]
        BY <1>2, <1>4, <3>2
      <4>3. QED BY <3>2, <4>1, <4>2 DEF ClaimInv, HistoryFollowsGraph
    <3>3. CASE d = c /\ i = n + 1
      <4>1. /\ history'[d][i] = v /\ i > 1
            /\ history'[d][1] = history[d][1]
            /\ history'[d][i - 1] = history[d][n]
        BY <1>2, <1>4, <3>3
      <4>2. QED BY <1>5, <1>6, <3>3, <4>1
    <3>4. QED BY <1>2, <1>4, <3>1, <3>2, <3>3
  <2>2. QED BY <2>1 DEF HistoryFollowsGraph
<1>9. OnlyEarlyWithdrawalsFail'
  <2>1. VersionVerifies(v) \/ (v.status = "WITHDRAWN" /\ history[c][n].status = "PROPOSED")
    <3>1. VersionVerifies(history[c][n])
      BY <1>1, <1>2 DEF WorkspaceVerifies
    <3>2. QED BY <1>1, <1>6, <3>1, AdmittedVerifies
  <2>2. history[c][n].status = "PROPOSED" => n + 1 = 2
    BY <1>2 DEF ClaimInv, HistoryFollowsGraph
  <2>3. ASSUME NEW d \in Claims, NEW i \in 1..Len(history'[d])
        PROVE  (VersionVerifies(history[d][i]) \/ (i = 2 /\ history[d][i].status = "WITHDRAWN"))'
    <3>1. CASE d # c
      <4>1. VersionVerifies(history[d][i]) /\ history'[d][i] = history[d][i]
        BY <1>1, <1>3, <3>1 DEF WorkspaceVerifies
      <4>2. QED BY <1>1, <4>1 DEF VersionVerifies, ChecksPass, SourceExists, SpanExists
    <3>2. CASE d = c /\ i \in 1..n
      <4>1. VersionVerifies(history[d][i]) /\ history'[d][i] = history[d][i]
        BY <1>1, <1>4, <3>2 DEF WorkspaceVerifies
      <4>2. QED BY <1>1, <4>1 DEF VersionVerifies, ChecksPass, SourceExists, SpanExists
    <3>3. CASE d = c /\ i = n + 1
      <4>1. history'[d][i] = v
        BY <1>4, <3>3
      <4>2. CASE v.status = "WITHDRAWN" /\ history[c][n].status = "PROPOSED"
        BY <2>2, <3>3, <4>1, <4>2
      <4>3. CASE VersionVerifies(v)
        BY <1>1, <4>1, <4>3 DEF VersionVerifies, ChecksPass, SourceExists, SpanExists
      <4>4. QED BY <2>1, <4>2, <4>3
    <3>4. QED BY <1>2, <1>4, <3>1, <3>2, <3>3
  <2>4. QED BY <2>3 DEF OnlyEarlyWithdrawalsFail
<1>10. QED BY <1>7, <1>8, <1>9 DEF ClaimInv

(* The invariant of claims holds in every reachable state.                  *)
LEMMA ClaimInvariant == Spec => []ClaimInv
<1>1. ClaimInv /\ [Next]_vars => ClaimInv'
  <2>1. ClaimInv /\ UNCHANGED vars => ClaimInv'
    BY DEF vars, ClaimInv, TypeOK, HistoryFollowsGraph, OnlyEarlyWithdrawalsFail, VersionVerifies,
       ChecksPass, SourceExists, SpanExists
  <2>2. QED
    BY <2>1, AddEvidenceKeepsInv, ProposeClaimKeepsInv, TransitionClaimKeepsInv DEF Next
<1>2. QED BY <1>1, ClaimInitInvariant, PTL DEF Spec

-----------------------------------------------------------------------------
(* The histories of claims are walks through the status graph.              *)
THEOREM GraphWalk == Spec => []HistoryFollowsGraph
<1>1. ClaimInv => HistoryFollowsGraph
  BY DEF ClaimInv
<1>2. QED BY <1>1, ClaimInvariant, PTL

(* Every admitted version passes the evidence checks for ever, except the   *)
(* withdrawal of a claim that was never supported.                          *)
THEOREM AdmittedStaysSupported == Spec => []OnlyEarlyWithdrawalsFail
<1>1. ClaimInv => OnlyEarlyWithdrawalsFail
  BY DEF ClaimInv
<1>2. QED BY <1>1, ClaimInvariant, PTL

-----------------------------------------------------------------------------
(* Behavioral rules.                                                        *)

RuleIdsUnique == \A u, v \in ruleVersions : u.id = v.id => u = v
RulesTyped == \A v \in ruleVersions : v.rule \in RuleIds
CanonicalTyped ==
  \A v \in CanonicalRules : v.number \in Nat /\ v.rank \in Nat
(* The head of a rule is its last canonical version, if it has one.         *)
HeadsAreLatest ==
  /\ ruleHeads = [r \in RuleIds |-> ruleHeads[r]]
  /\ \A r \in RuleIds :
       \/ ruleHeads[r] = {} /\ \A v \in CanonicalRules : v.rule # r
       \/ \E h \in CanonicalRules :
            /\ h.rule = r /\ ruleHeads[r] = {h.id}
            /\ \A v \in CanonicalRules : v.rule = r => v = h \/ v.number < h.number
(* A later version of a rule keeps what the earlier ones rest on.           *)
LaterKeepsMore ==
  \A u, v \in CanonicalRules : u.rule = v.rule /\ u.number <= v.number =>
    /\ u.number = v.number => u = v
    /\ u.incidents \subseteq v.incidents
    /\ v.rank <= u.rank

RuleInv ==
  /\ RuleIdsUnique /\ RulesTyped /\ CanonicalTyped
  /\ HeadsAreLatest /\ LaterKeepsMore /\ OverlapsAreMerged

(* Incidents, proposals and reviews leave versions and heads alone.         *)
LEMMA RuleUnchanged ==
  ASSUME RuleInv, UNCHANGED <<ruleVersions, ruleHeads>>
  PROVE  RuleInv'
<1>1. UNCHANGED CanonicalRules  BY DEF CanonicalRules
<1>2. UNCHANGED HeadRules  BY DEF HeadRules
<1>3. RuleIdsUnique' /\ RulesTyped' /\ CanonicalTyped'
  BY <1>1 DEF RuleInv, RuleIdsUnique, RulesTyped, CanonicalTyped
<1>4. HeadsAreLatest'  BY <1>1 DEF RuleInv, HeadsAreLatest
<1>5. LaterKeepsMore'  BY <1>1 DEF RuleInv, LaterKeepsMore
<1>6. OverlapsAreMerged'  BY <1>2 DEF RuleInv, OverlapsAreMerged
<1> QED  BY <1>3, <1>4, <1>5, <1>6 DEF RuleInv

(* A proposed version is not canonical and is nobody's head.                *)
LEMMA ProposalKeepsInv ==
  ASSUME RuleInv, NEW proposal \in RuleProposalPool, NEW approver,
         ProposeBehavioralRule(proposal, approver)
  PROVE  RuleInv'
<1>1. PICK version :
        /\ version.rule \in RuleIds
        /\ ruleVersions' = ruleVersions \cup {version} /\ UNCHANGED ruleHeads
        /\ version.id \in IdsOf(ruleVersions) => version \in ruleVersions
        /\ version \notin ruleVersions => version.status \in ProposedStatuses
  <2> DEFINE version == [proposal.version EXCEPT !.policy = rulePolicy]
  <2>1. version.rule \in RuleIds
    BY RulePoolsAssumption DEF WellFormedRules, RuleVersionFields
  <2>2. /\ ruleVersions' = ruleVersions \cup {version} /\ UNCHANGED ruleHeads
        /\ version.id \in IdsOf(ruleVersions) => version \in ruleVersions
        /\ version \notin ruleVersions => version.status \in ProposedStatuses
    BY DEF ProposeBehavioralRule
  <2> HIDE DEF version
  <2> QED  BY <2>1, <2>2
<1>2. CASE version \in ruleVersions
  <2>1. UNCHANGED <<ruleVersions, ruleHeads>>  BY <1>1, <1>2
  <2> QED  BY <2>1, RuleUnchanged
<1>3. CASE version \notin ruleVersions
  <2>1. /\ \A v \in ruleVersions : v.id # version.id
        /\ version.status \in ProposedStatuses
    BY <1>1, <1>3 DEF IdsOf
  <2>2. UNCHANGED CanonicalRules
    BY <1>1, <2>1 DEF CanonicalRules, CanonicalStatuses, ProposedStatuses
  <2>3. version.id \notin ruleHeads[version.rule]
    BY <1>1, <2>1 DEF RuleInv, HeadsAreLatest, CanonicalRules
  <2>4. UNCHANGED HeadRules  BY <1>1, <2>3 DEF HeadRules
  <2>5. RuleIdsUnique'  BY <1>1, <2>1 DEF RuleInv, RuleIdsUnique
  <2>6. RulesTyped' /\ CanonicalTyped'  BY <1>1, <2>2 DEF RuleInv, RulesTyped, CanonicalTyped
  <2>7. HeadsAreLatest'  BY <1>1, <2>2 DEF RuleInv, HeadsAreLatest
  <2>8. LaterKeepsMore'  BY <2>2 DEF RuleInv, LaterKeepsMore
  <2>9. OverlapsAreMerged'  BY <2>4 DEF RuleInv, OverlapsAreMerged
  <2> QED  BY <2>5, <2>6, <2>7, <2>8, <2>9 DEF RuleInv
<1> QED  BY <1>2, <1>3

(* What a consolidation that produces a version adds: a new head that keeps *)
(* what the old one of its rule rested on and names the heads it overlaps.  *)
NewHead(n) ==
  /\ n.id \notin IdsOf(ruleVersions) /\ n.status \in CanonicalStatuses
  /\ n.rule \in RuleIds /\ n.number \in Nat /\ n.rank \in Nat
  /\ ruleVersions' = ruleVersions \cup {n}
  /\ ruleHeads' = [r \in RuleIds |-> ruleHeads'[r]]
  /\ ruleHeads'[n.rule] = {n.id}
  /\ \A r \in RuleIds \ {n.rule} : ruleHeads'[r] = ruleHeads[r]
  /\ \A h \in HeadRules : h.rule = n.rule =>
       h.number < n.number /\ h.incidents \subseteq n.incidents /\ n.rank <= h.rank
  /\ \A h \in HeadRules : h.rule # n.rule /\ RulesOverlap(n.content, h.content) =>
       h.id \in n.supersedes

(* A consolidation makes one new head, or none.                             *)
LEMMA ConsolidationResult ==
  ASSUME RuleInv, NEW decision, NEW candidate \in RuleCandidatePool, NEW proposal, NEW panel,
         NEW action, NEW recurrences, NEW approver,
         ConsolidateBehavioralRule(decision, candidate, proposal, panel, action, recurrences,
                                   approver)
  PROVE  UNCHANGED <<ruleVersions, ruleHeads>> \/ \E n : NewHead(n)
<1> DEFINE base == RuleBase(candidate.rule, proposal)
           affected == AffectedHeads(candidate)
           n == CandidateVersion(candidate, base, panel, action, recurrences, approver)
           produced == IF action = "REJECT" THEN {} ELSE {n}
<1>1. /\ candidate.id \notin IdsOf(ruleVersions)
      /\ RuleStrengthens(candidate, base, base \cup affected)
      /\ ruleVersions' = ruleVersions \cup produced
      /\ ruleHeads' = [r \in RuleIds |->
           IF \E v \in produced : v.rule = r THEN {candidate.id} ELSE ruleHeads[r]]
  BY DEF ConsolidateBehavioralRule
<1>2. /\ n.id = candidate.id /\ n.rule = candidate.rule /\ n.number = candidate.number
      /\ n.rank = candidate.rank /\ n.content = candidate.content
      /\ n.incidents = RetainedIncidents(base \cup affected, recurrences, panel)
      /\ n.supersedes = IdsOf(base \cup affected) /\ n.status = StatusForAction(action)
  BY DEF CandidateVersion
<1>3. candidate.rule \in RuleIds /\ candidate.number \in Nat /\ candidate.rank \in Nat
  BY RulePoolsAssumption DEF WellFormedRules
<1>4. ruleHeads = [r \in RuleIds |-> ruleHeads[r]]  BY DEF RuleInv, HeadsAreLatest
<1> HIDE DEF base, affected, n
<1>5. CASE action = "REJECT"
  <2>1. produced = {}  BY <1>5
  <2>2. \A r \in RuleIds : ruleHeads'[r] = ruleHeads[r]  BY <1>1, <2>1
  <2> QED  BY <1>1, <1>4, <2>1, <2>2
<1>6. CASE action # "REJECT"
  <2>1. produced = {n}  BY <1>6
  <2>2. /\ ruleVersions' = ruleVersions \cup {n}
        /\ ruleHeads' = [r \in RuleIds |-> ruleHeads'[r]]
        /\ ruleHeads'[n.rule] = {n.id}
        /\ \A r \in RuleIds \ {n.rule} : ruleHeads'[r] = ruleHeads[r]
    BY <1>1, <1>2, <1>3, <2>1
  <2>3. n.status \in CanonicalStatuses  BY <1>2 DEF StatusForAction, CanonicalStatuses
  <2>4. ASSUME NEW h \in HeadRules, h.rule = n.rule
        PROVE  h.number < n.number /\ h.incidents \subseteq n.incidents /\ n.rank <= h.rank
    <3>1. h \in base  BY <1>2, <2>4 DEF base, RuleBase
    <3>2. h \in CanonicalRules  BY <1>2, <1>3, <2>4 DEF RuleInv, HeadsAreLatest, HeadRules, RuleIdsUnique, CanonicalRules
    <3>3. h.number \in Nat /\ h.rank \in Nat  BY <3>2 DEF RuleInv, CanonicalTyped
    <3>4. h.incidents \subseteq n.incidents  BY <1>2, <3>1 DEF RetainedIncidents
    <3>5. n.number > h.number /\ n.rank <= h.rank
      BY <1>1, <1>2, <2>4, <3>1 DEF RuleStrengthens
    <3> QED  BY <1>2, <1>3, <3>3, <3>4, <3>5
  <2>5. ASSUME NEW h \in HeadRules, h.rule # n.rule, RulesOverlap(n.content, h.content)
        PROVE  h.id \in n.supersedes
    BY <1>2, <2>5 DEF affected, AffectedHeads, IdsOf
  <2> QED  BY <1>1, <1>2, <1>3, <2>2, <2>3, <2>4, <2>5 DEF NewHead
<1> QED  BY <1>5, <1>6

(* The new head keeps the incidents and the authority of what it            *)
(* supersedes.                                                              *)
LEMMA NewHeadKeepsInv ==
  ASSUME RuleInv, NEW n, NewHead(n)
  PROVE  RuleInv'
<1> USE DEF RuleInv
<1>1. /\ \A v \in ruleVersions : v.id # n.id
      /\ CanonicalRules' = CanonicalRules \cup {n}
  BY DEF NewHead, IdsOf, CanonicalRules
<1>2. HeadRules' = {v \in HeadRules : v.rule # n.rule} \cup {n}
  <2>1. ASSUME NEW v \in ruleVersions, v.rule \in RuleIds
        PROVE  v \in HeadRules' <=> v \in HeadRules /\ v.rule # n.rule
    <3>1. v \in ruleVersions' /\ v.id # n.id  BY <1>1 DEF NewHead
    <3>2. CASE v.rule = n.rule
      <4>1. ruleHeads'[v.rule] = {n.id}  BY <3>2 DEF NewHead
      <4> QED  BY <3>1, <3>2, <4>1 DEF HeadRules
    <3>3. CASE v.rule # n.rule
      <4>1. ruleHeads'[v.rule] = ruleHeads[v.rule]  BY <2>1, <3>3 DEF NewHead
      <4> QED  BY <3>1, <3>3, <4>1 DEF HeadRules
    <3> QED  BY <3>2, <3>3
  <2>2. \A v \in ruleVersions : v.rule \in RuleIds
    BY DEF RulesTyped
  <2>3. n \in HeadRules'  BY DEF NewHead, HeadRules
  <2>4. HeadRules \subseteq ruleVersions /\ HeadRules' \subseteq ruleVersions \cup {n}
    BY DEF NewHead, HeadRules
  <2>5. n \notin HeadRules  BY <1>1, <2>4
  <2> QED  BY <2>1, <2>2, <2>3, <2>4, <2>5
<1>3. RuleIdsUnique'  BY <1>1 DEF NewHead, RuleIdsUnique
<1>4. RulesTyped' /\ CanonicalTyped'  BY <1>1 DEF NewHead, RulesTyped, CanonicalTyped
<1>5. ASSUME NEW u \in CanonicalRules, u.rule = n.rule
      PROVE  u.number < n.number /\ u.incidents \subseteq n.incidents /\ n.rank <= u.rank
  <2>1. PICK h \in CanonicalRules :
          /\ h.rule = n.rule /\ ruleHeads[n.rule] = {h.id}
          /\ u = h \/ u.number < h.number
    BY <1>5 DEF HeadsAreLatest, NewHead
  <2>2. h \in HeadRules  BY <2>1 DEF HeadRules, CanonicalRules
  <2>3. h.number < n.number /\ h.incidents \subseteq n.incidents /\ n.rank <= h.rank
    BY <2>1, <2>2 DEF NewHead
  <2>4. u.number \in Nat /\ h.number \in Nat /\ n.number \in Nat /\ u.rank \in Nat
        /\ h.rank \in Nat /\ n.rank \in Nat
    BY DEF CanonicalTyped, NewHead
  <2>5. u.number <= h.number  BY <2>1, <2>4
  <2>6. u.incidents \subseteq h.incidents /\ h.rank <= u.rank
    BY <1>5, <2>1, <2>5 DEF LaterKeepsMore
  <2> QED  BY <2>3, <2>4, <2>5, <2>6
<1>6. HeadsAreLatest'
  <2>1. ASSUME NEW r \in RuleIds
        PROVE  \/ ruleHeads'[r] = {} /\ \A v \in CanonicalRules' : v.rule # r
               \/ \E h \in CanonicalRules' :
                    /\ h.rule = r /\ ruleHeads'[r] = {h.id}
                    /\ \A v \in CanonicalRules' : v.rule = r => v = h \/ v.number < h.number
    <3>1. CASE r = n.rule  BY <1>1, <1>5, <3>1 DEF NewHead
    <3>2. CASE r # n.rule  BY <1>1, <3>2 DEF NewHead, HeadsAreLatest
    <3> QED  BY <3>1, <3>2
  <2> QED  BY <2>1 DEF HeadsAreLatest, NewHead
<1>7. LaterKeepsMore'
  <2>1. ASSUME NEW u \in CanonicalRules', NEW v \in CanonicalRules',
               u.rule = v.rule, u.number <= v.number
        PROVE  /\ u.number = v.number => u = v
               /\ u.incidents \subseteq v.incidents
               /\ v.rank <= u.rank
    <3>1. u.number \in Nat /\ v.number \in Nat /\ u.rank \in Nat  BY <1>4 DEF CanonicalTyped
    <3>2. CASE u = n /\ v = n  BY <3>1, <3>2
    <3>3. CASE u \in CanonicalRules /\ v = n  BY <1>5, <2>1, <3>1, <3>3
    <3>4. CASE u = n /\ v \in CanonicalRules  BY <1>5, <2>1, <3>1, <3>4
    <3>5. CASE u \in CanonicalRules /\ v \in CanonicalRules
      BY <2>1, <3>5 DEF LaterKeepsMore
    <3> QED  BY <1>1, <3>2, <3>3, <3>4, <3>5
  <2> QED  BY <2>1 DEF LaterKeepsMore
<1>8. OverlapsAreMerged'
  <2>1. ASSUME NEW v \in HeadRules', NEW u \in HeadRules', v # u,
               RulesOverlap(v.content, u.content)
        PROVE  v.id \in u.supersedes \/ u.id \in v.supersedes
    <3>1. RulesOverlap(u.content, v.content)  BY <2>1 DEF RulesOverlap
    <3>2. CASE u = n  BY <1>2, <2>1, <3>1, <3>2 DEF NewHead
    <3>3. CASE v = n  BY <1>2, <2>1, <3>3 DEF NewHead
    <3>4. CASE u # n /\ v # n  BY <1>2, <2>1, <3>4 DEF OverlapsAreMerged
    <3> QED  BY <3>2, <3>3, <3>4
  <2> QED  BY <2>1 DEF OverlapsAreMerged
<1> QED  BY <1>3, <1>4, <1>6, <1>7, <1>8

(* One step per operation on rules.                                         *)
LEMMA RuleStep ==
  ASSUME RuleInv, [RuleNext]_ruleVars
  PROVE  RuleInv'
<1>1. CASE UNCHANGED ruleVars \/ \E policy \in RulePolicies : RulePolicyMoves(policy)
  <2>1. UNCHANGED <<ruleVersions, ruleHeads>>
    BY <1>1 DEF ruleVars, ruleRecords, RulePolicyMoves
  <2> QED  BY <2>1, RuleUnchanged
<1>2. CASE \E approver \in RuleHumans, incident \in RuleIncidentPool :
             RecordRuleIncident(incident, approver)
  BY <1>2, RuleUnchanged DEF RecordRuleIncident
<1>3. CASE \E approver \in RuleHumans, proposal \in RuleProposalPool :
             ProposeBehavioralRule(proposal, approver)
  BY <1>3, ProposalKeepsInv
<1>4. CASE \E approver \in RuleHumans, review \in RuleReviewPool :
             ImportReviewerAssessment(review, approver)
  BY <1>4, RuleUnchanged DEF ImportReviewerAssessment
<1>5. ASSUME NEW decision, NEW candidate \in RuleCandidatePool, NEW proposal, NEW panel,
             NEW action, NEW recurrences, NEW approver,
             ConsolidateBehavioralRule(decision, candidate, proposal, panel, action, recurrences,
                                       approver)
      PROVE  RuleInv'
  BY <1>5, ConsolidationResult, RuleUnchanged, NewHeadKeepsInv
<1> QED  BY <1>1, <1>2, <1>3, <1>4, <1>5 DEF RuleNext

(* The property is read off the invariant.                                  *)
LEMMA RuleInvSuffices ==
  ASSUME RuleInv
  PROVE  ConsolidationKeepsHistory
<1>1. ASSUME NEW v \in CanonicalRules
      PROVE  ruleHeads[v.rule] = RebuiltHead(v.rule)
  <2>1. v.rule \in RuleIds  BY DEF RuleInv, RulesTyped, CanonicalRules
  <2>2. PICK h \in CanonicalRules :
          /\ h.rule = v.rule /\ ruleHeads[v.rule] = {h.id}
          /\ \A u \in CanonicalRules : u.rule = v.rule => u = h \/ u.number < h.number
    BY <2>1 DEF RuleInv, HeadsAreLatest
  <2> DEFINE versions == {u \in CanonicalRules : u.rule = v.rule}
             latest == {w \in versions : \A u \in versions : u.number <= w.number}
  <2>3. \A u \in versions : u.number \in Nat  BY DEF RuleInv, CanonicalTyped
  <2>4. h \in latest  BY <2>2, <2>3
  <2>5. \A w \in latest : w = h  BY <2>2, <2>3
  <2>6. latest = {h}  BY <2>4, <2>5
  <2>7. RebuiltHead(v.rule) = IdsOf(latest)  BY DEF RebuiltHead
  <2> HIDE DEF latest
  <2>8. IdsOf(latest) = {h.id}  BY <2>6 DEF IdsOf
  <2> QED  BY <2>2, <2>7, <2>8
<1>2. SupersessionAddsHistory
  BY <1>1 DEF SupersessionAddsHistory, RuleInv, LaterKeepsMore
<1> QED  BY <1>2 DEF ConsolidationKeepsHistory, RuleInv

(* No consolidation drops an incident or lowers the authority of a rule it  *)
(* supersedes, and the rules in force are merged where they overlap         *)
(* (rules/service.py:515-727).                                              *)
THEOREM RuleHistoryKept == RuleSpec => []ConsolidationKeepsHistory
<1>1. ASSUME RuleInit  PROVE RuleInv
  <2>1. ruleVersions = {} /\ ruleHeads = [r \in RuleIds |-> {}]  BY <1>1 DEF RuleInit
  <2>2. CanonicalRules = {} /\ HeadRules = {}  BY <2>1 DEF CanonicalRules, HeadRules
  <2> QED  BY <2>1, <2>2 DEF RuleInv, RuleIdsUnique, RulesTyped, CanonicalTyped, HeadsAreLatest,
             LaterKeepsMore, OverlapsAreMerged
<1> QED  BY <1>1, RuleStep, RuleInvSuffices, PTL DEF RuleSpec

-----------------------------------------------------------------------------
(* Hypotheses.                                                              *)

(* What one more element does to a sequence.                                *)
LEMMA Appended ==
  ASSUME NEW S, NEW s \in Seq(S), NEW e
  PROVE  /\ Append(s, e) \in Seq(S \cup {e})
         /\ Len(s) \in Nat /\ Len(Append(s, e)) = Len(s) + 1
         /\ DOMAIN s = 1 .. Len(s) /\ DOMAIN Append(s, e) = 1 .. Len(s) + 1
         /\ \A i \in DOMAIN s : Append(s, e)[i] = s[i]
         /\ Append(s, e)[Len(s) + 1] = e
  OBVIOUS

HypothesisEvidence ==
  Accepted("MODEL") \cup Accepted("MECHANISM") \cup Accepted("SIMULATION") \cup Accepted("RESULT")
    \cup Accepted("COUNTEREXAMPLE")
AdmittedVersions == {v \in HypothesisVersions : v.id \in {a.version : a \in hypothesisAdmissions}}

HypothesisLogIsSequence == \E S : hypothesisLog \in Seq(S)
HypothesisIdsUnique == \A u, v \in HypothesisVersions : u.id = v.id => u = v
HypothesesTyped ==
  /\ \A v \in HypothesisVersions : v.hypothesis \in HypothesisIds /\ v.number \in Nat \ {0}
  /\ hypothesisHeads = [h \in HypothesisIds |-> hypothesisHeads[h]]
  /\ \A e \in HypothesisEvidence : e.version \in IdsOf(HypothesisVersions)
  /\ \A a \in hypothesisAdmissions : a.version \in IdsOf(HypothesisVersions)
NumbersUnique ==
  \A u, v \in HypothesisVersions : u.hypothesis = v.hypothesis /\ u.number = v.number => u = v
(* Every version but the first results from one revision of the version     *)
(* before it, after a check that this did not pass.                         *)
RevisedFrom(v) ==
  \E r \in Accepted("REVISION"), u \in HypothesisVersions, c \in Accepted("RESULT") :
    /\ r.resulting = v /\ u.hypothesis = v.hypothesis
    /\ u.id = r.prior /\ u.number = v.number - 1
    /\ c.version = u.id /\ c.outcome # "PASS"
RevisionsLead ==
  /\ \A r, s \in Accepted("REVISION") : r.resulting = s.resulting => r = s
  /\ \A v \in HypothesisVersions : v.number > 1 => RevisedFrom(v)
OnlyLastAwaits ==
  \A u, v \in HypothesisVersions :
    u.hypothesis = v.hypothesis /\ u.number > v.number => v \in AdmittedVersions
HeadIsLastAdmitted ==
  \A h \in HypothesisIds :
    \/ hypothesisHeads[h] = {} /\ \A v \in AdmittedVersions : v.hypothesis # h
    \/ \E m \in AdmittedVersions :
         /\ m.hypothesis = h /\ hypothesisHeads[h] = {m.id}
         /\ \A v \in AdmittedVersions : v.hypothesis = h => v.number <= m.number

EvidenceBound ==
  \A v \in HypothesisVersions, e \in HypothesisEvidence : e.version = v.id => e.policy = v.policy

HypothesisInv ==
  /\ HypothesisLogIsSequence /\ HypothesisIdsUnique /\ HypothesesTyped /\ NumbersUnique
  /\ RevisionsLead /\ OnlyLastAwaits /\ HeadIsLastAdmitted /\ EvidenceBound

(* An accepted stage adds its record to those of the stage.                 *)
LEMMA AcceptAdds ==
  ASSUME HypothesisLogIsSequence, NEW stage, NEW record, Accept(stage, record)
  PROVE  /\ HypothesisLogIsSequence'
         /\ Accepted(stage)' = Accepted(stage) \cup {record}
         /\ \A other : other # stage => Accepted(other)' = Accepted(other)
         /\ UNCHANGED <<hypothesisPolicy, hypothesisAdmissions, hypothesisHeads>>
<1> DEFINE e == [stage |-> stage, record |-> record]
<1>1. /\ hypothesisLog' = Append(hypothesisLog, e)
      /\ UNCHANGED <<hypothesisPolicy, hypothesisAdmissions, hypothesisHeads>>
  BY DEF Accept
<1>2. e.stage = stage /\ e.record = record  OBVIOUS
<1> HIDE DEF e
<1>3. PICK S : hypothesisLog \in Seq(S)  BY DEF HypothesisLogIsSequence
<1>4. HypothesisLogIsSequence'
  <2>1. hypothesisLog' \in Seq(S \cup {e})  BY <1>1, <1>3, Appended
  <2> QED  BY <2>1 DEF HypothesisLogIsSequence
<1>5. /\ Len(hypothesisLog) \in Nat
      /\ DOMAIN hypothesisLog = 1 .. Len(hypothesisLog)
      /\ DOMAIN hypothesisLog' = 1 .. Len(hypothesisLog) + 1
      /\ \A i \in DOMAIN hypothesisLog : hypothesisLog'[i] = hypothesisLog[i]
      /\ hypothesisLog'[Len(hypothesisLog) + 1] = e
  BY <1>1, <1>3, Appended
<1>6. \A x, s : x \in Accepted(s) <=> \E i \in DOMAIN hypothesisLog :
                                       hypothesisLog[i].stage = s /\ hypothesisLog[i].record = x
  BY DEF Accepted
<1>7. \A x, s : x \in Accepted(s)' <=> \E i \in DOMAIN hypothesisLog' :
                                        hypothesisLog'[i].stage = s /\ hypothesisLog'[i].record = x
  BY DEF Accepted
<1>8. Accepted(stage)' = Accepted(stage) \cup {record}
  <2>1. \A x : x \in Accepted(stage)' <=> x \in Accepted(stage) \/ x = record
    BY <1>2, <1>5, <1>6, <1>7
  <2> QED  BY <2>1
<1>9. ASSUME NEW other, other # stage
      PROVE  Accepted(other)' = Accepted(other)
  <2>1. \A x : x \in Accepted(other)' <=> x \in Accepted(other)
    BY <1>2, <1>5, <1>6, <1>7, <1>9
  <2> QED  BY <2>1
<1> QED  BY <1>1, <1>4, <1>8, <1>9

(* A stage that brings evidence on a version received under its policy.     *)
LEMMA EvidenceKeepsInv ==
  ASSUME HypothesisInv, HypothesisLogIsSequence',
         UNCHANGED <<HypothesisVersions, Accepted("REVISION")>>,
         UNCHANGED <<hypothesisAdmissions, hypothesisHeads>>,
         Accepted("RESULT") \subseteq Accepted("RESULT")',
         NEW c \in HypothesisVersions, NEW e, e.version = c.id, e.policy = c.policy,
         HypothesisEvidence' = HypothesisEvidence \cup {e}
  PROVE  HypothesisInv'
<1> USE DEF HypothesisInv
<1>1. UNCHANGED AdmittedVersions  BY DEF AdmittedVersions
<1>2. HypothesisIdsUnique' /\ NumbersUnique'  BY DEF HypothesisIdsUnique, NumbersUnique
<1>3. HypothesesTyped'  BY DEF HypothesesTyped, IdsOf
<1>4. \A v : RevisedFrom(v) => RevisedFrom(v)'  BY DEF RevisedFrom
<1>5. RevisionsLead'  BY <1>4 DEF RevisionsLead
<1>6. OnlyLastAwaits' /\ HeadIsLastAdmitted'  BY <1>1 DEF OnlyLastAwaits, HeadIsLastAdmitted
<1>7. EvidenceBound'  BY DEF EvidenceBound, HypothesisIdsUnique
<1> QED  BY <1>2, <1>3, <1>5, <1>6, <1>7

(* The same with the stage as the handlers of evidence accept it.           *)
LEMMA StageKeepsInv ==
  ASSUME HypothesisInv,
         NEW stage \in {"MODEL", "MECHANISM", "SIMULATION", "RESULT", "COUNTEREXAMPLE"}, NEW e,
         NEW c \in HypothesisVersions, BindsCandidate(e.version, c), e.policy = hypothesisPolicy,
         Accept(stage, e)
  PROVE  HypothesisInv'
<1>1. /\ HypothesisLogIsSequence'
      /\ Accepted(stage)' = Accepted(stage) \cup {e}
      /\ \A other : other # stage => Accepted(other)' = Accepted(other)
      /\ UNCHANGED <<hypothesisPolicy, hypothesisAdmissions, hypothesisHeads>>
  BY AcceptAdds DEF HypothesisInv
<1>2. Accepted("VERSION")' = Accepted("VERSION") /\ Accepted("REVISION")' = Accepted("REVISION")
  BY <1>1
<1>3. UNCHANGED <<HypothesisVersions, Accepted("REVISION")>>  BY <1>2 DEF HypothesisVersions
<1>4. HypothesisEvidence' = HypothesisEvidence \cup {e}
  BY <1>1 DEF HypothesisEvidence
<1>5. Accepted("RESULT") \subseteq Accepted("RESULT")'  BY <1>1
<1>6. e.version = c.id /\ e.policy = c.policy  BY DEF BindsCandidate, Retained
<1> QED  BY <1>1, <1>3, <1>4, <1>5, <1>6, EvidenceKeepsInv

(* A version that is new to the tables, and not yet admitted.               *)
NewVersion(v) ==
  /\ HypothesisLogIsSequence'
  /\ v.id \notin IdsOf(HypothesisVersions)
  /\ v.hypothesis \in HypothesisIds /\ v.number \in Nat \ {0}
  /\ HypothesisVersions' = HypothesisVersions \cup {v}
  /\ UNCHANGED <<HypothesisEvidence, Accepted("RESULT")>>
  /\ UNCHANGED <<hypothesisAdmissions, hypothesisHeads>>

(* A version that follows the admitted ones of its hypothesis keeps the     *)
(* invariant.                                                               *)
LEMMA NewVersionKeepsInv ==
  ASSUME HypothesisInv, NEW v, NewVersion(v),
         \A u \in HypothesisVersions : u.hypothesis = v.hypothesis =>
           u.number < v.number /\ u \in AdmittedVersions,
         Accepted("REVISION") \subseteq Accepted("REVISION")', RevisionsLead'
  PROVE  HypothesisInv'
<1> USE DEF HypothesisInv, NewVersion
<1>1. \A u \in HypothesisVersions : u.id # v.id  BY DEF IdsOf
<1>2. AdmittedVersions' = AdmittedVersions
  BY <1>1 DEF AdmittedVersions, HypothesesTyped, IdsOf
<1>3. HypothesisIdsUnique'  BY <1>1 DEF HypothesisIdsUnique
<1>4. HypothesesTyped'
  <2>1. IdsOf(HypothesisVersions) \subseteq IdsOf(HypothesisVersions)'  BY DEF IdsOf
  <2> QED  BY <2>1 DEF HypothesesTyped
<1>5. NumbersUnique'
  BY DEF NumbersUnique, HypothesesTyped
<1>6. OnlyLastAwaits'
  <2>1. ASSUME NEW u \in HypothesisVersions', NEW w \in HypothesisVersions',
               u.hypothesis = w.hypothesis, u.number > w.number
        PROVE  w \in AdmittedVersions
    <3>1. u.number \in Nat /\ w.number \in Nat  BY <1>4 DEF HypothesesTyped
    <3>2. CASE w = v  BY <2>1, <3>1, <3>2
    <3>3. CASE w \in HypothesisVersions /\ u = v  BY <2>1, <3>3
    <3>4. CASE w \in HypothesisVersions /\ u \in HypothesisVersions
      BY <2>1, <3>4 DEF OnlyLastAwaits
    <3> QED  BY <3>2, <3>3, <3>4
  <2> QED  BY <1>2, <2>1 DEF OnlyLastAwaits
<1>7. HeadIsLastAdmitted'  BY <1>2 DEF HeadIsLastAdmitted
<1>8. EvidenceBound'
  BY <1>1 DEF EvidenceBound, HypothesesTyped, IdsOf
<1> QED  BY <1>3, <1>4, <1>5, <1>6, <1>7, <1>8

(* A record that is retained already brings nothing.                        *)
LEMMA NothingNewKeepsInv ==
  ASSUME HypothesisInv, HypothesisLogIsSequence',
         UNCHANGED <<HypothesisVersions, Accepted("REVISION")>>,
         UNCHANGED <<HypothesisEvidence, Accepted("RESULT")>>,
         UNCHANGED <<hypothesisAdmissions, hypothesisHeads>>
  PROVE  HypothesisInv'
<1> USE DEF HypothesisInv
<1>1. UNCHANGED AdmittedVersions  BY DEF AdmittedVersions
<1>2. HypothesisIdsUnique' /\ NumbersUnique' /\ HypothesesTyped' /\ EvidenceBound'
  BY DEF HypothesisIdsUnique, NumbersUnique, HypothesesTyped, EvidenceBound
<1>3. \A v : RevisedFrom(v) => RevisedFrom(v)'  BY DEF RevisedFrom
<1>4. RevisionsLead'  BY <1>3 DEF RevisionsLead
<1>5. OnlyLastAwaits' /\ HeadIsLastAdmitted'  BY <1>1 DEF OnlyLastAwaits, HeadIsLastAdmitted
<1> QED  BY <1>2, <1>4, <1>5

(* A first version.                                                         *)
LEMMA ProposalKeeps ==
  ASSUME HypothesisInv, NEW version, version.hypothesis \in HypothesisIds,
         NEW approver, ProposeHypothesisVersion(version, approver)
  PROVE  HypothesisInv'
<1>1. /\ HypothesisLogIsSequence'
      /\ Accepted("VERSION")' = Accepted("VERSION") \cup {version}
      /\ \A other : other # "VERSION" => Accepted(other)' = Accepted(other)
      /\ UNCHANGED <<hypothesisPolicy, hypothesisAdmissions, hypothesisHeads>>
  BY AcceptAdds DEF HypothesisInv, ProposeHypothesisVersion
<1>2. UNCHANGED <<HypothesisEvidence, Accepted("RESULT")>> /\ UNCHANGED Accepted("REVISION")
  BY <1>1 DEF HypothesisEvidence
<1>3. HypothesisVersions' = HypothesisVersions \cup {version}
  BY <1>1, <1>2 DEF HypothesisVersions
<1>4. CASE version \in HypothesisVersions
  <2>1. UNCHANGED HypothesisVersions  BY <1>3, <1>4
  <2> QED  BY <1>1, <1>2, <2>1, NothingNewKeepsInv
<1>5. CASE version \notin HypothesisVersions
  <2>1. /\ version.number = 1
        /\ \A v \in HypothesisVersions : v.hypothesis # version.hypothesis
        /\ version.id \notin IdsOf(HypothesisVersions)
    BY <1>5 DEF ProposeHypothesisVersion, Stable
  <2>2. NewVersion(version)  BY <1>1, <1>2, <1>3, <2>1 DEF NewVersion
  <2>3. \A v \in HypothesisVersions : RevisedFrom(v) => RevisedFrom(v)'
    BY <1>2, <1>3 DEF RevisedFrom
  <2>4. RevisionsLead'  BY <1>2, <1>3, <2>1, <2>3 DEF RevisionsLead, HypothesisInv
  <2> QED  BY <1>2, <2>1, <2>2, <2>4, NewVersionKeepsInv
<1> QED  BY <1>4, <1>5

(* The versions of a hypothesis whose head may be revised are all admitted  *)
(* and none is above the head, where the next number is free.               *)
LEMMA NoneAboveHead ==
  ASSUME HypothesisInv, NEW prior \in HypothesisVersions, PriorIsHead(prior),
         \A u \in HypothesisVersions :
           u.hypothesis = prior.hypothesis => u.number # prior.number + 1
  PROVE  /\ prior \in AdmittedVersions
         /\ \A u \in HypothesisVersions : u.hypothesis = prior.hypothesis =>
              u.number < prior.number + 1 /\ u \in AdmittedVersions
<1> USE DEF HypothesisInv
<1>1. prior.hypothesis \in HypothesisIds /\ prior.number \in Nat  BY DEF HypothesesTyped
<1>2. /\ prior \in AdmittedVersions
      /\ \A v \in AdmittedVersions : v.hypothesis = prior.hypothesis => v.number <= prior.number
  <2>1. hypothesisHeads[prior.hypothesis] = {prior.id}  BY DEF PriorIsHead
  <2>2. PICK m \in AdmittedVersions :
          /\ m.hypothesis = prior.hypothesis /\ hypothesisHeads[prior.hypothesis] = {m.id}
          /\ \A v \in AdmittedVersions : v.hypothesis = prior.hypothesis => v.number <= m.number
    BY <1>1, <2>1 DEF HeadIsLastAdmitted
  <2>3. m = prior  BY <2>1, <2>2 DEF HypothesisIdsUnique, AdmittedVersions
  <2> QED  BY <2>2, <2>3
<1>3. ASSUME NEW u \in HypothesisVersions, u.hypothesis = prior.hypothesis
      PROVE  u.number <= prior.number
  <2>1. SUFFICES ASSUME u.number > prior.number  PROVE FALSE
    BY <1>1 DEF HypothesesTyped
  <2>2. u.number \in Nat /\ prior.number \in Nat \ {0}  BY DEF HypothesesTyped
  <2>3. u.number > 1  BY <2>1, <2>2
  <2>4. PICK w \in HypothesisVersions : w.hypothesis = u.hypothesis /\ w.number = u.number - 1
    BY <2>3 DEF RevisionsLead, RevisedFrom
  <2>5. w \in AdmittedVersions  BY <2>2, <2>4 DEF OnlyLastAwaits
  <2>6. u.number - 1 <= prior.number  BY <1>2, <1>3, <2>4, <2>5
  <2> QED  BY <1>3, <2>1, <2>2, <2>6
<1>4. ASSUME NEW u \in HypothesisVersions, u.hypothesis = prior.hypothesis
      PROVE  u \in AdmittedVersions
  <2>1. u.number <= prior.number /\ u.number \in Nat  BY <1>3, <1>4 DEF HypothesesTyped
  <2>2. CASE u.number < prior.number  BY <1>1, <1>4, <2>1, <2>2 DEF OnlyLastAwaits
  <2>3. CASE u.number = prior.number  BY <1>2, <1>4, <2>3 DEF NumbersUnique
  <2> QED  BY <1>1, <2>1, <2>2, <2>3
<1> QED  BY <1>1, <1>2, <1>3, <1>4 DEF HypothesesTyped

(* A revision follows the head, which its failed check is about.            *)
LEMMA RevisionKeeps ==
  ASSUME HypothesisInv, NEW revision, NEW approver, ReviseHypothesis(revision, approver)
  PROVE  HypothesisInv'
<1> DEFINE resulting == revision.resulting
<1>1. PICK prior \in HypothesisVersions, check \in Accepted("RESULT") :
        /\ prior.id = revision.prior /\ PriorIsHead(prior)
        /\ check.version = prior.id /\ check.outcome # "PASS"
        /\ resulting.hypothesis = prior.hypothesis /\ resulting.number = prior.number + 1
        /\ revision \notin Accepted("REVISION") =>
             /\ resulting.id \notin IdsOf(HypothesisVersions)
             /\ \A v \in HypothesisVersions :
                  v.hypothesis = resulting.hypothesis => v.number # resulting.number
        /\ Accept("REVISION", revision)
  BY DEF ReviseHypothesis, Retained
<1>2. /\ HypothesisLogIsSequence'
      /\ Accepted("REVISION")' = Accepted("REVISION") \cup {revision}
      /\ \A other : other # "REVISION" => Accepted(other)' = Accepted(other)
      /\ UNCHANGED <<hypothesisPolicy, hypothesisAdmissions, hypothesisHeads>>
  BY <1>1, AcceptAdds DEF HypothesisInv
<1>3. UNCHANGED <<HypothesisEvidence, Accepted("RESULT")>> /\ UNCHANGED Accepted("VERSION")
  BY <1>2 DEF HypothesisEvidence
<1>4. HypothesisVersions' = HypothesisVersions \cup {resulting}
  BY <1>2, <1>3 DEF HypothesisVersions
<1>5. CASE revision \in Accepted("REVISION")
  <2>1. UNCHANGED Accepted("REVISION")  BY <1>2, <1>5
  <2>2. UNCHANGED HypothesisVersions  BY <1>3, <2>1 DEF HypothesisVersions
  <2> QED  BY <1>2, <1>3, <2>1, <2>2, NothingNewKeepsInv
<1>6. CASE revision \notin Accepted("REVISION")
  <2>1. prior.hypothesis \in HypothesisIds /\ prior.number \in Nat \ {0}
    BY DEF HypothesisInv, HypothesesTyped
  <2>2. \A u \in HypothesisVersions : u.hypothesis = prior.hypothesis =>
          u.number < prior.number + 1 /\ u \in AdmittedVersions
    BY <1>1, <1>6, NoneAboveHead
  <2>3. NewVersion(resulting)  BY <1>1, <1>2, <1>3, <1>4, <1>6, <2>1 DEF NewVersion
  <2>4. \A v \in HypothesisVersions : RevisedFrom(v) => RevisedFrom(v)'
    BY <1>2, <1>3, <1>4 DEF RevisedFrom
  <2>5. RevisedFrom(resulting)'
    BY <1>1, <1>2, <1>3, <1>4, <2>1 DEF RevisedFrom
  <2>6. \A r \in Accepted("REVISION") : r.resulting # resulting
    BY <1>1, <1>6 DEF HypothesisVersions, IdsOf
  <2>7. RevisionsLead'
    BY <1>2, <1>4, <2>4, <2>5, <2>6 DEF RevisionsLead, HypothesisInv
  <2> HIDE DEF resulting
  <2> QED  BY <1>1, <1>2, <2>2, <2>3, <2>7, NewVersionKeepsInv
<1> QED  BY <1>5, <1>6

(* An admission moves the head to a version all of whose evidence has its   *)
(* policy.                                                                  *)
LEMMA AdmissionKeeps ==
  ASSUME HypothesisInv, NEW candidate \in HypothesisVersions, NEW model, NEW search,
         NEW integrator, NEW approver, AdmitHypothesis(candidate, model, search, integrator, approver)
  PROVE  HypothesisInv'
<1> USE DEF HypothesisInv
<1> DEFINE h == candidate.hypothesis
<1>1. PICK a :
        /\ a.version = candidate.id
        /\ hypothesisAdmissions' = hypothesisAdmissions \cup {a}
        /\ hypothesisHeads' = [hypothesisHeads EXCEPT ![h] = {candidate.id}]
        /\ UNCHANGED hypothesisLog
  BY DEF AdmitHypothesis
<1>2. UNCHANGED <<HypothesisVersions, HypothesisEvidence, Accepted("REVISION"), Accepted("RESULT")>>
  BY <1>1 DEF HypothesisVersions, HypothesisEvidence, Accepted
<1>3. h \in HypothesisIds /\ candidate.number \in Nat \ {0}  BY DEF HypothesesTyped
<1>4. AdmittedVersions' = AdmittedVersions \cup {candidate}
  BY <1>1, <1>2 DEF AdmittedVersions, HypothesisIdsUnique
<1>5. \A v \in AdmittedVersions : v.hypothesis = h => v.number < candidate.number
  <2>1. CASE hypothesisHeads[h] = {}  BY <1>3, <2>1 DEF HeadIsLastAdmitted
  <2>2. CASE hypothesisHeads[h] # {}
    <3>1. PICK m \in AdmittedVersions :
            /\ m.hypothesis = h /\ hypothesisHeads[h] = {m.id}
            /\ \A v \in AdmittedVersions : v.hypothesis = h => v.number <= m.number
      BY <1>3, <2>2 DEF HeadIsLastAdmitted
    <3> DEFINE head == {v \in HypothesisVersions : v.id \in hypothesisHeads[h]}
    <3>2. head = {m}  BY <3>1 DEF HypothesisIdsUnique, AdmittedVersions
    <3>3. candidate.number # 1 /\ \E v \in head : v.number = candidate.number - 1
      BY <3>2 DEF AdmitHypothesis, AdvancesHypothesis
    <3>4. m.number = candidate.number - 1  BY <3>2, <3>3
    <3>5. \A v \in AdmittedVersions : v.number \in Nat  BY DEF HypothesesTyped, AdmittedVersions
    <3> QED  BY <1>3, <3>1, <3>4, <3>5
  <2> QED  BY <2>1, <2>2
<1>6. HypothesisLogIsSequence' /\ HypothesisIdsUnique' /\ NumbersUnique' /\ EvidenceBound'
  BY <1>1, <1>2 DEF HypothesisLogIsSequence, HypothesisIdsUnique, NumbersUnique, EvidenceBound
<1>7. HypothesesTyped'
  BY <1>1, <1>2, <1>3 DEF HypothesesTyped, IdsOf
<1>8. RevisionsLead'
  <2>1. \A v : RevisedFrom(v) => RevisedFrom(v)'  BY <1>2 DEF RevisedFrom
  <2> QED  BY <1>2, <2>1 DEF RevisionsLead
<1>9. OnlyLastAwaits'  BY <1>2, <1>4 DEF OnlyLastAwaits
<1>10. HeadIsLastAdmitted'
  <2>1. ASSUME NEW g \in HypothesisIds
        PROVE  \/ hypothesisHeads'[g] = {} /\ \A v \in AdmittedVersions' : v.hypothesis # g
               \/ \E m \in AdmittedVersions' :
                    /\ m.hypothesis = g /\ hypothesisHeads'[g] = {m.id}
                    /\ \A v \in AdmittedVersions' : v.hypothesis = g => v.number <= m.number
    <3>1. CASE g = h
      <4>1. hypothesisHeads'[g] = {candidate.id}  BY <1>1, <1>3, <3>1 DEF HypothesesTyped
      <4>2. \A v \in AdmittedVersions' : v.hypothesis = g => v.number <= candidate.number
        BY <1>3, <1>4, <1>5, <3>1 DEF HypothesesTyped, AdmittedVersions
      <4> QED  BY <1>4, <3>1, <4>1, <4>2
    <3>2. CASE g # h
      <4>1. hypothesisHeads'[g] = hypothesisHeads[g]  BY <1>1, <3>2 DEF HypothesesTyped
      <4> QED  BY <1>4, <3>2, <4>1 DEF HeadIsLastAdmitted
    <3> QED  BY <3>1, <3>2
  <2> QED  BY <2>1 DEF HeadIsLastAdmitted
<1> QED  BY <1>6, <1>7, <1>8, <1>9, <1>10

(* One step per operation of the hypothesis loop.                           *)
LEMMA HypothesisStep ==
  ASSUME HypothesisInv, [HypothesisNext]_hypothesisVars
  PROVE  HypothesisInv'
<1>1. CASE \/ UNCHANGED hypothesisVars
           \/ \E policy \in HypothesisPolicies : HypothesisPolicyMoves(policy)
  <2>1. UNCHANGED <<hypothesisLog, hypothesisAdmissions, hypothesisHeads>>
    BY <1>1 DEF hypothesisVars, HypothesisPolicyMoves
  <2>2. UNCHANGED <<HypothesisVersions, Accepted("REVISION")>>
        /\ UNCHANGED <<HypothesisEvidence, Accepted("RESULT")>>
    BY <2>1 DEF HypothesisVersions, HypothesisEvidence, Accepted
  <2>3. HypothesisLogIsSequence'  BY <2>1 DEF HypothesisInv, HypothesisLogIsSequence
  <2> QED  BY <2>1, <2>2, <2>3, NothingNewKeepsInv
<1>2. ASSUME NEW approver, NEW version \in HypothesisPool,
             ProposeHypothesisVersion(Dated(version), approver)
      PROVE  HypothesisInv'
  <2>1. Dated(version).hypothesis \in HypothesisIds
    BY HypothesisPoolsAssumption DEF HypothesisSpecs, HypothesisSpecFields, Dated
  <2> QED  BY <1>2, <2>1, ProposalKeeps
<1>3. ASSUME NEW record, "policy" \in DOMAIN record
      PROVE  Dated(record).policy = hypothesisPolicy
  BY <1>3 DEF Dated
<1>4. ASSUME NEW approver, NEW e \in ModelPool, RegisterExecutableModel(Dated(e), approver)
      PROVE  HypothesisInv'
  <2>1. Dated(e).policy = hypothesisPolicy  BY <1>3, HypothesisPoolsAssumption DEF PolicyBound
  <2> QED  BY <1>4, <2>1, StageKeepsInv DEF RegisterExecutableModel
<1>5. ASSUME NEW approver, NEW e \in MechanismPool,
             RegisterVerificationMechanism(Dated(e), approver)
      PROVE  HypothesisInv'
  <2>1. Dated(e).policy = hypothesisPolicy  BY <1>3, HypothesisPoolsAssumption DEF PolicyBound
  <2> QED  BY <1>5, <2>1, StageKeepsInv DEF RegisterVerificationMechanism
<1>6. ASSUME NEW approver, NEW e \in SimulationPool, RecordSimulationResult(Dated(e), approver)
      PROVE  HypothesisInv'
  <2>1. Dated(e).policy = hypothesisPolicy  BY <1>3, HypothesisPoolsAssumption DEF PolicyBound
  <2> QED  BY <1>6, <2>1, StageKeepsInv DEF RecordSimulationResult
<1>7. ASSUME NEW approver, NEW e \in ResultPool, RecordVerificationResult(Dated(e), approver)
      PROVE  HypothesisInv'
  <2>1. Dated(e).policy = hypothesisPolicy  BY <1>3, HypothesisPoolsAssumption DEF PolicyBound
  <2> QED  BY <1>7, <2>1, StageKeepsInv DEF RecordVerificationResult
<1>8. ASSUME NEW approver, NEW e \in CounterexamplePool, RecordCounterexample(Dated(e), approver)
      PROVE  HypothesisInv'
  <2>1. Dated(e).policy = hypothesisPolicy  BY <1>3, HypothesisPoolsAssumption DEF PolicyBound
  <2> QED  BY <1>8, <2>1, StageKeepsInv DEF RecordCounterexample
<1>9. ASSUME NEW approver, NEW revision, ReviseHypothesis(revision, approver)
      PROVE  HypothesisInv'
  BY <1>9, RevisionKeeps
<1>10. ASSUME NEW approver, NEW candidate \in HypothesisVersions, NEW model, NEW search,
              AdmitHypothesis(candidate, model, search, candidate.proposer, approver)
       PROVE  HypothesisInv'
  BY <1>10, AdmissionKeeps
<1> QED  BY <1>1, <1>2, <1>4, <1>5, <1>6, <1>7, <1>8, <1>9, <1>10 DEF HypothesisNext

(* Every version but the first comes from one revision of the version       *)
(* before it, after a check it did not pass.                                *)
LEMMA OneRevision ==
  ASSUME HypothesisInv, NEW v \in HypothesisVersions, v.number > 1
  PROVE  LET line == {u \in HypothesisVersions : u.hypothesis = v.hypothesis}
             revisions == {r \in Accepted("REVISION") : r.resulting = v}
         IN /\ Cardinality(revisions) = 1
            /\ \E r \in revisions, u \in line, c \in Accepted("RESULT") :
                 /\ u.id = r.prior /\ u.number = v.number - 1
                 /\ c.version = u.id /\ c.outcome # "PASS"
<1> DEFINE revisions == {r \in Accepted("REVISION") : r.resulting = v}
<1>1. RevisedFrom(v)  BY DEF HypothesisInv, RevisionsLead
<1>2. PICK r \in Accepted("REVISION") : r.resulting = v  BY <1>1 DEF RevisedFrom
<1>3. revisions = {r}  BY <1>2 DEF HypothesisInv, RevisionsLead
<1>4. Cardinality(revisions) = 1  BY <1>3, FS_Singleton
<1> QED  BY <1>1, <1>4 DEF RevisedFrom

(* The stages that count as evidence.                                       *)
LEMMA EvidenceOfStages ==
  UNION {Accepted(stage) :
           stage \in {"MODEL", "MECHANISM", "SIMULATION", "RESULT", "COUNTEREXAMPLE"}}
    = HypothesisEvidence
  BY DEF HypothesisEvidence

(* The head is the admitted version of the highest number.                  *)
LEMMA HeadRebuilt ==
  ASSUME HypothesisInv, NEW v \in HypothesisVersions
  PROVE  LET line == {u \in HypothesisVersions : u.hypothesis = v.hypothesis}
             admitted == {u \in line : u.id \in {a.version : a \in hypothesisAdmissions}}
         IN hypothesisHeads[v.hypothesis] =
              IdsOf({u \in admitted : \A w \in admitted : w.number <= u.number})
<1> USE DEF HypothesisInv
<1> DEFINE h == v.hypothesis
           line == {u \in HypothesisVersions : u.hypothesis = h}
           admitted == {u \in line : u.id \in {a.version : a \in hypothesisAdmissions}}
           last == {u \in admitted : \A w \in admitted : w.number <= u.number}
<1>1. h \in HypothesisIds  BY DEF HypothesesTyped
<1>2. admitted = {u \in AdmittedVersions : u.hypothesis = h}  BY DEF AdmittedVersions
<1>3. \A u \in admitted : u.number \in Nat  BY DEF HypothesesTyped
<1> SUFFICES hypothesisHeads[h] = IdsOf(last)  OBVIOUS
<1>4. CASE hypothesisHeads[h] = {} /\ \A u \in AdmittedVersions : u.hypothesis # h
  <2>1. last = {}  BY <1>2, <1>4
  <2> HIDE DEF last
  <2> QED  BY <1>4, <2>1 DEF IdsOf
<1>5. CASE \E m \in AdmittedVersions :
             /\ m.hypothesis = h /\ hypothesisHeads[h] = {m.id}
             /\ \A u \in AdmittedVersions : u.hypothesis = h => u.number <= m.number
  <2>1. PICK m \in admitted :
          hypothesisHeads[h] = {m.id} /\ \A u \in admitted : u.number <= m.number
    BY <1>2, <1>5
  <2>2. m \in last  BY <2>1
  <2>3. ASSUME NEW u \in last  PROVE u = m
    <3>1. u.number = m.number  BY <1>3, <2>1
    <3> QED  BY <3>1 DEF NumbersUnique
  <2>4. last = {m}  BY <2>2, <2>3
  <2> HIDE DEF last
  <2> QED  BY <2>1, <2>4 DEF IdsOf
<1> QED  BY <1>1, <1>4, <1>5 DEF HeadIsLastAdmitted

(* The property is read off the invariant.                                  *)
LEMMA HypothesisInvSuffices ==
  ASSUME HypothesisInv
  PROVE  LineageRestsOnOnePolicy
<1> USE DEF HypothesisInv
<1>1. ASSUME NEW v \in HypothesisVersions
      PROVE  LET line == {u \in HypothesisVersions : u.hypothesis = v.hypothesis}
                 admitted == {u \in line : u.id \in {a.version : a \in hypothesisAdmissions}}
             IN /\ \A u \in line : u.number = v.number => u = v
                /\ v \in admitted \/ \A u \in line : u.number <= v.number
  <2>1. \A u \in HypothesisVersions :
          u.hypothesis = v.hypothesis /\ u.number > v.number => v \in AdmittedVersions
    BY DEF OnlyLastAwaits
  <2>2. \A u \in HypothesisVersions : u.number \in Nat  BY DEF HypothesesTyped
  <2> QED  BY <2>1, <2>2 DEF NumbersUnique, AdmittedVersions
<1>2. LineageIsLinear
  BY <1>1, OneRevision, HeadRebuilt DEF LineageIsLinear
<1>3. EvidenceUnderOnePolicy
  BY EvidenceOfStages DEF EvidenceUnderOnePolicy, EvidenceBound
<1> QED  BY <1>2, <1>3 DEF LineageRestsOnOnePolicy

(* Versions of a hypothesis form one line, each from a failed check of the  *)
(* one before it; an admitted version rests on evidence of one policy;      *)
(* heads are rebuilt from admissions (hypotheses.py:1602-2007).             *)
THEOREM LineagesHold == HypothesisSpec => []LineageRestsOnOnePolicy
<1>1. ASSUME HypothesisInit  PROVE HypothesisInv
  <2>1. /\ hypothesisLog = <<>> /\ hypothesisAdmissions = {}
        /\ hypothesisHeads = [h \in HypothesisIds |-> {}]
    BY <1>1 DEF HypothesisInit
  <2>2. hypothesisLog \in Seq({}) /\ DOMAIN hypothesisLog = {}  BY <2>1
  <2>3. \A stage : Accepted(stage) = {}  BY <2>2 DEF Accepted
  <2>4. HypothesisVersions = {} /\ HypothesisEvidence = {} /\ AdmittedVersions = {}
    BY <2>3 DEF HypothesisVersions, HypothesisEvidence, AdmittedVersions
  <2>5. HypothesisLogIsSequence  BY <2>2 DEF HypothesisLogIsSequence
  <2>6. /\ HypothesisIdsUnique /\ HypothesesTyped /\ NumbersUnique /\ RevisionsLead
        /\ OnlyLastAwaits /\ HeadIsLastAdmitted /\ EvidenceBound
    BY <2>1, <2>3, <2>4 DEF HypothesisIdsUnique, HypothesesTyped, NumbersUnique, RevisionsLead,
         OnlyLastAwaits, HeadIsLastAdmitted, EvidenceBound
  <2> QED  BY <2>5, <2>6 DEF HypothesisInv
<1> QED  BY <1>1, HypothesisStep, HypothesisInvSuffices, PTL DEF HypothesisSpec

-----------------------------------------------------------------------------
(* Representational primitives.                                             *)

(* Numbers are ordered lexicographically.                                   *)
LEMMA PrecedesIsStrictOrder ==
  /\ \A k \in Nat \X Nat \X Nat : ~Precedes(k, k)
  /\ \A k, m, n \in Nat \X Nat \X Nat : Precedes(k, m) /\ Precedes(m, n) => Precedes(k, n)
  /\ \A k, m \in Nat \X Nat \X Nat : k = m \/ Precedes(k, m) \/ Precedes(m, k)
<1> DEFINE Numbers == Nat \X Nat \X Nat
<1>1. \A k \in Numbers : ~Precedes(k, k)  BY DEF Precedes
<1>2. ASSUME NEW k \in Numbers, NEW m \in Numbers, NEW n \in Numbers,
             Precedes(k, m), Precedes(m, n)
      PROVE  Precedes(k, n)
  BY <1>2 DEF Precedes
<1>3. ASSUME NEW k \in Numbers, NEW m \in Numbers
      PROVE  k = m \/ Precedes(k, m) \/ Precedes(m, k)
  <2>1. k = <<k[1], k[2], k[3]>> /\ m = <<m[1], m[2], m[3]>>  OBVIOUS
  <2>2. k[1] \in Nat /\ k[2] \in Nat /\ k[3] \in Nat /\ m[1] \in Nat /\ m[2] \in Nat /\ m[3] \in Nat
    OBVIOUS
  <2> QED  BY <2>1, <2>2 DEF Precedes
<1> QED  BY <1>1, <1>2, <1>3

PrimitivesAreSequence == \E S : stagedPrimitives \in Seq(S)
(* What is staged has an id of its own, and a number of its own within its  *)
(* primitive.                                                               *)
StagedApart ==
  /\ \A v \in StagedPrimitives : v.primitive \in Primitives /\ v.number \in Nat \X Nat \X Nat
  /\ \A i, j \in DOMAIN stagedPrimitives :
       LET v == stagedPrimitives[i]
           w == stagedPrimitives[j]
       IN v.id = w.id \/ (v.primitive = w.primitive /\ v.number = w.number) => i = j
PredecessorsPrecede ==
  \A v \in StagedPrimitives : \A id \in v.predecessors :
    \E w \in StagedPrimitives :
      w.id = id /\ w.primitive = v.primitive /\ Precedes(w.number, v.number)
DuplicatesMarked ==
  \A i, j \in DOMAIN stagedPrimitives :
    LET v == stagedPrimitives[i]
        w == stagedPrimitives[j]
    IN i < j /\ v.primitive # w.primitive /\ v.concept = w.concept =>
         w.status = "DUPLICATE_SUSPECTED"
HeadsAreStaged ==
  /\ DOMAIN primitiveHeads = Primitives
  /\ \A p \in Primitives : primitiveHeads[p] # {} =>
       \E v \in StagedPrimitives : v.primitive = p /\ primitiveHeads[p] = {v.id}
(* An admitted version replaced its rollback, and is not above the head.    *)
AdmissionsBelowHeads ==
  \A a \in primitiveAdmissions :
    \E v, h \in StagedPrimitives :
      /\ v.id = a.candidate /\ v.predecessors = {a.rollback}
      /\ h.primitive = v.primitive /\ primitiveHeads[v.primitive] = {h.id}
      /\ h = v \/ Precedes(v.number, h.number)
ReplacedOnce ==
  \A a, b \in primitiveAdmissions : a.rollback = b.rollback => a.candidate = b.candidate

PrimitiveInv ==
  /\ PrimitivesAreSequence /\ StagedApart /\ PredecessorsPrecede /\ DuplicatesMarked
  /\ HeadsAreStaged /\ AdmissionsBelowHeads /\ ReplacedOnce

(* What one more staged version does to the stages.                         *)
LEMMA StagedWith ==
  ASSUME PrimitivesAreSequence, NEW v, stagedPrimitives' = Append(stagedPrimitives, v)
  PROVE  /\ PrimitivesAreSequence'
         /\ Len(stagedPrimitives) \in Nat
         /\ DOMAIN stagedPrimitives = 1 .. Len(stagedPrimitives)
         /\ DOMAIN stagedPrimitives' = 1 .. Len(stagedPrimitives) + 1
         /\ \A i \in DOMAIN stagedPrimitives : stagedPrimitives'[i] = stagedPrimitives[i]
         /\ stagedPrimitives'[Len(stagedPrimitives) + 1] = v
         /\ StagedPrimitives' = StagedPrimitives \cup {v}
<1>1. PICK S : stagedPrimitives \in Seq(S)  BY DEF PrimitivesAreSequence
<1>2. stagedPrimitives' \in Seq(S \cup {v})  BY <1>1, Appended
<1>3. PrimitivesAreSequence'  BY <1>2 DEF PrimitivesAreSequence
<1>4. /\ Len(stagedPrimitives) \in Nat
      /\ DOMAIN stagedPrimitives = 1 .. Len(stagedPrimitives)
      /\ DOMAIN stagedPrimitives' = 1 .. Len(stagedPrimitives) + 1
      /\ \A i \in DOMAIN stagedPrimitives : stagedPrimitives'[i] = stagedPrimitives[i]
      /\ stagedPrimitives'[Len(stagedPrimitives) + 1] = v
  BY <1>1, Appended
<1>5. StagedPrimitives' = StagedPrimitives \cup {v}  BY <1>4 DEF StagedPrimitives
<1> QED  BY <1>3, <1>4, <1>5

(* What a proposal stages.                                                  *)
LEMMA StagedVersion ==
  ASSUME NEW version \in PrimitivePool, NEW approver, ProposePrimitiveVersion(version, approver)
  PROVE  \E v :
           /\ stagedPrimitives' = Append(stagedPrimitives, v)
           /\ v.id = version.id /\ v.primitive = version.primitive /\ v.number = version.number
           /\ v.concept = version.concept /\ v.predecessors = version.predecessors
           /\ v.status = ProjectedStatus(version)
<1> DEFINE v == [version EXCEPT !.status = ProjectedStatus(version), !.policy = primitivePolicy]
<1>1. DOMAIN version = PrimitiveFields
  BY PrimitivePoolsAssumption DEF WellFormedPrimitive
<1>2. /\ v.id = version.id /\ v.primitive = version.primitive /\ v.number = version.number
      /\ v.concept = version.concept /\ v.predecessors = version.predecessors
      /\ v.status = ProjectedStatus(version)
  BY <1>1 DEF PrimitiveFields
<1>3. stagedPrimitives' = Append(stagedPrimitives, v)  BY DEF ProposePrimitiveVersion
<1> HIDE DEF v
<1> QED  BY <1>2, <1>3

(* The version a new one follows precedes it within its primitive.          *)
LEMMA PredecessorsAreEarlier ==
  ASSUME PrimitiveInv, NEW version, version.primitive \in Primitives, StageLineage(version),
         NEW id \in version.predecessors
  PROVE  \E w \in StagedPrimitives :
           w.id = id /\ w.primitive = version.primitive /\ Precedes(w.number, version.number)
<1>1. id \in CurrentPredecessor(version.primitive)  BY DEF StageLineage
<1>2. \E w \in StagedPrimitives : w.id = id /\ w.primitive = version.primitive
  <2>1. CASE primitiveHeads[version.primitive] # {}
    BY <1>1, <2>1 DEF PrimitiveInv, HeadsAreStaged, CurrentPredecessor
  <2>2. CASE primitiveHeads[version.primitive] = {}
    BY <1>1, <2>2 DEF CurrentPredecessor, VersionsOf, StagedPrimitives
  <2> QED  BY <2>1, <2>2
<1> QED  BY <1>2 DEF StageLineage, VersionChangeAccepted

(* A staged version follows the latest of its primitive.                    *)
LEMMA StagingKeepsInv ==
  ASSUME PrimitiveInv, NEW version \in PrimitivePool, NEW approver,
         ProposePrimitiveVersion(version, approver)
  PROVE  PrimitiveInv'
<1>1. PICK v :
        /\ stagedPrimitives' = Append(stagedPrimitives, v)
        /\ v.id = version.id /\ v.primitive = version.primitive /\ v.number = version.number
        /\ v.concept = version.concept /\ v.predecessors = version.predecessors
        /\ v.status = ProjectedStatus(version)
  BY StagedVersion
<1>2. /\ version.primitive \in Primitives /\ version.number \in Nat \X Nat \X Nat
  BY PrimitivePoolsAssumption DEF WellFormedPrimitive
<1>3. UNCHANGED <<primitiveAdmissions, primitiveHeads>>  BY DEF ProposePrimitiveVersion
<1>4. PICK n : n = Len(stagedPrimitives)  OBVIOUS
<1>5. /\ PrimitivesAreSequence' /\ n \in Nat
      /\ DOMAIN stagedPrimitives = 1 .. n /\ DOMAIN stagedPrimitives' = 1 .. n + 1
      /\ \A i \in 1 .. n : stagedPrimitives'[i] = stagedPrimitives[i]
      /\ stagedPrimitives'[n + 1] = v
      /\ StagedPrimitives' = StagedPrimitives \cup {v}
  BY <1>1, <1>4, StagedWith DEF PrimitiveInv
<1>6. \A i \in 1 .. n : stagedPrimitives[i] \in StagedPrimitives  BY <1>5 DEF StagedPrimitives
<1>7. StagedApart'
  <2>1. \A w \in StagedPrimitives : w.id # v.id /\ (w.primitive = v.primitive => w.number # v.number)
    BY <1>1 DEF ProposePrimitiveVersion, IdsOf
  <2>2. \A w \in StagedPrimitives' : w.primitive \in Primitives /\ w.number \in Nat \X Nat \X Nat
    BY <1>1, <1>2, <1>5 DEF PrimitiveInv, StagedApart
  <2>3. ASSUME NEW i \in 1 .. n + 1, NEW j \in 1 .. n + 1, NEW u, NEW w,
               u = stagedPrimitives'[i], w = stagedPrimitives'[j],
               u.id = w.id \/ (u.primitive = w.primitive /\ u.number = w.number)
        PROVE  i = j
    <3>1. CASE i \in 1 .. n /\ j \in 1 .. n
      BY <1>5, <2>3, <3>1 DEF PrimitiveInv, StagedApart
    <3>2. CASE i = n + 1 /\ j \in 1 .. n  BY <1>1, <1>5, <1>6, <2>1, <2>3, <3>2
    <3>3. CASE i \in 1 .. n /\ j = n + 1  BY <1>1, <1>5, <1>6, <2>1, <2>3, <3>3
    <3> QED  BY <1>5, <3>1, <3>2, <3>3
  <2> QED  BY <1>5, <2>2, <2>3 DEF StagedApart
<1>8. PredecessorsPrecede'
  <2>1. StageLineage(version)  BY DEF ProposePrimitiveVersion
  <2> QED  BY <1>1, <1>2, <1>5, <2>1, PredecessorsAreEarlier DEF PrimitiveInv, PredecessorsPrecede
<1>9. DuplicatesMarked'
  BY <1>1, <1>5, <1>6 DEF PrimitiveInv, DuplicatesMarked, ProjectedStatus
<1>10. HeadsAreStaged'  BY <1>3, <1>5 DEF PrimitiveInv, HeadsAreStaged
<1>11. AdmissionsBelowHeads'  BY <1>3, <1>5 DEF PrimitiveInv, AdmissionsBelowHeads
<1>12. ReplacedOnce'  BY <1>3 DEF PrimitiveInv, ReplacedOnce
<1> QED  BY <1>5, <1>7, <1>8, <1>9, <1>10, <1>11, <1>12 DEF PrimitiveInv

(* Staged versions of one id, or of one number in a primitive, are one.     *)
LEMMA StagedOnce ==
  ASSUME StagedApart, NEW v \in StagedPrimitives, NEW w \in StagedPrimitives
  PROVE  v.id = w.id \/ (v.primitive = w.primitive /\ v.number = w.number) => v = w
  BY DEF StagedApart, StagedPrimitives

(* A version that replaces the head is above every admitted one.            *)
LEMMA AdmissionKeepsInv ==
  ASSUME PrimitiveInv, NEW support, NEW approver, AdmitPrimitiveVersion(support, approver)
  PROVE  PrimitiveInv'
<1> USE DEF PrimitiveInv
<1>1. PICK v \in StagedPrimitives :
        /\ v.id = support.candidate
        /\ v.predecessors = {support.rollback}
        /\ primitiveHeads[v.primitive] # {} => primitiveHeads[v.primitive] = {support.rollback}
        /\ primitiveHeads' = [primitiveHeads EXCEPT ![v.primitive] = {v.id}]
        /\ primitiveAdmissions' = primitiveAdmissions \cup {support}
        /\ UNCHANGED stagedPrimitives
  BY DEF AdmitPrimitiveVersion, AdmissionLineage, AdvancedHeads, PrimitiveReceived
<1>2. v.primitive \in Primitives /\ v.number \in Nat \X Nat \X Nat  BY DEF StagedApart
<1>3. UNCHANGED StagedPrimitives  BY <1>1 DEF StagedPrimitives
<1>4. /\ DOMAIN primitiveHeads' = Primitives
      /\ primitiveHeads'[v.primitive] = {v.id}
      /\ \A p \in Primitives \ {v.primitive} : primitiveHeads'[p] = primitiveHeads[p]
  BY <1>1, <1>2 DEF HeadsAreStaged
<1>5. PICK r \in StagedPrimitives :
        r.id = support.rollback /\ r.primitive = v.primitive /\ Precedes(r.number, v.number)
  BY <1>1 DEF PredecessorsPrecede
<1>6. ASSUME NEW a \in primitiveAdmissions, NEW u \in StagedPrimitives,
             u.id = a.candidate, u.predecessors = {a.rollback}, u.primitive = v.primitive
      PROVE  /\ Precedes(u.number, v.number)
             /\ a.rollback # support.rollback
  <2>1. PICK w, h \in StagedPrimitives :
          /\ w.id = a.candidate /\ w.predecessors = {a.rollback}
          /\ h.primitive = w.primitive /\ primitiveHeads[w.primitive] = {h.id}
          /\ h = w \/ Precedes(w.number, h.number)
    BY DEF AdmissionsBelowHeads
  <2>2. w = u  BY <1>6, <2>1, StagedOnce
  <2>3. h = r  BY <1>1, <1>5, <1>6, <2>1, <2>2, StagedOnce
  <2>4. u.number \in Nat \X Nat \X Nat /\ r.number \in Nat \X Nat \X Nat  BY DEF StagedApart
  <2>5. Precedes(u.number, v.number)
    BY <1>2, <1>5, <2>1, <2>2, <2>3, <2>4, PrecedesIsStrictOrder
  <2>6. a.rollback # support.rollback
    <3>1. SUFFICES ASSUME a.rollback = support.rollback  PROVE FALSE  OBVIOUS
    <3>2. PICK q \in StagedPrimitives :
            q.id = a.rollback /\ Precedes(q.number, u.number)
      BY <1>6 DEF PredecessorsPrecede
    <3>3. q = r  BY <1>5, <3>1, <3>2, StagedOnce
    <3> QED  BY <2>1, <2>2, <2>3, <2>4, <3>2, <3>3, PrecedesIsStrictOrder
  <2> QED  BY <2>5, <2>6
<1>7. PrimitivesAreSequence' /\ StagedApart' /\ PredecessorsPrecede' /\ DuplicatesMarked'
  BY <1>1, <1>3 DEF PrimitivesAreSequence, StagedApart, PredecessorsPrecede, DuplicatesMarked
<1>8. HeadsAreStaged'  BY <1>3, <1>4 DEF HeadsAreStaged
<1>9. AdmissionsBelowHeads'
  <2>1. SUFFICES ASSUME NEW a \in primitiveAdmissions \cup {support}
                 PROVE  \E u, h \in StagedPrimitives :
                          /\ u.id = a.candidate /\ u.predecessors = {a.rollback}
                          /\ h.primitive = u.primitive /\ primitiveHeads'[u.primitive] = {h.id}
                          /\ h = u \/ Precedes(u.number, h.number)
    BY <1>1, <1>3 DEF AdmissionsBelowHeads
  <2>2. CASE a = support  BY <1>1, <1>4, <2>2
  <2>3. CASE a \in primitiveAdmissions
    <3>1. PICK u, h \in StagedPrimitives :
            /\ u.id = a.candidate /\ u.predecessors = {a.rollback}
            /\ h.primitive = u.primitive /\ primitiveHeads[u.primitive] = {h.id}
            /\ h = u \/ Precedes(u.number, h.number)
      BY <2>3 DEF AdmissionsBelowHeads
    <3>2. u.primitive \in Primitives  BY DEF StagedApart
    <3>3. CASE u.primitive = v.primitive  BY <1>4, <1>6, <2>3, <3>1, <3>3
    <3>4. CASE u.primitive # v.primitive  BY <1>4, <3>1, <3>2, <3>4
    <3> QED  BY <3>3, <3>4
  <2> QED  BY <2>1, <2>2, <2>3
<1>10. ReplacedOnce'
  <2>1. ASSUME NEW a \in primitiveAdmissions, a.rollback = support.rollback
        PROVE  FALSE
    <3>1. PICK u \in StagedPrimitives : u.id = a.candidate /\ u.predecessors = {a.rollback}
      BY DEF AdmissionsBelowHeads
    <3>2. PICK q \in StagedPrimitives : q.id = a.rollback /\ q.primitive = u.primitive
      BY <3>1 DEF PredecessorsPrecede
    <3>3. q = r  BY <1>5, <2>1, <3>2, StagedOnce
    <3> QED  BY <1>5, <1>6, <2>1, <3>1, <3>2, <3>3
  <2> QED  BY <1>1, <2>1 DEF ReplacedOnce
<1> QED  BY <1>7, <1>8, <1>9, <1>10

(* One step per operation on primitives.                                    *)
LEMMA PrimitiveStep ==
  ASSUME PrimitiveInv, [PrimitiveNext]_primitiveVars
  PROVE  PrimitiveInv'
<1>1. ASSUME UNCHANGED <<stagedPrimitives, primitiveAdmissions, primitiveHeads>>
      PROVE  PrimitiveInv'
  <2>1. UNCHANGED StagedPrimitives  BY <1>1 DEF StagedPrimitives
  <2>2. PrimitivesAreSequence'  BY <1>1 DEF PrimitiveInv, PrimitivesAreSequence
  <2>3. StagedApart'  BY <1>1, <2>1 DEF PrimitiveInv, StagedApart
  <2>4. DuplicatesMarked'  BY <1>1 DEF PrimitiveInv, DuplicatesMarked
  <2>5. PredecessorsPrecede'  BY <2>1 DEF PrimitiveInv, PredecessorsPrecede
  <2>6. HeadsAreStaged' /\ AdmissionsBelowHeads' /\ ReplacedOnce'
    BY <1>1, <2>1 DEF PrimitiveInv, HeadsAreStaged, AdmissionsBelowHeads, ReplacedOnce
  <2> QED  BY <2>2, <2>3, <2>4, <2>5, <2>6 DEF PrimitiveInv
<1>2. CASE UNCHANGED primitiveVars  BY <1>1, <1>2 DEF primitiveVars
<1>3. CASE \E policy \in PrimitivePolicies : PrimitivePolicyMoves(policy)
  BY <1>1, <1>3 DEF PrimitivePolicyMoves
<1>4. CASE \E approver \in PrimitiveHumans, version \in PrimitivePool :
             ProposePrimitiveVersion(version, approver)
  BY <1>4, StagingKeepsInv
<1>5. CASE \E approver \in PrimitiveHumans, evaluation \in EvaluationPool :
             RecordPrimitiveEvaluation(evaluation, approver)
  BY <1>1, <1>5 DEF RecordPrimitiveEvaluation
<1>6. CASE \E approver \in PrimitiveHumans, support \in primitiveSupport :
             AdmitPrimitiveVersion(support, approver)
  BY <1>6, AdmissionKeepsInv
<1>7. CASE \E candidate, rollback, evaluations, protected :
             SupportPrimitive(candidate, rollback, evaluations, protected)
  BY <1>1, <1>7 DEF SupportPrimitive
<1> QED  BY <1>2, <1>3, <1>4, <1>5, <1>6, <1>7 DEF PrimitiveNext

(* An admission names a staged version that the head is, or comes after.    *)
LEMMA AdmittedVersion ==
  ASSUME PrimitiveInv, NEW a \in primitiveAdmissions
  PROVE  LET v == CHOOSE v \in StagedPrimitives : v.id = a.candidate
         IN /\ v \in StagedPrimitives /\ v.id = a.candidate /\ v.predecessors = {a.rollback}
            /\ \E h \in StagedPrimitives :
                 /\ h.primitive = v.primitive /\ primitiveHeads[v.primitive] = {h.id}
                 /\ h = v \/ Precedes(v.number, h.number)
<1> DEFINE v == CHOOSE v \in StagedPrimitives : v.id = a.candidate
<1>1. PICK w, h \in StagedPrimitives :
        /\ w.id = a.candidate /\ w.predecessors = {a.rollback}
        /\ h.primitive = w.primitive /\ primitiveHeads[w.primitive] = {h.id}
        /\ h = w \/ Precedes(w.number, h.number)
  BY DEF PrimitiveInv, AdmissionsBelowHeads
<1>2. v \in StagedPrimitives /\ v.id = a.candidate  BY <1>1
<1> HIDE DEF v
<1>3. v = w  BY <1>1, <1>2, StagedOnce DEF PrimitiveInv
<1> USE DEF v
<1> QED  BY <1>1, <1>2, <1>3

(* Admissions of a primitive form one chain that ends in its head.          *)
LEMMA OneChain ==
  ASSUME PrimitiveInv
  PROVE  AdmissionsFormOneChain
<1> DEFINE version(id) == CHOOSE v \in StagedPrimitives : v.id = id
<1>1. \A a \in primitiveAdmissions :
        LET v == version(a.candidate)
        IN /\ v \in StagedPrimitives /\ v.id = a.candidate /\ v.predecessors = {a.rollback}
           /\ \E h \in StagedPrimitives :
                /\ h.primitive = v.primitive /\ primitiveHeads[v.primitive] = {h.id}
                /\ h = v \/ Precedes(v.number, h.number)
  BY AdmittedVersion
<1> HIDE DEF version
<1> DEFINE admitted == {version(a.candidate) : a \in primitiveAdmissions}
<1>2. ASSUME NEW a \in primitiveAdmissions, NEW b \in primitiveAdmissions
      PROVE  /\ a.candidate = b.candidate => a.rollback = b.rollback
             /\ a.rollback = b.rollback => a.candidate = b.candidate
  <2>1. a.candidate = b.candidate => {a.rollback} = {b.rollback}
    BY <1>1
  <2> QED  BY <2>1 DEF PrimitiveInv, ReplacedOnce
<1>3. admitted \subseteq StagedPrimitives  BY <1>1
<1>4. ASSUME NEW u \in admitted, NEW v \in admitted, u.primitive = v.primitive, u # v
      PROVE  Precedes(u.number, v.number) \/ Precedes(v.number, u.number)
  <2>1. u.number # v.number  BY <1>3, <1>4, StagedOnce DEF PrimitiveInv
  <2>2. u.number \in Nat \X Nat \X Nat /\ v.number \in Nat \X Nat \X Nat
    BY <1>3 DEF PrimitiveInv, StagedApart
  <2> QED  BY <2>1, <2>2, PrecedesIsStrictOrder
<1>5. ASSUME NEW u \in admitted, NEW v \in StagedPrimitives,
             u.primitive = v.primitive, v.id \in primitiveHeads[v.primitive]
      PROVE  u = v \/ Precedes(u.number, v.number)
  <2>1. PICK h \in StagedPrimitives :
          /\ h.primitive = u.primitive /\ primitiveHeads[u.primitive] = {h.id}
          /\ h = u \/ Precedes(u.number, h.number)
    BY <1>1
  <2>2. h = v  BY <1>5, <2>1, StagedOnce DEF PrimitiveInv
  <2> QED  BY <2>1, <2>2
<1> QED  BY <1>2, <1>4, <1>5 DEF AdmissionsFormOneChain, version

(* No two primitives in force share their concept.                          *)
LEMMA NoDuplicates ==
  ASSUME PrimitiveInv
  PROVE  NoCanonicalDuplicates
<1>1. SUFFICES ASSUME NEW u \in UsablePrimitives, NEW v \in UsablePrimitives,
                      u.concept = v.concept
               PROVE  u = v
  BY DEF NoCanonicalDuplicates
<1>2. /\ u \in StagedPrimitives /\ u.status \in Promotable /\ primitiveHeads[u.primitive] = {u.id}
      /\ v \in StagedPrimitives /\ v.status \in Promotable /\ primitiveHeads[v.primitive] = {v.id}
  BY DEF UsablePrimitives
<1>3. CASE u.primitive = v.primitive  BY <1>2, <1>3, StagedOnce DEF PrimitiveInv
<1>4. CASE u.primitive # v.primitive
  <2>1. PICK i, j \in DOMAIN stagedPrimitives : stagedPrimitives[i] = u /\ stagedPrimitives[j] = v
    BY <1>2 DEF StagedPrimitives
  <2>2. i \in Nat /\ j \in Nat  BY DEF PrimitiveInv, PrimitivesAreSequence
  <2>3. i < j \/ j < i  BY <1>4, <2>1, <2>2
  <2>4. u.status = "DUPLICATE_SUSPECTED" \/ v.status = "DUPLICATE_SUSPECTED"
    BY <1>1, <1>4, <2>1, <2>3 DEF PrimitiveInv, DuplicatesMarked
  <2> QED  BY <1>2, <2>4 DEF Promotable
<1> QED  BY <1>3, <1>4

(* Whatever is staged, evaluated and supported in whatever order, the       *)
(* admitted versions of a primitive form one chain of rising versions, and  *)
(* no concept is canonical twice                                            *)
(* (transactions/representations.py:839-1255).                              *)
THEOREM PrimitivesCanonical == PrimitiveSpec => []CanonicalChains
<1>1. PrimitiveInit => PrimitiveInv
  <2>1. SUFFICES ASSUME PrimitiveInit  PROVE PrimitiveInv  OBVIOUS
  <2>2. stagedPrimitives = <<>> /\ primitiveAdmissions = {}
        /\ primitiveHeads = [p \in Primitives |-> {}]
    BY <2>1 DEF PrimitiveInit
  <2>3. stagedPrimitives \in Seq({}) /\ DOMAIN stagedPrimitives = {}  BY <2>2
  <2>4. StagedPrimitives = {}  BY <2>3 DEF StagedPrimitives
  <2>5. PrimitivesAreSequence  BY <2>3 DEF PrimitivesAreSequence
  <2>6. StagedApart /\ DuplicatesMarked  BY <2>3, <2>4 DEF StagedApart, DuplicatesMarked
  <2>7. PredecessorsPrecede /\ HeadsAreStaged /\ AdmissionsBelowHeads /\ ReplacedOnce
    BY <2>2, <2>4 DEF PredecessorsPrecede, HeadsAreStaged, AdmissionsBelowHeads, ReplacedOnce
  <2> QED  BY <2>5, <2>6, <2>7 DEF PrimitiveInv
<1>2. PrimitiveInv => CanonicalChains  BY OneChain, NoDuplicates DEF CanonicalChains
<1> QED  BY <1>1, <1>2, PrimitiveStep, PTL DEF PrimitiveSpec
=============================================================================
