---------------------------- MODULE InquiryProofs -----------------------------
(***************************************************************************)
(* What inquiry leaves behind, for any constants: the process records of    *)
(* cognition, evidence trails, evaluation campaigns, the protected store    *)
(* they evaluate with, the sessions of collaborating peers, and the         *)
(* procedures compiled from methods.                                        *)
(***************************************************************************)
EXTENDS Cognition, Campaigns, Trails, ProtectedStore, Collaboration, Procedures,
  Recursion, FiniteSetTheorems

-----------------------------------------------------------------------------
(* Cognition.                                                               *)

(* What one more element does to a sequence.                                *)
LEMMA Appended ==
  ASSUME NEW S, NEW s \in Seq(S), NEW e
  PROVE  /\ Append(s, e) \in Seq(S \cup {e})
         /\ Len(s) \in Nat /\ Len(Append(s, e)) = Len(s) + 1
         /\ DOMAIN s = 1 .. Len(s) /\ DOMAIN Append(s, e) = 1 .. Len(s) + 1
         /\ \A i \in DOMAIN s : Append(s, e)[i] = s[i]
         /\ Append(s, e)[Len(s) + 1] = e
  OBVIOUS

LogIsSequence == \E S : cognitionLog \in Seq(S)
CognitionInv == LogIsSequence /\ CognitionReplays

(* What one more accepted record does to the log.                           *)
LEMMA EntryAppended ==
  ASSUME LogIsSequence, NEW e, cognitionLog' = Append(cognitionLog, e)
  PROVE  /\ LogIsSequence'
         /\ Len(cognitionLog) \in Nat
         /\ DOMAIN cognitionLog = 1 .. Len(cognitionLog)
         /\ DOMAIN cognitionLog' = 1 .. Len(cognitionLog) + 1
         /\ \A i \in DOMAIN cognitionLog : cognitionLog'[i] = cognitionLog[i]
         /\ cognitionLog'[Len(cognitionLog) + 1] = e
<1>1. PICK S : cognitionLog \in Seq(S)  BY DEF LogIsSequence
<1>2. cognitionLog' \in Seq(S \cup {e})  BY <1>1, Appended
<1>3. LogIsSequence'  BY <1>2 DEF LogIsSequence
<1> QED  BY <1>1, <1>3, Appended

(* The records of a kind after one more: those before it, and it, if it is  *)
(* of that kind.                                                            *)
LEMMA EntriesAfter ==
  ASSUME LogIsSequence, NEW e, cognitionLog' = Append(cognitionLog, e), NEW kind
  PROVE  /\ Entries(kind) \subseteq Entries(kind)'
         /\ \A i \in Entries(kind)' :
              \/ i \in Entries(kind) 
              \/ i = Len(cognitionLog) + 1 /\ e.kind = kind
         /\ \A i \in Entries(kind) : i \in 1 .. Len(cognitionLog) /\ cognitionLog'[i] = cognitionLog[i]
  BY EntryAppended DEF Entries

(* The profiles that receipts name do not change when the log grows.        *)
LEMMA ProfilesStay ==
  ASSUME LogIsSequence, NEW e, cognitionLog' = Append(cognitionLog, e),
         NEW receipts \in SUBSET (1 .. Len(cognitionLog))
  PROVE  ProfilesAt(receipts)' = ProfilesAt(receipts)
  BY EntryAppended DEF ProfilesAt

(* A binding into the audit chain holds whatever is appended later.         *)
LEMMA BindingStays ==
  ASSUME LogIsSequence, NEW e, cognitionLog' = Append(cognitionLog, e),
         NEW i \in DOMAIN cognitionLog, NEW receipts, NEW kind, BoundBefore(i, receipts, kind)
  PROVE  /\ receipts \in SUBSET (1 .. Len(cognitionLog))
         /\ BoundBefore(i, receipts, kind)'
  BY EntryAppended, EntriesAfter DEF BoundBefore, Entries

(* What verification reconstructs of a record does not depend on what       *)
(* follows it.                                                              *)
LEMMA OldEntriesReplay ==
  ASSUME LogIsSequence, NEW e, cognitionLog' = Append(cognitionLog, e)
  PROVE  /\ \A i \in Entries("PROFILE") : ProfileReplays(i) => ProfileReplays(i)'
         /\ \A i \in Entries("COHORT") : CohortReplays(i) => CohortReplays(i)'
         /\ \A i \in Entries("DIVERSITY") : DiversityReplays(i) => DiversityReplays(i)'
<1>1. \A i \in Entries("PROFILE") : ProfileReplays(i) => ProfileReplays(i)'
  BY EntriesAfter DEF ProfileReplays
<1>2. ASSUME NEW i \in Entries("COHORT"), CohortReplays(i)  PROVE CohortReplays(i)'
  <2>1. i \in DOMAIN cognitionLog /\ cognitionLog'[i] = cognitionLog[i]
    BY EntryAppended DEF Entries
  <2>2. BoundBefore(i, cognitionLog[i].receipts, "PROFILE")'
    BY <1>2, <2>1, BindingStays DEF CohortReplays
  <2>3. ProfilesAt(cognitionLog[i].receipts)' = ProfilesAt(cognitionLog[i].receipts)
    BY <1>2, <2>1, BindingStays, ProfilesStay DEF CohortReplays
  <2> QED  BY <1>2, <2>1, <2>2, <2>3 DEF CohortReplays
<1>3. ASSUME NEW i \in Entries("DIVERSITY"), DiversityReplays(i)  PROVE DiversityReplays(i)'
  <2>1. i \in DOMAIN cognitionLog /\ cognitionLog'[i] = cognitionLog[i]
    BY EntryAppended DEF Entries
  <2>2. BoundBefore(i, cognitionLog[i].receipts, "PROFILE")'
    BY <1>3, <2>1, BindingStays DEF DiversityReplays
  <2>3. BoundBefore(i, {cognitionLog[i].cohort}, "COHORT")'
    BY <1>3, <2>1, BindingStays DEF DiversityReplays
  <2>4. ProfilesAt(cognitionLog[i].receipts)' = ProfilesAt(cognitionLog[i].receipts)
    BY <1>3, <2>1, BindingStays, ProfilesStay DEF DiversityReplays
  <2>5. cognitionLog'[cognitionLog[i].cohort] = cognitionLog[cognitionLog[i].cohort]
    BY <1>3, <2>1, EntryAppended DEF DiversityReplays, BoundBefore, Entries
  <2> QED  BY <1>3, <2>1, <2>2, <2>3, <2>4, <2>5 DEF DiversityReplays
<1> QED  BY <1>1, <1>2, <1>3

(* Only the record appended has to be reconstructed.                        *)
LEMMA NewReplays ==
  ASSUME CognitionInv, NEW e, cognitionLog' = Append(cognitionLog, e),
         NEW i, i = Len(cognitionLog) + 1,
         e.kind = "PROFILE" => ProfileReplays(i)',
         e.kind = "COHORT" => CohortReplays(i)',
         e.kind = "DIVERSITY" => DiversityReplays(i)'
  PROVE  CognitionInv'
<1>1. LogIsSequence'  BY EntryAppended DEF CognitionInv
<1>2. \A j \in Entries("PROFILE")' : ProfileReplays(j)'
  BY EntriesAfter, OldEntriesReplay DEF CognitionInv, CognitionReplays
<1>3. \A j \in Entries("COHORT")' : CohortReplays(j)'
  BY EntriesAfter, OldEntriesReplay DEF CognitionInv, CognitionReplays
<1>4. \A j \in Entries("DIVERSITY")' : DiversityReplays(j)'
  BY EntriesAfter, OldEntriesReplay DEF CognitionInv, CognitionReplays
<1> QED  BY <1>1, <1>2, <1>3, <1>4 DEF CognitionInv, CognitionReplays

(* Receipts the handler resolves are what verification binds: earlier,      *)
(* accepted, and under the policy in force.                                 *)
LEMMA ResolvedAreBound ==
  ASSUME LogIsSequence, NEW e, cognitionLog' = Append(cognitionLog, e),
         e.policy = cognitionPolicy, NEW receipts, NEW kind, Resolves(receipts, kind)
  PROVE  /\ receipts \in SUBSET (1 .. Len(cognitionLog))
         /\ \A i : i = Len(cognitionLog) + 1 => BoundBefore(i, receipts, kind)'
  BY EntryAppended, EntriesAfter DEF Resolves, BoundBefore, Entries

(* The handlers check what verification reconstructs.                       *)
LEMMA CognitionStep ==
  ASSUME CognitionInv, [CognitionNext]_cognitionVars
  PROVE  CognitionInv'
<1> USE DEF CognitionInv
<1>0. PICK i : i = Len(cognitionLog) + 1  OBVIOUS
<1>1. ASSUME NEW policy \in CognitionPolicies, CognitionPolicyMoves(policy)
      PROVE  CognitionInv'
  <2>1. PICK e : e.kind = "POLICY" /\ cognitionLog' = Append(cognitionLog, e)
    BY <1>1 DEF CognitionPolicyMoves
  <2> QED  BY <1>0, <2>1, NewReplays
<1>2. ASSUME NEW proposer, NEW approver, NEW p, RecordCapabilityProfile(proposer, approver, p)
      PROVE  CognitionInv'
  <2>1. PICK e : /\ cognitionLog' = Append(cognitionLog, e)
                 /\ e.kind = "PROFILE" /\ e.policy = cognitionPolicy /\ e.record = p
    BY <1>2 DEF RecordCapabilityProfile, AppendEntry
  <2>2. ProfileReplays(i)'
    BY <1>0, <1>2, <2>1, EntryAppended DEF ProfileReplays, RecordCapabilityProfile
  <2> QED  BY <1>0, <2>1, <2>2, NewReplays
<1>3. ASSUME NEW proposer, NEW approver, NEW request, NEW receipts,
             RecordCohortPlan(proposer, approver, request, receipts)
      PROVE  CognitionInv'
  <2> DEFINE cohort == Cohort(request, ProfilesAt(receipts))
  <2>1. PICK e : /\ cognitionLog' = Append(cognitionLog, e)
                 /\ e.kind = "COHORT" /\ e.policy = cognitionPolicy
                 /\ e.record = cohort /\ e.receipts = receipts
    <3> HIDE DEF cohort
    <3> QED BY <1>3 DEF RecordCohortPlan, AppendEntry, cohort
  <2>2. cohort.request = request  BY DEF Cohort
  <2>3. cognitionLog'[i] = e  BY <1>0, <2>1, EntryAppended
  <2>4. BoundBefore(i, receipts, "PROFILE")' /\ ProfilesAt(receipts)' = ProfilesAt(receipts)
    BY <1>0, <1>3, <2>1, ResolvedAreBound, ProfilesStay DEF RecordCohortPlan
  <2>5. CohortReplays(i)'
    BY <1>0, <1>3, <2>1, <2>2, <2>3, <2>4 DEF CohortReplays, RecordCohortPlan
  <2> QED  BY <1>0, <2>1, <2>5, NewReplays
<1>4. ASSUME NEW proposer, NEW approver, NEW cohort, NEW receipts, NEW correlations,
             RecordDiversityAssessment(proposer, approver, cohort, receipts, correlations)
      PROVE  CognitionInv'
  <2> DEFINE diversity == Diversity(cognitionLog[cohort].record, ProfilesAt(receipts),
                                    correlations)
  <2>1. PICK e : /\ cognitionLog' = Append(cognitionLog, e)
                 /\ e.kind = "DIVERSITY" /\ e.policy = cognitionPolicy
                 /\ e.record = diversity /\ e.receipts = receipts /\ e.cohort = cohort
    <3> HIDE DEF diversity
    <3> QED BY <1>4 DEF RecordDiversityAssessment, AppendEntry, diversity
  <2>2. diversity.correlations = correlations  BY DEF Diversity
  <2>3. cognitionLog'[i] = e  BY <1>0, <2>1, EntryAppended
  <2>4. BoundBefore(i, receipts, "PROFILE")' /\ ProfilesAt(receipts)' = ProfilesAt(receipts)
    BY <1>0, <1>4, <2>1, ResolvedAreBound, ProfilesStay DEF RecordDiversityAssessment
  <2>5. BoundBefore(i, {cohort}, "COHORT")' /\ cognitionLog'[cohort] = cognitionLog[cohort]
    BY <1>0, <1>4, <2>1, ResolvedAreBound, EntryAppended DEF RecordDiversityAssessment
  <2>6. DiversityReplays(i)'
    BY <1>0, <1>4, <2>1, <2>2, <2>3, <2>4, <2>5 DEF DiversityReplays, RecordDiversityAssessment
  <2> QED  BY <1>0, <2>1, <2>6, NewReplays
<1>5. CASE UNCHANGED cognitionVars
  <2>1. UNCHANGED <<cognitionPolicy, cognitionLog>>  BY <1>5 DEF cognitionVars
  <2>2. LogIsSequence'  BY <2>1 DEF LogIsSequence
  <2>3. \A kind : Entries(kind)' = Entries(kind)  BY <2>1 DEF Entries
  <2>4. \A receipts : ProfilesAt(receipts)' = ProfilesAt(receipts)  BY <2>1 DEF ProfilesAt
  <2>5. \A j, receipts, kind : BoundBefore(j, receipts, kind)' <=> BoundBefore(j, receipts, kind)
    BY <2>1, <2>3 DEF BoundBefore
  <2>6. \A j : ProfileReplays(j) => ProfileReplays(j)'  BY <2>1 DEF ProfileReplays
  <2>7. \A j : CohortReplays(j) => CohortReplays(j)'
    BY <2>1, <2>4, <2>5 DEF CohortReplays
  <2>8. \A j : DiversityReplays(j) => DiversityReplays(j)'
    BY <2>1, <2>4, <2>5 DEF DiversityReplays
  <2> QED  BY <2>2, <2>3, <2>6, <2>7, <2>8 DEF CognitionReplays
<1> QED  BY <1>0, <1>1, <1>2, <1>3, <1>4, <1>5 DEF CognitionNext

(* Every profile, cohort plan and diversity assessment a handler accepted   *)
(* is reconstructed by verification from the audit chain alone, however     *)
(* many policies followed (cognitive/integrity.py:527-624).                 *)
THEOREM CognitionRebuilds == CognitionSpec => []CognitionReplays
<1>1. CognitionInit => CognitionInv
  BY DEF CognitionInit, CognitionInv, LogIsSequence, CognitionReplays, Entries
<1> QED  BY <1>1, CognitionStep, PTL DEF CognitionSpec, CognitionInv

(* Why the members of a cohort, and no others, are selected.                *)

(* The ranking of profiles of different actors is a strict order with a first*)
(* among any number left.                                                   *)
Rankable(request, S) ==
  /\ IsFiniteSet(request.required) /\ IsFiniteSet(request.preferred)
  /\ \A p \in S : p.actor \in Nat
  /\ \A p, q \in S : p.actor = q.actor => p = q

(* The requirements satisfied are counted by a number.                      *)
LEMMA SatisfiedCounts ==
  ASSUME NEW p, NEW requirements, IsFiniteSet(requirements)
  PROVE  Satisfied(p, requirements) \in 0 .. Cardinality(requirements)
<1>1. {r \in requirements : Satisfies(p, r)} \in SUBSET requirements
  OBVIOUS
<1>2. PICK T \in SUBSET requirements : T = {r \in requirements : Satisfies(p, r)}
  BY <1>1
<1>3. IsFiniteSet(T) /\ Cardinality(T) <= Cardinality(requirements)
  BY FS_Subset
<1>4. Cardinality(T) \in Nat /\ Cardinality(requirements) \in Nat
  BY <1>3, FS_CardinalityType
<1> QED
  BY <1>2, <1>3, <1>4 DEF Satisfied

(* Of two profiles one comes first, never both, and the order chains.       *)
LEMMA RankOrders ==
  ASSUME NEW request, NEW S, Rankable(request, S)
  PROVE  /\ \A p, q \in S : p = q \/ RankedBefore(request, p, q) \/ RankedBefore(request, q, p)
         /\ \A p, q \in S : ~(RankedBefore(request, p, q) /\ RankedBefore(request, q, p))
         /\ \A p, q, r \in S :
              RankedBefore(request, p, q) /\ RankedBefore(request, q, r) => RankedBefore(request, p, r)
<1>1. \A p : Satisfied(p, request.required) \in Int /\ Satisfied(p, request.preferred) \in Int
  BY SatisfiedCounts DEF Rankable
<1>2. \A p, q \in S : p = q \/ p.actor < q.actor \/ q.actor < p.actor
  BY DEF Rankable
<1>3. \A p \in S : p.actor \in Nat
  BY DEF Rankable
<1> QED
  BY <1>1, <1>2, <1>3 DEF RankedBefore

(* Whatever profiles are left, one comes before all the others.             *)
LEMMA BestIsFirst ==
  ASSUME NEW request, NEW S, Rankable(request, S), S # {}
  PROVE  /\ Best(request, S) \in S
         /\ \A other \in S \ {Best(request, S)} : RankedBefore(request, Best(request, S), other)
<1> DEFINE required(p) == Satisfied(p, request.required)
           preferred(p) == Satisfied(p, request.preferred)
<1>1. PICK k \in Nat, l \in Nat :
        k = Cardinality(request.required) /\ l = Cardinality(request.preferred)
  BY FS_CardinalityType DEF Rankable
<1>2. \A p : required(p) \in 0 .. k /\ preferred(p) \in 0 .. l
  BY <1>1, SatisfiedCounts DEF Rankable
<1> HIDE DEF required, preferred
<1>3. PICK r \in {required(p) : p \in S} : \A x \in {required(p) : p \in S} : r >= x
  <2>1. PICK R : R = {required(p) : p \in S}
    OBVIOUS
  <2>2. R \subseteq 0 .. k /\ R # {}
    BY <1>2, <2>1
  <2>3. \E r \in R : \A x \in R : r >= x
    BY <2>2, GreatestNatural
  <2> QED
    BY <2>1, <2>3
<1>4. PICK T : T = {p \in S : required(p) = r}
  OBVIOUS
<1>5. T # {} /\ T \subseteq S
  BY <1>3, <1>4
<1>6. PICK f \in {preferred(p) : p \in T} : \A x \in {preferred(p) : p \in T} : f >= x
  <2>1. PICK F : F = {preferred(p) : p \in T}
    OBVIOUS
  <2>2. F \subseteq 0 .. l /\ F # {}
    BY <1>2, <1>5, <2>1
  <2>3. \E f \in F : \A x \in F : f >= x
    BY <2>2, GreatestNatural
  <2> QED
    BY <2>1, <2>3
<1>7. PICK U : U = {p \in T : preferred(p) = f}
  OBVIOUS
<1>8. U # {} /\ U \subseteq T
  BY <1>6, <1>7
<1>9. PICK a \in {p.actor : p \in U} : \A x \in {p.actor : p \in U} : a <= x
  <2>1. {p.actor : p \in U} \subseteq Nat /\ {p.actor : p \in U} # {}
    BY <1>5, <1>8 DEF Rankable
  <2> QED
    BY <2>1, LeastNatural
<1>10. PICK p \in U : p.actor = a
  BY <1>9
<1>11. ASSUME NEW q \in S \ {p} PROVE RankedBefore(request, p, q)
  <2>1. required(p) = r /\ preferred(p) = f /\ p \in S
    BY <1>4, <1>5, <1>7, <1>8
  <2>2. required(p) \in Int /\ required(q) \in Int /\ preferred(p) \in Int /\ preferred(q) \in Int
    BY <1>2
  <2>3. required(p) >= required(q)
    BY <1>3, <2>1
  <2>4. required(q) = r => preferred(p) >= preferred(q)
    BY <1>4, <1>6, <2>1
  <2>5. required(q) = r /\ preferred(q) = f => p.actor < q.actor
    <3>1. ASSUME required(q) = r, preferred(q) = f PROVE p.actor < q.actor
      <4>1. q \in U
        BY <1>4, <1>7, <3>1
      <4>2. p.actor <= q.actor
        BY <1>9, <1>10, <4>1
      <4>3. p.actor # q.actor /\ p.actor \in Nat /\ q.actor \in Nat
        BY <2>1 DEF Rankable
      <4> QED
        BY <4>2, <4>3
    <3> QED
      BY <3>1
  <2> QED
    BY <2>1, <2>2, <2>3, <2>4, <2>5 DEF RankedBefore, required, preferred
<1>12. p \in S
  BY <1>5, <1>8
<1> QED
  BY <1>11, <1>12 DEF Best

(* What holds of a selection after any number of candidates: those taken up *)
(* come before those left; members may meet; and who was taken up and is no *)
(* member has a reason.                                                     *)
Left(request, members, p) ==
  LET better == {m \in members : RankedBefore(request, m, p)}
  IN Cardinality(better) = request.max \/ \E m \in better : {m.actor, p.actor} \in request.prohibited
Justified(request, resolved, selection) ==
  /\ selection.left \subseteq resolved /\ selection.members \subseteq resolved \ selection.left
  /\ \A p \in resolved \ selection.left, q \in selection.left : RankedBefore(request, p, q)
  /\ \A m, other \in selection.members : {m.actor, other.actor} \notin request.prohibited
  /\ \A p \in (resolved \ selection.left) \ selection.members : Left(request, selection.members, p)
  /\ Cardinality(selection.members) <= request.max

Selectable(request, resolved) ==
  /\ Rankable(request, resolved) /\ IsFiniteSet(resolved)
  /\ request.max \in Nat
  /\ \A pair \in request.prohibited : Cardinality(pair) = 2

(* Considering the best of those left keeps the selection justified.        *)
LEMMA ConsideredIsJustified ==
  ASSUME NEW request, NEW resolved, Selectable(request, resolved),
         NEW selection, Justified(request, resolved, selection), selection.left # {}
  PROVE  LET p == Best(request, selection.left)
         IN /\ Justified(request, resolved, Considered(request, p, selection))
            /\ p \in selection.left
            /\ Considered(request, p, selection).left = selection.left \ {p}
<1>1. PICK left, members : left = selection.left /\ members = selection.members
  OBVIOUS
<1>2. PICK p : p = Best(request, left)
  OBVIOUS
<1>3. Rankable(request, resolved) /\ Rankable(request, left) /\ left \subseteq resolved
  BY <1>1 DEF Selectable, Justified, Rankable
<1>4. p \in left /\ p \in resolved /\ \A q \in left \ {p} : RankedBefore(request, p, q)
  BY <1>1, <1>2, <1>3, BestIsFirst
<1>5. PICK after : after = Considered(request, p, selection)
  OBVIOUS
<1>6. /\ after.left = left \ {p}
      /\ after.members = IF Cardinality(members) >= request.max \/ Prohibited(request, p, members)
                         THEN members ELSE members \cup {p}
  BY <1>1, <1>5 DEF Considered
<1>7. /\ members \subseteq resolved \ left /\ IsFiniteSet(members) /\ Cardinality(members) \in Nat
      /\ Cardinality(members) <= request.max /\ request.max \in Nat
  <2>1. members \subseteq resolved \ left /\ members \in SUBSET resolved
    BY <1>1 DEF Justified
  <2>2. IsFiniteSet(members)
    BY <2>1, FS_Subset DEF Selectable
  <2> QED
    BY <1>1, <2>1, <2>2, FS_CardinalityType DEF Justified, Selectable
<1>8. \A m \in members : RankedBefore(request, m, p)
  BY <1>1, <1>4, <1>7 DEF Justified
<1>9. \A q \in (resolved \ left) : ~RankedBefore(request, p, q)
  BY <1>1, <1>3, <1>4, RankOrders DEF Justified
<1>10. \A q \in resolved \ after.left, r \in after.left : RankedBefore(request, q, r)
  BY <1>1, <1>4, <1>6 DEF Justified
<1>11. CASE Cardinality(members) >= request.max \/ Prohibited(request, p, members)
  <2>1. after.members = members
    BY <1>6, <1>11
  <2>2. Left(request, members, p)
    <3>1. {m \in members : RankedBefore(request, m, p)} = members
      BY <1>8
    <3>2. CASE Cardinality(members) >= request.max
      <4>1. PICK c \in Nat, m \in Nat : c = Cardinality(members) /\ m = request.max
        BY <1>7
      <4>2. c = m
        BY <1>7, <3>2, <4>1
      <4> QED
        BY <3>1, <4>1, <4>2 DEF Left
    <3>3. CASE Prohibited(request, p, members)
      <4>1. PICK m \in members : {p.actor, m.actor} \in request.prohibited
        BY <3>3 DEF Prohibited
      <4>2. {p.actor, m.actor} = {m.actor, p.actor}
        OBVIOUS
      <4> QED
        BY <3>1, <4>1, <4>2 DEF Left
    <3> QED
      BY <1>11, <3>2, <3>3
  <2>3. \A q \in (resolved \ after.left) \ members : Left(request, members, q)
    BY <1>1, <1>6, <2>2 DEF Justified
  <2>4. Justified(request, resolved, after)
    BY <1>1, <1>3, <1>6, <1>7, <1>10, <2>1, <2>3 DEF Justified
  <2> QED
    BY <1>1, <1>2, <1>4, <1>5, <1>6, <2>4
<1>12. CASE ~(Cardinality(members) >= request.max \/ Prohibited(request, p, members))
  <2>1. after.members = members \cup {p} /\ p \notin members
    BY <1>4, <1>6, <1>7, <1>12
  <2>2. Cardinality(members \cup {p}) = Cardinality(members) + 1
    BY <1>7, <2>1, FS_AddElement
  <2>3. Cardinality(after.members) <= request.max
    BY <1>7, <1>12, <2>1, <2>2
  <2>4. ASSUME NEW m \in after.members, NEW other \in after.members
        PROVE  {m.actor, other.actor} \notin request.prohibited
    <3>1. CASE m \in members /\ other \in members
      BY <1>1, <3>1 DEF Justified
    <3>2. CASE m = p /\ other = p
      <4>1. {m.actor, other.actor} = {p.actor}
        BY <3>2
      <4>2. Cardinality({p.actor}) = 1
        BY FS_Singleton
      <4> QED
        BY <4>1, <4>2 DEF Selectable
    <3>3. CASE m = p /\ other \in members
      BY <1>12, <3>3 DEF Prohibited
    <3>4. CASE m \in members /\ other = p
      <4>1. {m.actor, other.actor} = {p.actor, m.actor}
        BY <3>4
      <4> QED
        BY <1>12, <3>4, <4>1 DEF Prohibited
    <3> QED
      BY <2>1, <3>1, <3>2, <3>3, <3>4
  <2>5. ASSUME NEW q \in (resolved \ after.left) \ after.members PROVE Left(request, after.members, q)
    <3>1. q \in (resolved \ left) \ members
      BY <1>6, <2>1, <2>5
    <3>2. Left(request, members, q)
      BY <1>1, <3>1 DEF Justified
    <3>3. {m \in after.members : RankedBefore(request, m, q)} = {m \in members : RankedBefore(request, m, q)}
      BY <1>9, <2>1, <3>1
    <3> QED
      BY <3>2, <3>3 DEF Left
  <2>6. after.members \subseteq resolved \ after.left /\ after.left \subseteq resolved
    BY <1>3, <1>4, <1>6, <1>7, <2>1
  <2>7. Justified(request, resolved, after)
    BY <1>10, <2>3, <2>4, <2>5, <2>6 DEF Justified
  <2> QED
    BY <1>1, <1>2, <1>4, <1>5, <1>6, <2>7
<1> QED
  BY <1>11, <1>12

(* The selection after each candidate considered.                           *)
Selecting(f, request, resolved) ==
  f = [n \in 0 .. Cardinality(resolved) |->
         IF n = 0 THEN [left |-> resolved, members |-> {}]
         ELSE Considered(request, Best(request, f[n - 1].left), f[n - 1])]
SelectedFrom(request, resolved) ==
  (CHOOSE f : Selecting(f, request, resolved))[Cardinality(resolved)].members

(* Only the candidates that have a profile matter.                          *)
LEMMA SelectedFromCandidates ==
  \A request, profiles :
    Selected(request, profiles) = SelectedFrom(request, Candidates(request, profiles))
BY DEF Selected, SelectedFrom, Selecting

(* There is such a sequence of selections, whatever is best.                *)
LEMMA SelectingExists ==
  ASSUME NEW request, NEW resolved, IsFiniteSet(resolved)
  PROVE  \E f : Selecting(f, request, resolved)
<1> DEFINE Bests == {Best(request, L) : L \in SUBSET resolved}
           S == [left : SUBSET resolved, members : SUBSET (resolved \cup Bests)]
           start == [left |-> resolved, members |-> {}]
           next(s) == Considered(request, Best(request, s.left), s)
<1>1. PICK k \in Nat : k = Cardinality(resolved)
  BY FS_CardinalityType
<1>2. start \in S
  OBVIOUS
<1>3. ASSUME NEW s \in S PROVE next(s) \in S
  <2>1. PICK p : p = Best(request, s.left)
    OBVIOUS
  <2>2. p \in Bests
    BY <2>1
  <2> HIDE DEF Bests
  <2> QED
    BY <2>1, <2>2 DEF Considered
<1> HIDE DEF S, next, start
<1>4. PICK step : step = [n \in 1 .. k |-> [s \in S |-> next(s)]]
  OBVIOUS
<1>5. StepsWithin(step, k, S)
  BY <1>3, <1>4 DEF StepsWithin
<1>6. PICK f : IsRun(f, start, step, k, S)
  BY <1>2, <1>5, RunExists
<1>7. \A n \in 1 .. k : n - 1 \in 0 .. k /\ f[n] = next(f[n - 1])
  BY <1>4, <1>6 DEF IsRun
<1>8. f = [n \in 0 .. k |-> IF n = 0 THEN start ELSE next(f[n - 1])]
  <2>1. f = [n \in 0 .. k |-> f[n]] /\ f[0] = start
    BY <1>6 DEF IsRun
  <2>2. \A n \in 0 .. k : f[n] = IF n = 0 THEN start ELSE next(f[n - 1])
    <3>1. \A n \in 0 .. k : n # 0 => n \in 1 .. k
      OBVIOUS
    <3> QED
      BY <1>7, <2>1, <3>1
  <2> QED
    BY <2>1, <2>2
<1> QED
  BY <1>1, <1>8 DEF Selecting, start, next

(* At the end every candidate has been considered.                          *)
LEMMA SelectionJustified ==
  ASSUME NEW request, NEW resolved, Selectable(request, resolved)
  PROVE  \E selection : /\ Justified(request, resolved, selection)
                        /\ selection.left = {}
                        /\ selection.members = SelectedFrom(request, resolved)
<1>1. PICK k \in Nat : k = Cardinality(resolved)
  BY FS_CardinalityType DEF Selectable
<1>2. PICK f : Selecting(f, request, resolved) /\ SelectedFrom(request, resolved) = f[k].members
  <2>1. \E f : Selecting(f, request, resolved)
    BY SelectingExists DEF Selectable
  <2> QED
    BY <1>1, <2>1 DEF SelectedFrom
<1>3. /\ f[0] = [left |-> resolved, members |-> {}]
      /\ \A n \in 1 .. k : f[n] = Considered(request, Best(request, f[n - 1].left), f[n - 1])
  <2>1. f = [n \in 0 .. k |-> IF n = 0 THEN [left |-> resolved, members |-> {}]
                              ELSE Considered(request, Best(request, f[n - 1].left), f[n - 1])]
    BY <1>1, <1>2 DEF Selecting
  <2>2. 0 \in 0 .. k /\ \A n \in 1 .. k : n \in 0 .. k /\ n # 0
    OBVIOUS
  <2> QED
    BY <2>1, <2>2
<1> DEFINE T == {n \in 0 .. k : /\ Justified(request, resolved, f[n])
                                /\ IsFiniteSet(f[n].left) /\ Cardinality(f[n].left) = k - n}
<1>4. 0 \in T
  <2>1. IsFiniteSet(resolved) /\ Cardinality({}) = 0 /\ request.max \in Nat
    BY FS_EmptySet DEF Selectable
  <2>2. f[0].left = resolved /\ f[0].members = {}
    BY <1>3
  <2>3. Justified(request, resolved, f[0])
    BY <2>1, <2>2 DEF Justified
  <2> QED
    BY <1>1, <2>1, <2>2, <2>3
<1>5. ASSUME NEW n \in 1 .. k, n - 1 \in T PROVE n \in T
  <2>1. PICK s : s = f[n - 1]
    OBVIOUS
  <2>2. PICK p : p = Best(request, s.left)
    OBVIOUS
  <2>3. Justified(request, resolved, s) /\ IsFiniteSet(s.left) /\ Cardinality(s.left) = k - n + 1
    BY <1>5, <2>1
  <2>4. s.left # {}
    BY <2>3, FS_EmptySet
  <2>5. f[n] = Considered(request, p, s)
    BY <1>3, <2>1, <2>2
  <2>6. /\ Justified(request, resolved, f[n]) /\ p \in s.left
        /\ f[n].left = s.left \ {p}
    BY <2>2, <2>3, <2>4, <2>5, ConsideredIsJustified
  <2>7. IsFiniteSet(f[n].left) /\ Cardinality(f[n].left) = Cardinality(s.left) - 1
    BY <2>3, <2>6, FS_RemoveElement
  <2>8. Cardinality(f[n].left) = k - n
    BY <2>3, <2>7
  <2>9. n \in 0 .. k /\ IsFiniteSet(f[n].left)
    BY <2>7
  <2> QED
    BY <2>6, <2>8, <2>9
<1>6. \A n \in 0 .. k : n \in T
  <2> HIDE DEF T
  <2> QED
    BY <1>4, <1>5, EveryNumber
<1>7. Justified(request, resolved, f[k]) /\ IsFiniteSet(f[k].left) /\ Cardinality(f[k].left) = 0
  <2>1. k \in 0 .. k /\ k - k = 0
    OBVIOUS
  <2> QED
    BY <1>6, <2>1
<1>8. f[k].left = {}
  BY <1>7, FS_EmptySet
<1> QED
  BY <1>2, <1>7, <1>8

(* The plan of a cohort carries the reasons of the selection.               *)
Reasoned(cohort) ==
  /\ \A m, other \in cohort.members : {m.actor, other.actor} \notin cohort.request.prohibited
  /\ \A p \in cohort.profiles \ cohort.members : Left(cohort.request, cohort.members, p)
  /\ Cardinality(cohort.members) <= cohort.request.max

(* A well-formed request and profiles of known actors give such a plan.     *)
LEMMA CohortHasReasons ==
  ASSUME NEW request \in CohortRequests, NEW profiles, IsFiniteSet(profiles),
         \A p \in profiles : p.actor \in Nat, CohortPossible(request, profiles)
  PROVE  Reasoned(Cohort(request, profiles))
<1>1. PICK resolved : resolved = Candidates(request, profiles)
  OBVIOUS
<1>2. resolved \subseteq profiles
  BY <1>1 DEF Candidates
<1>3. WellFormedRequest(request)
  BY CognitionAssumption
<1>4. request.max \in Nat
  BY <1>3 DEF WellFormedRequest
<1>5. Selectable(request, resolved)
  <2>1. IsFiniteSet(resolved)
    BY <1>2, FS_Subset
  <2>2. Rankable(request, resolved)
    BY <1>2, <1>3 DEF Rankable, WellFormedRequest, CohortPossible
  <2> QED
    BY <1>3, <1>4, <2>1, <2>2 DEF Selectable, WellFormedRequest
<1>6. PICK selection : /\ Justified(request, resolved, selection)
                       /\ selection.left = {}
                       /\ selection.members = SelectedFrom(request, resolved)
  BY <1>5, SelectionJustified
<1>7. PICK cohort : cohort = Cohort(request, profiles)
  OBVIOUS
<1>8. /\ cohort.request = request /\ cohort.profiles = resolved
      /\ cohort.members = selection.members
  BY <1>1, <1>6, <1>7, SelectedFromCandidates DEF Cohort
<1>9. Reasoned(cohort)
  BY <1>6, <1>8 DEF Justified, Reasoned
<1> QED
  BY <1>7, <1>9

(* What is on record are the profiles and requests that may be submitted.   *)
OnRecord ==
  /\ \A i \in Entries("PROFILE") : cognitionLog[i].record \in ProfileRecords
  /\ \A i \in Entries("COHORT") : cognitionLog[i].record.request \in CohortRequests
SelectionInv == CognitionInv /\ OnRecord

(* Only the record appended has to be one that may be submitted.            *)
LEMMA OneMoreOnRecord ==
  ASSUME SelectionInv, NEW e, cognitionLog' = Append(cognitionLog, e),
         e.kind = "PROFILE" => e.record \in ProfileRecords,
         e.kind = "COHORT" => e.record.request \in CohortRequests
  PROVE  OnRecord'
<1>1. LogIsSequence
  BY DEF SelectionInv, CognitionInv
<1>2. \A i \in Entries("PROFILE")' : cognitionLog'[i].record \in ProfileRecords
  BY <1>1, EntryAppended, EntriesAfter DEF SelectionInv, OnRecord
<1>3. \A i \in Entries("COHORT")' : cognitionLog'[i].record.request \in CohortRequests
  BY <1>1, EntryAppended, EntriesAfter DEF SelectionInv, OnRecord
<1> QED
  BY <1>2, <1>3 DEF OnRecord

(* Each handler records what was submitted.                                 *)
LEMMA RecordStep ==
  ASSUME SelectionInv, [CognitionNext]_cognitionVars
  PROVE  OnRecord'
<1>1. ASSUME NEW policy \in CognitionPolicies, CognitionPolicyMoves(policy)
      PROVE  OnRecord'
  <2>1. PICK e : e.kind = "POLICY" /\ cognitionLog' = Append(cognitionLog, e)
    BY <1>1 DEF CognitionPolicyMoves
  <2> QED
    BY <2>1, OneMoreOnRecord
<1>2. ASSUME NEW proposer, NEW approver, NEW p \in ProfileRecords,
             RecordCapabilityProfile(proposer, approver, p)
      PROVE  OnRecord'
  <2>1. PICK e : cognitionLog' = Append(cognitionLog, e) /\ e.kind = "PROFILE" /\ e.record = p
    BY <1>2 DEF RecordCapabilityProfile, AppendEntry
  <2> QED
    BY <2>1, OneMoreOnRecord
<1>3. ASSUME NEW proposer, NEW approver, NEW request \in CohortRequests, NEW receipts,
             RecordCohortPlan(proposer, approver, request, receipts)
      PROVE  OnRecord'
  <2>1. PICK cohort : cohort = Cohort(request, ProfilesAt(receipts))
    OBVIOUS
  <2>2. cohort.request = request
    BY <2>1 DEF Cohort
  <2>3. PICK e : cognitionLog' = Append(cognitionLog, e) /\ e.kind = "COHORT" /\ e.record = cohort
    BY <1>3, <2>1 DEF RecordCohortPlan, AppendEntry
  <2> QED
    BY <2>2, <2>3, OneMoreOnRecord
<1>4. ASSUME NEW proposer, NEW approver, NEW cohort, NEW receipts, NEW correlations,
             RecordDiversityAssessment(proposer, approver, cohort, receipts, correlations)
      PROVE  OnRecord'
  <2>1. PICK diversity : diversity = Diversity(cognitionLog[cohort].record, ProfilesAt(receipts),
                                               correlations)
    OBVIOUS
  <2>2. PICK e : cognitionLog' = Append(cognitionLog, e) /\ e.kind = "DIVERSITY"
    BY <1>4, <2>1 DEF RecordDiversityAssessment, AppendEntry
  <2> QED
    BY <2>2, OneMoreOnRecord
<1>5. CASE UNCHANGED cognitionVars
  BY <1>5 DEF SelectionInv, OnRecord, Entries, cognitionVars
<1> QED
  BY <1>1, <1>2, <1>3, <1>4, <1>5 DEF CognitionNext

(* What verification rebuilds is a plan that has its reasons.               *)
LEMMA OnRecordHasReasons == SelectionInv => SelectionsHaveReasons
<1> SUFFICES ASSUME SelectionInv, NEW i \in Entries("COHORT")
             PROVE  Reasoned(cognitionLog[i].record)
  BY DEF SelectionsHaveReasons, Reasoned, Left
<1>1. PICK entry : entry = cognitionLog[i]
  OBVIOUS
<1>2. PICK request : request = entry.record.request
  OBVIOUS
<1>3. request \in CohortRequests
  BY <1>1, <1>2 DEF SelectionInv, OnRecord
<1>4. PICK profiles : profiles = ProfilesAt(entry.receipts)
  OBVIOUS
<1>5. /\ entry.receipts \subseteq Entries("PROFILE")
      /\ CohortPossible(request, profiles) /\ entry.record = Cohort(request, profiles)
  BY <1>1, <1>2, <1>4 DEF SelectionInv, CognitionInv, CognitionReplays, CohortReplays, BoundBefore
<1>6. IsFiniteSet(entry.receipts)
  <2>1. PICK S : cognitionLog \in Seq(S)
    BY DEF SelectionInv, CognitionInv, LogIsSequence
  <2>2. Len(cognitionLog) \in Nat /\ DOMAIN cognitionLog = 1 .. Len(cognitionLog)
    BY <2>1
  <2>3. entry.receipts \subseteq 1 .. Len(cognitionLog)
    BY <1>5, <2>2 DEF Entries
  <2>4. 1 \in Int /\ Len(cognitionLog) \in Int /\ entry.receipts \in SUBSET (1 .. Len(cognitionLog))
    BY <2>2, <2>3
  <2> QED
    BY <2>4, FS_Interval, FS_Subset
<1>7. IsFiniteSet(profiles)
  <2>1. PICK f : f = [j \in entry.receipts |-> cognitionLog[j].record]
    OBVIOUS
  <2>2. f \in Surjection(entry.receipts, profiles)
    BY <1>4, <2>1 DEF ProfilesAt, Surjection
  <2> QED
    BY <1>6, <2>2, FS_Surjection
<1>8. \A p \in profiles : p.actor \in Nat
  <2>1. profiles \subseteq ProfileRecords
    BY <1>4, <1>5 DEF SelectionInv, OnRecord, ProfilesAt
  <2> QED
    BY <2>1, CognitionAssumption DEF WellFormedProfile
<1>9. Reasoned(Cohort(request, profiles))
  BY <1>3, <1>5, <1>7, <1>8, CohortHasReasons
<1> QED
  BY <1>1, <1>5, <1>9

(* Every cohort recorded can be justified: no two members may not meet, and *)
(* a candidate is left out only for enough better members or for one of     *)
(* them it may not meet, whatever profiles, requests and policies there are *)
(* (domain/cognition/grounding.py:127-206).                                 *)
THEOREM CohortsHaveReasons == CognitionSpec => []SelectionsHaveReasons
<1>1. CognitionInit => SelectionInv
  BY DEF CognitionInit, SelectionInv, CognitionInv, OnRecord, LogIsSequence, CognitionReplays, Entries
<1>2. SelectionInv /\ [CognitionNext]_cognitionVars => SelectionInv'
  BY CognitionStep, RecordStep DEF SelectionInv
<1> QED
  BY <1>1, <1>2, OnRecordHasReasons, PTL DEF CognitionSpec

-----------------------------------------------------------------------------
(* Evaluation campaigns.                                                    *)

(* decide_campaign reaches ADMITTED without a catastrophe and with every    *)
(* confound resolved.                                                       *)
LEMMA AdmittedStatus ==
  ASSUME NEW campaign, NEW rollback \in BOOLEAN, NEW admission \in BOOLEAN,
         NEW claimed \in BOOLEAN,
         DecidedStatus(campaign, rollback, admission, claimed) = "ADMITTED"
  PROVE  /\ ~Catastrophic(campaign.id)
         /\ \A f \in ConfoundsOf(campaign.id) : f.resolved
<1>1. CASE rollback  BY <1>1 DEF DecidedStatus
<1>2. CASE ~rollback /\ (\/ Catastrophic(campaign.id) \/ Regressed(campaign.id, "REGRESSION")
                         \/ Regressed(campaign.id, "SAFETY"))
  BY <1>2 DEF DecidedStatus
<1>3. CASE ~rollback /\ ~(\/ Catastrophic(campaign.id) \/ Regressed(campaign.id, "REGRESSION")
                          \/ Regressed(campaign.id, "SAFETY"))
  BY <1>3 DEF DecidedStatus
<1> QED  BY <1>1, <1>2, <1>3

(* The authoritative metrics need a protected result for each iteration.    *)
LEMMA CompleteResults ==
  ASSUME NEW campaign, ResultsComplete(campaign), NEW i \in IterationsOf(campaign.id)
  PROVE  \E r \in protectedResults : r.observation = i.id
<1>1. PICK x : x \in i.result  BY DEF ResultsComplete
<1>2. x \in UNION {j.result : j \in IterationsOf(campaign.id)}  BY <1>1
<1>3. x \in IdsOf(ResultsOf(campaign.id))  BY <1>2 DEF ResultsComplete
<1>4. PICK r \in ResultsOf(campaign.id) : r.id = x  BY <1>3 DEF IdsOf
<1>5. r.observation = i.id  BY <1>1, <1>4 DEF ResultsComplete
<1> QED  BY <1>4, <1>5 DEF ResultsOf

(* What the decision handler demands before it stores ADMITTED.             *)
LEMMA DecisionOnCompleteEvidence ==
  ASSUME NEW campaign, NEW authority, NEW rollback \in BOOLEAN, NEW admission \in BOOLEAN,
         NEW claimed \in BOOLEAN,
         DecideHarnessCampaign(campaign, authority, rollback, admission, claimed),
         NEW d \in campaignDecisions' \ campaignDecisions, d.status = "ADMITTED"
  PROVE  /\ \A i \in IterationsOf(d.campaign) :
              /\ \E r \in protectedResults : r.observation = i.id
              /\ i.variant = "CANDIDATE" => i.passed
         /\ \A f \in ConfoundsOf(d.campaign) : f.resolved
         /\ \E s \in campaignSupport :
              s.campaign = d.campaign /\ s.results = IdsOf(ResultsOf(d.campaign))
<1> DEFINE status == DecidedStatus(campaign, rollback, admission, claimed)
           decision == [campaign |-> campaign.id, status |-> status,
                        results |-> IdsOf(ResultsOf(campaign.id)),
                        confounds |-> IdsOf(ConfoundsOf(campaign.id))]
<1>1. d = decision  BY DEF DecideHarnessCampaign
<1>2. d.campaign = campaign.id /\ status = "ADMITTED"
  <2> HIDE DEF status
  <2> QED  BY <1>1
<1>3. AuthoritativeMetrics(campaign) /\ AdmissionSupported(campaign)
  BY <1>2 DEF DecideHarnessCampaign
<1>4. ~Catastrophic(campaign.id) /\ \A f \in ConfoundsOf(campaign.id) : f.resolved
  BY <1>2, AdmittedStatus
<1>5. \A i \in IterationsOf(campaign.id) : \E r \in protectedResults : r.observation = i.id
  BY <1>3, CompleteResults DEF AuthoritativeMetrics
<1>6. \A i \in IterationsOf(campaign.id) : i.variant = "CANDIDATE" => i.passed
  BY <1>4 DEF Catastrophic
<1>7. \E s \in campaignSupport : s.campaign = campaign.id /\ s.results = IdsOf(ResultsOf(campaign.id))
  BY <1>3 DEF AdmissionSupported
<1> QED  BY <1>2, <1>4, <1>5, <1>6, <1>7

(* A harness campaign is only ever admitted when each iteration has its     *)
(* protected result, no candidate iteration failed and no confound is open  *)
(* (harness_eval/service.py:644-783).                                       *)
THEOREM AdmissionsRestOnEvidence == CampaignSpec => AdmissionOnCompleteEvidence
<1> DEFINE Evident(d) ==
      /\ \A i \in IterationsOf(d.campaign) :
           /\ \E r \in protectedResults : r.observation = i.id
           /\ i.variant = "CANDIDATE" => i.passed
      /\ \A f \in ConfoundsOf(d.campaign) : f.resolved
      /\ \E s \in campaignSupport :
           s.campaign = d.campaign /\ s.results = IdsOf(ResultsOf(d.campaign))
<1>1. ASSUME CampaignNext
      PROVE  \A d \in campaignDecisions' \ campaignDecisions : d.status = "ADMITTED" => Evident(d)
  <2>1. CASE UNCHANGED campaignDecisions  BY <2>1
  <2>2. CASE \E authority \in HarnessActors, campaign \in campaigns,
                rollback, admission, claimed \in BOOLEAN :
               DecideHarnessCampaign(campaign, authority, rollback, admission, claimed)
    BY <2>2, DecisionOnCompleteEvidence
  <2>3. UNCHANGED campaignDecisions \/
        \E authority \in HarnessActors, campaign \in campaigns,
           rollback, admission, claimed \in BOOLEAN :
          DecideHarnessCampaign(campaign, authority, rollback, admission, claimed)
    BY <1>1 DEF CampaignNext, HarnessPolicyMoves, CreateHarnessCampaign, RecordHarnessIteration,
         RecordHarnessProtectedResult, RecordHarnessConfound, SupportCampaign, decided
  <2> QED  BY <2>1, <2>2, <2>3
<1>2. CampaignNext => [\A d \in campaignDecisions' \ campaignDecisions :
                         d.status = "ADMITTED" => Evident(d)]_campaignVars
  BY <1>1
<1> QED  BY <1>2, PTL DEF CampaignSpec, AdmissionOnCompleteEvidence

-----------------------------------------------------------------------------
(* Evidence trails.                                                         *)

TrailLogIsSequence == \E S : trailLog \in Seq(S)

(* What an entry names stands before it, and is of the kind it says.        *)
StageRefers(i) ==
  LET e == trailLog[i]
  IN /\ e.key \in Nat
     /\ e.kind = "NODES" => \A j \in e.sources : j \in Places("EVIDENCE") /\ j < i
     /\ e.kind = "RELATIONS" => e.stage \in Places("NODES") /\ e.stage < i
     /\ e.kind = "VERSION" => /\ e.relations \in Places("RELATIONS") /\ e.relations < i
                              /\ e.claim \in Places("CLAIM") /\ e.claim < i
                              /\ e.number \in Nat
     /\ e.kind = "BINDING" => e.trail \in Places("VERSION") /\ e.trail < i

(* What admission demanded of an entry, the clocks apart, still holds.      *)
StageBinds(i) ==
  LET e == trailLog[i]
  IN /\ e.kind = "NODES" => NodesBind(e)
     /\ e.kind = "RELATIONS" => RelationsBind(e)
     /\ e.kind = "VERSION" => VersionAccepted(e, HeadsBefore(i))
     /\ e.kind = "BINDING" => BindingAccepted(e)

StagesRefer == \A i \in DOMAIN trailLog : StageRefers(i)
StagesBind == \A i \in DOMAIN trailLog : StageBinds(i)

(* The head is the last version of the log, when there is one.              *)
HeadsFollow ==
  /\ \A n : n = Len(trailLog) + 1 => trailHeads = HeadsBefore(n)
  /\ \A i \in Places("VERSION") : \E h \in trailHeads : i <= h

TrailInv == TrailLogIsSequence /\ StagesRefer /\ StagesBind /\ HeadsFollow /\ SourcesComeFirst

(* What one more accepted entry does to the log of trails.                  *)
LEMMA TrailGrows ==
  ASSUME TrailLogIsSequence, NEW entry, trailLog' = Append(trailLog, entry)
  PROVE  /\ TrailLogIsSequence'
         /\ Len(trailLog) \in Nat /\ DOMAIN trailLog = 1 .. Len(trailLog)
         /\ Len(trailLog') = Len(trailLog) + 1
         /\ DOMAIN trailLog' = DOMAIN trailLog \cup {Len(trailLog) + 1}
         /\ \A i \in DOMAIN trailLog : trailLog'[i] = trailLog[i]
         /\ trailLog'[Len(trailLog) + 1] = entry
<1>1. PICK S : trailLog \in Seq(S)
  BY DEF TrailLogIsSequence
<1>2. trailLog \in Seq(S \cup {entry}) /\ entry \in S \cup {entry}
  BY <1>1
<1>3. trailLog' \in Seq(S \cup {entry})
  BY <1>2
<1>4. TrailLogIsSequence'
  BY <1>3 DEF TrailLogIsSequence
<1> QED
  BY <1>1, <1>2, <1>3, <1>4

(* The entries that stand keep their places.                                *)
LEMMA PlacesGrow ==
  ASSUME TrailLogIsSequence, NEW entry, trailLog' = Append(trailLog, entry), NEW kind
  PROVE  /\ \A i : i \in Places(kind) => i \in Places(kind)' /\ i \in DOMAIN trailLog
         /\ \A i \in DOMAIN trailLog : i \in Places(kind)' => i \in Places(kind)
         /\ \A i \in Places(kind)' : i \in Places(kind) \/ i = Len(trailLog) + 1
         /\ entry.kind # kind => Places(kind)' = Places(kind)
BY TrailGrows DEF Places

(* A node stage that binds its sources goes on binding them.                *)
LEMMA NodesBindStays ==
  ASSUME NEW stage, stage.sources \subseteq DOMAIN trailLog,
         \A i \in DOMAIN trailLog : trailLog'[i] = trailLog[i]
  PROVE  /\ NodesBind(stage)' <=> NodesBind(stage)
         /\ Ingestors(stage.sources)' = Ingestors(stage.sources)
<1>1. \A i \in stage.sources : EvidenceAt(i)' = EvidenceAt(i)
  BY DEF EvidenceAt
<1>2. Ingestors(stage.sources)' = Ingestors(stage.sources)
  BY <1>1 DEF Ingestors
<1>3. Primary(stage.sources)' <=> Primary(stage.sources)
  BY <1>1 DEF Primary
<1>4. {trailLog'[i].evidence : i \in stage.sources} = {trailLog[i].evidence : i \in stage.sources}
  OBVIOUS
<1>5. (\A i \in stage.sources : trailLog'[i].policy = stage.policy)
        <=> (\A i \in stage.sources : trailLog[i].policy = stage.policy)
  OBVIOUS
<1> QED
  BY <1>2, <1>3, <1>4, <1>5 DEF NodesBind, TrailApproved, EvidenceOf

(* So does a relation stage.                                                *)
LEMMA RelationsBindStays ==
  ASSUME NEW stage, stage.stage \in DOMAIN trailLog,
         trailLog[stage.stage].sources \subseteq DOMAIN trailLog,
         \A i \in DOMAIN trailLog : trailLog'[i] = trailLog[i]
  PROVE  RelationsBind(stage)' <=> RelationsBind(stage)
<1>1. PICK nodes : nodes = trailLog[stage.stage] /\ nodes = trailLog'[stage.stage]
  OBVIOUS
<1>2. Ingestors(nodes.sources)' = Ingestors(nodes.sources)
  BY <1>1, NodesBindStays
<1> QED
  BY <1>1, <1>2 DEF RelationsBind, TrailApproved

(* All that a version is judged by stands before it.                        *)
VersionRefers(version) ==
  /\ version.relations \in DOMAIN trailLog /\ version.claim \in DOMAIN trailLog
  /\ trailLog[version.relations].stage \in DOMAIN trailLog
  /\ trailLog[trailLog[version.relations].stage].sources \subseteq DOMAIN trailLog

(* Who took part in a version is read from entries before it.               *)
LEMMA AuthorsStay ==
  ASSUME NEW version, VersionRefers(version),
         \A i \in DOMAIN trailLog : trailLog'[i] = trailLog[i]
  PROVE  VersionAuthors(version)' = VersionAuthors(version)
<1>1. PICK nodes : /\ nodes = trailLog[trailLog[version.relations].stage]
                   /\ nodes = trailLog'[trailLog'[version.relations].stage]
  BY DEF VersionRefers
<1>2. Ingestors(nodes.sources)' = Ingestors(nodes.sources)
  BY <1>1, NodesBindStays DEF VersionRefers
<1> QED
  BY <1>1, <1>2 DEF VersionAuthors, VersionRefers

(* Whether a version is accepted under given heads depends on entries       *)
(* before it only.                                                          *)
LEMMA VersionStays ==
  ASSUME NEW version, VersionRefers(version), NEW heads,
         \A h \in heads : h \in DOMAIN trailLog /\ trailLog[h].claim \in DOMAIN trailLog,
         \A i \in DOMAIN trailLog : trailLog'[i] = trailLog[i]
  PROVE  VersionAccepted(version, heads)' <=> VersionAccepted(version, heads)
<1>1. PICK relations, nodes, claim :
        /\ relations = trailLog[version.relations] /\ relations = trailLog'[version.relations]
        /\ nodes = trailLog[relations.stage] /\ nodes = trailLog'[relations.stage]
        /\ claim = trailLog[version.claim] /\ claim = trailLog'[version.claim]
  BY DEF VersionRefers
<1>2. /\ nodes.sources \subseteq DOMAIN trailLog /\ relations.stage \in DOMAIN trailLog
      /\ version.relations \in DOMAIN trailLog /\ version.claim \in DOMAIN trailLog
  BY <1>1 DEF VersionRefers
<1>3. Chronological(version)' <=> Chronological(version)
  BY <1>1, <1>2 DEF Chronological, Earlier
<1>4. (\A i \in nodes.sources \cup {relations.stage, version.relations, version.claim} :
          trailLog'[i].policy = version.policy)
        <=> (\A i \in nodes.sources \cup {relations.stage, version.relations, version.claim} :
               trailLog[i].policy = version.policy)
  BY <1>2
<1>5. \A h \in heads : /\ trailLog'[h] = trailLog[h]
                       /\ trailLog'[trailLog'[h].claim] = trailLog[trailLog[h].claim]
  OBVIOUS
<1>6. ReceiptsBind(version, heads)' <=> ReceiptsBind(version, heads)
  BY <1>1, <1>3, <1>4, <1>5 DEF ReceiptsBind
<1>7. LineageBinds(version, heads)' <=> LineageBinds(version, heads)
  BY <1>5 DEF LineageBinds
<1>8. VersionAuthors(version)' = VersionAuthors(version)
  BY AuthorsStay
<1> QED
  BY <1>1, <1>6, <1>7, <1>8 DEF VersionAccepted, TrailApproved

(* So does whether a report binding is.                                     *)
LEMMA TrailBindingStays ==
  ASSUME NEW binding, binding.trail \in DOMAIN trailLog,
         NEW version, version = trailLog[binding.trail], VersionRefers(version),
         \A i \in DOMAIN trailLog : trailLog'[i] = trailLog[i]
  PROVE  BindingAccepted(binding)' <=> BindingAccepted(binding)
<1>1. version = trailLog'[binding.trail]
  OBVIOUS
<1>2. VersionAuthors(version)' = VersionAuthors(version)
  BY AuthorsStay
<1> QED
  BY <1>1, <1>2 DEF BindingAccepted, TrailApproved

(* The head verification derives for a place in the chain does not depend   *)
(* on later entries.                                                        *)
LEMMA EarlierHeadsStay ==
  ASSUME TrailLogIsSequence, NEW entry, trailLog' = Append(trailLog, entry),
         NEW i \in Nat, i <= Len(trailLog) + 1
  PROVE  HeadsBefore(i)' = HeadsBefore(i)
<1>1. \A j : (j \in Places("VERSION")' /\ j < i) <=> (j \in Places("VERSION") /\ j < i)
  BY PlacesGrow, TrailGrows DEF Places
<1> QED
  BY <1>1 DEF HeadsBefore

(* Entries refer to entries of the log, never to what is not there yet.     *)
LEMMA RefersToOld ==
  ASSUME TrailLogIsSequence, StagesRefer, NEW i \in DOMAIN trailLog,
         NEW e, e = trailLog[i]
  PROVE  /\ e.kind = "NODES" => e.sources \subseteq DOMAIN trailLog
         /\ e.kind = "RELATIONS" => /\ e.stage \in DOMAIN trailLog
                                    /\ trailLog[e.stage].sources \subseteq DOMAIN trailLog
         /\ e.kind = "VERSION" => VersionRefers(e)
         /\ e.kind = "BINDING" => e.trail \in Places("VERSION") /\ VersionRefers(trailLog[e.trail])
<1>1. \A k \in Places("NODES") : trailLog[k].sources \subseteq DOMAIN trailLog
  BY DEF StagesRefer, StageRefers, Places
<1>2. \A k \in Places("RELATIONS") : /\ trailLog[k].stage \in Places("NODES")
                                     /\ trailLog[k].stage \in DOMAIN trailLog
  BY DEF StagesRefer, StageRefers, Places
<1>3. \A k \in Places("VERSION") : VersionRefers(trailLog[k])
  <2> SUFFICES ASSUME NEW k \in Places("VERSION") PROVE VersionRefers(trailLog[k])
    OBVIOUS
  <2>1. trailLog[k].relations \in Places("RELATIONS") /\ trailLog[k].claim \in Places("CLAIM")
    BY DEF StagesRefer, StageRefers, Places
  <2> QED
    BY <2>1, <1>1, <1>2 DEF VersionRefers, Places
<1> QED
  BY <1>1, <1>2, <1>3 DEF StagesRefer, StageRefers, Places

(* What was accepted stays well referred and bound.                         *)
LEMMA OldStagesStay ==
  ASSUME TrailLogIsSequence, StagesRefer, StagesBind,
         NEW entry, trailLog' = Append(trailLog, entry), NEW i \in DOMAIN trailLog
  PROVE  StageRefers(i)' /\ StageBinds(i)'
<1> USE TrailGrows
<1>1. PICK e : e = trailLog[i] /\ e = trailLog'[i]
  OBVIOUS
<1>2. StageRefers(i) /\ StageBinds(i)
  BY DEF StagesRefer, StagesBind
<1>3. StageRefers(i)'
  <2>1. /\ \A j : j \in Places("EVIDENCE") => j \in Places("EVIDENCE")'
        /\ \A j : j \in Places("NODES") => j \in Places("NODES")'
        /\ \A j : j \in Places("RELATIONS") => j \in Places("RELATIONS")'
        /\ \A j : j \in Places("CLAIM") => j \in Places("CLAIM")'
        /\ \A j : j \in Places("VERSION") => j \in Places("VERSION")'
    BY PlacesGrow
  <2> QED
    BY <1>1, <1>2, <2>1 DEF StageRefers
<1>4. /\ e.kind = "NODES" => e.sources \subseteq DOMAIN trailLog
      /\ e.kind = "RELATIONS" => /\ e.stage \in DOMAIN trailLog
                                 /\ trailLog[e.stage].sources \subseteq DOMAIN trailLog
      /\ e.kind = "VERSION" => VersionRefers(e)
      /\ e.kind = "BINDING" => e.trail \in Places("VERSION") /\ VersionRefers(trailLog[e.trail])
  BY <1>1, RefersToOld
<1>5. e.kind = "NODES" => NodesBind(e)'
  BY <1>1, <1>2, <1>4, NodesBindStays DEF StageBinds
<1>6. e.kind = "RELATIONS" => RelationsBind(e)'
  BY <1>1, <1>2, <1>4, RelationsBindStays DEF StageBinds
<1>7. PICK heads : heads = HeadsBefore(i) /\ heads = HeadsBefore(i)'
  BY EarlierHeadsStay
<1>8. e.kind = "VERSION" => VersionAccepted(e, heads)'
  <2> SUFFICES ASSUME e.kind = "VERSION" PROVE VersionAccepted(e, heads)'
    OBVIOUS
  <2>1. \A h \in heads : h \in DOMAIN trailLog /\ trailLog[h].claim \in DOMAIN trailLog
    BY <1>7 DEF HeadsBefore, Places, StagesRefer, StageRefers
  <2>2. VersionAccepted(e, heads)
    BY <1>1, <1>2, <1>7 DEF StageBinds
  <2> QED
    BY <1>4, <2>1, <2>2, VersionStays
<1>9. e.kind = "BINDING" => BindingAccepted(e)'
  <2> SUFFICES ASSUME e.kind = "BINDING" PROVE BindingAccepted(e)'
    OBVIOUS
  <2>1. PICK version : version = trailLog[e.trail]
    BY SMTT(30)
  <2> QED
    BY <1>1, <1>2, <1>4, <2>1, TrailBindingStays DEF StageBinds, Places
<1> QED
  BY <1>1, <1>3, <1>5, <1>6, <1>7, <1>8, <1>9 DEF StageBinds

(* The claim of a version follows its sources, and the versions before it.  *)
ConclusionFollows(i) ==
  LET version == trailLog[i]
      relations == trailLog[version.relations]
  IN /\ \A j \in trailLog[relations.stage].sources \cup {relations.stage, version.relations} :
          Earlier(j, version.claim)
     /\ trailLog[version.claim].number = version.number
     /\ \A k \in Places("VERSION") : k < i => trailLog[k].number < version.number

(* A version that followed its sources still does.                          *)
LEMMA SourcesStayFirst ==
  ASSUME TrailInv, NEW entry, trailLog' = Append(trailLog, entry), NEW i \in Places("VERSION")
  PROVE  ConclusionFollows(i)'
<1> USE TrailGrows DEF TrailInv
<1>1. PICK version, relations, sources :
        /\ version = trailLog[i] /\ version = trailLog'[i] /\ i \in DOMAIN trailLog
        /\ relations = trailLog[version.relations] /\ relations = trailLog'[version.relations]
        /\ sources = trailLog[relations.stage].sources
        /\ sources = trailLog'[relations.stage].sources
        /\ VersionRefers(version)
  BY RefersToOld, SMTT(30) DEF Places, VersionRefers
<1>2. /\ sources \subseteq DOMAIN trailLog /\ relations.stage \in DOMAIN trailLog
      /\ version.relations \in DOMAIN trailLog /\ version.claim \in DOMAIN trailLog
  BY <1>1 DEF VersionRefers
<1>3. \A j \in sources \cup {relations.stage, version.relations} : Earlier(j, version.claim)
  BY <1>1 DEF SourcesComeFirst
<1>4. \A j \in sources \cup {relations.stage, version.relations} : Earlier(j, version.claim)'
  BY <1>2, <1>3 DEF Earlier
<1>5. trailLog'[version.claim].number = version.number
  BY <1>1, <1>2 DEF SourcesComeFirst
<1>6. \A k \in Places("VERSION")' : k < i => trailLog'[k].number < version.number
  <2>1. \A k \in Places("VERSION") : k < i => trailLog[k].number < version.number
    BY <1>1 DEF SourcesComeFirst
  <2>2. \A k \in Places("VERSION") : trailLog'[k] = trailLog[k]
    BY DEF Places
  <2>3. \A k \in Places("VERSION")' : k < i => k \in Places("VERSION")
    BY <1>1, PlacesGrow
  <2> QED
    BY <2>1, <2>2, <2>3
<1> QED
  BY <1>1, <1>4, <1>5, <1>6 DEF ConclusionFollows

(* Only the entry appended has to be looked at.                             *)
LEMMA StageAdmitted ==
  ASSUME TrailInv, NEW entry, trailLog' = Append(trailLog, entry),
         NEW n, n = Len(trailLog) + 1, StageRefers(n)', StageBinds(n)'
  PROVE  (TrailLogIsSequence /\ StagesRefer /\ StagesBind)'
BY TrailGrows, OldStagesStay DEF TrailInv, StagesRefer, StagesBind

(* Entries other than versions leave the heads and the order of sources.    *)
LEMMA StageOfNoVersion ==
  ASSUME TrailInv, NEW entry, trailLog' = Append(trailLog, entry), entry.kind # "VERSION",
         trailHeads' = trailHeads
  PROVE  HeadsFollow' /\ SourcesComeFirst'
<1> USE TrailGrows DEF TrailInv
<1>1. Places("VERSION")' = Places("VERSION")
  BY PlacesGrow
<1>2. \A j \in Places("VERSION") : j \in 1 .. Len(trailLog)
  BY DEF Places
<1>3. \A n, m : n = Len(trailLog) + 2 /\ m = Len(trailLog) + 1 => HeadsBefore(n)' = HeadsBefore(m)
  BY <1>1, <1>2 DEF HeadsBefore
<1>4. HeadsFollow'
  BY <1>1, <1>3 DEF HeadsFollow
<1>5. SourcesComeFirst'
  <2>1. \A i \in Places("VERSION")' : ConclusionFollows(i)'
    BY <1>1, SourcesStayFirst
  <2> QED
    BY <2>1 DEF SourcesComeFirst, ConclusionFollows
<1> QED
  BY <1>4, <1>5

(* What a version rests on, it comes after: in the log and by the clocks.   *)
LEMMA SourcesOfVersion ==
  ASSUME TrailLogIsSequence, StagesRefer, NEW version,
         version.relations \in Places("RELATIONS"), version.claim \in Places("CLAIM"),
         Chronological(version)
  PROVE  LET relations == trailLog[version.relations]
         IN \A j \in trailLog[relations.stage].sources \cup {relations.stage, version.relations} :
              Earlier(j, version.claim)
<1>1. PICK relations, sources : /\ relations = trailLog[version.relations]
                                /\ sources = trailLog[relations.stage].sources
  OBVIOUS
<1>2. relations.stage \in Places("NODES")
  BY <1>1 DEF StagesRefer, StageRefers, Places
<1>3. \A j \in sources : j \in Places("EVIDENCE")
  BY <1>1, <1>2 DEF StagesRefer, StageRefers, Places
<1>4. \A j \in DOMAIN trailLog : j \in Int /\ trailLog[j].key \in Int
  BY DEF TrailLogIsSequence, StagesRefer, StageRefers
<1>5. /\ \A j \in sources : Earlier(j, relations.stage)
      /\ Earlier(relations.stage, version.relations) /\ Earlier(version.relations, version.claim)
  BY <1>1 DEF Chronological
<1>6. /\ sources \subseteq DOMAIN trailLog /\ relations.stage \in DOMAIN trailLog
      /\ version.relations \in DOMAIN trailLog /\ version.claim \in DOMAIN trailLog
  BY <1>2, <1>3 DEF Places
<1> QED
  BY <1>1, <1>4, <1>5, <1>6 DEF Earlier

(* A version that replaces the head and is accepted under it keeps the      *)
(* invariant.                                                               *)
LEMMA VersionRecorded ==
  ASSUME TrailInv, NEW version, trailLog' = Append(trailLog, version), version.kind = "VERSION",
         version.relations \in Places("RELATIONS"), version.claim \in Places("CLAIM"),
         version.number \in Nat, version.key \in Nat,
         VersionAccepted(version, trailHeads),
         trailHeads' = {Len(trailLog) + 1}
  PROVE  TrailInv'
<1> USE TrailGrows DEF TrailInv
<1>1. PICK n : n = Len(trailLog) + 1
  OBVIOUS
<1>2. /\ n \in Nat /\ n \in DOMAIN trailLog' /\ trailLog'[n] = version
      /\ \A i \in DOMAIN trailLog : i < n /\ i \in Nat
  BY <1>1
<1>3. StageRefers(n)'
  BY <1>1, <1>2, PlacesGrow DEF StageRefers, Places
<1>4. PICK heads : heads = trailHeads /\ heads = HeadsBefore(n)
  BY <1>1 DEF HeadsFollow
<1>5. HeadsBefore(n)' = heads
  BY <1>1, <1>4, EarlierHeadsStay
<1>6. VersionRefers(version)
  BY DEF VersionRefers, StagesRefer, StageRefers, Places
<1>7. heads \subseteq Places("VERSION")
  BY <1>4 DEF HeadsBefore
<1>8. VersionAccepted(version, heads)'
  <2>1. \A h \in heads : h \in DOMAIN trailLog /\ trailLog[h].claim \in DOMAIN trailLog
    BY <1>7 DEF Places, StagesRefer, StageRefers
  <2> QED
    BY <1>4, <1>6, <2>1, VersionStays
<1>9. StageBinds(n)'
  BY <1>2, <1>5, <1>8 DEF StageBinds
<1>10. (TrailLogIsSequence /\ StagesRefer /\ StagesBind)'
  BY <1>1, <1>3, <1>9, StageAdmitted
<1>11. /\ \A i : i \in Places("VERSION")' <=> (i \in Places("VERSION") \/ i = n)
       /\ \A i \in Places("VERSION") : i \in DOMAIN trailLog
  BY <1>1, <1>2, PlacesGrow DEF Places
<1>12. HeadsFollow'
  <2>1. \A m : m = n + 1 => HeadsBefore(m)' = {n}
    BY <1>2, <1>11 DEF HeadsBefore
  <2> QED
    BY <1>1, <1>2, <1>11, <2>1 DEF HeadsFollow
<1>13. ReceiptsBind(version, heads) /\ LineageBinds(version, heads)
  BY <1>4 DEF VersionAccepted
<1>14. trailLog[version.claim].number = version.number
  <2>1. CASE heads = {}
    BY <2>1, <1>13 DEF ReceiptsBind, LineageBinds
  <2>2. CASE heads # {}
    <3>1. PICK h \in heads : TRUE
      BY <2>2
    <3>2. trailLog[trailLog[h].claim].number = trailLog[h].number
      BY <1>7 DEF SourcesComeFirst
    <3> QED
      BY <2>2, <3>1, <3>2, <1>13 DEF ReceiptsBind, LineageBinds
  <2> QED
    BY <2>1, <2>2
<1>15. \A k \in Places("VERSION") : trailLog[k].number < version.number
  <2> SUFFICES ASSUME NEW k \in Places("VERSION") PROVE trailLog[k].number < version.number
    OBVIOUS
  <2>1. PICK h \in heads : k <= h
    BY <1>4 DEF HeadsFollow
  <2>2. h \in Places("VERSION") /\ version.number = trailLog[h].number + 1
    BY <1>7, <1>13 DEF LineageBinds
  <2>3. \A j \in Places("VERSION") : trailLog[j].number \in Nat /\ j \in Nat
    BY <1>2 DEF StagesRefer, StageRefers, Places
  <2>4. k < h => trailLog[k].number < trailLog[h].number
    BY <2>2 DEF SourcesComeFirst
  <2> QED
    BY <2>1, <2>2, <2>3, <2>4
<1>16. SourcesComeFirst'
  <2>1. PICK relations, sources :
          /\ relations = trailLog[version.relations] /\ relations = trailLog'[version.relations]
          /\ sources = trailLog[relations.stage].sources
          /\ sources = trailLog'[relations.stage].sources
    BY <1>6 DEF VersionRefers
  <2>2. \A j \in sources \cup {relations.stage, version.relations} : Earlier(j, version.claim)
    <3>1. Chronological(version)
      BY <1>13 DEF ReceiptsBind
    <3> QED
      BY <2>1, <3>1, SourcesOfVersion
  <2>3. \A j \in sources \cup {relations.stage, version.relations} : Earlier(j, version.claim)'
    BY <2>1, <2>2, <1>6 DEF Earlier, VersionRefers
  <2>4. trailLog'[version.claim].number = version.number
    BY <1>6, <1>14 DEF VersionRefers
  <2>5. \A k \in Places("VERSION") : trailLog'[k].number < version.number
    BY <1>11, <1>15
  <2>6. \A k \in Places("VERSION")' : k < n => trailLog'[k].number < version.number
    BY <2>5, <1>2, <1>11
  <2>7. ConclusionFollows(n)'
    BY <1>2, <2>1, <2>3, <2>4, <2>6 DEF ConclusionFollows
  <2>8. \A i \in Places("VERSION") : ConclusionFollows(i)'
    BY SourcesStayFirst
  <2>9. \A i \in Places("VERSION")' : ConclusionFollows(i)'
    BY <2>7, <2>8, <1>11
  <2> QED
    BY <2>9 DEF SourcesComeFirst, ConclusionFollows
<1> QED
  BY <1>10, <1>12, <1>16

(* Identifiers of entries are numbers.                                      *)
LEMMA KeysAreTimes == ASSUME TrailLogIsSequence PROVE \A key \in Keys : key \in Nat
BY DEF Keys, TrailLogIsSequence

(* An entry that is no version needs to refer and bind, and no more.        *)
LEMMA StageSuffices ==
  ASSUME TrailInv, NEW entry, trailLog' = Append(trailLog, entry), entry.kind # "VERSION",
         trailHeads' = trailHeads, NEW n, n = Len(trailLog) + 1, StageRefers(n)', StageBinds(n)'
  PROVE  TrailInv'
BY StageAdmitted, StageOfNoVersion DEF TrailInv

(* Evidence and claims refer to nothing.                                    *)
LEMMA PlainEntry ==
  ASSUME TrailInv, NEW entry, trailLog' = Append(trailLog, entry), trailHeads' = trailHeads,
         entry.kind \in {"EVIDENCE", "CLAIM"}, entry.key \in Nat
  PROVE  TrailInv'
<1>1. PICK n : n = Len(trailLog) + 1 /\ trailLog'[n] = entry
  BY TrailGrows DEF TrailInv
<1> QED
  BY <1>1, StageSuffices DEF StageRefers, StageBinds

(* A node stage keeps the invariant.                                        *)
LEMMA NodesProposed ==
  ASSUME TrailInv, NEW stage, trailLog' = Append(trailLog, stage), trailHeads' = trailHeads,
         stage.kind = "NODES", stage.key \in Nat, stage.sources \subseteq Places("EVIDENCE"),
         NodesBind(stage)
  PROVE  TrailInv'
<1> USE TrailGrows DEF TrailInv
<1>1. PICK n : n = Len(trailLog) + 1 /\ trailLog'[n] = stage
  OBVIOUS
<1>2. \A j \in stage.sources : j \in DOMAIN trailLog /\ j \in Places("EVIDENCE")' /\ j < n
  BY <1>1, PlacesGrow DEF Places
<1>3. NodesBind(stage)'
  BY <1>2, NodesBindStays
<1> QED
  BY <1>1, <1>2, <1>3, StageSuffices DEF StageRefers, StageBinds

(* A relation stage keeps the invariant.                                    *)
LEMMA RelationsProposed ==
  ASSUME TrailInv, NEW stage, trailLog' = Append(trailLog, stage), trailHeads' = trailHeads,
         stage.kind = "RELATIONS", stage.key \in Nat, stage.stage \in Places("NODES"),
         RelationsBind(stage)
  PROVE  TrailInv'
<1> USE TrailGrows DEF TrailInv
<1>1. PICK n : n = Len(trailLog) + 1 /\ trailLog'[n] = stage
  OBVIOUS
<1>2. stage.stage \in DOMAIN trailLog /\ stage.stage \in Places("NODES")' /\ stage.stage < n
  BY <1>1, PlacesGrow DEF Places
<1>3. trailLog[stage.stage].sources \subseteq DOMAIN trailLog
  BY <1>2, RefersToOld DEF Places
<1>4. RelationsBind(stage)'
  BY <1>2, <1>3, RelationsBindStays
<1> QED
  BY <1>1, <1>2, <1>4, StageSuffices DEF StageRefers, StageBinds

(* A report binding keeps the invariant.                                    *)
LEMMA SentenceBound ==
  ASSUME TrailInv, NEW binding, trailLog' = Append(trailLog, binding), trailHeads' = trailHeads,
         binding.kind = "BINDING", binding.key \in Nat, binding.trail \in Places("VERSION"),
         BindingAccepted(binding)
  PROVE  TrailInv'
<1> USE TrailGrows DEF TrailInv
<1>1. PICK n : n = Len(trailLog) + 1 /\ trailLog'[n] = binding
  OBVIOUS
<1>2. binding.trail \in DOMAIN trailLog /\ binding.trail \in Places("VERSION")' /\ binding.trail < n
  BY <1>1, PlacesGrow DEF Places
<1>3. PICK version : version = trailLog[binding.trail] /\ VersionRefers(version)
  BY <1>2, RefersToOld DEF Places
<1>4. BindingAccepted(binding)'
  BY <1>2, <1>3, TrailBindingStays
<1> QED
  BY <1>1, <1>2, <1>4, StageSuffices DEF StageRefers, StageBinds

(* An empty workspace has no trails.                                        *)
LEMMA TrailInvInit == TrailInit => TrailInv
<1> SUFFICES ASSUME TrailInit PROVE TrailInv
  OBVIOUS
<1>1. trailLog \in Seq({}) /\ DOMAIN trailLog = {}
  BY DEF TrailInit
<1> QED
  BY <1>1 DEF TrailInit, TrailInv, TrailLogIsSequence, StagesRefer, StagesBind, HeadsFollow,
     SourcesComeFirst, HeadsBefore, Places

(* Steps that neither append nor move the head keep the invariant.          *)
LEMMA TrailInvStays == ASSUME TrailInv, UNCHANGED <<trailLog, trailHeads>> PROVE TrailInv'
<1>1. TrailLogIsSequence'
  BY DEF TrailInv, TrailLogIsSequence
<1>2. /\ \A kind : Places(kind)' = Places(kind)
      /\ \A i : EvidenceAt(i)' = EvidenceAt(i)
  BY DEF Places, EvidenceAt
<1>3. \A s : /\ Ingestors(s)' = Ingestors(s) /\ Primary(s)' = Primary(s)
  BY <1>2 DEF Ingestors, Primary
<1>4. \A i : HeadsBefore(i)' = HeadsBefore(i)
  BY <1>2 DEF HeadsBefore
<1>5. \A v : VersionAuthors(v)' = VersionAuthors(v)
  BY <1>3 DEF VersionAuthors
<1>6. \A e : /\ NodesBind(e) => NodesBind(e)'
             /\ RelationsBind(e) => RelationsBind(e)'
             /\ BindingAccepted(e) => BindingAccepted(e)'
  BY <1>3, <1>5 DEF NodesBind, RelationsBind, BindingAccepted, TrailApproved, EvidenceOf
<1>7. \A e, heads : VersionAccepted(e, heads) => VersionAccepted(e, heads)'
  BY <1>3, <1>5
     DEF VersionAccepted, ReceiptsBind, LineageBinds, Chronological, Earlier, TrailApproved
<1>8. \A i : StageRefers(i) => StageRefers(i)'
  BY <1>2 DEF StageRefers
<1>9. \A i : StageBinds(i) => StageBinds(i)'
  BY <1>4, <1>6, <1>7 DEF StageBinds
<1>10. HeadsFollow' /\ SourcesComeFirst'
  BY <1>2, <1>4 DEF TrailInv, HeadsFollow, SourcesComeFirst, Earlier
<1> QED
  BY <1>1, <1>8, <1>9, <1>10 DEF TrailInv, StagesRefer, StagesBind

(* One step per operation on trails.                                        *)
LEMMA TrailStep == TrailInv /\ [TrailNext]_trailVars => TrailInv'
<1> SUFFICES ASSUME TrailInv, [TrailNext]_trailVars PROVE TrailInv'
  OBVIOUS
<1>1. CASE UNCHANGED trailVars
  BY <1>1, TrailInvStays DEF trailVars
<1>2. ASSUME NEW policy \in TrailPolicies, TrailPolicyMoves(policy) PROVE TrailInv'
  BY <1>2, TrailInvStays DEF TrailPolicyMoves
<1>3. ASSUME NEW e \in TrailEvidence, NEW key \in Keys, AddTrailEvidence(e, key) PROVE TrailInv'
  <2>1. PICK entry : /\ trailLog' = Append(trailLog, entry) /\ trailHeads' = trailHeads
                     /\ entry.kind = "EVIDENCE" /\ entry.key = key
    BY <1>3 DEF AddTrailEvidence, Admit
  <2> QED
    BY <2>1, KeysAreTimes, PlainEntry DEF TrailInv
<1>4. ASSUME NEW proposer \in TrailBuilders, NEW key \in Keys, FormulateClaim(proposer, key)
      PROVE  TrailInv'
  <2>1. PICK entry : /\ trailLog' = Append(trailLog, entry) /\ trailHeads' = trailHeads
                     /\ entry.kind = "CLAIM" /\ entry.key = key
    BY <1>4 DEF FormulateClaim, Admit
  <2> QED
    BY <2>1, KeysAreTimes, PlainEntry DEF TrailInv
<1>5. ASSUME NEW version \in TrailVersionIds, NEW graph \in GraphPool, NEW key \in Keys,
             NEW proposer \in TrailBuilders, NEW approver \in TrailHumans,
             ProposeEvidenceTrailNodes(version, graph, proposer, approver, key)
      PROVE  TrailInv'
  <2>1. PICK stage : /\ trailLog' = Append(trailLog, stage) /\ trailHeads' = trailHeads
                     /\ stage.kind = "NODES" /\ stage.key = key
                     /\ stage.sources \subseteq Places("EVIDENCE") /\ NodesBind(stage)
    BY <1>5 DEF ProposeEvidenceTrailNodes, Admit
  <2> QED
    BY <2>1, KeysAreTimes, NodesProposed DEF TrailInv
<1>6. ASSUME NEW place \in Places("NODES"), NEW graph \in GraphPool, NEW key \in Keys,
             NEW proposer \in TrailBuilders, NEW approver \in TrailHumans,
             ProposeEvidenceTrailRelations(place, graph, proposer, approver, key)
      PROVE  TrailInv'
  <2>1. PICK stage : /\ trailLog' = Append(trailLog, stage) /\ trailHeads' = trailHeads
                     /\ stage.kind = "RELATIONS" /\ stage.key = key
                     /\ stage.stage = place /\ RelationsBind(stage)
    BY <1>6 DEF ProposeEvidenceTrailRelations, Admit
  <2> QED
    BY <2>1, KeysAreTimes, RelationsProposed DEF TrailInv
<1>7. ASSUME NEW relations \in Places("RELATIONS"), NEW claim \in Places("CLAIM"),
             NEW assessment \in AssessmentPool, NEW outcome \in TrailOutcomes,
             NEW number \in 1 .. MaxClaimVersions, NEW key \in Keys,
             NEW proposer \in TrailBuilders, NEW approver \in TrailHumans,
             RecordEvidenceTrailVersion(relations, claim, number, assessment, outcome,
                                        proposer, approver, key)
      PROVE  TrailInv'
  <2>1. PICK version : /\ trailLog' = Append(trailLog, version)
                       /\ trailHeads' = {Len(trailLog) + 1}
                       /\ version.kind = "VERSION" /\ version.key = key
                       /\ version.relations = relations /\ version.claim = claim
                       /\ version.number = number /\ VersionAccepted(version, trailHeads)
    BY <1>7 DEF RecordEvidenceTrailVersion, Admit
  <2>2. key \in Nat /\ number \in Nat
    BY KeysAreTimes, TrailAssumption DEF TrailInv
  <2> QED
    BY <2>1, <2>2, VersionRecorded
<1>8. ASSUME NEW place \in Places("VERSION"), NEW modality \in ReportModalities,
             NEW proposer \in TrailBuilders, NEW approver \in TrailHumans,
             BindReportSentence(place, modality, proposer, approver)
      PROVE  TrailInv'
  <2>1. PICK binding : /\ trailLog' = Append(trailLog, binding) /\ trailHeads' = trailHeads
                       /\ binding.kind = "BINDING" /\ binding.key = 2 * Len(trailLog) + 2
                       /\ binding.trail = place /\ BindingAccepted(binding)
    BY <1>8 DEF BindReportSentence, Admit
  <2>2. binding.key \in Nat
    BY <2>1, TrailGrows DEF TrailInv
  <2> QED
    BY <2>1, <2>2, SentenceBound
<1> QED
  BY <1>1, <1>2, <1>3, <1>4, <1>5, <1>6, <1>7, <1>8 DEF TrailNext

(* The invariant contains what verification replays.                        *)
LEMMA TrailReplays == TrailInv => TrailsReplayInOrder
<1> SUFFICES ASSUME TrailInv, \A i, j \in DOMAIN trailLog : i < j => Earlier(i, j)
             PROVE  AcceptedStagesReplay /\ HeadsBefore(Len(trailLog) + 1) = trailHeads
  BY DEF TrailsReplayInOrder, OrderedStagesReplay, TrailInv
<1> USE DEF TrailInv
<1>1. HeadsBefore(Len(trailLog) + 1) = trailHeads
  BY DEF HeadsFollow
<1>2. ASSUME NEW i \in DOMAIN trailLog PROVE Replays(i)
  <2>1. StageRefers(i) /\ StageBinds(i)
    BY DEF StagesRefer, StagesBind
  <2>2. trailLog[i].kind = "NODES" => NodeStageReplays(i)
    BY <2>1 DEF StageRefers, StageBinds, NodeStageReplays, NodesBind, Places
  <2>3. trailLog[i].kind = "RELATIONS" => RelationStageReplays(i)
    <3> SUFFICES ASSUME trailLog[i].kind = "RELATIONS" PROVE RelationStageReplays(i)
      OBVIOUS
    <3>1. PICK stage, p, nodes : stage = trailLog[i] /\ p = stage.stage /\ nodes = trailLog[p]
      OBVIOUS
    <3>2. p \in Places("NODES") /\ p < i /\ p \in DOMAIN trailLog
      BY <2>1, <3>1 DEF StageRefers, Places
    <3>3. StageRefers(p) /\ NodesBind(nodes)
      BY <3>1, <3>2 DEF StagesRefer, StagesBind, StageBinds, Places
    <3>4. RelationsBind(stage) /\ nodes.policy = stage.policy
      BY <2>1, <3>1 DEF StageBinds, RelationsBind
    <3>5. \A j \in nodes.sources : trailLog[j].policy = stage.policy /\ j < p /\ j \in DOMAIN trailLog
      BY <3>1, <3>2, <3>3, <3>4 DEF StageRefers, NodesBind, Places
    <3>6. \A j \in DOMAIN trailLog : j \in Nat
      BY DEF TrailLogIsSequence
    <3>7. \A j \in nodes.sources : Earlier(j, i)
      BY <3>2, <3>5, <3>6
    <3>8. Earlier(p, i)
      BY <3>2
    <3> QED
      BY <3>1, <3>4, <3>5, <3>7, <3>8 DEF RelationStageReplays
  <2>4. trailLog[i].kind = "VERSION" => VersionReplays(i)
    BY <2>1 DEF StageRefers, StageBinds, VersionReplays, Places
  <2>5. trailLog[i].kind = "BINDING" => BindingAccepted(trailLog[i])
    BY <2>1 DEF StageBinds
  <2> QED
    BY <2>2, <2>3, <2>4, <2>5 DEF Replays
<1> QED
  BY <1>1, <1>2 DEF AcceptedStagesReplay

(* Where clocks agree with the chain, everything accepted of trails is      *)
(* accepted again by verification's replay, which finds the head admission  *)
(* went by; and whatever the clocks say, no conclusion comes before its     *)
(* sources (trails/service.py:1109-1280).                                   *)
THEOREM TrailsReplay == TrailSpec => []TrailsReplayInOrder
<1>1. TrailSpec => []TrailInv
  BY TrailInvInit, TrailStep, PTL DEF TrailSpec
<1> QED
  BY <1>1, TrailReplays, PTL

-----------------------------------------------------------------------------
(* The protected store.  The invariant has three parts, each resting on those*)
(* before it: what the store keeps while an addition is under way, how many *)
(* messages are on their way, and what a message says of its request.       *)

Additions ==
  [step : {"PUT", "INSERT", "CLEAN"}, task : Tasks, digest : Digests, created : BOOLEAN]
Channels == [usable : BOOLEAN, closed : BOOLEAN, number : Nat, awaited : Nat,
             task : Tasks \cup {NoTask}]
Codes == {"PROTECTED_OUTPUT_UNAVAILABLE", "PROTECTED_OUTPUT_INTEGRITY_FAILURE", "OUTPUT", "CLOSED"}
Requests == [id : Nat \ {0}, operation : {"READ", "CLOSE"}, task : Tasks \cup {NoTask}]
Responses == [id : Nat \ {0}, row : SUBSET Digests, code : Codes]

(* A queue of at most one message: no request is sent while one is awaited. *)
AtMostOne(Messages) == {<<>>} \cup {<<m>> : m \in Messages}

StoreTypeOK ==
  /\ outputRows \in [Tasks -> SUBSET Digests]
  /\ outputFiles \subseteq Digests
  /\ addition \in Additions \cup {NoAddition}

ChannelTypeOK ==
  /\ channel \in Channels
  /\ toWorker \in AtMostOne(Requests)
  /\ toClient \in AtMostOne(Responses)
  /\ worker \in [alive : BOOLEAN, request : AtMostOne(Requests), row : SUBSET Digests]
  /\ protectedAnswers \subseteq
       [task : Tasks \cup {NoTask}, row : SUBSET Digests, code : Codes]

(* What the store keeps: a committed digest is stored, one about to be      *)
(* committed is stored too, and its task has no output yet.                 *)
StoreInv ==
  /\ \A t \in Tasks : outputRows[t] \subseteq outputFiles
  /\ addition.step = "INSERT" => addition.digest \in outputFiles
  /\ addition.step \in {"PUT", "INSERT"} => outputRows[addition.task] = {}

(* At most one message is on its way, and none while a usable channel       *)
(* awaits nothing.                                                          *)
OneInFlight ==
  /\ toWorker # <<>> => worker.request = <<>> /\ toClient = <<>>
  /\ worker.request # <<>> => toClient = <<>>
  /\ channel.usable /\ channel.awaited = 0 =>
       toWorker = <<>> /\ worker.request = <<>> /\ toClient = <<>>
  /\ channel.closed => ~channel.usable

(* A request to read names a task, and the awaited one the task asked for.  *)
Concerns(request) ==
  /\ request.operation = "READ" => request.task \in Tasks
  /\ request.id = channel.awaited => request.task = channel.task

(* What a row read at some time still says of its task.                     *)
StillRead(row, task) == row # {} => task \in Tasks /\ row = outputRows[task]

MessagesInv ==
  /\ \A i \in DOMAIN toWorker : Concerns(toWorker[i])
  /\ \A i \in DOMAIN worker.request :
       /\ Concerns(worker.request[i])
       /\ StillRead(worker.row, worker.request[i].task)
  /\ \A i \in DOMAIN toClient :
       /\ toClient[i].id = channel.awaited => StillRead(toClient[i].row, channel.task)
       /\ toClient[i].code = "OUTPUT" => toClient[i].row # {}
       /\ toClient[i].code # "PROTECTED_OUTPUT_INTEGRITY_FAILURE"
  /\ \A a \in protectedAnswers :
       /\ StillRead(a.row, a.task)
       /\ a.code = "OUTPUT" => a.row # {}
       /\ a.code # "PROTECTED_OUTPUT_INTEGRITY_FAILURE"

ProtectedInv == StoreTypeOK /\ ChannelTypeOK /\ StoreInv /\ OneInFlight /\ MessagesInv

-----------------------------------------------------------------------------
(* Steps of the store.                                                      *)

(* A new store has no rows and a channel at rest.                           *)
LEMMA InitInv == ProtectedInit => ProtectedInv
<1> SUFFICES ASSUME ProtectedInit PROVE ProtectedInv
  OBVIOUS
<1> USE ProtectedAssumption DEF ProtectedInit, NoAddition, Serving
<1>1. StoreTypeOK
  BY DEF StoreTypeOK, Additions
<1>2. ChannelTypeOK
  BY DEF ChannelTypeOK, Channels, AtMostOne
<1>3. StoreInv
  BY DEF StoreInv
<1>4. OneInFlight
  BY DEF OneInFlight
<1>5. MessagesInv
  BY DEF MessagesInv
<1> QED  BY <1>1, <1>2, <1>3, <1>4, <1>5 DEF ProtectedInv

(* The row of a task is written once.                                       *)
RowsStay == \A t \in Tasks : outputRows[t] # {} => outputRows'[t] = outputRows[t]

(* What was read of a row stays true of it.                                 *)
LEMMA StoreLeavesChannel ==
  ASSUME ChannelTypeOK, OneInFlight, MessagesInv, RowsStay, UNCHANGED channelVars
  PROVE  ChannelTypeOK' /\ OneInFlight' /\ MessagesInv'
<1> USE DEF channelVars
<1>1. \A row, task : StillRead(row, task) => StillRead(row, task)'
  BY DEF StillRead, RowsStay
<1>2. ChannelTypeOK' /\ OneInFlight'
  BY DEF ChannelTypeOK, OneInFlight
<1>3. MessagesInv'
  BY <1>1 DEF MessagesInv, Concerns
<1> QED  BY <1>2, <1>3

(* The steps of an addition, its failure and the cleaning up.               *)
LEMMA StoreSteps ==
  ASSUME ProtectedInv,
         \/ \E task \in Tasks, digest \in Digests : LookUp(task, digest)
         \/ \E raised \in BOOLEAN : CommitRow(raised)
         \/ PutArtifact \/ AdditionFails \/ CleanUp \/ StoreStops
  PROVE  ProtectedInv'
<1> USE DEF ProtectedInv, StoreTypeOK, Additions, StoreInv, NoAddition
<1>1. ASSUME NEW task \in Tasks, NEW digest \in Digests, LookUp(task, digest)
      PROVE  StoreTypeOK' /\ StoreInv' /\ RowsStay /\ UNCHANGED channelVars
  BY <1>1 DEF LookUp, RowsStay
<1>2. ASSUME NEW raised \in BOOLEAN, CommitRow(raised)
      PROVE  StoreTypeOK' /\ StoreInv' /\ RowsStay /\ UNCHANGED channelVars
  BY <1>2 DEF CommitRow, RowsStay
<1>3. CASE PutArtifact
  <2>1. PICK created \in BOOLEAN :
          /\ addition' = [addition EXCEPT !.step = "INSERT", !.created = created]
          /\ addition.step = "PUT" /\ outputFiles' = outputFiles \cup {addition.digest}
          /\ UNCHANGED <<outputRows, channelVars>>
    BY <1>3, Zenon DEF PutArtifact
  <2>2. addition' \in Additions
    <3>1. addition \in Additions /\ "INSERT" \in {"PUT", "INSERT", "CLEAN"}
      BY <2>1
    <3> QED  BY <2>1, <3>1, Zenon DEF Additions
  <2>3. StoreTypeOK' /\ StoreInv' /\ RowsStay /\ UNCHANGED channelVars
    BY <2>1, <2>2 DEF RowsStay
  <2> QED  BY <2>3, StoreLeavesChannel
<1>4. CASE AdditionFails
  <2>1. StoreTypeOK' /\ StoreInv' /\ RowsStay /\ UNCHANGED channelVars
    BY <1>4 DEF AdditionFails, RowsStay
  <2> QED  BY <2>1, StoreLeavesChannel
<1>5. CASE CleanUp
  <2>1. StoreTypeOK' /\ StoreInv' /\ RowsStay /\ UNCHANGED channelVars
    BY <1>5 DEF CleanUp, LeftOver, RowsStay
  <2> QED  BY <2>1, StoreLeavesChannel
<1>6. CASE StoreStops
  <2>1. StoreTypeOK' /\ StoreInv' /\ RowsStay /\ UNCHANGED channelVars
    BY <1>6 DEF StoreStops, RowsStay
  <2> QED  BY <2>1, StoreLeavesChannel
<1> QED  BY <1>1, <1>2, <1>3, <1>4, <1>5, <1>6, StoreLeavesChannel

-----------------------------------------------------------------------------
(* Steps of the channel.                                                    *)

(* Traffic on the channel changes neither rows nor files.                   *)
LEMMA ChannelLeavesStore ==
  ASSUME StoreTypeOK, StoreInv, UNCHANGED storeVars
  PROVE  /\ StoreTypeOK' /\ StoreInv'
         /\ \A row, task : StillRead(row, task)' <=> StillRead(row, task)
BY DEF StoreTypeOK, StoreInv, storeVars, StillRead

(* A channel that was given up is a channel.                                *)
LEMMA UnusableTyped == ChannelTypeOK => Unusable \in Channels
<1> SUFFICES ASSUME ChannelTypeOK PROVE Unusable \in Channels
  OBVIOUS
<1>1. channel \in Channels /\ 0 \in Nat
  BY DEF ChannelTypeOK
<1> QED  BY <1>1, Zenon DEF Channels, Unusable

(* The only message of a queue that holds one.                              *)
LEMMA QueueOfOne ==
  ASSUME NEW Messages, NEW queue \in AtMostOne(Messages), queue # <<>>
  PROVE  /\ Head(queue) \in Messages /\ queue = <<Head(queue)>> /\ Tail(queue) = <<>>
         /\ DOMAIN queue = {1} /\ queue[1] = Head(queue)
<1>1. PICK m \in Messages : queue = <<m>>
  BY DEF AtMostOne
<1> QED  BY <1>1

(* A request takes the next number, which no answer under way carries.      *)
LEMMA SendStep ==
  ASSUME ProtectedInv, NEW operation \in {"READ", "CLOSE"}, NEW task \in Tasks \cup {NoTask},
         operation = "READ" => task \in Tasks,
         SendRequest(operation, task)
  PROVE  ProtectedInv'
<1> USE DEF ProtectedInv
<1> DEFINE request == [id |-> channel.number + 1, operation |-> operation, task |-> task]
<1>1. /\ channel.usable /\ channel.awaited = 0
      /\ UNCHANGED <<storeVars, toClient, worker, protectedAnswers>>
  BY DEF SendRequest, Idle
<1>2. toWorker = <<>> /\ worker.request = <<>> /\ toClient = <<>>
  BY <1>1 DEF OneInFlight
<1>3. StoreTypeOK' /\ StoreInv'
  BY <1>1, ChannelLeavesStore
<1>4. ASSUME NEW usable \in BOOLEAN, toWorker' = Append(toWorker, request),
             channel' = [channel EXCEPT !.number = @ + 1, !.awaited = channel.number + 1,
                                        !.task = task, !.usable = usable]
      PROVE  ChannelTypeOK' /\ OneInFlight' /\ MessagesInv'
  <2>1. request \in Requests /\ toWorker' = <<request>>
    BY <1>2, <1>4 DEF ChannelTypeOK, Channels, Requests
  <2>2. ChannelTypeOK'
    <3>1. channel' \in Channels
      <4>1. channel \in Channels /\ channel.number + 1 \in Nat
        BY DEF ChannelTypeOK, Channels
      <4> QED  BY <1>4, <4>1, Zenon DEF Channels
    <3>2. toWorker' \in AtMostOne(Requests)
      BY <2>1 DEF AtMostOne
    <3> QED  BY <1>1, <3>1, <3>2 DEF ChannelTypeOK
  <2>3. OneInFlight'
    BY <1>1, <1>2, <1>4 DEF OneInFlight, ChannelTypeOK, Channels
  <2>4. MessagesInv'
    BY <1>1, <1>2, <1>4, <2>1, ChannelLeavesStore DEF MessagesInv, Concerns, ChannelTypeOK, Channels
  <2> QED  BY <2>2, <2>3, <2>4
<1>5. ASSUME channel' = [Unusable EXCEPT !.number = @ + 1], UNCHANGED toWorker
      PROVE  ChannelTypeOK' /\ OneInFlight' /\ MessagesInv'
  <2>1. ChannelTypeOK'
    <3>1. channel' \in Channels
      <4>1. Unusable \in Channels
        BY UnusableTyped DEF ChannelTypeOK
      <4>2. Unusable.number + 1 \in Nat
        BY <4>1 DEF Channels
      <4> QED  BY <1>5, <4>1, <4>2, Zenon DEF Channels
    <3> QED  BY <1>1, <1>5, <3>1 DEF ChannelTypeOK
  <2>2. OneInFlight'
    BY <1>1, <1>2, <1>5 DEF OneInFlight, ChannelTypeOK, Channels, Unusable
  <2>3. MessagesInv'
    BY <1>1, <1>2, <1>5, ChannelLeavesStore DEF MessagesInv
  <2> QED  BY <2>1, <2>2, <2>3
<1>6. \/ \E usable \in BOOLEAN : 
           /\ toWorker' = Append(toWorker, request)
           /\ channel' = [channel EXCEPT !.number = @ + 1, !.awaited = channel.number + 1,
                                        !.task = task, !.usable = usable]
      \/ channel' = [Unusable EXCEPT !.number = @ + 1] /\ UNCHANGED toWorker
  BY Zenon DEF SendRequest
<1> QED  BY <1>3, <1>4, <1>5, <1>6

(* The worker takes requests in the order they were sent.                   *)
LEMMA ReceiveRequestStep == ProtectedInv /\ ReceiveRequest => ProtectedInv'
<1> SUFFICES ASSUME ProtectedInv, ReceiveRequest PROVE ProtectedInv'
  OBVIOUS
<1> USE DEF ProtectedInv
<1>1. PICK request \in Requests : toWorker = <<request>>
  BY QueueOfOne DEF ChannelTypeOK, ReceiveRequest
<1> DEFINE row == IF request.operation = "READ" THEN outputRows[request.task] ELSE {}
<1>2. /\ worker.request = <<>>
      /\ worker' = [worker EXCEPT !.request = <<request>>, !.row = row]
      /\ toWorker' = <<>>
      /\ UNCHANGED <<storeVars, channel, toClient, protectedAnswers>>
  BY <1>1 DEF ReceiveRequest
<1>3. StoreTypeOK' /\ StoreInv'
  BY <1>2, ChannelLeavesStore
<1>4. Concerns(request) /\ (request.operation = "READ" => request.task \in Tasks)
  BY <1>1 DEF MessagesInv, Concerns
<1>5. row \in SUBSET Digests /\ StillRead(row, request.task)
  BY <1>4 DEF StoreTypeOK, StillRead
<1>6. ChannelTypeOK'
  BY <1>2, <1>5 DEF ChannelTypeOK, AtMostOne
<1>7. OneInFlight'
  BY <1>1, <1>2 DEF OneInFlight, ChannelTypeOK
<1>8. MessagesInv'
  <2>1. worker'.request = <<request>> /\ worker'.row = row
    BY <1>2 DEF ChannelTypeOK
  <2>2. Concerns(request)'
    BY <1>2, <1>4 DEF Concerns
  <2> QED  BY <1>2, <1>5, <2>1, <2>2, ChannelLeavesStore DEF MessagesInv
<1> QED  BY <1>3, <1>6, <1>7, <1>8

(* An answer carries the number of the request it answers.                  *)
LEMMA RespondStep == ProtectedInv /\ Respond => ProtectedInv'
<1> SUFFICES ASSUME ProtectedInv, Respond PROVE ProtectedInv'
  OBVIOUS
<1> USE DEF ProtectedInv
<1> DEFINE request == Head(worker.request)
           response == [id |-> request.id, row |-> worker.row,
              code |-> IF request.operation = "READ" THEN Answer(worker.row) ELSE "CLOSED"]
<1>1. /\ worker.request # <<>> /\ request \in Requests
      /\ DOMAIN worker.request = {1} /\ worker.request[1] = request
  BY QueueOfOne DEF ChannelTypeOK, Respond
<1>2. /\ toClient' = Append(toClient, response)
      /\ UNCHANGED <<storeVars, channel, toWorker, protectedAnswers>>
  BY <1>1 DEF Respond
<1>3. StoreTypeOK' /\ StoreInv'
  BY <1>2, ChannelLeavesStore
<1>4. Concerns(request) /\ StillRead(worker.row, request.task)
  BY <1>1 DEF MessagesInv
<1>5. toWorker = <<>> /\ toClient = <<>>
  BY <1>1 DEF OneInFlight
<1>6. /\ response.code \in Codes /\ response.code # "PROTECTED_OUTPUT_INTEGRITY_FAILURE"
      /\ response.code = "OUTPUT" => response.row # {}
  <2>1. worker.row = {} \/ worker.row \subseteq outputFiles
    BY <1>4 DEF StillRead, StoreInv
  <2>2. Answer(worker.row) \in {"PROTECTED_OUTPUT_UNAVAILABLE", "OUTPUT"}
        /\ (Answer(worker.row) = "OUTPUT" => worker.row # {})
    BY <2>1 DEF Answer
  <2>3. response.code \in {"PROTECTED_OUTPUT_UNAVAILABLE", "OUTPUT", "CLOSED"}
        /\ (response.code = "OUTPUT" => response.row # {})
    BY <2>2
  <2> HIDE DEF response
  <2> QED  BY <2>3 DEF Codes
<1>7. response \in Responses /\ toClient' = <<response>>
  BY <1>1, <1>2, <1>5, <1>6 DEF Responses, Requests, ChannelTypeOK
<1>8. worker' \in [alive : BOOLEAN, request : AtMostOne(Requests), row : SUBSET Digests]
      /\ worker'.request = <<>>
  <2>1. PICK alive \in BOOLEAN : worker' = [Serving EXCEPT !.alive = alive]
    BY Zenon DEF Respond
  <2> QED  BY <2>1 DEF Serving, AtMostOne
<1>9. ChannelTypeOK'
  BY <1>2, <1>7, <1>8 DEF ChannelTypeOK, AtMostOne
<1>10. OneInFlight'
  BY <1>1, <1>2, <1>5, <1>8 DEF OneInFlight
<1>11. MessagesInv'
  BY <1>2, <1>4, <1>5, <1>6, <1>7, <1>8, ChannelLeavesStore DEF MessagesInv, Concerns
<1> QED  BY <1>3, <1>9, <1>10, <1>11

(* A worker that ends leaves at most its last answer behind.                *)
LEMMA WorkerEndsStep == ProtectedInv /\ WorkerEnds => ProtectedInv'
<1> SUFFICES ASSUME ProtectedInv, WorkerEnds PROVE ProtectedInv'
  OBVIOUS
<1> USE DEF ProtectedInv
<1>1. /\ worker' = [alive |-> FALSE, request |-> <<>>, row |-> {}]
      /\ UNCHANGED <<storeVars, channel, toWorker, toClient, protectedAnswers>>
  BY DEF WorkerEnds, Serving
<1>2. StoreTypeOK' /\ StoreInv'
  BY <1>1, ChannelLeavesStore
<1>3. ChannelTypeOK'
  BY <1>1 DEF ChannelTypeOK, AtMostOne
<1>4. OneInFlight'
  BY <1>1 DEF OneInFlight
<1>5. MessagesInv'
  BY <1>1, ChannelLeavesStore DEF MessagesInv, Concerns
<1> QED  BY <1>2, <1>3, <1>4, <1>5

(* Whatever the channel turns to when it gives a request up concerns no     *)
(* message any more.                                                        *)
LEMMA GivenUp ==
  ASSUME ProtectedInv, channel' = Unusable,
         UNCHANGED <<storeVars, toWorker, worker, protectedAnswers>>,
         toClient' = toClient \/ toClient' = <<>>
  PROVE  ProtectedInv'
<1> USE DEF ProtectedInv
<1>1. StoreTypeOK' /\ StoreInv'
  BY ChannelLeavesStore
<1>2. channel' \in Channels /\ channel'.awaited = 0 /\ ~channel'.usable
  BY UnusableTyped DEF ChannelTypeOK, Channels, Unusable
<1>3. ChannelTypeOK'
  BY <1>2 DEF ChannelTypeOK, AtMostOne
<1>4. OneInFlight'
  BY <1>2 DEF OneInFlight
<1>5. MessagesInv'
  <2>1. \A request \in Requests : Concerns(request) => Concerns(request)'
    BY <1>2 DEF Concerns, Requests
  <2>2. \A i \in DOMAIN toWorker : toWorker[i] \in Requests
    BY QueueOfOne DEF ChannelTypeOK
  <2>3. \A i \in DOMAIN worker.request : worker.request[i] \in Requests
    BY QueueOfOne DEF ChannelTypeOK
  <2>4. \A i \in DOMAIN toClient : toClient[i].id # 0
    <3>1. \A i \in DOMAIN toClient : toClient[i] \in Responses
      BY QueueOfOne DEF ChannelTypeOK
    <3>2. \A response \in Responses : response.id # 0
      BY DEF Responses
    <3> QED  BY <3>1, <3>2
  <2> QED  BY <1>2, <2>1, <2>2, <2>3, <2>4, ChannelLeavesStore DEF MessagesInv
<1> QED  BY <1>1, <1>3, <1>4, <1>5

(* An answer is taken only if it carries the number asked for.              *)
LEMMA ReceiveResponseStep == ProtectedInv /\ ReceiveResponse => ProtectedInv'
<1> SUFFICES ASSUME ProtectedInv, ReceiveResponse PROVE ProtectedInv'
  OBVIOUS
<1> USE DEF ProtectedInv
<1>1. PICK response \in Responses : toClient = <<response>>
  BY QueueOfOne DEF ChannelTypeOK, ReceiveResponse
<1>2. /\ toClient' = <<>> /\ UNCHANGED <<storeVars, toWorker, worker>>
      /\ channel.awaited > 0
      /\ IF response.id = channel.awaited
         THEN /\ channel' = [channel EXCEPT !.awaited = 0]
              /\ protectedAnswers' = protectedAnswers \cup
                   {[task |-> channel.task, row |-> response.row, code |-> response.code]}
         ELSE channel' = Unusable /\ UNCHANGED protectedAnswers
  BY <1>1 DEF ReceiveResponse
<1>3. CASE response.id # channel.awaited
  BY <1>2, <1>3, GivenUp
<1>4. CASE response.id = channel.awaited
  <2>1. StoreTypeOK' /\ StoreInv'
    BY <1>2, ChannelLeavesStore
  <2>2. /\ StillRead(response.row, channel.task)
        /\ response.code = "OUTPUT" => response.row # {}
        /\ response.code # "PROTECTED_OUTPUT_INTEGRITY_FAILURE"
    BY <1>1, <1>4 DEF MessagesInv
  <2>3. toWorker = <<>> /\ worker.request = <<>>
    BY <1>1 DEF OneInFlight
  <2>4. channel' \in Channels
    <3>1. channel \in Channels /\ 0 \in Nat
      BY DEF ChannelTypeOK
    <3> QED  BY <1>2, <1>4, <3>1, Zenon DEF Channels
  <2>5. ChannelTypeOK'
    BY <1>2, <1>4, <2>4 DEF ChannelTypeOK, Channels, AtMostOne, Responses
  <2>6. OneInFlight'
    BY <1>2, <1>4, <2>3 DEF OneInFlight, ChannelTypeOK, Channels
  <2>7. MessagesInv'
    BY <1>2, <1>4, <2>2, <2>3, ChannelLeavesStore DEF MessagesInv
  <2> QED  BY <2>1, <2>5, <2>6, <2>7
<1> QED  BY <1>3, <1>4

(* Closing gives the channel up.                                            *)
LEMMA CloseStep == ProtectedInv /\ Close => ProtectedInv'
<1> SUFFICES ASSUME ProtectedInv, Close PROVE ProtectedInv'
  OBVIOUS
<1> USE DEF ProtectedInv
<1>1. /\ channel' = [Unusable EXCEPT !.closed = TRUE]
      /\ worker' = [alive |-> FALSE, request |-> <<>>, row |-> {}]
      /\ toWorker' = <<>> /\ toClient' = <<>>
      /\ UNCHANGED <<storeVars, protectedAnswers>>
  BY DEF Close, Serving
<1>2. StoreTypeOK' /\ StoreInv'
  BY <1>1, ChannelLeavesStore
<1>3. channel' \in Channels /\ ~channel'.usable
  <2>1. Unusable \in Channels
    BY UnusableTyped
  <2>2. channel' \in Channels
    BY <1>1, <2>1, Zenon DEF Channels
  <2> QED  BY <1>1, <2>1, <2>2 DEF Unusable, Channels, ChannelTypeOK
<1>4. ChannelTypeOK'
  BY <1>1, <1>3 DEF ChannelTypeOK, AtMostOne
<1>5. OneInFlight'
  BY <1>1, <1>3 DEF OneInFlight
<1>6. MessagesInv'
  BY <1>1, ChannelLeavesStore DEF MessagesInv
<1> QED  BY <1>2, <1>4, <1>5, <1>6

-----------------------------------------------------------------------------
(* The theorems.                                                            *)

(* One step per operation of the store and of the channel.                  *)
LEMMA InvInductive == ProtectedInv /\ [ProtectedNext]_protectedVars => ProtectedInv'
<1> SUFFICES ASSUME ProtectedInv, [ProtectedNext]_protectedVars PROVE ProtectedInv'
  OBVIOUS
<1>1. ASSUME NEW task \in Tasks, SendRequest("READ", task) PROVE ProtectedInv'
  BY <1>1, SendStep
<1>2. CASE SendRequest("CLOSE", NoTask)
  BY <1>2, SendStep
<1>3. CASE ResponseMissing
  BY <1>3, GivenUp DEF ResponseMissing, Unavailable
<1>4. CASE UNCHANGED protectedVars
  <2>1. UNCHANGED storeVars /\ UNCHANGED channelVars
    BY <1>4 DEF protectedVars
  <2>2. RowsStay
    BY <2>1 DEF RowsStay, storeVars
  <2> QED  BY <2>1, <2>2, StoreLeavesChannel, ChannelLeavesStore DEF ProtectedInv
<1> QED
  BY <1>1, <1>2, <1>3, <1>4, StoreSteps, ReceiveRequestStep, RespondStep, WorkerEndsStep,
     ReceiveResponseStep, CloseStep DEF ProtectedNext

(* The invariant holds of the store and the channel together.               *)
LEMMA InvHolds == ProtectedSpec => []ProtectedInv
BY InitInv, InvInductive, PTL DEF ProtectedSpec

(* The output of every committed task can be read and nobody was told       *)
(* otherwise, for any number of tasks, outputs and requests.                *)
THEOREM OutputsReadable == ProtectedSpec => []OutputsStayReadable
<1>1. ProtectedInv => OutputsStayReadable
  BY DEF ProtectedInv, StoreInv, MessagesInv, OutputsStayReadable
<1> QED  BY <1>1, InvHolds, PTL

(* An answer with an output gives the output of the task that was asked     *)
(* for, and a channel in use at rest has nothing on its way.                *)
THEOREM AnswersInStep == ProtectedSpec => []ChannelInStep
<1>1. ProtectedInv => ChannelInStep
  BY DEF ProtectedInv, OneInFlight, MessagesInv, StillRead, ChannelInStep, Idle
<1> QED  BY <1>1, InvHolds, PTL

-----------------------------------------------------------------------------
(* Sessions of peers.                                                       *)

(* The state of a session after each record of a history.                   *)
Rebuilding(f, session, history, k) ==
  f = [n \in 0 .. k |-> IF n = 0 THEN InitialCollaboration(session)
                        ELSE StateAfter(session, f[n - 1], history[n])]
RebuiltFrom(session, history) ==
  (CHOOSE f : Rebuilding(f, session, history, Len(history)))[Len(history)]

(* The state rebuilt depends on the session and the history alone.          *)
LEMMA RebuiltFromHistory == \A session : Rebuilt(session) = RebuiltFrom(session, peerHistory)
BY DEF Rebuilt, RebuiltFrom, Rebuilding

(* Each state follows from the one before and the next record.              *)
LEMMA RebuildingSteps ==
  ASSUME NEW f, NEW session, NEW history, NEW k \in Nat, Rebuilding(f, session, history, k)
  PROVE  /\ f[0] = InitialCollaboration(session)
         /\ \A n \in 1 .. k : f[n] = StateAfter(session, f[n - 1], history[n])
<1>1. f = [n \in 0 .. k |-> IF n = 0 THEN InitialCollaboration(session)
                            ELSE StateAfter(session, f[n - 1], history[n])]
  BY DEF Rebuilding
<1>2. 0 \in 0 .. k /\ \A n \in 1 .. k : n \in 0 .. k /\ n # 0
  OBVIOUS
<1> QED
  BY <1>1, <1>2

(* There is such a sequence of states for every history.                    *)
LEMMA RebuildingExists ==
  ASSUME NEW session, NEW history, NEW k \in Nat
  PROVE  \E f : Rebuilding(f, session, history, k)
<1> DEFINE T == {n \in 0 .. k : \E f : Rebuilding(f, session, history, n)}
<1>1. 0 \in T
  <2>1. Rebuilding([n \in 0 .. 0 |-> InitialCollaboration(session)], session, history, 0)
    BY DEF Rebuilding
  <2> QED
    BY <2>1
<1>2. ASSUME NEW n \in 1 .. k, n - 1 \in T PROVE n \in T
  <2>1. PICK f : Rebuilding(f, session, history, n - 1)
    BY <1>2
  <2> DEFINE g == [i \in 0 .. n |-> IF i < n THEN f[i] ELSE StateAfter(session, f[n - 1], history[n])]
  <2>2. n - 1 \in Nat /\ n \in 0 .. n /\ n - 1 < n
    OBVIOUS
  <2>3. /\ f[0] = InitialCollaboration(session)
        /\ \A i \in 1 .. n - 1 : f[i] = StateAfter(session, f[i - 1], history[i])
    BY <2>1, <2>2, RebuildingSteps
  <2>4. g[0] = InitialCollaboration(session)
    BY <2>2, <2>3
  <2>5. \A i \in 1 .. n : g[i - 1] = f[i - 1]
    OBVIOUS
  <2>6. ASSUME NEW i \in 1 .. n PROVE g[i] = StateAfter(session, g[i - 1], history[i])
    <3>1. CASE i = n
      <4>1. g[n] = StateAfter(session, f[n - 1], history[n])
        BY <2>2
      <4> QED
        BY <2>5, <3>1, <4>1
    <3>2. CASE i # n
      <4>1. g[i] = f[i] /\ i \in 1 .. n - 1
        BY <3>2
      <4> QED
        BY <2>3, <2>5, <4>1
    <3> QED
      BY <3>1, <3>2
  <2>7. g = [i \in 0 .. n |-> IF i = 0 THEN InitialCollaboration(session)
                              ELSE StateAfter(session, g[i - 1], history[i])]
    <3>1. g = [i \in 0 .. n |-> g[i]]
      OBVIOUS
    <3>2. \A i \in 0 .. n : i # 0 => i \in 1 .. n
      OBVIOUS
    <3> HIDE DEF g
    <3> QED
      BY <2>4, <2>6, <3>1, <3>2
  <2>8. Rebuilding(g, session, history, n)
    <3> HIDE DEF g
    <3> QED
      BY <2>7 DEF Rebuilding
  <2> HIDE DEF g
  <2> QED
    BY <2>8
<1>3. \A n \in 0 .. k : n \in T
  <2> HIDE DEF T
  <2> QED
    BY <1>1, <1>2, EveryNumber
<1> QED
  BY <1>3

(* What is rebuilt is the last of them.                                     *)
LEMMA RebuiltByStages ==
  ASSUME NEW session, NEW history, Len(history) \in Nat
  PROVE  \E f : Rebuilding(f, session, history, Len(history)) /\ RebuiltFrom(session, history) = f[Len(history)]
<1>1. \E f : Rebuilding(f, session, history, Len(history))
  BY RebuildingExists
<1> QED
  BY <1>1 DEF RebuiltFrom

(* One more record is replayed on the state before it.                      *)
Longer(after, before, record) ==
  /\ Len(before) \in Nat /\ Len(after) = Len(before) + 1
  /\ \A n \in 1 .. Len(before) : after[n] = before[n]
  /\ after[Len(before) + 1] = record

(* One more record is applied to what was rebuilt before it.                *)
LEMMA RebuiltOneMore ==
  ASSUME NEW session, NEW before, NEW after, NEW record, Longer(after, before, record)
  PROVE  RebuiltFrom(session, after) = StateAfter(session, RebuiltFrom(session, before), record)
<1>1. PICK k \in Nat : k = Len(before)
  BY DEF Longer
<1>2. Len(after) = k + 1 /\ k + 1 \in Nat /\ after[k + 1] = record
      /\ \A n \in 1 .. k : after[n] = before[n]
  BY <1>1 DEF Longer
<1>3. PICK f : Rebuilding(f, session, before, k) /\ RebuiltFrom(session, before) = f[k]
  BY <1>1, RebuiltByStages
<1>4. PICK g : Rebuilding(g, session, after, k + 1) /\ RebuiltFrom(session, after) = g[k + 1]
  BY <1>2, RebuiltByStages
<1>5. /\ f[0] = InitialCollaboration(session)
      /\ \A n \in 1 .. k : f[n] = StateAfter(session, f[n - 1], before[n])
  BY <1>3, RebuildingSteps
<1>6. /\ g[0] = InitialCollaboration(session)
      /\ \A n \in 1 .. k + 1 : g[n] = StateAfter(session, g[n - 1], after[n])
  BY <1>2, <1>4, RebuildingSteps
<1> DEFINE T == {n \in 0 .. k : g[n] = f[n]}
<1>7. 0 \in T
  BY <1>5, <1>6
<1>8. \A n \in 1 .. k : n - 1 \in T => n \in T
  <2> SUFFICES ASSUME NEW n \in 1 .. k, n - 1 \in T PROVE n \in T
    OBVIOUS
  <2>1. g[n] = StateAfter(session, g[n - 1], after[n]) /\ after[n] = before[n]
    BY <1>2, <1>6
  <2> QED
    BY <1>5, <2>1
<1>9. k \in T
  <2>1. \A n \in 0 .. k : n \in T
    <3> HIDE DEF T
    <3> QED
      BY <1>7, <1>8, EveryNumber
  <2> QED
    BY <2>1
<1>10. g[k + 1] = StateAfter(session, g[k], record)
  <2>1. k + 1 \in 1 .. k + 1 /\ (k + 1) - 1 = k
    OBVIOUS
  <2> QED
    BY <1>2, <1>6, <2>1
<1> QED
  BY <1>3, <1>4, <1>9, <1>10

(* A session none of whose records is on file is in its initial state.      *)
LEMMA RebuiltInitially ==
  ASSUME NEW session, NEW history, Len(history) \in Nat,
         \A n \in 1 .. Len(history) : history[n].session # session.id
  PROVE  RebuiltFrom(session, history) = InitialCollaboration(session)
<1>1. PICK k \in Nat : k = Len(history)
  OBVIOUS
<1>2. PICK f : Rebuilding(f, session, history, k) /\ RebuiltFrom(session, history) = f[k]
  BY <1>1, RebuiltByStages
<1>3. /\ f[0] = InitialCollaboration(session)
      /\ \A n \in 1 .. k : f[n] = StateAfter(session, f[n - 1], history[n])
  BY <1>2, RebuildingSteps
<1> DEFINE T == {n \in 0 .. k : f[n] = InitialCollaboration(session)}
<1>4. 0 \in T
  BY <1>3
<1>5. \A n \in 1 .. k : n - 1 \in T => n \in T
  BY <1>1, <1>3 DEF StateAfter
<1>6. \A n \in 0 .. k : n \in T
  <2> HIDE DEF T
  <2> QED
    BY <1>4, <1>5, EveryNumber
<1> QED
  BY <1>2, <1>6

(* When a session ends and whose turn it is depends on what was contributed *)
(* and on how the topology went.                                            *)
SameCourse(s, t) ==
  /\ t.contributions = s.contributions /\ t.topologies = s.topologies
  /\ t.projections = s.projections

(* Sessions that share their course end alike.                              *)
LEMMA SameEnd ==
  ASSUME NEW session, NEW s, NEW t, SameCourse(s, t)
  PROVE  /\ Termination(session, t) = Termination(session, s)
         /\ NextPeer(session, t) = NextPeer(session, s)
<1>1. \A p : PeerCount(t, p) = PeerCount(s, p)
  BY DEF PeerCount, SameCourse
<1>2. LastPeer(t) = LastPeer(s) /\ Topology(t) = Topology(s)
      /\ TopologyChanges(t) = TopologyChanges(s) /\ TopologyChurn(t) = TopologyChurn(s)
  BY DEF SameCourse, LastPeer, Topology, TopologyChanges, TopologyChurn
<1>3. EligiblePeers(session, t) = EligiblePeers(session, s)
  BY <1>1, <1>2 DEF EligiblePeers
<1>4. Completed(session, t) <=> Completed(session, s)
  BY DEF Completed, SameCourse
<1>5. Looping(session, t) <=> Looping(session, s)
  BY DEF Looping, SameCourse
<1>6. Monopolised(session, t) <=> Monopolised(session, s)
  BY <1>1 DEF Monopolised, SameCourse
<1>7. ChangesExhausted(session, t) <=> ChangesExhausted(session, s)
  BY <1>2 DEF ChangesExhausted
<1>8. \A i \in 1 .. 9 : Reached(session, t, Reasons[i]) <=> Reached(session, s, Reasons[i])
  <2>1. Reached(session, t, "COMPLETED") <=> Reached(session, s, "COMPLETED")
    BY <1>4 DEF Reached
  <2>2. Reached(session, t, "MAX_HOPS_REACHED") <=> Reached(session, s, "MAX_HOPS_REACHED")
    BY DEF Reached, SameCourse
  <2>3. Reached(session, t, "MAX_CONTRIBUTIONS_REACHED") <=> Reached(session, s, "MAX_CONTRIBUTIONS_REACHED")
    BY DEF Reached, SameCourse
  <2>4. Reached(session, t, "PER_PEER_LIMIT_REACHED") <=> Reached(session, s, "PER_PEER_LIMIT_REACHED")
    BY <1>1 DEF Reached
  <2>5. Reached(session, t, "TOPOLOGY_CHANGE_LIMIT_REACHED") <=> Reached(session, s, "TOPOLOGY_CHANGE_LIMIT_REACHED")
    BY <1>7 DEF Reached
  <2>6. Reached(session, t, "REPEATED_STATE_LOOP") <=> Reached(session, s, "REPEATED_STATE_LOOP")
    BY <1>5 DEF Reached
  <2>7. Reached(session, t, "TOPOLOGY_CHURN") <=> Reached(session, s, "TOPOLOGY_CHURN")
    BY <1>2 DEF Reached
  <2>8. Reached(session, t, "CONTRIBUTION_MONOPOLY") <=> Reached(session, s, "CONTRIBUTION_MONOPOLY")
    BY <1>6 DEF Reached, SameCourse
  <2>9. Reached(session, t, "NO_ELIGIBLE_PEER") <=> Reached(session, s, "NO_ELIGIBLE_PEER")
    BY <1>3 DEF Reached
  <2>10. \A i \in 1 .. 9 :
           Reasons[i] \in {"COMPLETED", "MAX_HOPS_REACHED", "MAX_CONTRIBUTIONS_REACHED", "PER_PEER_LIMIT_REACHED",
                           "TOPOLOGY_CHANGE_LIMIT_REACHED", "REPEATED_STATE_LOOP", "TOPOLOGY_CHURN",
                           "CONTRIBUTION_MONOPOLY", "NO_ELIGIBLE_PEER"}
    BY DEF Reasons
  <2> QED
    BY <2>1, <2>2, <2>3, <2>4, <2>5, <2>6, <2>7, <2>8, <2>9, <2>10
<1>9. Termination(session, t) = Termination(session, s)
  <2>1. DOMAIN Reasons = 1 .. 9 /\ \A j \in 1 .. 9 : \A k \in 1 .. j - 1 : k \in 1 .. 9
    BY DEF Reasons
  <2> QED
    BY <1>8, <2>1 DEF Termination
<1> QED
  BY <1>3, <1>9 DEF NextPeer

(* A session that does not end has reached no bound.                        *)
LEMMA NothingReached ==
  ASSUME NEW session, NEW state, Termination(session, state) = {}
  PROVE  \A i \in 1 .. 9 : ~Reached(session, state, Reasons[i])
<1> DEFINE U == {i \in 1 .. 9 : Reached(session, state, Reasons[i])}
<1> SUFFICES ASSUME U # {} PROVE FALSE
  OBVIOUS
<1>1. U \subseteq Nat
  OBVIOUS
<1>2. PICK j \in U : \A i \in U : j <= i
  <2> HIDE DEF U
  <2> QED
    BY <1>1, LeastNatural
<1>3. j \in DOMAIN Reasons
  BY DEF Reasons
<1>4. \A k \in 1 .. j - 1 : ~Reached(session, state, Reasons[k])
  <2> SUFFICES ASSUME NEW k \in 1 .. j - 1, Reached(session, state, Reasons[k]) PROVE FALSE
    OBVIOUS
  <2>1. k \in U
    OBVIOUS
  <2> QED
    BY <1>2, <2>1
<1> QED
  BY <1>2, <1>3, <1>4 DEF Termination

-----------------------------------------------------------------------------
(* What holds of a session's state: nothing in its history is out of place, *)
(* its topologies, contributions and usage are within the session, and a    *)
(* request that waits for its answer is due unless the topology has changed. *)
StateFields == {"topologies", "contributions", "usage", "pending", "projections", "sound"}
Topologies(session) == [active: SUBSET session.peers, edges: SUBSET session.edges]
InTurn(session, state) ==
  \/ state.pending = {} \/ TopologyChanges(state) > 0
  \/ \E r : state.pending = {r} /\ RequestDue(session, state, r)
Within(session, state) ==
  /\ \E C : state.contributions \in Seq(C)
  /\ \A i \in DOMAIN state.contributions :
       state.contributions[i].depth \in Nat /\ state.contributions[i].depth <= session.budget.depth
  /\ state.usage \in Nat /\ state.usage <= session.budget.resources
  /\ TopologyChanges(state) <= session.budget.changes
Going(session, state) ==
  /\ DOMAIN state = StateFields /\ state.sound = TRUE
  /\ state.topologies \in Seq(Topologies(session)) /\ Len(state.topologies) > 0
  /\ InTurn(session, state)
  /\ Within(session, state)

(* The topology in force lies within the session's.                         *)
LEMMA TopologyWithin ==
  ASSUME NEW session, NEW state, Going(session, state)
  PROVE  Topology(state) \in Topologies(session)
<1>1. PICK n \in Nat : n = Len(state.topologies) /\ n > 0
  BY DEF Going
<1>2. state.topologies[n] \in Topologies(session)
  BY <1>1 DEF Going
<1> QED
  BY <1>1, <1>2 DEF Topology, Last

(* A state in which something new was observed.                             *)
LEMMA ObservedState ==
  ASSUME NEW session, NEW state, DOMAIN state = StateFields
  PROVE  /\ DOMAIN Observed(session, state) = StateFields
         /\ \A field \in StateFields \ {"projections"} : Observed(session, state)[field] = state[field]
BY DEF Observed

(* A session starts within its bounds.                                      *)
LEMMA InitiallyGoing ==
  ASSUME NEW session, WellFormedSession(session)
  PROVE  Going(session, InitialCollaboration(session))
<1>1. PICK topology : topology = [active |-> session.active,
               edges |-> {e \in session.edges : {e[1], e[2]} \subseteq session.active}]
  OBVIOUS
<1>2. topology \in Topologies(session)
  BY <1>1 DEF Topologies, WellFormedSession
<1>3. PICK start : start = [topologies |-> <<topology>>, contributions |-> <<>>, usage |-> 0,
                            pending |-> {}, projections |-> <<>>, sound |-> TRUE]
  OBVIOUS
<1>4. DOMAIN start = StateFields /\ start.topologies = <<topology>> /\ start.pending = {}
      /\ start.sound = TRUE /\ start.contributions = <<>> /\ start.usage = 0
  BY <1>3 DEF StateFields
<1>5. PICK state : state = Observed(session, start)
  OBVIOUS
<1>6. InitialCollaboration(session) = state
  BY <1>1, <1>3, <1>5 DEF InitialCollaboration
<1>7. DOMAIN state = StateFields /\ state.topologies = <<topology>> /\ state.pending = {}
      /\ state.sound = TRUE /\ state.contributions = <<>> /\ state.usage = 0
  BY <1>4, <1>5, ObservedState DEF StateFields
<1>8. <<topology>> \in Seq(Topologies(session)) /\ Len(<<topology>>) = 1
  BY <1>2
<1>9. session.budget.resources \in Nat /\ session.budget.changes \in Nat
  BY DEF WellFormedSession, WellFormedBudget
<1>10. Within(session, state)
  <2>1. state.contributions \in Seq({}) /\ DOMAIN state.contributions = {}
    BY <1>7
  <2>2. TopologyChanges(state) = 0
    BY <1>7, <1>8 DEF TopologyChanges
  <2> QED
    BY <1>7, <1>9, <2>1, <2>2 DEF Within
<1> QED
  BY <1>6, <1>7, <1>8, <1>10 DEF Going, InTurn

(* Each record that the handlers retain fits the state it was decided on.   *)
LEMMA RequestFits ==
  ASSUME NEW session, NEW state, Going(session, state), NEW request, request.kind = "REQUEST",
         state.pending = {}, RequestDue(session, state, request)
  PROVE  Going(session, Replay(session, state, request)) /\ NextPeer(session, state) # {}
<1>1. PICK after : after = [state EXCEPT !.pending = {request}]
  OBVIOUS
<1>2. Replay(session, state, request) = after
  BY <1>1 DEF Replay, Going
<1>3. /\ DOMAIN after = StateFields /\ after.sound = TRUE /\ after.pending = {request}
      /\ SameCourse(state, after)
  BY <1>1 DEF Going, StateFields, SameCourse
<1>4. RequestDue(session, after, request)
  <2>1. NextPeer(session, after) = NextPeer(session, state)
    BY <1>3, SameEnd
  <2>2. LastPeer(after) = LastPeer(state) /\ ContributedBefore(after) = ContributedBefore(state)
    BY <1>3 DEF SameCourse, LastPeer, ContributedBefore
  <2>3. after.contributions = state.contributions /\ after.usage = state.usage
    BY <1>1, <1>3 DEF SameCourse, Going, StateFields
  <2> QED
    BY <2>1, <2>2, <2>3 DEF RequestDue
<1>5. /\ after.topologies = state.topologies /\ after.contributions = state.contributions
      /\ after.usage = state.usage
  BY <1>1, <1>3 DEF SameCourse, Going, StateFields
<1>6. {request.recipient} = NextPeer(session, state)
  BY DEF RequestDue
<1>7. Within(session, after)
  BY <1>5 DEF Going, Within, TopologyChanges
<1> QED
  BY <1>2, <1>3, <1>4, <1>5, <1>6, <1>7 DEF Going, InTurn

(* The greatest of some bounded naturals is one of them.                    *)
LEMMA MaxWithin ==
  ASSUME NEW S, S \subseteq Nat, S # {}, NEW b \in Nat, \A x \in S : x <= b
  PROVE  Max(S) \in S /\ \A x \in S : Max(S) >= x
<1>1. S \subseteq 0 .. b
  OBVIOUS
<1>2. PICK m \in S : \A x \in S : m >= x
  BY <1>1, GreatestNatural
<1> QED
  BY <1>2 DEF Max

(* The depths of the contributions named as parents.                        *)
DepthsOf(state, parents) ==
  {state.contributions[i].depth :
     i \in {j \in DOMAIN state.contributions : state.contributions[j].id \in parents}}

LEMMA DepthsWithin ==
  ASSUME NEW session, WellFormedSession(session), NEW state, Within(session, state), NEW parents,
         parents \subseteq ContributedBefore(state), parents # {}
  PROVE  /\ DepthsOf(state, parents) \subseteq Nat /\ DepthsOf(state, parents) # {}
         /\ \A d \in DepthsOf(state, parents) : d <= session.budget.depth
         /\ session.budget.depth \in Nat
<1>1. session.budget.depth \in Nat
  BY DEF WellFormedSession, WellFormedBudget
<1>2. \A i \in DOMAIN state.contributions :
        state.contributions[i].depth \in Nat /\ state.contributions[i].depth <= session.budget.depth
  BY DEF Within
<1>3. PICK p \in parents : TRUE
  OBVIOUS
<1>4. PICK C : state.contributions \in Seq(C)
  BY DEF Within
<1>5. PICK contributions \in Seq(C) : contributions = state.contributions
  BY <1>4
<1>6. PICK i \in DOMAIN contributions : contributions[i].id = p
  BY <1>3, <1>5 DEF ContributedBefore, IdsOf, ToSet
<1>7. DepthsOf(state, parents) # {}
  BY <1>3, <1>5, <1>6 DEF DepthsOf
<1> QED
  BY <1>1, <1>2, <1>7 DEF DepthsOf

(* A contribution lies no less deep for naming more parents.                *)
LEMMA Deeper ==
  ASSUME NEW session, WellFormedSession(session), NEW state, Within(session, state),
         NEW few, NEW many, few \subseteq many, many \subseteq ContributedBefore(state)
  PROVE  /\ DepthOf(state, few) \in Nat /\ DepthOf(state, many) \in Nat
         /\ DepthOf(state, few) <= DepthOf(state, many)
<1>1. ASSUME NEW parents, parents \subseteq ContributedBefore(state), parents # {}
      PROVE  /\ DepthOf(state, parents) = 1 + Max(DepthsOf(state, parents))
             /\ Max(DepthsOf(state, parents)) \in Nat
             /\ \A d \in DepthsOf(state, parents) : Max(DepthsOf(state, parents)) >= d
             /\ Max(DepthsOf(state, parents)) \in DepthsOf(state, parents)
  <2>1. PICK D : D = DepthsOf(state, parents)
    OBVIOUS
  <2>2. D \subseteq Nat /\ D # {} /\ session.budget.depth \in Nat
        /\ \A d \in D : d <= session.budget.depth
    BY <1>1, <2>1, DepthsWithin
  <2>3. Max(D) \in D /\ \A d \in D : Max(D) >= d
    BY <2>2, MaxWithin
  <2>4. DepthOf(state, parents) = 1 + Max(D)
    BY <1>1, <2>1 DEF DepthOf, DepthsOf
  <2> QED
    BY <2>1, <2>2, <2>3, <2>4
<1>2. CASE few = {}
  <2>1. DepthOf(state, few) = 0
    BY <1>2 DEF DepthOf
  <2>2. DepthOf(state, many) \in Nat
    <3>1. CASE many = {}
      BY <3>1 DEF DepthOf
    <3>2. CASE many # {}
      BY <1>1, <3>2
    <3> QED
      BY <3>1, <3>2
  <2> QED
    BY <2>1, <2>2
<1>3. CASE few # {}
  <2>1. few \subseteq ContributedBefore(state) /\ many # {}
    BY <1>3
  <2>2. DepthsOf(state, few) \subseteq DepthsOf(state, many)
    BY DEF DepthsOf
  <2>3. Max(DepthsOf(state, few)) \in DepthsOf(state, many)
    BY <1>1, <1>3, <2>1, <2>2
  <2>4. Max(DepthsOf(state, many)) >= Max(DepthsOf(state, few))
    BY <1>1, <2>1, <2>3
  <2>5. /\ DepthOf(state, few) = 1 + Max(DepthsOf(state, few))
        /\ Max(DepthsOf(state, few)) \in Nat
    BY <1>1, <1>3, <2>1
  <2>6. /\ DepthOf(state, many) = 1 + Max(DepthsOf(state, many))
        /\ Max(DepthsOf(state, many)) \in Nat
    BY <1>1, <2>1
  <2> QED
    BY <2>4, <2>5, <2>6
<1> QED
  BY <1>2, <1>3

(* A contribution that may be made leaves the session within its bounds.    *)
LEMMA ContributionFits ==
  ASSUME NEW session, WellFormedSession(session), NEW state, Going(session, state),
         NEW contribution, contribution.kind = "CONTRIBUTION", contribution.usage \in Nat,
         NEW request \in state.pending, contribution.request = request.id,
         ContributionAllowed(session, state, request, contribution)
  PROVE  Going(session, Replay(session, state, contribution))
<1>1. PICK entry :
        entry = [id |-> contribution.id, peer |-> contribution.peer, type |-> contribution.type,
                 depth |-> DepthOf(state, contribution.parents)]
  OBVIOUS
<1>2. PICK answered :
        answered = [state EXCEPT !.contributions = Append(@, entry),
                                 !.usage = @ + contribution.usage, !.pending = {}]
  OBVIOUS
<1>3. PICK after : after = Observed(session, answered)
  OBVIOUS
<1>4. AdvanceCollaboration(session, state, contribution) = after
  BY <1>1, <1>2, <1>3 DEF AdvanceCollaboration
<1>5. Replay(session, state, contribution) = after
  BY <1>4 DEF Replay, Going
<1>6. DOMAIN answered = StateFields /\ answered.topologies = state.topologies
      /\ answered.pending = {} /\ answered.sound = TRUE
      /\ answered.contributions = Append(state.contributions, entry)
      /\ answered.usage = state.usage + contribution.usage
  BY <1>2 DEF Going, StateFields
<1>7. DOMAIN after = StateFields /\ after.topologies = state.topologies
      /\ after.pending = {} /\ after.sound = TRUE
      /\ after.contributions = Append(state.contributions, entry)
      /\ after.usage = state.usage + contribution.usage
  BY <1>3, <1>6, ObservedState DEF StateFields
<1>8. Within(session, state) /\ StateIntegrity(session, after)
  BY <1>4 DEF Going, ContributionAllowed
<1>9. entry.depth \in Nat
  <2>1. contribution.parents \subseteq ContributedBefore(state)
    BY DEF ContributionAllowed
  <2> QED
    BY <1>1, <1>8, <2>1, Deeper
<1>10. /\ \E C : after.contributions \in Seq(C)
       /\ \A i \in DOMAIN after.contributions : after.contributions[i].depth \in Nat
  <2>1. PICK C : state.contributions \in Seq(C)
    BY <1>8 DEF Within
  <2>2. PICK before \in Seq(C \cup {entry}) : before = state.contributions
    BY <2>1
  <2>3. PICK longer : longer = Append(before, entry)
    OBVIOUS
  <2>4. longer \in Seq(C \cup {entry})
    BY <2>2, <2>3
  <2>5. \A i \in DOMAIN before : before[i].depth \in Nat
    BY <1>8, <2>2 DEF Within
  <2>6. \A i \in DOMAIN longer : longer[i].depth \in Nat
    BY <1>9, <2>2, <2>3, <2>5
  <2> QED
    BY <1>7, <2>2, <2>3, <2>4, <2>6
<1>11. Within(session, after)
  <2>1. after.usage \in Nat /\ TopologyChanges(after) = TopologyChanges(state)
    BY <1>7, <1>8 DEF Within, TopologyChanges
  <2> QED
    BY <1>8, <1>10, <2>1 DEF Within, StateIntegrity
<1> QED
  BY <1>5, <1>7, <1>11 DEF Going, InTurn

(* What an event makes of a topology lies within the session's.             *)
LEMMA OperatedWithin ==
  ASSUME NEW session, NEW topology \in Topologies(session), NEW event,
         event.operation \in PeerOperations \cup EdgeOperations,
         OperationApplies(session, topology, event)
  PROVE  Operated(topology, event) \in Topologies(session)
<1>1. CASE event.operation = "ACTIVATE_PEER"
  <2>1. event.target \in session.peers
    BY <1>1 DEF OperationApplies
  <2>2. Operated(topology, event) = [topology EXCEPT !.active = @ \cup {event.target}]
    BY <1>1 DEF Operated
  <2> QED
    BY <2>1, <2>2 DEF Topologies
<1>2. CASE event.operation = "DEACTIVATE_PEER"
  <2>1. Operated(topology, event) =
         [active |-> topology.active \ {event.target},
          edges |-> {e \in topology.edges : event.target \notin {e[1], e[2]}}]
    BY <1>2 DEF Operated
  <2> QED
    BY <2>1 DEF Topologies
<1>3. CASE event.operation = "ENABLE_EDGE"
  <2>1. event.target \in session.edges
    BY <1>3 DEF OperationApplies
  <2>2. Operated(topology, event) = [topology EXCEPT !.edges = @ \cup {event.target}]
    BY <1>3 DEF Operated
  <2> QED
    BY <2>1, <2>2 DEF Topologies
<1>4. CASE event.operation = "DISABLE_EDGE"
  <2>2. Operated(topology, event) = [topology EXCEPT !.edges = @ \ {event.target}]
    BY <1>4 DEF Operated
  <2> QED
    BY <2>2 DEF Topologies
<1> QED
  BY <1>1, <1>2, <1>3, <1>4 DEF PeerOperations, EdgeOperations

(* An event that may occur leaves the session within its bounds.            *)
LEMMA EventFits ==
  ASSUME NEW session, WellFormedSession(session), NEW state, Going(session, state),
         NEW event, event.kind = "TOPOLOGY", event.operation \in PeerOperations \cup EdgeOperations,
         EventAllowed(session, state, event)
  PROVE  Going(session, Replay(session, state, event))
<1>1. PICK topology \in Topologies(session) : topology = Operated(Topology(state), event)
  BY TopologyWithin, OperatedWithin DEF EventAllowed
<1>2. PICK changed : changed = [state EXCEPT !.topologies = Append(@, topology)]
  OBVIOUS
<1>3. PICK after : after = Observed(session, changed)
  OBVIOUS
<1>4. Replay(session, state, event) = after
  BY <1>1, <1>2, <1>3 DEF Replay, Going, ApplyTopologyEvent
<1>5. DOMAIN changed = StateFields /\ changed.topologies = Append(state.topologies, topology)
      /\ changed.sound = TRUE /\ changed.contributions = state.contributions
      /\ changed.usage = state.usage
  BY <1>2 DEF Going, StateFields
<1>6. DOMAIN after = StateFields /\ after.topologies = Append(state.topologies, topology)
      /\ after.sound = TRUE /\ after.contributions = state.contributions
      /\ after.usage = state.usage
  BY <1>3, <1>5, ObservedState DEF StateFields
<1>7. PICK longer : longer = Append(state.topologies, topology)
  OBVIOUS
<1>8. /\ longer \in Seq(Topologies(session)) /\ Len(longer) > 1
      /\ Len(longer) \in Nat /\ Len(longer) = Len(state.topologies) + 1
  <2>1. state.topologies \in Seq(Topologies(session)) /\ Len(state.topologies) > 0
    BY DEF Going
  <2> QED
    BY <1>7, <2>1
<1>9. Within(session, after)
  <2>1. Within(session, state) /\ state.topologies \in Seq(Topologies(session))
    BY DEF Going
  <2>2. TopologyChanges(state) < session.budget.changes /\ session.budget.changes \in Nat
    BY DEF EventAllowed, WellFormedSession, WellFormedBudget
  <2>3. TopologyChanges(after) = TopologyChanges(state) + 1 /\ TopologyChanges(state) \in Int
    BY <1>6, <1>7, <1>8, <2>1 DEF TopologyChanges
  <2>4. TopologyChanges(after) <= session.budget.changes
    BY <2>2, <2>3
  <2> QED
    BY <1>6, <2>1, <2>4 DEF Within
<1> QED
  BY <1>4, <1>6, <1>7, <1>8, <1>9 DEF Going, InTurn, TopologyChanges

-----------------------------------------------------------------------------
(* The inductive invariant: identifiers name one session, and what refers   *)
(* to a session refers to a recorded one; the state of each is as above;    *)
(* and a session that was terminated is still at the reason of its end.     *)
SessionInv ==
  /\ \E S : peerHistory \in Seq(S)
  /\ \A s \in sessions : WellFormedSession(s)
  /\ \A s, t \in sessions : s.id = t.id => s = t
  /\ \A n \in 1 .. Len(peerHistory) : peerHistory[n].session \in IdsOf(sessions)
  /\ IdsOf(terminations) \subseteq IdsOf(sessions)
  /\ \A s \in sessions : Going(s, Rebuilt(s))
  /\ \A s \in sessions, t \in terminations :
       t.id = s.id => t.reason # {} /\ Termination(s, Rebuilt(s)) = t.reason

(* One more record takes the state rebuilt of each session one step on.     *)
LEMMA RebuiltAfter ==
  ASSUME SessionInv, NEW record, peerHistory' = Append(peerHistory, record)
  PROVE  /\ \A s : Rebuilt(s)' = StateAfter(s, Rebuilt(s), record)
         /\ \E S : peerHistory' \in Seq(S)
         /\ \A n \in 1 .. Len(peerHistory') :
              peerHistory'[n] = record
              \/ (n \in 1 .. Len(peerHistory) /\ peerHistory'[n] = peerHistory[n])
<1>1. PICK S : peerHistory \in Seq(S)
  BY DEF SessionInv
<1>2. PICK before \in Seq(S) : before = peerHistory
  BY <1>1
<1>3. PICK after : after = Append(before, record)
  OBVIOUS
<1>4. after \in Seq(S \cup {record}) /\ Longer(after, before, record)
  BY <1>3, Appended DEF Longer
<1>5. \A s : RebuiltFrom(s, after) = StateAfter(s, RebuiltFrom(s, before), record)
  BY <1>4, RebuiltOneMore
<1>6. peerHistory' = after
  BY <1>2, <1>3
<1>7. \A s : Rebuilt(s) = RebuiltFrom(s, before) /\ Rebuilt(s)' = RebuiltFrom(s, after)
  BY <1>2, <1>6 DEF Rebuilt, RebuiltFrom, Rebuilding
<1>8. \A n \in 1 .. Len(after) : after[n] = record \/ (n \in 1 .. Len(before) /\ after[n] = before[n])
  <2> SUFFICES ASSUME NEW n \in 1 .. Len(after)
               PROVE  after[n] = record \/ (n \in 1 .. Len(before) /\ after[n] = before[n])
    OBVIOUS
  <2>1. n \in 1 .. Len(before) \/ n = Len(before) + 1
    BY <1>4 DEF Longer
  <2> QED
    BY <1>4, <2>1 DEF Longer
<1> QED
  BY <1>2, <1>4, <1>5, <1>6, <1>7, <1>8

(* A record that fits the state of its session, which has not ended.        *)
LEMMA RetainKeeps ==
  ASSUME SessionInv, NEW session \in sessions, NEW record, record.session = session.id,
         Retain(record), Termination(session, Rebuilt(session)) = {},
         Going(session, Replay(session, Rebuilt(session), record))
  PROVE  SessionInv'
<1>1. /\ peerHistory' = Append(peerHistory, record)
      /\ sessions' = sessions /\ terminations' = terminations
  BY DEF Retain
<1>2. /\ \A s : Rebuilt(s)' = StateAfter(s, Rebuilt(s), record)
      /\ \E S : peerHistory' \in Seq(S)
      /\ \A n \in 1 .. Len(peerHistory') :
           peerHistory'[n] = record
           \/ (n \in 1 .. Len(peerHistory) /\ peerHistory'[n] = peerHistory[n])
  BY <1>1, RebuiltAfter
<1>3. \A n \in 1 .. Len(peerHistory') : peerHistory'[n].session \in IdsOf(sessions)
  BY <1>2 DEF SessionInv, IdsOf
<1>4. ASSUME NEW s \in sessions, s # session PROVE Rebuilt(s)' = Rebuilt(s)
  <2>1. s.id # record.session
    BY <1>4 DEF SessionInv
  <2> QED
    BY <1>2, <2>1 DEF StateAfter
<1>5. Rebuilt(session)' = Replay(session, Rebuilt(session), record)
  BY <1>2 DEF StateAfter
<1>6. ASSUME NEW s \in sessions PROVE Going(s, Rebuilt(s)')
  <2>1. CASE s = session
    BY <1>5, <2>1
  <2>2. CASE s # session
    BY <1>4, <2>2 DEF SessionInv
  <2> QED
    BY <2>1, <2>2
<1>7. ASSUME NEW s \in sessions, NEW t \in terminations, t.id = s.id
      PROVE  t.reason # {} /\ Termination(s, Rebuilt(s)') = t.reason
  <2>1. t.reason # {} /\ Termination(s, Rebuilt(s)) = t.reason
    BY <1>7 DEF SessionInv
  <2>2. s # session
    BY <2>1
  <2> QED
    BY <1>4, <2>1, <2>2
<1>8. /\ \A s \in sessions' : WellFormedSession(s)
      /\ \A s, t \in sessions' : s.id = t.id => s = t
      /\ IdsOf(terminations') \subseteq IdsOf(sessions')
  BY <1>1 DEF SessionInv
<1> QED
  BY <1>1, <1>2, <1>3, <1>6, <1>7, <1>8 DEF SessionInv

(* A new session has no records yet, and starts within its bounds.          *)
LEMMA SessionKeeps ==
  ASSUME SessionInv, NEW session \in SessionPool, RecordCollaborationSession(session)
  PROVE  SessionInv'
<1>1. PICK new : new = [session EXCEPT !.policy = sessionPolicy]
  OBVIOUS
<1>2. /\ session.id \notin IdsOf(sessions) /\ sessions' = sessions \cup {new}
      /\ peerHistory' = peerHistory /\ terminations' = terminations
  BY <1>1 DEF RecordCollaborationSession
<1>3. WellFormedSession(session)
  BY CollaborationAssumption
<1>4. WellFormedSession(new) /\ new.id = session.id
  BY <1>1, <1>3 DEF WellFormedSession, SessionFields
<1>5. new.id \notin IdsOf(sessions)
  BY <1>2, <1>4
<1>6. \A s : Rebuilt(s)' = Rebuilt(s)
  BY <1>2 DEF Rebuilt
<1>7. Going(new, Rebuilt(new))
  <2>1. Len(peerHistory) \in Nat
    BY DEF SessionInv
  <2>2. \A n \in 1 .. Len(peerHistory) : peerHistory[n].session # new.id
    BY <1>5 DEF SessionInv
  <2>3. PICK history : history = peerHistory
    OBVIOUS
  <2>4. RebuiltFrom(new, history) = InitialCollaboration(new)
    BY <2>1, <2>2, <2>3, RebuiltInitially
  <2>5. Rebuilt(new) = InitialCollaboration(new)
    BY <2>3, <2>4, RebuiltFromHistory
  <2> QED
    BY <1>4, <2>5, InitiallyGoing
<1>8. \A t \in terminations : t.id # new.id
  BY <1>5 DEF SessionInv, IdsOf
<1>9. IdsOf(sessions) \subseteq IdsOf(sessions')
  BY <1>2 DEF IdsOf
<1>10. /\ \A s \in sessions' : WellFormedSession(s)
       /\ \A s, t \in sessions' : s.id = t.id => s = t
  BY <1>2, <1>4, <1>5 DEF SessionInv, IdsOf
<1>11. /\ \A n \in 1 .. Len(peerHistory') : peerHistory'[n].session \in IdsOf(sessions')
       /\ IdsOf(terminations') \subseteq IdsOf(sessions')
       /\ \E S : peerHistory' \in Seq(S)
  BY <1>2, <1>9 DEF SessionInv
<1>12. \A s \in sessions' : Going(s, Rebuilt(s)')
  BY <1>2, <1>6, <1>7 DEF SessionInv
<1>13. \A s \in sessions', t \in terminations' :
         t.id = s.id => t.reason # {} /\ Termination(s, Rebuilt(s)') = t.reason
  BY <1>2, <1>6, <1>8 DEF SessionInv
<1> QED
  BY <1>10, <1>11, <1>12, <1>13 DEF SessionInv

(* A termination is recorded once, with what was reached by then.           *)
LEMMA TerminationKeeps ==
  ASSUME SessionInv, NEW session \in sessions,
         RecordCollaborationTermination(session, Rebuilt(session))
  PROVE  SessionInv'
<1>1. PICK t : t = [id |-> session.id, reason |-> Termination(session, Rebuilt(session))]
  OBVIOUS
<1>2. /\ Termination(session, Rebuilt(session)) # {}
      /\ terminations' = terminations \cup {t}
      /\ sessions' = sessions /\ peerHistory' = peerHistory
  BY <1>1 DEF RecordCollaborationTermination
<1>3. \A s : Rebuilt(s)' = Rebuilt(s)
  BY <1>2 DEF Rebuilt
<1>4. t.id = session.id /\ t.reason # {} /\ t.reason = Termination(session, Rebuilt(session))
  BY <1>1, <1>2
<1>5. \A s \in sessions, u \in terminations' :
        u.id = s.id => u.reason # {} /\ Termination(s, Rebuilt(s)') = u.reason
  BY <1>2, <1>3, <1>4 DEF SessionInv
<1>6. IdsOf(terminations') \subseteq IdsOf(sessions)
  BY <1>2, <1>4, ZenonT(30) DEF SessionInv, IdsOf
<1>7. \A s \in sessions : Going(s, Rebuilt(s)')
  BY <1>3 DEF SessionInv
<1>8. /\ \A s \in sessions' : WellFormedSession(s)
      /\ \A s, u \in sessions' : s.id = u.id => s = u
      /\ \A n \in 1 .. Len(peerHistory') : peerHistory'[n].session \in IdsOf(sessions')
      /\ \E S : peerHistory' \in Seq(S)
  BY <1>2 DEF SessionInv
<1> QED
  BY <1>2, <1>5, <1>6, <1>7, <1>8 DEF SessionInv

(* Each handler keeps the invariant of sessions.                            *)
LEMMA SessionStep == SessionInv /\ [CollaborationNext]_collaborationVars => SessionInv'
<1> SUFFICES ASSUME SessionInv, [CollaborationNext]_collaborationVars PROVE SessionInv'
  OBVIOUS
<1>1. ASSUME UNCHANGED <<sessions, peerHistory, terminations>> PROVE SessionInv'
  BY <1>1 DEF SessionInv, Rebuilt
<1>2. CASE UNCHANGED collaborationVars
  BY <1>1, <1>2 DEF collaborationVars
<1>3. ASSUME NEW policy \in SessionPolicies, SessionPolicyMoves(policy) PROVE SessionInv'
  BY <1>1, <1>3 DEF SessionPolicyMoves
<1>4. ASSUME NEW session \in SessionPool, RecordCollaborationSession(session) PROVE SessionInv'
  BY <1>4, SessionKeeps
<1>5. ASSUME NEW session \in sessions, NEW id, NEW recipient, NEW parent,
             AppendPeerRequest(session, Rebuilt(session), id, recipient, parent)
      PROVE  SessionInv'
  <2>1. PICK state : state = Rebuilt(session)
    OBVIOUS
  <2>2. PICK request : request = PeerRequest(session, state, id, recipient, parent)
    OBVIOUS
  <2>3. state.pending = {} /\ RequestDue(session, state, request) /\ Retain(request)
    BY <1>5, <2>1, <2>2 DEF AppendPeerRequest
  <2>4. request.kind = "REQUEST" /\ request.session = session.id
    BY <2>2 DEF PeerRequest
  <2>5. Going(session, Replay(session, state, request)) /\ NextPeer(session, state) # {}
    BY <2>1, <2>3, <2>4, RequestFits DEF SessionInv
  <2>6. Termination(session, state) = {}
    BY <2>5 DEF NextPeer
  <2> QED
    BY <2>1, <2>3, <2>4, <2>5, <2>6, RetainKeeps
<1>6. ASSUME NEW session \in sessions, NEW request \in Rebuilt(session).pending, NEW id, NEW type,
             NEW parents, NEW usage \in Usages,
             AppendPeerContribution(session, Rebuilt(session), request, id, type, parents, usage)
      PROVE  SessionInv'
  <2>1. PICK state : state = Rebuilt(session)
    OBVIOUS
  <2>2. PICK contribution :
          contribution = PeerContribution(session, request, id, type, parents, usage)
    OBVIOUS
  <2>3. ContributionAllowed(session, state, request, contribution) /\ Retain(contribution)
    BY <1>6, <2>1, <2>2 DEF AppendPeerContribution
  <2>4. /\ contribution.kind = "CONTRIBUTION" /\ contribution.session = session.id
        /\ contribution.request = request.id /\ contribution.usage \in Nat
    BY <2>2, CollaborationAssumption DEF PeerContribution
  <2>5. Going(session, Replay(session, state, contribution))
    <3>1. WellFormedSession(session) /\ Going(session, state) /\ request \in state.pending
      BY <2>1 DEF SessionInv
    <3> QED
      BY <2>3, <2>4, <3>1, ContributionFits
  <2>6. Termination(session, state) = {}
    BY <2>3 DEF ContributionAllowed
  <2> QED
    BY <2>1, <2>3, <2>4, <2>5, <2>6, RetainKeeps
<1>7. ASSUME NEW session \in sessions, NEW id, NEW operation \in PeerOperations \cup EdgeOperations,
             NEW target, AppendTopologyEvent(session, Rebuilt(session), id, operation, target)
      PROVE  SessionInv'
  <2>1. PICK state : state = Rebuilt(session)
    OBVIOUS
  <2>2. PICK event : event = TopologyEvent(session, state, id, operation, target)
    OBVIOUS
  <2>3. EventAllowed(session, state, event) /\ Retain(event)
    BY <1>7, <2>1, <2>2 DEF AppendTopologyEvent
  <2>4. event.kind = "TOPOLOGY" /\ event.session = session.id /\ event.operation = operation
    BY <2>2 DEF TopologyEvent
  <2>5. Going(session, Replay(session, state, event))
    BY <2>1, <2>3, <2>4, EventFits DEF SessionInv
  <2>6. Termination(session, state) = {}
    BY <2>3 DEF EventAllowed
  <2> QED
    BY <2>1, <2>3, <2>4, <2>5, <2>6, RetainKeeps
<1>8. ASSUME NEW session \in sessions, RecordCollaborationTermination(session, Rebuilt(session))
      PROVE  SessionInv'
  BY <1>8, TerminationKeeps
<1>9. CASE CollaborationNext
  BY <1>3, <1>4, <1>5, <1>6, <1>7, <1>8, <1>9 DEF CollaborationNext
<1> QED
  BY <1>2, <1>9

(* How often a peer contributed grows by one at most.                       *)
LEMMA PeerCountAfter ==
  ASSUME NEW state, NEW after, NEW C, state.contributions \in Seq(C), NEW entry,
         after.contributions = Append(state.contributions, entry), NEW peer
  PROVE  /\ PeerCount(state, peer) \in Nat /\ PeerCount(after, peer) \in Nat
         /\ PeerCount(after, peer) <= PeerCount(state, peer) + 1
<1>1. PICK n \in Nat : n = Len(state.contributions)
  OBVIOUS
<1>2. PICK S : S = {i \in 1 .. n : state.contributions[i].peer = peer}
  OBVIOUS
<1>3. PICK T : T = {i \in 1 .. n + 1 : after.contributions[i].peer = peer}
  OBVIOUS
<1>4. PeerCount(state, peer) = Cardinality(S)
  <2>1. DOMAIN state.contributions = 1 .. n
    BY <1>1
  <2> QED
    BY <1>2, <2>1 DEF PeerCount, CountOf
<1>5. PeerCount(after, peer) = Cardinality(T)
  <2>1. DOMAIN after.contributions = 1 .. n + 1
    BY <1>1
  <2> QED
    BY <1>3, <2>1 DEF PeerCount, CountOf
<1>6. T \subseteq S \cup {n + 1}
  <2>1. \A i \in 1 .. n : after.contributions[i] = state.contributions[i]
    BY <1>1
  <2>2. ASSUME NEW i \in T PROVE i \in S \cup {n + 1}
    <3>1. i \in 1 .. n + 1 /\ after.contributions[i].peer = peer
      BY <1>3
    <3>2. i \in 1 .. n \/ i = n + 1
      BY <3>1
    <3> QED
      BY <1>2, <2>1, <3>1, <3>2
  <2> QED
    BY <2>2
<1>7. IsFiniteSet(S) /\ n + 1 \notin S
  <2>1. S \subseteq 1 .. n
    BY <1>2
  <2>2. IsFiniteSet(1 .. n)
    <3>1. 1 \in Int /\ n \in Int
      OBVIOUS
    <3> QED
      BY <3>1, FS_Interval
  <2>3. n + 1 \notin 1 .. n
    OBVIOUS
  <2> QED
    BY <2>1, <2>2, <2>3, FS_Subset
<1>8. IsFiniteSet(S \cup {n + 1}) /\ Cardinality(S \cup {n + 1}) = Cardinality(S) + 1
      /\ Cardinality(S) \in Nat
  BY <1>7, FS_AddElement, FS_CardinalityType
<1>9. IsFiniteSet(T) /\ Cardinality(T) <= Cardinality(S \cup {n + 1}) /\ Cardinality(T) \in Nat
  BY <1>6, <1>8, FS_Subset, FS_CardinalityType
<1> QED
  BY <1>4, <1>5, <1>8, <1>9

(* A session that does not end has a next peer, room for one more           *)
(* contribution, and another change of topology unless it allows none.      *)
LEMMA RoomLeft ==
  ASSUME NEW session, WellFormedSession(session), NEW state, Going(session, state),
         Termination(session, state) = {}
  PROVE  /\ \E p \in session.peers : NextPeer(session, state) = {p} /\ p \in Topology(state).active
         /\ Len(state.contributions) < session.budget.hops
         /\ Len(state.contributions) < session.budget.contributions
         /\ \A p \in session.peers : PeerCount(state, p) < session.budget.perPeer
         /\ TopologyChanges(state) \in Nat
         /\ session.budget.changes = 0 => TopologyChanges(state) = 0
         /\ session.budget.changes # 0 => TopologyChanges(state) < session.budget.changes
<1>1. /\ ~Reached(session, state, "MAX_HOPS_REACHED")
      /\ ~Reached(session, state, "MAX_CONTRIBUTIONS_REACHED")
      /\ ~Reached(session, state, "PER_PEER_LIMIT_REACHED")
      /\ ~Reached(session, state, "TOPOLOGY_CHANGE_LIMIT_REACHED")
      /\ ~Reached(session, state, "NO_ELIGIBLE_PEER")
  <2>1. /\ Reasons[2] = "MAX_HOPS_REACHED" /\ Reasons[3] = "MAX_CONTRIBUTIONS_REACHED"
        /\ Reasons[4] = "PER_PEER_LIMIT_REACHED"
        /\ Reasons[5] = "TOPOLOGY_CHANGE_LIMIT_REACHED" /\ Reasons[9] = "NO_ELIGIBLE_PEER"
    BY DEF Reasons
  <2>2. {2, 3, 4, 5, 9} \subseteq 1 .. 9
    OBVIOUS
  <2> QED
    BY <2>1, <2>2, NothingReached
<1>2. /\ session.budget.hops \in Nat /\ session.budget.contributions \in Nat
      /\ session.budget.perPeer \in Nat /\ session.budget.changes \in Nat
  BY DEF WellFormedSession, WellFormedBudget
<1>3. PICK C : state.contributions \in Seq(C)
  BY DEF Going, Within
<1>4. PICK contributions \in Seq(C) : contributions = state.contributions
  BY <1>3
<1>5. /\ Len(state.contributions) < session.budget.hops
      /\ Len(state.contributions) < session.budget.contributions
  <2>1. Len(contributions) \in Nat
    OBVIOUS
  <2> QED
    BY <1>1, <1>2, <1>4, <2>1 DEF Reached
<1>6. ASSUME NEW p \in session.peers PROVE PeerCount(state, p) < session.budget.perPeer
  <2>1. PICK after : after = [contributions |-> Append(state.contributions, p)]
    OBVIOUS
  <2>2. after.contributions = Append(state.contributions, p)
    BY <2>1
  <2>3. PeerCount(state, p) \in Nat
    BY <1>3, <2>2, PeerCountAfter
  <2>4. ~(PeerCount(state, p) >= session.budget.perPeer)
    BY <1>1 DEF Reached
  <2> QED
    BY <1>2, <2>3, <2>4
<1>7. \E p \in session.peers : NextPeer(session, state) = {p} /\ p \in Topology(state).active
  <2>1. Topology(state).active \subseteq session.peers
    BY TopologyWithin DEF Topologies
  <2>2. PICK E : E = EligiblePeers(session, state)
    OBVIOUS
  <2>3. E \subseteq Topology(state).active
    BY <2>2 DEF EligiblePeers
  <2>4. E \subseteq Nat /\ E # {}
    BY <1>1, <2>1, <2>2, <2>3, CollaborationAssumption DEF Reached, WellFormedSession
  <2>5. PICK p \in E : \A q \in E : p <= q
    BY <2>4, LeastNatural
  <2>6. NextPeer(session, state) = {q \in E : \A r \in E : q <= r}
    BY <2>2 DEF NextPeer
  <2>7. NextPeer(session, state) = {p}
    <3>1. p \in {q \in E : \A r \in E : q <= r}
      BY <2>5
    <3>2. ASSUME NEW q \in E, \A r \in E : q <= r PROVE q = p
      <4>1. q <= p /\ p <= q /\ p \in Nat /\ q \in Nat
        BY <2>4, <2>5, <3>2
      <4> QED
        BY <4>1
    <3> QED
      BY <2>6, <3>1, <3>2
  <2> QED
    BY <2>1, <2>3, <2>5, <2>7
<1>8. /\ TopologyChanges(state) \in Nat
      /\ session.budget.changes = 0 => TopologyChanges(state) = 0
      /\ session.budget.changes # 0 => TopologyChanges(state) < session.budget.changes
  <2>1. PICK topologies \in Seq(Topologies(session)) :
          topologies = state.topologies /\ Len(topologies) > 0
    BY DEF Going
  <2>2. Len(topologies) \in Nat /\ TopologyChanges(state) = Len(topologies) - 1
    BY <2>1 DEF TopologyChanges
  <2>3. TopologyChanges(state) <= session.budget.changes
    BY DEF Going, Within
  <2>4. ~(TopologyChanges(state) > 0 /\ TopologyChanges(state) >= session.budget.changes)
    BY <1>1 DEF Reached, ChangesExhausted
  <2>5. PICK c \in Nat : c = session.budget.changes
    BY <1>2
  <2>6. PICK k \in Nat : k = TopologyChanges(state)
    <3>1. TopologyChanges(state) \in Nat
      BY <2>1, <2>2
    <3> QED
      BY <3>1
  <2>7. k <= c /\ ~(k > 0 /\ k >= c)
    BY <2>3, <2>4, <2>5, <2>6
  <2>8. (c = 0 => k = 0) /\ (c # 0 => k < c)
    BY <2>7
  <2> QED
    BY <2>5, <2>6, <2>8
<1> QED
  BY <1>5, <1>6, <1>7, <1>8

(* With no request waiting the next peer can be asked.                      *)
LEMMA CanAsk ==
  ASSUME NEW session, WellFormedSession(session), NEW state, Going(session, state),
         Termination(session, state) = {}, SessionOpen(session), state.pending = {}
  PROVE  CanMove(session, state)
<1>1. PICK p \in session.peers : NextPeer(session, state) = {p}
  BY RoomLeft
<1>2. PICK request : request = PeerRequest(session, state, session.id, p, {})
  OBVIOUS
<1>3. RequestDue(session, state, request)
  BY <1>1, <1>2 DEF PeerRequest, RequestDue
<1> QED
  BY <1>1, <1>2, <1>3 DEF CanMove

(* While changes are left the next peer can be deactivated.                 *)
LEMMA CanChange ==
  ASSUME NEW session, WellFormedSession(session), NEW state, Going(session, state),
         Termination(session, state) = {}, SessionOpen(session), session.budget.changes # 0
  PROVE  CanMove(session, state)
<1>1. PICK p \in session.peers : p \in Topology(state).active
  BY RoomLeft
<1>2. PICK event : event = TopologyEvent(session, state, session.id, "DEACTIVATE_PEER", p)
  OBVIOUS
<1>3. OperationApplies(session, Topology(state), event)
  BY <1>1, <1>2 DEF TopologyEvent, OperationApplies
<1>4. event.before = Topology(state)
  BY <1>2 DEF TopologyEvent
<1>5. EventAllowed(session, state, event)
  BY <1>3, <1>4, RoomLeft DEF EventAllowed
<1>6. "DEACTIVATE_PEER" \in PeerOperations
  BY DEF PeerOperations
<1> QED
  BY <1>2, <1>5, <1>6 DEF CanMove

(* A request that is due and whose parent leaves room for one more depth    *)
(* can be answered.                                                         *)
LEMMA CanAnswer ==
  ASSUME NEW session, WellFormedSession(session), NEW state, Going(session, state),
         Termination(session, state) = {}, SessionOpen(session), NEW request \in state.pending,
         RequestDue(session, state, request), DepthOf(state, request.parent) <= session.budget.depth
  PROVE  CanMove(session, state)
<1>1. PICK type \in session.kinds : TRUE
  BY DEF WellFormedSession
<1>2. PICK answer :
        answer = PeerContribution(session, request, session.id, type, request.parent, 0)
  OBVIOUS
<1>3. /\ answer.peer = request.recipient /\ answer.type = type /\ answer.usage = 0
      /\ answer.parents = request.parent /\ answer.id = session.id
  BY <1>2 DEF PeerContribution
<1>4. request.parent \in SUBSET ContributedBefore(state)
  BY DEF RequestDue
<1>5. PICK entry :
        entry = [id |-> answer.id, peer |-> answer.peer, type |-> answer.type,
                 depth |-> DepthOf(state, answer.parents)]
  OBVIOUS
<1>6. PICK answered :
        answered = [state EXCEPT !.contributions = Append(@, entry),
                                 !.usage = @ + answer.usage, !.pending = {}]
  OBVIOUS
<1>7. PICK after : after = Observed(session, answered)
  OBVIOUS
<1>8. AdvanceCollaboration(session, state, answer) = after
  BY <1>5, <1>6, <1>7 DEF AdvanceCollaboration
<1>9. DOMAIN answered = StateFields /\ answered.topologies = state.topologies
      /\ answered.contributions = Append(state.contributions, entry)
      /\ answered.usage = state.usage + 0
  BY <1>3, <1>6 DEF Going, StateFields
<1>10. /\ after.topologies = state.topologies
       /\ after.contributions = Append(state.contributions, entry)
       /\ after.usage = state.usage + 0
  BY <1>7, <1>9, ObservedState DEF StateFields
<1>11. PICK C : state.contributions \in Seq(C)
  BY DEF Going, Within
<1>12. PICK before \in Seq(C \cup {entry}) : before = state.contributions
  BY <1>11
<1>13. PICK longer : longer = Append(before, entry)
  OBVIOUS
<1>14. entry.depth <= session.budget.depth
  BY <1>3, <1>5
<1>15. \A i \in DOMAIN longer : longer[i].depth <= session.budget.depth
  <2>1. \A i \in DOMAIN before : before[i].depth <= session.budget.depth
    BY <1>12 DEF Going, Within
  <2> QED
    BY <1>12, <1>13, <1>14, <2>1
<1>16. ASSUME NEW p \in session.peers PROVE PeerCount(after, p) <= session.budget.perPeer
  <2>1. /\ PeerCount(state, p) \in Nat /\ PeerCount(after, p) \in Nat
        /\ PeerCount(after, p) <= PeerCount(state, p) + 1
    BY <1>10, <1>11, PeerCountAfter
  <2>2. PeerCount(state, p) < session.budget.perPeer /\ session.budget.perPeer \in Nat
    BY RoomLeft DEF WellFormedSession, WellFormedBudget
  <2> QED
    BY <2>1, <2>2
<1>17. Len(longer) <= session.budget.hops /\ Len(longer) <= session.budget.contributions
  <2>1. Len(longer) = Len(before) + 1 /\ Len(before) \in Nat
    BY <1>12, <1>13
  <2>2. Len(before) < session.budget.hops /\ Len(before) < session.budget.contributions
    BY <1>12, RoomLeft
  <2>3. session.budget.hops \in Nat /\ session.budget.contributions \in Nat
    BY DEF WellFormedSession, WellFormedBudget
  <2> QED
    BY <2>1, <2>2, <2>3
<1>18. TopologyChanges(after) <= session.budget.changes /\ after.usage <= session.budget.resources
  BY <1>10 DEF Going, Within, TopologyChanges
<1>19. StateIntegrity(session, after)
  BY <1>10, <1>12, <1>13, <1>15, <1>16, <1>17, <1>18 DEF StateIntegrity
<1>20. ContributionAllowed(session, state, request, answer)
  BY <1>3, <1>4, <1>8, <1>19 DEF ContributionAllowed
<1> QED
  BY <1>1, <1>2, <1>4, <1>20 DEF CanMove

(* Every answer to a request whose parent is too deep is too deep.          *)
LEMMA CannotMove ==
  ASSUME NEW session, WellFormedSession(session), NEW state, Going(session, state),
         Termination(session, state) = {}, Stuck(session, state)
  PROVE  ~CanMove(session, state)
<1>1. session.budget.changes = 0 /\ state.pending # {}
  BY DEF Stuck
<1>2. TopologyChanges(state) = 0
  BY <1>1, RoomLeft
<1>3. PICK request \in state.pending : DepthOf(state, request.parent) > session.budget.depth
  BY DEF Stuck
<1>4. state.pending = {request} /\ RequestDue(session, state, request)
  BY <1>2, <1>3 DEF Going, InTurn
<1>5. ASSUME NEW event, EventAllowed(session, state, event) PROVE FALSE
  BY <1>1, <1>2, <1>5 DEF EventAllowed
<1>6. ASSUME NEW answer, ContributionAllowed(session, state, request, answer) PROVE FALSE
  <2>1. /\ request.parent \subseteq answer.parents
        /\ answer.parents \subseteq ContributedBefore(state)
    BY <1>6 DEF ContributionAllowed
  <2>2. /\ DepthOf(state, request.parent) \in Nat /\ DepthOf(state, answer.parents) \in Nat
        /\ DepthOf(state, request.parent) <= DepthOf(state, answer.parents)
    BY <2>1, Deeper DEF Going
  <2>3. session.budget.depth \in Nat
    BY DEF WellFormedSession, WellFormedBudget
  <2>4. DepthOf(state, answer.parents) > session.budget.depth
    BY <1>3, <2>2, <2>3
  <2>5. PICK entry :
          entry = [id |-> answer.id, peer |-> answer.peer, type |-> answer.type,
                   depth |-> DepthOf(state, answer.parents)]
    OBVIOUS
  <2>6. PICK answered :
          answered = [state EXCEPT !.contributions = Append(@, entry),
                                   !.usage = @ + answer.usage, !.pending = {}]
    OBVIOUS
  <2>7. PICK after : after = Observed(session, answered)
    OBVIOUS
  <2>8. AdvanceCollaboration(session, state, answer) = after
    BY <2>5, <2>6, <2>7 DEF AdvanceCollaboration
  <2>9. DOMAIN answered = StateFields /\ answered.contributions = Append(state.contributions, entry)
    BY <2>6 DEF Going, StateFields
  <2>10. after.contributions = Append(state.contributions, entry)
    BY <2>7, <2>9, ObservedState DEF StateFields
  <2>11. PICK C : state.contributions \in Seq(C)
    BY DEF Going, Within
  <2>12. PICK before \in Seq(C \cup {entry}) : before = state.contributions
    BY <2>11
  <2>13. PICK longer : longer = Append(before, entry)
    OBVIOUS
  <2>14. Len(before) + 1 \in DOMAIN longer /\ longer[Len(before) + 1] = entry
    BY <2>12, <2>13
  <2>15. \A i \in DOMAIN longer : longer[i].depth <= session.budget.depth
    BY <1>6, <2>8, <2>10, <2>12, <2>13 DEF ContributionAllowed, StateIntegrity
  <2>16. entry.depth <= session.budget.depth
    BY <2>14, <2>15
  <2> QED
    BY <2>2, <2>3, <2>4, <2>5, <2>16
<1> QED
  BY <1>1, <1>4, <1>5, <1>6 DEF CanMove

(* From the state the invariant describes a session can go on or is stuck.  *)
LEMMA SessionsGoOn == SessionInv => SessionsEndOnce
<1> SUFFICES ASSUME SessionInv PROVE SessionsEndOnce
  OBVIOUS
<1>1. TerminationIsFinal
  BY DEF SessionInv, Going, TerminationIsFinal
<1>2. ASSUME NEW session \in sessions, NEW state, state = Rebuilt(session),
             Termination(session, state) = {}
      PROVE  CanMove(session, state) <=> SessionOpen(session) /\ ~Stuck(session, state)
  <2>1. Going(session, state) /\ WellFormedSession(session)
    BY <1>2 DEF SessionInv
  <2>2. CanMove(session, state) => SessionOpen(session)
    BY DEF CanMove
  <2>3. Stuck(session, state) => ~CanMove(session, state)
    BY <1>2, <2>1, CannotMove
  <2>4. ASSUME SessionOpen(session), ~Stuck(session, state) PROVE CanMove(session, state)
    <3>1. CASE state.pending = {}
      BY <1>2, <2>1, <2>4, <3>1, CanAsk
    <3>2. CASE session.budget.changes # 0
      BY <1>2, <2>1, <2>4, <3>2, CanChange
    <3>3. CASE state.pending # {} /\ session.budget.changes = 0
      <4>1. TopologyChanges(state) = 0
        BY <1>2, <2>1, <3>3, RoomLeft
      <4>2. PICK request \in state.pending : RequestDue(session, state, request)
        BY <2>1, <3>3, <4>1 DEF Going, InTurn
      <4>3. request.parent \subseteq ContributedBefore(state)
        BY <4>2 DEF RequestDue
      <4>4. DepthOf(state, request.parent) \in Nat
        BY <2>1, <4>3, Deeper DEF Going
      <4>5. session.budget.depth \in Nat
        BY <2>1 DEF WellFormedSession, WellFormedBudget
      <4>6. ~(DepthOf(state, request.parent) > session.budget.depth)
        BY <2>4, <3>3, <4>2 DEF Stuck
      <4> QED
        BY <1>2, <2>1, <2>4, <4>2, <4>4, <4>5, <4>6, CanAnswer
    <3> QED
      BY <3>1, <3>2, <3>3
  <2> QED
    BY <2>2, <2>3, <2>4
<1>3. SessionsCanGoOn
  BY <1>2 DEF SessionsCanGoOn
<1> QED
  BY <1>1, <1>3 DEF SessionsEndOnce

(* A session goes on until it has reached one of its bounds, but for the    *)
(* one case that Stuck names, and then ends for that reason for good, for any number of sessions and peers, any      *)
(* budgets and however requests, answers, changes of topology and of policy *)
(* cross (collaboration/service.py:150-299).                                *)
THEOREM SessionsEnd == CollaborationSpec => []SessionsEndOnce
<1>1. CollaborationInit => SessionInv
  BY DEF CollaborationInit, SessionInv, IdsOf
<1> QED
  BY <1>1, SessionStep, SessionsGoOn, PTL DEF CollaborationSpec

-----------------------------------------------------------------------------
(* Procedures.                                                              *)

(* The steps of a method are finitely many, and unique once they are        *)
(* found in order.                                                          *)
LEMMA StepsFinite ==
  ASSUME NEW method, WellFormedMethod(method)
  PROVE  /\ IsFiniteSet(StepIds(method)) /\ Cardinality(StepIds(method)) \in Nat
         /\ CheckOrder(method) = {} => \A s, t \in Steps(method) : s.id = t.id => s = t
<1>1. PICK k \in Nat : k = Len(method.steps) /\ DOMAIN method.steps = 1 .. k
  BY DEF WellFormedMethod
<1>2. Steps(method) = {method.steps[i] : i \in 1 .. k}
  BY <1>1 DEF Steps, ToSet
<1>3. PICK f : f = [i \in 1 .. k |-> method.steps[i].id]
  OBVIOUS
<1>4. f \in Surjection(1 .. k, StepIds(method))
  BY <1>2, <1>3 DEF StepIds, Surjection
<1>5. IsFiniteSet(1 .. k) /\ Cardinality(1 .. k) = k
  <2>1. 1 \in Int /\ k \in Int /\ k - 1 + 1 = k
    OBVIOUS
  <2>2. 1 > k => k = 0
    OBVIOUS
  <2> QED
    BY <2>1, <2>2, FS_Interval
<1>6. IsFiniteSet(StepIds(method)) /\ Cardinality(StepIds(method)) \in Nat
  BY <1>4, <1>5, FS_Surjection, FS_CardinalityType
<1>7. ASSUME CheckOrder(method) = {}, NEW s \in Steps(method), NEW t \in Steps(method), s.id = t.id
      PROVE  s = t
  <2>1. Cardinality(StepIds(method)) = k
    BY <1>1, <1>7 DEF CheckOrder
  <2>2. f \in Injection(1 .. k, StepIds(method))
    BY <1>4, <1>5, <2>1, FS_SurjSameCardinalityImpliesInj
  <2>3. PICK i \in 1 .. k, j \in 1 .. k : s = method.steps[i] /\ t = method.steps[j]
    BY <1>2
  <2>4. f[i] = f[j]
    BY <1>3, <1>7, <2>3
  <2>5. i = j
    BY <2>2, <2>4 DEF Injection, IsInjective
  <2> QED
    BY <2>3, <2>5
<1> QED
  BY <1>6, <1>7

(* More steps need no less.                                                 *)
LEMMA NeedsGrow ==
  ASSUME NEW method, NEW X, NEW Y, X \subseteq Y
  PROVE  Needs(method, X) \subseteq Needs(method, Y)
BY DEF Needs

(* What is found of the ancestors of a step, round by round.                *)
FoundBy(found, method, id, rounds) ==
  found = [n \in 0 .. rounds |->
             IF n = 0 THEN Needs(method, {id}) ELSE found[n - 1] \cup Needs(method, found[n - 1])]

LEMMA AncestorsByRounds ==
  ASSUME NEW method, NEW id, NEW k \in Nat, k = Cardinality(StepIds(method))
  PROVE  \E found : /\ Ancestors(method, id) = found[k]
                    /\ found[0] = Needs(method, {id})
                    /\ \A n \in 1 .. k : found[n] = found[n - 1] \cup Needs(method, found[n - 1])
<1> DEFINE U == UNION {s.needs : s \in Steps(method)}
           next(X) == X \cup Needs(method, X)
<1>1. \A X : Needs(method, X) \subseteq U
  BY DEF Needs
<1> HIDE DEF U
<1>2. PICK step : step = [n \in 1 .. k |-> [X \in SUBSET U |-> next(X)]]
  OBVIOUS
<1>3. StepsWithin(step, k, SUBSET U)
  BY <1>1, <1>2 DEF StepsWithin
<1>4. PICK f : IsRun(f, Needs(method, {id}), step, k, SUBSET U)
  BY <1>1, <1>3, RunExists
<1>5. FoundBy(f, method, id, k)
  <2>1. f = [n \in 0 .. k |-> f[n]] /\ f[0] = Needs(method, {id})
    BY <1>4 DEF IsRun
  <2>2. ASSUME NEW n \in 1 .. k PROVE f[n] = next(f[n - 1])
    <3>1. n - 1 \in 0 .. k
      OBVIOUS
    <3>2. PICK X \in SUBSET U : X = f[n - 1]
      BY <1>4, <3>1 DEF IsRun
    <3>3. f[n] = step[n][X]
      BY <1>4, <3>2 DEF IsRun
    <3> HIDE DEF next
    <3> QED
      BY <1>2, <3>2, <3>3
  <2>3. \A n \in 0 .. k : n # 0 => n \in 1 .. k
    OBVIOUS
  <2>4. \A n \in 0 .. k : f[n] = IF n = 0 THEN Needs(method, {id}) ELSE next(f[n - 1])
    BY <2>1, <2>2, <2>3
  <2> QED
    BY <2>1, <2>4 DEF FoundBy
<1>6. PICK found : FoundBy(found, method, id, k) /\ Ancestors(method, id) = found[k]
  BY <1>5 DEF FoundBy, Ancestors
<1>7. /\ found[0] = Needs(method, {id})
      /\ \A n \in 1 .. k : found[n] = found[n - 1] \cup Needs(method, found[n - 1])
  <2>1. 0 \in 0 .. k /\ \A n \in 1 .. k : n \in 0 .. k /\ n # 0
    OBVIOUS
  <2> QED
    BY <1>6, <2>1 DEF FoundBy
<1> QED
  BY <1>6, <1>7

(* After as many rounds as there are steps nothing more is found: the       *)
(* ancestors of a step are the least set that has what the step needs, and  *)
(* what they need themselves.                                               *)
LEMMA AncestorsClosed ==
  ASSUME NEW method, WellFormedMethod(method),
         \A s \in Steps(method) : s.needs \subseteq StepIds(method), NEW id
  PROVE  /\ Ancestors(method, id) \subseteq StepIds(method)
         /\ Needs(method, {id}) \subseteq Ancestors(method, id)
         /\ Needs(method, Ancestors(method, id)) \subseteq Ancestors(method, id)
         /\ \A D : Needs(method, {id}) \subseteq D /\ Needs(method, D) \subseteq D =>
                     Ancestors(method, id) \subseteq D
<1>1. PICK k \in Nat : k = Cardinality(StepIds(method)) /\ IsFiniteSet(StepIds(method))
  BY StepsFinite
<1>2. PICK found : /\ Ancestors(method, id) = found[k]
                   /\ found[0] = Needs(method, {id})
                   /\ \A n \in 1 .. k : found[n] = found[n - 1] \cup Needs(method, found[n - 1])
  BY <1>1, AncestorsByRounds
<1>3. \A X : Needs(method, X) \subseteq StepIds(method)
  BY DEF Needs
<1> DEFINE T == {n \in 0 .. k :
             /\ found[n] \subseteq StepIds(method) /\ Needs(method, {id}) \subseteq found[n]
             /\ Needs(method, found[n]) \subseteq found[n] \/ Cardinality(found[n]) >= n
             /\ \A D : Needs(method, {id}) \subseteq D /\ Needs(method, D) \subseteq D =>
                         found[n] \subseteq D}
<1>4. 0 \in T
  <2>1. IsFiniteSet(found[0]) /\ Cardinality(found[0]) \in Nat
    BY <1>1, <1>2, <1>3, FS_Subset, FS_CardinalityType
  <2>2. found[0] = Needs(method, {id}) /\ found[0] \subseteq StepIds(method)
    BY <1>2, <1>3
  <2>3. 0 \in 0 .. k /\ Cardinality(found[0]) >= 0
    BY <2>1
  <2> QED
    BY <2>2, <2>3
<1>5. ASSUME NEW n \in 1 .. k, n - 1 \in T PROVE n \in T
  <2>1. PICK X : X = found[n - 1]
    OBVIOUS
  <2>2. PICK Y : Y = found[n]
    OBVIOUS
  <2>3. Y = X \cup Needs(method, X)
    BY <1>2, <2>1, <2>2
  <2>4. /\ X \subseteq StepIds(method) /\ Needs(method, {id}) \subseteq X
        /\ Needs(method, X) \subseteq X \/ Cardinality(X) >= n - 1
        /\ \A D : Needs(method, {id}) \subseteq D /\ Needs(method, D) \subseteq D => X \subseteq D
    BY <1>5, <2>1
  <2>5. Y \subseteq StepIds(method) /\ Needs(method, {id}) \subseteq Y
    BY <1>3, <2>3, <2>4
  <2>6. \A D : Needs(method, {id}) \subseteq D /\ Needs(method, D) \subseteq D => Y \subseteq D
    BY <2>3, <2>4, NeedsGrow
  <2>7. Needs(method, Y) \subseteq Y \/ Cardinality(Y) >= n
    <3>1. CASE Needs(method, X) \subseteq X
      <4>1. Y = X
        BY <2>3, <3>1
      <4> QED
        BY <3>1, <4>1
    <3>2. CASE ~(Needs(method, X) \subseteq X)
      <4>1. X \subseteq Y /\ X # Y /\ Cardinality(X) >= n - 1
        BY <2>3, <2>4, <3>2
      <4>2. IsFiniteSet(Y) /\ Cardinality(Y) \in Nat
        BY <1>1, <2>5, FS_Subset, FS_CardinalityType
      <4>3. Cardinality(X) <= Cardinality(Y) /\ Cardinality(X) # Cardinality(Y) /\ Cardinality(X) \in Nat
        BY <4>1, <4>2, FS_Subset, FS_CardinalityType
      <4> QED
        BY <4>1, <4>2, <4>3
    <3> QED
      BY <3>1, <3>2
  <2>8. n \in 0 .. k
    OBVIOUS
  <2> QED
    BY <2>2, <2>5, <2>6, <2>7, <2>8
<1>6. \A n \in 0 .. k : n \in T
  <2> HIDE DEF T
  <2> QED
    BY <1>4, <1>5, EveryNumber
<1>7. PICK A : A = found[k]
  OBVIOUS
<1>8. /\ A \subseteq StepIds(method) /\ Needs(method, {id}) \subseteq A
      /\ Needs(method, A) \subseteq A \/ Cardinality(A) >= k
      /\ \A D : Needs(method, {id}) \subseteq D /\ Needs(method, D) \subseteq D => A \subseteq D
  <2>1. k \in T
    BY <1>6
  <2> QED
    BY <1>7, <2>1
<1>9. Needs(method, A) \subseteq A
  <2>1. CASE Cardinality(A) >= k
    <3>1. Cardinality(A) <= k /\ Cardinality(A) \in Nat
      BY <1>1, <1>8, FS_Subset, FS_CardinalityType
    <3>2. Cardinality(A) = Cardinality(StepIds(method))
      BY <1>1, <2>1, <3>1
    <3>3. A = StepIds(method)
      BY <1>1, <1>8, <3>2, FS_Subset
    <3> QED
      BY <1>3, <3>3
  <2> QED
    BY <1>8, <2>1
<1> QED
  BY <1>2, <1>7, <1>8, <1>9

(* Whatever steps are done, of those that remain one has all it needs: the  *)
(* one with the fewest ancestors.                                           *)
LEMMA StepIsReady ==
  ASSUME NEW method, WellFormedMethod(method), CheckDependencies(method) = {},
         NEW done, done \subseteq StepIds(method), done # StepIds(method)
  PROVE  \E s \in Steps(method) : s.id \notin done /\ s.needs \subseteq done
<1>1. \A s \in Steps(method) : /\ s.needs \subseteq StepIds(method)
                               /\ s.id \notin Ancestors(method, s.id)
  BY DEF CheckDependencies
<1>2. \A id \in StepIds(method) : id \notin Ancestors(method, id)
  BY <1>1 DEF StepIds
<1> DEFINE count(id) == Cardinality(Ancestors(method, id))
<1>3. \A id : IsFiniteSet(Ancestors(method, id)) /\ count(id) \in Nat
  BY <1>1, StepsFinite, AncestorsClosed, FS_Subset, FS_CardinalityType
<1>4. PICK id \in StepIds(method) \ done : \A other \in StepIds(method) \ done : count(id) <= count(other)
  <2> HIDE DEF count
  <2>1. PICK C : C = {count(id) : id \in StepIds(method) \ done}
    OBVIOUS
  <2>2. C \subseteq Nat /\ C # {}
    BY <1>3, <2>1
  <2>3. PICK c \in C : \A d \in C : c <= d
    BY <2>2, LeastNatural
  <2> QED
    BY <2>1, <2>3
<1>5. Needs(method, {id}) \subseteq done
  <2> SUFFICES ASSUME NEW n \in Needs(method, {id}) \ done PROVE FALSE
    OBVIOUS
  <2>1. n \in StepIds(method) \ done
    BY <1>1 DEF Needs
  <2>2. n \in Ancestors(method, id) /\ n \notin Ancestors(method, n)
    BY <1>1, <1>2, <2>1, AncestorsClosed
  <2>3. Needs(method, {n}) \subseteq Ancestors(method, id)
    <3>1. Needs(method, {n}) \subseteq Needs(method, Ancestors(method, id))
      BY <2>2, NeedsGrow
    <3> QED
      BY <1>1, <3>1, AncestorsClosed
  <2>4. Ancestors(method, n) \subseteq Ancestors(method, id)
    BY <1>1, <2>3, AncestorsClosed
  <2>5. count(n) <= count(id) /\ count(n) # count(id)
    BY <1>3, <2>2, <2>4, FS_Subset
  <2> QED
    BY <1>3, <1>4, <2>1, <2>5
<1>6. PICK s \in Steps(method) : s.id = id
  BY <1>4 DEF StepIds
<1>7. s.needs \subseteq done
  BY <1>5, <1>6 DEF Needs
<1> QED
  BY <1>4, <1>6, <1>7

(* What a step that is ready uses is in the catalog or made by a step that  *)
(* is done.                                                                 *)
LEMMA InputsExist ==
  ASSUME NEW method, WellFormedMethod(method), NEW catalogs, WellFormedCatalogs(catalogs),
         CheckOrder(method) = {}, CheckDependencies(method) = {}, CheckInputs(method, catalogs) = {},
         NEW done, Needs(method, done) \subseteq done,
         NEW s \in Steps(method), s.needs \subseteq done, NEW a \in s.inputs
  PROVE  \/ a \in DOMAIN catalogs.artifacts /\ catalogs.artifacts[a] = "PRESENT"
         \/ \E t \in Steps(method) : t.id \in done /\ a \in t.outputs
<1>1. \A t \in Steps(method) : t.needs \subseteq StepIds(method)
  BY DEF CheckDependencies
<1>2. CASE Supplied(method, s, a)
  <2>1. PICK id \in Ancestors(method, s.id) : id \in Producers(method, a)
    BY <1>2 DEF Supplied
  <2>2. Needs(method, {s.id}) \subseteq done
    <3>1. \A t \in Steps(method) : t.id = s.id => t = s
      BY StepsFinite
    <3> QED
      BY <3>1 DEF Needs
  <2>3. id \in done
    BY <1>1, <2>1, <2>2, AncestorsClosed
  <2> QED
    BY <2>1, <2>3 DEF Producers
<1>3. CASE ~Supplied(method, s, a)
  <2>1. PICK fact : fact = Fact(catalogs.artifacts, a, catalogs.complete)
    OBVIOUS
  <2>2. a \in UNION {{b \in t.inputs : ~Supplied(method, t, b)} : t \in Steps(method)}
    BY <1>3
  <2>3. Finding(fact) = {}
    BY <2>1, <2>2 DEF CheckInputs
  <2>4. fact \in Facts
    BY <2>1 DEF Fact, Facts, WellFormedCatalogs
  <2>5. fact = "PRESENT"
    BY <2>3, <2>4 DEF Finding, Facts
  <2> QED
    BY <2>1, <2>5 DEF Fact
<1> QED
  BY <1>2, <1>3

(* A valid compilation has no finding.                                      *)
LEMMA ValidIsSound ==
  ASSUME NEW request, WellFormedMethod(request.method),
         WellFormedCatalogs(SourceAt(request.catalogs)), CompiledStatus(request) = "VALID"
  PROVE  CanBeCarriedOut(request)
<1>1. PICK method : method = request.method
  OBVIOUS
<1>2. PICK catalogs : catalogs = SourceAt(request.catalogs)
  OBVIOUS
<1>3. CompilationFindings(request) = {}
  BY DEF CompiledStatus
<1>4. /\ CheckOrder(method) = {} /\ CheckDependencies(method) = {}
      /\ CheckInputs(method, catalogs) = {} /\ CheckTermination(method) = {}
  BY <1>1, <1>2, <1>3 DEF CompilationFindings
<1>5. ASSUME NEW done \in SUBSET StepIds(method), Needs(method, done) \subseteq done,
             done # StepIds(method)
      PROVE  {s \in Steps(method) : s.id \notin done /\ s.needs \subseteq done} # {}
  BY <1>1, <1>4, <1>5, StepIsReady
<1>6. ASSUME NEW done \in SUBSET StepIds(method), Needs(method, done) \subseteq done,
             NEW s \in Steps(method), s.needs \subseteq done
      PROVE  s.inputs \subseteq
               {a \in DOMAIN catalogs.artifacts : catalogs.artifacts[a] = "PRESENT"} \cup
               UNION {t.outputs : t \in {u \in Steps(method) : u.id \in done}}
  BY <1>1, <1>2, <1>4, <1>6, InputsExist
<1>7. \A id \in StepIds(method) : id \notin RecoveryFrom(method, id)
  BY <1>4 DEF CheckTermination
<1> QED
  BY <1>1, <1>2, <1>5, <1>6, <1>7 DEF CanBeCarriedOut

(* What is known of an entry of the log: its sources were there, and what   *)
(* was compiled is what verification compiles.                              *)
Cataloged(request) ==
  request.catalogs \in PlacesOf("SOURCE") /\ SourceAt(request.catalogs).kind = "CATALOGS"
EntryHolds(i) ==
  LET e == procedureLog[i]
  IN /\ e.kind = "SOURCE" => \E source \in SourcePool : source.id = e.id
     /\ e.kind = "COMPILATION" => /\ e.request.method \in MethodPool /\ Cataloged(e.request)
                                  /\ SourcesReplay(e.request, i)
                                  /\ e.status = CompiledStatus(e.request)
     /\ e.kind = "OUTCOME" => /\ e.compilation \in 1 .. i - 1
                              /\ procedureLog[e.compilation].policy = e.policy
                              /\ \A artifact \in e.evidence :
                                   \E j \in Observations : j < i /\ SourceAt(j).artifact = artifact
                              /\ \A budget \in e.budgets :
                                   \E j \in PlacesOf("BUDGET") : j < i /\ procedureLog[j].id = budget
     /\ e.kind = "BINDING" => /\ e.compilation \in 1 .. i - 1
                              /\ procedureLog[e.compilation].kind = "COMPILATION"
                              /\ BindingReplays(i)
ProcedureLogIsSequence == \E S : procedureLog \in Seq(S)
ProcedureInv == ProcedureLogIsSequence /\ \A i \in DOMAIN procedureLog : EntryHolds(i)

GrowsBy(e) == procedureLog' = Append(procedureLog, e)

(* The log grows at its end.                                                *)
LEMMA ProcedureLogGrows ==
  ASSUME ProcedureLogIsSequence, NEW e, GrowsBy(e)
  PROVE  /\ ProcedureLogIsSequence'
         /\ Len(procedureLog) \in Nat
         /\ DOMAIN procedureLog = 1 .. Len(procedureLog)
         /\ DOMAIN procedureLog' = 1 .. Len(procedureLog) + 1
         /\ procedureLog'[Len(procedureLog) + 1] = e
         /\ \A i \in 1 .. Len(procedureLog) :
              /\ procedureLog'[i] = procedureLog[i]
              /\ SourceAt(i)' = SourceAt(i) /\ ProfileAt(i)' = ProfileAt(i)
<1>1. PICK S : procedureLog \in Seq(S)
  BY DEF ProcedureLogIsSequence
<1>2. /\ procedureLog' \in Seq(S \cup {e})
      /\ Len(procedureLog) \in Nat
      /\ DOMAIN procedureLog = 1 .. Len(procedureLog)
      /\ DOMAIN procedureLog' = 1 .. Len(procedureLog) + 1
      /\ procedureLog'[Len(procedureLog) + 1] = e
      /\ \A i \in 1 .. Len(procedureLog) : procedureLog'[i] = procedureLog[i]
  BY <1>1, Appended DEF GrowsBy
<1>3. ProcedureLogIsSequence'
  BY <1>2 DEF ProcedureLogIsSequence
<1>4. \A i \in 1 .. Len(procedureLog) : SourceAt(i)' = SourceAt(i) /\ ProfileAt(i)' = ProfileAt(i)
  BY <1>2 DEF SourceAt, ProfileAt
<1> QED
  BY <1>2, <1>3, <1>4

(* No entry changes its kind.                                               *)
LEMMA KindsStay ==
  ASSUME ProcedureLogIsSequence, NEW e, GrowsBy(e)
  PROVE  \A i \in 1 .. Len(procedureLog) :
           /\ \A kind : i \in PlacesOf(kind)' <=> i \in PlacesOf(kind)
           /\ i \in Snapshots' <=> i \in Snapshots
           /\ i \in Observations' <=> i \in Observations
<1>1. ASSUME NEW i \in 1 .. Len(procedureLog), NEW kind
      PROVE  i \in PlacesOf(kind)' <=> i \in PlacesOf(kind)
  <2>1. /\ i \in DOMAIN procedureLog /\ i \in DOMAIN procedureLog'
        /\ procedureLog'[i] = procedureLog[i]
    BY ProcedureLogGrows
  <2> QED
    BY <2>1 DEF PlacesOf
<1> QED
  BY <1>1, ProcedureLogGrows DEF Snapshots, Observations

(* What was rebuilt from the log before an entry is rebuilt later.          *)
LEMMA SourcesReplayStays ==
  ASSUME ProcedureLogIsSequence, NEW e, GrowsBy(e), NEW request,
         NEW i \in 1 .. Len(procedureLog) + 1, SourcesReplay(request, i)
  PROVE  SourcesReplay(request, i)'
<1>1. Len(procedureLog) \in Nat
  BY ProcedureLogGrows
<1>2. {request.catalogs} \cup ProfileReceipts(request) \cup RequestSnapshots(request) \subseteq 1 .. i - 1
  BY DEF SourcesReplay
<1>3. \A j \in 1 .. i - 1 : j \in 1 .. Len(procedureLog)
  BY <1>1
<1>4. ASSUME NEW snapshot \in RequestSnapshots(request) PROVE CurrentBefore(snapshot, i)'
  <2>1. CurrentBefore(snapshot, i) /\ snapshot \in 1 .. Len(procedureLog)
    BY <1>2, <1>3 DEF SourcesReplay
  <2>2. PICK family : family = {s \in Snapshots : s < i /\ SourceAt(s).family = SourceAt(snapshot).family}
    OBVIOUS
  <2>3. ASSUME NEW s PROVE s \in family <=>
          s \in Snapshots' /\ s < i /\ SourceAt(s)'.family = SourceAt(snapshot)'.family
    <3>1. s \in Snapshots' \/ s \in Snapshots => s \in Nat \ {0}
      BY ProcedureLogGrows DEF Snapshots, PlacesOf
    <3>2. s \in Snapshots' \/ s \in Snapshots => (s < i => s \in 1 .. Len(procedureLog))
      BY <1>1, <3>1
    <3>3. s \in 1 .. Len(procedureLog) =>
            (s \in Snapshots' <=> s \in Snapshots) /\ SourceAt(s)' = SourceAt(s)
      BY KindsStay, ProcedureLogGrows
    <3>4. SourceAt(snapshot)' = SourceAt(snapshot)
      BY <2>1, ProcedureLogGrows
    <3> QED
      BY <2>2, <3>2, <3>3, <3>4
  <2>4. family = {s \in Snapshots' : s < i /\ SourceAt(s)'.family = SourceAt(snapshot)'.family}
    BY <2>3
  <2>5. snapshot \in family /\ snapshot = Max(family)
    BY <2>1, <2>2 DEF CurrentBefore
  <2> QED
    BY <2>4, <2>5 DEF CurrentBefore
<1>5. (procedureLog[request.catalogs].id \in SourceAt(request.snapshot).binds)'
  <2>1. request.catalogs \in 1 .. Len(procedureLog) /\ request.snapshot \in 1 .. Len(procedureLog)
    BY <1>2, <1>3 DEF RequestSnapshots
  <2> QED
    BY <2>1, ProcedureLogGrows DEF SourcesReplay
<1> QED
  BY <1>2, <1>4, <1>5 DEF SourcesReplay, ProfileReceipts, RequestSnapshots

(* The compiler finds the same when it runs again on the same receipts.     *)
LEMMA StatusStays ==
  ASSUME ProcedureLogIsSequence, NEW e, GrowsBy(e), NEW request,
         NEW i \in 1 .. Len(procedureLog) + 1, SourcesReplay(request, i)
  PROVE  CompiledStatus(request)' = CompiledStatus(request)
<1>1. Len(procedureLog) \in Nat
  BY ProcedureLogGrows
<1>2. {request.catalogs} \cup ProfileReceipts(request) \cup RequestSnapshots(request) \subseteq 1 .. i - 1
  BY DEF SourcesReplay
<1>3. /\ request.catalogs \in 1 .. Len(procedureLog)
      /\ \A g \in request.grounded : g.profile \in 1 .. Len(procedureLog) /\ g.snapshot \in 1 .. Len(procedureLog)
  <2>1. \A j \in 1 .. i - 1 : j \in 1 .. Len(procedureLog)
    BY <1>1
  <2>2. \A g \in request.grounded :
          g.profile \in ProfileReceipts(request) /\ g.snapshot \in RequestSnapshots(request)
    BY DEF ProfileReceipts, RequestSnapshots
  <2> QED
    BY <1>2, <2>1, <2>2
<1>4. /\ SourceAt(request.catalogs)' = SourceAt(request.catalogs)
      /\ \A g \in request.grounded : /\ ProfileAt(g.profile)' = ProfileAt(g.profile)
                                     /\ SourceAt(g.snapshot)' = SourceAt(g.snapshot)
  BY <1>3, ProcedureLogGrows
<1>5. ASSUME NEW c PROVE CapabilityFinding(request, c)' = CapabilityFinding(request, c)
  <2>1. {Disposition(ProfileAt(g.profile)', c, SourceAt(g.snapshot)'.id) :
           g \in {h \in request.grounded : h.capability = c}} =
        {Disposition(ProfileAt(g.profile), c, SourceAt(g.snapshot).id) :
           g \in {h \in request.grounded : h.capability = c}}
    BY <1>4
  <2> QED
    BY <2>1 DEF CapabilityFinding
<1>6. CheckCapabilities(request)' = CheckCapabilities(request)
  BY <1>5 DEF CheckCapabilities
<1>7. CompilationFindings(request)' = CompilationFindings(request)
  BY <1>4, <1>6 DEF CompilationFindings
<1> QED
  BY <1>7 DEF CompiledStatus

(* What is known of an entry stays known.                                   *)
LEMMA EntryStays ==
  ASSUME ProcedureLogIsSequence, NEW e, GrowsBy(e), NEW i \in 1 .. Len(procedureLog), EntryHolds(i)
  PROVE  EntryHolds(i)'
<1>1. Len(procedureLog) \in Nat /\ procedureLog'[i] = procedureLog[i]
  BY ProcedureLogGrows
<1>2. PICK entry : entry = procedureLog[i]
  OBVIOUS
<1>3. entry.kind = "COMPILATION" =>
        /\ entry.request.method \in MethodPool /\ Cataloged(entry.request)'
        /\ SourcesReplay(entry.request, i)' /\ entry.status = CompiledStatus(entry.request)'
  <2> SUFFICES ASSUME entry.kind = "COMPILATION"
               PROVE  /\ entry.request.method \in MethodPool /\ Cataloged(entry.request)'
                      /\ SourcesReplay(entry.request, i)' /\ entry.status = CompiledStatus(entry.request)'
    OBVIOUS
  <2>1. PICK request : request = entry.request
    OBVIOUS
  <2>2. /\ request.method \in MethodPool /\ Cataloged(request) /\ SourcesReplay(request, i)
        /\ entry.status = CompiledStatus(request)
    BY <1>2, <2>1 DEF EntryHolds
  <2>3. request.catalogs \in 1 .. Len(procedureLog)
    BY <2>2, ProcedureLogGrows DEF Cataloged, PlacesOf
  <2>4. Cataloged(request)'
    BY <2>2, <2>3, KindsStay, ProcedureLogGrows DEF Cataloged
  <2>5. i \in 1 .. Len(procedureLog) + 1
    BY <1>1
  <2>6. SourcesReplay(request, i)' /\ CompiledStatus(request)' = CompiledStatus(request)
    BY <2>2, <2>5, SourcesReplayStays, StatusStays
  <2> QED
    BY <2>1, <2>2, <2>4, <2>6
<1>4. entry.kind = "OUTCOME" =>
        /\ entry.compilation \in 1 .. i - 1
        /\ procedureLog'[entry.compilation].policy = entry.policy
        /\ \A artifact \in entry.evidence :
             \E j \in Observations' : j < i /\ SourceAt(j)'.artifact = artifact
        /\ \A budget \in entry.budgets :
             \E j \in PlacesOf("BUDGET")' : j < i /\ procedureLog'[j].id = budget
  <2> SUFFICES ASSUME entry.kind = "OUTCOME"
               PROVE  /\ entry.compilation \in 1 .. i - 1
                      /\ procedureLog'[entry.compilation].policy = entry.policy
                      /\ \A artifact \in entry.evidence :
                           \E j \in Observations' : j < i /\ SourceAt(j)'.artifact = artifact
                      /\ \A budget \in entry.budgets :
                           \E j \in PlacesOf("BUDGET")' : j < i /\ procedureLog'[j].id = budget
    OBVIOUS
  <2>1. /\ entry.compilation \in 1 .. i - 1
        /\ procedureLog[entry.compilation].policy = entry.policy
        /\ \A artifact \in entry.evidence :
             \E j \in Observations : j < i /\ SourceAt(j).artifact = artifact
        /\ \A budget \in entry.budgets :
             \E j \in PlacesOf("BUDGET") : j < i /\ procedureLog[j].id = budget
    BY <1>2 DEF EntryHolds
  <2>2. entry.compilation \in 1 .. Len(procedureLog)
    BY <1>1, <2>1
  <2>3. /\ \A j \in Observations : j \in 1 .. Len(procedureLog)
        /\ \A j \in PlacesOf("BUDGET") : j \in 1 .. Len(procedureLog)
    BY ProcedureLogGrows DEF Observations, PlacesOf
  <2>4. /\ \A j \in Observations : j \in Observations' /\ SourceAt(j)' = SourceAt(j)
        /\ \A j \in PlacesOf("BUDGET") : j \in PlacesOf("BUDGET")' /\ procedureLog'[j] = procedureLog[j]
    BY <2>3, KindsStay, ProcedureLogGrows
  <2>5. procedureLog'[entry.compilation] = procedureLog[entry.compilation]
    BY <2>2, ProcedureLogGrows
  <2> QED
    BY <2>1, <2>4, <2>5
<1>5. entry.kind = "BINDING" =>
        /\ entry.compilation \in 1 .. i - 1
        /\ procedureLog'[entry.compilation].kind = "COMPILATION"
        /\ BindingReplays(i)'
  <2> SUFFICES ASSUME entry.kind = "BINDING"
               PROVE  /\ entry.compilation \in 1 .. i - 1
                      /\ procedureLog'[entry.compilation].kind = "COMPILATION"
                      /\ BindingReplays(i)'
    OBVIOUS
  <2>1. /\ entry.compilation \in 1 .. i - 1
        /\ procedureLog[entry.compilation].kind = "COMPILATION"
        /\ BindingReplays(i)
    BY <1>2 DEF EntryHolds
  <2>2. entry.compilation \in 1 .. Len(procedureLog) /\ i \in 1 .. Len(procedureLog) + 1
    BY <1>1, <2>1
  <2>3. procedureLog'[entry.compilation] = procedureLog[entry.compilation]
    BY <2>2, ProcedureLogGrows
  <2>4. PICK request : request = procedureLog[entry.compilation].request
    OBVIOUS
  <2>5. /\ SourcesReplay(request, i) /\ CompiledStatus(request) = "VALID"
        /\ procedureLog[entry.compilation].policy = entry.policy
        /\ entry.subtasks = StepIds(request.method)
    BY <1>2, <2>1, <2>4 DEF BindingReplays
  <2>6. SourcesReplay(request, i)' /\ CompiledStatus(request)' = "VALID"
    BY <2>2, <2>5, SourcesReplayStays, StatusStays
  <2>7. BindingReplays(i)'
    BY <1>1, <1>2, <2>3, <2>4, <2>5, <2>6 DEF BindingReplays
  <2> QED
    BY <2>1, <2>3, <2>7
<1>6. entry.kind = "SOURCE" => \E source \in SourcePool : source.id = entry.id
  BY <1>2 DEF EntryHolds
<1> QED
  BY <1>1, <1>2, <1>3, <1>4, <1>5, <1>6 DEF EntryHolds

(* Only the entry appended is new.                                          *)
LEMMA OneMoreHolds ==
  ASSUME ProcedureInv, NEW e, GrowsBy(e), NEW i, i = Len(procedureLog) + 1, EntryHolds(i)'
  PROVE  ProcedureInv'
<1>1. ProcedureLogIsSequence
  BY DEF ProcedureInv
<1>2. /\ ProcedureLogIsSequence' /\ Len(procedureLog) \in Nat
      /\ DOMAIN procedureLog = 1 .. Len(procedureLog)
      /\ DOMAIN procedureLog' = 1 .. Len(procedureLog) + 1
  BY <1>1, ProcedureLogGrows
<1>3. ASSUME NEW j \in DOMAIN procedureLog' PROVE EntryHolds(j)'
  <2>1. CASE j \in 1 .. Len(procedureLog)
    BY <1>1, <1>2, <2>1, EntryStays DEF ProcedureInv
  <2>2. CASE j = i
    BY <2>2
  <2> QED
    BY <1>2, <2>1, <2>2
<1> QED
  BY <1>2, <1>3 DEF ProcedureInv

(* What is current when it is submitted is current before its entry.        *)
LEMMA CurrentSourcesReplay ==
  ASSUME ProcedureLogIsSequence, NEW e, GrowsBy(e), NEW request, SourcesCurrent(request),
         NEW i, i = Len(procedureLog) + 1
  PROVE  /\ SourcesReplay(request, i)' /\ Cataloged(request)'
         /\ CompiledStatus(request)' = CompiledStatus(request)
<1>1. Len(procedureLog) \in Nat /\ i \in 1 .. Len(procedureLog) + 1
  BY ProcedureLogGrows
<1>2. \A kind : PlacesOf(kind) \subseteq 1 .. i - 1
  BY <1>1, ProcedureLogGrows DEF PlacesOf
<1>3. /\ Cataloged(request) /\ ProfileReceipts(request) \subseteq PlacesOf("PROFILE")
      /\ \A snapshot \in RequestSnapshots(request) : Newest(snapshot)
      /\ procedureLog[request.catalogs].id \in SourceAt(request.snapshot).binds
  BY DEF SourcesCurrent, Cataloged
<1>4. Snapshots \subseteq 1 .. i - 1
  BY <1>2 DEF Snapshots
<1>5. \A snapshot \in RequestSnapshots(request) : snapshot \in Snapshots
  BY <1>3 DEF Newest
<1>6. {request.catalogs} \cup ProfileReceipts(request) \cup RequestSnapshots(request) \subseteq 1 .. i - 1
  BY <1>2, <1>3, <1>4, <1>5 DEF Cataloged
<1>7. ASSUME NEW snapshot \in RequestSnapshots(request) PROVE CurrentBefore(snapshot, i)
  <2>1. PICK family : family = {s \in Snapshots : s < i /\ SourceAt(s).family = SourceAt(snapshot).family}
    OBVIOUS
  <2>2. snapshot \in family
    <3>1. snapshot \in Snapshots /\ snapshot \in 1 .. i - 1
      BY <1>4, <1>5
    <3>2. snapshot < i
      BY <1>1, <3>1
    <3> QED
      BY <2>1, <3>1, <3>2
  <2>3. \A other \in family : other \in Nat /\ other <= snapshot
    BY <1>1, <1>3, <1>4, <2>1 DEF Newest
  <2>4. snapshot = Max(family)
    <3>1. \A m \in family : (\A other \in family : m >= other) => m = snapshot
      BY <2>2, <2>3
    <3>2. \A other \in family : snapshot >= other
      BY <2>2, <2>3
    <3> QED
      BY <2>2, <3>1, <3>2 DEF Max
  <2> QED
    BY <2>1, <2>2, <2>4 DEF CurrentBefore
<1>8. SourcesReplay(request, i)
  BY <1>3, <1>6, <1>7 DEF SourcesReplay
<1>9. request.catalogs \in 1 .. Len(procedureLog)
  BY <1>1, <1>6
<1>10. Cataloged(request)'
  BY <1>3, <1>9, KindsStay, ProcedureLogGrows DEF Cataloged
<1> QED
  BY <1>1, <1>8, <1>10, SourcesReplayStays, StatusStays

(* Each handler appends an entry that verification accepts.                 *)
LEMMA ProcedureStep ==
  ASSUME ProcedureInv, [ProcedureNext]_procedureVars
  PROVE  ProcedureInv'
<1>1. ProcedureLogIsSequence /\ \A j \in DOMAIN procedureLog : EntryHolds(j)
  BY DEF ProcedureInv
<1>2. PICK i : i = Len(procedureLog) + 1
  OBVIOUS
<1>3. ASSUME NEW e, GrowsBy(e), e.kind \in {"POLICY", "PROFILE", "BUDGET"} PROVE ProcedureInv'
  <2>1. procedureLog'[i] = e
    BY <1>1, <1>2, <1>3, ProcedureLogGrows
  <2>2. EntryHolds(i)'
    BY <1>3, <2>1 DEF EntryHolds
  <2> QED
    BY <1>2, <1>3, <2>2, OneMoreHolds
<1>4. ASSUME NEW policy, ProcedurePolicyMoves(policy) PROVE ProcedureInv'
  <2>1. PICK e : GrowsBy(e) /\ e.kind = "POLICY"
    BY <1>4 DEF ProcedurePolicyMoves, GrowsBy
  <2> QED
    BY <1>3, <2>1
<1>5. ASSUME NEW p, RecordSourceProfile(p) PROVE ProcedureInv'
  <2>1. PICK e : GrowsBy(e) /\ e.kind = "PROFILE"
    BY <1>5 DEF RecordSourceProfile, Record, GrowsBy
  <2> QED
    BY <1>3, <2>1
<1>6. ASSUME NEW id, RecordPlanBudget(id) PROVE ProcedureInv'
  <2>1. PICK e : GrowsBy(e) /\ e.kind = "BUDGET"
    BY <1>6 DEF RecordPlanBudget, Record, GrowsBy
  <2> QED
    BY <1>3, <2>1
<1>7. ASSUME NEW source \in SourcePool, AddProcedureSource(source) PROVE ProcedureInv'
  <2>1. PICK e : GrowsBy(e) /\ e.kind = "SOURCE" /\ e.id = source.id
    BY <1>7 DEF AddProcedureSource, Record, GrowsBy
  <2>2. procedureLog'[i] = e
    BY <1>1, <1>2, <2>1, ProcedureLogGrows
  <2>3. EntryHolds(i)'
    BY <2>1, <2>2 DEF EntryHolds
  <2> QED
    BY <1>2, <2>1, <2>3, OneMoreHolds
<1>8. ASSUME NEW id, NEW request, request.method \in MethodPool, RecordProcedureCompilation(id, request)
      PROVE  ProcedureInv'
  <2>1. PICK status : status = CompiledStatus(request)
    OBVIOUS
  <2>2. PICK e : /\ GrowsBy(e) /\ e.kind = "COMPILATION" /\ e.request = request /\ e.status = status
    BY <1>8, <2>1 DEF RecordProcedureCompilation, Record, GrowsBy
  <2>3. procedureLog'[i] = e
    BY <1>1, <1>2, <2>2, ProcedureLogGrows
  <2>4. SourcesCurrent(request)
    BY <1>8 DEF RecordProcedureCompilation
  <2>5. SourcesReplay(request, i)' /\ Cataloged(request)' /\ status = CompiledStatus(request)'
    BY <1>1, <1>2, <2>1, <2>2, <2>4, CurrentSourcesReplay
  <2>6. EntryHolds(i)'
    BY <1>8, <2>2, <2>3, <2>5 DEF EntryHolds
  <2> QED
    BY <1>2, <2>2, <2>6, OneMoreHolds
<1>9. ASSUME NEW id, NEW place \in PlacesOf("COMPILATION"), NEW evidence, NEW budgets,
             RecordMethodDirectionOutcome(id, place, evidence, budgets)
      PROVE  ProcedureInv'
  <2>1. PICK policy : policy = procedurePolicy
    OBVIOUS
  <2>2. PICK e : /\ GrowsBy(e) /\ e.kind = "OUTCOME" /\ e.policy = policy /\ e.compilation = place
                 /\ e.evidence = evidence /\ e.budgets = budgets
    BY <1>9, <2>1 DEF RecordMethodDirectionOutcome, Record, GrowsBy
  <2>3. /\ procedureLog'[i] = e /\ Len(procedureLog) \in Nat
        /\ DOMAIN procedureLog = 1 .. Len(procedureLog)
        /\ \A j \in 1 .. Len(procedureLog) :
             procedureLog'[j] = procedureLog[j] /\ SourceAt(j)' = SourceAt(j)
    BY <1>1, <1>2, <2>2, ProcedureLogGrows
  <2>4. place \in 1 .. i - 1 /\ procedureLog'[place].policy = policy
    BY <1>2, <1>9, <2>1, <2>3 DEF PlacesOf, RecordMethodDirectionOutcome
  <2>5. ASSUME NEW artifact \in evidence
        PROVE  \E j \in Observations' : j < i /\ SourceAt(j)'.artifact = artifact
    <3>1. PICK j \in Observations : SourceAt(j).artifact = artifact
      BY <1>9 DEF RecordMethodDirectionOutcome, RetainedArtifacts
    <3>2. j \in 1 .. Len(procedureLog)
      BY <2>3, <3>1 DEF Observations, PlacesOf
    <3>3. j \in Observations'
      BY <1>1, <2>2, <3>1, <3>2, KindsStay
    <3> QED
      BY <1>2, <2>3, <3>1, <3>2, <3>3
  <2>6. ASSUME NEW budget \in budgets
        PROVE  \E j \in PlacesOf("BUDGET")' : j < i /\ procedureLog'[j].id = budget
    <3>1. PICK j \in PlacesOf("BUDGET") : procedureLog[j].id = budget
      BY <1>9 DEF RecordMethodDirectionOutcome
    <3>2. j \in 1 .. Len(procedureLog)
      BY <2>3, <3>1 DEF PlacesOf
    <3>3. j \in PlacesOf("BUDGET")'
      BY <1>1, <2>2, <3>1, <3>2, KindsStay
    <3> QED
      BY <1>2, <2>3, <3>1, <3>2, <3>3
  <2>7. EntryHolds(i)'
    BY <2>2, <2>3, <2>4, <2>5, <2>6 DEF EntryHolds
  <2> QED
    BY <1>2, <2>2, <2>7, OneMoreHolds
<1>10. ASSUME NEW id, NEW place \in PlacesOf("COMPILATION"), NEW run,
              BindCompiledProgressPlan(id, place, run)
       PROVE  ProcedureInv'
  <2>1. PICK compilation, subtasks :
          compilation = procedureLog[place] /\ subtasks = StepIds(compilation.request.method)
    OBVIOUS
  <2>2. PICK request : request = compilation.request
    OBVIOUS
  <2>3. PICK version : version = Cardinality(PlansOfRun(run)) + 1
    OBVIOUS
  <2>4. PICK e : /\ GrowsBy(e) /\ e.kind = "BINDING" /\ e.policy = procedurePolicy
                 /\ e.compilation = place /\ e.subtasks = subtasks
    BY <1>10, <2>1, <2>3 DEF BindCompiledProgressPlan, Record, GrowsBy
  <2>5. /\ procedureLog'[i] = e /\ Len(procedureLog) \in Nat
        /\ DOMAIN procedureLog = 1 .. Len(procedureLog)
        /\ \A j \in 1 .. Len(procedureLog) : procedureLog'[j] = procedureLog[j]
    BY <1>1, <1>2, <2>4, ProcedureLogGrows
  <2>6. place \in 1 .. Len(procedureLog) /\ compilation.kind = "COMPILATION"
    BY <2>1, <2>5 DEF PlacesOf
  <2>7. procedureLog'[place] = compilation
    BY <2>1, <2>5, <2>6
  <2>8. /\ SourcesCurrent(request) /\ compilation.status = "VALID"
        /\ compilation.policy = procedurePolicy
    BY <1>10, <2>1, <2>2 DEF BindCompiledProgressPlan
  <2>9. CompiledStatus(request) = "VALID"
    BY <1>1, <2>1, <2>2, <2>5, <2>6, <2>8 DEF EntryHolds
  <2>10. SourcesReplay(request, i)' /\ CompiledStatus(request)' = "VALID"
    BY <1>1, <1>2, <2>4, <2>8, <2>9, CurrentSourcesReplay
  <2>11. BindingReplays(i)'
    BY <2>1, <2>2, <2>4, <2>5, <2>7, <2>8, <2>10 DEF BindingReplays
  <2>12. place \in 1 .. i - 1
    BY <1>2, <2>5, <2>6
  <2>13. EntryHolds(i)'
    BY <2>4, <2>5, <2>6, <2>7, <2>11, <2>12 DEF EntryHolds
  <2> QED
    BY <1>2, <2>4, <2>13, OneMoreHolds
<1>11. CASE UNCHANGED procedureVars
  <2>1. procedureLog' = procedureLog
    BY <1>11 DEF procedureVars
  <2>2. ProcedureLogIsSequence'
    BY <1>1, <2>1 DEF ProcedureLogIsSequence
  <2>3. /\ \A j : SourceAt(j)' = SourceAt(j) /\ ProfileAt(j)' = ProfileAt(j)
        /\ \A kind : PlacesOf(kind)' = PlacesOf(kind)
    BY <2>1 DEF SourceAt, ProfileAt, PlacesOf
  <2>4. Snapshots' = Snapshots /\ Observations' = Observations
    BY <2>3 DEF Snapshots, Observations
  <2>5. \A r, j : SourcesReplay(r, j)' <=> SourcesReplay(r, j)
    BY <2>1, <2>3, <2>4 DEF SourcesReplay, CurrentBefore
  <2>6. \A r : CompiledStatus(r)' = CompiledStatus(r)
    <3>1. \A r, c : CapabilityFinding(r, c)' = CapabilityFinding(r, c)
      BY <2>3 DEF CapabilityFinding
    <3>2. \A r : CheckCapabilities(r)' = CheckCapabilities(r)
      BY <3>1 DEF CheckCapabilities
    <3>3. \A r : CompilationFindings(r)' = CompilationFindings(r)
      BY <2>3, <3>2 DEF CompilationFindings
    <3> QED
      BY <3>3 DEF CompiledStatus
  <2>7. \A r : Cataloged(r)' <=> Cataloged(r)
    BY <2>3 DEF Cataloged
  <2>8. \A j : BindingReplays(j)' <=> BindingReplays(j)
    BY <2>1, <2>5, <2>6 DEF BindingReplays
  <2>9. \A j : EntryHolds(j) => EntryHolds(j)'
    BY <2>1, <2>3, <2>4, <2>5, <2>6, <2>7, <2>8 DEF EntryHolds
  <2> QED
    BY <1>1, <2>1, <2>2, <2>9 DEF ProcedureInv
<1> QED
  BY <1>4, <1>5, <1>6, <1>7, <1>8, <1>9, <1>10, <1>11 DEF ProcedureNext

(* The last of the descriptions of a content is the one referred to when    *)
(* there is only one.                                                       *)
LEMMA ProceduresReplay == ProcedureInv => DescribedOnceReplays
<1> SUFFICES ASSUME ProcedureInv,
                    \A i, j \in Observations :
                      SourceAt(i).artifact.content = SourceAt(j).artifact.content =>
                        SourceAt(i).artifact = SourceAt(j).artifact,
                    NEW i \in DOMAIN procedureLog
             PROVE  ProcedureReplays(i)
  BY DEF DescribedOnceReplays, AcceptedProceduresReplay
<1>1. EntryHolds(i)
  BY DEF ProcedureInv
<1>2. PICK n \in Nat : n = Len(procedureLog) /\ DOMAIN procedureLog = 1 .. n
  <2>1. PICK S : procedureLog \in Seq(S)
    BY DEF ProcedureInv, ProcedureLogIsSequence
  <2> QED
    BY <2>1
<1>3. PICK entry : entry = procedureLog[i]
  OBVIOUS
<1>4. CASE entry.kind = "COMPILATION"
  BY <1>1, <1>3, <1>4 DEF EntryHolds, ProcedureReplays, CompilationReplays
<1>5. CASE entry.kind = "BINDING"
  BY <1>1, <1>3, <1>5 DEF EntryHolds, ProcedureReplays
<1>6. CASE entry.kind = "OUTCOME"
  <2>1. ASSUME NEW artifact \in entry.evidence PROVE LatestArtifact(artifact.content, i) = artifact
    <3>1. PICK places : places = {j \in Observations :
                                   j < i /\ SourceAt(j).artifact.content = artifact.content}
      OBVIOUS
    <3>2. PICK j \in places : SourceAt(j).artifact = artifact
      BY <1>1, <1>3, <1>6, <3>1 DEF EntryHolds
    <3>3. places \subseteq 0 .. n
      BY <1>2, <3>1 DEF Observations, PlacesOf
    <3>4. PICK m \in places : \A k \in places : m >= k
      BY <1>2, <3>2, <3>3, GreatestNatural
    <3>5. Max(places) \in places
      BY <3>4 DEF Max
    <3>6. SourceAt(Max(places)).artifact = artifact
      BY <3>1, <3>2, <3>5
    <3> QED
      BY <3>1, <3>6 DEF LatestArtifact
  <2>2. /\ procedureLog[entry.compilation].policy = entry.policy
        /\ \A budget \in entry.budgets :
             \E j \in PlacesOf("BUDGET") : j < i /\ procedureLog[j].id = budget
    BY <1>1, <1>3, <1>6 DEF EntryHolds
  <2>3. OutcomeReplays(i)
    BY <1>3, <2>1, <2>2 DEF OutcomeReplays
  <2> QED
    BY <1>3, <1>6, <2>3 DEF ProcedureReplays
<1>7. CASE entry.kind \notin {"COMPILATION", "BINDING", "OUTCOME"}
  BY <1>3, <1>7 DEF ProcedureReplays
<1> QED
  BY <1>4, <1>5, <1>6, <1>7

(* A plan is bound to a valid compilation of a method of the pool.          *)
LEMMA PlansSound == ProcedureInv => BoundPlansCanBeCarriedOut
<1> SUFFICES ASSUME ProcedureInv, NEW i \in PlacesOf("BINDING")
             PROVE  CanBeCarriedOut(procedureLog[procedureLog[i].compilation].request)
  BY DEF BoundPlansCanBeCarriedOut
<1>1. PICK n \in Nat : n = Len(procedureLog) /\ DOMAIN procedureLog = 1 .. n
  <2>1. PICK S : procedureLog \in Seq(S)
    BY DEF ProcedureInv, ProcedureLogIsSequence
  <2> QED
    BY <2>1
<1>2. i \in 1 .. n /\ EntryHolds(i) /\ procedureLog[i].kind = "BINDING"
  BY <1>1 DEF ProcedureInv, PlacesOf
<1>3. PICK place, request :
        place = procedureLog[i].compilation /\ request = procedureLog[place].request
  OBVIOUS
<1>4. place \in 1 .. i - 1 /\ procedureLog[place].kind = "COMPILATION" /\ BindingReplays(i)
  BY <1>2, <1>3 DEF EntryHolds
<1>5. CompiledStatus(request) = "VALID"
  BY <1>3, <1>4 DEF BindingReplays
<1>6. place \in DOMAIN procedureLog
  BY <1>1, <1>2, <1>4
<1>7. EntryHolds(place)
  BY <1>6 DEF ProcedureInv
<1>8. request.method \in MethodPool /\ Cataloged(request)
  BY <1>3, <1>4, <1>7 DEF EntryHolds
<1>9. WellFormedCatalogs(SourceAt(request.catalogs))
  <2>1. request.catalogs \in DOMAIN procedureLog /\ procedureLog[request.catalogs].kind = "SOURCE"
    BY <1>8 DEF Cataloged, PlacesOf
  <2>2. EntryHolds(request.catalogs)
    BY <2>1 DEF ProcedureInv
  <2>3. SourceAt(request.catalogs) \in SourcePool
    BY <2>1, <2>2 DEF EntryHolds, SourceAt
  <2> QED
    BY <1>8, <2>3, ProcedureAssumption DEF Cataloged
<1>10. WellFormedMethod(request.method)
  BY <1>8, ProcedureAssumption
<1> QED
  BY <1>3, <1>5, <1>9, <1>10, ValidIsSound

(* Every accepted compilation, binding and outcome is reconstructed by      *)
(* verification, and every plan bound can be carried out: for any methods,  *)
(* sources and policies, however they move on (integrity.py:783-880,        *)
(* compiler.py:_check_3, _check_4, _check_13).                              *)
THEOREM ProceduresHold == ProcedureSpec => []CompiledProceduresHold
<1>1. ProcedureInit => ProcedureInv
  BY DEF ProcedureInit, ProcedureInv, ProcedureLogIsSequence
<1>2. ProcedureInv => CompiledProceduresHold
  BY ProceduresReplay, PlansSound DEF CompiledProceduresHold
<1> QED
  BY <1>1, <1>2, ProcedureStep, PTL DEF ProcedureSpec

=============================================================================
