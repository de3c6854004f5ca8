--------------------------------- MODULE Trails ---------------------------------
(***************************************************************************)
(* Source-first evidence trails: evidence is accepted, then the nodes over  *)
(* it, then the relations between them, then the claim, and only then the   *)
(* version of the trail that binds all of them by their receipts            *)
(* (application/trails/service.py, domain/evidence_trails).                 *)
(* A submission is one step (module Coordinator); an entry of the log is an *)
(* accepted transaction at its place in the audit chain, and a receipt is   *)
(* such a place.  The time of a transaction and its proposal id, by which   *)
(* transactions are ordered, are one number: the clocks of two clients need *)
(* not agree, so a transaction may be dated before an earlier one.          *)
(***************************************************************************)
EXTENDS Integers, Sequences, FiniteSets, SequencesExt, FiniteSetsExt

CONSTANTS
  TrailPolicies, TrailsGoverned,   \* those that admit run-local research-process records
  TrailActors, TrailHumans,
  TrailBuilders,      \* the actors that propose claims, stages, versions and bindings
  TrailEvidence,      \* evidence: id, ingestor and whether it is a primary source
  GraphPool,          \* graphs: nodes by name and relations
  AssessmentPool,     \* who assesses, and the results by category
  TrailVersionIds,
  ReportModalities,
  ClaimStrength,      \* the modality of the claim
  MaxStages,          \* bound: node and relation stages per version
  MaxClaimVersions,   \* bound: versions of the claim
  MaxBackdated,       \* bound: transactions dated before an earlier one
  MaxTrailMoves,      \* bound: changes of policy within the log
  MaxTrailEntries     \* bound: accepted transactions

Roles == {"REQUIRED", "SUPPORTING", "OPPOSING", "REDUNDANT"}
CausalTypes == {"CAUSES_CANDIDATE", "ENABLES", "PREVENTS"}
RelationTypes == CausalTypes \cup
  {"SUPPORTS", "CONTRADICTS", "PRECEDES", "FOLLOWS", "QUALIFIES", "EXPLAINS", "SAME_ENTITY",
   "SAME_EVENT", "DEPENDS_ON", "ALTERNATIVE_EXPLANATION"}
(* From the strongest to the weakest.                                       *)
Modalities ==
  <<"ASSERTED", "QUALIFIED", "UNCERTAIN", "HYPOTHETICAL", "COUNTERFACTUAL", "ABSTAINED">>
Strength(modality) == SelectInSeq(Modalities, LAMBDA m : m = modality)
AssessmentCategories ==
  {"NECESSITY", "GROUNDEDNESS", "RELATION_FIDELITY", "COUNTEREVIDENCE", "CAUSAL_OVERCLAIM_RISK",
   "RUBRIC_FIDELITY", "CONTAMINATION", "ANSWERABILITY"}
AssessmentResults == {"PASSED", "FAILED", "INCONCLUSIVE", "ABSTAINED"}

(* A node is a span of one evidence record with a role, a time and the      *)
(* layer it claims in the causal order; 0 where it claims none.             *)
WellFormedGraph(graph) ==
  /\ \A n \in DOMAIN graph.nodes :
       /\ graph.nodes[n].evidence \in {e.id : e \in TrailEvidence}
       /\ graph.nodes[n].role \in Roles
       /\ {graph.nodes[n].time, graph.nodes[n].layer} \subseteq Nat
  /\ \A r \in graph.relations :
       /\ {r.from, r.to} \subseteq DOMAIN graph.nodes
       /\ r.type \in RelationTypes /\ r.modality \in ToSet(Modalities)

ASSUME TrailAssumption ==
  /\ \A g \in GraphPool : WellFormedGraph(g)
  /\ \A a \in AssessmentPool : /\ a.results \in [AssessmentCategories -> AssessmentResults]
                               /\ a.actors \subseteq TrailActors
  /\ \A e \in TrailEvidence : e.ingestor \in TrailActors
  /\ TrailHumans \cup TrailBuilders \subseteq TrailActors
  /\ ReportModalities \cup {ClaimStrength} \subseteq ToSet(Modalities)
  /\ {MaxStages, MaxClaimVersions, MaxBackdated, MaxTrailMoves, MaxTrailEntries}
       \subseteq Nat

VARIABLES
  trailPolicy,   \* the active policy
  trailLog,      \* accepted transactions, in the order of their audit
  trailHeads     \* evidence_trail_heads: at most one entry of the log, there is one trail

trailVars == <<trailPolicy, trailLog, trailHeads>>

Places(kind) == {i \in DOMAIN trailLog : trailLog[i].kind = kind}
EvidenceAt(i) == CHOOSE e \in TrailEvidence : e.id = trailLog[i].evidence

-----------------------------------------------------------------------------
(* Validation of a graph (domain/evidence_trails/validation.py).            *)

RolePairs(type) ==
  LET some == Roles \ {"REDUNDANT"}
      opposing == {p \in some \X some : "OPPOSING" \in {p[1], p[2]}}
      supporting == {"REQUIRED", "SUPPORTING"}
  IN CASE type = "SUPPORTS" -> supporting \X supporting
       [] type \in {"CONTRADICTS", "ALTERNATIVE_EXPLANATION"} -> opposing
       [] OTHER -> some \X some

AllowedModalities(type) ==
  IF type \in CausalTypes \cup {"ALTERNATIVE_EXPLANATION"}
  THEN ToSet(Modalities) \ {"ASSERTED", "ABSTAINED"} ELSE ToSet(Modalities)

TimesFit(type, from, to) ==
  CASE type \in CausalTypes \cup {"PRECEDES"} -> from.time < to.time
    [] type = "FOLLOWS" -> to.time < from.time
    [] type = "SAME_EVENT" -> from.time = to.time
    [] OTHER -> TRUE

RelationFits(graph, r) ==
  LET from == graph.nodes[r.from]
      to == graph.nodes[r.to]
  IN /\ r.from # r.to
     /\ <<from.role, to.role>> \in RolePairs(r.type)
     /\ r.modality \in AllowedModalities(r.type)
     /\ Strength(r.modality) >= Strength(ClaimStrength)
     /\ TimesFit(r.type, from, to)
     /\ r.type \in CausalTypes => from.layer < to.layer

(* The layers of the causal order, found layer by layer: a node is placed   *)
(* once its causes are.  A node on or behind a cycle is never placed.       *)
CausalLayers(graph) ==
  LET causal == {r \in graph.relations : r.type \in CausalTypes}
      members == {r.from : r \in causal} \cup {r.to : r \in causal}
      causes(n) == {r.from : r \in {c \in causal : c.to = n}}
      ready(placed) == {n \in members \ DOMAIN placed : causes(n) \subseteq DOMAIN placed}
      place(placed) ==
        [n \in DOMAIN placed \cup ready(placed) |->
           IF n \in DOMAIN placed THEN placed[n]
           ELSE Max({0} \cup {placed[c] + 1 : c \in causes(n)})]
  IN [members |-> members,
      placed |-> FoldLeft(LAMBDA placed, n : place(placed), <<>>, SetToSeq(members))]

LayersDerived(graph) ==
  LET layers == CausalLayers(graph)
  IN /\ DOMAIN layers.placed = layers.members
     /\ \A n \in DOMAIN graph.nodes :
          graph.nodes[n].layer = IF n \in layers.members THEN layers.placed[n] ELSE 0

OpposingNodes(graph) == {n \in DOMAIN graph.nodes : graph.nodes[n].role = "OPPOSING"}
Contradicting(graph) ==
  UNION {{r.from, r.to} : r \in {c \in graph.relations : c.type = "CONTRADICTS"}}

(* The outcome of the assessments: nothing is better than the worst of them.*)
TrailOutcome(graph, results) ==
  LET results1 == {results[c] : c \in AssessmentCategories \ {"ANSWERABILITY"}}
      answerable == results["ANSWERABILITY"]
  IN CASE "ABSTAINED" \in results1 \/ answerable \in {"FAILED", "ABSTAINED"} -> "UNANSWERABLE"
       [] "FAILED" \in results1 -> "INSUFFICIENT"
       [] OpposingNodes(graph) # {} -> "CONFLICTED"
       [] "INCONCLUSIVE" \in results1 \cup {answerable} -> "PARTIALLY_SUPPORTING"
       [] OTHER -> "SUFFICIENT"

ValidTrail(graph, assessment, authors) ==
  /\ \A r \in graph.relations : RelationFits(graph, r)
  /\ LayersDerived(graph)
  /\ OpposingNodes(graph) # {} =>
       /\ OpposingNodes(graph) = Contradicting(graph) \cap OpposingNodes(graph)
       /\ assessment.results["COUNTEREVIDENCE"] = "PASSED"
  /\ (\E r \in graph.relations : r.type \in CausalTypes) =>
       assessment.results["CAUSAL_OVERCLAIM_RISK"] = "PASSED"
  /\ assessment.actors \cap authors = {}

-----------------------------------------------------------------------------
(* What a stage binds.                                                      *)

EvidenceOf(nodes) == {nodes[n].evidence : n \in DOMAIN nodes}
Ingestors(sources) == {EvidenceAt(i).ingestor : i \in sources}
Primary(sources) == \A i \in sources : EvidenceAt(i).primary

(* Whoever approves is a human independent of all who took part.            *)
TrailApproved(policy, proposer, approver, others) ==
  /\ policy \in TrailsGoverned
  /\ approver \in TrailHumans
  /\ approver \notin {proposer} \cup others

(* Mutant of NodesBind: evidence accepted under any policy will do.         *)
NodesBindAnyPolicy(stage) ==
  /\ EvidenceOf(stage.nodes) = {trailLog[i].evidence : i \in stage.sources}
  /\ Primary(stage.sources)
  /\ TrailApproved(stage.policy, stage.proposer, stage.approver, Ingestors(stage.sources))

NodesBind(stage) ==
  /\ \A i \in stage.sources : trailLog[i].policy = stage.policy
  /\ EvidenceOf(stage.nodes) = {trailLog[i].evidence : i \in stage.sources}
  /\ Primary(stage.sources)
  /\ TrailApproved(stage.policy, stage.proposer, stage.approver, Ingestors(stage.sources))

RelationsBind(stage) ==
  LET nodes == trailLog[stage.stage]
  IN /\ nodes.policy = stage.policy
     /\ stage.version = nodes.version /\ stage.proposer = nodes.proposer
     /\ TrailApproved(stage.policy, stage.proposer, stage.approver, Ingestors(nodes.sources))

Earlier(i, j) == i < j /\ trailLog[i].key < trailLog[j].key

(* Mutant of Chronological: the claim may precede what it rests on.         *)
ChronologicalSources(version) ==
  LET relations == trailLog[version.relations]
      nodes == trailLog[relations.stage]
  IN /\ \A i \in nodes.sources : Earlier(i, relations.stage)
     /\ Earlier(relations.stage, version.relations)

(* Both orders, among the stages; the version itself has no time yet.       *)
Chronological(version) ==
  LET relations == trailLog[version.relations]
      nodes == trailLog[relations.stage]
  IN /\ \A i \in nodes.sources : Earlier(i, relations.stage)
     /\ Earlier(relations.stage, version.relations)
     /\ Earlier(version.relations, version.claim)

(* The receipts of a version: stages of its own, under its own policy, and  *)
(* a claim that was proposed or moved on to for it.                         *)
ReceiptsBind(version, heads) ==
  LET relations == trailLog[version.relations]
      nodes == trailLog[relations.stage]
      claim == trailLog[version.claim]
  IN /\ \A i \in nodes.sources \cup {relations.stage, version.relations, version.claim} :
          trailLog[i].policy = version.policy
     /\ relations.version = version.version /\ relations.proposer = version.proposer
     /\ IF heads = {} THEN claim.number = 1
        ELSE \A h \in heads : claim.number = trailLog[trailLog[h].claim].number + 1
     /\ Chronological(version)

VersionAuthors(version) ==
  {trailLog[version.claim].proposer, version.proposer} \cup
  Ingestors(trailLog[trailLog[version.relations].stage].sources)

(* The lineage: the head and its claim are what the version succeeds.       *)
LineageBinds(version, heads) ==
  /\ version.parent = heads
  /\ \A h \in heads : version.number = trailLog[h].number + 1
  /\ heads = {} => version.number = 1

VersionAccepted(version, heads) ==
  LET relations == trailLog[version.relations]
      graph == [nodes |-> trailLog[relations.stage].nodes, relations |-> relations.relations]
  IN /\ ReceiptsBind(version, heads)
     /\ LineageBinds(version, heads)
     /\ TrailApproved(version.policy, version.proposer, version.approver,
                      VersionAuthors(version) \cup version.assessment.actors)
     /\ ValidTrail(graph, version.assessment, VersionAuthors(version))
     /\ version.outcome = TrailOutcome(graph, version.assessment.results)

BindingAccepted(binding) ==
  LET version == trailLog[binding.trail]
  IN /\ binding.policy = version.policy
     /\ version.outcome = "CONFLICTED" => binding.modality # "ASSERTED"
     /\ Strength(binding.modality) >= Strength(ClaimStrength)
     /\ TrailApproved(binding.policy, binding.proposer, binding.approver,
                      VersionAuthors(version) \cup version.assessment.actors)

-----------------------------------------------------------------------------
TrailInit ==
  /\ trailPolicy \in TrailPolicies
  /\ trailLog = <<>> /\ trailHeads = {}

TrailPolicyMoves(policy) ==
  /\ Cardinality({i \in 2 .. Len(trailLog) : trailLog[i].policy # trailLog[i - 1].policy})
       < MaxTrailMoves
  /\ trailPolicy' = policy
  /\ UNCHANGED <<trailLog, trailHeads>>

(* The clock gives a time after all others or, set back, one between them.  *)
Keys ==
  {2 * Len(trailLog) + 2} \cup
  {k \in {2 * i - 1 : i \in DOMAIN trailLog} \ {trailLog[i].key : i \in DOMAIN trailLog} :
     Cardinality({i \in DOMAIN trailLog : trailLog[i].key % 2 = 1}) < MaxBackdated}

Admit(entry) ==
  /\ Len(trailLog) < MaxTrailEntries
  /\ trailLog' = Append(trailLog, entry)

AddTrailEvidence(e, key) ==
  /\ \A i \in Places("EVIDENCE") : trailLog[i].evidence # e.id
  /\ Admit([kind |-> "EVIDENCE", evidence |-> e.id, proposer |-> e.ingestor,
            key |-> key, policy |-> trailPolicy])
  /\ UNCHANGED <<trailPolicy, trailHeads>>

StagesOf(kind, version) == Cardinality({i \in Places(kind) : trailLog[i].version = version})

(* A stage is kept and projects nothing.                                    *)
ProposeEvidenceTrailNodes(version, graph, proposer, approver, key) ==
  LET stage == [kind |-> "NODES", version |-> version, nodes |-> graph.nodes, proposer |-> proposer,
                approver |-> approver, key |-> key, policy |-> trailPolicy,
                sources |-> {i \in Places("EVIDENCE") :
                               trailLog[i].evidence \in EvidenceOf(graph.nodes)}]
  IN /\ StagesOf("NODES", version) < MaxStages
     /\ NodesBind(stage)
     /\ Admit(stage)
     /\ UNCHANGED <<trailPolicy, trailHeads>>

ProposeEvidenceTrailRelations(place, graph, proposer, approver, key) ==
  LET stage == [kind |-> "RELATIONS", version |-> trailLog[place].version, stage |-> place,
                relations |-> graph.relations, proposer |-> proposer, approver |-> approver,
                key |-> key, policy |-> trailPolicy]
  IN /\ graph.nodes = trailLog[place].nodes
     /\ StagesOf("RELATIONS", stage.version) < MaxStages
     /\ RelationsBind(stage)
     /\ Admit(stage)
     /\ UNCHANGED <<trailPolicy, trailHeads>>

(* The claim is proposed, and every transition makes a version of it.       *)
FormulateClaim(proposer, key) ==
  /\ Cardinality(Places("CLAIM")) < MaxClaimVersions
  /\ Admit([kind |-> "CLAIM", number |-> Cardinality(Places("CLAIM")) + 1, proposer |-> proposer,
            key |-> key, policy |-> trailPolicy])
  /\ UNCHANGED <<trailPolicy, trailHeads>>

(* A version is recorded with all it consists of, and becomes the head.     *)
RecordEvidenceTrailVersion(relations, claim, number, result, outcome, proposer, approver, key) ==
  LET version == [kind |-> "VERSION", version |-> trailLog[relations].version, number |-> number,
                  parent |-> trailHeads, relations |-> relations, claim |-> claim,
                  assessment |-> result, outcome |-> outcome, proposer |-> proposer,
                  approver |-> approver, key |-> key, policy |-> trailPolicy]
  IN /\ \A i \in Places("VERSION") : trailLog[i].version # version.version
     /\ VersionAccepted(version, trailHeads)
     /\ Admit(version)
     /\ trailHeads' = {Len(trailLog) + 1}
     /\ UNCHANGED trailPolicy

(* A binding is ordered against nothing: its time is the next.              *)
BindReportSentence(place, modality, proposer, approver) ==
  LET binding == [kind |-> "BINDING", trail |-> place, modality |-> modality,
                  proposer |-> proposer, approver |-> approver, key |-> 2 * Len(trailLog) + 2,
                  policy |-> trailPolicy]
  IN /\ \A i \in Places("BINDING") : trailLog[i].trail # place
     /\ BindingAccepted(binding)
     /\ Admit(binding)
     /\ UNCHANGED <<trailPolicy, trailHeads>>

TrailOutcomes == {"SUFFICIENT", "PARTIALLY_SUPPORTING", "CONFLICTED", "INSUFFICIENT", "UNANSWERABLE"}

TrailNext ==
  \/ \E policy \in TrailPolicies : TrailPolicyMoves(policy)
  \/ \E e \in TrailEvidence, key \in Keys : AddTrailEvidence(e, key)
  \/ \E proposer \in TrailBuilders :
       \/ \E key \in Keys : FormulateClaim(proposer, key)
       \/ \E approver \in TrailHumans :
            \/ \E version \in TrailVersionIds, graph \in GraphPool, key \in Keys :
                 ProposeEvidenceTrailNodes(version, graph, proposer, approver, key)
            \/ \E place \in Places("NODES"), graph \in GraphPool, key \in Keys :
                 ProposeEvidenceTrailRelations(place, graph, proposer, approver, key)
            \/ \E relations \in Places("RELATIONS"), claim \in Places("CLAIM"),
                  assessment \in AssessmentPool, outcome \in TrailOutcomes,
                  number \in 1 .. MaxClaimVersions, key \in Keys :
                 RecordEvidenceTrailVersion(relations, claim, number, assessment, outcome,
                                            proposer, approver, key)
            \/ \E place \in Places("VERSION"), modality \in ReportModalities :
                 BindReportSentence(place, modality, proposer, approver)

TrailSpec == TrailInit /\ [][TrailNext]_trailVars

-----------------------------------------------------------------------------
(* Verification replays every accepted entry (workspace_integrity.py).      *)

HeadsBefore(i) ==
  LET versions == {j \in Places("VERSION") : j < i}
  IN {j \in versions : \A k \in versions : k <= j}

NodeStageReplays(i) ==
  LET stage == trailLog[i]
  IN /\ \A j \in stage.sources : trailLog[j].policy = stage.policy /\ Earlier(j, i)
     /\ NodesBind(stage)

RelationStageReplays(i) ==
  LET stage == trailLog[i]
  IN /\ \A j \in trailLog[stage.stage].sources : trailLog[j].policy = stage.policy /\ Earlier(j, i)
     /\ Earlier(stage.stage, i)
     /\ RelationsBind(stage)

VersionReplays(i) ==
  /\ Earlier(trailLog[i].claim, i)
  /\ VersionAccepted(trailLog[i], HeadsBefore(i))

Replays(i) ==
  CASE trailLog[i].kind = "NODES" -> NodeStageReplays(i)
    [] trailLog[i].kind = "RELATIONS" -> RelationStageReplays(i)
    [] trailLog[i].kind = "VERSION" -> VersionReplays(i)
    [] trailLog[i].kind = "BINDING" -> BindingAccepted(trailLog[i])
    [] OTHER -> TRUE

(* "The authoritative transaction creation times and audit sequences must   *)
(* be strictly ordered from source acceptance through node and relation     *)
(* proposal, claim formation, and final version creation. ... reordered,    *)
(* ... or backdated stages fail closed" (docs/evidence-trails.md:58-61):    *)
(* what admission accepts, verification of the workspace replays.           *)
AcceptedStagesReplay == \A i \in DOMAIN trailLog : Replays(i)

(* With clocks that agree, whatever stages, claims and policies are         *)
(* interleaved with a trail, verification replays all that was accepted,    *)
(* and from the log alone it finds the head that admission went by.         *)
OrderedStagesReplay ==
  (\A i, j \in DOMAIN trailLog : i < j => Earlier(i, j)) =>
    /\ AcceptedStagesReplay
    /\ HeadsBefore(Len(trailLog) + 1) = trailHeads

(* No conclusion comes before its sources, whatever the clocks say: the     *)
(* claim of every version of a trail was formulated after the evidence, the *)
(* nodes and the relations of that version, and the versions of the trail   *)
(* follow those of the claim one by one (service.py:1109-1130, 1230-1280).  *)
SourcesComeFirst ==
  \A i \in Places("VERSION") :
    LET version == trailLog[i]
        relations == trailLog[version.relations]
    IN /\ \A j \in trailLog[relations.stage].sources \cup {relations.stage, version.relations} :
            Earlier(j, version.claim)
       /\ trailLog[version.claim].number = version.number
       /\ \A k \in Places("VERSION") : k < i => trailLog[k].number < version.number
(* Trails are built from their sources up: verification finds what was      *)
(* accepted in the order the trail claims it was made in                    *)
(* (docs/evidence-trails.md:58-61).                                         *)
TrailsReplayInOrder == OrderedStagesReplay /\ SourcesComeFirst
=============================================================================
