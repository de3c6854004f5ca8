------------------------------- MODULE Procedures -------------------------------
(***************************************************************************)
(* Procedures: a candidate method is compiled against catalogs of what is   *)
(* available and profiles of who can do what, and a valid compilation is    *)
(* bound to a run as its progress plan (application/procedures/service.py,  *)
(* domain/procedures).                                                      *)
(* A submission is one step (module Coordinator); an entry of the log is an *)
(* accepted transaction at its place in the audit chain, and a receipt is   *)
(* such a place.  The catalogs of artifacts, tools and validators are found *)
(* alike and are one evidence record here; a snapshot of a family names the *)
(* evidence that is current.  Hashes are the records they stand for.        *)
(***************************************************************************)
EXTENDS Integers, Sequences, FiniteSets, SequencesExt, FiniteSetsExt

CONSTANTS
  ProcedurePolicies, ProcedureGoverned,  \* those that admit run-local research-process records
  SourcePool,        \* evidence: catalogs, snapshots and plain observations
  ProfilePool,       \* capability profiles
  MethodPool,        \* candidate methods
  Reserves,          \* the budget envelope, by category
  ProcedureRuns,     \* research runs on record
  CompilationIds, OutcomeIds, PlanVersionIds,
  BudgetRecords,     \* ids of run budgets
  MaxSources,        \* bound: accepted evidence and profiles
  MaxPolicyMoves     \* bound: changes of policy

Facts == {"PRESENT", "ABSENT", "UNKNOWN"}
BudgetCategories == {"exploration", "implementation", "verification", "recovery", "finalization"}
ImpossibleAuthorities ==
  {"GOVERNANCE_WRITE", "TRANSACTION_WRITE", "PROTECTED_EVALUATOR", "PROTECTED_ANSWER_ACCESS"}
Authorities == ImpossibleAuthorities \cup
  {"READ_DECLARED_ARTIFACT", "DERIVE_PUBLIC_DATA", "RUN_REGISTERED_TOOL", "RECORD_DECLARED_OUTPUT"}
AssertionStatuses == {"VERIFIED", "SELF_REPORTED", "UNKNOWN", "UNSUPPORTED"}

Steps(method) == ToSet(method.steps)
StepIds(method) == {s.id : s \in Steps(method)}

(* A step recovers by retrying one other step, or ends as it failed.        *)
WellFormedMethod(method) ==
  /\ method.steps \in Seq(Steps(method)) \ {<<>>}
  /\ \A s \in Steps(method) :
       /\ s.authorities \subseteq Authorities
       /\ s.category \in BudgetCategories
       /\ s.cost \in Nat
       /\ Cardinality(s.retries) <= 1

WellFormedCatalogs(catalogs) ==
  /\ catalogs.complete \in BOOLEAN
  /\ \A entries \in {catalogs.artifacts, catalogs.validators} :
       \A key \in DOMAIN entries : entries[key] \in Facts
  /\ \A tool \in DOMAIN catalogs.tools :
       LET entry == catalogs.tools[tool]
       IN /\ {entry.available, entry.authorized} \subseteq Facts
          /\ entry.available = "ABSENT" => entry.authorized # "PRESENT"

ASSUME ProcedureAssumption ==
  /\ \A m \in MethodPool : WellFormedMethod(m)
  /\ \A e \in SourcePool : e.kind \in {"CATALOGS", "SNAPSHOT", "PLAIN"}
  /\ \A e \in SourcePool : e.kind = "CATALOGS" => WellFormedCatalogs(e)
  /\ \A p \in ProfilePool : \A a \in p.assertions : a.status \in AssertionStatuses
  /\ Reserves \in [BudgetCategories -> Nat]
  /\ ProcedureGoverned \subseteq ProcedurePolicies
  /\ {MaxSources, MaxPolicyMoves} \subseteq Nat

VARIABLES
  procedurePolicy,   \* the active policy
  procedureLog       \* accepted transactions, in the order of their audit

procedureVars == <<procedurePolicy, procedureLog>>

PlacesOf(kind) == {i \in DOMAIN procedureLog : procedureLog[i].kind = kind}
SourceAt(i) == CHOOSE e \in SourcePool : e.id = procedureLog[i].id
ProfileAt(i) == CHOOSE p \in ProfilePool : p.id = procedureLog[i].id

-----------------------------------------------------------------------------
(* The compiler: each check finds errors, things unknown, or nothing.       *)

(* Step ids are unique and steps listed in their canonical order.           *)
CheckOrder(method) ==
  IF /\ Cardinality(StepIds(method)) = Len(method.steps)
     /\ \A i \in DOMAIN method.steps : method.steps[i].order = i
  THEN {} ELSE {"ERROR"}

Needs(method, ids) == UNION {s.needs : s \in {t \in Steps(method) : t.id \in ids}}

(* All steps a step depends on, directly or not.                            *)
Ancestors(method, id) ==
  LET rounds == Cardinality(StepIds(method))
      found[n \in 0 .. rounds] ==
        IF n = 0 THEN Needs(method, {id}) ELSE found[n - 1] \cup Needs(method, found[n - 1])
  IN found[rounds]

CheckDependencies(method) ==
  IF \A s \in Steps(method) : /\ s.needs \subseteq StepIds(method)
                              /\ s.id \notin Ancestors(method, s.id)
  THEN {} ELSE {"ERROR"}

Producers(method, artifact) == {s.id : s \in {t \in Steps(method) : artifact \in t.outputs}}

(* Mutant of Supplied: whichever step produces the artifact will do.        *)
SuppliedByAnyone(method, step, artifact) == Producers(method, artifact) # {}

(* An input comes from a step that is done before.                          *)
Supplied(method, step, artifact) ==
  Producers(method, artifact) \cap Ancestors(method, step.id) # {}

(* What is not listed is absent only from a complete catalog.               *)
Fact(entries, key, complete) ==
  IF key \in DOMAIN entries THEN entries[key] ELSE IF complete THEN "ABSENT" ELSE "UNKNOWN"

Finding(fact) ==
  CASE fact = "PRESENT" -> {} [] fact = "UNKNOWN" -> {"UNKNOWN"} [] fact = "ABSENT" -> {"ERROR"}

CheckInputs(method, catalogs) ==
  UNION {Finding(Fact(catalogs.artifacts, artifact, catalogs.complete)) :
           artifact \in UNION {{a \in s.inputs : ~Supplied(method, s, a)} : s \in Steps(method)}}

CheckProducers(method) ==
  IF \A s \in Steps(method) : \A a \in s.outputs : Producers(method, a) = {s.id}
  THEN {} ELSE {"ERROR"}

CheckTools(method, catalogs) ==
  LET unlisted == Fact(<<>>, "tool", catalogs.complete)
      facts(tool) == IF tool \in DOMAIN catalogs.tools
                     THEN {catalogs.tools[tool].available, catalogs.tools[tool].authorized}
                     ELSE {unlisted}
  IN UNION {UNION {Finding(f) : f \in facts(tool)} : tool \in UNION {s.tools : s \in Steps(method)}}

CheckAuthority(method) ==
  IF \E s \in Steps(method) : s.authorities \cap ImpossibleAuthorities # {} THEN {"ERROR"} ELSE {}

CheckOutputs(method, catalogs) ==
  LET missing(a) == /\ Producers(method, a) = {}
                    /\ Fact(catalogs.artifacts, a, catalogs.complete) = "ABSENT"
  IN IF \/ \E a \in method.expects : Producers(method, a) = {}
        \/ \E s \in Steps(method) : s.needs # {} /\ \E a \in s.inputs : missing(a)
     THEN {"ERROR"} ELSE {}

(* A capability is satisfied by assertions verified on the very snapshot.   *)
Disposition(profile, capability, snapshot) ==
  LET matching == {a \in profile.assertions : a.capability = capability}
  IN IF \E a \in matching : a.status = "VERIFIED" /\ a.snapshot = snapshot THEN "SATISFIED"
     ELSE IF \E a \in matching : a.status = "UNSUPPORTED" THEN "UNSATISFIED" ELSE "UNKNOWN"

CapabilityFinding(request, capability) ==
  LET dispositions ==
        {Disposition(ProfileAt(g.profile), capability, SourceAt(g.snapshot).id) :
           g \in {h \in request.grounded : h.capability = capability}}
  IN IF dispositions \subseteq {"UNKNOWN"} THEN {"UNKNOWN"}
     ELSE IF dispositions = {"SATISFIED"} THEN {} ELSE {"ERROR"}

CheckCapabilities(request) ==
  LET method == request.method
  IN UNION {CapabilityFinding(request, c) :
              c \in method.claims \cup UNION {s.capabilities : s \in Steps(method)}}

CheckValidators(method, catalogs) ==
  UNION {Finding(Fact(catalogs.validators, s.validator, catalogs.complete)) : s \in Steps(method)}

CheckCompletion(method) ==
  IF method.verified /\ \A s \in Steps(method) : s.criteria THEN {} ELSE {"ERROR"}

CheckBudgets(method) ==
  LET cost(category) == FoldSet(LAMBDA s, sum : sum + s.cost, 0,
                                {s \in Steps(method) : s.category = category})
  IN IF \A category \in BudgetCategories : cost(category) <= Reserves[category]
     THEN {} ELSE {"ERROR"}

(* Where recovery leads, step after step.                                   *)
Retries(method, ids) == UNION {s.retries : s \in {t \in Steps(method) : t.id \in ids}}
RecoveryFrom(method, id) ==
  LET rounds == Cardinality(StepIds(method))
      found[n \in 0 .. rounds] ==
        IF n = 0 THEN Retries(method, {id}) ELSE found[n - 1] \cup Retries(method, found[n - 1])
  IN found[rounds]

CheckTermination(method) ==
  IF \A id \in StepIds(method) : /\ Retries(method, {id}) \subseteq StepIds(method) \ {id}
                                 /\ id \notin RecoveryFrom(method, id)
  THEN {} ELSE {"ERROR"}

CheckMapping(method) == IF method.balanced THEN CheckDependencies(method) ELSE {"ERROR"}

CompilationFindings(request) ==
  LET method == request.method
      catalogs == SourceAt(request.catalogs)
  IN UNION {CheckOrder(method), CheckDependencies(method), CheckInputs(method, catalogs),
            CheckProducers(method), CheckTools(method, catalogs), CheckAuthority(method),
            CheckOutputs(method, catalogs), CheckCapabilities(request),
            CheckValidators(method, catalogs), CheckCompletion(method), CheckBudgets(method),
            CheckTermination(method), CheckMapping(method)}

CompiledStatus(request) ==
  LET findings == CompilationFindings(request)
  IN IF "ERROR" \in findings THEN "INVALID"
     ELSE IF findings # {} THEN "INCONCLUSIVE" ELSE "VALID"

-----------------------------------------------------------------------------
(* Sources: what a request names, as admission and verification see it.     *)

Snapshots == {i \in PlacesOf("SOURCE") : SourceAt(i).kind = "SNAPSHOT"}
RequestSnapshots(request) == {request.snapshot} \cup {g.snapshot : g \in request.grounded}
ProfileReceipts(request) == {g.profile : g \in request.grounded}

(* Mutant of Newest: a snapshot stays current when its family moves on.     *)
SnapshotKept(snapshot) == snapshot \in Snapshots

(* The snapshot is the last one accepted of its family.                     *)
Newest(snapshot) ==
  /\ snapshot \in Snapshots
  /\ \A other \in Snapshots : SourceAt(other).family = SourceAt(snapshot).family => other <= snapshot

(* all_current: accepted records of the right kind, and current snapshots.  *)
SourcesCurrent(request) ==
  /\ request.catalogs \in PlacesOf("SOURCE") /\ SourceAt(request.catalogs).kind = "CATALOGS"
  /\ ProfileReceipts(request) \subseteq PlacesOf("PROFILE")
  /\ \A snapshot \in RequestSnapshots(request) : Newest(snapshot)
  /\ procedureLog[request.catalogs].id \in SourceAt(request.snapshot).binds

(* _source_snapshot_is_current, before the entry at i.                      *)
CurrentBefore(snapshot, i) ==
  LET family == {s \in Snapshots : s < i /\ SourceAt(s).family = SourceAt(snapshot).family}
  IN snapshot \in family /\ snapshot = Max(family)

(* _require_compilation_source_receipts.                                    *)
SourcesReplay(request, i) ==
  /\ {request.catalogs} \cup ProfileReceipts(request) \cup RequestSnapshots(request) \subseteq 1 .. i - 1
  /\ \A snapshot \in RequestSnapshots(request) : CurrentBefore(snapshot, i)
  /\ procedureLog[request.catalogs].id \in SourceAt(request.snapshot).binds

-----------------------------------------------------------------------------
ProcedureInit ==
  /\ procedurePolicy \in ProcedurePolicies
  /\ procedureLog = <<>>

Record(entry) == procedureLog' = Append(procedureLog, entry) /\ UNCHANGED procedurePolicy

(* The policy in force is that of the last change; MaxPolicyMoves of them.  *)
ProcedurePolicyMoves(policy) ==
  /\ policy # procedurePolicy
  /\ Cardinality(PlacesOf("POLICY")) < MaxPolicyMoves
  /\ procedurePolicy' = policy
  /\ procedureLog' = Append(procedureLog, [kind |-> "POLICY", id |-> policy, policy |-> policy])

SourcesLeft == Cardinality(PlacesOf("SOURCE") \cup PlacesOf("PROFILE")) < MaxSources
Unused(kind, id) == \A i \in PlacesOf(kind) : procedureLog[i].id # id

AddProcedureSource(e) ==
  /\ SourcesLeft
  /\ Unused("SOURCE", e.id)
  /\ Record([kind |-> "SOURCE", policy |-> procedurePolicy, id |-> e.id])

RecordSourceProfile(p) ==
  /\ SourcesLeft
  /\ procedurePolicy \in ProcedureGoverned
  /\ Unused("PROFILE", p.id)
  /\ Record([kind |-> "PROFILE", policy |-> procedurePolicy, id |-> p.id])

(* Whatever the compiler finds is recorded; nobody has to approve it.       *)
RecordProcedureCompilation(id, request) ==
  /\ SourcesCurrent(request)
  /\ Unused("COMPILATION", id)
  /\ Record([kind |-> "COMPILATION", policy |-> procedurePolicy, id |-> id, request |-> request,
             status |-> CompiledStatus(request)])

(* Retained evidence is an artifact as some record describes it.            *)
Observations == {i \in PlacesOf("SOURCE") : SourceAt(i).kind = "PLAIN"}
RetainedArtifacts == {SourceAt(i).artifact : i \in Observations}

RecordMethodDirectionOutcome(id, place, evidence, budgets) ==
  /\ procedureLog[place].policy = procedurePolicy
  /\ Unused("OUTCOME", id)
  /\ evidence \subseteq RetainedArtifacts
  /\ budgets \subseteq {procedureLog[i].id : i \in PlacesOf("BUDGET")}
  /\ Record([kind |-> "OUTCOME", policy |-> procedurePolicy, id |-> id, compilation |-> place,
             evidence |-> evidence, budgets |-> budgets])

PlansOfRun(run) == {i \in PlacesOf("BINDING") : procedureLog[i].run = run}
PlannedSteps == UNION {procedureLog[i].subtasks : i \in PlacesOf("BINDING")}

(* The plan goes through the handler of progress plans (module Progress):   *)
(* its subtasks are the steps, whose ids no other plan may have.            *)
BindCompiledProgressPlan(id, place, run) ==
  LET compilation == procedureLog[place]
      subtasks == StepIds(compilation.request.method)
  IN /\ SourcesCurrent(compilation.request)
     /\ compilation.status = "VALID"
     /\ compilation.policy = procedurePolicy
     /\ procedurePolicy \in ProcedureGoverned
     /\ Unused("BINDING", id)
     /\ subtasks \cap PlannedSteps = {}
     /\ Record([kind |-> "BINDING", policy |-> procedurePolicy, id |-> id, compilation |-> place,
                run |-> run, version |-> Cardinality(PlansOfRun(run)) + 1, subtasks |-> subtasks])

(* A budget of a plan (RecordRunBudget, module Progress).                   *)
RecordPlanBudget(id) ==
  /\ procedurePolicy \in ProcedureGoverned
  /\ PlacesOf("BINDING") # {}
  /\ Unused("BUDGET", id)
  /\ Record([kind |-> "BUDGET", policy |-> procedurePolicy, id |-> id])

(* At most one grounded assessment for each capability.                     *)
GroundedChoices(method) ==
  LET capabilities == method.claims \cup UNION {s.capabilities : s \in Steps(method)}
  IN {{}} \cup {{[capability |-> c, profile |-> p, snapshot |-> s] : c \in capabilities} :
                 p \in PlacesOf("PROFILE"), s \in Snapshots}

ProcedureNext ==
  \/ \E policy \in ProcedurePolicies : ProcedurePolicyMoves(policy)
  \/ \E e \in SourcePool : AddProcedureSource(e)
  \/ \E p \in ProfilePool : RecordSourceProfile(p)
  \/ \E id \in CompilationIds, method \in MethodPool, catalogs \in PlacesOf("SOURCE"),
        snapshot \in Snapshots : \E grounded \in GroundedChoices(method) :
        RecordProcedureCompilation(id, [method |-> method, catalogs |-> catalogs,
                                        snapshot |-> snapshot, grounded |-> grounded])
  \/ \E id \in OutcomeIds, place \in PlacesOf("COMPILATION"),
        evidence \in (SUBSET RetainedArtifacts) \ {{}}, budgets \in SUBSET BudgetRecords :
        RecordMethodDirectionOutcome(id, place, evidence, budgets)
  \/ \E id \in PlanVersionIds, place \in PlacesOf("COMPILATION"), run \in ProcedureRuns :
        BindCompiledProgressPlan(id, place, run)
  \/ \E id \in BudgetRecords : RecordPlanBudget(id)

ProcedureSpec == ProcedureInit /\ [][ProcedureNext]_procedureVars

-----------------------------------------------------------------------------
(* Reconstruction from the accepted transactions (cognitive/integrity.py).  *)

CompilationReplays(i) == SourcesReplay(procedureLog[i].request, i)

(* available_artifacts: for each content, the last artifact accepted.       *)
LatestArtifact(content, i) ==
  LET places == {j \in Observations : j < i /\ SourceAt(j).artifact.content = content}
  IN SourceAt(Max(places)).artifact

OutcomeReplays(i) ==
  LET outcome == procedureLog[i]
  IN /\ procedureLog[outcome.compilation].policy = outcome.policy
     /\ \A artifact \in outcome.evidence : LatestArtifact(artifact.content, i) = artifact
     /\ \A budget \in outcome.budgets :
          \E j \in PlacesOf("BUDGET") : j < i /\ procedureLog[j].id = budget

BindingReplays(i) ==
  LET binding == procedureLog[i]
      compilation == procedureLog[binding.compilation]
  IN /\ SourcesReplay(compilation.request, i)
     /\ compilation.policy = binding.policy
     /\ CompiledStatus(compilation.request) = "VALID"
     /\ binding.subtasks = StepIds(compilation.request.method)

ProcedureReplays(i) ==
  CASE procedureLog[i].kind = "COMPILATION" -> CompilationReplays(i)
    [] procedureLog[i].kind = "OUTCOME" -> OutcomeReplays(i)
    [] procedureLog[i].kind = "BINDING" -> BindingReplays(i)
    [] OTHER -> TRUE

(* "Full verification reconstructs records from accepted transaction        *)
(* proposals in a fresh logical projection": what admission accepts replays *)
(* (docs/superpowers/specs/2026-08-23-governed-cognitive-cohorts-procedure- *)
(* compilation-design.md:728; integrity.py:783-880).                        *)
AcceptedProceduresReplay == \A i \in DOMAIN procedureLog : ProcedureReplays(i)

(* Every accepted compilation, binding and outcome is reconstructed by      *)
(* verification, however snapshots, profiles and policies moved on between  *)
(* and after them (service.py:110-438, integrity.py:391-454, 786-880), as   *)
(* long as no content is on record under two descriptions.                  *)
DescribedOnceReplays ==
  (\A i, j \in Observations : SourceAt(i).artifact.content = SourceAt(j).artifact.content =>
                                SourceAt(i).artifact = SourceAt(j).artifact) =>
    AcceptedProceduresReplay

(* Once the steps a step needs are done, its inputs exist, in a catalog or  *)
(* made by a step already done; there is always a step to do next; and      *)
(* retrying from a failed step comes to an end.                             *)
CanBeCarriedOut(request) ==
  LET method == request.method
      catalogs == SourceAt(request.catalogs)
      ready(done) == {s \in Steps(method) : s.id \notin done /\ s.needs \subseteq done}
      present == {a \in DOMAIN catalogs.artifacts : catalogs.artifacts[a] = "PRESENT"}
      made(done) == UNION {s.outputs : s \in {t \in Steps(method) : t.id \in done}}
      closed == {d \in SUBSET StepIds(method) : Needs(method, d) \subseteq d}
  IN /\ \A done \in closed :
          /\ done # StepIds(method) => ready(done) # {}
          /\ \A s \in ready(done) : s.inputs \subseteq present \cup made(done)
     /\ \A id \in StepIds(method) : id \notin RecoveryFrom(method, id)

(* A bound plan can be carried out, in whatever order its dependencies      *)
(* allow (compiler.py:_check_3, _check_4, _check_13).                       *)
BoundPlansCanBeCarriedOut ==
  \A i \in PlacesOf("BINDING") :
    CanBeCarriedOut(procedureLog[procedureLog[i].compilation].request)

(* A compiled procedure holds: verification reconstructs it from the        *)
(* snapshots it was compiled from, and the plan bound to it can be carried  *)
(* out (integrity.py:783-880, compiler.py:_check_3, _check_4, _check_13).   *)
CompiledProceduresHold == DescribedOnceReplays /\ BoundPlansCanBeCarriedOut
=============================================================================
