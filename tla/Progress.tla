-------------------------------- MODULE Progress --------------------------------
(***************************************************************************)
(* The progress ledger of long research runs: the five proposal kinds of    *)
(* application/progress/service.py as they are admitted and projected.      *)
(*                                                                         *)
(* A submission holds the writer lock from its verification to its commit   *)
(* (module Coordinator), so an accepted one is one step; a rejected one     *)
(* changes nothing here.  A record that does not name the active policy is  *)
(* rejected; the name is kept where it is looked at again.                  *)
(***************************************************************************)
EXTENDS ProgressCalculations

CONSTANTS
  Policies,         \* policy hashes
  GovernsRuns,      \* policies whose run-local requirement admits research runs
  GovernsProgress,  \* ... and asks for no protected evaluation and no rollback
  Actors, Humans,
  RunIds, PlanIds, EventIds, BudgetIds, CheckpointIds, CompletionIds,
  Bodies,           \* what plans contain: needs, validator, balanced
  Evidence,         \* evidence identifiers
  Times,            \* the times records may carry: the clients' clocks
  Cases             \* what completion proposals report

(* What counts and what does not; the second stands for the other statuses. *)
Statuses == {"VALIDATED", "INVALIDATED"}

ASSUME OrderAssumption == EventIds \subseteq Nat /\ BudgetIds \subseteq Nat /\ Times \subseteq Nat
ASSUME BodiesAssumption ==
  \A b \in Bodies :
    /\ DOMAIN b.needs \subseteq Nat /\ IsFiniteSet(DOMAIN b.needs)
    /\ b.validator \in [DOMAIN b.needs -> Actors] /\ b.balanced \in BOOLEAN
ASSUME PoliciesAssumption == GovernsProgress \subseteq GovernsRuns /\ GovernsRuns \subseteq Policies

VARIABLES
  active,        \* the active policy
  runs, plans, events, budgets, checkpoints, completions,   \* append-only tables
  heads,         \* progress_heads: each run's head event, if it has one
  evidence       \* retained evidence

vars == <<active, runs, plans, events, heads, budgets, checkpoints, completions, evidence>>

Ids(table) == {r.id : r \in table}
PlanEvents(plan) == {e \in events : e.plan = plan.id}
PlanBudgets(plan) == {b \in budgets : b.plan = plan.id}
HeadEvents(run) == {e \in events : e.id \in heads[run]}

(* The plan of the run a proposal names (_plan_lineage_rejection).          *)
Lineage(run, plan) == run \in Ids(runs) /\ plan \in plans /\ plan.run = run

-----------------------------------------------------------------------------
(* Authority.                                                               *)

ApprovedFor(proposer) == \E approver \in Humans : Independent(proposer, approver)

(* _run_authority_rejection, progress_authority_rejection.                  *)
RunAuthority(proposer) == active \in GovernsRuns /\ ApprovedFor(proposer)
ProgressAuthority(proposer) == active \in GovernsProgress /\ ApprovedFor(proposer)

-----------------------------------------------------------------------------
Init ==
  /\ active \in Policies
  /\ runs = {} /\ plans = {} /\ events = {} /\ budgets = {} /\ checkpoints = {} /\ completions = {}
  /\ heads = [r \in RunIds |-> {}]
  /\ evidence = {}

(* What other components do in between: a policy transition, new evidence.  *)
SwitchPolicy(p) ==
  /\ active' = p
  /\ UNCHANGED <<runs, plans, events, heads, budgets, checkpoints, completions, evidence>>

AddEvidence(e) ==
  /\ evidence' = evidence \cup {e}
  /\ UNCHANGED <<active, runs, plans, events, heads, budgets, checkpoints, completions>>

CreateResearchRun(id, creator, validator) ==
  /\ RunAuthority(creator)
  /\ id \notin Ids(runs)
  /\ Independent(creator, validator)
  /\ runs' = runs \cup {[id |-> id, creator |-> creator, validator |-> validator]}
  /\ UNCHANGED <<active, plans, events, heads, budgets, checkpoints, completions, evidence>>

(* Mutant of NextVersion: the default of an empty history is not advanced.  *)
NextVersionFromZero(run) ==
  IF PlansOf(plans, run) = {} THEN 0 ELSE CurrentPlan(plans, run).version + 1

(* One more than the highest version of the run.                            *)
NextVersion(run) ==
  IF PlansOf(plans, run) = {} THEN 1 ELSE CurrentPlan(plans, run).version + 1

RecordProgressPlan(id, run, body, proposer) ==
  LET plan == [id |-> id, run |-> run, version |-> NextVersion(run),
               needs |-> body.needs, validator |-> body.validator, balanced |-> body.balanced]
  IN /\ ProgressAuthority(proposer)
     /\ run \in Ids(runs)
     /\ id \notin Ids(plans)
     /\ \A other \in plans : Subtasks(plan) \cap Subtasks(other) = {}
     /\ Calculable(plan)
     /\ plans' = plans \cup {plan}
     /\ UNCHANGED <<active, runs, events, heads, budgets, checkpoints, completions, evidence>>

(* An event by the subtask's declared validator.  VALIDATED asks for one    *)
(* independent of the run's creator and of the proposer.  The evidence the  *)
(* event names is not looked up, and its time is the client's.              *)
AppendProgressEvent(id, run, plan, subtask, status, at, proposer) ==
  LET event == [id |-> id, run |-> run.id, plan |-> plan.id, subtask |-> subtask, status |-> status,
                validator |-> plan.validator[subtask], proposer |-> proposer, at |-> at]
  IN /\ ProgressAuthority(proposer)
     /\ Lineage(run.id, plan)
     /\ id \notin Ids(events)
     /\ AdvancesHead(event, plan, plans, HeadEvents(run.id))
     /\ status = "VALIDATED" =>
          Independent(event.validator, run.creator) /\ Independent(event.validator, proposer)
     /\ events' = events \cup {event}
     /\ heads' = [heads EXCEPT ![run.id] = {id}]
     /\ UNCHANGED <<active, runs, plans, budgets, checkpoints, completions, evidence>>

(* A budget may be recorded for any plan of its run.                        *)
RecordRunBudget(id, plan, unused, at, proposer) ==
  /\ ProgressAuthority(proposer)
  /\ Lineage(plan.run, plan)
  /\ id \notin Ids(budgets)
  /\ budgets' = budgets \cup {[id |-> id, run |-> plan.run, plan |-> plan.id, unused |-> unused,
                               at |-> at, policy |-> active]}
  /\ UNCHANGED <<active, runs, plans, events, heads, checkpoints, completions, evidence>>

(* Mutant of CheckpointTarget: a superseded plan may be checkpointed.       *)
AnyPlan(plan) == plan \in plans

(* A checkpoint targets the highest plan of its run.                        *)
CheckpointTarget(plan) == IsCurrent(plan, plans)

(* What the checkpoint states has to be what history says: the official     *)
(* progress, what is still waited for, and the latest budget recorded for   *)
(* the plan under the active policy.                                        *)
RecordRunCheckpoint(id, plan, proposer) ==
  LET official == OfficialProgress(plan, PlanEvents(plan))
      applicable == Applicable(budgets, plan.run, plan.id, active)
  IN /\ ProgressAuthority(proposer)
     /\ Lineage(plan.run, plan)
     /\ id \notin Ids(checkpoints)
     /\ CheckpointTarget(plan)
     /\ applicable # {}
     /\ checkpoints' = checkpoints \cup
          {[id |-> id, run |-> plan.run, plan |-> plan.id, validated |-> official,
            pending |-> Pending(plan, official), budget |-> LatestOf(applicable).id,
            policy |-> active]}
     /\ UNCHANGED <<active, runs, plans, events, heads, budgets, completions, evidence>>

(* The decision is the declared final validator's.                          *)
FinalAuthority(run, proposer) ==
  Independent(run.validator, run.creator) /\ Independent(run.validator, proposer)

Success(case) == case.claims /\ case.succeeds /\ case.complete /\ case.passed

(* Any plan of the run may be completed, whatever progress it has made.     *)
DecideCompletion(id, run, plan, proposer, case, cited) ==
  /\ ProgressAuthority(proposer)
  /\ Lineage(run.id, plan)
  /\ id \notin Ids(completions)
  /\ PlanBudgets(plan) # {}
  /\ cited # {} /\ cited \subseteq evidence
  /\ FinalAuthority(run, proposer)
  /\ ~FalseFinish(case, OfficialProgress(plan, PlanEvents(plan)), LatestOf(PlanBudgets(plan)).unused)
  /\ case.claims => Success(case)
  /\ completions' = completions \cup
       {[id |-> id, run |-> run.id, plan |-> plan.id, proposer |-> proposer, case |-> case,
         cited |-> cited, accepted |-> Success(case)]}
  /\ UNCHANGED <<active, runs, plans, events, heads, budgets, checkpoints, evidence>>

-----------------------------------------------------------------------------
Next ==
  \/ \E p \in Policies : SwitchPolicy(p)
  \/ \E e \in Evidence : AddEvidence(e)
  \/ \E id \in RunIds, creator \in Actors, validator \in Actors :
       CreateResearchRun(id, creator, validator)
  \/ \E id \in PlanIds, run \in RunIds, body \in Bodies, proposer \in Actors :
       RecordProgressPlan(id, run, body, proposer)
  \/ \E id \in EventIds, run \in runs, plan \in plans : \E subtask \in Subtasks(plan) :
       \E status \in Statuses, at \in Times, proposer \in Actors :
         AppendProgressEvent(id, run, plan, subtask, status, at, proposer)
  \/ \E id \in BudgetIds, plan \in plans, unused \in BOOLEAN, at \in Times, proposer \in Actors :
       RecordRunBudget(id, plan, unused, at, proposer)
  \/ \E id \in CheckpointIds, plan \in plans, proposer \in Actors :
       RecordRunCheckpoint(id, plan, proposer)
  \/ \E id \in CompletionIds, run \in runs, plan \in plans, proposer \in Actors :
       \E case \in Cases, cited \in SUBSET Evidence :
         DecideCompletion(id, run, plan, proposer, case, cited)

Spec == Init /\ [][Next]_vars

-----------------------------------------------------------------------------
(* Properties.                                                              *)

(* Records are as the handlers build them.                                  *)
TypeOK ==
  /\ active \in Policies
  /\ runs \subseteq [id: RunIds, creator: Actors, validator: Actors]
  /\ plans \subseteq
       [id: PlanIds, run: RunIds, version: Nat \ {0},
        needs: {b.needs : b \in Bodies}, validator: {b.validator : b \in Bodies}, balanced: BOOLEAN]
  /\ events \subseteq
       [id: EventIds, run: RunIds, plan: PlanIds, subtask: Nat, status: Statuses,
        validator: Actors, proposer: Actors, at: Times]
  /\ budgets \subseteq
       [id: BudgetIds, run: RunIds, plan: PlanIds, unused: BOOLEAN, at: Times, policy: Policies]
  /\ Ids(checkpoints) \subseteq CheckpointIds
  /\ completions \subseteq
       [id: CompletionIds, run: RunIds, plan: PlanIds, proposer: Actors, case: Cases,
        cited: SUBSET Evidence, accepted: BOOLEAN]
  /\ heads \in [RunIds -> SUBSET EventIds]
  /\ evidence \subseteq Evidence

(* Every admitted history passes the replay that precedes each later        *)
(* submission: no legal sequence of plans, events, budgets, checkpoints,    *)
(* completions and policy transitions blocks the workspace                  *)
(* (progress/service.py against workspace_integrity.py:1061-1400).          *)
Replay == INSTANCE ProgressReplay WITH governing <- active
ImplementsReplay == Replay!Spec

(* An accepted event takes effect at once: it is its subtask's latest, so   *)
(* progress never goes by an event older than the last one accepted, across *)
(* replanning and clients whose clocks disagree (calculations.py:84-104).   *)
EventTakesEffect ==
  [][\A e \in events' \ events :
       LatestOf(EventsOn({f \in events' : f.plan = e.plan}, e.subtask)) = e]_vars

(* Official progress is the largest set of validated subtasks that holds    *)
(* all its members depend on: invalidating a prerequisite takes every       *)
(* dependent with it, and only those (calculations.py:43-81).               *)
Closed(plan, set) ==
  \A s \in set : StandsValidated(plan, PlanEvents(plan), s) /\ plan.needs[s] \subseteq set
OfficialIsClosure ==
  \A plan \in plans :
    OfficialProgress(plan, PlanEvents(plan)) = UNION {set \in SUBSET Subtasks(plan) : Closed(plan, set)}

=============================================================================
