-------------------------- MODULE ProgressCalculations --------------------------
(***************************************************************************)
(* What domain/progress/calculations.py computes from recorded plans,       *)
(* events and budgets.  The handlers and whole-workspace verification both  *)
(* use it.  Subtasks, events and budgets are numbers, which stand for their *)
(* identifiers and carry their order.  A plan's "needs" maps each of its     *)
(* subtasks to those it depends on, "validator" to its declared validator.  *)
(* Weights are positive; "balanced" says that they sum to one.              *)
(***************************************************************************)
EXTENDS Naturals, Sequences, FiniteSets, Functions

CONSTANT Configuration   \* the model configuration behind each actor, a human's its own

(* progress_actors_are_independent: nobody vouches for itself under another *)
(* name.                                                                    *)
Independent(a, b) == a # b /\ Configuration[a] # Configuration[b]

(* Records are ordered by their time, then by their identifier. *)
Later(x, y) == x.at > y.at \/ (x.at = y.at /\ x.id > y.id)
LatestOf(records) == CHOOSE x \in records : \A y \in records \ {x} : Later(x, y)

Subtasks(plan) == DOMAIN plan.needs

(* _topological_subtasks: of the subtasks whose dependencies are placed, the*)
(* first in order is placed next, for as long as there is one.              *)
Ready(needs, placed) == {s \in DOMAIN needs \ placed : needs[s] \subseteq placed}

Topological(needs) ==
  LET order[k \in 0..Cardinality(DOMAIN needs)] ==
        IF k = 0 THEN <<>>
        ELSE LET ready == Ready(needs, Range(order[k - 1]))
             IN IF ready = {} THEN order[k - 1]
                ELSE Append(order[k - 1], CHOOSE s \in ready : \A u \in ready : s <= u)
  IN order[Cardinality(DOMAIN needs)]

(* A cycle, or a dependency outside the plan, leaves subtasks unplaced.     *)
Calculable(plan) ==
  plan.balanced /\ Len(Topological(plan.needs)) = Cardinality(Subtasks(plan))

-----------------------------------------------------------------------------
(* Progress.                                                                *)

EventsOn(events, subtask) == {e \in events : e.subtask = subtask}

(* _is_independently_accepted; assessments that did not pass, or are not    *)
(* authoritative, cannot be requested as VALIDATED.                         *)
IndependentlyAccepted(event, plan) ==
  event.validator = plan.validator[event.subtask] /\ Independent(event.validator, event.proposer)

(* The last event of the subtask validates it.                              *)
StandsValidated(plan, events, subtask) ==
  /\ EventsOn(events, subtask) # {}
  /\ LET last == LatestOf(EventsOn(events, subtask))
     IN last.status = "VALIDATED" /\ IndependentlyAccepted(last, plan)

(* Mutant of OfficialProgress: dependencies are not looked at.              *)
OfficialWhateverItNeeds(plan, events) ==
  {s \in Subtasks(plan) : StandsValidated(plan, events, s)}

(* calculate_progress: down the order, a subtask is official if it stands   *)
(* validated and all it depends on is official already.                     *)
OfficialProgress(plan, events) ==
  LET order == Topological(plan.needs)
      official[k \in 0..Len(order)] ==
        IF k = 0 THEN {}
        ELSE official[k - 1] \cup
               {s \in {order[k]} : StandsValidated(plan, events, s) /\ plan.needs[s] \subseteq official[k - 1]}
  IN official[Len(order)]

(* replay_pending_dependency_ids.                                           *)
Pending(plan, validated) == (UNION Range(plan.needs)) \ validated

(* current_progress_plan.                                                   *)
PlansOf(plans, run) == {p \in plans : p.run = run}
CurrentPlan(plans, run) == CHOOSE p \in PlansOf(plans, run) : \A q \in PlansOf(plans, run) : q.version <= p.version
IsCurrent(plan, plans) == plan \in plans /\ plan = CurrentPlan(plans, plan.run)

(* Mutant of AdvancesHead: an equal time is taken for a later one.          *)
AdvancesHeadInTime(event, plan, plans, headEvents) ==
  /\ IsCurrent(plan, plans)
  /\ \A h \in headEvents : h.plan = event.plan => event.at >= h.at

(* event_advances_progress_head; headEvents holds the head's event, if any. *)
AdvancesHead(event, plan, plans, headEvents) ==
  /\ IsCurrent(plan, plans)
  /\ \A h \in headEvents : h.plan = event.plan => Later(event, h)

(* select_checkpoint_budget: the applicable budgets.                        *)
Applicable(budgets, run, plan, policy) ==
  {b \in budgets : b.run = run /\ b.plan = plan /\ b.policy = policy}

(* detect_false_finish.                                                     *)
FalseFinish(case, official, unused) ==
  case.voluntary /\ case.claims /\ ~case.passed /\ official # {} /\ unused

=============================================================================
