----------------------------- MODULE ProgressReplay -----------------------------
(***************************************************************************)
(* The progress part of whole-workspace verification                        *)
(* (application/workspace_integrity.py): the accepted proposals, replayed   *)
(* one after the other, rebuild the tables and the heads, and each must be  *)
(* admissible where it stands.  As a specification it says which histories  *)
(* of progress verification lets through.                                   *)
(***************************************************************************)
EXTENDS ProgressCalculations

VARIABLES governing, runs, plans, events, heads, budgets, checkpoints, completions, evidence

vars == <<governing, runs, plans, events, heads, budgets, checkpoints, completions, evidence>>

AddUnique(table, record) == \A r \in table : r.id # record.id

Init ==
  /\ runs = {} /\ plans = {} /\ events = {} /\ budgets = {} /\ checkpoints = {} /\ completions = {}
  /\ \A r \in DOMAIN heads : heads[r] = {}
  /\ evidence = {}

ReplayPolicy == UNCHANGED <<runs, plans, events, heads, budgets, checkpoints, completions, evidence>>

ReplayEvidence ==
  /\ evidence \subseteq evidence'
  /\ UNCHANGED <<governing, runs, plans, events, heads, budgets, checkpoints, completions>>

ReplayRun(r) ==
  /\ AddUnique(runs, r)
  /\ runs' = runs \cup {r}
  /\ UNCHANGED <<governing, plans, events, heads, budgets, checkpoints, completions, evidence>>

(* The plan continues its run's history and brings only new subtasks.       *)
ReplayPlan(p) ==
  /\ \E r \in runs : r.id = p.run
  /\ \A q \in PlansOf(plans, p.run) : q.version < p.version
  /\ p.version = 1 \/ \E q \in PlansOf(plans, p.run) : q.version = p.version - 1
  /\ Calculable(p)
  /\ AddUnique(plans, p)
  /\ \A q \in plans : Subtasks(p) \cap Subtasks(q) = {}
  /\ plans' = plans \cup {p}
  /\ UNCHANGED <<governing, runs, events, heads, budgets, checkpoints, completions, evidence>>

ReplayEvent(e) ==
  /\ \E r \in runs : r.id = e.run
  /\ \E p \in PlansOf(plans, e.run) :
       /\ p.id = e.plan /\ e.subtask \in Subtasks(p)
       /\ AdvancesHead(e, p, plans, {h \in events : h.id \in heads[e.run]})
  /\ AddUnique(events, e)
  /\ events' = events \cup {e}
  /\ heads' = [heads EXCEPT ![e.run] = {e.id}]
  /\ UNCHANGED <<governing, runs, plans, budgets, checkpoints, completions, evidence>>

ReplayBudget(b) ==
  /\ b.policy = governing
  /\ \E p \in PlansOf(plans, b.run) : p.id = b.plan
  /\ AddUnique(budgets, b)
  /\ budgets' = budgets \cup {b}
  /\ UNCHANGED <<governing, runs, plans, events, heads, checkpoints, completions, evidence>>

(* A checkpoint states the official progress, the pending dependencies and  *)
(* the latest applicable budget of the current plan.                        *)
ReplayCheckpoint(c) ==
  /\ c.policy = governing
  /\ \E p \in plans :
       /\ p.id = c.plan /\ p.run = c.run /\ IsCurrent(p, plans)
       /\ LET official == OfficialProgress(p, {e \in events : e.plan = c.plan})
          IN c.validated = official /\ c.pending = Pending(p, official)
  /\ Applicable(budgets, c.run, c.plan, c.policy) # {}
  /\ c.budget = LatestOf(Applicable(budgets, c.run, c.plan, c.policy)).id
  /\ AddUnique(checkpoints, c)
  /\ checkpoints' = checkpoints \cup {c}
  /\ UNCHANGED <<governing, runs, plans, events, heads, budgets, completions, evidence>>

(* A decision is by the declared validator, independent of the run's creator*)
(* and of the proposer, rests on retained evidence, is no false finish and  *)
(* is positive exactly when every gate is passed.                           *)
ReplayCompletion(c) ==
  /\ \E r \in runs, p \in plans :
       /\ r.id = c.run /\ p.id = c.plan /\ p.run = c.run
       /\ Independent(r.validator, r.creator) /\ Independent(r.validator, c.proposer)
       /\ LET own == {b \in budgets : b.plan = c.plan}
          IN /\ own # {}
             /\ ~FalseFinish(c.case, OfficialProgress(p, {e \in events : e.plan = c.plan}), LatestOf(own).unused)
  /\ c.cited # {} /\ c.cited \subseteq evidence
  /\ c.accepted = (c.case.claims /\ c.case.succeeds /\ c.case.complete /\ c.case.passed)
  /\ c.case.claims => c.accepted
  /\ AddUnique(completions, c)
  /\ completions' = completions \cup {c}
  /\ UNCHANGED <<governing, runs, plans, events, heads, budgets, checkpoints, evidence>>

Next ==
  \/ ReplayPolicy \/ ReplayEvidence
  \/ \E r \in runs' : ReplayRun(r)
  \/ \E p \in plans' : ReplayPlan(p)
  \/ \E e \in events' : ReplayEvent(e)
  \/ \E b \in budgets' : ReplayBudget(b)
  \/ \E c \in checkpoints' : ReplayCheckpoint(c)
  \/ \E c \in completions' : ReplayCompletion(c)

Spec == Init /\ [][Next]_vars
=============================================================================
