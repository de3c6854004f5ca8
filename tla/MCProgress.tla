------------------------------- MODULE MCProgress -------------------------------
(***************************************************************************)
(* Runs of two plans: one of two subtasks, the second waiting for the first,*)
(* one of a single subtask, and two plans that cannot be admitted.          *)
(***************************************************************************)
EXTENDS Progress, TLC

CONSTANTS model, validator, human

MCConfiguration == [a \in Actors |-> IF a = model THEN "trained" ELSE IF a = human THEN "none" ELSE "frozen"]

By(needs) == [needs |-> needs, validator |-> [s \in DOMAIN needs |-> validator], balanced |-> TRUE]
Chain == By(1 :> {} @@ 2 :> {1})
Single == By(3 :> {})
Cyclic == By(4 :> {5} @@ 5 :> {4})
Unbalanced == [By(6 :> {}) EXCEPT !.balanced = FALSE]
MCBodies == {Chain, Single, Cyclic, Unbalanced}

(* An honest success, a false finish in the making, and giving up.          *)
Reports == {
  [voluntary |-> TRUE, claims |-> TRUE, passed |-> TRUE, succeeds |-> TRUE, complete |-> TRUE],
  [voluntary |-> TRUE, claims |-> TRUE, passed |-> FALSE, succeeds |-> TRUE, complete |-> TRUE],
  [voluntary |-> FALSE, claims |-> FALSE, passed |-> FALSE, succeeds |-> FALSE, complete |-> FALSE]}

(* Bound on the records beside runs and plans; a second budget only for a   *)
(* single plan without events.                                              *)
CONSTANT MaxRecords
FewRecords ==
  /\ Cardinality(events) + Cardinality(budgets) + Cardinality(checkpoints) + Cardinality(completions)
       <= MaxRecords
  /\ 2 \in Ids(budgets) => 1 \in Ids(budgets) /\ events = {} /\ Cardinality(plans) = 1

(* Histories go on from runs the validator finally validates, and records   *)
(* the model brought.                                                       *)
ByModel ==
  /\ \A r \in runs : r.creator = model /\ r.validator = validator
  /\ \A e \in events : e.proposer = model
  /\ \A c \in completions : c.proposer = model
Bounds == FewRecords /\ ByModel

Symmetry == Permutations(PlanIds) \cup Permutations(RunIds) \cup Permutations(Policies)
=============================================================================
