------------------------------ MODULE MCCampaigns ------------------------------
(* A small instance of Campaigns: one campaign over two partitions, a       *)
(* candidate that may fail one of them, a late iteration, one confound.     *)
EXTENDS Campaigns

MCCampaignPool ==
  {[id |-> "c", producer |-> "m", coordinator |-> "h", protected |-> TRUE, comparable |-> TRUE,
    attempts |-> 2, evaluator |-> "e1", policy |-> "p"]}
Iteration(id, index, partition, variant, attempt, passed) ==
  [id |-> id, campaign |-> "c", index |-> index, partition |-> partition, variant |-> variant,
   attempt |-> attempt, result |-> IF id = "late" THEN {} ELSE {id}, passed |-> passed,
   negative |-> FALSE, evaluator |-> "e1"]
MCIterations ==
  {Iteration("db", 0, "DISCOVERY", "BASELINE", 1, TRUE),
   Iteration("dc", 1, "DISCOVERY", "CANDIDATE", 1, TRUE),
   Iteration("sb", 2, "SAFETY", "BASELINE", 1, TRUE),
   Iteration("sc", 3, "SAFETY", "CANDIDATE", 1, TRUE),
   Iteration("sf", 3, "SAFETY", "CANDIDATE", 1, FALSE),
   Iteration("late", 4, "DISCOVERY", "CANDIDATE", 2, FALSE)}
MCCampaignResults ==
  {[id |-> i.id, campaign |-> "c", observation |-> i.id, passed |-> i.passed,
    value |-> CASE i.id \in {"db", "sb"} -> 1 [] i.id = "sf" -> 0 [] OTHER -> 2,
    evaluator |-> "e1"] : i \in MCIterations}
MCConfounds ==
  {[id |-> "f", campaign |-> "c", changed |-> FALSE, resolved |-> FALSE, policy |-> "p"]}
=============================================================================
