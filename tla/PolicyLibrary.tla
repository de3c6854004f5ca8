----------------------------- MODULE PolicyLibrary -----------------------------
(***************************************************************************)
(* The policies and cases of the small instances.  "plain" is a V1 policy,  *)
(* "lean" a V2 policy with the same checks, "strict" a V2 policy with one   *)
(* more check and a stronger requirement, "later" a V1 policy a rollback    *)
(* from "strict" may install, and "stuck" a V2 policy whose next transition *)
(* would need a model's approval: only init can install it.                 *)
(***************************************************************************)
EXTENDS Naturals

Asks(minimum, approver) ==
  [minimum |-> minimum, permitted |-> {"HUMAN_JUDGMENT"}, approver |-> approver,
   evaluated |-> TRUE, reversible |-> TRUE]
Supports == [Asks(5, "HUMAN") EXCEPT !.evaluated = FALSE, !.reversible = FALSE]

Version2(checks, governance) ==
  [version |-> 2, checks |-> checks, keepsHuman |-> TRUE,
   requires |-> [governance |-> governance, evaluator |-> Asks(5, "HUMAN"), process |-> Supports]]
Version1(checks, none) ==
  [version |-> 1, checks |-> checks, keepsHuman |-> TRUE,
   requires |-> [governance |-> none, evaluator |-> none, process |-> none]]

(* "none" is the value that says that a policy has no requirement.          *)
Library(none) ==
  [plain |-> Version1({"support"}, none),
   lean |-> Version2({"support"}, Asks(5, "HUMAN")),
   strict |-> Version2({"support", "resolution"}, Asks(7, "HUMAN")),
   later |-> Version1({"support", "resolution"}, none),
   stuck |-> Version2({"support"}, Asks(5, "MODEL"))]

Case(scope, closed, level, sound) ==
  [scope |-> scope, closed |-> closed, level |-> level, grounding |-> "HUMAN_JUDGMENT",
   sound |-> sound]
GovernanceCases ==
  {Case("governance", FALSE, 5, TRUE), Case("governance", FALSE, 7, TRUE),
   Case("governance", TRUE, 7, TRUE), Case("governance", FALSE, 7, FALSE)}
EvaluatorCases ==
  {Case("governance", FALSE, 7, TRUE), Case("evaluator", FALSE, 5, TRUE),
   Case("evaluator", FALSE, 7, TRUE)}
=============================================================================
