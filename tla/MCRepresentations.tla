--------------------------- MODULE MCRepresentations ---------------------------
(* A small instance of Representations: three versions of one primitive,    *)
(* two of another that in the end has the same concept.                     *)
EXTENDS Representations, TLC

PrimitiveVersion(id, primitive, number, concept, operation, predecessors) ==
  [id |-> id, primitive |-> primitive, number |-> number, concept |-> concept, meaning |-> "m",
   operation |-> operation, predecessors |-> predecessors, dependencies |-> {}, proposer |-> "a",
   status |-> "REPLICATED", policy |-> "p"]
MCPrimitives ==
  {PrimitiveVersion("A1", "A", <<0, 1, 0>>, "c", "o", {}),
   PrimitiveVersion("A2", "A", <<0, 1, 1>>, "c", "o", {"A1"}),
   PrimitiveVersion("A3", "A", <<0, 2, 0>>, "c", "n", {"A2"}),
   PrimitiveVersion("B1", "B", <<1, 0, 0>>, "d", "o", {}),
   PrimitiveVersion("B2", "B", <<2, 0, 0>>, "c", "o", {"B1"})}
FrameEvaluation(id, candidate, frame, evaluator, checker, passed) ==
  [id |-> id, candidate |-> candidate, frame |-> frame, evaluator |-> evaluator,
   checkers |-> {checker}, passed |-> passed, policy |-> "p"]
MCEvaluations ==
  {FrameEvaluation("o2", "A2", "OLD_FRAME", "e", "x", TRUE),
   FrameEvaluation("n2", "A2", "NEW_FRAME", "f", "y", TRUE),
   FrameEvaluation("o3", "A3", "OLD_FRAME", "e", "x", TRUE),
   FrameEvaluation("n3", "A3", "NEW_FRAME", "f", "y", TRUE),
   FrameEvaluation("f3", "A3", "NEW_FRAME", "f", "y", FALSE),
   FrameEvaluation("oB", "B2", "OLD_FRAME", "e", "x", TRUE),
   FrameEvaluation("nB", "B2", "NEW_FRAME", "f", "y", TRUE)}
=============================================================================
