------------------------------- MODULE MCTrails --------------------------------
(* A small instance of Trails.                                              *)
EXTENDS Trails, TLC

MCTrailEvidence == {[id |-> "e", ingestor |-> "i", primary |-> TRUE]}

MCNode(role, time, layer) ==
  [evidence |-> "e", role |-> role, time |-> time, layer |-> layer]
MCRelation(type, from, to) == [type |-> type, modality |-> "QUALIFIED", from |-> from, to |-> to]

(* A causal step, and a contradiction.                                      *)
MCGraphs ==
  {[nodes |-> [a |-> MCNode("REQUIRED", 1, 0), b |-> MCNode("SUPPORTING", 2, 1)],
    relations |-> {MCRelation("ENABLES", "a", "b")}],
   [nodes |-> [a |-> MCNode("REQUIRED", 1, 0), b |-> MCNode("OPPOSING", 1, 0)],
    relations |-> {MCRelation("CONTRADICTS", "a", "b")}]}

MCAssessments ==
  {[actors |-> {"v"}, results |-> [c \in AssessmentCategories |-> "PASSED"]]}

TrailSymmetry == Permutations(TrailVersionIds)
=============================================================================
