------------------------------- MODULE MCLedgers -------------------------------
(***************************************************************************)
(* Small instances of two components in which records under an earlier      *)
(* policy must not count: versions of the evaluator around a constitutional *)
(* transition, and representational primitives.  They share no table, and   *)
(* one of them moves at a time.                                             *)
(***************************************************************************)
EXTENDS MCGovernedAdaptation, MCRepresentations

LedgersInit == AdaptationInit /\ PrimitiveInit

(* Primitives move before init, which leaves the other component at rest.   *)
AdaptationMoves ==
  /\ PrimitiveInit /\ primitivePolicy = "p"
  /\ AdaptationNext
  /\ UNCHANGED primitiveVars
PrimitivesMove ==
  /\ AdaptationInit
  /\ PrimitiveNext
  /\ UNCHANGED adaptationVars

LedgersNext == AdaptationMoves \/ PrimitivesMove

LedgersSpec == LedgersInit /\ [][LedgersNext]_<<adaptationVars, primitiveVars>>
=============================================================================
