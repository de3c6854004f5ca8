---------------------------- MODULE MCClaimLifecycle ----------------------------
(***************************************************************************)
(* Two claims over two pieces of evidence.                                  *)
(***************************************************************************)
EXTENDS ClaimLifecycle, TLC

Symmetry == Permutations(Claims) \cup Permutations(Evidence) \cup Permutations(Contents)
=============================================================================
