---------------------------- MODULE MCProtectedStore ----------------------------
(* A small instance of ProtectedStore: two tasks, two outputs that either   *)
(* task may have.                                                           *)
EXTENDS ProtectedStore, TLC
ProtectedSymmetry == Permutations(Tasks) \cup Permutations(Digests)
=============================================================================
