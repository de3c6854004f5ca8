----------------------------- MODULE MCCoordinator -----------------------------
(***************************************************************************)
(* Small workspaces for the coordinator.  Keys are not symmetric: the       *)
(* history variable remembers the answers on one of them.                   *)
(***************************************************************************)
EXTENDS Coordinator, TLC

Symmetry == Permutations(ProposalIds) \cup Permutations(Policies) \cup Permutations(Clients)
=============================================================================
