--------------------------- MODULE MCWorkspaceExchange ---------------------------
(***************************************************************************)
(* Two workspaces that exchange two proposals over one artifact.            *)
(***************************************************************************)
EXTENDS WorkspaceExchange

Symmetry == Permutations(Ids) \cup Permutations(Artifacts) \cup Permutations(Policies)
=============================================================================
