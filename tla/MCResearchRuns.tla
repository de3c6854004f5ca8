----------------------------- MODULE MCResearchRuns -----------------------------
(***************************************************************************)
(* One run and a handful of events.                                         *)
(***************************************************************************)
EXTENDS ResearchRuns, TLC

ResearchSymmetry == Permutations(ResearchActors)
=============================================================================
