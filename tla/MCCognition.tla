------------------------------- MODULE MCCognition -------------------------------
(* Model values for checking Cognition with TLC.                            *)
EXTENDS Cognition

MCShows(capability) == [capability |-> capability, snapshot |-> "s1"]
MCProfile(id, actor, policy, verified, model) ==
  [id |-> id, actor |-> actor, policy |-> policy, verified |-> verified,
   fingerprint |-> [model |-> model]]

(* Three candidates of one policy, one of them measured on another          *)
(* snapshot, a second profile of an actor, and profiles of another policy.  *)
MCProfileRecords ==
  {MCProfile("k1", 1, "p", {MCShows("prove")}, "m1"),
   MCProfile("k2", 2, "p", {MCShows("prove"), MCShows("search")}, "m2"),
   MCProfile("k3", 3, "p", {[capability |-> "prove", snapshot |-> "s0"], MCShows("search")}, "NONE"),
   MCProfile("k4", 1, "p", {}, "m1"),
   MCProfile("k5", 4, "q", {MCShows("prove")}, "m1")}

MCRequirement(id, capability) == [id |-> id, capability |-> capability, snapshot |-> "s1"]

MCCohortRequests ==
  {[id |-> "c1", policy |-> "p", candidates |-> {1, 2, 3},
    required |-> {MCRequirement("n1", "prove")}, preferred |-> {MCRequirement("n2", "search")},
    prohibited |-> {{2, 3}}, min |-> 2, max |-> 3],
   [id |-> "c2", policy |-> "q", candidates |-> {4},
    required |-> {MCRequirement("n1", "prove")}, preferred |-> {},
    prohibited |-> {}, min |-> 1, max |-> 1]}

MCCorrelations == {[left |-> 1, right |-> 2, policy |-> "p"]}
=============================================================================
