---------------------------- MODULE MCCollaboration ----------------------------
(* A small instance of Collaboration: one session of two peers, which may  *)
(* allow changes of topology or none.                                       *)
EXTENDS Collaboration

MCSession ==
  [id |-> "s", peers |-> {1, 2}, edges |-> {<<1, 2>>, <<2, 1>>}, active |-> {1, 2},
   kinds |-> {"k"}, required |-> {"k"}, minimum |-> 2, policy |-> "p",
   budget |-> [hops |-> 3, contributions |-> 2, perPeer |-> 2, changes |-> 3, depth |-> 1,
               repetitions |-> 1, churn |-> 2, share |-> <<1, 1>>, resources |-> 1]]
(* One that allows no changes of topology and no contribution with parents. *)
MCRigidSession == [MCSession EXCEPT !.budget.changes = 0, !.budget.depth = 0]
MCSessions == {MCSession, MCRigidSession}
CollaborationSymmetry ==
  Permutations(RequestIds) \cup Permutations(ContributionIds) \cup Permutations(TopologyEventIds)
=============================================================================
