-------------------------------- MODULE MCRules --------------------------------
(* A small instance of Rules: two rules over two topics, two incidents.     *)
EXTENDS Rules, TLC

RuleContent(scope, wording) == [scope |-> scope, meaning |-> "m", wording |-> wording]
MCRuleIncidents == {[id |-> "i1", reporter |-> "m", grounded |-> TRUE],
                [id |-> "i2", reporter |-> "n", grounded |-> TRUE]}
ProposedRule(id, rule, rank, content, incidents) ==
  [id |-> id, rule |-> rule, number |-> 1, rank |-> rank, content |-> content,
   incidents |-> incidents, supersedes |-> {}, status |-> "PROPOSED", creator |-> "m",
   approver |-> {}, policy |-> "p"]
MCRuleProposals ==
  {[id |-> "p1", version |-> ProposedRule("v1", "r1", 1, RuleContent({"s"}, "a"), {"i1"})],
   [id |-> "p2", version |-> ProposedRule("v2", "r2", 1, RuleContent({"t"}, "a"), {"i2"})],
   [id |-> "p3", version |-> ProposedRule("v1", "r1", 1, RuleContent({"s"}, "a"), {"i1"})]}
RuleReview(id, role, reviewer, proposal, incidents, conflict) ==
  [id |-> id, role |-> role, reviewer |-> reviewer, proposal |-> proposal,
   incidents |-> incidents, conflict |-> conflict, policy |-> "p"]
MCRuleReviews ==
  {RuleReview("a1", "CONFLICT", "x", "p1", {"i1"}, "none"),
   RuleReview("a2", "VERIFICATION", "y", "p1", {"i1"}, "none"),
   RuleReview("a3", "CONFLICT", "x", "p2", {"i1", "i2"}, "EXCEPTION"),
   RuleReview("a4", "VERIFICATION", "y", "p2", {"i2"}, "none")}
RuleCandidate(id, rule, number, rank, content) ==
  [id |-> id, rule |-> rule, number |-> number, rank |-> rank, content |-> content,
   creator |-> "n", bounded |-> TRUE]
MCRuleCandidates ==
  {RuleCandidate("c1", "r1", 2, 1, RuleContent({"s"}, "b")),
   RuleCandidate("c2", "r2", 2, 0, RuleContent({"s", "t"}, "b")),
   RuleCandidate("c3", "r1", 3, 0, RuleContent({"s"}, "c")),
   RuleCandidate("c4", "r2", 1, 1, RuleContent({"t"}, "d"))}
RuleSymmetry == Permutations(RuleDecisionIds)
=============================================================================
