------------------------------ MODULE MCHypotheses ------------------------------
(* A small instance of Hypotheses: one version, two rival revisions of it,  *)
(* and a revision that rests on a check of another version.                 *)
EXTENDS Hypotheses, TLC

Undated == "undated"
HypothesisSymmetry == Permutations(HypothesisPolicies)

HypothesisVersion(id, number, content, proposer) ==
  [id |-> id, hypothesis |-> "H", number |-> number, content |-> content, proposer |-> proposer,
   validated |-> TRUE, grounded |-> TRUE, policy |-> Undated]
MCVersions == {HypothesisVersion("a", 1, "x", "m")}
MCModels == {[id |-> "xa", version |-> "a", builtin |-> TRUE, actor |-> "m", policy |-> Undated],
             [id |-> "xb", version |-> "b", builtin |-> TRUE, actor |-> "m", policy |-> Undated]}
MCMechanisms == {[id |-> "ka", version |-> "a", deterministic |-> TRUE, actor |-> "n", policy |-> Undated],
                 [id |-> "kb", version |-> "b", deterministic |-> TRUE, actor |-> "n", policy |-> Undated]}
MCSimulations ==
  {[id |-> "sa", version |-> "a", model |-> "xa", reproduces |-> TRUE, policy |-> Undated]}
HypothesisCheck(id, version, mechanism, simulations, outcome) ==
  [id |-> id, version |-> version, mechanism |-> mechanism, simulations |-> simulations,
   outcome |-> outcome, searched |-> TRUE, found |-> outcome = "FAIL", actor |-> "n", policy |-> Undated]
MCResults == {HypothesisCheck("ra", "a", "ka", {}, "PASS"),
              HypothesisCheck("fa", "a", "ka", {"sa"}, "FAIL"),
              HypothesisCheck("rb", "b", "kb", {}, "PASS")}
MCCounterexamples ==
  {[id |-> "ca", version |-> "a", results |-> {"fa"}, grounded |-> TRUE, actor |-> "n", policy |-> Undated]}
HypothesisRevision(id, prior, results, counterexamples, resulting) ==
  [id |-> id, prior |-> prior, results |-> results, counterexamples |-> counterexamples,
   resulting |-> resulting, actor |-> "m", policy |-> Undated]
MCRevisions ==
  {HypothesisRevision("v1", "a", {"fa"}, {}, HypothesisVersion("b", 2, "y", "m")),
   HypothesisRevision("v2", "a", {"fa"}, {"ca"}, HypothesisVersion("c", 2, "z", "n")),
   HypothesisRevision("v3", "b", {"fa"}, {}, HypothesisVersion("d", 3, "z", "n"))}
=============================================================================
