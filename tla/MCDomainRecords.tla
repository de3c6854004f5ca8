----------------------------- MODULE MCDomainRecords -----------------------------
(***************************************************************************)
(* Small instances of the claims, the constitution, the lifecycles of       *)
(* research runs and the components that keep domain records.  They are     *)
(* moved by proposals of different kinds and are looked at apart: one of    *)
(* them moves, the others rest under a policy that governs them (the        *)
(* constitution before init).  Of governed adaptation chains of transitions *)
(* move here, versions of the evaluator in MCGovernedAdaptation alone.      *)
(* Hypotheses start under the governing policy too: to them the two         *)
(* policies are interchangeable.                                            *)
(***************************************************************************)
EXTENDS MCClaimLifecycle, MCRules, MCHypotheses, MCProtectedStore,
        MCCampaigns, MCCollaboration, MCTrails, MCProcedures, MCCognition,
        MCGovernedAdaptation, MCResearchRuns

VARIABLE moving   \* the component that moves

recordVars ==
  <<vars, ruleVars, hypothesisVars, protectedVars, campaignVars,
    collaborationVars, trailVars, procedureVars, cognitionVars, adaptationVars, researchVars>>

PolicyOf ==
  [rules |-> rulePolicy, hypotheses |-> hypothesisPolicy,
   campaigns |-> harnessPolicy, sessions |-> sessionPolicy, trails |-> trailPolicy,
   procedures |-> procedurePolicy, cognition |-> cognitionPolicy]

DomainRecordsInit ==
  /\ Init /\ RuleInit /\ HypothesisInit /\ ProtectedInit /\ CampaignInit
  /\ CollaborationInit /\ TrailInit /\ ProcedureInit /\ CognitionInit /\ AdaptationInit
  /\ ResearchInit
  /\ moving \in {"claims", "protected store", "constitution", "runs"} \cup DOMAIN PolicyOf
  /\ \A c \in DOMAIN PolicyOf \ ({moving} \ {"hypotheses"}) : PolicyOf[c] = "p"

ClaimsMove ==
  /\ moving = "claims" /\ Next
  /\ UNCHANGED <<ruleVars, hypothesisVars, protectedVars, campaignVars,
                 collaborationVars, trailVars, procedureVars, cognitionVars, adaptationVars,
                 researchVars>>
RulesMove ==
  /\ moving = "rules" /\ RuleNext
  /\ UNCHANGED <<vars, hypothesisVars, protectedVars, campaignVars,
                 collaborationVars, trailVars, procedureVars, cognitionVars, adaptationVars,
                 researchVars>>
HypothesesMove ==
  /\ moving = "hypotheses" /\ HypothesisNext
  /\ UNCHANGED <<vars, ruleVars, protectedVars, campaignVars,
                 collaborationVars, trailVars, procedureVars, cognitionVars, adaptationVars,
                 researchVars>>
ProtectedStoreMoves ==
  /\ moving = "protected store" /\ ProtectedNext
  /\ UNCHANGED <<vars, ruleVars, hypothesisVars, campaignVars,
                 collaborationVars, trailVars, procedureVars, cognitionVars, adaptationVars,
                 researchVars>>
CampaignsMove ==
  /\ moving = "campaigns" /\ CampaignNext
  /\ UNCHANGED <<vars, ruleVars, hypothesisVars, protectedVars,
                 collaborationVars, trailVars, procedureVars, cognitionVars, adaptationVars,
                 researchVars>>
SessionsMove ==
  /\ moving = "sessions" /\ CollaborationNext
  /\ UNCHANGED <<vars, ruleVars, hypothesisVars, protectedVars, campaignVars,
                 trailVars, procedureVars, cognitionVars, adaptationVars, researchVars>>
TrailsMove ==
  /\ moving = "trails" /\ TrailNext
  /\ UNCHANGED <<vars, ruleVars, hypothesisVars, protectedVars, campaignVars,
                 collaborationVars, procedureVars, cognitionVars, adaptationVars,
                 researchVars>>
ProceduresMove ==
  /\ moving = "procedures" /\ ProcedureNext
  /\ UNCHANGED <<vars, ruleVars, hypothesisVars, protectedVars, campaignVars,
                 collaborationVars, trailVars, cognitionVars, adaptationVars, researchVars>>
CognitionMoves ==
  /\ moving = "cognition" /\ CognitionNext
  /\ UNCHANGED <<vars, ruleVars, hypothesisVars, protectedVars, campaignVars,
                 collaborationVars, trailVars, procedureVars, adaptationVars, researchVars>>
ConstitutionMoves ==
  /\ moving = "constitution" /\ AdaptationNext
  /\ UNCHANGED <<vars, ruleVars, hypothesisVars, protectedVars, campaignVars,
                 collaborationVars, trailVars, procedureVars, cognitionVars, researchVars>>
RunsMove ==
  /\ moving = "runs" /\ ResearchNext
  /\ UNCHANGED <<vars, ruleVars, hypothesisVars, protectedVars, campaignVars,
                 collaborationVars, trailVars, procedureVars, cognitionVars, adaptationVars>>

DomainRecordsNext ==
  /\ UNCHANGED moving
  /\ \/ ClaimsMove \/ RulesMove \/ HypothesesMove \/ ProtectedStoreMoves
     \/ CampaignsMove \/ SessionsMove \/ TrailsMove \/ ProceduresMove \/ CognitionMoves
     \/ ConstitutionMoves \/ RunsMove

DomainRecordsSpec == DomainRecordsInit /\ [][DomainRecordsNext]_<<recordVars, moving>>

(* Identities are drawn from pools the components share.                    *)
RecordSymmetry == Permutations(RuleDecisionIds) \cup Permutations(TrailVersionIds)
=============================================================================
