----------------------------- MODULE ClaimLifecycle -----------------------------
(***************************************************************************)
(* Evidence and atomic claims as the admission engine decides them          *)
(* (kernel/admission/engine.py) and the claim part of the whole-workspace   *)
(* verification that precedes every submission (workspace_integrity.py).    *)
(*                                                                         *)
(* A submission holds the writer lock from its verification to its commit   *)
(* (module Coordinator), so it is one step here.  A rejection changes no    *)
(* evidence and no claim; its record is the coordinator's concern.          *)
(***************************************************************************)
EXTENDS Naturals, Sequences, FiniteSets

CONSTANTS
  Claims,         \* claim identifiers
  Evidence,       \* evidence identifiers
  Spans,          \* supporting spans a link may quote
  Contents,       \* proposition, scope, system and modality, as one value
  Assumptions,    \* the assumptions of a claim, as one value
  RequiredChecks, \* required_claim_checks of the governing policy
  MaxVersions     \* bound on the history of a claim

ASSUME RequiredChecksAssumption == RequiredChecks # {}
ASSUME MaxVersionsAssumption == MaxVersions \in Nat \ {0}

VARIABLES
  evidence,   \* evidence added so far, with the quotable spans of its extracted text
  history     \* the versions of each claim, oldest first

vars == <<evidence, history>>

Status == {"PROPOSED", "EVIDENCE_LINKED", "TESTABLE", "REPRODUCED", "CORROBORATED",
           "CONSTRAINT_VALIDATED", "FALSIFIED", "SUPERSEDED", "WITHDRAWN"}

(* A record without an extracted span quotes nothing.                       *)
EvidenceRecords == [id: Evidence, spans: SUBSET Spans]
Links == [id: Evidence, span: Spans]

(* The claim model refuses to construct any other record: only proposed and *)
(* withdrawn claims go without links.                                       *)
AtomicClaims ==
  {v \in [status: Status, content: Contents, links: SUBSET Links, assumptions: Assumptions,
          version: 1..MaxVersions] : v.links = {} => v.status \in {"PROPOSED", "WITHDRAWN"}}

-----------------------------------------------------------------------------
(* The status graph (domain/claims/transitions.py).                         *)

Allowed ==
  [s \in Status |->
     CASE s = "PROPOSED" -> {"EVIDENCE_LINKED", "FALSIFIED", "WITHDRAWN"}
       [] s = "EVIDENCE_LINKED" ->
            {"TESTABLE", "CORROBORATED", "CONSTRAINT_VALIDATED", "FALSIFIED", "WITHDRAWN"}
       [] s = "TESTABLE" ->
            {"REPRODUCED", "CORROBORATED", "CONSTRAINT_VALIDATED", "FALSIFIED", "WITHDRAWN"}
       [] s = "REPRODUCED" -> {"CORROBORATED", "FALSIFIED", "SUPERSEDED", "WITHDRAWN"}
       [] s = "CORROBORATED" -> {"FALSIFIED", "SUPERSEDED", "WITHDRAWN"}
       [] s = "CONSTRAINT_VALIDATED" -> {"CORROBORATED", "FALSIFIED", "SUPERSEDED", "WITHDRAWN"}
       [] s = "FALSIFIED" -> {"SUPERSEDED"}
       [] OTHER -> {}]

(* Statuses whose proof the engine does not implement.                      *)
NeedsReview == {"REPRODUCED", "CORROBORATED", "CONSTRAINT_VALIDATED", "FALSIFIED", "SUPERSEDED"}

-----------------------------------------------------------------------------
(* Deterministic checks (evaluation/claim_drift/deterministic.py).          *)

SourceExists(link) == \E e \in evidence : e.id = link.id
SpanExists(link) == \E e \in evidence : e.id = link.id /\ link.span \in e.spans

(* The checks a claim ran and passed on all of its links; a failed one      *)
(* fails the claim.                                                         *)
ChecksPass(v) == v.links # {} /\ \A link \in v.links : SourceExists(link) /\ SpanExists(link)
ImplementedChecks == {"source_exists", "evidence_span_exists"}

-----------------------------------------------------------------------------
(* Verification of the stored claims (_require_claim_evidence_consistency). *)

VersionVerifies(v) ==
  \/ v.status = "PROPOSED"
  \/ v.status = "WITHDRAWN" /\ v.links = {}
  \/ ChecksPass(v)

WorkspaceVerifies ==
  \A c \in Claims : \A i \in 1..Len(history[c]) : VersionVerifies(history[c][i])

-----------------------------------------------------------------------------
(* Admission (AdmissionEngine.decide).  Submissions that fail a check are   *)
(* rejected and leave evidence and claims alone.                            *)

Current(c) == history[c][Len(history[c])]

Init ==
  /\ evidence = {}
  /\ history = [c \in Claims |-> <<>>]

AddEvidence(e) ==
  /\ WorkspaceVerifies
  /\ \A f \in evidence : f.id # e.id
  /\ evidence' = evidence \cup {e}
  /\ UNCHANGED history

(* A new claim is PROPOSED; its links are not looked up.                    *)
ProposeClaim(c, v) ==
  /\ history[c] = <<>>
  /\ v.status = "PROPOSED" /\ v.version = 1
  /\ WorkspaceVerifies
  /\ history' = [history EXCEPT ![c] = <<v>>]
  /\ UNCHANGED evidence

(* Mutant of Succeeds: a client that read an older head may still append.    *)
SucceedsAnyVersion(v, current) ==
  /\ v.version > 1
  /\ v.content = current.content
  /\ v.status \in Allowed[current.status]

(* The next version is the exact successor of the head, keeps its identity  *)
(* and follows an edge of the graph.                                        *)
Succeeds(v, current) ==
  /\ v.version = current.version + 1
  /\ v.content = current.content
  /\ v.status \in Allowed[current.status]

(* Mutant of WithdrawalAdmits: withdrawal may change its links, unchecked.  *)
WithdrawalKeepsAssumptions(v, current) == v.assumptions = current.assumptions

(* Withdrawal keeps assumptions and links and checks no evidence.           *)
WithdrawalAdmits(v, current) == v.assumptions = current.assumptions /\ v.links = current.links

EvidenceAdmits(v, current) ==
  /\ v.status \notin NeedsReview
  /\ v.status = "EVIDENCE_LINKED" => v.links \ current.links # {}
  /\ ChecksPass(v)
  /\ RequiredChecks \subseteq ImplementedChecks

TransitionAdmits(v, current) ==
  /\ Succeeds(v, current)
  /\ IF v.status = "WITHDRAWN" THEN WithdrawalAdmits(v, current) ELSE EvidenceAdmits(v, current)

TransitionClaim(c, v) ==
  /\ history[c] # <<>>
  /\ TransitionAdmits(v, Current(c))
  /\ WorkspaceVerifies
  /\ history' = [history EXCEPT ![c] = Append(@, v)]
  /\ UNCHANGED evidence

Next ==
  \/ \E e \in EvidenceRecords : AddEvidence(e)
  \/ \E c \in Claims, v \in AtomicClaims : ProposeClaim(c, v)
  \/ \E c \in Claims, v \in AtomicClaims : TransitionClaim(c, v)

Spec == Init /\ [][Next]_vars

-----------------------------------------------------------------------------
(* Properties.                                                              *)

(* Evidence identifiers are never redefined and histories hold well-formed  *)
(* versions, each at the position its version number says.                  *)
TypeOK ==
  /\ evidence \subseteq EvidenceRecords
  /\ \A e, f \in evidence : e.id = f.id => e = f
  /\ history \in [Claims -> Seq(AtomicClaims)]

(* A claim's history is one walk through the status graph from PROPOSED, on *)
(* unchanged identity content, its versions numbered without gap or repeat: *)
(* no two clients that read the same head both append (engine.py:160-190,   *)
(* repositories.py:691-710).                                                *)
HistoryFollowsGraph ==
  \A c \in Claims : \A i \in 1..Len(history[c]) :
    /\ history[c][i].version = i
    /\ history[c][i].content = history[c][1].content
    /\ history[c][i].status = "PROPOSED" <=> i = 1
    /\ i > 1 => history[c][i].status \in Allowed[history[c][i - 1].status] \ NeedsReview

(* Every version the kernel admitted keeps passing the evidence checks, for *)
(* ever, except the withdrawal of a claim that was never supported: only    *)
(* the second version of a claim can fail verification, and only as a       *)
(* withdrawal (engine.py:198-210 against workspace_integrity.py:3102-3118). *)
OnlyEarlyWithdrawalsFail ==
  \A c \in Claims : \A i \in 1..Len(history[c]) :
    VersionVerifies(history[c][i]) \/ (i = 2 /\ history[c][i].status = "WITHDRAWN")

(* Whatever is admitted leaves a workspace that verifies, so the next       *)
(* submission is decided on its merits.  README.md:182 says "Integrity      *)
(* errors stop the affected operation"; the code stops every later one.     *)
AdmissionKeepsWorkspaceVerifiable == WorkspaceVerifies

=============================================================================
