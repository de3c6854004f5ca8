---------------------------- MODULE WorkspaceExchange ----------------------------
(***************************************************************************)
(* Export of a workspace as a canonical bundle and its import, by replay    *)
(* through the coordinator, into another workspace                          *)
(* (application/workspace_exchange.py), while clients of both workspaces    *)
(* add evidence and move the governing policy.                              *)
(*                                                                         *)
(* Submissions are one step each (module Coordinator shows why).  A         *)
(* proposal is its stable identity, used as proposal id and as key, and its *)
(* body: evidence named by its artifact, or a policy transition.  The hash  *)
(* chain of the audit log is collision free: an event's hash is the log up  *)
(* to that event.                                                           *)
(***************************************************************************)
EXTENDS Naturals, Sequences, FiniteSets, SequencesExt

CONSTANTS
  Ids,        \* stable identities of proposals
  Artifacts,  \* digests of evidence artifacts
  Policies,   \* hashes of governance policy snapshots
  NoPolicy,   \* the workspace is not initialised
  MaxSource,  \* bound on the audit log of the source
  MaxTarget,  \* bound on the events the target's own clients add
  MaxTime     \* bound on the clock

ASSUME NoPolicyAssumption == NoPolicy \notin Policies
ASSUME BoundsAssumption == {MaxSource, MaxTarget, MaxTime} \subseteq Nat

VARIABLES
  ws,        \* the committed state of each workspace
  store,     \* the artifacts in each workspace's artifact store
  now,       \* the clock both workspaces read
  importer   \* the state of the import process

vars == <<ws, store, now, importer>>

Sides == {"source", "target"}
Bound == [source |-> MaxSource, target |-> MaxTarget]

Evidence == [kind: {"evidence"}, artifact: Artifacts]
Transitions == {t \in [kind: {"transition"}, prior: Policies, candidate: Policies] :
                  t.prior # t.candidate}
InvalidBody == [kind |-> "invalid"]
Bodies == Evidence \cup Transitions
Codes == {"ACCEPTED", "IDEMPOTENCY_CONFLICT", "POLICY_HASH_MISMATCH", "EVIDENCE_HASH_MISMATCH",
          "ENTITY_ALREADY_EXISTS"}
Events == [id: Ids, body: Bodies \cup {InvalidBody}, decision: Codes, policy: Policies,
           configured: Policies \cup {NoPolicy}, at: 0..MaxTime, persisted: BOOLEAN]
Workspaces ==
  [log: Seq(Events), active: Policies \cup {NoPolicy}, policies: SUBSET Policies]
EmptyWorkspace == [log |-> <<>>, active |-> NoPolicy, policies |-> {}]

-----------------------------------------------------------------------------
(* The coordinator's decision on one submission (module Coordinator models  *)
(* the transaction around it).                                              *)

Accepted(w) == {e \in ToSet(w.log) : e.persisted /\ e.decision = "ACCEPTED"}
Stored(w, id) == {e \in ToSet(w.log) : e.persisted /\ e.id = id}
HasEvidence(w, a) == \E e \in Accepted(w) : e.body \in Evidence /\ e.body.artifact = a

(* Verification rehashes the artifact of every accepted evidence record.    *)
WorkspaceVerifies(w, artifacts) == \A a \in Artifacts : HasEvidence(w, a) => a \in artifacts

Event(w, id, body, configured, t, code, persisted) ==
  [id |-> id, body |-> body, decision |-> code, policy |-> w.active,
   configured |-> IF configured \in w.policies THEN configured ELSE NoPolicy,
   at |-> t, persisted |-> persisted]
Logged(w, event) == [w EXCEPT !.log = Append(@, event)]

Decide(w, artifacts, configured, body) ==
  IF configured # w.active THEN "POLICY_HASH_MISMATCH"
  ELSE IF body \in Evidence
  THEN IF body.artifact \notin artifacts THEN "EVIDENCE_HASH_MISMATCH"
       ELSE IF HasEvidence(w, body.artifact) THEN "ENTITY_ALREADY_EXISTS" ELSE "ACCEPTED"
  ELSE IF body.prior # w.active THEN "POLICY_HASH_MISMATCH" ELSE "ACCEPTED"

(* A new submission is decided, projected, stored and audited.              *)
Settled(w, artifacts, configured, id, body, t) ==
  LET code == Decide(w, artifacts, configured, body)
      projected ==
        IF code = "ACCEPTED" /\ body \in Transitions
        THEN [w EXCEPT !.active = body.candidate, !.policies = @ \cup {body.candidate}]
        ELSE w
  IN Logged(projected, [Event(w, id, body, configured, t, code, TRUE) EXCEPT
       !.configured = IF configured \in projected.policies THEN configured ELSE NoPolicy])

(* A reused identity is an audited conflict that stores nothing.            *)
Conflicted(w, configured, id, body, t) ==
  Logged(w, Event(w, id, body, configured, t, "IDEMPOTENCY_CONFLICT", FALSE))

-----------------------------------------------------------------------------
(* The bundle.  Only persisted decisions are exported, in audit order, each *)
(* with the policy that governed it and the identity of its audit event.    *)

(* Mutant of Record: the identity does not cover when an event occurred.    *)
RecordTimeless(log, i) ==
  [id |-> log[i].id, body |-> log[i].body, expected |-> log[i].decision,
   governing |-> log[i].policy, persisted |-> log[i].persisted,
   identity |-> [j \in 1..i |-> [log[j] EXCEPT !.at = 0]]]

Record(log, i) ==
  [id |-> log[i].id, body |-> log[i].body, expected |-> log[i].decision,
   governing |-> log[i].policy, persisted |-> log[i].persisted, identity |-> SubSeq(log, 1, i)]
Records(log) ==
  LET kept[n \in 0..Len(log)] ==
        IF n = 0 THEN <<>>
        ELSE IF log[n].persisted THEN Append(kept[n - 1], Record(log, n)) ELSE kept[n - 1]
  IN kept[Len(log)]

(* Mutant of Export: the bundle bootstraps under the policy active now.     *)
ExportUnderActive(w) ==
  LET records == Records(w.log)
  IN [bootstrap |-> w.active, active |-> w.active, policies |-> w.policies, records |-> records,
      evidence |-> {a \in Artifacts : HasEvidence(w, a)},
      artifacts |-> {r.body.artifact : r \in {q \in ToSet(records) : q.body \in Evidence}}]

Export(w) ==
  LET records == Records(w.log)
  IN [bootstrap |-> IF records = <<>> THEN w.active ELSE records[1].governing,
      active |-> w.active, policies |-> w.policies, records |-> records,
      evidence |-> {a \in Artifacts : HasEvidence(w, a)},
      artifacts |-> {r.body.artifact : r \in {q \in ToSet(records) : q.body \in Evidence}}]
Exportable(w, artifacts) == w.active # NoPolicy /\ WorkspaceVerifies(w, artifacts)

-----------------------------------------------------------------------------
(* Replay of one record (submit_intent with its retained audit identity).   *)

(* Mutant of Reproduced: only the newest event is compared.                 *)
ReproducedLast(w, r) == w.log # <<>> /\ Record(w.log, Len(w.log)) = r

(* The retained proposal, decision, policy and audit identity are those of  *)
(* an event of this log.                                                    *)
Reproduced(w, r) == \E i \in 1..Len(w.log) : Record(w.log, i) = r
IdentityConflicts == {"IDEMPOTENCY_CONFLICT", "ENTITY_ALREADY_EXISTS"}

Failed(run) == [run EXCEPT !.failed = TRUE]
Conflict(run, r, w, code) ==
  [run EXCEPT !.w = w, !.conflicts = Append(@, [id |-> r.id, code |-> code])]

ReplayRecord(run, r, artifacts, t) ==
  LET prior == Stored(run.w, r.id)
      same == {e \in prior : e.body = r.body}
      settled == Settled(run.w, artifacts, r.governing, r.id, r.body, t)
      code == Last(settled.log).decision
  IN IF run.failed \/ ~WorkspaceVerifies(run.w, artifacts) THEN Failed(run)
     ELSE IF \E e \in same : e.decision = r.expected /\ Reproduced(run.w, r)
     THEN [run EXCEPT !.replayed = @ + 1]
     ELSE IF \E e \in same : e.decision # r.expected THEN Failed(run)
     ELSE IF prior # {}
     THEN Conflict(run, r, Conflicted(run.w, r.governing, r.id, InvalidBody, t),
                   "IDEMPOTENCY_CONFLICT")
     ELSE IF code = r.expected
     THEN IF Reproduced(settled, r)
          THEN [run EXCEPT !.w = settled, !.imported = @ + 1] ELSE Failed(run)
     ELSE IF code \in IdentityConflicts THEN Conflict(run, r, settled, code)
     ELSE Failed(run)

(* The records of some identities, one after the other.                     *)
Replayed(start, records, ids, artifacts, t) ==
  LET run[n \in 0..Len(records)] ==
        IF n = 0 THEN start
        ELSE IF records[n].id \in ids THEN ReplayRecord(run[n - 1], records[n], artifacts, t)
        ELSE run[n - 1]
  IN run[Len(records)]

(* _commit_workspace: bootstrap the policy of an empty target, replay every *)
(* record, and demand that the result exports to the bundle.                *)
(* Mutant of Prepared: an import starts the target over.                    *)
PreparedAfresh(w, bundle) ==
  [EmptyWorkspace EXCEPT !.active = bundle.bootstrap, !.policies = {bundle.bootstrap}]

Prepared(w, bundle) ==
  IF w.active = NoPolicy
  THEN [w EXCEPT !.active = bundle.bootstrap, !.policies = @ \cup {bundle.bootstrap}]
  ELSE w

(* Without conflicts the result must verify and export to the bundle.       *)
Confirmed(run, bundle, artifacts) ==
  IF ~run.failed /\ run.conflicts = <<>>
     /\ ~(WorkspaceVerifies(run.w, artifacts) /\ Export(run.w) = bundle)
  THEN Failed(run) ELSE run

CommitWorkspace(bundle, w, artifacts, t) ==
  LET initial == Prepared(w, bundle)
      start == [w |-> initial, failed |-> bundle.bootstrap \notin initial.policies,
                imported |-> 0, replayed |-> 0, conflicts |-> <<>>]
  IN Confirmed(Replayed(start, bundle.records, Ids, artifacts, t), bundle, artifacts)

Verified(run) == ~run.failed /\ run.conflicts = <<>>
Transferable(bundle, artifacts) == bundle.artifacts \subseteq artifacts

-----------------------------------------------------------------------------
(* The clients of both workspaces.                                          *)

Idle(outcome) == [phase |-> "idle", outcome |-> outcome]

Init ==
  /\ ws = [side \in Sides |-> EmptyWorkspace]
  /\ store = [side \in Sides |-> {}]
  /\ now = 0
  /\ importer = Idle("none")

Tick ==
  /\ now < MaxTime
  /\ now' = now + 1
  /\ UNCHANGED <<ws, store, importer>>

InitCommand(side, p) ==
  /\ ws[side] = EmptyWorkspace
  /\ ws' = [ws EXCEPT ![side] = [@ EXCEPT !.active = p, !.policies = {p}]]
  /\ UNCHANGED <<store, now, importer>>

(* FileArtifactStore.put: a digest that is present is reused.               *)
PutArtifact(side, a) ==
  /\ a \notin store[side]
  /\ store' = [store EXCEPT ![side] = @ \cup {a}]
  /\ UNCHANGED <<ws, now, importer>>

(* A client configured with a policy that was active once submits; an exact *)
(* replay changes nothing.                                                  *)
Submit(side, configured, id, body) ==
  LET w == ws[side]
      prior == Stored(w, id)
  IN /\ Len(w.log) < Bound[side]
     /\ configured \in w.policies
     /\ WorkspaceVerifies(w, store[side])
     /\ \A e \in prior : e.body # body
     /\ ws' = [ws EXCEPT ![side] =
                 IF prior = {} THEN Settled(w, store[side], configured, id, body, now)
                 ELSE Conflicted(w, configured, id, body, now)]
     /\ UNCHANGED <<store, now, importer>>

-----------------------------------------------------------------------------
(* import_workspace.                                                        *)

(* The preflight rebuilds the target, then the bundle on top of it, in a    *)
(* temporary workspace.                                                     *)
Preflight(bundle, target, artifacts, t) ==
  LET before == Export(target)
      clone == IF target.active = NoPolicy
               THEN [w |-> EmptyWorkspace, failed |-> FALSE, conflicts |-> <<>>]
               ELSE CommitWorkspace(before, EmptyWorkspace, before.artifacts, t)
      run == CommitWorkspace(bundle, clone.w, before.artifacts \cup bundle.artifacts, t)
  IN IF Transferable(before, artifacts) /\ Verified(clone) THEN run ELSE Failed(run)

(* The bundle is read (export_workspace); its decisions, clock and target   *)
(* can change before the preflight looks at them.                           *)
StartImport ==
  /\ importer.phase = "idle"
  /\ Exportable(ws["source"], store["source"])
  /\ importer' = [phase |-> "read", bundle |-> Export(ws["source"]), origin |-> ws["source"],
                  outcome |-> "none"]
  /\ UNCHANGED <<ws, store, now>>

(* _target_snapshot and _preflight_import, which writes to its temporary    *)
(* workspace only: a client's step or a tick between the two reads is the   *)
(* same step before or after them.  A failure changes nothing.              *)
PreflightImport ==
  LET bundle == importer.bundle
      target == ws["target"]
      run == Preflight(bundle, target, store["target"], now)
      passes == /\ IF target.active = NoPolicy THEN target = EmptyWorkspace
                   ELSE bundle.bootstrap \in target.policies /\ Exportable(target, store["target"])
                /\ Transferable(bundle, store["source"])
                /\ ~run.failed
  IN /\ importer.phase = "read"
     /\ Len(target.log) + Len(run.conflicts) <= MaxSource + MaxTarget   \* bound of the model
     /\ importer' = IF passes
                    THEN [phase |-> IF run.conflicts = <<>> THEN "commit" ELSE "conflicts",
                          bundle |-> bundle, origin |-> importer.origin, expected |-> run,
                          created |-> {}, left |-> bundle.artifacts, outcome |-> "none"]
                    ELSE Idle("failed")
     /\ UNCHANGED <<ws, store, now>>

(* _commit_conflicts: only the conflicting records are submitted, and the   *)
(* conflicts must be those of the preflight.                                *)
CommitConflicts ==
  LET start == [w |-> ws["target"], failed |-> FALSE, imported |-> 0, replayed |-> 0,
                conflicts |-> <<>>]
      run == Replayed(start, importer.bundle.records,
                      {c.id : c \in ToSet(importer.expected.conflicts)}, store["target"], now)
      committed == ~run.failed /\ run.conflicts = importer.expected.conflicts
  IN /\ importer.phase = "conflicts"
     /\ ws' = [ws EXCEPT !["target"] = IF committed THEN run.w ELSE @]
     /\ importer' = Idle(IF committed THEN "conflicts" ELSE "failed")
     /\ UNCHANGED <<store, now>>

(* Mutant of TransferArtifact: the loop ends after its first artifact.      *)
TransferOneArtifact(a) ==
  /\ importer.phase = "commit"
  /\ a \in importer.left
  /\ store' = [store EXCEPT !["target"] = @ \cup {a}]
  /\ importer' = [importer EXCEPT !.left = {}, !.created = @ \cup ({a} \ store["target"])]
  /\ UNCHANGED <<ws, now>>

(* _transfer_artifacts_for_commit copies one artifact after the other       *)
(* before the target is locked, and notes the ones it created.              *)
TransferArtifact(a) ==
  /\ importer.phase = "commit"
  /\ a \in importer.left
  /\ store' = [store EXCEPT !["target"] = @ \cup {a}]
  /\ importer' = [importer EXCEPT !.left = @ \ {a}, !.created = @ \cup ({a} \ store["target"])]
  /\ UNCHANGED <<ws, now>>

(* _commit_workspace under the lock; a failure removes the artifacts the    *)
(* transfer created.                                                        *)
CommitImport ==
  LET run == CommitWorkspace(importer.bundle, ws["target"], store["target"], now)
      committed == Verified(run) /\ run.imported = importer.expected.imported
                                /\ run.replayed = importer.expected.replayed
  IN /\ importer.phase = "commit"
     /\ importer.left = {}
     /\ ws' = [ws EXCEPT !["target"] = IF committed THEN run.w ELSE @]
     /\ store' = [store EXCEPT !["target"] = IF committed THEN @ ELSE @ \ importer.created]
     /\ importer' = Idle(IF committed THEN "verified" ELSE "failed")
     /\ UNCHANGED now

(* The importing process dies between two of its steps.                     *)
ImporterCrash ==
  /\ importer.phase # "idle"
  /\ importer' = Idle("none")
  /\ UNCHANGED <<ws, store, now>>

Next ==
  \/ Tick
  \/ \E side \in Sides, p \in Policies : InitCommand(side, p)
  \/ \E side \in Sides, a \in Artifacts : PutArtifact(side, a)
  \/ \E side \in Sides, p \in Policies, id \in Ids, body \in Bodies : Submit(side, p, id, body)
  \/ StartImport
  \/ PreflightImport
  \/ CommitConflicts
  \/ \E a \in Artifacts : TransferArtifact(a)
  \/ CommitImport
  \/ ImporterCrash

Spec == Init /\ [][Next]_vars

-----------------------------------------------------------------------------
(* Properties.                                                              *)

(* Both workspaces stay well formed, and an import process knows what it    *)
(* has copied: what it would remove came from its bundle, and when nothing  *)
(* is left to copy the target holds every artifact of the bundle, though    *)
(* clients of the target add artifacts between two copies                   *)
(* (workspace_exchange.py:935-965).                                         *)
TypeOK ==
  /\ ws \in [Sides -> Workspaces]
  /\ store \in [Sides -> SUBSET Artifacts]
  /\ now \in 0..MaxTime
  /\ importer.phase \in {"idle", "read", "conflicts", "commit"}
  /\ importer.outcome \in {"none", "verified", "conflicts", "failed"}
  /\ importer.phase = "idle" => DOMAIN importer = {"phase", "outcome"}
  /\ importer.phase = "conflicts" => importer.created = {}
  /\ importer.phase = "commit" =>
       /\ importer.created \cup importer.left \subseteq importer.bundle.artifacts
       /\ importer.created \cap importer.left = {}
       /\ importer.bundle.artifacts \ importer.left \subseteq store["target"]

(* The decided history of a workspace: its log up to the last persisted     *)
(* decision.                                                                *)
History(log) == SubSeq(log, 1, Max({0} \cup {i \in 1..Len(log) : log[i].persisted}))

(* An import that reports projections_verified leaves the target with the   *)
(* exporter's history, event for event, under the exporter's active policy  *)
(* and with its evidence: records alone (which skip audited conflicts) and  *)
(* equality of the re-export are enough, since identities are chained       *)
(* (workspace_exchange.py:398-448, coordinator.py:1322-1357).               *)
VerifiedImportReproducesSource ==
  [][importer.phase = "commit" /\ importer'.outcome = "verified" =>
       /\ IsPrefix(History(importer.origin.log), ws'["target"].log)
       /\ ws'["target"].active = importer.origin.active
       /\ Accepted(ws["target"])' = Accepted(importer.origin)
       /\ WorkspaceVerifies(ws["target"], store["target"])']_vars

(* Neither clients nor imports, verified, conflicting or failed, rewrite or *)
(* drop an audit event of either workspace: import is not a merge and never *)
(* an overwrite.                                                            *)
ImportNeverRewrites ==
  [][\A side \in Sides : IsPrefix(ws[side].log, ws[side]'.log)]_vars

(* Exactly which workspaces survive a round trip into an empty one: those   *)
(* whose decided history holds no audited conflict, no rejection by a       *)
(* client with a stale policy and no rejection for a missing artifact, and  *)
(* whose every event the importer's clock stamps alike.                     *)
Reconstructible(w, t) ==
  \A e \in ToSet(History(w.log)) :
    /\ e.persisted /\ e.at = t
    /\ e.configured = e.policy
    /\ e.decision # "EVIDENCE_HASH_MISMATCH"
Rebuilds(w, artifacts, t) ==
  /\ Transferable(Export(w), artifacts)
  /\ Verified(CommitWorkspace(Export(w), EmptyWorkspace, Export(w).artifacts, t))
Untouched(side) == ws[side] = EmptyWorkspace /\ store[side] = {}
RoundTripCharacterised ==
  Untouched("target") /\ Exportable(ws["source"], store["source"]) =>
    (Rebuilds(ws["source"], store["source"], now) <=> Reconstructible(ws["source"], now))

(* Importing a bundle again into a workspace that exports to it: the record *)
(* step on the target itself replays every record and writes nothing,       *)
(* whatever the clock says by then, but the import gets that far exactly    *)
(* when its preflight can rebuild the target in an empty workspace under    *)
(* the current clock (workspace_exchange.py:384-448).                       *)
ReimportReplays ==
  LET bundle == Export(ws["source"])
      live == CommitWorkspace(bundle, ws["target"], store["target"], now)
      preflight == Preflight(bundle, ws["target"], store["target"], now)
  IN Exportable(ws["source"], store["source"]) /\ Exportable(ws["target"], store["target"])
       /\ Export(ws["target"]) = bundle
     => /\ Verified(live) /\ live.w = ws["target"] /\ live.imported = 0
        /\ ~preflight.failed <=> Reconstructible(ws["target"], now)
        /\ ~preflight.failed => preflight.conflicts = <<>> /\ preflight.imported = 0

(* SECURITY.md:124: "Import is intended for an empty workspace or an exact  *)
(* idempotent replay."                                                      *)
IntendedImportsPass ==
  LET bundle == Export(ws["source"])
  IN /\ Exportable(ws["source"], store["source"])
     /\ Transferable(bundle, store["source"])
     /\ \/ ws["target"] = EmptyWorkspace
        \/ Exportable(ws["target"], store["target"]) /\ Export(ws["target"]) = bundle
     => ~Preflight(bundle, ws["target"], store["target"], now).failed

(* A failed import preserves the target                                     *)
(* (test_workspace_import_validation_failure_preserves_target_state): the   *)
(* evidence the target accepted keeps its artifact.                         *)
TargetEvidenceReadable == WorkspaceVerifies(ws["target"], store["target"])

=============================================================================
