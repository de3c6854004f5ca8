------------------------------ MODULE Coordinator ------------------------------
(***************************************************************************)
(* The transaction coordinator of the admission kernel                     *)
(* (application/transactions/coordinator.py) over one SQLite workspace      *)
(* (providers/storage/database.py, repositories.py).                        *)
(*                                                                         *)
(* Several client processes share the workspace.  Each holds a coordinator  *)
(* that was configured, once, with a policy snapshot.  A submission runs in *)
(* a unit of work: BEGIN IMMEDIATE takes the only writer lock, the work is  *)
(* done on an uncommitted copy of the database, and the copy replaces the   *)
(* database on commit or is forgotten on any exception or crash.            *)
(*                                                                         *)
(* What a proposal says is abstracted to its body: it creates a named,     *)
(* append-only entity; it moves the active governance policy; or it failed  *)
(* validation (InvalidProposal).                                            *)
(***************************************************************************)
EXTENDS Naturals, Sequences, FiniteSets

CONSTANTS
  Clients,        \* processes that hold a configured coordinator
  Keys,           \* idempotency keys
  ProposalIds,    \* proposal identifiers
  Entities,       \* identities of append-only domain records
  Governed,       \* the entities created by the governed (migration 0007) proposals
  Digests,        \* intent digests of the service-owned attempt envelopes
  Policies,       \* hashes of governance policy snapshots
  NoClient,       \* nobody holds the writer lock
  NoPolicy,       \* no active policy, or an unregistered configured policy
  NoFingerprint,  \* the fingerprint column is NULL
  NoAttempt,      \* the unit of work is not resolving an intent
  Observed,       \* the keys whose answers the history variable remembers
  MaxAudit,       \* bound on the length of the audit log
  MaxBatch        \* bound on the length of a batch

ASSUME GovernedAssumption == Governed \subseteq Entities
ASSUME ObservedAssumption == Observed \subseteq Keys
ASSUME NoClientAssumption == NoClient \notin Clients
ASSUME NoPolicyAssumption == NoPolicy \notin Policies
ASSUME BoundsAssumption == MaxAudit \in Nat /\ MaxBatch \in Nat

VARIABLES
  db,          \* the committed database
  work,        \* the database as the open unit of work sees it
  owner,       \* the client inside BEGIN IMMEDIATE ... COMMIT
  attempt,     \* the intent the unit of work still has to resolve
  todo,        \* the proposals the unit of work still has to decide
  replies,     \* the decisions it will return after its commit
  configured,  \* the policy snapshot each client's coordinator was built with
  acked        \* every answer on an observed key a client ever received (history)

vars == <<db, work, owner, attempt, todo, replies, configured, acked>>

-----------------------------------------------------------------------------
(* Data.  A submission is a proposal with the fingerprint of its intent.    *)

Creations == [kind: {"create"}, name: Entities]
Transitions == [kind: {"transition"}, prior: Policies, candidate: Policies]
InvalidBody == [kind |-> "invalid"]
Bodies == Creations \cup Transitions \cup {InvalidBody}
GovernedBodies == [kind: {"create"}, name: Governed]

KindOf(body) ==
  IF body \in GovernedBodies THEN "governed" ELSE IF body \in Creations THEN "plain" ELSE "transition"
Kinds == {KindOf(body) : body \in Creations \cup Transitions}

Proposals == [key: Keys, pid: ProposalIds, body: Bodies]
IntentDigests == Digests \cup GovernedBodies
Attempts == [key: Keys, pid: ProposalIds, kind: Kinds, digest: IntentDigests]
Fingerprints == [pid: ProposalIds, kind: Kinds, digest: IntentDigests] \cup {NoFingerprint}
Submissions == [proposal: Proposals, fp: Fingerprints]

Codes == {"NONE", "INVALID_PROPOSAL", "IDEMPOTENCY_CONFLICT", "POLICY_HASH_MISMATCH",
          "ENTITY_ALREADY_EXISTS", "EVIDENCE_HASH_MISMATCH", "DERIVATION_MISMATCH"}
Decisions == [accepted: BOOLEAN, code: Codes]
Accepted == [accepted |-> TRUE, code |-> "NONE"]
Rejected(code) == [accepted |-> FALSE, code |-> code]

Transactions == [proposal: Proposals, fp: Fingerprints, decision: Decisions]
Events == [proposal: Proposals, fp: Fingerprints, decision: Decisions,
           policy: Policies, configured: Policies \cup {NoPolicy}, persisted: BOOLEAN]
Replies == [key: Keys, pid: ProposalIds, fp: Fingerprints, decision: Decisions,
            replayed: BOOLEAN, policy: Policies \cup {NoPolicy}]
Databases == [txs: SUBSET Transactions, audit: Seq(Events), policies: SUBSET Policies,
              active: Policies \cup {NoPolicy}, entities: SUBSET Entities]

EmptyDatabase ==
  [txs |-> {}, audit |-> <<>>, policies |-> {}, active |-> NoPolicy, entities |-> {}]

(* The fingerprint of an attempt envelope, and the one a direct submission  *)
(* is given: only a governed proposal has one, over its canonical content.  *)
AttemptFingerprint(a) == [pid |-> a.pid, kind |-> a.kind, digest |-> a.digest]
DirectFingerprint(p) ==
  IF p.body \in GovernedBodies
  THEN [pid |-> p.pid, kind |-> KindOf(p.body), digest |-> p.body] ELSE NoFingerprint

-----------------------------------------------------------------------------
(* Whole-workspace verification (require_workspace_integrity), which every  *)
(* submission runs first.                                                   *)

SameDecision(e, t) == e.proposal = t.proposal /\ e.decision = t.decision /\ e.fp = t.fp

(* Each transaction has exactly one audit event that says it was persisted, *)
(* an event says so exactly when its transaction exists, and an acceptance  *)
(* is always persisted.                                                     *)
TransactionAuditConsistent(d) ==
  /\ \A t \in d.txs : \E i \in 1..Len(d.audit) :
       /\ SameDecision(d.audit[i], t)
       /\ \A j \in 1..Len(d.audit) : SameDecision(d.audit[j], t) => j = i
  /\ \A i \in 1..Len(d.audit) :
       /\ d.audit[i].persisted <=> \E t \in d.txs : SameDecision(d.audit[i], t)
       /\ d.audit[i].decision.accepted => d.audit[i].persisted

AcceptedTransition(e) == e.persisted /\ e.decision.accepted /\ e.proposal.body \in Transitions
PolicyAfter(e) == IF AcceptedTransition(e) THEN e.proposal.body.candidate ELSE e.policy

(* Replaying the log from its first governing policy attributes every event *)
(* to the policy then active and ends at the active pointer.                *)
HistoricalPolicySequence(d) ==
  Len(d.audit) > 0 =>
    /\ \A i \in 1..Len(d.audit) :
         AcceptedTransition(d.audit[i]) => d.audit[i].proposal.body.prior = d.audit[i].policy
    /\ \A i \in 1..(Len(d.audit) - 1) : d.audit[i + 1].policy = PolicyAfter(d.audit[i])
    /\ d.active = PolicyAfter(d.audit[Len(d.audit)])

(* Every policy an event names is registered; once a transition is accepted *)
(* the registered policies are the first one and the accepted candidates.   *)
AcceptedCandidates(d) ==
  {d.audit[i].proposal.body.candidate : i \in {j \in 1..Len(d.audit) : AcceptedTransition(d.audit[j])}}
PolicyProjectionConsistent(d) ==
  /\ d.active = NoPolicy => d.policies = {} /\ d.audit = <<>>
  /\ d.active # NoPolicy => d.active \in d.policies
  /\ \A i \in 1..Len(d.audit) :
       /\ d.audit[i].policy \in d.policies
       /\ d.audit[i].configured \in d.policies \cup {NoPolicy}
  /\ AcceptedCandidates(d) # {} => d.policies = {d.audit[1].policy} \cup AcceptedCandidates(d)

(* The entities are those of the accepted, persisted creations, each        *)
(* created once.                                                            *)
CreatesEntity(e, name) ==
  e.persisted /\ e.decision.accepted /\ e.proposal.body \in Creations /\ e.proposal.body.name = name
ProjectionConsistent(d) ==
  /\ d.entities = {name \in Entities : \E i \in 1..Len(d.audit) : CreatesEntity(d.audit[i], name)}
  /\ \A name \in Entities, i, j \in 1..Len(d.audit) :
       CreatesEntity(d.audit[i], name) /\ CreatesEntity(d.audit[j], name) => i = j

WorkspaceValid(d) ==
  /\ TransactionAuditConsistent(d)
  /\ HistoricalPolicySequence(d)
  /\ PolicyProjectionConsistent(d)
  /\ ProjectionConsistent(d)

-----------------------------------------------------------------------------
(* Unit of work.                                                            *)

Init ==
  /\ db = EmptyDatabase
  /\ work = EmptyDatabase
  /\ owner = NoClient
  /\ attempt = NoAttempt
  /\ todo = <<>>
  /\ replies = <<>>
  /\ configured \in [Clients -> Policies]
  /\ acked = {}

(* Every submission takes the lock and verifies the workspace before it     *)
(* decides anything; a workspace that fails verification admits nothing.    *)
Begin(c, n) ==
  /\ owner = NoClient
  /\ Len(db.audit) + n <= MaxAudit
  /\ WorkspaceValid(db)
  /\ owner' = c
  /\ work' = db
  /\ replies' = <<>>
  /\ UNCHANGED <<db, configured, acked>>

Submission(p) == [proposal |-> p, fp |-> DirectFingerprint(p)]

Submit(c, p) ==
  /\ Begin(c, 1)
  /\ todo' = <<Submission(p)>>
  /\ attempt' = NoAttempt

SubmitBatch(c, ps) ==
  /\ Begin(c, Len(ps))
  /\ todo' = [i \in 1..Len(ps) |-> Submission(ps[i])]
  /\ attempt' = NoAttempt

SubmitIntent(c, a) ==
  /\ Begin(c, 1)
  /\ todo' = <<>>
  /\ attempt' = a

(* The unit of work ends: the database becomes the working copy and the     *)
(* client receives its decisions, or dies before it reads them; or an       *)
(* exception, or a crash before the commit, leaves the database as it was.  *)
EndUnitOfWork ==
  /\ owner' = NoClient
  /\ attempt' = NoAttempt
  /\ todo' = <<>>
  /\ replies' = <<>>
  /\ UNCHANGED configured

Finished == owner # NoClient /\ attempt = NoAttempt /\ todo = <<>>

Commit ==
  /\ Finished
  /\ db' = work
  /\ work' = work
  /\ acked' = acked \cup {replies[i] : i \in {j \in 1..Len(replies) : replies[j].key \in Observed}}
  /\ EndUnitOfWork

CommitReplyLost ==
  /\ Finished
  /\ db' = work
  /\ work' = work
  /\ acked' = acked
  /\ EndUnitOfWork

(* Mutant of Rollback: the decisions are handed over before the commit.     *)
RollbackAfterAnswering ==
  /\ owner # NoClient
  /\ work' = db
  /\ db' = db
  /\ acked' = acked \cup {replies[i] : i \in {j \in 1..Len(replies) : replies[j].key \in Observed}}
  /\ EndUnitOfWork

Rollback ==
  /\ owner # NoClient
  /\ work' = db
  /\ UNCHANGED <<db, acked>>
  /\ EndUnitOfWork

-----------------------------------------------------------------------------
(* _submit_locked, one action per branch, on the first pending submission.  *)

(* Mutant of AuditEvent: the governing policy is read after the projection. *)
AuditEventAfterProjection(s, d, w) ==
  [proposal |-> s.proposal, fp |-> s.fp, decision |-> d,
   policy |-> w.active,
   configured |-> IF configured[owner] \in w.policies THEN configured[owner] ELSE NoPolicy,
   persisted |-> [proposal |-> s.proposal, fp |-> s.fp, decision |-> d] \in w.txs]

(* _audit: the event is governed by the policy that was active when the     *)
(* submission started, and names the configured one only if registered.     *)
AuditEvent(s, d, w) ==
  [proposal |-> s.proposal, fp |-> s.fp, decision |-> d,
   policy |-> work.active,
   configured |-> IF configured[owner] \in w.policies THEN configured[owner] ELSE NoPolicy,
   persisted |-> [proposal |-> s.proposal, fp |-> s.fp, decision |-> d] \in w.txs]
Audited(s, d, w) == [w EXCEPT !.audit = Append(@, AuditEvent(s, d, w))]

Stored(s, d, w) ==
  [w EXCEPT !.txs = @ \cup {[proposal |-> s.proposal, fp |-> s.fp, decision |-> d]}]

Reply(s, d, replayed) ==
  [key |-> s.proposal.key, pid |-> s.proposal.pid, fp |-> s.fp, decision |-> d,
   replayed |-> replayed, policy |-> work.active]

Answer(s, d, replayed, w) ==
  /\ work' = w
  /\ todo' = Tail(todo)
  /\ replies' = Append(replies, Reply(s, d, replayed))
  /\ UNCHANGED <<db, owner, attempt, configured, acked>>

PriorByKey(k) == {t \in work.txs : t.proposal.key = k}
PriorById(id) == {t \in work.txs : t.proposal.pid = id}
Pending(s) == owner # NoClient /\ todo # <<>> /\ s = Head(todo)
SameSubmission(t, s) == t.proposal = s.proposal /\ t.fp = s.fp

ReplayPrior(s) ==
  /\ Pending(s)
  /\ \E t \in PriorByKey(s.proposal.key) :
       SameSubmission(t, s) /\ Answer(s, t.decision, TRUE, work)

(* Mutant of RejectKeyConflict: a reused key conflicts only when the        *)
(* proposal changed, though the replay compares the fingerprint too.        *)
RejectChangedProposal(s) ==
  /\ Pending(s)
  /\ \E t \in PriorByKey(s.proposal.key) : t.proposal # s.proposal
  /\ LET d == Rejected("IDEMPOTENCY_CONFLICT")
     IN Answer(s, d, FALSE, IF work.active = NoPolicy THEN work ELSE Audited(s, d, work))

(* Mutant of RejectKeyConflict: the conflict is stored like a decision.     *)
StoreKeyConflict(s) ==
  /\ Pending(s)
  /\ \E t \in PriorByKey(s.proposal.key) : ~SameSubmission(t, s)
  /\ LET d == Rejected("IDEMPOTENCY_CONFLICT")
     IN Answer(s, d, FALSE,
               IF work.active = NoPolicy THEN work ELSE Audited(s, d, Stored(s, d, work)))

RejectKeyConflict(s) ==
  /\ Pending(s)
  /\ \E t \in PriorByKey(s.proposal.key) : ~SameSubmission(t, s)
  /\ LET d == Rejected("IDEMPOTENCY_CONFLICT")
     IN Answer(s, d, FALSE, IF work.active = NoPolicy THEN work ELSE Audited(s, d, work))

(* Mutant of RejectUninitialised: the rejection is audited without a        *)
(* governing policy.                                                        *)
AuditUninitialised(s) ==
  /\ Pending(s)
  /\ PriorByKey(s.proposal.key) = {}
  /\ work.active = NoPolicy
  /\ LET d == Rejected("POLICY_HASH_MISMATCH") IN Answer(s, d, FALSE, Audited(s, d, work))

RejectUninitialised(s) ==
  /\ Pending(s)
  /\ PriorByKey(s.proposal.key) = {}
  /\ work.active = NoPolicy
  /\ Answer(s, Rejected("POLICY_HASH_MISMATCH"), FALSE, work)

(* Mutants of RejectStalePolicy: it comes before the replay; it stores the  *)
(* rejection even of a proposal id that was decided under another key.      *)
RejectStalePolicyFirst(s) ==
  /\ Pending(s)
  /\ work.active \notin {NoPolicy, configured[owner]}
  /\ LET d == Rejected("POLICY_HASH_MISMATCH") IN Answer(s, d, FALSE, Audited(s, d, work))

RejectStalePolicyAlwaysStored(s) ==
  /\ Pending(s)
  /\ PriorByKey(s.proposal.key) = {}
  /\ work.active \notin {NoPolicy, configured[owner]}
  /\ LET d == Rejected("POLICY_HASH_MISMATCH")
     IN Answer(s, d, FALSE, Audited(s, d, Stored(s, d, work)))

RejectStalePolicy(s) ==
  /\ Pending(s)
  /\ PriorByKey(s.proposal.key) = {}
  /\ work.active \notin {NoPolicy, configured[owner]}
  /\ LET d == Rejected("POLICY_HASH_MISMATCH")
         w == IF PriorById(s.proposal.pid) = {} THEN Stored(s, d, work) ELSE work
     IN Answer(s, d, FALSE, Audited(s, d, w))

(* Mutant of Governs: any active policy lets a coordinator decide.          *)
GovernsIfInitialised == work.active # NoPolicy

Governs == work.active = configured[owner]

RejectProposalIdReuse(s) ==
  /\ Pending(s)
  /\ PriorByKey(s.proposal.key) = {}
  /\ Governs
  /\ PriorById(s.proposal.pid) # {}
  /\ LET d == Rejected("ENTITY_ALREADY_EXISTS")
     IN Answer(s, d, FALSE, Audited(s, d, work))

(* From here on the decision is stored under the key, whatever it is.       *)
Decidable(s) ==
  /\ Pending(s)
  /\ PriorByKey(s.proposal.key) = {}
  /\ Governs
  /\ PriorById(s.proposal.pid) = {}

(* Mutant of Settle: the decision is audited before it is stored.           *)
AuditThenStore(s, d, w) == Answer(s, d, FALSE, Stored(s, d, Audited(s, d, w)))

Settle(s, d, w) == Answer(s, d, FALSE, Audited(s, d, Stored(s, d, w)))

(* The artifact of submitted evidence is missing or does not verify.        *)
RejectEvidenceArtifact(s) ==
  /\ Decidable(s)
  /\ s.proposal.body \in Creations \ GovernedBodies
  /\ Settle(s, Rejected("EVIDENCE_HASH_MISMATCH"), work)

(* A governed proposal with unsafe state, or whose handler failed.          *)
RejectGovernedFailure(s) ==
  /\ Decidable(s)
  /\ s.proposal.body \in GovernedBodies
  /\ Settle(s, Rejected("DERIVATION_MISMATCH"), work)

(* Mutant of HandlerRejection: the handler looks in the committed database, *)
(* not at what earlier proposals of its batch have done.                    *)
HandlerRejectionFromCommitted(body) ==
  IF body = InvalidBody THEN {Rejected("INVALID_PROPOSAL")}
  ELSE IF body \in Creations
  THEN IF body.name \in db.entities THEN {Rejected("ENTITY_ALREADY_EXISTS")} ELSE {}
  ELSE IF body.prior # db.active THEN {Rejected("POLICY_HASH_MISMATCH")} ELSE {}

HandlerRejection(body) ==
  IF body = InvalidBody THEN {Rejected("INVALID_PROPOSAL")}
  ELSE IF body \in Creations
  THEN IF body.name \in work.entities THEN {Rejected("ENTITY_ALREADY_EXISTS")} ELSE {}
  ELSE IF body.prior # work.active THEN {Rejected("POLICY_HASH_MISMATCH")} ELSE {}

HandlerRejects(s) ==
  /\ Decidable(s)
  /\ \E d \in HandlerRejection(s.proposal.body) : Settle(s, d, work)

(* The handler's projection: a new domain record, or the candidate policy   *)
(* registered and made active (PolicyRepository.add_and_activate).          *)
Projected(body, w) ==
  IF body \in Creations
  THEN [w EXCEPT !.entities = @ \cup {body.name}]
  ELSE [w EXCEPT !.policies = @ \cup {body.candidate}, !.active = body.candidate]

HandlerAccepts(s) ==
  /\ Decidable(s)
  /\ HandlerRejection(s.proposal.body) = {}
  /\ Settle(s, Accepted, Projected(s.proposal.body, work))

SubmitLocked(s) ==
  \/ ReplayPrior(s)
  \/ RejectKeyConflict(s)
  \/ RejectUninitialised(s)
  \/ RejectStalePolicy(s)
  \/ RejectProposalIdReuse(s)
  \/ RejectEvidenceArtifact(s)
  \/ RejectGovernedFailure(s)
  \/ HandlerRejects(s)
  \/ HandlerAccepts(s)

(* A unit of work decides its submissions in their order.                   *)
SubmitNext == todo # <<>> /\ SubmitLocked(Head(todo))

-----------------------------------------------------------------------------
(* submit_intent resolves the attempt under the same lock.                  *)

Resolving == owner # NoClient /\ attempt # NoAttempt

(* The prior decision of the same trusted envelope returns unchanged; the   *)
(* factory does not run.                                                    *)
SameIntent(t, a) == t.fp = AttemptFingerprint(a) /\ t.proposal.pid = a.pid

IntentReply(a, d, replayed) ==
  [key |-> a.key, pid |-> a.pid, fp |-> AttemptFingerprint(a), decision |-> d,
   replayed |-> replayed, policy |-> work.active]

IntentReplay ==
  /\ Resolving
  /\ \E t \in PriorByKey(attempt.key) :
       /\ SameIntent(t, attempt)
       /\ replies' = Append(replies, IntentReply(attempt, t.decision, TRUE))
  /\ attempt' = NoAttempt
  /\ UNCHANGED <<db, work, owner, todo, configured, acked>>

(* A key owned by another envelope, or by a direct submission, is an        *)
(* audited conflict over an InvalidProposal that carries the envelope.      *)
InvalidAttempt(a) ==
  [proposal |-> [key |-> a.key, pid |-> a.pid, body |-> InvalidBody],
   fp |-> AttemptFingerprint(a)]

IntentConflict ==
  /\ Resolving
  /\ \E t \in PriorByKey(attempt.key) : ~SameIntent(t, attempt)
  /\ LET d == Rejected("IDEMPOTENCY_CONFLICT")
     IN /\ work' = IF work.active = NoPolicy THEN work ELSE Audited(InvalidAttempt(attempt), d, work)
        /\ replies' = Append(replies, IntentReply(attempt, d, FALSE))
  /\ attempt' = NoAttempt
  /\ UNCHANGED <<db, owner, todo, configured, acked>>

(* No prior: the factory builds the proposal.  It has to agree with the     *)
(* envelope in id, key, proposer and kind, but not with its digest: what it *)
(* says is any body of that kind, or it is an InvalidProposal.              *)
FactoryBodies(a) ==
  {body \in Creations \cup Transitions : KindOf(body) = a.kind} \cup {InvalidBody}

IntentFactory(body) ==
  /\ Resolving
  /\ PriorByKey(attempt.key) = {}
  /\ body \in FactoryBodies(attempt)
  /\ todo' = <<[proposal |-> [key |-> attempt.key, pid |-> attempt.pid, body |-> body],
                fp |-> AttemptFingerprint(attempt)]>>
  /\ attempt' = NoAttempt
  /\ UNCHANGED <<db, work, owner, replies, configured, acked>>

-----------------------------------------------------------------------------
(* The command line around the coordinator (cli/kernel.py).                 *)

(* Mutant of InitCommand: initialising again starts the database over.      *)
InitCommandFromScratch(q) ==
  /\ owner = NoClient
  /\ db.active \in {NoPolicy, q}
  /\ db' = [EmptyDatabase EXCEPT !.policies = {q}, !.active = q]
  /\ work' = db'
  /\ UNCHANGED <<owner, attempt, todo, replies, configured, acked>>

(* init activates the policy file's snapshot in an empty workspace, and     *)
(* again where it is already active; anything else is refused.              *)
InitCommand(q) ==
  /\ owner = NoClient
  /\ db.active \in {NoPolicy, q}
  /\ db.active = NoPolicy => db = EmptyDatabase
  /\ db' = [db EXCEPT !.policies = @ \cup {q}, !.active = q]
  /\ work' = db'
  /\ UNCHANGED <<owner, attempt, todo, replies, configured, acked>>

(* build_runtime configures a new process with the active policy, read in   *)
(* a unit of work of its own that ends before the first submission.         *)
BuildRuntime(c) ==
  /\ owner = NoClient
  /\ db.active # NoPolicy
  /\ configured' = [configured EXCEPT ![c] = db.active]
  /\ UNCHANGED <<db, work, owner, attempt, todo, replies, acked>>

-----------------------------------------------------------------------------
Batches == UNION {[1..n -> Proposals] : n \in 2..MaxBatch}

Resolve == IntentReplay \/ IntentConflict \/ \E body \in Bodies : IntentFactory(body)

Next ==
  \/ \E q \in Policies : InitCommand(q)
  \/ \E c \in Clients : BuildRuntime(c)
  \/ \E c \in Clients, p \in Proposals : Submit(c, p)
  \/ \E c \in Clients, ps \in Batches : SubmitBatch(c, ps)
  \/ \E c \in Clients, a \in Attempts : SubmitIntent(c, a)
  \/ Resolve
  \/ SubmitNext
  \/ Commit
  \/ CommitReplyLost
  \/ Rollback

Spec == Init /\ [][Next]_vars

(* The context manager always ends the unit of work it opened: the steps    *)
(* under the lock run to the end, in one thread, without waiting.           *)
Fairness ==
  /\ WF_vars(Resolve)
  /\ WF_vars(SubmitNext)
  /\ WF_vars(Commit)
FairSpec == Spec /\ Fairness

-----------------------------------------------------------------------------
(* Properties.                                                              *)

TypeOK ==
  /\ db \in Databases
  /\ work \in Databases
  /\ owner \in Clients \cup {NoClient}
  /\ attempt \in Attempts \cup {NoAttempt}
  /\ todo \in Seq(Submissions)
  /\ replies \in Seq(Replies)
  /\ configured \in [Clients -> Policies]
  /\ acked \subseteq Replies

(* A key and a proposal id are decided by at most one stored transaction,   *)
(* over any interleaving of clients, modes and retries: the two lookups     *)
(* _submit_locked makes before it stores (coordinator.py:506-549).          *)
KeyDecidedOnce ==
  \A t, u \in db.txs :
    t.proposal.key = u.proposal.key \/ t.proposal.pid = u.proposal.pid => t = u

(* Every committed database passes the transaction and audit part of the    *)
(* verification that guards the next submission, so no sequence of legal    *)
(* submissions locks the workspace (workspace_integrity.py:913-958).        *)
TransactionsMatchAudit == TransactionAuditConsistent(db)

(* ... and its policy part: events are attributed to the policy active when *)
(* they were decided, across transitions made while other clients hold an   *)
(* older snapshot (workspace_integrity.py:2956-3043).                       *)
PolicyHistoryReplays == HistoricalPolicySequence(db) /\ PolicyProjectionConsistent(db)

(* ... and its projection part: the domain records are exactly those of the *)
(* accepted proposals (workspace_integrity.py:961-2330).                    *)
ProjectionsMatchAudit == ProjectionConsistent(db)

(* A client whose snapshot another client's transition made stale is never  *)
(* given an acceptance: what is accepted was decided by a coordinator       *)
(* configured with the governing policy (coordinator.py:527-549).           *)
StaleClientsAcceptNothing ==
  \A i \in 1..Len(db.audit) :
    db.audit[i].decision.accepted => db.audit[i].configured = db.audit[i].policy

(* An answer that says accepted, or that it replays, is backed by a stored  *)
(* transaction: a rolled back or crashed unit of work acknowledged nothing. *)
Backed(t, a) ==
  /\ t.proposal.key = a.key /\ t.proposal.pid = a.pid
  /\ t.fp = a.fp /\ t.decision = a.decision
AckedDecisionsAreDurable ==
  \A a \in acked : a.decision.accepted \/ a.replayed => \E t \in db.txs : Backed(t, a)

(* Clients are never told both yes and no for one submission: a rejection   *)
(* they saw stays a rejection when they retry, under any later policy,      *)
(* except a conflict over the content or an uninitialised workspace.        *)
NoReversedAnswer ==
  \A a, b \in acked :
    (a.key = b.key /\ a.pid = b.pid /\ a.fp = b.fp /\ a.decision.accepted /\ ~b.decision.accepted)
      => b.decision.code = "IDEMPOTENCY_CONFLICT" \/ b.policy = NoPolicy

(* Committed history only grows: no step rewrites or drops an audit event   *)
(* or a transaction (append_only.py's triggers guard the same tables).      *)
HistoryOnlyGrows ==
  [][/\ db.txs \subseteq db'.txs
     /\ Len(db.audit) <= Len(db'.audit)
     /\ \A i \in 1..Len(db.audit) : db'.audit[i] = db.audit[i]]_vars

(* Every unit of work ends: each pending submission is decided by some      *)
(* branch and the lock is released (database.py:63-92).                     *)
UnitOfWorkEnds == owner # NoClient ~> owner = NoClient

(* The coordinator implements the decision ledger: its rows are the stored  *)
(* transactions, its answers the acceptances and replays clients received.  *)
LedgerClash(t, u) == t.proposal.key = u.proposal.key \/ t.proposal.pid = u.proposal.pid
Promises == {a \in acked : a.decision.accepted \/ a.replayed}
Ledger == INSTANCE DecisionLedger WITH
  Rows <- Transactions, Answers <- Replies, Clash <- LedgerClash, Supports <- Backed,
  ledger <- db.txs, answers <- Promises
ImplementsLedger == Ledger!LedgerSpec

=============================================================================
