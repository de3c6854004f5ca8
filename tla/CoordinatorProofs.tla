--------------------------- MODULE CoordinatorProofs ---------------------------
(***************************************************************************)
(* The coordinator's guarantees for any number of clients, keys, proposal   *)
(* ids, entities and policies, and any batch and log length.                *)
(***************************************************************************)
EXTENDS Coordinator, TLAPS

-----------------------------------------------------------------------------
(* Type correctness.                                                        *)

(* A direct submission of a proposal is a well-formed submission: the       *)
(* fingerprint _governed_intent_fingerprint gives it has the column's type. *)
LEMMA SubmissionType == ASSUME NEW p \in Proposals PROVE Submission(p) \in Submissions
<1>1. ASSUME p.body \in GovernedBodies PROVE KindOf(p.body) \in Kinds
  <2>1. p.body \in Creations
    BY <1>1, GovernedAssumption DEF GovernedBodies, Creations
  <2>2. QED BY <2>1 DEF Kinds
<1>2. QED
  BY <1>1
  DEF Submission, Submissions, DirectFingerprint, Fingerprints, IntentDigests, Proposals

(* Decisions the branches of _submit_locked build have the decision type.   *)
LEMMA DecisionType ==
  /\ Accepted \in Decisions
  /\ \A code \in Codes : Rejected(code) \in Decisions
  /\ \A body \in Bodies : HandlerRejection(body) \subseteq Decisions
<1>1. Accepted \in Decisions
  BY DEF Accepted, Decisions, Codes
<1>2. \A code \in Codes : Rejected(code) \in Decisions
  BY DEF Rejected, Decisions
<1>3. ASSUME NEW body \in Bodies PROVE HandlerRejection(body) \subseteq Decisions
  <2>1. {"INVALID_PROPOSAL", "ENTITY_ALREADY_EXISTS", "POLICY_HASH_MISMATCH"} \subseteq Codes
    BY DEF Codes
  <2>2. QED BY <1>2, <2>1 DEF HandlerRejection
<1>4. QED BY <1>1, <1>2, <1>3

(* Auditing and storing one decision keeps a database well formed, as the   *)
(* event's governing policy is registered (_audit, coordinator.py:852).     *)
LEMMA AuditedType ==
  ASSUME TypeOK, NEW s \in Submissions, NEW d \in Decisions, NEW w \in Databases,
         owner \in Clients, work.active \in Policies
  PROVE  /\ Stored(s, d, w) \in Databases
         /\ Audited(s, d, w) \in Databases
<1>1. AuditEvent(s, d, w) \in Events
  BY DEF AuditEvent, Events, TypeOK, Submissions
<1>2. Append(w.audit, AuditEvent(s, d, w)) \in Seq(Events)
  BY <1>1 DEF Databases
<1>3. [proposal |-> s.proposal, fp |-> s.fp, decision |-> d] \in Transactions
  BY DEF Submissions, Transactions
<1>4. QED BY <1>2, <1>3 DEF Audited, Stored, Databases

(* The handler's projection keeps a database well formed.                   *)
LEMMA ProjectedType ==
  ASSUME NEW body \in Bodies, NEW w \in Databases, HandlerRejection(body) = {}
  PROVE  Projected(body, w) \in Databases
<1>1. CASE body \in Creations
  BY <1>1 DEF Projected, Databases, Creations
<1>2. CASE body \notin Creations
  <2>1. body \in Transitions
    BY <1>2 DEF Bodies, HandlerRejection
  <2>2. body.candidate \in Policies
    BY <2>1 DEF Transitions
  <2>3. QED BY <1>2, <2>2 DEF Projected, Databases
<1>3. QED BY <1>1, <1>2

(* Answering a pending submission keeps the unit of work well formed.       *)
LEMMA AnswerType ==
  ASSUME TypeOK, NEW s \in Submissions, NEW d \in Decisions, NEW r \in BOOLEAN,
         NEW w \in Databases, todo # <<>>, Answer(s, d, r, w)
  PROVE  TypeOK'
<1>1. Reply(s, d, r) \in Replies
  BY DEF Reply, Replies, Submissions, Proposals, TypeOK, Databases
<1>2. replies' \in Seq(Replies)
  BY <1>1 DEF Answer, TypeOK
<1>3. todo' \in Seq(Submissions)
  BY DEF Answer, TypeOK
<1>4. QED BY <1>2, <1>3 DEF Answer, TypeOK

(* Every branch of _submit_locked preserves the types.                      *)
LEMMA SubmitLockedType ==
  ASSUME TypeOK, NEW s \in Submissions, SubmitLocked(s)
  PROVE  TypeOK'
<1> USE DEF Pending
<1>0. /\ owner \in Clients /\ todo # <<>> /\ work \in Databases
      /\ s.proposal.body \in Bodies
  BY DEF SubmitLocked, ReplayPrior, RejectKeyConflict, RejectUninitialised, RejectStalePolicy,
         RejectProposalIdReuse, RejectEvidenceArtifact, RejectGovernedFailure, HandlerRejects,
         HandlerAccepts, Decidable, TypeOK, Submissions, Proposals
<1>1. \A code \in Codes : Rejected(code) \in Decisions
  BY DecisionType
<1>2. CASE ReplayPrior(s)
  <2>1. PICK t \in PriorByKey(s.proposal.key) : Answer(s, t.decision, TRUE, work)
    BY <1>2 DEF ReplayPrior
  <2>2. t.decision \in Decisions
    BY <1>0 DEF PriorByKey, Databases, Transactions
  <2>3. QED BY <1>0, <2>1, <2>2, AnswerType
<1>3. CASE RejectKeyConflict(s)
  <2> DEFINE d == Rejected("IDEMPOTENCY_CONFLICT")
             w == IF work.active = NoPolicy THEN work ELSE Audited(s, d, work)
  <2>1. d \in Decisions
    BY <1>1 DEF Codes
  <2>2. w \in Databases
    BY <1>0, <2>1, AuditedType DEF Databases
  <2>3. Answer(s, d, FALSE, w)
    BY <1>3 DEF RejectKeyConflict
  <2>4. QED BY <1>0, <2>1, <2>2, <2>3, AnswerType
<1>4. CASE RejectUninitialised(s)
  BY <1>0, <1>1, <1>4, AnswerType DEF RejectUninitialised, Codes
<1>5. CASE RejectStalePolicy(s)
  <2> DEFINE d == Rejected("POLICY_HASH_MISMATCH")
             w == IF PriorById(s.proposal.pid) = {} THEN Stored(s, d, work) ELSE work
  <2>1. d \in Decisions
    BY <1>1 DEF Codes
  <2>2. work.active \in Policies
    BY <1>0, <1>5 DEF RejectStalePolicy, Databases
  <2>3. w \in Databases
    BY <1>0, <2>1, <2>2, AuditedType
  <2>4. Audited(s, d, w) \in Databases
    BY <1>0, <2>1, <2>2, <2>3, AuditedType
  <2>5. Answer(s, d, FALSE, Audited(s, d, w))
    BY <1>5 DEF RejectStalePolicy
  <2>6. QED BY <1>0, <2>1, <2>4, <2>5, AnswerType
<1>6. CASE RejectProposalIdReuse(s)
  <2> DEFINE d == Rejected("ENTITY_ALREADY_EXISTS")
  <2>1. d \in Decisions
    BY <1>1 DEF Codes
  <2>2. work.active \in Policies
    BY <1>0, <1>6 DEF RejectProposalIdReuse, Governs, TypeOK
  <2>3. Audited(s, d, work) \in Databases
    BY <1>0, <2>1, <2>2, AuditedType
  <2>4. Answer(s, d, FALSE, Audited(s, d, work))
    BY <1>6 DEF RejectProposalIdReuse
  <2>5. QED BY <1>0, <2>1, <2>3, <2>4, AnswerType
<1>7. ASSUME NEW d \in Decisions, NEW w \in Databases, Decidable(s), Settle(s, d, w)
      PROVE  TypeOK'
  <2>1. work.active \in Policies
    BY <1>0, <1>7 DEF Decidable, Governs, TypeOK
  <2>2. Audited(s, d, Stored(s, d, w)) \in Databases
    BY <1>0, <2>1, AuditedType
  <2>3. QED BY <1>0, <1>7, <2>2, AnswerType DEF Settle
<1>8. CASE RejectEvidenceArtifact(s)
  BY <1>0, <1>1, <1>7, <1>8 DEF RejectEvidenceArtifact, Codes
<1>9. CASE RejectGovernedFailure(s)
  BY <1>0, <1>1, <1>7, <1>9 DEF RejectGovernedFailure, Codes
<1>10. CASE HandlerRejects(s)
  BY <1>0, <1>7, <1>10, DecisionType DEF HandlerRejects
<1>11. CASE HandlerAccepts(s)
  BY <1>0, <1>7, <1>11, DecisionType, ProjectedType DEF HandlerAccepts
<1>12. QED
  BY <1>2, <1>3, <1>4, <1>5, <1>6, <1>8, <1>9, <1>10, <1>11 DEF SubmitLocked

(* Resolving an intent preserves the types.                                 *)
LEMMA ResolveType ==
  ASSUME TypeOK, Resolve
  PROVE  TypeOK'
<1>0. /\ owner \in Clients /\ attempt \in Attempts /\ work \in Databases
      /\ attempt.key \in Keys /\ attempt.pid \in ProposalIds
      /\ AttemptFingerprint(attempt) \in Fingerprints
  BY DEF Resolve, IntentReplay, IntentConflict, IntentFactory, Resolving, TypeOK, Attempts,
         AttemptFingerprint, Fingerprints
<1>1. ASSUME NEW d \in Decisions, NEW r \in BOOLEAN
      PROVE  Append(replies, IntentReply(attempt, d, r)) \in Seq(Replies)
  BY <1>0, <1>1 DEF IntentReply, Replies, TypeOK, Databases
<1>2. CASE IntentReplay
  <2>1. PICK t \in PriorByKey(attempt.key) :
          replies' = Append(replies, IntentReply(attempt, t.decision, TRUE))
    BY <1>2 DEF IntentReplay
  <2>2. t.decision \in Decisions
    BY <1>0 DEF PriorByKey, Databases, Transactions
  <2>3. replies' \in Seq(Replies)
    BY <1>1, <2>1, <2>2
  <2>4. QED BY <1>2, <2>3 DEF IntentReplay, TypeOK
<1>3. CASE IntentConflict
  <2> DEFINE d == Rejected("IDEMPOTENCY_CONFLICT")
  <2>1. d \in Decisions
    BY DecisionType DEF Codes
  <2>2. InvalidAttempt(attempt) \in Submissions
    BY <1>0 DEF InvalidAttempt, Submissions, Proposals, Bodies
  <2>3. work' \in Databases
    BY <1>0, <1>3, <2>1, <2>2, AuditedType DEF IntentConflict, Databases
  <2>4. replies' \in Seq(Replies)
    BY <1>1, <1>3, <2>1 DEF IntentConflict
  <2>5. QED BY <1>3, <2>3, <2>4 DEF IntentConflict, TypeOK
<1>4. ASSUME NEW body \in Bodies, IntentFactory(body)
      PROVE  TypeOK'
  <2>1. todo' \in Seq(Submissions)
    BY <1>0, <1>4 DEF IntentFactory, Submissions, Proposals
  <2>2. QED BY <1>4, <2>1 DEF IntentFactory, TypeOK
<1>5. QED BY <1>2, <1>3, <1>4 DEF Resolve

(* The submission decided next is a well-formed one.                        *)
LEMMA NextSubmission == ASSUME TypeOK, SubmitNext PROVE \E s \in Submissions : SubmitLocked(s)
<1>1. Head(todo) \in Submissions
  BY DEF SubmitNext, TypeOK
<1>2. QED BY <1>1 DEF SubmitNext

(* The empty database is well formed.                                       *)
LEMMA EmptyType == EmptyDatabase \in Databases
BY DEF EmptyDatabase, Databases

(* The types hold initially and every step preserves them.                  *)
LEMMA TypeStep == TypeOK /\ [Next]_vars => TypeOK'
<1> SUFFICES ASSUME TypeOK, [Next]_vars PROVE TypeOK'
  OBVIOUS
<1>1. ASSUME NEW q \in Policies, InitCommand(q) PROVE TypeOK'
  BY <1>1 DEF InitCommand, TypeOK, Databases
<1>2. ASSUME NEW c \in Clients, BuildRuntime(c) PROVE TypeOK'
  BY <1>2 DEF BuildRuntime, TypeOK, Databases
<1>3. ASSUME NEW c \in Clients, NEW p \in Proposals, Submit(c, p) PROVE TypeOK'
  <2>1. todo' \in Seq(Submissions)
    BY <1>3, SubmissionType DEF Submit
  <2>2. QED BY <1>3, <2>1 DEF Submit, Begin, TypeOK
<1>4. ASSUME NEW c \in Clients, NEW ps \in Batches, SubmitBatch(c, ps) PROVE TypeOK'
  <2>1. PICK n \in Nat : ps \in [1..n -> Proposals]
    BY BoundsAssumption DEF Batches
  <2>2. Len(ps) = n
    BY <2>1
  <2>3. todo' \in Seq(Submissions)
    <3>1. \A i \in 1..n : Submission(ps[i]) \in Submissions
      BY <2>1, SubmissionType
    <3>2. todo' = [i \in 1..n |-> Submission(ps[i])]
      BY <1>4, <2>2 DEF SubmitBatch
    <3>3. QED BY <3>1, <3>2, <2>1
  <2>4. QED BY <1>4, <2>3 DEF SubmitBatch, Begin, TypeOK
<1>5. ASSUME NEW c \in Clients, NEW a \in Attempts, SubmitIntent(c, a) PROVE TypeOK'
  BY <1>5 DEF SubmitIntent, Begin, TypeOK
<1>6. CASE Resolve
  BY <1>6, ResolveType
<1>7. CASE SubmitNext
  BY <1>7, NextSubmission, SubmitLockedType
<1>8. CASE Commit
  <2>1. {replies[i] : i \in {j \in 1..Len(replies) : replies[j].key \in Observed}} \subseteq Replies
    BY DEF TypeOK
  <2>2. QED BY <1>8, <2>1 DEF Commit, EndUnitOfWork, TypeOK
<1>9. CASE CommitReplyLost
  BY <1>9 DEF CommitReplyLost, EndUnitOfWork, TypeOK
<1>10. CASE Rollback
  BY <1>10 DEF Rollback, EndUnitOfWork, TypeOK
<1>11. CASE UNCHANGED vars
  BY <1>11 DEF vars, TypeOK
<1>12. QED
  BY <1>1, <1>2, <1>3, <1>4, <1>5, <1>6, <1>7, <1>8, <1>9, <1>10, <1>11 DEF Next

(* Every reachable state is well formed.                                    *)
THEOREM TypeCorrect == Spec => []TypeOK
<1>1. Init => TypeOK
  BY EmptyType DEF Init, TypeOK
<1>2. QED BY <1>1, TypeStep, PTL DEF Spec

-----------------------------------------------------------------------------
(* The inductive invariant.  KeyDecidedOnce and TransactionsMatchAudit are  *)
(* not inductive alone: an event recorded as not persisted must never come  *)
(* to agree with a transaction stored later, which holds because it is a    *)
(* key conflict, a code no stored decision has, or reuses a stored id; and  *)
(* what holds of the database must hold of the uncommitted copy as well.    *)

IdsUnique(d) == \A t, u \in d.txs : LedgerClash(t, u) => t = u

UnstoredEvents(d) ==
  /\ \A t \in d.txs : t.decision.code # "IDEMPOTENCY_CONFLICT"
  /\ \A i \in 1..Len(d.audit) :
       \/ d.audit[i].persisted
       \/ d.audit[i].decision.code = "IDEMPOTENCY_CONFLICT"
       \/ \E t \in d.txs : t.proposal.pid = d.audit[i].proposal.pid

Consistent(d) == IdsUnique(d) /\ UnstoredEvents(d) /\ TransactionAuditConsistent(d)

Extends(d, w) ==
  /\ d.txs \subseteq w.txs
  /\ Len(d.audit) <= Len(w.audit)
  /\ \A i \in 1..Len(d.audit) : w.audit[i] = d.audit[i]

RepliesBacked ==
  \A i \in 1..Len(replies) :
    replies[i].decision.accepted \/ replies[i].replayed =>
      \E t \in work.txs : Backed(t, replies[i])

IInv ==
  /\ TypeOK
  /\ Consistent(db)
  /\ Consistent(work)
  /\ Extends(db, work)
  /\ RepliesBacked
  /\ owner = NoClient => replies = <<>>
  /\ AckedDecisionsAreDurable

(* The log after one more event.                                            *)
LEMMA AuditedLog ==
  ASSUME TypeOK, NEW s \in Submissions, NEW d \in Decisions, NEW w \in Databases,
         owner \in Clients, work.active \in Policies
  PROVE  LET a == Audited(s, d, w)
         IN /\ a.txs = w.txs
            /\ Len(a.audit) = Len(w.audit) + 1
            /\ Len(w.audit) \in Nat
            /\ \A i \in 1..Len(w.audit) : a.audit[i] = w.audit[i]
            /\ a.audit[Len(w.audit) + 1] = AuditEvent(s, d, w)
<1>1. AuditEvent(s, d, w) \in Events
  BY DEF AuditEvent, Events, TypeOK, Submissions
<1>2. w.audit \in Seq(Events)
  BY DEF Databases
<1>3. Audited(s, d, w).audit = Append(w.audit, AuditEvent(s, d, w))
  BY DEF Audited, Databases
<1>4. Audited(s, d, w).txs = w.txs
  BY DEF Audited, Databases
<1>5. QED BY <1>1, <1>2, <1>3, <1>4

(* A decision that is audited and not stored: a key conflict, or an id that *)
(* a transaction under another key already has.                             *)
LEMMA UnstoredKeepsConsistent ==
  ASSUME TypeOK, NEW s \in Submissions, NEW d \in Decisions, NEW w \in Databases,
         owner \in Clients, work.active \in Policies, Consistent(w), ~d.accepted,
         \/ d.code = "IDEMPOTENCY_CONFLICT"
         \/ /\ \E t \in w.txs : t.proposal.pid = s.proposal.pid
            /\ \A t \in w.txs : t.proposal.key # s.proposal.key
  PROVE  Consistent(Audited(s, d, w)) /\ Extends(w, Audited(s, d, w))
<1> DEFINE a == Audited(s, d, w)
           e == AuditEvent(s, d, w)
           n == Len(w.audit)
<1>1. /\ a.txs = w.txs /\ Len(a.audit) = n + 1 /\ n \in Nat
      /\ \A i \in 1..n : a.audit[i] = w.audit[i]
      /\ a.audit[n + 1] = e
  BY AuditedLog
<1>2. \A t \in w.txs : ~SameDecision(e, t)
  BY DEF SameDecision, AuditEvent, Consistent, UnstoredEvents
<1>3. ~e.persisted /\ e.decision = d /\ e.proposal = s.proposal
  BY <1>2 DEF AuditEvent, SameDecision
<1> HIDE DEF a, e, n
<1>4. IdsUnique(a)
  BY <1>1 DEF Consistent, IdsUnique
<1>5. UnstoredEvents(a)
  <2>1. ASSUME NEW i \in 1..Len(a.audit)
        PROVE  \/ a.audit[i].persisted
               \/ a.audit[i].decision.code = "IDEMPOTENCY_CONFLICT"
               \/ \E t \in a.txs : t.proposal.pid = a.audit[i].proposal.pid
    <3>1. CASE i \in 1..n
      BY <1>1, <3>1 DEF Consistent, UnstoredEvents, n
    <3>2. CASE i = n + 1
      BY <1>1, <1>3, <3>2
    <3>3. QED BY <1>1, <3>1, <3>2
  <2>2. QED BY <1>1, <2>1 DEF Consistent, UnstoredEvents
<1>6. TransactionAuditConsistent(a)
  <2>1. ASSUME NEW t \in a.txs
        PROVE  \E i \in 1..Len(a.audit) :
                 /\ SameDecision(a.audit[i], t)
                 /\ \A j \in 1..Len(a.audit) : SameDecision(a.audit[j], t) => j = i
    <3>1. PICK i \in 1..n : /\ SameDecision(w.audit[i], t)
                            /\ \A j \in 1..n : SameDecision(w.audit[j], t) => j = i
      BY <1>1 DEF Consistent, TransactionAuditConsistent, n
    <3>2. \A j \in 1..(n + 1) : j \in 1..n \/ j = n + 1
      BY <1>1
    <3>3. QED BY <1>1, <1>2, <3>1, <3>2, SMTT(30)
  <2>2. ASSUME NEW i \in 1..Len(a.audit)
        PROVE  /\ a.audit[i].persisted <=> \E t \in a.txs : SameDecision(a.audit[i], t)
               /\ a.audit[i].decision.accepted => a.audit[i].persisted
    <3>1. CASE i \in 1..n
      BY <1>1, <3>1 DEF Consistent, TransactionAuditConsistent, n
    <3>2. CASE i = n + 1
      BY <1>1, <1>2, <1>3, <3>2
    <3>3. QED BY <1>1, <3>1, <3>2
  <2>3. QED BY <2>1, <2>2 DEF TransactionAuditConsistent
<1>7. Extends(w, a)
  BY <1>1 DEF Extends, n
<1>8. QED BY <1>4, <1>5, <1>6, <1>7 DEF Consistent, a

(* A decision stored under a fresh key and a fresh id and audited once.     *)
LEMMA StoredKeepsConsistent ==
  ASSUME TypeOK, NEW s \in Submissions, NEW d \in Decisions, NEW w \in Databases,
         owner \in Clients, work.active \in Policies, Consistent(w),
         d.code # "IDEMPOTENCY_CONFLICT",
         \A t \in w.txs : t.proposal.key # s.proposal.key /\ t.proposal.pid # s.proposal.pid
  PROVE  LET a == Audited(s, d, Stored(s, d, w))
         IN /\ Consistent(a) /\ Extends(w, a)
            /\ [proposal |-> s.proposal, fp |-> s.fp, decision |-> d] \in a.txs
<1> DEFINE r == [proposal |-> s.proposal, fp |-> s.fp, decision |-> d]
           v == Stored(s, d, w)
           a == Audited(s, d, v)
           e == AuditEvent(s, d, v)
           n == Len(w.audit)
<1>1. v \in Databases /\ v.txs = w.txs \cup {r} /\ v.audit = w.audit
  BY AuditedType DEF Stored, Databases
<1>2. /\ a.txs = w.txs \cup {r} /\ Len(a.audit) = n + 1 /\ n \in Nat
      /\ \A i \in 1..n : a.audit[i] = w.audit[i]
      /\ a.audit[n + 1] = e
  <2> HIDE DEF v
  <2>1. QED BY <1>1, AuditedLog
<1>3. e.persisted /\ SameDecision(e, r) /\ e.decision = d /\ e.proposal = s.proposal
  BY <1>1 DEF AuditEvent, SameDecision
<1>4. \A t \in w.txs : ~SameDecision(e, t)
  BY <1>3 DEF SameDecision
<1>5. \A i \in 1..n : ~SameDecision(w.audit[i], r)
  <2> SUFFICES ASSUME NEW i \in 1..n, SameDecision(w.audit[i], r) PROVE FALSE
    OBVIOUS
  <2>1. w.audit[i].proposal = s.proposal /\ w.audit[i].decision = d
    BY DEF SameDecision
  <2>2. CASE w.audit[i].persisted
    <3>1. PICK t \in w.txs : SameDecision(w.audit[i], t)
      BY <2>2 DEF Consistent, TransactionAuditConsistent
    <3>2. QED BY <2>1, <3>1 DEF SameDecision
  <2>3. CASE ~w.audit[i].persisted
    BY <2>1, <2>3 DEF Consistent, UnstoredEvents
  <2>4. QED BY <2>2, <2>3
<1>6. r.proposal = s.proposal /\ r.decision = d
  OBVIOUS
<1> HIDE DEF a, e, n, v, r
<1>7. IdsUnique(a)
  BY <1>2, <1>6 DEF Consistent, IdsUnique, LedgerClash
<1>8. UnstoredEvents(a)
  <2>1. ASSUME NEW i \in 1..Len(a.audit)
        PROVE  \/ a.audit[i].persisted
               \/ a.audit[i].decision.code = "IDEMPOTENCY_CONFLICT"
               \/ \E t \in a.txs : t.proposal.pid = a.audit[i].proposal.pid
    <3>1. CASE i \in 1..n
      BY <1>2, <3>1 DEF Consistent, UnstoredEvents, n
    <3>2. CASE i = n + 1
      BY <1>2, <1>3, <3>2
    <3>3. QED BY <1>2, <3>1, <3>2
  <2>2. QED BY <1>2, <1>6, <2>1 DEF Consistent, UnstoredEvents
<1>9. TransactionAuditConsistent(a)
  <2>0. \A j \in 1..(n + 1) : j \in 1..n \/ j = n + 1
    BY <1>2
  <2>1. ASSUME NEW t \in a.txs
        PROVE  \E i \in 1..Len(a.audit) :
                 /\ SameDecision(a.audit[i], t)
                 /\ \A j \in 1..Len(a.audit) : SameDecision(a.audit[j], t) => j = i
    <3>1. CASE t \in w.txs
      <4>1. PICK i \in 1..n : /\ SameDecision(w.audit[i], t)
                              /\ \A j \in 1..n : SameDecision(w.audit[j], t) => j = i
        BY <3>1 DEF Consistent, TransactionAuditConsistent, n
      <4>2. QED BY <1>2, <1>4, <2>0, <3>1, <4>1, SMTT(30)
    <3>2. CASE t = r
      <4>1. SameDecision(a.audit[n + 1], t)
        BY <1>2, <1>3, <3>2
      <4>2. \A j \in 1..(n + 1) : SameDecision(a.audit[j], t) => j = n + 1
        BY <1>2, <1>5, <2>0, <3>2
      <4>3. n + 1 \in 1..Len(a.audit) /\ Len(a.audit) = n + 1
        BY <1>2
      <4>4. QED BY <4>1, <4>2, <4>3
    <3>3. QED BY <1>2, <3>1, <3>2
  <2>2. ASSUME NEW i \in 1..Len(a.audit)
        PROVE  /\ a.audit[i].persisted <=> \E t \in a.txs : SameDecision(a.audit[i], t)
               /\ a.audit[i].decision.accepted => a.audit[i].persisted
    <3>1. CASE i \in 1..n
      BY <1>2, <1>5, <3>1 DEF Consistent, TransactionAuditConsistent, n
    <3>2. CASE i = n + 1
      BY <1>2, <1>3, <3>2
    <3>3. QED BY <1>2, <3>1, <3>2
  <2>3. QED BY <2>1, <2>2 DEF TransactionAuditConsistent
<1>10. Extends(w, a)
  BY <1>2 DEF Extends, n
<1>11. Consistent(a) /\ Extends(w, a) /\ r \in a.txs
  BY <1>2, <1>7, <1>8, <1>9, <1>10 DEF Consistent
<1>12. QED BY <1>11 DEF a, v, r

(* Transaction identity and audit agreement do not depend on the policy     *)
(* and domain tables.                                                       *)
LEMMA ConsistentFrame ==
  ASSUME NEW d, NEW w, w.txs = d.txs, w.audit = d.audit
  PROVE  Consistent(d) => Consistent(w)
BY DEF Consistent, IdsUnique, UnstoredEvents, TransactionAuditConsistent

(* Growth composes.                                                         *)
LEMMA ExtendsTransitive ==
  ASSUME NEW d \in Databases, NEW w \in Databases, NEW x \in Databases,
         Extends(d, w), Extends(w, x)
  PROVE  Extends(d, x)
<1>1. Len(d.audit) \in Nat /\ Len(w.audit) \in Nat /\ Len(x.audit) \in Nat
  BY DEF Databases
<1>2. QED BY <1>1 DEF Extends

LEMMA ExtendsReflexive ==
  ASSUME NEW d \in Databases
  PROVE  Extends(d, d)
<1>1. Len(d.audit) \in Nat
  BY DEF Databases
<1>2. QED BY <1>1 DEF Extends

(* One answer keeps the working copy consistent and only extends it, and    *)
(* tells the client nothing the copy does not hold.                         *)
LEMMA AnswerKeepsInvariant ==
  ASSUME IInv, NEW s \in Submissions, NEW d \in Decisions, NEW r \in BOOLEAN, NEW w \in Databases,
         owner \in Clients, todo # <<>>, Answer(s, d, r, w), Consistent(w), Extends(work, w),
         d.accepted \/ r => \E t \in w.txs : Backed(t, Reply(s, d, r))
  PROVE  IInv'
<1>1. TypeOK'
  BY AnswerType DEF IInv
<1>2. /\ db' = db /\ work' = w /\ acked' = acked
      /\ replies' = Append(replies, Reply(s, d, r))
  BY DEF Answer
<1>3. Consistent(db)' /\ Consistent(work)'
  <2>1. Consistent(work')
    BY <1>2
  <2>2. Consistent(db')
    BY <1>2 DEF IInv
  <2>3. QED BY <2>1, <2>2 DEF Consistent, IdsUnique, UnstoredEvents, TransactionAuditConsistent,
                             LedgerClash, SameDecision
<1>4. Extends(db, work)'
  <2>1. Extends(db, w)
    BY ExtendsTransitive DEF IInv, TypeOK
  <2>2. QED BY <1>2, <2>1 DEF Extends
<1>5. RepliesBacked'
  <2>1. Reply(s, d, r) \in Replies
    BY DEF Reply, Replies, Submissions, Proposals, IInv, TypeOK, Databases
  <2>2. /\ Len(replies') = Len(replies) + 1 /\ Len(replies) \in Nat
        /\ \A i \in 1..Len(replies) : replies'[i] = replies[i]
        /\ replies'[Len(replies) + 1] = Reply(s, d, r)
    BY <1>2, <2>1 DEF IInv, TypeOK
  <2>3. work.txs \subseteq w.txs
    BY DEF Extends
  <2>4. Reply(s, d, r).decision = d /\ Reply(s, d, r).replayed = r
    BY DEF Reply
  <2>5. ASSUME NEW i \in 1..Len(replies'), replies'[i].decision.accepted \/ replies'[i].replayed
        PROVE  \E t \in w.txs : Backed(t, replies'[i])
    <3>1. CASE i \in 1..Len(replies)
      BY <2>2, <2>3, <2>5, <3>1 DEF IInv, RepliesBacked
    <3>2. CASE i = Len(replies) + 1
      BY <2>2, <2>4, <2>5, <3>2
    <3>3. QED BY <2>2, <3>1, <3>2
  <2>6. QED BY <1>2, <2>5 DEF RepliesBacked, Backed
<1>6. AckedDecisionsAreDurable'
  BY <1>2 DEF IInv, AckedDecisionsAreDurable, Backed
<1>7. owner' # NoClient
  BY NoClientAssumption DEF Answer
<1>8. QED BY <1>1, <1>3, <1>4, <1>5, <1>6, <1>7 DEF IInv

(* Every branch of _submit_locked preserves the invariant.                  *)
LEMMA SubmitLockedKeepsInvariant ==
  ASSUME IInv, NEW s \in Submissions, SubmitLocked(s)
  PROVE  IInv'
<1> USE DEF Pending
<1>0. /\ TypeOK /\ owner \in Clients /\ todo # <<>> /\ work \in Databases
      /\ s.proposal.body \in Bodies /\ Consistent(work)
  BY DEF SubmitLocked, ReplayPrior, RejectKeyConflict, RejectUninitialised, RejectStalePolicy,
         RejectProposalIdReuse, RejectEvidenceArtifact, RejectGovernedFailure, HandlerRejects,
         HandlerAccepts, Decidable, TypeOK, Submissions, Proposals, IInv
<1>1. \A code \in Codes : Rejected(code) \in Decisions
  BY DecisionType
<1>2. Extends(work, work)
  BY <1>0, ExtendsReflexive
<1>3. \A code : ~Rejected(code).accepted /\ Rejected(code).code = code
  BY DEF Rejected
<1>4. CASE ReplayPrior(s)
  <2>1. PICK t \in PriorByKey(s.proposal.key) :
          SameSubmission(t, s) /\ Answer(s, t.decision, TRUE, work)
    BY <1>4 DEF ReplayPrior
  <2>2. t \in work.txs /\ t.decision \in Decisions
    BY <1>0, <2>1 DEF PriorByKey, Databases, Transactions
  <2>3. Backed(t, Reply(s, t.decision, TRUE))
    BY <2>1 DEF SameSubmission, Backed, Reply
  <2>4. QED BY <1>0, <1>2, <2>1, <2>2, <2>3, AnswerKeepsInvariant
<1>5. CASE RejectKeyConflict(s)
  <2> DEFINE d == Rejected("IDEMPOTENCY_CONFLICT")
             w == IF work.active = NoPolicy THEN work ELSE Audited(s, d, work)
  <2>1. d \in Decisions
    BY <1>1 DEF Codes
  <2>2. w \in Databases /\ Consistent(w) /\ Extends(work, w)
    <3>1. CASE work.active = NoPolicy
      BY <1>0, <1>2, <3>1
    <3>2. CASE work.active # NoPolicy
      <4>1. work.active \in Policies
        BY <1>0, <3>2 DEF Databases
      <4>2. Audited(s, d, work) \in Databases
        BY <1>0, <2>1, <4>1, AuditedType
      <4>3. Consistent(Audited(s, d, work)) /\ Extends(work, Audited(s, d, work))
        BY <1>0, <1>3, <2>1, <4>1, UnstoredKeepsConsistent
      <4>4. QED BY <3>2, <4>2, <4>3
    <3>3. QED BY <3>1, <3>2
  <2>3. Answer(s, d, FALSE, w)
    BY <1>5 DEF RejectKeyConflict
  <2>4. ~d.accepted
    BY <1>3
  <2> HIDE DEF d, w
  <2>5. QED BY <1>0, <2>1, <2>2, <2>3, <2>4, AnswerKeepsInvariant
<1>6. CASE RejectUninitialised(s)
  <2> DEFINE d == Rejected("POLICY_HASH_MISMATCH")
  <2>1. d \in Decisions /\ ~d.accepted
    BY <1>1, <1>3 DEF Codes
  <2>2. Answer(s, d, FALSE, work)
    BY <1>6 DEF RejectUninitialised
  <2> HIDE DEF d
  <2>3. QED BY <1>0, <1>2, <2>1, <2>2, AnswerKeepsInvariant
<1>7. CASE RejectStalePolicy(s)
  <2> DEFINE d == Rejected("POLICY_HASH_MISMATCH")
  <2>1. d \in Decisions /\ ~d.accepted /\ d.code # "IDEMPOTENCY_CONFLICT"
    BY <1>1, <1>3 DEF Codes
  <2>2. work.active \in Policies
    BY <1>0, <1>7 DEF RejectStalePolicy, Databases
  <2>3. \A t \in work.txs : t.proposal.key # s.proposal.key
    BY <1>7 DEF RejectStalePolicy, PriorByKey
  <2>4. CASE PriorById(s.proposal.pid) = {}
    <3> DEFINE a == Audited(s, d, Stored(s, d, work))
    <3>1. Answer(s, d, FALSE, a)
      BY <1>7, <2>4 DEF RejectStalePolicy
    <3>2. \A t \in work.txs : t.proposal.pid # s.proposal.pid
      BY <2>4 DEF PriorById
    <3>3. a \in Databases
      BY <1>0, <2>1, <2>2, AuditedType
    <3>4. Consistent(a) /\ Extends(work, a)
      BY <1>0, <2>1, <2>2, <2>3, <3>2, StoredKeepsConsistent
    <3> HIDE DEF a, d
    <3>5. QED BY <1>0, <2>1, <3>1, <3>3, <3>4, AnswerKeepsInvariant
  <2>5. CASE PriorById(s.proposal.pid) # {}
    <3> DEFINE a == Audited(s, d, work)
    <3>1. Answer(s, d, FALSE, a)
      BY <1>7, <2>5 DEF RejectStalePolicy
    <3>2. \E t \in work.txs : t.proposal.pid = s.proposal.pid
      BY <2>5 DEF PriorById
    <3>3. a \in Databases
      BY <1>0, <2>1, <2>2, AuditedType
    <3>4. Consistent(a) /\ Extends(work, a)
      BY <1>0, <2>1, <2>2, <2>3, <3>2, UnstoredKeepsConsistent
    <3> HIDE DEF a, d
    <3>5. QED BY <1>0, <2>1, <3>1, <3>3, <3>4, AnswerKeepsInvariant
  <2>6. QED BY <2>4, <2>5
<1>8. CASE RejectProposalIdReuse(s)
  <2> DEFINE d == Rejected("ENTITY_ALREADY_EXISTS")
             a == Audited(s, d, work)
  <2>1. d \in Decisions /\ ~d.accepted
    BY <1>1, <1>3 DEF Codes
  <2>2. work.active \in Policies
    BY <1>0, <1>8 DEF RejectProposalIdReuse, Governs, TypeOK
  <2>3. /\ \A t \in work.txs : t.proposal.key # s.proposal.key
        /\ \E t \in work.txs : t.proposal.pid = s.proposal.pid
    BY <1>8 DEF RejectProposalIdReuse, PriorByKey, PriorById
  <2>4. Answer(s, d, FALSE, a)
    BY <1>8 DEF RejectProposalIdReuse
  <2>5. a \in Databases
    BY <1>0, <2>1, <2>2, AuditedType
  <2>6. Consistent(a) /\ Extends(work, a)
    BY <1>0, <2>1, <2>2, <2>3, UnstoredKeepsConsistent
  <2> HIDE DEF a, d
  <2>7. QED BY <1>0, <2>1, <2>4, <2>5, <2>6, AnswerKeepsInvariant
<1>9. ASSUME NEW d \in Decisions, NEW w \in Databases, Decidable(s), Settle(s, d, w),
             w.txs = work.txs, w.audit = work.audit, d.code # "IDEMPOTENCY_CONFLICT"
      PROVE  IInv'
  <2> DEFINE a == Audited(s, d, Stored(s, d, w))
             t == [proposal |-> s.proposal, fp |-> s.fp, decision |-> d]
  <2>1. work.active \in Policies
    BY <1>0, <1>9 DEF Decidable, Governs, TypeOK
  <2>2. \A u \in w.txs : u.proposal.key # s.proposal.key /\ u.proposal.pid # s.proposal.pid
    BY <1>9 DEF Decidable, PriorByKey, PriorById
  <2>3. a \in Databases
    BY <1>0, <2>1, AuditedType
  <2>4. Consistent(w)
    BY <1>0, <1>9, ConsistentFrame
  <2>5. Consistent(a) /\ Extends(w, a) /\ t \in a.txs
    BY <1>0, <1>9, <2>1, <2>2, <2>4, StoredKeepsConsistent
  <2>6. Extends(work, w)
    BY <1>2, <1>9 DEF Extends
  <2>7. Backed(t, Reply(s, d, FALSE))
    BY DEF Backed, Reply
  <2>8. Answer(s, d, FALSE, a)
    BY <1>9 DEF Settle
  <2> HIDE DEF a, t
  <2>9. Extends(work, a)
    BY <1>0, <2>3, <2>5, <2>6, ExtendsTransitive
  <2>10. QED BY <1>0, <2>3, <2>5, <2>7, <2>8, <2>9, AnswerKeepsInvariant
<1>10. CASE RejectEvidenceArtifact(s)
  <2>1. Rejected("EVIDENCE_HASH_MISMATCH") \in Decisions
    BY <1>1 DEF Codes
  <2>2. QED BY <1>0, <1>3, <1>9, <1>10, <2>1 DEF RejectEvidenceArtifact
<1>11. CASE RejectGovernedFailure(s)
  <2>1. Rejected("DERIVATION_MISMATCH") \in Decisions
    BY <1>1 DEF Codes
  <2>2. QED BY <1>0, <1>3, <1>9, <1>11, <2>1 DEF RejectGovernedFailure
<1>12. CASE HandlerRejects(s)
  <2>1. PICK d \in HandlerRejection(s.proposal.body) : Settle(s, d, work)
    BY <1>12 DEF HandlerRejects
  <2>2. d \in Decisions
    BY <1>0, <2>1, DecisionType
  <2>3. d.code # "IDEMPOTENCY_CONFLICT"
    BY <2>1 DEF HandlerRejection, Rejected
  <2>4. QED BY <1>0, <1>9, <1>12, <2>1, <2>2, <2>3 DEF HandlerRejects
<1>13. CASE HandlerAccepts(s)
  <2>1. Projected(s.proposal.body, work) \in Databases
    BY <1>0, <1>13, ProjectedType DEF HandlerAccepts
  <2>2. /\ Projected(s.proposal.body, work).txs = work.txs
        /\ Projected(s.proposal.body, work).audit = work.audit
    BY <1>0 DEF Projected, Databases
  <2>3. Accepted \in Decisions /\ Accepted.code # "IDEMPOTENCY_CONFLICT"
    BY DecisionType DEF Accepted
  <2>4. QED BY <1>9, <1>13, <2>1, <2>2, <2>3 DEF HandlerAccepts
<1>14. QED
  BY <1>4, <1>5, <1>6, <1>7, <1>8, <1>10, <1>11, <1>12, <1>13 DEF SubmitLocked

(* Resolving an intent preserves the invariant.                             *)
LEMMA ResolveKeepsInvariant ==
  ASSUME IInv, Resolve
  PROVE  IInv'
<1>0. /\ TypeOK /\ TypeOK' /\ owner \in Clients /\ work \in Databases /\ db \in Databases
      /\ attempt \in Attempts /\ attempt.key \in Keys /\ attempt.pid \in ProposalIds
      /\ AttemptFingerprint(attempt) \in Fingerprints
      /\ db' = db /\ acked' = acked /\ replies \in Seq(Replies) /\ owner' # NoClient
  BY ResolveType, NoClientAssumption DEF Resolve, IntentReplay, IntentConflict, IntentFactory, Resolving, TypeOK,
     Attempts, AttemptFingerprint, Fingerprints, IInv
<1>1. AckedDecisionsAreDurable' /\ Consistent(db)'
  BY <1>0 DEF IInv, AckedDecisionsAreDurable, Backed, Consistent, IdsUnique, UnstoredEvents,
     TransactionAuditConsistent, LedgerClash, SameDecision
<1>2. ASSUME NEW w \in Databases, work' = w, Consistent(w), Extends(work, w),
             NEW r \in Replies, replies' = Append(replies, r),
             r.decision.accepted \/ r.replayed => \E t \in w.txs : Backed(t, r)
      PROVE  IInv'
  <2>1. Consistent(work)'
    BY ONLY Consistent(w), work' = w, SMTT(60)
       DEF Consistent, IdsUnique, UnstoredEvents, TransactionAuditConsistent, LedgerClash, SameDecision
  <2>2. Extends(db, work)'
    <3>1. Extends(db, w)
      BY <1>0, <1>2, ExtendsTransitive DEF IInv
    <3>2. QED BY <1>0, <1>2, <3>1 DEF Extends
  <2>3. /\ Len(replies') = Len(replies) + 1 /\ Len(replies) \in Nat
        /\ \A i \in 1..Len(replies) : replies'[i] = replies[i]
        /\ replies'[Len(replies) + 1] = r
    BY <1>0, <1>2
  <2>4. work.txs \subseteq w.txs
    BY <1>2 DEF Extends
  <2>5. ASSUME NEW i \in 1..Len(replies'), replies'[i].decision.accepted \/ replies'[i].replayed
        PROVE  \E t \in w.txs : Backed(t, replies'[i])
    <3>1. CASE i \in 1..Len(replies)
      BY <2>3, <2>4, <2>5, <3>1 DEF IInv, RepliesBacked
    <3>2. CASE i = Len(replies) + 1
      BY <1>2, <2>3, <2>5, <3>2
    <3>3. QED BY <2>3, <3>1, <3>2
  <2>6. RepliesBacked'
    BY <1>2, <2>5 DEF RepliesBacked, Backed
  <2>7. QED BY <1>0, <1>1, <2>1, <2>2, <2>6 DEF IInv
<1>3. Consistent(work) /\ Extends(work, work)
  BY <1>0, ExtendsReflexive DEF IInv
<1>4. ASSUME NEW d \in Decisions, NEW x \in BOOLEAN
      PROVE  /\ IntentReply(attempt, d, x) \in Replies
             /\ IntentReply(attempt, d, x).decision = d
             /\ IntentReply(attempt, d, x).replayed = x
  BY <1>0, <1>4 DEF IntentReply, Replies, Databases
<1>5. CASE IntentReplay
  <2>1. PICK t \in PriorByKey(attempt.key) :
          /\ SameIntent(t, attempt)
          /\ replies' = Append(replies, IntentReply(attempt, t.decision, TRUE))
    BY <1>5 DEF IntentReplay
  <2>2. t \in work.txs /\ t.decision \in Decisions
    BY <1>0, <2>1 DEF PriorByKey, Databases, Transactions
  <2>3. Backed(t, IntentReply(attempt, t.decision, TRUE))
    BY <2>1 DEF SameIntent, PriorByKey, Backed, IntentReply
  <2>4. IntentReply(attempt, t.decision, TRUE) \in Replies
    BY <1>4, <2>2
  <2>5. work' = work
    BY <1>5 DEF IntentReplay
  <2>6. QED BY <1>0, <1>2, <1>3, <2>1, <2>2, <2>3, <2>4, <2>5
<1>6. CASE IntentConflict
  <2> DEFINE d == Rejected("IDEMPOTENCY_CONFLICT")
             a == Audited(InvalidAttempt(attempt), d, work)
             r == IntentReply(attempt, d, FALSE)
  <2>1. d \in Decisions /\ ~d.accepted /\ d.code = "IDEMPOTENCY_CONFLICT"
    BY DecisionType DEF Codes, Rejected
  <2>2. InvalidAttempt(attempt) \in Submissions
    BY <1>0 DEF InvalidAttempt, Submissions, Proposals, Bodies
  <2>3. r \in Replies /\ ~r.decision.accepted /\ ~r.replayed
    BY <1>4, <2>1
  <2>4. replies' = Append(replies, r)
    BY <1>6 DEF IntentConflict
  <2>5. CASE work.active = NoPolicy
    <3>1. work' = work
      BY <1>6, <2>5 DEF IntentConflict
    <3>2. QED BY <1>0, <1>2, <1>3, <2>3, <2>4, <3>1
  <2>6. CASE work.active # NoPolicy
    <3>1. work' = a
      BY <1>6, <2>6 DEF IntentConflict
    <3>2. work.active \in Policies
      BY <1>0, <2>6 DEF Databases
    <3>3. a \in Databases
      BY <1>0, <2>1, <2>2, <3>2, AuditedType
    <3>4. Consistent(a) /\ Extends(work, a)
      BY <1>0, <1>3, <2>1, <2>2, <3>2, UnstoredKeepsConsistent
    <3> HIDE DEF a, r, d
    <3>5. QED BY <1>2, <2>3, <2>4, <3>1, <3>3, <3>4
  <2>7. QED BY <2>5, <2>6
<1>7. ASSUME NEW body \in Bodies, IntentFactory(body)
      PROVE  IInv'
  <2>1. work' = work /\ replies' = replies
    BY <1>7 DEF IntentFactory
  <2>2. Consistent(work)' /\ Extends(db, work)' /\ RepliesBacked'
    BY <1>0, <2>1 DEF IInv, Consistent, IdsUnique, UnstoredEvents, TransactionAuditConsistent,
       LedgerClash, SameDecision, Extends, RepliesBacked, Backed
  <2>3. QED BY <1>0, <1>1, <2>2 DEF IInv
<1>8. QED BY <1>5, <1>6, <1>7 DEF Resolve

(* The empty workspace is consistent.                                       *)
LEMMA EmptyConsistent == Consistent(EmptyDatabase)
BY DEF EmptyDatabase, Consistent, IdsUnique, UnstoredEvents, TransactionAuditConsistent

(* Every step preserves the invariant.                                      *)
LEMMA InvariantStep == IInv /\ [Next]_vars => IInv'
<1> SUFFICES ASSUME IInv, [Next]_vars PROVE IInv'
  OBVIOUS
<1>0. TypeOK /\ TypeOK' /\ db \in Databases /\ work \in Databases /\ replies \in Seq(Replies)
  BY TypeStep DEF IInv, TypeOK
<1> USE DEF Backed, LedgerClash, SameDecision
<1>1. ASSUME NEW q \in Policies, InitCommand(q) PROVE IInv'
  <2>1. /\ db'.txs = db.txs /\ db'.audit = db.audit /\ work' = db'
        /\ db' \in Databases
    BY <1>0, <1>1 DEF InitCommand, Databases, TypeOK
  <2>2. Consistent(db') /\ Consistent(work')
    BY <2>1, ConsistentFrame DEF IInv
  <2>3. Consistent(db)' /\ Consistent(work)'
    BY <2>2 DEF Consistent, IdsUnique, UnstoredEvents, TransactionAuditConsistent
  <2>4. Extends(db, work)'
    <3>1. Extends(db', db')
      BY <2>1, ExtendsReflexive
    <3>2. QED BY <2>1, <3>1 DEF Extends
  <2>5. AckedDecisionsAreDurable'
    BY <1>1, <2>1 DEF InitCommand, IInv, AckedDecisionsAreDurable
  <2>6. RepliesBacked' /\ replies' = <<>>
    <3>1. replies' = <<>>
      BY <1>1 DEF InitCommand, IInv
    <3>2. QED BY <3>1 DEF RepliesBacked
  <2>7. QED BY <1>0, <2>3, <2>4, <2>5, <2>6 DEF IInv
<1>2. ASSUME NEW c \in Clients, BuildRuntime(c) PROVE IInv'
  BY <1>0, <1>2 DEF BuildRuntime, IInv, Consistent, IdsUnique, UnstoredEvents,
     TransactionAuditConsistent, Extends, RepliesBacked, AckedDecisionsAreDurable
<1>3. ASSUME NEW c \in Clients, NEW n, Begin(c, n) PROVE IInv'
  <2>1. db' = db /\ work' = db /\ acked' = acked /\ replies' = <<>> /\ owner' # NoClient
    BY <1>3, NoClientAssumption DEF Begin
  <2>2. Extends(db, db)
    BY <1>0, ExtendsReflexive
  <2>3. Consistent(db)' /\ Consistent(work)' /\ Extends(db, work)' /\ AckedDecisionsAreDurable'
    BY <2>1, <2>2 DEF IInv, Consistent, IdsUnique, UnstoredEvents, TransactionAuditConsistent,
       Extends, AckedDecisionsAreDurable
  <2>4. RepliesBacked'
    BY <2>1 DEF RepliesBacked
  <2>5. QED BY <1>0, <2>1, <2>3, <2>4 DEF IInv
<1>4. CASE Resolve
  BY <1>4, ResolveKeepsInvariant
<1>5. CASE SubmitNext
  BY <1>5, NextSubmission, SubmitLockedKeepsInvariant DEF IInv
<1>6. ASSUME db' = work, work' = work, replies' = <<>>,
             acked' \subseteq acked \cup {replies[i] : i \in 1..Len(replies)}
      PROVE  IInv'
  <2>1. Extends(work, work) /\ db.txs \subseteq work.txs
    BY <1>0, ExtendsReflexive DEF IInv, Extends
  <2>2. Consistent(db)' /\ Consistent(work)' /\ Extends(db, work)'
    BY <1>6, <2>1 DEF IInv, Consistent, IdsUnique, UnstoredEvents, TransactionAuditConsistent,
       Extends
  <2>3. RepliesBacked'
    BY <1>6 DEF RepliesBacked
  <2>4. ASSUME NEW a \in acked', a.decision.accepted \/ a.replayed
        PROVE  \E t \in work.txs : Backed(t, a)
    <3>1. CASE a \in acked
      BY <2>1, <2>4, <3>1 DEF IInv, AckedDecisionsAreDurable
    <3>2. CASE a \notin acked
      <4>1. PICK i \in 1..Len(replies) : a = replies[i]
        BY <1>6, <3>2
      <4>2. QED BY <2>4, <4>1 DEF IInv, RepliesBacked
    <3>3. QED BY <3>1, <3>2
  <2>5. AckedDecisionsAreDurable'
    BY <1>6, <2>4 DEF AckedDecisionsAreDurable
  <2>6. QED BY <1>0, <1>6, <2>2, <2>3, <2>5 DEF IInv
<1>7. CASE Commit
  <2>1. {replies[i] : i \in {j \in 1..Len(replies) : replies[j].key \in Observed}}
          \subseteq {replies[i] : i \in 1..Len(replies)}
    OBVIOUS
  <2>2. QED BY <1>6, <1>7, <2>1 DEF Commit, EndUnitOfWork
<1>8. CASE CommitReplyLost
  BY <1>6, <1>8 DEF CommitReplyLost, EndUnitOfWork
<1>9. CASE Rollback
  <2>1. db' = db /\ work' = db /\ acked' = acked /\ replies' = <<>>
    BY <1>9 DEF Rollback, EndUnitOfWork
  <2>2. Extends(db, db)
    BY <1>0, ExtendsReflexive
  <2>3. Consistent(db)' /\ Consistent(work)' /\ Extends(db, work)' /\ AckedDecisionsAreDurable'
    <3>1. Consistent(db)' /\ Consistent(work)'
      <4>1. PICK d : d = db
        OBVIOUS
      <4>2. Consistent(d) /\ db' = d /\ work' = d
        BY <1>0, <2>1, <4>1 DEF IInv
      <4> QED
        BY <4>2 DEF Consistent, IdsUnique, UnstoredEvents, TransactionAuditConsistent
    <3>2. Extends(db, work)'
      BY <2>1, <2>2 DEF Extends
    <3>3. AckedDecisionsAreDurable'
      BY <1>0, <2>1 DEF IInv, AckedDecisionsAreDurable
    <3>4. QED BY <3>1, <3>2, <3>3
  <2>4. RepliesBacked'
    BY <2>1 DEF RepliesBacked
  <2>5. QED BY <1>0, <2>1, <2>3, <2>4 DEF IInv
<1>10. CASE UNCHANGED vars
  BY <1>0, <1>10 DEF vars, IInv, Consistent, IdsUnique, UnstoredEvents,
     TransactionAuditConsistent, Extends, RepliesBacked, AckedDecisionsAreDurable
<1>11. QED
  BY <1>1, <1>2, <1>3, <1>4, <1>5, <1>7, <1>8, <1>9, <1>10
  DEF Next, Submit, SubmitBatch, SubmitIntent

(* The inductive invariant holds in every reachable state.                  *)
LEMMA Invariant == Spec => []IInv
<1>1. Init => IInv
  <2>1. Init => Consistent(db) /\ Consistent(work)
    BY EmptyConsistent DEF Init
  <2>2. Extends(EmptyDatabase, EmptyDatabase)
    BY EmptyType, ExtendsReflexive
  <2>3. Init => TypeOK /\ Extends(db, work)
    BY EmptyType, <2>2 DEF Init, TypeOK
  <2>4. QED BY <2>1, <2>3 DEF Init, IInv, RepliesBacked, AckedDecisionsAreDurable
<1>2. QED BY <1>1, InvariantStep, PTL DEF Spec

-----------------------------------------------------------------------------
(* The theorems.                                                            *)

(* An idempotency key and a proposal id are decided at most once.           *)
THEOREM DecidedOnce == Spec => []KeyDecidedOnce
<1>1. IInv => KeyDecidedOnce
  BY DEF IInv, Consistent, IdsUnique, LedgerClash, KeyDecidedOnce
<1>2. QED BY <1>1, Invariant, PTL

(* Every committed database passes the transaction and audit verification   *)
(* that the next submission starts with.                                    *)
THEOREM AuditAgreement == Spec => []TransactionsMatchAudit
<1>1. IInv => TransactionsMatchAudit
  BY DEF IInv, Consistent, TransactionsMatchAudit
<1>2. QED BY <1>1, Invariant, PTL

(* Accepted and replayed answers are backed by stored transactions.         *)
THEOREM AnswersDurable == Spec => []AckedDecisionsAreDurable
<1>1. IInv => AckedDecisionsAreDurable
  BY DEF IInv
<1>2. QED BY <1>1, Invariant, PTL

(* What a step does to the committed database: it grows, and the clients    *)
(* learn only answers the unit of work prepared.                            *)
LEMMA CommittedStep ==
  ASSUME IInv, [Next]_vars
  PROVE  /\ Extends(db, db')
         /\ acked' \subseteq acked \cup {replies[i] : i \in 1..Len(replies)}
         /\ acked \subseteq acked'
<1>0. Extends(db, db) /\ db \in Databases
  BY ExtendsReflexive DEF IInv, TypeOK
<1>1. ASSUME NEW q \in Policies, InitCommand(q)
      PROVE  Extends(db, db') /\ acked' = acked
  <2>1. db'.txs = db.txs /\ db'.audit = db.audit
    BY <1>0, <1>1 DEF InitCommand, Databases
  <2>2. QED BY <1>0, <1>1, <2>1 DEF InitCommand, Extends
<1>2. CASE Commit
  BY <1>2 DEF Commit, IInv
<1>3. CASE CommitReplyLost
  BY <1>3 DEF CommitReplyLost, IInv
<1>4. CASE Resolve
  BY <1>0, <1>4 DEF Resolve, IntentReplay, IntentConflict, IntentFactory
<1>5. ASSUME SubmitNext
      PROVE  db' = db /\ acked' = acked
  BY <1>5 DEF SubmitNext, SubmitLocked, ReplayPrior, RejectKeyConflict, RejectUninitialised,
     RejectStalePolicy, RejectProposalIdReuse, RejectEvidenceArtifact, RejectGovernedFailure,
     HandlerRejects, HandlerAccepts, Settle, Answer
<1>6. CASE UNCHANGED vars
  BY <1>0, <1>6 DEF vars
<1>7. QED
  BY <1>0, <1>1, <1>2, <1>3, <1>4, <1>5, <1>6
  DEF Next, BuildRuntime, Submit, SubmitBatch, SubmitIntent, Begin, Rollback

(* No step rewrites or drops a committed audit event or transaction.        *)
THEOREM AppendOnly == Spec => HistoryOnlyGrows
<1>1. IInv /\ [Next]_vars => [/\ db.txs \subseteq db'.txs
                              /\ Len(db.audit) <= Len(db'.audit)
                              /\ \A i \in 1..Len(db.audit) : db'.audit[i] = db.audit[i]]_vars
  BY CommittedStep DEF Extends
<1>2. QED BY <1>1, Invariant, PTL DEF Spec, HistoryOnlyGrows

(* The coordinator implements the decision ledger.                          *)
THEOREM Refinement == Spec => ImplementsLedger
<1>1. Init => Ledger!LedgerInit
  BY DEF Init, EmptyDatabase, Ledger!LedgerInit, Promises
<1>2. IInv /\ IInv' /\ [Next]_vars => [Ledger!LedgerNext]_<<db.txs, Promises>>
  <2> SUFFICES ASSUME IInv, IInv', [Next]_vars
               PROVE  Ledger!LedgerNext
    OBVIOUS
  <2>1. /\ db.txs \subseteq db'.txs
        /\ db'.txs \subseteq Transactions
        /\ \A r, t \in db'.txs : LedgerClash(r, t) => r = t
    BY CommittedStep DEF Extends, IInv, TypeOK, Databases, Consistent, IdsUnique, LedgerClash
  <2>2. Promises \subseteq Promises' /\ Promises' \subseteq Replies
    BY CommittedStep DEF Promises, IInv, TypeOK
  <2>3. \A a \in Promises' : \E t \in db'.txs : Backed(t, a)
    BY DEF Promises, IInv, AckedDecisionsAreDurable, Backed
  <2>4. QED BY <2>1, <2>2, <2>3 DEF Ledger!LedgerNext, Ledger!Decide, Ledger!Learn
<1>3. QED BY <1>1, <1>2, Invariant, PTL DEF Spec, ImplementsLedger, Ledger!LedgerSpec

-----------------------------------------------------------------------------
(* The policy and projection parts of the verification.  They are about one *)
(* database; the invariant adds, for the database and the working copy,     *)
(* what the registered policies are before a transition is accepted too.    *)

FirstPolicy(d) == IF Len(d.audit) = 0 THEN d.active ELSE d.audit[1].policy

PolicyHistory(d) ==
  /\ HistoricalPolicySequence(d)
  /\ PolicyProjectionConsistent(d)
  /\ d.active # NoPolicy => d.policies = {FirstPolicy(d)} \cup AcceptedCandidates(d)
  /\ \A i \in 1..Len(d.audit) :
       d.audit[i].decision.accepted => d.audit[i].configured = d.audit[i].policy

(* d with one event more at the end of its log, whatever else changed.      *)
OneEventMore(d, a, e) ==
  /\ Len(d.audit) \in Nat /\ Len(a.audit) = Len(d.audit) + 1
  /\ \A i \in 1..Len(d.audit) : a.audit[i] = d.audit[i]
  /\ a.audit[Len(d.audit) + 1] = e

NewCandidates(e) == IF AcceptedTransition(e) THEN {e.proposal.body.candidate} ELSE {}

LEMMA CandidatesOfOneMore ==
  ASSUME NEW d, NEW a, NEW e, OneEventMore(d, a, e)
  PROVE  AcceptedCandidates(a) = AcceptedCandidates(d) \cup NewCandidates(e)
<1> DEFINE n == Len(d.audit)
<1>1. /\ n \in Nat /\ Len(a.audit) = n + 1
      /\ \A i \in 1..n : a.audit[i] = d.audit[i]
      /\ a.audit[n + 1] = e
  BY DEF OneEventMore
<1>2. \A c : c \in AcceptedCandidates(d) <=>
        \E i \in 1..n : AcceptedTransition(d.audit[i]) /\ c = d.audit[i].proposal.body.candidate
  BY DEF AcceptedCandidates
<1>3. \A c : c \in AcceptedCandidates(a) <=>
        \E i \in 1..Len(a.audit) :
          AcceptedTransition(a.audit[i]) /\ c = a.audit[i].proposal.body.candidate
  BY DEF AcceptedCandidates
<1>4. \A c : c \in NewCandidates(e) <=> AcceptedTransition(e) /\ c = e.proposal.body.candidate
  BY DEF NewCandidates
<1> HIDE DEF n
<1>5. \A i \in 1..(n + 1) : i \in 1..n \/ i = n + 1
  BY <1>1
<1>6. 1..n \subseteq 1..(n + 1) /\ n + 1 \in 1..(n + 1)
  BY <1>1
<1> QED  BY <1>1, <1>2, <1>3, <1>4, <1>5, <1>6

(* An event attributed to the active policy keeps the policy history, if    *)
(* the database then has registered and activated what the event accepted.  *)
LEMMA EventKeepsPolicies ==
  ASSUME NEW d, NEW a, NEW e, OneEventMore(d, a, e), PolicyHistory(d),
         d.active # NoPolicy, e.policy = d.active,
         AcceptedTransition(e) => e.proposal.body.prior = d.active /\ e.proposal.body.candidate # NoPolicy,
         a.active = PolicyAfter(e), a.policies = d.policies \cup NewCandidates(e),
         e.configured \in a.policies \cup {NoPolicy},
         e.decision.accepted => e.configured = e.policy
  PROVE  PolicyHistory(a)
<1> DEFINE n == Len(d.audit)
<1>1. /\ n \in Nat /\ Len(a.audit) = n + 1
      /\ \A i \in 1..n : a.audit[i] = d.audit[i]
      /\ a.audit[n + 1] = e
  BY DEF OneEventMore
<1>2. \A i \in 1..(n + 1) : i \in 1..n \/ i = n + 1
  BY <1>1
<1>3. d.active \in d.policies
  BY DEF PolicyHistory, PolicyProjectionConsistent
<1>4. a.active # NoPolicy /\ a.active \in a.policies
  BY <1>3 DEF PolicyAfter, NewCandidates
<1>5. AcceptedCandidates(a) = AcceptedCandidates(d) \cup NewCandidates(e)
  BY CandidatesOfOneMore
<1>6. FirstPolicy(a) = FirstPolicy(d)
  <2>0. Len(a.audit) # 0 /\ FirstPolicy(a) = a.audit[1].policy
    BY <1>1 DEF FirstPolicy
  <2>1. CASE n = 0
    <3>1. a.audit[1] = e /\ FirstPolicy(d) = d.active
      BY <1>1, <2>1 DEF FirstPolicy
    <3> QED  BY <2>0, <3>1
  <2>2. CASE n # 0
    <3>1. 1 \in 1..n /\ FirstPolicy(d) = d.audit[1].policy
      BY <1>1, <2>2 DEF FirstPolicy
    <3> QED  BY <1>1, <2>0, <3>1
  <2> QED  BY <2>1, <2>2
<1>7. HistoricalPolicySequence(a)
  <2>1. \A i \in 1..Len(a.audit) :
          AcceptedTransition(a.audit[i]) => a.audit[i].proposal.body.prior = a.audit[i].policy
    <3> SUFFICES ASSUME NEW i \in 1..(n + 1), AcceptedTransition(a.audit[i])
                 PROVE  a.audit[i].proposal.body.prior = a.audit[i].policy
      BY <1>1
    <3>1. CASE i \in 1..n
      <4>1. a.audit[i] = d.audit[i] /\ n > 0
        BY <1>1, <3>1
      <4> QED  BY <3>1, <4>1 DEF PolicyHistory, HistoricalPolicySequence
    <3>2. CASE i = n + 1
      BY <1>1, <3>2
    <3> QED  BY <1>2, <3>1, <3>2
  <2>2. ASSUME NEW i \in 1..(Len(a.audit) - 1)
        PROVE  a.audit[i + 1].policy = PolicyAfter(a.audit[i])
    <3>1. CASE i \in 1..(n - 1)
      <4>1. i \in 1..n /\ i + 1 \in 1..n
        BY <1>1, <3>1
      <4> QED  BY <1>1, <3>1, <4>1 DEF PolicyHistory, HistoricalPolicySequence
    <3>2. CASE i = n
      BY <1>1, <3>2 DEF PolicyHistory, HistoricalPolicySequence
    <3> QED  BY <1>1, <3>1, <3>2
  <2>3. a.active = PolicyAfter(a.audit[Len(a.audit)])
    BY <1>1
  <2> QED  BY <2>1, <2>2, <2>3 DEF HistoricalPolicySequence
<1>8. a.policies = {FirstPolicy(a)} \cup AcceptedCandidates(a)
  BY <1>5, <1>6 DEF PolicyHistory
<1>9. PolicyProjectionConsistent(a)
  <2>1. d.policies \subseteq a.policies
    OBVIOUS
  <2>2. ASSUME NEW i \in 1..Len(a.audit)
        PROVE  a.audit[i].policy \in a.policies /\ a.audit[i].configured \in a.policies \cup {NoPolicy}
    <3>1. CASE i \in 1..n
      BY <1>1, <2>1, <3>1 DEF PolicyHistory, PolicyProjectionConsistent
    <3>2. CASE i = n + 1
      BY <1>1, <1>3, <2>1, <3>2
    <3> QED  BY <1>1, <1>2, <3>1, <3>2
  <2>3. AcceptedCandidates(a) # {} => a.policies = {a.audit[1].policy} \cup AcceptedCandidates(a)
    BY <1>1, <1>8 DEF FirstPolicy
  <2> QED  BY <1>4, <2>2, <2>3 DEF PolicyProjectionConsistent
<1>10. \A i \in 1..Len(a.audit) :
         a.audit[i].decision.accepted => a.audit[i].configured = a.audit[i].policy
  BY <1>1, <1>2 DEF PolicyHistory
<1> QED  BY <1>7, <1>8, <1>9, <1>10 DEF PolicyHistory

(* An event that creates at most a new record keeps the projection, if the  *)
(* database then has that record.                                           *)
LEMMA EventKeepsProjection ==
  ASSUME NEW d, NEW a, NEW e, OneEventMore(d, a, e), ProjectionConsistent(d),
         a.entities = d.entities \cup {name \in Entities : CreatesEntity(e, name)},
         \A name \in Entities : CreatesEntity(e, name) => name \notin d.entities
  PROVE  ProjectionConsistent(a)
<1> DEFINE n == Len(d.audit)
<1>1. /\ n \in Nat /\ Len(a.audit) = n + 1
      /\ \A i \in 1..n : a.audit[i] = d.audit[i]
      /\ a.audit[n + 1] = e
  BY DEF OneEventMore
<1>2. \A i \in 1..(n + 1) : i \in 1..n \/ i = n + 1
  BY <1>1
<1>3. \A name \in Entities : name \in d.entities <=> \E i \in 1..n : CreatesEntity(d.audit[i], name)
  BY DEF ProjectionConsistent
<1>4. 1..n \subseteq 1..(n + 1) /\ n + 1 \in 1..(n + 1)
  BY <1>1
<1>5. d.entities \subseteq Entities
  BY DEF ProjectionConsistent
<1>6. a.entities = {name \in Entities : \E i \in 1..Len(a.audit) : CreatesEntity(a.audit[i], name)}
  <2>1. ASSUME NEW name \in Entities
        PROVE  name \in a.entities <=> \E i \in 1..Len(a.audit) : CreatesEntity(a.audit[i], name)
    BY <1>1, <1>2, <1>3, <1>4
  <2> QED  BY <1>5, <2>1
<1>7. ASSUME NEW name \in Entities, NEW i \in 1..Len(a.audit), NEW j \in 1..Len(a.audit),
             CreatesEntity(a.audit[i], name), CreatesEntity(a.audit[j], name)
      PROVE  i = j
  <2>1. CASE i \in 1..n /\ j \in 1..n
    BY <1>1, <1>7, <2>1 DEF ProjectionConsistent
  <2>2. CASE i = n + 1 \/ j = n + 1
    BY <1>1, <1>2, <1>3, <1>7, <2>2
  <2> QED  BY <1>1, <1>2, <2>1, <2>2
<1> QED  BY <1>6, <1>7 DEF ProjectionConsistent

HistoryKept(d) == PolicyHistory(d) /\ ProjectionConsistent(d)

(* What _audit appends to the log of a working copy.                        *)
LEMMA AuditedFields ==
  ASSUME TypeOK, NEW s \in Submissions, NEW d \in Decisions, NEW w \in Databases,
         owner \in Clients, work.active \in Policies, w.audit = work.audit
  PROVE  LET a == Audited(s, d, w)
             e == AuditEvent(s, d, w)
         IN /\ OneEventMore(work, a, e)
            /\ a.active = w.active /\ a.policies = w.policies /\ a.entities = w.entities
            /\ e.policy = work.active /\ e.proposal = s.proposal /\ e.decision = d
            /\ e.configured = IF configured[owner] \in w.policies THEN configured[owner] ELSE NoPolicy
            /\ [proposal |-> s.proposal, fp |-> s.fp, decision |-> d] \in w.txs => e.persisted
<1>1. OneEventMore(work, Audited(s, d, w), AuditEvent(s, d, w))
  BY AuditedLog DEF OneEventMore
<1>2. w \in [txs: SUBSET Transactions, audit: Seq(Events), policies: SUBSET Policies,
              active: Policies \cup {NoPolicy}, entities: SUBSET Entities]
  BY DEF Databases
<1> QED  BY <1>1, <1>2 DEF Audited, AuditEvent

(* A rejection, stored or not, changes no projection.                       *)
SameProjections(d, w) ==
  /\ w.audit = d.audit /\ w.active = d.active
  /\ w.policies = d.policies /\ w.entities = d.entities

LEMMA RejectionKeepsHistory ==
  ASSUME TypeOK, NEW s \in Submissions, NEW d \in Decisions, NEW w \in Databases,
         owner \in Clients, work.active \in Policies, HistoryKept(work), ~d.accepted,
         SameProjections(work, w)
  PROVE  HistoryKept(Audited(s, d, w))
<1> DEFINE a == Audited(s, d, w)
           e == AuditEvent(s, d, w)
<1>1. /\ OneEventMore(work, a, e)
      /\ a.active = work.active /\ a.policies = work.policies /\ a.entities = work.entities
      /\ e.policy = work.active /\ ~e.decision.accepted
      /\ e.configured \in work.policies \cup {NoPolicy}
  <2>1. /\ OneEventMore(work, a, e)
        /\ a.active = w.active /\ a.policies = w.policies /\ a.entities = w.entities
        /\ e.policy = work.active /\ e.decision = d
        /\ e.configured = IF configured[owner] \in w.policies THEN configured[owner] ELSE NoPolicy
    <3>0. w.audit = work.audit
      BY DEF SameProjections
    <3>1. OneEventMore(work, a, e)
      BY <3>0, AuditedFields
    <3>2. a.active = w.active /\ a.policies = w.policies /\ a.entities = w.entities
      BY DEF Audited, Databases
    <3>3. e.policy = work.active /\ e.decision = d
      BY DEF AuditEvent
    <3>4. e.configured = IF configured[owner] \in w.policies THEN configured[owner] ELSE NoPolicy
      BY DEF AuditEvent
    <3> QED BY <3>1, <3>2, <3>3, <3>4
  <2> HIDE DEF a, e
  <2> QED  BY <2>1 DEF SameProjections
<1> HIDE DEF a, e
<1>2. PolicyHistory(a)
  BY <1>1, NoPolicyAssumption, EventKeepsPolicies
     DEF HistoryKept, AcceptedTransition, PolicyAfter, NewCandidates
<1>3. ProjectionConsistent(a)
  BY <1>1, EventKeepsProjection DEF HistoryKept, CreatesEntity, ProjectionConsistent
<1> QED  BY <1>2, <1>3 DEF HistoryKept, a

(* An acceptance is projected as the log says.                              *)
LEMMA AcceptanceKeepsHistory ==
  ASSUME TypeOK, NEW s \in Submissions, owner \in Clients, HistoryKept(work),
         Governs, HandlerRejection(s.proposal.body) = {}
  PROVE  HistoryKept(Audited(s, Accepted, Stored(s, Accepted, Projected(s.proposal.body, work))))
<1> DEFINE body == s.proposal.body
           p == Projected(body, work)
           w == Stored(s, Accepted, p)
           a == Audited(s, Accepted, w)
           e == AuditEvent(s, Accepted, w)
<1>0. /\ work \in Databases /\ body \in Bodies /\ work.active \in Policies
      /\ work.active = configured[owner] /\ Accepted \in Decisions /\ Accepted.accepted
  BY DecisionType DEF TypeOK, Submissions, Proposals, Governs, Accepted
<1>1. p \in Databases /\ p.audit = work.audit
  BY <1>0, ProjectedType DEF Projected, Databases
<1>2. /\ w \in Databases /\ w.audit = work.audit /\ w.active = p.active
      /\ w.policies = p.policies /\ w.entities = p.entities
      /\ [proposal |-> s.proposal, fp |-> s.fp, decision |-> Accepted] \in w.txs
  <2> HIDE DEF p
  <2> QED  BY <1>0, <1>1, AuditedType DEF Stored, Databases
<1>3. /\ OneEventMore(work, a, e)
      /\ a.active = p.active /\ a.policies = p.policies /\ a.entities = p.entities
      /\ e.policy = work.active /\ e.proposal = s.proposal /\ e.decision = Accepted
      /\ e.configured = IF configured[owner] \in p.policies THEN configured[owner] ELSE NoPolicy
      /\ e.persisted
  <2> HIDE DEF w, p
  <2> QED  BY <1>0, <1>2, AuditedFields
<1>4. work.active \in work.policies
  BY <1>0, NoPolicyAssumption DEF HistoryKept, PolicyHistory, PolicyProjectionConsistent
<1>5. CASE body \in Creations
  <2>1. /\ p.active = work.active /\ p.policies = work.policies
        /\ p.entities = work.entities \cup {body.name} /\ body.name \notin work.entities
        /\ body.name \in Entities
    BY <1>0, <1>5 DEF Projected, Databases, HandlerRejection, Creations
  <2>2. ~AcceptedTransition(e)
    BY <1>3, <1>5 DEF AcceptedTransition, Creations, Transitions
  <2>3. \A name : CreatesEntity(e, name) <=> name = body.name
    BY <1>0, <1>3, <1>5 DEF CreatesEntity
  <2> HIDE DEF a, e, p
  <2>4. PolicyHistory(a)
    BY <1>0, <1>3, <1>4, <2>1, <2>2, NoPolicyAssumption, EventKeepsPolicies
       DEF HistoryKept, PolicyAfter, NewCandidates
  <2>5. ProjectionConsistent(a)
    BY <1>3, <2>1, <2>3, EventKeepsProjection DEF HistoryKept
  <2>6. HistoryKept(a)
    BY <2>4, <2>5 DEF HistoryKept
  <2> QED  BY <2>6 DEF a, p
<1>6. CASE body \notin Creations
  <2>1. /\ body \in Transitions /\ body.prior = work.active /\ body.candidate \in Policies
    BY <1>0, <1>6 DEF HandlerRejection, Bodies, Transitions
  <2>2. /\ p.active = body.candidate /\ p.policies = work.policies \cup {body.candidate}
        /\ p.entities = work.entities
    BY <1>0, <1>6 DEF Projected, Databases
  <2>3. AcceptedTransition(e)
    BY <1>0, <1>3, <2>1 DEF AcceptedTransition
  <2>4. \A name : ~CreatesEntity(e, name)
    BY <1>3, <1>6 DEF CreatesEntity
  <2> HIDE DEF a, e, p
  <2>5. PolicyHistory(a)
    BY <1>0, <1>3, <1>4, <2>1, <2>2, <2>3, NoPolicyAssumption, EventKeepsPolicies
       DEF HistoryKept, PolicyAfter, NewCandidates
  <2>6. ProjectionConsistent(a)
    BY <1>3, <2>2, <2>4, EventKeepsProjection DEF HistoryKept, ProjectionConsistent
  <2>7. HistoryKept(a)
    BY <2>5, <2>6 DEF HistoryKept
  <2> QED  BY <2>7 DEF a, p
<1> QED  BY <1>5, <1>6

-----------------------------------------------------------------------------
(* Why a client was told what it was told: its key conflicts, nothing is    *)
(* initialised, the decision is stored, or its id belongs to another key.   *)
Explained(d, reply) ==
  \/ reply.decision.code = "IDEMPOTENCY_CONFLICT"
  \/ reply.policy = NoPolicy
  \/ \E t \in d.txs : Backed(t, reply)
  \/ \E t \in d.txs : t.proposal.pid = reply.pid /\ t.proposal.key # reply.key

(* The ways _submit_locked answers: a decision stored before; a rejection   *)
(* that is not stored, audited if there is a policy; one that is; or an     *)
(* acceptance.                                                              *)
IdTaken(s) ==
  /\ PriorById(s.proposal.pid) # {}
  /\ PriorByKey(s.proposal.key) = {}
Branch(s, d, w) ==
  \/ w = work /\ \E t \in work.txs : Backed(t, Reply(s, d, TRUE))
  \/ w = work /\ work.active = NoPolicy
  \/ /\ w = Audited(s, d, work) /\ ~d.accepted /\ work.active # NoPolicy
     /\ d.code = "IDEMPOTENCY_CONFLICT" \/ IdTaken(s)
  \/ w = Audited(s, d, Stored(s, d, work)) /\ ~d.accepted /\ work.active # NoPolicy
  \/ /\ w = Audited(s, d, Stored(s, d, Projected(s.proposal.body, work)))
     /\ d = Accepted /\ Governs /\ HandlerRejection(s.proposal.body) = {}

LEMMA Branches ==
  ASSUME TypeOK, NEW s \in Submissions, SubmitLocked(s)
  PROVE  /\ owner \in Clients
         /\ \E d \in Decisions, r \in BOOLEAN : \E w : Answer(s, d, r, w) /\ Branch(s, d, w)
<1> USE DEF Pending
<1>0. /\ owner \in Clients /\ work \in Databases /\ s.proposal.body \in Bodies
  BY DEF SubmitLocked, ReplayPrior, RejectKeyConflict, RejectUninitialised, RejectStalePolicy,
         RejectProposalIdReuse, RejectEvidenceArtifact, RejectGovernedFailure, HandlerRejects,
         HandlerAccepts, Decidable, TypeOK, Submissions, Proposals
<1>1. /\ \A code \in Codes : Rejected(code) \in Decisions
      /\ \A code : ~Rejected(code).accepted /\ Rejected(code).code = code
      /\ \A d \in HandlerRejection(s.proposal.body) : d \in Decisions /\ ~d.accepted
  BY <1>0, DecisionType DEF HandlerRejection, Rejected
<1>2. Governs => work.active # NoPolicy
  BY <1>0, NoPolicyAssumption DEF Governs, TypeOK
<1>3. CASE ReplayPrior(s)
  <2>1. PICK t \in PriorByKey(s.proposal.key) :
          SameSubmission(t, s) /\ Answer(s, t.decision, TRUE, work)
    BY <1>3 DEF ReplayPrior
  <2>2. t \in work.txs /\ t.decision \in Decisions
    BY <1>0, <2>1 DEF PriorByKey, Databases, Transactions
  <2>3. Backed(t, Reply(s, t.decision, TRUE))
    BY <2>1 DEF SameSubmission, Backed, Reply
  <2> QED  BY <1>0, <2>1, <2>2, <2>3 DEF Branch
<1>4. CASE RejectKeyConflict(s)
  <2> DEFINE d == Rejected("IDEMPOTENCY_CONFLICT")
             w == IF work.active = NoPolicy THEN work ELSE Audited(s, d, work)
  <2>1. Answer(s, d, FALSE, w)
    BY <1>4 DEF RejectKeyConflict
  <2>2. d \in Decisions /\ ~d.accepted /\ d.code = "IDEMPOTENCY_CONFLICT"
    BY <1>1 DEF Codes
  <2>3. Branch(s, d, w)
    <3> HIDE DEF d
    <3> QED  BY <2>2 DEF Branch
  <2> HIDE DEF d, w
  <2> QED  BY <1>0, <2>1, <2>2, <2>3
<1>5. CASE RejectUninitialised(s)
  <2>1. /\ work.active = NoPolicy /\ Rejected("POLICY_HASH_MISMATCH") \in Decisions
        /\ Answer(s, Rejected("POLICY_HASH_MISMATCH"), FALSE, work)
    BY <1>1, <1>5 DEF RejectUninitialised, Codes
  <2> QED  BY <1>0, <2>1 DEF Branch
<1>6. CASE RejectStalePolicy(s)
  <2> DEFINE d == Rejected("POLICY_HASH_MISMATCH")
             w == Audited(s, d, IF PriorById(s.proposal.pid) = {} THEN Stored(s, d, work) ELSE work)
  <2>1. Answer(s, d, FALSE, w) /\ work.active # NoPolicy /\ PriorByKey(s.proposal.key) = {}
    BY <1>6 DEF RejectStalePolicy
  <2>2. d \in Decisions /\ ~d.accepted
    BY <1>1 DEF Codes
  <2>3. Branch(s, d, w)
    <3> HIDE DEF d
    <3> QED  BY <2>1, <2>2 DEF Branch, IdTaken
  <2> HIDE DEF d, w
  <2> QED  BY <1>0, <2>1, <2>2, <2>3
<1>7. CASE RejectProposalIdReuse(s)
  <2> DEFINE d == Rejected("ENTITY_ALREADY_EXISTS")
             w == Audited(s, d, work)
  <2>1. /\ Answer(s, d, FALSE, w) /\ work.active # NoPolicy /\ IdTaken(s)
    BY <1>2, <1>7 DEF RejectProposalIdReuse, IdTaken
  <2>2. d \in Decisions /\ ~d.accepted
    BY <1>1 DEF Codes
  <2>3. Branch(s, d, w)
    <3> HIDE DEF d
    <3> QED  BY <2>1, <2>2 DEF Branch
  <2> HIDE DEF d, w
  <2> QED  BY <1>0, <2>1, <2>2, <2>3
<1>8. ASSUME NEW d \in Decisions, ~d.accepted, Decidable(s), Settle(s, d, work)
      PROVE  Answer(s, d, FALSE, Audited(s, d, Stored(s, d, work)))
             /\ Branch(s, d, Audited(s, d, Stored(s, d, work)))
  BY <1>2, <1>8 DEF Settle, Branch, Decidable
<1>9. CASE RejectEvidenceArtifact(s)
  <2>1. Rejected("EVIDENCE_HASH_MISMATCH") \in Decisions
    BY <1>1 DEF Codes
  <2> QED  BY <1>0, <1>1, <1>8, <1>9, <2>1 DEF RejectEvidenceArtifact
<1>10. CASE RejectGovernedFailure(s)
  <2>1. Rejected("DERIVATION_MISMATCH") \in Decisions
    BY <1>1 DEF Codes
  <2> QED  BY <1>0, <1>1, <1>8, <1>10, <2>1 DEF RejectGovernedFailure
<1>11. CASE HandlerRejects(s)
  <2>1. PICK d \in HandlerRejection(s.proposal.body) : Settle(s, d, work)
    BY <1>11 DEF HandlerRejects
  <2> QED  BY <1>0, <1>1, <1>8, <1>11, <2>1 DEF HandlerRejects
<1>12. CASE HandlerAccepts(s)
  <2> DEFINE w == Audited(s, Accepted, Stored(s, Accepted, Projected(s.proposal.body, work)))
  <2>1. Answer(s, Accepted, FALSE, w) /\ Branch(s, Accepted, w)
    BY <1>12 DEF HandlerAccepts, Settle, Branch, Decidable
  <2> HIDE DEF w
  <2> QED  BY <1>0, <2>1, DecisionType
<1> QED
  BY <1>3, <1>4, <1>5, <1>6, <1>7, <1>9, <1>10, <1>11, <1>12 DEF SubmitLocked

(* Whatever branch is taken, the working copy stays one that verification   *)
(* replays, and the reply is explained by it.                               *)
LEMMA BranchKeepsHistory ==
  ASSUME TypeOK, NEW s \in Submissions, NEW d \in Decisions, NEW w, owner \in Clients,
         HistoryKept(work), Branch(s, d, w)
  PROVE  HistoryKept(w)
<1>0. work \in Databases /\ (work.active # NoPolicy => work.active \in Policies)
  BY DEF TypeOK, Databases
<1>1. CASE w = Audited(s, d, work) /\ ~d.accepted /\ work.active # NoPolicy
  BY <1>0, <1>1, RejectionKeepsHistory DEF SameProjections
<1>2. CASE w = Audited(s, d, Stored(s, d, work)) /\ ~d.accepted /\ work.active # NoPolicy
  <2>1. Stored(s, d, work) \in Databases
    BY <1>0, <1>2, AuditedType
  <2>2. SameProjections(work, Stored(s, d, work))
    BY <1>0 DEF Stored, SameProjections, Databases
  <2> QED  BY <1>0, <1>2, <2>1, <2>2, RejectionKeepsHistory
<1> QED  BY <1>1, <1>2, AcceptanceKeepsHistory DEF Branch

(* A branch only adds to the working copy's transactions.                   *)
LEMMA BranchExtends ==
  ASSUME TypeOK, NEW s \in Submissions, NEW d \in Decisions, NEW w, owner \in Clients,
         Branch(s, d, w)
  PROVE  work.txs \subseteq w.txs
<1>0. work \in Databases
  BY DEF TypeOK
<1>1. ASSUME NEW v \in Databases PROVE /\ Audited(s, d, v).txs = v.txs
                                      /\ v.txs \subseteq Audited(s, d, Stored(s, d, v)).txs
  BY DEF Audited, Stored, Databases
<1>2. HandlerRejection(s.proposal.body) = {} =>
        /\ Projected(s.proposal.body, work) \in Databases
        /\ Projected(s.proposal.body, work).txs = work.txs
  BY <1>0, ProjectedType DEF Submissions, Proposals, Projected, Databases
<1> QED  BY <1>0, <1>1, <1>2 DEF Branch

LEMMA BranchExplains ==
  ASSUME TypeOK, NEW s \in Submissions, NEW d \in Decisions, NEW r \in BOOLEAN, NEW w,
         owner \in Clients, Branch(s, d, w)
  PROVE  Explained(w, Reply(s, d, r))
<1> DEFINE reply == Reply(s, d, r)
           row == [proposal |-> s.proposal, fp |-> s.fp, decision |-> d]
<1>0. /\ work.txs \subseteq w.txs /\ work \in Databases
      /\ (work.active # NoPolicy => work.active \in Policies)
  BY BranchExtends DEF TypeOK, Databases
<1>1. /\ reply.key = s.proposal.key /\ reply.pid = s.proposal.pid
      /\ reply.decision = d /\ reply.policy = work.active
      /\ \A t : Backed(t, reply) <=> Backed(t, Reply(s, d, TRUE))
      /\ Backed(row, reply)
  BY DEF Reply, Backed
<1> SUFFICES Explained(w, reply)
  OBVIOUS
<1> HIDE DEF reply, row
<1>2. CASE \E t \in work.txs : Backed(t, Reply(s, d, TRUE))
  BY <1>0, <1>1, <1>2 DEF Explained
<1>3. CASE work.active = NoPolicy
  BY <1>1, <1>3 DEF Explained
<1>4. CASE d.code = "IDEMPOTENCY_CONFLICT"
  BY <1>1, <1>4 DEF Explained
<1>5. CASE IdTaken(s)
  <2>1. PICK t \in work.txs : t.proposal.pid = s.proposal.pid
    BY <1>5 DEF IdTaken, PriorById
  <2>2. t.proposal.key # s.proposal.key
    BY <1>5 DEF IdTaken, PriorByKey
  <2> QED  BY <1>0, <1>1, <2>1, <2>2 DEF Explained
<1>6. ASSUME NEW v \in Databases, w = Audited(s, d, Stored(s, d, v))
      PROVE  Explained(w, reply)
  <2>1. row \in w.txs
    BY <1>6 DEF Audited, Stored, Databases, row
  <2> QED  BY <1>1, <2>1 DEF Explained
<1>7. CASE w = Audited(s, d, Stored(s, d, work))
  BY <1>0, <1>6, <1>7
<1>8. CASE /\ w = Audited(s, d, Stored(s, d, Projected(s.proposal.body, work)))
           /\ HandlerRejection(s.proposal.body) = {}
  <2>1. Projected(s.proposal.body, work) \in Databases
    BY <1>0, <1>8, ProjectedType DEF Submissions, Proposals
  <2> QED  BY <1>6, <1>8, <2>1
<1> QED  BY <1>2, <1>3, <1>4, <1>5, <1>7, <1>8 DEF Branch

(* The invariant: verification replays both databases, and the database     *)
(* explains what clients were told, the working copy what they will be.     *)
HistoryInv ==
  /\ HistoryKept(db) /\ HistoryKept(work)
  /\ \A a \in acked : Explained(db, a)
  /\ \A i \in 1..Len(replies) : Explained(work, replies[i])

LEMMA ExplainedStays ==
  ASSUME NEW d, NEW w, d.txs \subseteq w.txs, NEW reply, Explained(d, reply)
  PROVE  Explained(w, reply)
BY DEF Explained

(* What verification replays depends on the database alone.                 *)
LEMMA HistoryPrimed ==
  ASSUME NEW w
  PROVE  /\ HistoryKept(w) /\ work' = w => HistoryKept(work)'
         /\ HistoryKept(w) /\ db' = w => HistoryKept(db)'
<1>1. ASSUME HistoryKept(w), work' = w PROVE HistoryKept(work)'
  <2>1. HistoryKept(work')
    BY <1>1
  <2> QED  BY <2>1
<1>2. ASSUME HistoryKept(w), db' = w PROVE HistoryKept(db)'
  <2>1. HistoryKept(db')
    BY <1>2
  <2> QED  BY <2>1
<1> QED  BY <1>1, <1>2

(* Steps that touch neither a database nor an answer, and steps that leave  *)
(* one database, which explains what was said, and no unit of work open.    *)
LEMMA HistoryFrame ==
  ASSUME HistoryInv, UNCHANGED <<db, work, replies, acked>>
  PROVE  HistoryInv'
<1>1. HistoryKept(work)' /\ HistoryKept(db)'
  BY HistoryPrimed DEF HistoryInv
<1> QED  BY <1>1 DEF HistoryInv, Explained, Backed

LEMMA CommittedHistory ==
  ASSUME HistoryKept(db'), work' = db', replies' = <<>>, \A a \in acked' : Explained(db', a)
  PROVE  HistoryInv'
<1>1. HistoryKept(work)' /\ HistoryKept(db)'
  BY HistoryPrimed
<1>2. \A a \in acked' : Explained(db, a)'
  BY DEF Explained, Backed
<1> QED  BY <1>1, <1>2 DEF HistoryInv

(* One more reply that the new working copy explains.                       *)
LEMMA ReplyKeepsHistory ==
  ASSUME TypeOK, HistoryInv, UNCHANGED <<db, acked>>, NEW w, work' = w, HistoryKept(w),
         work.txs \subseteq w.txs, NEW reply \in Replies, replies' = Append(replies, reply),
         Explained(w, reply)
  PROVE  HistoryInv'
<1>1. HistoryKept(work)' /\ HistoryKept(db)'
  BY HistoryPrimed DEF HistoryInv
<1>2. /\ Len(replies') = Len(replies) + 1 /\ Len(replies) \in Nat
      /\ \A i \in 1..Len(replies) : replies'[i] = replies[i]
      /\ replies'[Len(replies) + 1] = reply
  BY DEF TypeOK
<1>3. ASSUME NEW i \in 1..Len(replies') PROVE Explained(w, replies'[i])
  <2>1. CASE i \in 1..Len(replies)
    BY <1>2, <2>1, ExplainedStays DEF HistoryInv
  <2>2. CASE i = Len(replies) + 1
    BY <1>2, <2>2
  <2> QED  BY <1>2, <2>1, <2>2
<1>4. \A i \in 1..Len(replies') : Explained(work, replies[i])'
  BY <1>3 DEF Explained, Backed
<1>5. \A a \in acked' : Explained(db, a)'
  BY DEF HistoryInv, Explained, Backed
<1> QED  BY <1>1, <1>4, <1>5 DEF HistoryInv

LEMMA SubmitLockedKeepsHistory ==
  ASSUME IInv, HistoryInv, NEW s \in Submissions, SubmitLocked(s)
  PROVE  HistoryInv'
<1>0. TypeOK /\ HistoryKept(work)
  BY DEF IInv, HistoryInv
<1>a. PICK d \in Decisions, r \in BOOLEAN : \E w : Answer(s, d, r, w) /\ Branch(s, d, w)
  BY <1>0, Branches
<1>1. PICK w : Answer(s, d, r, w) /\ Branch(s, d, w)
  BY <1>a
<1>2. owner \in Clients
  BY <1>0, Branches
<1>3. /\ UNCHANGED <<db, acked>> /\ work' = w
      /\ replies' = Append(replies, Reply(s, d, r))
  BY <1>1 DEF Answer
<1>4. Reply(s, d, r) \in Replies
  BY <1>0 DEF Reply, Replies, Submissions, Proposals, TypeOK, Databases
<1>5. HistoryKept(w)
  BY <1>0, <1>1, <1>2, BranchKeepsHistory
<1>6. Explained(w, Reply(s, d, r)) /\ work.txs \subseteq w.txs
  BY <1>0, <1>1, <1>2, BranchExtends, BranchExplains
<1> QED  BY <1>0, <1>3, <1>4, <1>5, <1>6, ReplyKeepsHistory

LEMMA ResolveKeepsHistory ==
  ASSUME IInv, HistoryInv, Resolve
  PROVE  HistoryInv'
<1>0. /\ TypeOK /\ HistoryKept(work) /\ work \in Databases /\ owner \in Clients
      /\ attempt \in Attempts /\ attempt.key \in Keys /\ attempt.pid \in ProposalIds
      /\ AttemptFingerprint(attempt) \in Fingerprints
      /\ UNCHANGED <<db, acked>>
  BY DEF Resolve, IntentReplay, IntentConflict, IntentFactory, Resolving, TypeOK,
     Attempts, AttemptFingerprint, Fingerprints, IInv, HistoryInv
<1>1. ASSUME NEW d \in Decisions, NEW x \in BOOLEAN
      PROVE  IntentReply(attempt, d, x) \in Replies /\ IntentReply(attempt, d, x).decision = d
  BY <1>0 DEF IntentReply, Replies, Databases
<1>2. CASE IntentReplay
  <2>1. PICK t \in PriorByKey(attempt.key) :
          /\ SameIntent(t, attempt)
          /\ replies' = Append(replies, IntentReply(attempt, t.decision, TRUE))
    BY <1>2 DEF IntentReplay
  <2>2. t \in work.txs /\ t.decision \in Decisions
    BY <1>0, <2>1 DEF PriorByKey, Databases, Transactions
  <2>3. Backed(t, IntentReply(attempt, t.decision, TRUE))
    BY <2>1 DEF SameIntent, PriorByKey, Backed, IntentReply
  <2>4. Explained(work, IntentReply(attempt, t.decision, TRUE))
    BY <2>2, <2>3 DEF Explained
  <2>5. IntentReply(attempt, t.decision, TRUE) \in Replies
    BY <1>1, <2>2
  <2>6. work' = work
    BY <1>2 DEF IntentReplay
  <2> QED  BY <1>0, <2>1, <2>4, <2>5, <2>6, ReplyKeepsHistory
<1>3. CASE IntentConflict
  <2> DEFINE d == Rejected("IDEMPOTENCY_CONFLICT")
             s == InvalidAttempt(attempt)
             w == IF work.active = NoPolicy THEN work ELSE Audited(s, d, work)
             reply == IntentReply(attempt, d, FALSE)
  <2>1. /\ d \in Decisions /\ ~d.accepted /\ d.code = "IDEMPOTENCY_CONFLICT"
    BY DecisionType DEF Codes, Rejected
  <2>2. s \in Submissions
    BY <1>0 DEF InvalidAttempt, Submissions, Proposals, Bodies
  <2>3. replies' = Append(replies, reply) /\ work' = w
    BY <1>3 DEF IntentConflict
  <2>4. reply \in Replies /\ Explained(w, reply)
    BY <1>1, <2>1 DEF Explained
  <2>5. HistoryKept(w) /\ work.txs \subseteq w.txs
    <3>1. CASE work.active = NoPolicy
      BY <1>0, <3>1
    <3>2. CASE work.active # NoPolicy
      <4>1. work.active \in Policies
        BY <1>0, <3>2 DEF Databases
      <4>2. SameProjections(work, work)
        BY DEF SameProjections
      <4>3. HistoryKept(Audited(s, d, work))
        BY <1>0, <2>1, <2>2, <4>1, <4>2, RejectionKeepsHistory
      <4>4. Audited(s, d, work).txs = work.txs
        BY <1>0 DEF Audited, Databases
      <4> QED  BY <3>2, <4>3, <4>4
    <3> QED  BY <3>1, <3>2
  <2> HIDE DEF d, s, w, reply
  <2> QED  BY <1>0, <2>3, <2>4, <2>5, ReplyKeepsHistory
<1>4. ASSUME NEW body \in Bodies, IntentFactory(body)
      PROVE  HistoryInv'
  <2>1. UNCHANGED <<db, work, replies, acked>>
    BY <1>4 DEF IntentFactory
  <2> QED  BY <2>1, HistoryFrame
<1> QED  BY <1>2, <1>3, <1>4 DEF Resolve

LEMMA EmptyHistory ==
  /\ HistoryKept(EmptyDatabase)
  /\ \A q \in Policies : HistoryKept([EmptyDatabase EXCEPT !.policies = {q}, !.active = q])
<1>1. ASSUME NEW d, d.audit = <<>>, d.entities = {},
             \/ d.active = NoPolicy /\ d.policies = {}
             \/ d.active # NoPolicy /\ d.policies = {d.active}
      PROVE  HistoryKept(d)
  <2>1. Len(d.audit) = 0 /\ 1..Len(d.audit) = {}
    BY <1>1
  <2>2. AcceptedCandidates(d) = {}
    BY <2>1 DEF AcceptedCandidates
  <2>3. HistoricalPolicySequence(d)
    BY <2>1 DEF HistoricalPolicySequence
  <2>4. PolicyProjectionConsistent(d)
    BY <1>1, <2>1, <2>2 DEF PolicyProjectionConsistent
  <2>5. d.active # NoPolicy => d.policies = {FirstPolicy(d)} \cup AcceptedCandidates(d)
    BY <1>1, <2>1, <2>2 DEF FirstPolicy
  <2>6. ProjectionConsistent(d)
    BY <1>1, <2>1 DEF ProjectionConsistent
  <2> QED  BY <2>1, <2>3, <2>4, <2>5, <2>6 DEF HistoryKept, PolicyHistory
<1> QED  BY <1>1, NoPolicyAssumption DEF EmptyDatabase

LEMMA HistoryStep == IInv /\ HistoryInv /\ [Next]_vars => HistoryInv'
<1> SUFFICES ASSUME IInv, HistoryInv, [Next]_vars PROVE HistoryInv'
  OBVIOUS
<1>0. /\ TypeOK /\ db \in Databases /\ work \in Databases
      /\ db.txs \subseteq work.txs /\ (owner = NoClient => replies = <<>>)
  BY DEF IInv, TypeOK, Extends
<1>1. ASSUME NEW q \in Policies, InitCommand(q) PROVE HistoryInv'
  <2>1. /\ replies' = <<>> /\ acked' = acked /\ work' = db'
        /\ db' = [db EXCEPT !.policies = @ \cup {q}, !.active = q]
    BY <1>0, <1>1 DEF InitCommand
  <2>2. db'.txs = db.txs
    BY <1>0, <2>1 DEF Databases
  <2>3. HistoryKept(db')
    <3>1. CASE db.active = NoPolicy
      <4>1. db' = [EmptyDatabase EXCEPT !.policies = {q}, !.active = q]
        <5>1. db = EmptyDatabase
          BY <1>1, <3>1 DEF InitCommand
        <5>2. EmptyDatabase.policies \cup {q} = {q}
          BY DEF EmptyDatabase
        <5> HIDE DEF EmptyDatabase
        <5> QED  BY <2>1, <5>1, <5>2
      <4> QED  BY <4>1, EmptyHistory
    <3>2. CASE db.active = q
      <4>1. q \in db.policies
        BY <3>2, NoPolicyAssumption DEF HistoryInv, HistoryKept, PolicyHistory, PolicyProjectionConsistent
      <4>2. db' = db
        BY <1>0, <2>1, <3>2, <4>1 DEF Databases
      <4> QED  BY <4>2 DEF HistoryInv
    <3> QED  BY <1>1, <3>1, <3>2 DEF InitCommand
  <2>4. \A a \in acked' : Explained(db', a)
    BY <2>1, <2>2, ExplainedStays DEF HistoryInv
  <2> QED  BY <2>1, <2>3, <2>4, CommittedHistory
<1>2. ASSUME NEW c \in Clients, BuildRuntime(c) PROVE HistoryInv'
  BY <1>2, HistoryFrame DEF BuildRuntime
<1>3. ASSUME NEW c \in Clients, NEW n, Begin(c, n) PROVE HistoryInv'
  BY <1>3, CommittedHistory DEF Begin, HistoryInv
<1>4. CASE SubmitNext
  BY <1>4, NextSubmission, SubmitLockedKeepsHistory DEF IInv
<1>5. CASE Commit
  <2>1. /\ db' = work /\ work' = work /\ replies' = <<>>
        /\ acked' = acked \cup {replies[i] : i \in {j \in 1..Len(replies) : replies[j].key \in Observed}}
    BY <1>5 DEF Commit, EndUnitOfWork
  <2>2. \A a \in acked' : a \in acked \/ \E i \in 1..Len(replies) : a = replies[i]
    BY <2>1
  <2>3. \A a \in acked' : Explained(work, a)
    BY <1>0, <2>2, ExplainedStays DEF HistoryInv
  <2> QED  BY <2>1, <2>3, CommittedHistory DEF HistoryInv
<1>6. CASE CommitReplyLost
  <2>1. /\ db' = work /\ work' = work /\ replies' = <<>> /\ acked' = acked
    BY <1>6 DEF CommitReplyLost, EndUnitOfWork
  <2>2. \A a \in acked : Explained(work, a)
    BY <1>0, ExplainedStays DEF HistoryInv
  <2> QED  BY <2>1, <2>2, CommittedHistory DEF HistoryInv
<1>7. CASE Rollback
  BY <1>7, CommittedHistory DEF Rollback, EndUnitOfWork, HistoryInv
<1>8. CASE UNCHANGED vars
  BY <1>8, HistoryFrame DEF vars
<1> QED
  BY <1>1, <1>2, <1>3, <1>4, <1>5, <1>6, <1>7, <1>8, ResolveKeepsHistory
  DEF Next, Submit, SubmitBatch, SubmitIntent

LEMMA HistoryInvariant == Spec => []HistoryInv
<1>1. Init => HistoryInv
  <2> SUFFICES ASSUME Init PROVE HistoryInv
    OBVIOUS
  <2>1. db = EmptyDatabase /\ work = EmptyDatabase /\ acked = {} /\ replies = <<>>
    BY DEF Init
  <2>2. \A i \in 1..Len(replies) : FALSE
    BY <2>1
  <2> QED  BY <2>1, <2>2, EmptyHistory DEF HistoryInv
<1> QED  BY <1>1, HistoryStep, Invariant, PTL DEF Spec

(* Replaying the committed log attributes every event to the policy then    *)
(* active and ends at the active policy, whoever moved it while others held *)
(* an older snapshot.                                                       *)
THEOREM PolicyReplays == Spec => []PolicyHistoryReplays
<1>1. HistoryInv => PolicyHistoryReplays
  BY DEF HistoryInv, HistoryKept, PolicyHistory, PolicyHistoryReplays
<1> QED  BY <1>1, HistoryInvariant, PTL

(* The domain records are those of the accepted proposals.                  *)
THEOREM ProjectionsReplay == Spec => []ProjectionsMatchAudit
<1>1. HistoryInv => ProjectionsMatchAudit
  BY DEF HistoryInv, HistoryKept, ProjectionsMatchAudit
<1> QED  BY <1>1, HistoryInvariant, PTL

(* Only a client configured with the governing policy is given acceptances. *)
THEOREM StaleAcceptNothing == Spec => []StaleClientsAcceptNothing
<1>1. HistoryInv => StaleClientsAcceptNothing
  BY DEF HistoryInv, HistoryKept, PolicyHistory, StaleClientsAcceptNothing
<1> QED  BY <1>1, HistoryInvariant, PTL

(* No client is told both yes and no for one submission: the acceptance is  *)
(* stored, and the rejection is too or its id belongs to another key.       *)
THEOREM AnswersNotReversed == Spec => []NoReversedAnswer
<1>1. IInv /\ HistoryInv => NoReversedAnswer
  <2> SUFFICES ASSUME IInv, HistoryInv, NEW a \in acked, NEW b \in acked,
                      a.key = b.key, a.pid = b.pid, a.fp = b.fp,
                      a.decision.accepted, ~b.decision.accepted
               PROVE  b.decision.code = "IDEMPOTENCY_CONFLICT" \/ b.policy = NoPolicy
    BY DEF NoReversedAnswer
  <2>1. PICK t \in db.txs : Backed(t, a)
    BY DEF IInv, AckedDecisionsAreDurable
  <2>2. \A u \in db.txs : u.proposal.key = b.key \/ u.proposal.pid = b.pid => u = t
    BY <2>1 DEF IInv, Consistent, IdsUnique, LedgerClash, Backed
  <2> QED  BY <2>1, <2>2 DEF HistoryInv, Explained, Backed
<1> QED  BY <1>1, HistoryInvariant, Invariant, PTL
=============================================================================
