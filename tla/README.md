# TLA+ models of the Super Scientist orchestration harness

Models of the harness in `src/src/super_scientist`, the TLC runs that check them on small
instances, and theorems about them that TLAPS checks for every value of the constants. Line
numbers name files of that directory. `PROJECT.json` maps every definition that models code to
the lines it stands for, and lists the runs, hazards, findings and theorems.

    tlc -config MCCoordinator.cfg MCCoordinator         # a run: cfg and module as listed below
    tlapm CoordinatorProofs.tla                           # the proofs of a module

- [The system](#the-system)
- [Inventory of the components](#inventory-of-the-components)
- [Modules and what they model](#modules-and-what-they-model)
- [Runs](#runs)
- [What the runs disagree with](#what-the-runs-disagree-with)
- [Proofs](#proofs)
- [Abstractions](#abstractions)
- [What is not modelled](#what-is-not-modelled)
- [Plan](#plan)

## The system

A workspace is one SQLite database and a directory of content-addressed artifacts. Every change
goes through the *transaction coordinator*. A client process (a command of the CLI, or the
importer of a bundle) builds a runtime with a snapshot of the governing policy and then submits
proposals: directly, in batches, or as *intents*, attempt envelopes a factory turns into a
proposal while the writer lock is held.

A submission opens a unit of work (`BEGIN IMMEDIATE`, the only writer), verifies the whole
workspace, looks for an earlier decision of the same idempotency key or proposal id, compares the
configured policy with the active one, lets the component's handler decide with read capabilities
only, projects an accepted proposal into the component's tables with write capabilities, stores
the decision, appends a hash-chained audit event, and commits. Any exception rolls the whole unit
of work back.

    client ── submit / submit_batch / submit_intent ──> TransactionCoordinator
                                                           │ require_workspace_integrity
                                                           │ router ── handler.validate ── component service
                                                           │           handler.project  ── component tables
                                                           │ transactions, audit chain
                                                           └ commit / rollback
    importer ── bundle of intents in audit order ────────> the target workspace's coordinator

Components share no memory. They interact through the tables a handler reads (a completion reads
runs, plans, events, budgets and evidence), through the active policy that all authority checks
read, and through verification: `require_workspace_integrity` recomputes what every handler
derived, in other code, before each later submission. A disagreement between a handler and its
verification therefore blocks the workspace for good, which makes it the most important hazard of
this code, and the reason verification is modelled beside the handlers it repeats.

What is concurrent is processes: clients of one workspace, clients with an old policy snapshot,
an importer against clients of both workspaces, the protected store against its worker. Within a
process there is one thread and no callback between the lock and the commit. What can fail is the
commit, the process before or after it, a reply, an import between two records, an addition to the
protected store, a worker that answers late. Times in records come from clients' clocks.

Two ways of keeping history recur. Most components read *tables*, append-only, with a *head* that
points to the version in force. Trails, procedures and cohorts are bound by *receipts*: places of
accepted transactions in the audit chain, which the handler resolves when it decides and
verification resolves again, later, from the chain alone.

## Inventory of the components

| component | state it keeps | operations | what makes it correct |
|---|---|---|---|
| Transaction coordinator | transactions, open unit of work | submit, submit_batch, submit_intent | a key or id is decided once; answers are durable and never reversed; a unit of work ends |
| Units of work, repositories | all tables | begin, commit, rollback, append, set head | all or nothing; append-only rows stay |
| Audit chain | audit events | append, verify | one event per decision, under the policy that governed it |
| Claim admission | evidence, versions of claims | add evidence, propose, transition | histories follow the status graph; what was admitted stays supported |
| Governance policy | active pointer, registered policies, transitions | init, propose transition | checks accumulate; authority comes from the predecessor; governance never locks; the chain rebuilds |
| Improvement | audits, measurements, evaluator versions, head, decisions | record, propose, decide | candidates are independently audited under their own policy; an identifier is one record; succession is possible |
| Research runs | runs, run events, run heads | create, append event | success was validated; the head ends the history; a terminal run ends |
| Progress | plans, events, heads, budgets, checkpoints, completions | five proposal kinds | verification replays every history; an accepted event takes effect; official progress is a dependency closure |
| Whole-workspace verification | none | verify before each submission | accepts whatever admission produced |
| Workspace exchange | none of its own between phases | export, preflight, commit, audit conflicts | a verified import is the exporter's history; nothing is overwritten; which exports rebuild, and when |
| Artifact store | files by digest | put, remove, verify | accepted evidence keeps its artifact |
| Command line | a policy snapshot per process | init, commands | one policy bootstraps a workspace |
| Configurations | immutable records | record | an identifier is one record |
| Evidence trails | stages, versions, report bindings, head | accept evidence, propose nodes, relations and claims, record a version, bind a sentence | what was accepted replays; no conclusion precedes its sources |
| Behavioral rules | incidents, proposals, reviews, versions, heads | record, propose, review, consolidate | a superseded rule keeps its incidents and authority; overlapping rules are merged |
| Representational primitives | staged versions, evaluations, support, admissions, heads | propose, evaluate, support, admit | admissions form one chain; no concept is canonical twice |
| Hypothesis loop | versions, models, mechanisms, checks, counterexamples, revisions, admissions, heads | propose, register, record, revise, admit | one line of versions, each resting on evidence of its own policy |
| Harness campaigns | campaigns, iterations, results, confounds, decisions, heads | create, record, decide | a harness is admitted on complete evidence |
| Protected evaluation store | protected files, rows, request channel | add, read, close, clean up | committed outputs stay readable; a late answer answers no other request |
| Guidance, matrix, traces, rewards | append-only records over campaigns | record | they cite what exists |
| Cognition | profiles, cohorts, diversity assessments | record | derivations replay; whoever is not selected has a reason |
| Collaboration | sessions, history of turns and topology, terminations | request, contribute, change, terminate | a session goes on until it reaches a bound, but for one case; nothing follows its end |
| Procedures and binding | sources, compilations, outcomes, bound plans | record, compile, bind | what is bound was compiled against what is current, and can be carried out |
| Handbook, quality gate, migrations, reader | none | generate, check, read | outside the scope of state models |

The behaviours that are hard to test are listed under `hazards`, each at its line. They fall into
these groups:

- *Between clients*: the same key or id from two clients and in two modes; a client whose policy
  snapshot has become stale; a bundle imported while clients of the target write; clients whose
  clocks disagree.
- *Between admission and verification*: two derivations of one fact that have to agree on every
  legal history, because the second blocks the workspace when they do not.
- *Around a policy transition*: which policy governs the transition's own audit event; records
  made before it that vouch for something after it; requirements that combine into a policy
  nothing can replace.
- *Failures*: rollback and lost replies; an import that fails halfway; a batch that depends on
  itself; an artifact stored without its row; the protected store's worker that answers late.
- *Order*: events listed by identifier but meant by sequence; audit hashes that cover the clock;
  stages dated by clocks and numbered by the chain; results that arrive after the decision.
- *Heads*: a head that moves between a proposal and its admission; heads of merged rules that stand;
  two versions that both claim to follow one head.

## Modules and what they model

| module | code | role |
|---|---|---|
| `Coordinator` | `application/transactions/coordinator.py`, `providers/storage/database.py`, parts of `repositories.py`, `workspace_integrity.py`, `cli/kernel.py` | the detailed model of a submission |
| `DecisionLedger` | what the coordinator promises | abstract specification, implemented by `Coordinator` |
| `ClaimLifecycle` | `kernel/admission/engine.py`, `domain/claims`, `evaluation/claim_drift`, claim part of verification | evidence and claims |
| `WorkspaceExchange` | `application/workspace_exchange.py`, `providers/storage/artifacts.py` | two workspaces, their clients and an importer |
| `GovernedAdaptation` | `application/transactions/governance.py`, `application/improvement/service.py`, `application/transactions/adaptation.py` | policies and the records that authorise change |
| `PolicyLibrary` | `config/models.py`, the documents' shapes | policies and cases of the instances |
| `ResearchRuns` | `application/research_runs/service.py` | lifecycles of runs |
| `ProgressCalculations` | `domain/progress/calculations.py`, `_decimal_math.py`, `domain/identity.py` | the pure derivations, without state |
| `Progress` | `application/progress/service.py`, `application/transactions/progress.py` | the handlers |
| `ProgressReplay` | `workspace_integrity.py:1061-1400` | verification's replay, as the abstract specification `Progress` implements |
| `Rules` | `application/rules/service.py`, `domain/behavioral_rules` | behavioral rules |
| `Hypotheses` | `application/transactions/hypotheses.py` | the hypothesis loop |
| `Representations` | `application/transactions/representations.py`, `application/representations` | representational primitives |
| `ProtectedStore` | `providers/storage/protected_evaluation.py` | protected artifacts and the channel to the worker |
| `Campaigns` | `application/harness_eval/service.py`, `domain/harness_eval` | harness campaigns |
| `Collaboration` | `application/collaboration/service.py`, `domain/collaboration` | sessions of peers |
| `Trails` | `application/trails/service.py`, `domain/evidence_trails`, trail part of verification | evidence trails and their replay |
| `Procedures` | `application/procedures/service.py`, `application/transactions/procedures.py`, `domain/procedures`, `cognitive/integrity.py` | the compiler, outcomes, binding, and their replay |
| `Cognition` | `application/cognition/service.py`, `domain/cognition`, `cognitive/integrity.py` | profiles, cohorts, diversity, and their replay |
| `Records` | `append_only.py`, `domain_records.py` | what append-only tables have in common |
| `MCLedgers`, `MCDomainRecords` | | several components side by side in one instance |
| `MC*` | | instances for TLC |
| `CoordinatorProofs`, `WorkspaceExchangeProofs`, `ProgressProofs`, `GovernedAdaptationProofs`, `ResearchRunsProofs` | | theorems about the module they are named for |
| `KnowledgeProofs` | | theorems about claims, rules, hypotheses and primitives |
| `InquiryProofs` | | theorems about cognition, campaigns, trails, the protected store, sessions and procedures |
| `Recursion` | | lemmas: least elements, induction, and recursive functions over the naturals |

All modules but `Coordinator` and the artifact and channel parts of `ProtectedStore` take an
accepted submission as one step and a rejected one as none (where its record matters, in
`WorkspaceExchange`, as one). That is what `Coordinator` justifies: the lock is held from
verification to commit, and a unit of work takes effect entirely or not at all.

**Coordinator.** `db` is the committed database (transactions, audit, policies, active policy,
entities), `work` the open unit of work's copy, `owner` the client inside `BEGIN IMMEDIATE`.
`todo` and `attempt` are what it still has to decide, `replies` what it will return, `configured`
each client's policy snapshot, and `acked` the answers clients ever received (a history variable,
for the keys in `Observed`). `Submit`, `SubmitBatch` and `SubmitIntent` take the lock and verify;
`Resolve` is `submit_intent`'s look at the prior decision (`IntentReplay`, `IntentConflict`) and
its factory, whose proposal has to agree with the envelope in id, key, proposer and kind, but not with
its digest (`FactoryBodies`); `SubmitNext` decides the next submission, and `SubmitLocked` has one disjunct per branch of `_submit_locked`, in the order of the
code (`ReplayPrior`, `RejectKeyConflict`, `RejectUninitialised`, `RejectStalePolicy`,
`RejectProposalIdReuse`, `RejectEvidenceArtifact`, `RejectGovernedFailure`, `HandlerRejects`,
`HandlerAccepts`). `Commit`, `CommitReplyLost` and `Rollback` are the ways the context manager
ends, the last one standing for exceptions and crashes. `InitCommand` and `BuildRuntime` are the
CLI's. `WorkspaceValid` is verification of what is modelled; it guards `Begin`, so a workspace
that fails it admits nothing further; the invariants about `db` say that this does not happen.

**DecisionLedger.** A set of rows that only grows, in which no two clash, and answers supported by
rows. The refinement maps rows to `db.txs` and answers to the acceptances and replays clients got.

**ClaimLifecycle.** `evidence` is a set, `history` maps a claim to its versions. `ProposeClaim` and
`TransitionClaim` have the engine's checks in its order: the status graph, the version, unchanged
content, the deterministic checks the policy requires, and the short cut withdrawals take past
them. `VersionVerifies` is what verification demands of a version.

**WorkspaceExchange.** `ws` holds each side's log, active and registered policies, `store` its
artifacts, `now` the clock, `importer` the import process: its phase, the bundle it holds and the
artifacts it created and has still to copy. `StartImport` reads the bundle. `PreflightImport` looks
at the target, later: it exports it, rebuilds it in an empty workspace under the present clock when it
holds anything, and replays the bundle on top (`Preflight`); a failure of either replay ends the
import. `CommitConflicts` audits preflight conflicts in a unit of work of its own;
`TransferArtifact` copies one file at a time before the lock is taken; `CommitImport` replays every
record in one unit of work, or rolls back and removes the files the transfer created;
`ImporterCrash` ends the process between any two of these. Clients of both sides submit, put
artifacts and initialise in between.

**GovernedAdaptation.** `ProposeGovernancePolicyTransition` has the gates of `governance.py` in
order: the case is a governance case, the constitutional floor, the requirement of the *active*
policy, the ratchet on checks and human approval (`Compatible`), fresh identities for the records
it brings; it appends run, audit and measurement, registers and activates. The other actions
record runs, audits, measurements and versions, and decide successions of the evaluator.

**ResearchRuns.** `researchRuns`, `runEvents` (a set: the table has no order of its own) and
`runHeads`.
`AppendResearchRunEvent` judges the next event by the number of events and by the event *listed*
last, which is the one of the greatest identifier.

**Progress** and **ProgressReplay.** Nine variables, one action per proposal kind and one each for
the three things progress depends on (runs, evidence, a policy transition). `ProgressReplay` is
written from verification alone: it says what every row must satisfy against the rows before it,
with its own reads. `Progress` implements it. Calculations common to both in the code are common
here (`ProgressCalculations`); what the code writes twice is written twice.

**Rules.** One variable per table, `ruleHeads` for the canonical version of each rule.
`ConsolidateBehavioralRule` is the handler whole: a complete panel of independent reviewers, the
overlap of the candidate with every active head, the merge, what a predecessor's incidents and
authority demand of its successor, and then the decision, the version, the regression cases and the
head. The other actions record incidents, proposals and reviews. A rule whose version a merge
supersedes keeps its own head, as in the code; what this must not lose is the first property.

**Hypotheses.** `hypothesisLog` is the sequence of accepted stages, from which the tables are read;
`InTurn` is the order receipts have to be in. Each `Record...` and `Register...` action binds a
candidate (`BindsCandidate`), `ReviseHypothesis` starts from the head (`PriorIsHead`), and
`AdmitHypothesis` follows the revisions of the line (`AdvancesHypothesis`).

**Representations.** Versions are staged in order, evaluated in the old and in the new frame,
supported by an audit and a measurement made against one predecessor, and admitted if that
predecessor is still the head (`AdmissionLineage`). `ProjectedStatus` compares a proposal with all
that is staged, and keeps an overlapping one as a suspected duplicate.

**ProtectedStore.** Two state machines of small steps over one set of rows and files. An addition
looks up its task, puts the artifact, commits the row; between any two of these it can fail or the
process stop, and the exception handler cleans up (`CleanUp`, with `LeftOver` what it removes). The
channel has a queue each way: `SendRequest`, `ReceiveRequest`, `Respond`, `ReceiveResponse`, with
`ResponseMissing` for a timeout and `WorkerEnds` for a process that goes away. `protectedAnswers` is
a history variable: what callers were told, and what they had asked.

**Campaigns.** Tables of campaigns, iterations, results and confounds, `campaignSupport` for audits
and measurements over results, decisions with a head per campaign. `DecideHarnessCampaign`
recomputes its decision from all that is retained; `ResultsComplete` is the gate on evidence.

**Collaboration.** `peerHistory` is the accepted history of all sessions; `Rebuilt` is the state
every submission is judged by: `StateAfter` (what one record makes of it) along the history, as the
service replays it. The action guards are the service's
checks in its order; `RecordCollaborationTermination` must name the first bound reached. `CanMove`
says that some submission about a session would be accepted, with the same guards; `Stuck` is the one
case besides an inactive policy in which a session that has reached no bound has none.

**Trails.** `trailLog` is the audit chain restricted to trails: an entry has a place, a policy and a
`key`, the time and id by which transactions are ordered, which need not agree with places since
clients' clocks do not. Admission checks what a stage binds (`NodesBind`, `RelationsBind`,
`ReceiptsBind`, `Chronological`) and the graph (`ValidTrail`: roles, modalities, times, the layers
of the causal order); `Replays` is verification's reconstruction of each entry from the log alone.

**Procedures.** `procedureLog` likewise. The compiler is a set of checks over a method, each finding
errors, things unknown, or nothing; `RecordProcedureCompilation` admits what reproduces,
`BindCompiledProgressPlan` demands that the snapshots are still the newest of their family
(`Newest`) and makes the plan. What a step needs, and where retrying leads, are found in as many
rounds as the method has steps (`Ancestors`, `RecoveryFrom`). `AcceptedProceduresReplay` is the
reconstruction.

**Cognition.** `cognitionLog` likewise. `RecordCohortPlan` selects greedily from the candidates of
the profiles whose receipts it names (`Resolves`, `Prohibited`) and keeps a reason for every
candidate that is not selected; `CohortReplays` derives the same plan again from the log.

## Runs

Six runs stop at a counterexample by design; they are described under
[What the runs disagree with](#what-the-runs-disagree-with).

| run | module, cfg | checks | instance, distinct states |
|---|---|---|---|
| `coordinator` | `MCCoordinator`, `MCCoordinator.cfg` | `KeyDecidedOnce`, `PolicyHistoryReplays`, `StaleClientsAcceptNothing`, `TypeOK`, `TransactionsMatchAudit`, `ProjectionsMatchAudit`, `HistoryOnlyGrows`, `UnitOfWorkEnds` | two clients, two keys, two ids, two policies, batches of two governed proposals, an audit log of two events: 211,268 |
| `answers` | `MCCoordinator`, `MCCoordinatorAnswers.cfg` | `AckedDecisionsAreDurable`, `NoReversedAnswer`, `ImplementsLedger` | ordinary creations and intents with any digest and body, the answers on one key, a log of two events: 322,808 |
| `ledgers` | `MCLedgers`, `MCLedgers.cfg` | governance: `AdaptationTyped`, `IdentitiesNameOneRecord`, `CandidatesIndependentlyAudited`; primitives: `CanonicalChains` | evaluator versions around a transition, and primitives, one of which moves: 90,450 |
| `records` | `MCDomainRecords`, `MCDomainRecords.cfg` | claims: `HistoryFollowsGraph`, `OnlyEarlyWithdrawalsFail`; constitution: `ChecksOnlyAccumulate`, `GovernanceNeverLocks`, `ConstitutionRebuilds`; runs: `RunHistoriesHold`; rules: `ConsolidationKeepsHistory`; hypotheses: `LineageRestsOnOnePolicy`; protected store: `OutputsStayReadable`, `ChannelInStep`; campaigns: `AdmissionOnCompleteEvidence`; sessions: `SessionsEndOnce`; trails: `TrailsReplayInOrder`; procedures: `CompiledProceduresHold`; cognition: `CognitionReplays`, `SelectionsHaveReasons` | eleven components, one of which moves: 257,567 |
| `exchange` | `MCWorkspaceExchange`, `MCExchange.cfg` | `TypeOK`, `RoundTripCharacterised`, `ReimportReplays`, `VerifiedImportReproducesSource`, `ImportNeverRewrites` | source log of two, one event of the target's own, two artifacts, two clock readings: 566,766 |
| `progress` | `MCProgress`, `MCProgress.cfg` | `TypeOK`, `OfficialIsClosure`, `ImplementsReplay`, `EventTakesEffect` | 52,580: two plans, three further records |
| `withdrawal`, `clock`, `race`, `stucksession`, `firstsuccession`, `terminalrun` | | one property each | violated |

**Why the bounds are enough.**

*Coordinator.* Two clients suffice to interleave, because the database distinguishes clients only by
the policy they were configured with, and there are two policies. A conflict needs one key with two
proposals, or one id under two keys: two of each. A log of two holds an event under each of two
policies: a transition, whose own event is governed by the policy it replaces, with what comes before
or after it. Batches need two proposals for one to depend on the other. The answers need only a
decision and its retry on one key, and a log of two lets another client's event come in between.
Histories of answers, and intents whose factory may build any body of the kind they name, multiply
the states of everything else, so they are a run of their own.

*Ledgers.* `MCLedgers` puts side by side two components that share no table: the records around one
policy transition (two audits, measurements and versions, so that one can come before the transition
and one after it, or both share an identifier; two classifications of a change of the evaluator, so
that a measurement of one may be offered for the other), and primitives (a chain of three versions and a second
primitive that in the end has the same concept; four evaluations, which allows two admissions).

*Records.* The components of `MCDomainRecords` share no table and are moved by proposals of
different kinds. The variable `moving` says which one moves; the others rest in their initial states
under the policy `p`, so the state count is a sum. Identities come from common pools, whose
permutations are a sound symmetry: no component compares them but by equality. Policy `q` admits no
records (except of hypotheses and cohorts, which need two that do), so that every history may be
interrupted by a transition and resumed.

- *Claims*: four versions reach every path of the status graph up to its terminal states; two claims
  may cite the same evidence.
- *Rules*: two rules over two topics and a candidate that spans both, three decisions: each rule is
  consolidated, then one merge. Two incidents, two of the five reviewer roles.
- *Hypotheses*: a first version with checks that pass and fail, two rival revisions of it, one with
  and one without a counterexample, a revision of the successor that names a check of its
  predecessor (and must not be accepted), one resubmission. The two policies are interchangeable, so
  it starts under one. A third admitted version multiplies the states by seven and was left out.
- *Constitution*: chains of three transitions with one pool of identities for the records they bring:
  a stricter policy, a rollback to a V1 policy, a way back. It starts before `init`.
- *Runs*: one run of three events, a start, a validation and an end, in any order of their
  identifiers.
- *Protected store*: two tasks, two outputs, two requests: a late answer and one it could answer.
- *Campaigns*: two partitions, both variants, a candidate that fails one, an iteration that arrives
  late and without result, one unresolved confound.
- *Sessions*: two peers who may each answer the other, two contributions, one session with up to three
  changes of topology and one that allows none and no contribution with parents, which is how a
  session gets stuck; what ends a session is a turn on some paths and a change of topology on others.
- *Trails*: two versions of one trail over a causal graph and over one with a contradiction, one
  entry dated before an earlier one, one change of policy within the log. Nine entries are
  the evidence and two versions complete with stages and claims; a report binding, of which one
  version may have one, needs one version less.
- *Procedures*: two methods (in one a step waits for what it uses, in the other it does not), two
  snapshots of one family, two descriptions of one content, one compilation, outcome and plan.
- *Cognition*: four candidates of two policies, a second profile of an actor, one pair that is
  prohibited, and one correlated pair.

*Exchange.* A source log of two holds every kind of event beside one that is persisted; two clock
readings tell a replay in the same instant from a later one; two artifacts let the transfer be
interrupted, by a client or by a crash, between its copies.

*Progress.* Two plans make one supersede the other; a chain of two subtasks is the smallest
dependency; two times make clocks disagree. `CONSTRAINT Bounds` keeps three records beside runs and
plans, a second budget only for a plan without events (what a second budget changes is which one a
checkpoint names), and goes on only from runs the validator finally validates and records the
model brought: records of other proposers are tried as the last step of a history. Two bodies of plans cannot
be admitted (a cycle, weights that do not sum to one).

**Deadlock.** The coordinator's runs leave the check on, though it says little there: an open unit of
work can always roll back, and `init` can always repeat itself. That a workspace still verifies, and
that a unit of work ends, are properties of their own (`TransactionsMatchAudit` and its siblings,
`UnitOfWorkEnds`). The other passing configurations say `CHECK_DEADLOCK FALSE`, since their records
only grow and the finite pools of identifiers run out; so do those of the runs that stop at a
counterexample, for the same reason.

**Fairness.** Only `UnitOfWorkEnds` needs any: weak fairness of `Resolve`, of `SubmitNext` and of
`Commit` (`FairSpec`). The context manager of `database.py:63-92` ends the unit of work it opened, and
the code under the lock runs in one thread and waits for nothing, so a step that stays enabled is
taken. Nothing fair is said of clients, of clocks or of the importer. What the property can find
wrong is a pending submission that no branch decides.

**Mutants.** Beside a definition there may be a variant of it that a plausible slip would have
produced, with a comment that begins "Mutant of". Substituting it makes the property that
`PROJECT.json` names fail on the run's own bounds. They show that the bounds reach the case. A property
that joins several claims about one component has a variant for each.

## What the runs disagree with

Each is a property that a document, a comment or a test of the repository states, and that the code
does not keep.

1. `withdrawal` (`kernel/admission/engine.py:197`). A PROPOSED claim may cite evidence that does not
   exist. Withdrawing it with the same links is accepted without looking at them, and verification
   then fails on the WITHDRAWN version: everything submitted from then on is refused. README.md:182
   speaks of stopping "the affected operation". `OnlyEarlyWithdrawalsFail` (checked and proved) says
   that this is the only way.
2. `clock` (`application/transactions/coordinator.py:455`). A replayed record has to reproduce the
   retained audit hash, which covers the time the event was appended at, and every import replays in a
   temporary workspace under its own clock (`workspace_exchange.py:384-421`). In the trace the source
   accepts one policy transition, the clock ticks, and the import of its export into an empty
   workspace fails, with nothing else wrong: the instance has no artifacts and no stale client.
   SECURITY.md:124 says "Import is intended for an empty workspace or an exact idempotent replay."
   The exact replay fails the same way one tick later: the record step on the target itself would
   replay everything whatever the clock says, but the preflight has to rebuild the target first.
   `ReimportReplays` states both halves, and `RoundTripCharacterised` exactly which exports rebuild in
   an empty workspace: beside the time, audited conflicts, rejections of stale clients and rejections
   for missing artifacts are not reproducible.
3. `race` (`application/workspace_exchange.py:472`). Artifacts are put before the lock is taken and
   unlinked when the import fails; a client of the target may have come to depend on one. Its
   accepted evidence is left without an artifact.
4. `firstsuccession` (`application/improvement/service.py:620`). A succession must name the active
   evaluator, and only a succession makes one active: none is ever admitted. The integration test
   sets the head by hand.
5. `terminalrun` (`application/research_runs/service.py:165`). Events are listed by identifier, and
   the last one listed decides whether a run is over. A terminal event with a small identifier does
   not end its run.
6. `stucksession` (`application/collaboration/service.py:226`). A request may follow up any known
   contribution, one of the greatest depth included. Its answer must retain that parent
   (`domain/collaboration/engine.py:147-151`) and is refused as too deep (line 164); no other request
   is accepted while it waits (`service.py:209-213`); and in a session that allows no changes of
   topology there is nothing else to submit and no bound is reached. The session stays open for ever,
   though docs/adr/0002:123-124 says "collaboration terminates deterministically at every configured
   bound". `SessionsEndOnce` (checked and proved) says that this, and a change of policy
   (`service.py:179`), are the only ways in which a session that has reached no bound cannot go on.

Observed and left as notes, because no document promises otherwise or no property would say more
than the code: `docs/long-horizon-execution.md` counts an event "that has retained evidence", while
the evidence an event names is only checked not to be empty (`domain/progress/models.py`); a
completion may name a superseded plan, and decisions on one plan may contradict one another; a run's
SUCCEEDED event does not depend on a completion decision; progress events are accepted after a run
ended; an event dated in the future blocks the plan until the clocks catch up; the guard against
false finishes is, for claimed finishes, implied by the one that a claim must be a success; `init`
can install a V2 policy that no admissible proposal can replace (`stuck` in `PolicyLibrary`); several
root versions of the evaluator are legal, while verification of a first succession wants a unique
one (`workspace_integrity.py:1905`).

The same holds of the components in `records`; these are the observations a maintainer should look at,
the first two because admission accepts there what verification does not:

- *Procedures.* Verification keeps one description per content, that of the last artifact accepted
  (`cognitive/integrity.py:524`), and compares the outcome's reference with it (line 803); admission
  accepts any retained reference (`application/transactions/procedures.py:291`). An outcome that
  refers to content recorded twice under different media types is accepted and blocks the workspace,
  though the design asks for retained evidence only
  (`docs/superpowers/specs/2026-08-23-governed-cognitive-cohorts-procedure-compilation-design.md:728`)
  and artifacts are stored by content (`tests/integration/storage/test_artifacts.py:25`). `CompiledProceduresHold`
  claims the replay for outcomes whose content was described once (`DescribedOnceReplays`).
- *Trails.* Verification orders stages by clocks as well as by the chain. Admission of a stage does
  not look at clocks, so a stage dated before its sources is accepted and does not replay
  (`docs/evidence-trails.md:58-61` says it fails closed). `TrailsReplayInOrder` claims the replay for
  clocks that agree. A claim that moves on without new stages leaves its trail without a next
  version, and evidence accepted under a former policy can enter no new trail.
- *Hypotheses.* Only the first version of a hypothesis may be proposed, and a revision needs its prior
  version admitted (`hypotheses.py:1629-1650`): a first version that fails its checks can neither be
  admitted nor revised.
- *Campaigns.* An iteration that never gets a result, a repeated or skipped index, and an unresolved
  confound each leave a campaign that cannot be admitted any more; a later decision replaces the head
  of an earlier one.
- *Collaboration.* A share of contributions below one ends a session with its first contribution;
  identifiers are unique in the table, but checked per session; exhausted resources end nothing.
- *Procedures, identities.* Step ids are unique in the table, so a compiled procedure can be bound once.
- *Cognition.* The greedy selection may miss a cohort that exists; the plan's id derives from the
  request's, so a request is planned once.
- *Protected store.* Two stores on one root would race; the code expects one.

## Proofs

Every theorem holds for all values of the constants that satisfy the assumptions named in the
component's module: any number of clients, actors, records, identities and policies, and any length
of history. Every safety property a passing run checks is stated by a theorem; the run shows it on a
small instance and, with its mutants, that the code could break it. The assumptions on pools of
proposals (`RulePoolsAssumption`, `TrailAssumption`, `ProcedureAssumption` and the like) say what the
records' own validation says: identifiers are unique, what a record names has its shape, graphs and
methods are finite.

All proofs have one shape: an inductive invariant, a lemma per action that it is kept, a temporal step
at the end. What is replayed record by record is written as a recursive function in the models, and
`Recursion` has what proofs about it need: least and greatest elements, induction (`EveryNumber`),
and that a function defined by recursion over `0 .. k` exists, runs through the definition and stays
in any set the steps stay in (`RunExists`). These are stated with sets and functions in place of
operators, and rest on `WFMin` and `NatLessThanWellFounded` of the library.

**`CoordinatorProofs`.** `TypeCorrect`; `DecidedOnce`, `AuditAgreement`, `AnswersDurable`,
`AppendOnly`, `Refinement`. Keys are decided once in the committed database only because they are in
the working copy, so the invariant `IInv` speaks of both: each is consistent (keys and ids unique,
transactions and audit in agreement), the working copy extends the committed database, the pending
replies are backed by the working copy, nobody has pending replies while the lock is free, and the
acknowledged answers are backed. The audit agreement is proved for the log as it grows: one lemma
for events without a transaction (`UnstoredKeepsConsistent`), one for decisions that are stored
(`StoredKeepsConsistent`), and each branch of `_submit_locked` is an instance of one. `Refinement`
shows that every step grows the ledger or leaves it, and adds supported answers only.

`PolicyReplays`, `ProjectionsReplay`, `StaleAcceptNothing` and `AnswersNotReversed` rest on a second
invariant over the log, `HistoryInv`. Committed database and working copy each carry a history that
verification replays (`HistoryKept`: the policy derived from the accepted transitions up to an event
is the one the event names, and what is projected is what was accepted), and every answer a client
has, or will be given, is *explained* by the database it came from. The branch that needs care is the
accepted transition, whose own event is governed by the policy it replaces.

**`WorkspaceExchangeProofs`.** `WorkspacesTyped`, `NothingRewritten`, `VerifiedImportsReproduce`,
`ReimportsReplay`, `RoundTripsCharacterised`. `ExchangeInv` says that both workspaces are `Sound`
(nothing without a policy, every event under a registered one) and that an import under way holds the
export of a workspace that was sound when it was read, whatever its clients did since. A replay is a
recursive function over the bundle, so what it leaves is shown event by event: it keeps the log it
starts from, agrees with the exporter's event or ends the import, and an event that is already there
is passed over. The characterisation needs both directions: from a reconstructible export the
workspace is rebuilt to its last stored event, and an export that is not fails at the first event
that differs. `ReimportsReplay` uses it twice: the preflight's clone is such a rebuilding of the target,
and a target that exports to a bundle is reconstructible exactly when the bundle's workspace is
(`SharedReconstructible`).

**`GovernedAdaptationProofs`.** `TypeCorrect`, `ChainRebuilds`, `AuthorisedBefore`,
`ConstitutionRebuilt` (the two together), `ChecksAccumulate`, `NeverLocks`, `OneRecord`,
`IndependentlyAudited`. `PolicyInv` describes the chain of transitions; what accumulates, what
authorised and what can be left are read off it. `NeverLocks` assumes `ProposalsAtHand`: that the
constants hold the proposals one may write (a human approver beside another proposer, a sound case of
the highest level for each grounding, a compatible candidate for each policy). It then shows a
self-governing policy is replaced by self-governing ones only, and exhibits the proposal that leaves
one. Where nobody can write a proposal, nothing could be shown; what is shown is that the safeguards
are not what stands in the way.

**`ResearchRunsProofs`.** `SuccessValidated`, `HeadsEndHistories`, `HistoriesHold` (both), with
`ValidatorInv` (an accepted validation is the declared validator's) and facts about the cardinality of
a run's events.

**`ProgressProofs`.** `TypeCorrect`, `EventsTakeEffect`, `Verifiable`, `OfficialLargest`. The invariant
says that a run's plans have a highest one, that identifiers and versions name one plan, that events
belong to plans of their runs, and (`HeadsInv`) that the head of a run is an event of the highest plan
any event is of, later than all others of that plan: a new event of an older plan is refused, one of
the head's plan is later than the head, and one of a newer plan is the first of its plan. `Verifiable`
is the refinement: each action of the handlers is a step of verification's replay. The two derive
versions, heads and budgets from different reads, which `SameSelections` and the `Replays...` lemmas
show equal under the invariant. `OfficialLargest` is about the calculation alone: walking the subtasks
of a plan in the order they were sorted in, the official ones are always closed under dependence, and
contain every such set among the validated ones walked past. `BodiesAssumption` says that plans are
finite.

**`KnowledgeProofs`.**

- *Claims*: `GraphWalk`, `AdmittedStaysSupported`. `ClaimInv` is type correctness with both
  properties; that a version is supported for ever needs that evidence is only ever added
  (`EvidenceKeepsVerification`), and that an admitted withdrawal repeats the links and assumptions of
  a supported version needs the graph.
- *Rules*: `RuleHistoryKept`. `RuleInv`: identifiers are unique, each head is the latest canonical
  version of its rule (`HeadsAreLatest`), a later version has at least the incidents and at most the
  authority of an earlier one (`LaterKeepsMore`), and heads that overlap are merged. A merge writes a
  version of one rule while the heads of others stand, which is why the head must be compared with
  all versions and not only with its predecessor.
- *Hypotheses*: `LineagesHold`. `HypothesisInv`: numbers are unique per hypothesis, every version but
  the first was reached by a revision of an admitted one, at most the last is not admitted
  (`OnlyLastAwaits`), and evidence carries its version's policy (`EvidenceBound`).
- *Primitives*: `PrimitivesCanonical`. `PrimitiveInv`: predecessors are staged before, admitted
  versions are at or below their primitive's head and each replaced one version
  (`AdmissionsBelowHeads`, `ReplacedOnce`), and of two primitives' versions of one concept the one
  staged later is marked (`DuplicatesMarked`): a mark set when a version is staged must still protect when it is
  admitted.

**`InquiryProofs`.**

- *Cognition*: `CognitionRebuilds` (a log only grows at its end, so what a record resolved to stays
  what it resolves to) and `CohortsHaveReasons`. For the latter, `Justified` says of the greedy
  selection after any number of candidates: those considered rank before those left, no two members
  are prohibited to each other, and whoever was passed over has its reason.
- *Campaigns*: `AdmissionsRestOnEvidence`, an action property that follows from the gates of a decision.
- *Trails*: `TrailsReplay`. `TrailInv`: each entry's references and bindings hold where it stands
  (`StagesRefer`, `StagesBind`), the head is the log's last version (`HeadsFollow`) and sources come
  first. With clocks that agree the two orders of verification are one.
- *Protected store*: `OutputsReadable`, `AnswersInStep`. `ProtectedInv`: at most one message is on its
  way, the awaited request is about the task that was asked, and a row read at some time is still the
  row (`OneInFlight`, `MessagesInv`); a committed digest has its file, and so has one about to be
  committed (`StoreInv`).
- *Sessions*: `SessionsEnd`. `SessionInv` speaks of the state rebuilt from the history: a session that
  goes on is `Going` (its topology within the session, the waiting request the next peer's), and a
  terminated one is still at the reason of its end. That such a session can be moved exactly when its
  policy is active and it is not `Stuck` takes a submission for each case: a request, an answer of a
  kind the session knows that keeps its request's parent and uses nothing, or a change of topology.
- *Procedures*: `ProceduresHold`. `ProcedureInv` keeps for each entry what verification recomputes
  (`EntryHolds`). That a bound plan can be carried out is about the compiler: `Ancestors` finds the
  least closed set of steps within as many rounds as there are steps (a round that adds none ends it,
  and a method has only so many to add), so the check that no step needs itself leaves, among the
  steps not done, one with the fewest ancestors, which is ready; and the check on inputs makes what
  it uses present by then.

**Only model-checked.** `UnitOfWorkEnds`: liveness under fairness is beyond the prover, and so is
ENABLED. The properties that runs refute (see above) are not theorems, of course; the findings are
bounded from the other side by `AdmittedStaysSupported` (the only versions that fail verification are
early withdrawals) and `RoundTripsCharacterised`. That TLC's instances satisfy the assumptions is
checked on every run. The properties of the runs are proved of the specifications of the components
(`RuleSpec`, `TrailSpec`, ...); that `MCLedgers` and `MCDomainRecords` move one component at a time is a
matter of the instance and adds no behaviour to any of them.

## Abstractions

- *One submission, one step* outside `Coordinator`, as justified there.
- *Verification* in each module is the part over that module's state. A workspace is valid when all
  parts are.
- *Coordinator*: a proposal creates a named entity, moves the policy, or is invalid. Governed
  proposals are the ones that carry a fingerprint. Handlers reject for the reasons their bodies
  allow and, for evidence and governed proposals, for reasons outside the model at any time
  (`RejectEvidenceArtifact`, `RejectGovernedFailure`). `MaxAudit` and `MaxBatch` bound logs and batches.
- *Claims*: content is one value, links name evidence and a span; statuses whose proof the engine
  does not implement stay out of reach as in the code. `MaxVersions` bounds histories.
- *Exchange*: the hash of an event is the log up to it (no collisions); the clock is coarse; a
  proposal's stable identity is its key and id. Looking for one artifact and copying it is one step: a
  client's own copy exactly in between would be noted as created by the import. The preflight writes to
  its temporary workspace only, so its reads of the target are one step. `MaxSource`, `MaxTarget` and
  `MaxTime` are bounds.
- *Governed adaptation*: what is checked of a proposal against itself alone is the flag `sound` of
  its case; records embedded in a transition are a bundle of identifiers; submitted records name the
  active policy, as the handlers demand; of evaluator decisions the supported ones are modelled, and
  measurements of evaluator changes only. A measurement keeps the classification it was proposed with,
  which a version's proposal has to repeat. Which evaluator a version is of (an identifier is of one),
  whether a rollback is present, and the evidence the gates of a succession name are their authors' free
  choice and are left out: the models let through what some choice lets through. Inputs that name a
  record that is not there are rejections and not enumerated. `MaxTransitions` is a bound.
- *Research runs*: a policy that admits them; PAUSED stands for RESUMED too, FAILED for CANCELLED.
- *Progress*: two statuses, one that counts and one that does not; weights are "balanced" or not; a
  budget is used up or not; policies' names are kept where they are read again; actors are
  independent when neither identity nor model configuration is shared, and each human's
  configuration is their own. Prefix `Case` collects what a completion reports.
- *Rules*: a text is a scope, a meaning and a wording; semantic versions are numbers, authorities
  ranks; actors are independent.
- *Hypotheses*: content is a value, a simulation is whether the registry reproduces it, a check its
  outcome; audit and measurement of an admission are made for it. `MaxRenewals` bounds
  resubmissions.
- *Primitives*: concepts, meanings and operations are names. The chain of receipts an admission demands
  (`representations.py:1332-1350`: the candidate before both evaluations, which are sorted and so come
  in either order, both before the audit, the audit before the measurement) holds by the order of
  the actions: an evaluation needs its candidate, support needs both evaluations, and audit and
  measurement are one step. `MaxEvaluated` and `MaxSupported` are bounds.
- *Protected store*: an output is its digest; files are replaced atomically. `MaxRequests` stands for
  10^20 - 1.
- *Campaigns*: one metric, of which more is better; what a variant's receipts and budgets bind is one
  flag. `MaxCampaignSupport` is a bound.
- *Sessions*: one resource; `MaxParents` bounds parents. `CanMove` supposes that an unused identifier is
  at hand.
- *Trails*: one trail over one claim; time and id of a transaction are one number, so the clock gives
  a place in the order. A binding is ordered against nothing and takes the next time.
  `MaxStages`, `MaxClaimVersions`, `MaxBackdated`, `MaxTrailMoves` and `MaxTrailEntries` are bounds.
- *Procedures*: three catalogs that are found alike are one record; hashes are the records
  they stand for. `MaxSources` and `MaxPolicyMoves` are bounds.
- *Cognition*: actors are numbers in the order of their ids; costs and scores are left out where no
  choice depends on them. `MaxProfiles` and `MaxCognitionMoves` are bounds.

## What is not modelled

Each component has a note in `PROJECT.json`. Left out for good: the handbook, the quality gate,
migrations, the CLI's parsing and output, the cognitive service and reader (no state of their own, or
layout); row encodings, the schema, canonical JSON and hashing; `EvidenceTrailVersionBuilder`, which
only prepares a proposal (it cannot prepare a trail with an opposing node, `service.py:124-441`); the
vertical slices under `examples`, which call the API. Configurations, guidance, the evaluation matrix,
traces and rewards are appended by comparing a proposal with records that never change: no
order of steps matters that the modelled components do not have.

Verification repeats the handlers' own code for hypotheses, primitives, campaigns and sessions; it is
modelled apart where it is written apart (claims, progress, rules' heads, trails, procedures,
cohorts).

## Plan

Done: the coordinator with its abstract ledger; claims; the exchange; governance and improvement;
research runs; progress with its replay; rules, hypotheses, primitives, the protected store,
campaigns, sessions, trails, procedures and cohorts; and, for each of them, its safety properties as
theorems.

Next, in this order:

1. Abstract specifications proved as refinements where so far an invariant says the same: the
   protected channel as a channel of one request and one answer, and the exchange as a copy of a prefix
   of the exporter's log.
2. The audit chain's own hashes (`kernel/audit`), which the coordinator takes as the order of events, and
   their recomputation by verification.
3. The evidence gates of harness campaigns that are one flag now (receipts and budgets of variants), to
   make that component complete.
