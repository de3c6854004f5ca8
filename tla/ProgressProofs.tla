----------------------------- MODULE ProgressProofs -----------------------------
(***************************************************************************)
(* What holds of the progress ledger for any number of runs, plans, events, *)
(* actors and policies.                                                     *)
(***************************************************************************)
EXTENDS Progress, Recursion, FiniteSetTheorems

(* The inductive invariant.  Each run with plans has a highest one; versions *)
(* and identifiers name one plan, identifiers one event; an event belongs to *)
(* a plan of its run; and the head of a run is an event of the highest plan  *)
(* any event is of, later than all others of that plan.  A plan's parts are  *)
(* those of one body.                                                        *)
Highest ==
  \A r \in RunIds :
    PlansOf(plans, r) # {} =>
      \E p \in PlansOf(plans, r) : \A q \in PlansOf(plans, r) : q.version <= p.version
Named ==
  /\ \A p, q \in plans : p.id = q.id \/ (p.run = q.run /\ p.version = q.version) => p = q
  /\ \A d, e \in events : d.id = e.id => d = e
Belongs == \A e \in events : \E p \in plans : p.id = e.plan /\ p.run = e.run
Heads(e, h) ==
  /\ heads[e.run] = {h.id} /\ h.run = e.run
  /\ \A p, q \in plans :
       p.id = e.plan /\ q.id = h.plan => p.version <= q.version /\ (p = q => e = h \/ Later(h, e))
HeadsInv == \A e \in events : \E h \in events : Heads(e, h)
Declared == \A p \in plans : \E b \in Bodies : p.needs = b.needs /\ p.validator = b.validator
IInv == TypeOK /\ Highest /\ Named /\ Belongs /\ HeadsInv /\ Declared

-----------------------------------------------------------------------------
(* Facts about order.                                                       *)

LEMMA LaterOrders ==
  ASSUME NEW S, \A x \in S : x.at \in Nat /\ x.id \in Nat
  PROVE  /\ \A x, y, z \in S : Later(x, y) /\ Later(y, z) => Later(x, z)
         /\ \A x, y \in S : ~(Later(x, y) /\ Later(y, x))
BY DEF Later

(* The latest of a set is the one later than all others, if there is one.   *)
LEMMA LatestIsLater ==
  ASSUME NEW S, \A x \in S : x.at \in Nat /\ x.id \in Nat,
         NEW l \in S, \A x \in S \ {l} : Later(l, x)
  PROVE  LatestOf(S) = l
<1>1. LatestOf(S) \in S /\ \A x \in S \ {LatestOf(S)} : Later(LatestOf(S), x)
  BY DEF LatestOf
<1> QED
  BY <1>1, LaterOrders

LEMMA CurrentIsHighest ==
  ASSUME Highest, NEW r \in RunIds, PlansOf(plans, r) # {}
  PROVE  /\ CurrentPlan(plans, r) \in PlansOf(plans, r)
         /\ \A q \in PlansOf(plans, r) : q.version <= CurrentPlan(plans, r).version
BY DEF Highest, CurrentPlan

(* An event that advances the head is later than every event of its plan.   *)
LEMMA NewEventIsLatest ==
  ASSUME IInv, NEW id \in EventIds, NEW run \in runs, NEW plan \in plans,
         NEW subtask \in Subtasks(plan), NEW status \in Statuses, NEW at \in Times,
         NEW proposer \in Actors,
         NEW event,
         event.id = id, event.at = at, event.plan = plan.id, plan.run = run.id,
         AdvancesHead(event, plan, plans, HeadEvents(run.id))
  PROVE  /\ \A q \in plans : q.run = run.id => q.version <= plan.version
         /\ \A e \in events : e.plan = plan.id => e.run = run.id /\ Later(event, e)
<1>1. run.id \in RunIds
  BY DEF IInv, TypeOK
<1>2. plan = CurrentPlan(plans, run.id)
  BY DEF AdvancesHead, IsCurrent
<1>3. \A q \in plans : q.run = run.id => q.version <= plan.version
  BY <1>1, <1>2, CurrentIsHighest DEF IInv, PlansOf
<1>4. ASSUME NEW e \in events, e.plan = plan.id
      PROVE  e.run = run.id /\ Later(event, e)
  <2>1. e.run = run.id
    BY <1>4 DEF IInv, Belongs, Named
  <2>2. PICK h \in events : Heads(e, h)
    BY DEF IInv, HeadsInv
  <2>3. h \in HeadEvents(run.id)
    BY <2>1, <2>2 DEF Heads, HeadEvents
  <2>4. PICK q \in plans : q.id = h.plan /\ q.run = h.run
    BY DEF IInv, Belongs
  <2>5. q.version <= plan.version /\ plan.version <= q.version
    BY <1>3, <1>4, <2>1, <2>2, <2>4 DEF Heads
  <2>6. q = plan
    BY <2>1, <2>2, <2>4, <2>5 DEF Heads, IInv, Named, TypeOK
  <2>7. Later(event, h)
    BY <2>3, <2>4, <2>6 DEF AdvancesHead
  <2>8. e = h \/ Later(h, e)
    BY <1>4, <2>2, <2>4, <2>6 DEF Heads
  <2>9. \A x \in {event, h, e} : x.at \in Nat /\ x.id \in Nat
    BY OrderAssumption DEF IInv, TypeOK
  <2> QED
    BY <2>1, <2>7, <2>8, <2>9 DEF Later
<1> QED
  BY <1>3, <1>4

-----------------------------------------------------------------------------
(* The invariant is inductive.                                              *)

LEMMA InitHolds == Init => IInv
BY DEF Init, IInv, TypeOK, Ids, Highest, Named, Belongs, HeadsInv, Declared, PlansOf

(* Only plans, events and heads matter beyond their types.                  *)
LEMMA TablesUntouched ==
  ASSUME IInv, TypeOK', UNCHANGED <<plans, events, heads>>
  PROVE  IInv'
BY DEF IInv, Highest, Named, Belongs, HeadsInv, Heads, Declared, PlansOf

LEMMA PlanKeeps ==
  ASSUME IInv, NEW id \in PlanIds, NEW run \in RunIds, NEW body \in Bodies, NEW proposer \in Actors,
         RecordProgressPlan(id, run, body, proposer)
  PROVE  IInv'
<1> DEFINE plan == [id |-> id, run |-> run, version |-> NextVersion(run),
                    needs |-> body.needs, validator |-> body.validator, balanced |-> body.balanced]
<1>1. /\ id \notin Ids(plans)
      /\ plans' = plans \cup {plan}
      /\ UNCHANGED <<active, runs, events, heads, budgets, checkpoints, completions, evidence>>
  BY DEF RecordProgressPlan
<1>2. /\ NextVersion(run) \in Nat \ {0}
      /\ \A q \in plans : q.run = run => q.version < NextVersion(run)
  <2>1. CASE PlansOf(plans, run) = {}
    BY <2>1 DEF NextVersion, PlansOf
  <2>2. CASE PlansOf(plans, run) # {}
    <3>1. CurrentPlan(plans, run) \in plans
      BY <2>2, CurrentIsHighest DEF IInv, PlansOf
    <3>2. CurrentPlan(plans, run).version \in Nat
      BY <3>1 DEF IInv, TypeOK
    <3>3. \A q \in plans : q.run = run => q.version \in Nat /\ q.version <= CurrentPlan(plans, run).version
      BY <2>2, CurrentIsHighest DEF IInv, TypeOK, PlansOf
    <3> QED
      BY <2>2, <3>2, <3>3 DEF NextVersion
  <2> QED
    BY <2>1, <2>2
<1>3. TypeOK'
  <2>1. body.balanced \in BOOLEAN
    BY BodiesAssumption
  <2>2. plan \in [id: PlanIds, run: RunIds, version: Nat \ {0},
                  needs: {b.needs : b \in Bodies}, validator: {b.validator : b \in Bodies},
                  balanced: BOOLEAN]
    BY <1>2, <2>1
  <2> QED
    BY <1>1, <2>2 DEF IInv, TypeOK, Ids
<1>4. Highest'
  <2> SUFFICES ASSUME NEW r \in RunIds, PlansOf(plans', r) # {}
      PROVE \E p \in PlansOf(plans', r) : \A q \in PlansOf(plans', r) : q.version <= p.version
    BY DEF Highest
  <2>1. CASE r = run
    <3>1. plan \in PlansOf(plans', r)
      BY <1>1, <2>1 DEF PlansOf
    <3>2. \A q \in PlansOf(plans', r) : q.version <= plan.version
      BY <1>1, <1>2, <2>1 DEF PlansOf, IInv, TypeOK
    <3> QED
      BY <3>1, <3>2
  <2>2. CASE r # run
    <3>1. PlansOf(plans', r) = PlansOf(plans, r)
      BY <1>1, <2>2 DEF PlansOf
    <3> QED
      BY <3>1 DEF IInv, Highest
  <2> QED
    BY <2>1, <2>2
<1>5. \A q \in plans : q.id # plan.id /\ ~(q.run = plan.run /\ q.version = plan.version)
  BY <1>1, <1>2 DEF Ids, IInv, TypeOK
<1>6. Named'
  BY <1>1, <1>5 DEF IInv, Named
<1>7. Belongs'
  BY <1>1 DEF IInv, Belongs
<1>8. HeadsInv'
  <2> SUFFICES ASSUME NEW e \in events
      PROVE \E h \in events :
              /\ heads[e.run] = {h.id} /\ h.run = e.run
              /\ \A p, q \in plans' :
                   p.id = e.plan /\ q.id = h.plan =>
                     p.version <= q.version /\ (p = q => e = h \/ Later(h, e))
    BY <1>1 DEF HeadsInv, Heads, Later
  <2>1. PICK h \in events : Heads(e, h)
    BY DEF IInv, HeadsInv
  <2>2. plan.id # e.plan /\ plan.id # h.plan
    BY <1>5 DEF IInv, Belongs
  <2> QED
    BY <1>1, <2>1, <2>2 DEF Heads
<1>9. Declared'
  BY <1>1 DEF IInv, Declared
<1> QED
  BY <1>3, <1>4, <1>6, <1>7, <1>8, <1>9 DEF IInv

LEMMA EventKeeps ==
  ASSUME IInv, NEW id \in EventIds, NEW run \in runs, NEW plan \in plans,
         NEW subtask \in Subtasks(plan), NEW status \in Statuses, NEW at \in Times,
         NEW proposer \in Actors,
         AppendProgressEvent(id, run, plan, subtask, status, at, proposer)
  PROVE  IInv'
<1> DEFINE event == [id |-> id, run |-> run.id, plan |-> plan.id, subtask |-> subtask,
                     status |-> status, validator |-> plan.validator[subtask],
                     proposer |-> proposer, at |-> at]
<1>1. /\ id \notin Ids(events) /\ plan.run = run.id
      /\ AdvancesHead(event, plan, plans, HeadEvents(run.id))
      /\ events' = events \cup {event}
      /\ heads' = [heads EXCEPT ![run.id] = {id}]
      /\ UNCHANGED <<active, runs, plans, budgets, checkpoints, completions, evidence>>
  BY DEF AppendProgressEvent, Lineage
<1>2. run.id \in RunIds /\ plan.id \in PlanIds
  BY DEF IInv, TypeOK
<1>3. /\ \A q \in plans : q.run = run.id => q.version <= plan.version
      /\ \A e \in events : e.plan = plan.id => e.run = run.id /\ Later(event, e)
  <2> HIDE DEF event
  <2>1. event.id = id /\ event.at = at /\ event.plan = plan.id
    BY DEF event
  <2> QED
    BY <1>1, <2>1, NewEventIsLatest
<1>4. TypeOK'
  <2>1. PICK b \in Bodies : plan.needs = b.needs /\ plan.validator = b.validator
    BY DEF IInv, Declared
  <2>2. subtask \in Nat /\ plan.validator[subtask] \in Actors
    BY <2>1, BodiesAssumption DEF Subtasks
  <2>3. event \in [id: EventIds, run: RunIds, plan: PlanIds, subtask: Nat, status: Statuses,
                   validator: Actors, proposer: Actors, at: Times]
    BY <1>2, <2>2
  <2>4. heads' \in [RunIds -> SUBSET EventIds]
    BY <1>1 DEF IInv, TypeOK
  <2> QED
    BY <1>1, <2>3, <2>4 DEF IInv, TypeOK, Ids
<1>5. Highest'
  BY <1>1 DEF IInv, Highest
<1>6. Named'
  BY <1>1 DEF IInv, Named, Ids
<1>7. Belongs'
  BY <1>1 DEF IInv, Belongs
<1>8. HeadsInv'
  <2>1. event \in events' /\ heads'[run.id] = {event.id}
    BY <1>1, <1>2 DEF IInv, TypeOK
  <2> SUFFICES ASSUME NEW e \in events'
      PROVE \E h \in events' :
              /\ heads'[e.run] = {h.id} /\ h.run = e.run
              /\ \A p, q \in plans :
                   p.id = e.plan /\ q.id = h.plan =>
                     p.version <= q.version /\ (p = q => e = h \/ Later(h, e))
    BY <1>1, ZenonT(30) DEF HeadsInv, Heads, Later
  <2>2. CASE e.run # run.id
    <3>1. e \in events /\ heads'[e.run] = heads[e.run]
      BY <1>1, <2>2 DEF IInv, TypeOK
    <3>2. PICK h \in events : Heads(e, h)
      BY <3>1 DEF IInv, HeadsInv
    <3> QED
      BY <1>1, <3>1, <3>2 DEF Heads
  <2>3. CASE e.run = run.id
    <3>1. ASSUME NEW p \in plans, NEW q \in plans, p.id = e.plan, q.id = event.plan
          PROVE  p.version <= q.version /\ (p = q => e = event \/ Later(event, e))
      <4>1. q = plan
        BY <3>1 DEF IInv, Named
      <4>2. CASE e = event
        <5>1. p = plan
          BY <3>1, <4>2 DEF IInv, Named
        <5> QED
          BY <4>1, <4>2, <5>1, <1>3, <1>1
      <4>3. CASE e # event
        <5>1. e \in events
          BY <1>1, <4>3
        <5>2. p.run = run.id
          BY <2>3, <3>1, <5>1 DEF IInv, Belongs, Named
        <5> QED
          BY <1>3, <3>1, <4>1, <5>1, <5>2
      <4> QED
        BY <4>2, <4>3
    <3> QED
      BY <2>1, <2>3, <3>1
  <2> QED
    BY <2>2, <2>3
<1>9. Declared'
  BY <1>1 DEF IInv, Declared
<1> QED
  BY <1>4, <1>5, <1>6, <1>7, <1>8, <1>9 DEF IInv

LEMMA StepKeeps == IInv /\ [Next]_vars => IInv'
<1> SUFFICES ASSUME IInv, [Next]_vars
             PROVE  IInv'
  OBVIOUS
<1> USE DEF IInv
<1>1. CASE UNCHANGED vars
  BY <1>1, TablesUntouched DEF vars, TypeOK, Ids
<1>2. ASSUME NEW p \in Policies, SwitchPolicy(p)
      PROVE  IInv'
  BY <1>2, TablesUntouched DEF SwitchPolicy, TypeOK, Ids
<1>3. ASSUME NEW e \in Evidence, AddEvidence(e)
      PROVE  IInv'
  BY <1>3, TablesUntouched DEF AddEvidence, TypeOK, Ids
<1>4. ASSUME NEW id \in RunIds, NEW creator \in Actors, NEW validator \in Actors,
             CreateResearchRun(id, creator, validator)
      PROVE  IInv'
  BY <1>4, TablesUntouched DEF CreateResearchRun, TypeOK, Ids
<1>5. ASSUME NEW id \in PlanIds, NEW run \in RunIds, NEW body \in Bodies, NEW proposer \in Actors,
             RecordProgressPlan(id, run, body, proposer)
      PROVE  IInv'
  BY <1>5, PlanKeeps
<1>6. ASSUME NEW id \in EventIds, NEW run \in runs, NEW plan \in plans,
             NEW subtask \in Subtasks(plan), NEW status \in Statuses, NEW at \in Times,
             NEW proposer \in Actors,
             AppendProgressEvent(id, run, plan, subtask, status, at, proposer)
      PROVE  IInv'
  BY <1>6, EventKeeps
<1>7. ASSUME NEW id \in BudgetIds, NEW plan \in plans, NEW unused \in BOOLEAN, NEW at \in Times,
             NEW proposer \in Actors, RecordRunBudget(id, plan, unused, at, proposer)
      PROVE  IInv'
  BY <1>7, TablesUntouched DEF RecordRunBudget, TypeOK, Ids
<1>8. ASSUME NEW id \in CheckpointIds, NEW plan \in plans, NEW proposer \in Actors,
             RecordRunCheckpoint(id, plan, proposer)
      PROVE  IInv'
  BY <1>8, TablesUntouched DEF RecordRunCheckpoint, TypeOK, Ids
<1>9. ASSUME NEW id \in CompletionIds, NEW run \in runs, NEW plan \in plans,
             NEW proposer \in Actors, NEW case \in Cases, NEW cited \in SUBSET Evidence,
             DecideCompletion(id, run, plan, proposer, case, cited)
      PROVE  IInv'
  <2>1. Success(case) \in BOOLEAN
    BY DEF Success
  <2>2. TypeOK'
    BY <1>9, <2>1 DEF DecideCompletion, TypeOK, Ids, Lineage
  <2> QED
    BY <1>9, <2>2, TablesUntouched DEF DecideCompletion
<1> QED
  BY <1>1, <1>2, <1>3, <1>4, <1>5, <1>6, <1>7, <1>8, <1>9 DEF Next

-----------------------------------------------------------------------------
(* The theorems.                                                            *)

(* Every record of the ledger is as the handlers build it.                  *)
THEOREM TypeCorrect == Spec => []TypeOK
<1>1. IInv => TypeOK
  BY DEF IInv
<1> QED
  BY <1>1, InitHolds, StepKeeps, PTL DEF Spec

LEMMA EffectStep ==
  ASSUME IInv, [Next]_vars, NEW e \in events' \ events
  PROVE  LatestOf(EventsOn({f \in events' : f.plan = e.plan}, e.subtask)) = e
<1>1. PICK id \in EventIds, run \in runs, plan \in plans :
        \E subtask \in Subtasks(plan), status \in Statuses, at \in Times, proposer \in Actors :
          AppendProgressEvent(id, run, plan, subtask, status, at, proposer)
  <2>1. Next /\ events' # events
    BY DEF vars
  <2>2. \A p : ~SwitchPolicy(p)
    BY <2>1 DEF SwitchPolicy
  <2>3. \A x : ~AddEvidence(x)
    BY <2>1 DEF AddEvidence
  <2>4. \A i, c, v : ~CreateResearchRun(i, c, v)
    BY <2>1 DEF CreateResearchRun
  <2>5. \A i, r, b, a : ~RecordProgressPlan(i, r, b, a)
    BY <2>1 DEF RecordProgressPlan
  <2>6. \A i, p, u, t, a : ~RecordRunBudget(i, p, u, t, a)
    BY <2>1 DEF RecordRunBudget
  <2>7. \A i, p, a : ~RecordRunCheckpoint(i, p, a)
    BY <2>1 DEF RecordRunCheckpoint
  <2>8. \A i, r, p, a, c, x : ~DecideCompletion(i, r, p, a, c, x)
    BY <2>1 DEF DecideCompletion
  <2> QED
    BY <2>1, <2>2, <2>3, <2>4, <2>5, <2>6, <2>7, <2>8 DEF Next
<1>2. PICK subtask \in Subtasks(plan), status \in Statuses, at \in Times, proposer \in Actors :
        AppendProgressEvent(id, run, plan, subtask, status, at, proposer)
  BY <1>1
<1>3. /\ e.id = id /\ e.at = at /\ e.plan = plan.id /\ e.subtask = subtask /\ plan.run = run.id
      /\ AdvancesHead(e, plan, plans, HeadEvents(run.id))
      /\ events' = events \cup {e}
  BY <1>2 DEF AppendProgressEvent, Lineage
<1>4. \A f \in events : f.plan = plan.id => Later(e, f)
  BY <1>2, <1>3, NewEventIsLatest
<1> DEFINE S == EventsOn({f \in events' : f.plan = e.plan}, e.subtask)
<1>5. e \in S /\ \A x \in S \ {e} : Later(e, x)
  BY <1>3, <1>4 DEF EventsOn
<1>6. \A x \in S : x.at \in Nat /\ x.id \in Nat
  BY <1>3, OrderAssumption DEF EventsOn, IInv, TypeOK
<1> QED
  BY <1>5, <1>6, LatestIsLater

(* An accepted event is the latest of its subtask, so progress goes by it   *)
(* at once.                                                                 *)
THEOREM EventsTakeEffect == Spec => EventTakesEffect
<1>1. IInv /\ [Next]_vars =>
        [\A e \in events' \ events :
           LatestOf(EventsOn({f \in events' : f.plan = e.plan}, e.subtask)) = e]_vars
  BY EffectStep
<1> QED
  BY <1>1, InitHolds, StepKeeps, PTL DEF Spec, EventTakesEffect

-----------------------------------------------------------------------------
(* Verification and the handlers compute the same.                          *)

LEMMA SameOrder == \A needs : Replay!Topological(needs) = Topological(needs)
BY DEF Topological, Replay!Topological, Ready, Replay!Ready,
       Cardinality, Replay!Cardinality, Range, Replay!Range

LEMMA SameCalculable == \A plan : Replay!Calculable(plan) = Calculable(plan)
BY Zenon DEF Calculable, Replay!Calculable, Topological, Replay!Topological, Ready, Replay!Ready,
             Subtasks, Replay!Subtasks, Cardinality, Replay!Cardinality, Range, Replay!Range

LEMMA SameOfficial ==
  \A plan, es : Replay!OfficialProgress(plan, es) = OfficialProgress(plan, es)
BY Zenon DEF OfficialProgress, Replay!OfficialProgress, Topological, Replay!Topological,
             Ready, Replay!Ready, StandsValidated, Replay!StandsValidated,
             LatestOf, Replay!LatestOf, Later, Replay!Later, EventsOn, Replay!EventsOn,
             IndependentlyAccepted, Replay!IndependentlyAccepted, Independent, Replay!Independent,
             Subtasks, Replay!Subtasks, Cardinality, Replay!Cardinality, Range, Replay!Range

LEMMA SameSelections ==
  /\ \A S : Replay!LatestOf(S) = LatestOf(S)
  /\ \A S, r : Replay!PlansOf(S, r) = PlansOf(S, r)
  /\ \A p, S : Replay!IsCurrent(p, S) = IsCurrent(p, S)
  /\ \A e, p, S, H : Replay!AdvancesHead(e, p, S, H) = AdvancesHead(e, p, S, H)
  /\ \A S, r, p, a : Replay!Applicable(S, r, p, a) = Applicable(S, r, p, a)
  /\ \A p, v : Replay!Pending(p, v) = Pending(p, v)
  /\ \A c, o, u : Replay!FalseFinish(c, o, u) = FalseFinish(c, o, u)
  /\ \A a, b : Replay!Independent(a, b) = Independent(a, b)
  /\ \A p : Replay!Subtasks(p) = Subtasks(p)
BY Zenon DEF LatestOf, Replay!LatestOf, Later, Replay!Later, PlansOf, Replay!PlansOf,
             CurrentPlan, Replay!CurrentPlan, IsCurrent, Replay!IsCurrent,
             AdvancesHead, Replay!AdvancesHead, Applicable, Replay!Applicable,
             Pending, Replay!Pending, Range, Replay!Range, FalseFinish, Replay!FalseFinish,
             Independent, Replay!Independent, Subtasks, Replay!Subtasks

-----------------------------------------------------------------------------
(* Every step of the handlers is a step of the replay.                      *)

LEMMA ReplaysPlan ==
  ASSUME IInv, NEW id \in PlanIds, NEW run \in RunIds, NEW body \in Bodies, NEW proposer \in Actors,
         RecordProgressPlan(id, run, body, proposer)
  PROVE  Replay!Next
<1> DEFINE plan == [id |-> id, run |-> run, version |-> NextVersion(run),
                    needs |-> body.needs, validator |-> body.validator, balanced |-> body.balanced]
<1>1. /\ run \in Ids(runs) /\ id \notin Ids(plans)
      /\ \A other \in plans : Subtasks(plan) \cap Subtasks(other) = {}
      /\ Calculable(plan)
      /\ plans' = plans \cup {plan}
      /\ UNCHANGED <<active, runs, events, heads, budgets, checkpoints, completions, evidence>>
  BY DEF RecordProgressPlan
<1>2. /\ \A q \in PlansOf(plans, run) : q.version < plan.version
      /\ plan.version = 1 \/ \E q \in PlansOf(plans, run) : q.version = plan.version - 1
  <2>1. CASE PlansOf(plans, run) = {}
    BY <2>1 DEF NextVersion
  <2>2. CASE PlansOf(plans, run) # {}
    <3>1. /\ CurrentPlan(plans, run) \in PlansOf(plans, run)
          /\ \A q \in PlansOf(plans, run) : q.version <= CurrentPlan(plans, run).version
      BY <2>2, CurrentIsHighest DEF IInv
    <3>2. \A q \in PlansOf(plans, run) : q.version \in Nat
      BY DEF IInv, TypeOK, PlansOf
    <3>3. plan.version = CurrentPlan(plans, run).version + 1
      BY <2>2 DEF NextVersion
    <3> HIDE DEF plan
    <3> QED
      BY <3>1, <3>2, <3>3
  <2> QED
    BY <2>1, <2>2
<1>3. plan.run = run /\ plan.id = id
  OBVIOUS
<1> HIDE DEF plan
<1>4. /\ \E r \in runs : r.id = plan.run
      /\ Replay!AddUnique(plans, plan)
  BY <1>1, <1>3 DEF Ids, Replay!AddUnique
<1>5. Replay!ReplayPlan(plan)
  BY <1>1, <1>2, <1>3, <1>4, SameCalculable, SameSelections DEF Replay!ReplayPlan
<1> QED
  BY <1>1, <1>5 DEF Replay!Next

LEMMA ReplaysEvent ==
  ASSUME IInv, NEW id \in EventIds, NEW run \in runs, NEW plan \in plans,
         NEW subtask \in Subtasks(plan), NEW status \in Statuses, NEW at \in Times,
         NEW proposer \in Actors,
         AppendProgressEvent(id, run, plan, subtask, status, at, proposer)
  PROVE  Replay!Next
<1> DEFINE event == [id |-> id, run |-> run.id, plan |-> plan.id, subtask |-> subtask,
                     status |-> status, validator |-> plan.validator[subtask],
                     proposer |-> proposer, at |-> at]
<1>1. /\ id \notin Ids(events) /\ plan.run = run.id
      /\ AdvancesHead(event, plan, plans, HeadEvents(run.id))
      /\ events' = events \cup {event}
      /\ heads' = [heads EXCEPT ![run.id] = {id}]
      /\ UNCHANGED <<active, runs, plans, budgets, checkpoints, completions, evidence>>
  BY DEF AppendProgressEvent, Lineage
<1>2. event.id = id /\ event.run = run.id /\ event.plan = plan.id /\ event.subtask = subtask
  OBVIOUS
<1> HIDE DEF event
<1>3. Replay!AddUnique(events, event)
  BY <1>1, <1>2 DEF Ids, Replay!AddUnique
<1>4. plan \in PlansOf(plans, event.run)
  BY <1>1, <1>2 DEF PlansOf
<1>5. Replay!ReplayEvent(event)
  BY <1>1, <1>2, <1>3, <1>4, SameSelections DEF Replay!ReplayEvent, HeadEvents
<1> QED
  BY <1>1, <1>5 DEF Replay!Next

LEMMA ReplaysBudget ==
  ASSUME NEW id \in BudgetIds, NEW plan \in plans, NEW unused \in BOOLEAN, NEW at \in Times,
         NEW proposer \in Actors, RecordRunBudget(id, plan, unused, at, proposer)
  PROVE  Replay!Next
<1> DEFINE budget == [id |-> id, run |-> plan.run, plan |-> plan.id, unused |-> unused,
                      at |-> at, policy |-> active]
<1>1. /\ id \notin Ids(budgets)
      /\ budgets' = budgets \cup {budget}
      /\ UNCHANGED <<active, runs, plans, events, heads, checkpoints, completions, evidence>>
  BY DEF RecordRunBudget
<1>2. budget.id = id /\ budget.run = plan.run /\ budget.plan = plan.id /\ budget.policy = active
  OBVIOUS
<1> HIDE DEF budget
<1>3. Replay!AddUnique(budgets, budget)
  BY <1>1, <1>2 DEF Ids, Replay!AddUnique
<1>4. plan \in PlansOf(plans, budget.run)
  BY <1>2 DEF PlansOf
<1>5. Replay!ReplayBudget(budget)
  BY <1>1, <1>2, <1>3, <1>4, SameSelections DEF Replay!ReplayBudget
<1> QED
  BY <1>1, <1>5 DEF Replay!Next

LEMMA ReplaysCheckpoint ==
  ASSUME NEW id \in CheckpointIds, NEW plan \in plans, NEW proposer \in Actors,
         RecordRunCheckpoint(id, plan, proposer)
  PROVE  Replay!Next
<1> DEFINE official == OfficialProgress(plan, PlanEvents(plan))
           applicable == Applicable(budgets, plan.run, plan.id, active)
           checkpoint == [id |-> id, run |-> plan.run, plan |-> plan.id, validated |-> official,
                          pending |-> Pending(plan, official), budget |-> LatestOf(applicable).id,
                          policy |-> active]
<1>1. /\ id \notin Ids(checkpoints) /\ IsCurrent(plan, plans) /\ applicable # {}
      /\ checkpoints' = checkpoints \cup {checkpoint}
      /\ UNCHANGED <<active, runs, plans, events, heads, budgets, completions, evidence>>
  BY DEF RecordRunCheckpoint, CheckpointTarget
<1>2. /\ checkpoint.id = id /\ checkpoint.run = plan.run /\ checkpoint.plan = plan.id
      /\ checkpoint.validated = OfficialProgress(plan, {e \in events : e.plan = plan.id})
      /\ checkpoint.pending = Pending(plan, checkpoint.validated)
      /\ checkpoint.budget = LatestOf(Applicable(budgets, plan.run, plan.id, active)).id
      /\ checkpoint.policy = active
  BY DEF PlanEvents
<1> HIDE DEF checkpoint
<1>3. Replay!AddUnique(checkpoints, checkpoint)
  BY <1>1, <1>2 DEF Ids, Replay!AddUnique
<1>4. Replay!ReplayCheckpoint(checkpoint)
  BY <1>1, <1>2, <1>3, SameSelections, SameOfficial DEF Replay!ReplayCheckpoint
<1> QED
  BY <1>1, <1>4 DEF Replay!Next

LEMMA ReplaysCompletion ==
  ASSUME NEW id \in CompletionIds, NEW run \in runs, NEW plan \in plans,
         NEW proposer \in Actors, NEW case \in Cases, NEW cited \in SUBSET Evidence,
         DecideCompletion(id, run, plan, proposer, case, cited)
  PROVE  Replay!Next
<1> DEFINE decision == [id |-> id, run |-> run.id, plan |-> plan.id, proposer |-> proposer,
                        case |-> case, cited |-> cited, accepted |-> Success(case)]
<1>1. /\ id \notin Ids(completions) /\ plan.run = run.id /\ PlanBudgets(plan) # {}
      /\ cited # {} /\ cited \subseteq evidence
      /\ Independent(run.validator, run.creator) /\ Independent(run.validator, proposer)
      /\ ~FalseFinish(case, OfficialProgress(plan, PlanEvents(plan)), LatestOf(PlanBudgets(plan)).unused)
      /\ case.claims => Success(case)
      /\ completions' = completions \cup {decision}
      /\ UNCHANGED <<active, runs, plans, events, heads, budgets, checkpoints, evidence>>
  BY DEF DecideCompletion, Lineage, FinalAuthority
<1>2. /\ decision.id = id /\ decision.run = run.id /\ decision.plan = plan.id
      /\ decision.proposer = proposer /\ decision.case = case /\ decision.cited = cited
      /\ decision.accepted = (case.claims /\ case.succeeds /\ case.complete /\ case.passed)
      /\ decision.accepted = Success(case)
  BY DEF Success
<1> HIDE DEF decision
<1>3. Replay!AddUnique(completions, decision)
  BY <1>1, <1>2 DEF Ids, Replay!AddUnique
<1>4. Replay!ReplayCompletion(decision)
  BY <1>1, <1>2, <1>3, SameSelections, SameOfficial
     DEF Replay!ReplayCompletion, PlanEvents, PlanBudgets
<1> QED
  BY <1>1, <1>4 DEF Replay!Next

LEMMA StepReplays == IInv /\ [Next]_vars => [Replay!Next]_(Replay!vars)
<1> SUFFICES ASSUME IInv, [Next]_vars
             PROVE  Replay!Next \/ UNCHANGED Replay!vars
  OBVIOUS
<1>1. CASE UNCHANGED vars
  BY <1>1 DEF vars, Replay!vars
<1>2. ASSUME NEW p \in Policies, SwitchPolicy(p)
      PROVE  Replay!Next
  BY <1>2 DEF SwitchPolicy, Replay!Next, Replay!ReplayPolicy
<1>3. ASSUME NEW e \in Evidence, AddEvidence(e)
      PROVE  Replay!Next
  BY <1>3 DEF AddEvidence, Replay!Next, Replay!ReplayEvidence
<1>4. ASSUME NEW id \in RunIds, NEW creator \in Actors, NEW validator \in Actors,
             CreateResearchRun(id, creator, validator)
      PROVE  Replay!Next
  <2> DEFINE run == [id |-> id, creator |-> creator, validator |-> validator]
  <2>1. Replay!ReplayRun(run)
    BY <1>4 DEF CreateResearchRun, Replay!ReplayRun, Replay!AddUnique, Ids
  <2> QED
    BY <1>4, <2>1 DEF CreateResearchRun, Replay!Next
<1>5. ASSUME NEW id \in PlanIds, NEW run \in RunIds, NEW body \in Bodies, NEW proposer \in Actors,
             RecordProgressPlan(id, run, body, proposer)
      PROVE  Replay!Next
  BY <1>5, ReplaysPlan
<1>6. ASSUME NEW id \in EventIds, NEW run \in runs, NEW plan \in plans,
             NEW subtask \in Subtasks(plan), NEW status \in Statuses, NEW at \in Times,
             NEW proposer \in Actors,
             AppendProgressEvent(id, run, plan, subtask, status, at, proposer)
      PROVE  Replay!Next
  BY <1>6, ReplaysEvent
<1>7. ASSUME NEW id \in BudgetIds, NEW plan \in plans, NEW unused \in BOOLEAN, NEW at \in Times,
             NEW proposer \in Actors, RecordRunBudget(id, plan, unused, at, proposer)
      PROVE  Replay!Next
  BY <1>7, ReplaysBudget
<1>8. ASSUME NEW id \in CheckpointIds, NEW plan \in plans, NEW proposer \in Actors,
             RecordRunCheckpoint(id, plan, proposer)
      PROVE  Replay!Next
  BY <1>8, ReplaysCheckpoint
<1>9. ASSUME NEW id \in CompletionIds, NEW run \in runs, NEW plan \in plans,
             NEW proposer \in Actors, NEW case \in Cases, NEW cited \in SUBSET Evidence,
             DecideCompletion(id, run, plan, proposer, case, cited)
      PROVE  Replay!Next
  BY <1>9, ReplaysCompletion
<1> QED
  BY <1>1, <1>2, <1>3, <1>4, <1>5, <1>6, <1>7, <1>8, <1>9 DEF Next

(* No history the handlers admit is refused by verification.                *)
THEOREM Verifiable == Spec => ImplementsReplay
<1>1. Init => Replay!Init
  BY DEF Init, Replay!Init
<1> QED
  BY <1>1, InitHolds, StepKeeps, StepReplays, PTL DEF Spec, ImplementsReplay, Replay!Spec
-----------------------------------------------------------------------------
(* What the calculation computes.  A plan that is recorded is calculable:   *)
(* its order goes through all subtasks, each after those it depends on.     *)

Least(S) == CHOOSE s \in S : \A u \in S : s <= u
Further(needs, order) ==
  IF Ready(needs, Range(order)) = {} THEN order ELSE Append(order, Least(Ready(needs, Range(order))))

(* An order places no subtask before one it depends on.                     *)
Placed(order, i) == {order[j] : j \in 1 .. i - 1}
Ordered(needs, order) ==
  /\ order \in Seq(DOMAIN needs)
  /\ Cardinality(Range(order)) = Len(order)
  /\ \A i \in 1 .. Len(order) : needs[order[i]] \subseteq Placed(order, i)

(* What one more element does to a sequence.                                *)
IsAppended(longer, o, s) == longer = Append(o, s)
LEMMA Appended ==
  ASSUME NEW D, NEW o \in Seq(D), NEW s \in D, NEW longer, IsAppended(longer, o, s)
  PROVE  /\ longer \in Seq(D) /\ Len(longer) = Len(o) + 1 /\ longer[Len(o) + 1] = s
         /\ \A i \in 1 .. Len(o) : longer[i] = o[i]
         /\ Range(longer) = Range(o) \cup {s}
<1> USE DEF IsAppended
<1>1. longer \in Seq(D)
  OBVIOUS
<1>2. Len(o) \in Nat /\ Len(longer) = Len(o) + 1
  OBVIOUS
<1>3. longer[Len(o) + 1] = s
  OBVIOUS
<1>4. \A i \in 1 .. Len(o) : longer[i] = o[i]
  BY <1>2
<1>5. DOMAIN o = 1 .. Len(o) /\ DOMAIN longer = 1 .. Len(longer)
  BY <1>1
<1>6. \A i \in 1 .. Len(longer) : i \in 1 .. Len(o) \/ i = Len(o) + 1
  BY <1>2
<1>7. Range(longer) \subseteq Range(o) \cup {s}
  <2> SUFFICES ASSUME NEW i \in 1 .. Len(longer) PROVE longer[i] \in Range(o) \cup {s}
    BY <1>5 DEF Range
  <2> QED
    BY <1>3, <1>4, <1>5, <1>6 DEF Range
<1>8. ASSUME NEW i \in 1 .. Len(o) PROVE o[i] \in Range(longer)
  BY <1>2, <1>4, <1>5 DEF Range
<1>9. s \in Range(longer)
  BY <1>2, <1>3, <1>5 DEF Range
<1> QED
  BY <1>1, <1>2, <1>3, <1>4, <1>5, <1>7, <1>8, <1>9 DEF Range

(* An order stays one when a subtask whose dependencies are placed is placed *)
(* next, and so when the calculation goes a step further.                    *)
LEMMA AppendOrdered ==
  ASSUME NEW needs, NEW D, D = DOMAIN needs, IsFiniteSet(D), NEW order, Ordered(needs, order),
         NEW s \in D, s \notin Range(order), needs[s] \subseteq Range(order),
         NEW longer, longer = Append(order, s)
  PROVE  Ordered(needs, longer)
<1>1. order \in Seq(D)
  BY DEF Ordered
<1>2. PICK n \in Nat : n = Len(order)
  BY <1>1
<1>3. /\ longer \in Seq(D) /\ Len(longer) = n + 1 /\ longer[n + 1] = s
      /\ \A i \in 1 .. n : longer[i] = order[i]
      /\ Range(longer) = Range(order) \cup {s}
  <2>1. IsAppended(longer, order, s)
    BY DEF IsAppended
  <2> QED
    BY <1>1, <1>2, <2>1, Appended
<1>4. DOMAIN order = 1 .. n
  BY <1>1, <1>2
<1>5. Cardinality(Range(longer)) = n + 1
  <2>1. Range(order) \subseteq D
    BY <1>1, <1>4 DEF Range
  <2>2. IsFiniteSet(Range(order))
    BY <2>1, FS_Subset
  <2>3. Cardinality(Range(order)) = n
    BY <1>2 DEF Ordered
  <2>4. Cardinality(Range(order) \cup {s}) = Cardinality(Range(order)) + 1
    BY <2>2, FS_AddElement
  <2> QED
    BY <1>3, <2>3, <2>4
<1>6. ASSUME NEW i \in 1 .. n + 1
      PROVE  needs[longer[i]] \subseteq Placed(longer, i)
  <2>1. CASE i \in 1 .. n
    <3>1. \A j \in 1 .. i - 1 : j \in 1 .. n
      BY <1>2, <2>1
    <3>2. Placed(longer, i) = Placed(order, i)
      BY <1>3, <3>1 DEF Placed
    <3>3. needs[order[i]] \subseteq Placed(order, i)
      BY <1>2, <2>1 DEF Ordered
    <3> QED  BY <1>3, <2>1, <3>2, <3>3
  <2>2. CASE i = n + 1
    <3>1. i - 1 = n
      BY <1>2, <2>2
    <3>2. Range(order) \subseteq Placed(longer, i)
      BY <1>3, <1>4, <3>1 DEF Placed, Range
    <3> QED  BY <1>3, <2>2, <3>2
  <2> QED
    BY <1>2, <2>1, <2>2
<1> QED
  BY <1>1, <1>3, <1>5, <1>6 DEF Ordered

LEMMA FurtherOrdered ==
  ASSUME NEW needs, DOMAIN needs \subseteq Nat, IsFiniteSet(DOMAIN needs),
         NEW order, Ordered(needs, order)
  PROVE  Ordered(needs, Further(needs, order))
<1>1. CASE Ready(needs, Range(order)) = {}
  BY <1>1 DEF Further
<1>2. CASE Ready(needs, Range(order)) # {}
  <2>1. PICK ready : ready = Ready(needs, Range(order))
    OBVIOUS
  <2>2. PICK s : s = Least(ready)
    OBVIOUS
  <2>3. s \in ready
    <3>1. ready \subseteq Nat
      BY <2>1 DEF Ready
    <3>2. \E u \in ready : \A v \in ready : u <= v
      BY <1>2, <2>1, <3>1, LeastNatural
    <3> QED  BY <2>2, <3>2 DEF Least
  <2>4. s \in DOMAIN needs /\ s \notin Range(order) /\ needs[s] \subseteq Range(order)
    BY <2>1, <2>3 DEF Ready
  <2>5. PICK longer : longer = Append(order, s)
    OBVIOUS
  <2>6. Ordered(needs, longer)
    BY <2>4, <2>5, AppendOrdered
  <2>7. Further(needs, order) = longer
    BY <1>2, <2>1, <2>2, <2>5 DEF Further
  <2> QED
    BY <2>6, <2>7
<1> QED
  BY <1>1, <1>2

(* The order of a plan is ordered.                                          *)
LEMMA TopologicalOrders ==
  ASSUME NEW needs, DOMAIN needs \subseteq Nat, IsFiniteSet(DOMAIN needs)
  PROVE  Ordered(needs, Topological(needs))
<1> DEFINE N == Cardinality(DOMAIN needs)
           S == {o \in Seq(DOMAIN needs) : Ordered(needs, o)}
           step == [n \in 1 .. N |-> [x \in S |-> Further(needs, x)]]
           order == CHOOSE f : f = [k \in 0 .. N |->
                                      IF k = 0 THEN <<>> ELSE Further(needs, f[k - 1])]
<1>1. N \in Nat
  BY FS_CardinalityType
<1>2. Topological(needs) = order[N]
  BY DEF Topological, Further, Least
<1>3. <<>> \in S
  <2>1. PICK empty : empty = <<>>
    OBVIOUS
  <2>2. empty \in Seq(DOMAIN needs) /\ Len(empty) = 0 /\ DOMAIN empty = {}
    BY <2>1
  <2>3. Range(empty) = {}
    BY <2>2 DEF Range
  <2>4. Ordered(needs, empty)
    BY <2>2, <2>3, FS_EmptySet DEF Ordered
  <2> QED
    BY <2>1, <2>2, <2>4
<1>4. \A x \in S : Further(needs, x) \in S
  BY FurtherOrdered DEF Ordered
<1>5. PICK f : IsRun(f, <<>>, step, N, S)
  <2>1. StepsWithin(step, N, S)
    BY <1>4 DEF StepsWithin
  <2> HIDE DEF step, S, N
  <2> QED
    BY <1>1, <1>3, <2>1, RunExists
<1>6. /\ f \in [0 .. N -> S] /\ f[0] = <<>>
      /\ \A n \in 1 .. N : f[n] = step[n][f[n - 1]]
  <2> HIDE DEF step, S, N
  <2> QED
    BY <1>5 DEF IsRun
<1>7. \A n \in 1 .. N : f[n] = Further(needs, f[n - 1])
  <2> SUFFICES ASSUME NEW n \in 1 .. N PROVE f[n] = Further(needs, f[n - 1])
    OBVIOUS
  <2> HIDE DEF S, N
  <2>1. f[n - 1] \in S
    BY <1>1, <1>6
  <2>2. step[n][f[n - 1]] = Further(needs, f[n - 1])
    BY <2>1
  <2> HIDE DEF step
  <2> QED
    BY <1>6, <2>2
<1>8. f = [k \in 0 .. N |-> IF k = 0 THEN <<>> ELSE Further(needs, f[k - 1])]
  <2> HIDE DEF step, S, N
  <2> QED
    BY <1>1, <1>6, <1>7
<1>9. order = [k \in 0 .. N |-> IF k = 0 THEN <<>> ELSE Further(needs, order[k - 1])]
  <2> HIDE DEF step, S, N
  <2> QED
    BY <1>8
<1> HIDE DEF order, step, N
<1>10. order[0] = <<>> /\ \A n \in 1 .. N : order[n] = Further(needs, order[n - 1])
  <2> HIDE DEF S
  <2> QED  BY <1>1, <1>9
<1>11. N \in {n \in 0 .. N : order[n] \in S}
  <2> HIDE DEF S
  <2> DEFINE T == {n \in 0 .. N : order[n] \in S}
  <2>1. 0 \in T
    BY <1>1, <1>3, <1>10
  <2>2. \A n \in 1 .. N : n - 1 \in T => n \in T
    BY <1>1, <1>4, <1>10
  <2>3. \A n \in 0 .. N : n \in T
    <3> HIDE DEF T
    <3> QED  BY <1>1, <2>1, <2>2, EveryNumber
  <2> QED
    BY <1>1, <2>3
<1> QED
  BY <1>2, <1>11

(* A plan that may be recorded.                                             *)
Sane(plan) ==
  /\ Subtasks(plan) \subseteq Nat /\ IsFiniteSet(Subtasks(plan))
  /\ Calculable(plan)

LEMMA OrderIsWhole ==
  ASSUME NEW plan, Sane(plan)
  PROVE  /\ Ordered(plan.needs, Topological(plan.needs))
         /\ Range(Topological(plan.needs)) = Subtasks(plan)
<1>1. Ordered(plan.needs, Topological(plan.needs))
  BY TopologicalOrders DEF Sane, Subtasks
<1>2. Range(Topological(plan.needs)) \subseteq Subtasks(plan)
  BY <1>1 DEF Ordered, Range, Subtasks
<1>3. Cardinality(Range(Topological(plan.needs))) = Cardinality(Subtasks(plan))
  BY <1>1 DEF Sane, Calculable, Ordered, Subtasks
<1> QED
  BY <1>1, <1>2, <1>3, FS_Subset DEF Sane

(* Down the order, what is official is the largest set of placed subtasks   *)
(* that stand validated with all they depend on in it.                      *)
Official(plan, accepted, before, s) ==
  before \cup {u \in {s} : StandsValidated(plan, accepted, u) /\ plan.needs[u] \subseteq before}
ClosedBy(plan, accepted, set) ==
  \A s \in set : StandsValidated(plan, accepted, s) /\ plan.needs[s] \subseteq set
Largest(plan, accepted, placed, set) ==
  /\ set \subseteq placed /\ ClosedBy(plan, accepted, set)
  /\ \A other \in SUBSET Subtasks(plan) : ClosedBy(plan, accepted, other) => other \cap placed \subseteq set

LEMMA OfficialStep ==
  ASSUME NEW plan, NEW accepted, NEW placed, NEW before, NEW s,
         Largest(plan, accepted, placed, before), plan.needs[s] \subseteq placed
  PROVE  Largest(plan, accepted, placed \cup {s}, Official(plan, accepted, before, s))
<1> DEFINE after == Official(plan, accepted, before, s)
<1>1. after \subseteq placed \cup {s}
  BY DEF Largest, Official
<1>2. ClosedBy(plan, accepted, after)
  BY DEF Largest, Official, ClosedBy
<1>3. ASSUME NEW other \in SUBSET Subtasks(plan), ClosedBy(plan, accepted, other)
      PROVE  other \cap (placed \cup {s}) \subseteq after
  <2>1. other \cap placed \subseteq before
    BY <1>3 DEF Largest
  <2>2. s \in other => s \in after
    BY <1>3, <2>1 DEF ClosedBy, Official
  <2> QED
    BY <2>1, <2>2 DEF Official
<1> QED
  BY <1>1, <1>2, <1>3 DEF Largest

LEMMA OfficialIsLargest ==
  ASSUME NEW plan, Sane(plan), NEW accepted
  PROVE  Largest(plan, accepted, Subtasks(plan), OfficialProgress(plan, accepted))
<1> DEFINE order == Topological(plan.needs)
           N == Len(order)
           S == SUBSET Subtasks(plan)
           step == [n \in 1 .. N |-> [x \in S |-> Official(plan, accepted, x, order[n])]]
           official == CHOOSE f : f = [k \in 0 .. N |-> IF k = 0 THEN {} ELSE Official(plan, accepted, f[k - 1], order[k])]
<1>1. /\ N \in Nat /\ DOMAIN order = 1 .. N
      /\ \A n \in 1 .. N : order[n] \in Subtasks(plan)
      /\ \A n \in 1 .. N : plan.needs[order[n]] \subseteq Placed(order, n)
      /\ Range(order) = Subtasks(plan)
  BY OrderIsWhole DEF Ordered, Subtasks
<1>2. OfficialProgress(plan, accepted) = official[N]
  BY DEF OfficialProgress, Official
<1> HIDE DEF order, N
<1>3. \A x \in S, n \in 1 .. N : Official(plan, accepted, x, order[n]) \in S
  BY <1>1 DEF Official
<1>4. PICK f : IsRun(f, {}, step, N, S)
  <2>1. StepsWithin(step, N, S) /\ {} \in S
    BY <1>3 DEF StepsWithin
  <2> HIDE DEF step, S
  <2> QED
    BY <1>1, <2>1, RunExists
<1>5. /\ f \in [0 .. N -> S] /\ f[0] = {}
      /\ \A n \in 1 .. N : f[n] = step[n][f[n - 1]]
  <2> HIDE DEF step, S
  <2> QED
    BY <1>4 DEF IsRun
<1>6. \A n \in 1 .. N : f[n] = Official(plan, accepted, f[n - 1], order[n])
  <2> SUFFICES ASSUME NEW n \in 1 .. N PROVE f[n] = Official(plan, accepted, f[n - 1], order[n])
    OBVIOUS
  <2> HIDE DEF S
  <2>1. f[n - 1] \in S
    BY <1>1, <1>5
  <2>2. step[n][f[n - 1]] = Official(plan, accepted, f[n - 1], order[n])
    BY <2>1
  <2> HIDE DEF step
  <2> QED
    BY <1>5, <2>2
<1>7. f = [k \in 0 .. N |-> IF k = 0 THEN {} ELSE Official(plan, accepted, f[k - 1], order[k])]
  <2> HIDE DEF step, S
  <2> QED
    BY <1>1, <1>5, <1>6
<1>8. official = [k \in 0 .. N |-> IF k = 0 THEN {} ELSE Official(plan, accepted, official[k - 1], order[k])]
  <2> HIDE DEF step, S
  <2> QED
    BY <1>7
<1> HIDE DEF official, step, S
<1>9. /\ official[0] = {}
      /\ \A n \in 1 .. N : official[n] = Official(plan, accepted, official[n - 1], order[n])
  <2>1. 0 \in 0 .. N
    BY <1>1
  <2>2. official[0] = {}
    BY <1>8, <2>1
  <2>3. ASSUME NEW n \in 1 .. N PROVE official[n] = Official(plan, accepted, official[n - 1], order[n])
    <3>1. n \in 0 .. N /\ n # 0
      BY <1>1
    <3> QED
      BY <1>8, <3>1
  <2> QED
    BY <2>2, <2>3
<1> DEFINE T == {n \in 0 .. N : Largest(plan, accepted, Placed(order, n + 1), official[n])}
<1>10. 0 \in T
  <2>1. Placed(order, 1) = {}
    BY DEF Placed
  <2>2. Largest(plan, accepted, {}, {})
    BY DEF Largest, ClosedBy
  <2>3. Largest(plan, accepted, Placed(order, 0 + 1), official[0])
    BY <1>9, <2>1, <2>2
  <2> QED
    BY <1>1, <2>3
<1>11. ASSUME NEW n \in 1 .. N, n - 1 \in T PROVE n \in T
  <2>1. Largest(plan, accepted, Placed(order, n), official[n - 1])
    BY <1>1, <1>11
  <2>2. plan.needs[order[n]] \subseteq Placed(order, n)
    BY <1>1
  <2>3. Largest(plan, accepted, Placed(order, n) \cup {order[n]}, official[n])
    BY <1>9, <2>1, <2>2, OfficialStep
  <2>4. Placed(order, n) \cup {order[n]} = Placed(order, n + 1)
    BY <1>1 DEF Placed
  <2>5. Largest(plan, accepted, Placed(order, n + 1), official[n])
    BY <2>3, <2>4
  <2> QED
    BY <1>1, <2>5
<1>12. \A n \in 0 .. N : n \in T
  <2> HIDE DEF T
  <2> QED
    BY <1>1, <1>10, <1>11, EveryNumber
<1>13. Largest(plan, accepted, Placed(order, N + 1), official[N])
  BY <1>1, <1>12
<1>14. Placed(order, N + 1) = Range(order)
  BY <1>1 DEF Placed, Range
<1> QED
  BY <1>1, <1>2, <1>13, <1>14

Recorded == \A plan \in plans : Sane(plan)

LEMMA LargestIsUnion ==
  ASSUME Recorded
  PROVE  OfficialIsClosure
<1> SUFFICES ASSUME NEW plan \in plans
             PROVE  OfficialProgress(plan, PlanEvents(plan))
                      = UNION {set \in SUBSET Subtasks(plan) : Closed(plan, set)}
  BY DEF OfficialIsClosure
<1>1. PICK official : official = OfficialProgress(plan, PlanEvents(plan))
  OBVIOUS
<1>2. Largest(plan, PlanEvents(plan), Subtasks(plan), official)
  BY <1>1, OfficialIsLargest DEF Recorded
<1>3. \A set : Closed(plan, set) <=> ClosedBy(plan, PlanEvents(plan), set)
  BY DEF Closed, ClosedBy
<1>4. official \in SUBSET Subtasks(plan) /\ Closed(plan, official)
  BY <1>2, <1>3 DEF Largest
<1>5. ASSUME NEW set \in SUBSET Subtasks(plan), Closed(plan, set)
      PROVE  set \subseteq official
  BY <1>2, <1>3, <1>5 DEF Largest
<1> QED
  BY <1>1, <1>4, <1>5

LEMMA RecordedStep == TypeOK /\ Recorded /\ [Next]_vars => Recorded'
<1> SUFFICES ASSUME TypeOK, Recorded, [Next]_vars PROVE Recorded'
  OBVIOUS
<1>1. CASE plans' = plans
  BY <1>1 DEF Recorded
<1>2. ASSUME NEW id \in PlanIds, NEW run \in RunIds, NEW body \in Bodies, NEW proposer \in Actors,
             RecordProgressPlan(id, run, body, proposer)
      PROVE  Recorded'
  <2>1. PICK plan : plan = [id |-> id, run |-> run, version |-> NextVersion(run), needs |-> body.needs,
                            validator |-> body.validator, balanced |-> body.balanced]
    OBVIOUS
  <2>2. Calculable(plan) /\ plans' = plans \cup {plan}
    BY <1>2, <2>1 DEF RecordProgressPlan
  <2>3. Sane(plan)
    BY <2>1, <2>2, BodiesAssumption DEF Sane, Subtasks
  <2> QED
    BY <2>2, <2>3 DEF Recorded
<1>3. ASSUME Next, \A id \in PlanIds, run \in RunIds, body \in Bodies, proposer \in Actors :
                      ~RecordProgressPlan(id, run, body, proposer)
      PROVE  plans' = plans
  <2>1. \A x : SwitchPolicy(x) \/ AddEvidence(x) => plans' = plans
    BY DEF SwitchPolicy, AddEvidence
  <2>2. \A x, y, z : CreateResearchRun(x, y, z) \/ RecordRunCheckpoint(x, y, z) => plans' = plans
    BY DEF CreateResearchRun, RecordRunCheckpoint
  <2>3. \A x, y, z, u, v : RecordRunBudget(x, y, z, u, v) => plans' = plans
    BY DEF RecordRunBudget
  <2>4. \A x, y, z, u, v, w : DecideCompletion(x, y, z, u, v, w) => plans' = plans
    BY DEF DecideCompletion
  <2>5. \A x, y, z, s, u, v, w : AppendProgressEvent(x, y, z, s, u, v, w) => plans' = plans
    BY DEF AppendProgressEvent
  <2> QED
    BY <1>3, <2>1, <2>2, <2>3, <2>4, <2>5 DEF Next
<1>4. UNCHANGED vars => plans' = plans
  BY DEF vars
<1> QED
  BY <1>1, <1>2, <1>3, <1>4

(* Official progress, computed once down the order of the subtasks, is the  *)
(* largest set of validated subtasks closed under dependence, for any plan  *)
(* that may be recorded and whatever events it has: invalidating a          *)
(* prerequisite takes every dependent with it, and only those               *)
(* (calculations.py:43-81).                                                 *)
THEOREM OfficialLargest == Spec => []OfficialIsClosure
<1>1. Init => Recorded
  BY DEF Init, Recorded
<1> QED
  BY <1>1, RecordedStep, TypeCorrect, LargestIsUnion, PTL DEF Spec

=============================================================================
