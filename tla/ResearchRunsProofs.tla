--------------------------- MODULE ResearchRunsProofs ---------------------------
(***************************************************************************)
(* What holds of every research run, for any number of runs, events and     *)
(* actors.                                                                  *)
(***************************************************************************)
EXTENDS ResearchRuns, FiniteSetTheorems, TLAPS

(* The inductive invariant.  Histories are finite and their heads end them  *)
(* (HeadEndsHistory); records name runs; and an accepted final validation   *)
(* is the declared validator's, which is what makes SuccessWasValidated     *)
(* inductive.                                                               *)
TypeInv ==
  /\ researchRuns \subseteq ResearchRunRecords
  /\ IsFiniteSet(runEvents) /\ runEvents \subseteq RunEvents
  /\ runHeads \in [ResearchRunIds -> SUBSET RunEventIds]
RunsInv ==
  /\ \A r, s \in researchRuns : r.id = s.id => r = s
  /\ \A r \in researchRuns : r.creator # r.validator
  /\ \A e \in runEvents : \E r \in researchRuns : r.id = e.run
ValidatorInv ==
  \A e \in runEvents, r \in researchRuns :
    e.type = "FINAL_VALIDATION_ACCEPTED" /\ e.run = r.id => e.assessor = r.validator
IInv == TypeInv /\ RunsInv /\ ValidatorInv /\ HeadEndsHistory /\ SuccessWasValidated

-----------------------------------------------------------------------------
(* A run's events are finite, and 1..n grows by n + 1.                      *)
LEMMA EventsFinite ==
  ASSUME TypeInv, NEW r
  PROVE  IsFiniteSet(EventsOf(r)) /\ Cardinality(EventsOf(r)) \in Nat
BY FS_Subset, FS_CardinalityType DEF TypeInv, EventsOf

LEMMA InitHolds == ResearchInit => IInv
<1> SUFFICES ASSUME ResearchInit PROVE IInv
  OBVIOUS
<1>1. TypeInv
  BY FS_EmptySet DEF ResearchInit, TypeInv
<1>2. \A r \in ResearchRunIds : EventsOf(r) = {}
  BY DEF ResearchInit, EventsOf
<1>3. HeadEndsHistory
  <2> SUFFICES ASSUME NEW r \in ResearchRunIds
      PROVE /\ {e.sequence : e \in EventsOf(r)} = 1..Cardinality(EventsOf(r))
            /\ runHeads[r] = {e.id : e \in {f \in EventsOf(r) : f.sequence = Cardinality(EventsOf(r))}}
    BY DEF HeadEndsHistory
  <2>1. EventsOf(r) = {} /\ Cardinality(EventsOf(r)) = 0 /\ runHeads[r] = {}
    BY <1>2, FS_EmptySet DEF ResearchInit
  <2> QED
    BY <2>1
<1> QED
  BY <1>1, <1>3 DEF ResearchInit, IInv, RunsInv, ValidatorInv, SuccessWasValidated

LEMMA CreateKeeps ==
  ASSUME IInv, NEW run \in ResearchRunRecords, CreateRun(run)
  PROVE  IInv'
<1> USE DEF CreateRun
<1>1. TypeInv'
  BY DEF IInv, TypeInv
<1>2. \A r : EventsOf(r)' = EventsOf(r)
  BY DEF EventsOf
<1>3. RunsInv'
  BY DEF IInv, RunsInv
<1>4. ValidatorInv'
  <2> SUFFICES ASSUME NEW e \in runEvents, NEW r \in researchRuns',
                      e.type = "FINAL_VALIDATION_ACCEPTED", e.run = r.id
      PROVE e.assessor = r.validator
    BY DEF ValidatorInv
  <2>1. PICK s \in researchRuns : s.id = e.run
    BY DEF IInv, RunsInv
  <2>2. r \in researchRuns
    BY <2>1
  <2> QED
    BY <2>2 DEF IInv, ValidatorInv
<1>5. HeadEndsHistory'
  BY <1>2 DEF IInv, HeadEndsHistory
<1>6. SuccessWasValidated'
  BY <1>2 DEF IInv, SuccessWasValidated
<1> QED
  BY <1>1, <1>3, <1>4, <1>5, <1>6 DEF IInv

LEMMA AppendKeeps ==
  ASSUME IInv, NEW run \in researchRuns, NEW event \in RunEvents, AppendResearchRunEvent(run, event)
  PROVE  IInv'
<1> DEFINE n == Cardinality(EventsOf(event.run))
<1>1. /\ run.id = event.run /\ event.sequence = n + 1
      /\ \A e \in runEvents : e.id # event.id
      /\ runEvents' = runEvents \cup {event}
      /\ runHeads' = [runHeads EXCEPT ![event.run] = {event.id}]
      /\ researchRuns' = researchRuns
      /\ event \notin runEvents
      /\ event.run \in ResearchRunIds /\ event.id \in RunEventIds
  BY DEF AppendResearchRunEvent, Continues, RunEvents
<1>2. TypeInv'
  BY <1>1, FS_AddElement DEF IInv, TypeInv
<1>3. /\ EventsOf(event.run)' = EventsOf(event.run) \cup {event}
      /\ \A r : r # event.run => EventsOf(r)' = EventsOf(r)
  BY <1>1 DEF EventsOf
<1>4. n \in Nat /\ IsFiniteSet(EventsOf(event.run))
  BY EventsFinite DEF IInv
<1>5. Cardinality(EventsOf(event.run)') = n + 1
  BY <1>1, <1>3, <1>4, FS_AddElement DEF EventsOf
<1>6. /\ {e.sequence : e \in EventsOf(event.run)} = 1..n
      /\ \A e \in EventsOf(event.run) : e.sequence \in 1..n
  BY <1>1 DEF IInv, HeadEndsHistory
<1>7. HeadEndsHistory'
  <2> SUFFICES ASSUME NEW r \in ResearchRunIds
      PROVE /\ {e.sequence : e \in EventsOf(r)'} = 1..Cardinality(EventsOf(r)')
            /\ runHeads'[r] = {e.id : e \in {f \in EventsOf(r)' : f.sequence = Cardinality(EventsOf(r)')}}
    BY DEF HeadEndsHistory
  <2>1. CASE r = event.run
    <3>1. {e.sequence : e \in EventsOf(r)'} = {e.sequence : e \in EventsOf(r)} \cup {n + 1}
      BY <2>1, <1>1, <1>3
    <3>2. 1..(n + 1) = (1..n) \cup {n + 1}
      BY <1>4
    <3>3. {f \in EventsOf(r)' : f.sequence = n + 1} = {event}
      BY <2>1, <1>1, <1>3, <1>4, <1>6
    <3>4. runHeads'[r] = {event.id}
      BY <2>1, <1>1 DEF IInv, TypeInv
    <3> QED
      BY <2>1, <3>1, <3>2, <3>3, <3>4, <1>5, <1>6
  <2>2. CASE r # event.run
    BY <2>2, <1>1, <1>3 DEF IInv, TypeInv, HeadEndsHistory
  <2> QED
    BY <2>1, <2>2
<1>8. RunsInv'
  BY <1>1 DEF IInv, RunsInv
<1>9. ValidatorInv'
  <2> SUFFICES ASSUME NEW e \in runEvents', NEW r \in researchRuns,
                      e.type = "FINAL_VALIDATION_ACCEPTED", e.run = r.id
      PROVE e.assessor = r.validator
    BY <1>1 DEF ValidatorInv
  <2>1. CASE e = event
    BY <2>1, <1>1 DEF AppendResearchRunEvent, IInv, RunsInv
  <2>2. CASE e \in runEvents
    BY <2>2 DEF IInv, ValidatorInv
  <2> QED
    BY <2>1, <2>2, <1>1
<1>10. SuccessWasValidated'
  <2> SUFFICES ASSUME NEW e \in runEvents', e.type = "SUCCEEDED"
      PROVE \E r \in researchRuns, v \in EventsOf(e.run)' :
              /\ r.id = e.run /\ v.sequence < e.sequence
              /\ v.type = "FINAL_VALIDATION_ACCEPTED"
              /\ v.assessor = r.validator /\ r.validator # r.creator
    BY <1>1 DEF SuccessWasValidated
  <2>1. CASE e = event
    <3>1. PICK v \in EventsOf(run.id) : v.type = "FINAL_VALIDATION_ACCEPTED"
      BY <2>1 DEF AppendResearchRunEvent, ValidatedBefore
    <3>2. v \in runEvents /\ v.run = run.id /\ v.sequence < n + 1
      BY <3>1, <1>1, <1>4, <1>6 DEF EventsOf
    <3>3. v.assessor = run.validator /\ run.validator # run.creator
      BY <3>1, <3>2 DEF IInv, ValidatorInv, RunsInv
    <3> QED
      BY <2>1, <3>1, <3>2, <3>3, <1>1, <1>3
  <2>2. CASE e \in runEvents
    <3>1. PICK r \in researchRuns, v \in EventsOf(e.run) :
            /\ r.id = e.run /\ v.sequence < e.sequence
            /\ v.type = "FINAL_VALIDATION_ACCEPTED"
            /\ v.assessor = r.validator /\ r.validator # r.creator
      BY <2>2 DEF IInv, SuccessWasValidated
    <3>2. v \in EventsOf(e.run)'
      BY <1>3
    <3> QED
      BY <3>1, <3>2
  <2> QED
    BY <2>1, <2>2, <1>1
<1> QED
  BY <1>2, <1>7, <1>8, <1>9, <1>10 DEF IInv

LEMMA StepKeeps == IInv /\ [ResearchNext]_researchVars => IInv'
<1> SUFFICES ASSUME IInv, [ResearchNext]_researchVars PROVE IInv'
  OBVIOUS
<1>1. CASE \E run \in ResearchRunRecords : CreateRun(run)
  BY <1>1, CreateKeeps
<1>2. CASE \E run \in researchRuns, event \in RunEvents : AppendResearchRunEvent(run, event)
  BY <1>2, AppendKeeps
<1>3. CASE UNCHANGED researchVars
  BY <1>3 DEF researchVars, IInv, TypeInv, RunsInv, ValidatorInv, HeadEndsHistory, SuccessWasValidated,
              EventsOf
<1> QED
  BY <1>1, <1>2, <1>3 DEF ResearchNext

LEMMA Inductive == ResearchSpec => []IInv
BY InitHolds, StepKeeps, PTL DEF ResearchSpec

-----------------------------------------------------------------------------
(* A success rests on an earlier acceptance by the declared, independent    *)
(* validator (research_runs/service.py:175-200).                            *)
THEOREM SuccessValidated == ResearchSpec => []SuccessWasValidated
BY Inductive, PTL DEF IInv

(* Histories are numbered without gap and entered by their last event       *)
(* (research_runs/service.py:154-159, adaptation.py:85-88).                 *)
THEOREM HeadsEndHistories == ResearchSpec => []HeadEndsHistory
BY Inductive, PTL DEF IInv

(* Both: the history of every run holds.                                    *)
THEOREM HistoriesHold == ResearchSpec => []RunHistoriesHold
BY SuccessValidated, HeadsEndHistories, PTL DEF RunHistoriesHold

=============================================================================
