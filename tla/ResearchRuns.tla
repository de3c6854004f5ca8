------------------------------ MODULE ResearchRuns ------------------------------
(***************************************************************************)
(* Research runs and their lifecycle events                                 *)
(* (application/research_runs/service.py) under a policy that admits them.  *)
(* A submission holds the writer lock to its commit (module Coordinator),   *)
(* so an accepted one is one step and a rejected one changes nothing.       *)
(* Run event identifiers are numbers, which carry their order.              *)
(***************************************************************************)
EXTENDS Naturals, FiniteSets

CONSTANTS
  ResearchActors,  \* actor identities, pairwise independent
  ResearchRunIds,
  RunEventIds,   \* run event identifiers, a set of naturals
  NoAssessor

VARIABLES
  researchRuns,  \* research_runs
  runEvents,     \* research_run_events, in no order of their own
  runHeads       \* research_run_heads: the event appended last, if there is one

researchVars == <<researchRuns, runEvents, runHeads>>

(* PAUSED stands for RESUMED too, FAILED for CANCELLED.                     *)
Terminal == {"SUCCEEDED", "FAILED"}
(* The final validations carry an assessment, which names its assessor.     *)
Assessing == {"FINAL_VALIDATION_ACCEPTED", "FINAL_VALIDATION_REJECTED"}
EventTypes == {"STARTED", "PAUSED"} \cup Assessing \cup Terminal

EventsOf(run) == {e \in runEvents : e.run = run}

(* list_run_events returns the events ordered by their identifier.          *)
LastListed(run) == CHOOSE e \in EventsOf(run) : \A f \in EventsOf(run) : f.id <= e.id

-----------------------------------------------------------------------------
ResearchInit ==
  /\ researchRuns = {} /\ runEvents = {}
  /\ runHeads = [r \in ResearchRunIds |-> {}]

CreateRun(run) ==
  /\ \A r \in researchRuns : r.id # run.id
  /\ run.creator # run.validator
  /\ researchRuns' = researchRuns \cup {run}
  /\ UNCHANGED <<runEvents, runHeads>>

(* Mutant of Continues: any event that is not behind the history will do.   *)
ContinuesOrSkips(event) == event.sequence > Cardinality(EventsOf(event.run))

Continues(event) == event.sequence = Cardinality(EventsOf(event.run)) + 1

(* Mutant of ValidatedBefore: a rejected final validation is one, too.      *)
AssessedBefore(run) == \E e \in EventsOf(run) : e.type \in Assessing

ValidatedBefore(run) == \E e \in EventsOf(run) : e.type = "FINAL_VALIDATION_ACCEPTED"

(* An accepted final validation is the declared validator's.  A second      *)
(* record of an identifier fails on insertion, which undoes the submission. *)
AppendResearchRunEvent(run, event) ==
  /\ run.id = event.run
  /\ Continues(event)
  /\ IF EventsOf(run.id) = {}
     THEN event.type = "STARTED"
     ELSE LastListed(run.id).type \notin Terminal
  /\ event.type = "FINAL_VALIDATION_ACCEPTED" => event.assessor = run.validator
  /\ event.type = "SUCCEEDED" => ValidatedBefore(run.id)
  /\ \A e \in runEvents : e.id # event.id
  /\ runEvents' = runEvents \cup {event}
  /\ runHeads' = [runHeads EXCEPT ![run.id] = {event.id}]
  /\ UNCHANGED researchRuns

ResearchRunRecords == [id: ResearchRunIds, creator: ResearchActors, validator: ResearchActors]
RunEvents ==
  {e \in [id: RunEventIds, run: ResearchRunIds, sequence: 1..Cardinality(RunEventIds),
          type: EventTypes, assessor: ResearchActors \cup {NoAssessor}] :
     e.assessor \in ResearchActors <=> e.type \in Assessing}

ResearchNext ==
  \/ \E run \in ResearchRunRecords : CreateRun(run)
  \/ \E run \in researchRuns, event \in RunEvents : AppendResearchRunEvent(run, event)

ResearchSpec == ResearchInit /\ [][ResearchNext]_researchVars

-----------------------------------------------------------------------------
(* Properties.                                                              *)

(* A run succeeds only after its declared validator, who is not its         *)
(* creator, accepted it: in the history as it is numbered, whatever order   *)
(* clients appended in (research_runs/service.py:175-200).                  *)
SuccessWasValidated ==
  \A e \in runEvents :
    e.type = "SUCCEEDED" =>
      \E run \in researchRuns, v \in EventsOf(e.run) :
        /\ run.id = e.run /\ v.sequence < e.sequence
        /\ v.type = "FINAL_VALIDATION_ACCEPTED"
        /\ v.assessor = run.validator /\ run.validator # run.creator

(* The head a run's history is entered by names its event of the highest    *)
(* number, and the numbers leave no gap: two clients that read the same     *)
(* history cannot both continue it (research_runs/service.py:154-159).      *)
HeadEndsHistory ==
  \A r \in ResearchRunIds :
    /\ {e.sequence : e \in EventsOf(r)} = 1..Cardinality(EventsOf(r))
    /\ runHeads[r] = {e.id : e \in {f \in EventsOf(r) : f.sequence = Cardinality(EventsOf(r))}}

(* The history of a run, entered by its head, has no gap, and ends in       *)
(* success only after its validation.                                       *)
RunHistoriesHold == SuccessWasValidated /\ HeadEndsHistory

(* "terminal research runs cannot receive more events"                      *)
(* (research_runs/service.py:173): nothing follows a terminal event.        *)
TerminalRunsEnd ==
  \A e, f \in runEvents : e.run = f.run /\ e.type \in Terminal => f.sequence <= e.sequence

=============================================================================
