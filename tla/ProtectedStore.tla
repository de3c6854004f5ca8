----------------------------- MODULE ProtectedStore -----------------------------
(***************************************************************************)
(* The store of protected expected outputs and the channel to the worker    *)
(* process that reads it (providers/storage/protected_evaluation.py).       *)
(* The store's lock admits one addition at a time, its steps interleave     *)
(* with those of the worker; any of them may fail, and the process of the   *)
(* store, or the worker, may end between two.  The capability's lock admits *)
(* one request at a time, which may time out before its answer comes.       *)
(* There is one store for a root; an output is its digest.                  *)
(***************************************************************************)
EXTENDS Naturals, Sequences

CONSTANTS
  Tasks,
  Digests,
  MaxRequests,   \* _MAX_WORKER_REQUEST_NUMBER, 10^20 - 1 in the code
  NoTask

ASSUME ProtectedAssumption == MaxRequests \in Nat /\ NoTask \notin Tasks

VARIABLES
  outputRows,      \* protected_expected_outputs, as committed: the digests of a task
  outputFiles,     \* the artifacts under the protected root
  addition,        \* the addition under way
  channel,         \* what the capability knows of its channel
  toWorker,        \* requests sent and not received
  toClient,        \* responses sent and not received
  worker,          \* the worker process and what it has read for a request
  protectedAnswers \* the answers callers were given, with what they asked

storeVars == <<outputRows, outputFiles, addition>>
channelVars == <<channel, toWorker, toClient, worker, protectedAnswers>>
protectedVars == <<storeVars, channelVars>>

NoAddition == [step |-> "NONE"]
Serving == [alive |-> TRUE, request |-> <<>>, row |-> {}]

ProtectedInit ==
  /\ outputRows = [t \in Tasks |-> {}]
  /\ outputFiles = {}
  /\ addition = NoAddition
  /\ channel = [usable |-> TRUE, closed |-> FALSE, number |-> 0, awaited |-> 0, task |-> NoTask]
  /\ toWorker = <<>> /\ toClient = <<>>
  /\ worker = Serving
  /\ protectedAnswers = {}

-----------------------------------------------------------------------------
(* Adding an expected output.                                               *)

(* A task that has an output already is a replay or a refusal, and either   *)
(* leaves the store as it is.                                               *)
LookUp(task, digest) ==
  /\ addition = NoAddition
  /\ outputRows[task] = {}
  /\ addition' = [step |-> "PUT", task |-> task, digest |-> digest, created |-> FALSE]
  /\ UNCHANGED <<outputRows, outputFiles, channelVars>>

PutArtifact ==
  /\ addition.step = "PUT"
  /\ addition' = [addition EXCEPT !.step = "INSERT", !.created = addition.digest \notin outputFiles]
  /\ outputFiles' = outputFiles \cup {addition.digest}
  /\ UNCHANGED <<outputRows, channelVars>>

(* Inserting and committing are one step for others; an exception may       *)
(* still come after the commit.                                             *)
CommitRow(raised) ==
  /\ addition.step = "INSERT"
  /\ outputRows' = [outputRows EXCEPT ![addition.task] = {addition.digest}]
  /\ addition' = IF raised THEN [addition EXCEPT !.step = "CLEAN"] ELSE NoAddition
  /\ UNCHANGED <<outputFiles, channelVars>>

(* The write, the insert or the commit raised, and was rolled back.         *)
AdditionFails ==
  /\ addition.step \in {"PUT", "INSERT"}
  /\ addition' = [addition EXCEPT !.step = "CLEAN"]
  /\ UNCHANGED <<outputRows, outputFiles, channelVars>>

(* Mutant of LeftOver: what the addition created is its own to remove.      *)
CreatedHere == IF addition.created THEN {addition.digest} ELSE {}

LeftOver ==
  IF addition.created /\ \A t \in Tasks : addition.digest \notin outputRows[t]
  THEN {addition.digest} ELSE {}

CleanUp ==
  /\ addition.step = "CLEAN"
  /\ outputFiles' = outputFiles \ LeftOver
  /\ addition' = NoAddition
  /\ UNCHANGED <<outputRows, channelVars>>

(* The process of the store ends, or its cleaning up raises, and another    *)
(* addition begins some time.                                               *)
StoreStops ==
  /\ addition # NoAddition
  /\ addition' = NoAddition
  /\ UNCHANGED <<outputRows, outputFiles, channelVars>>

-----------------------------------------------------------------------------
(* Asking the worker.                                                       *)

Idle == channel.awaited = 0 /\ ~channel.closed
Unusable == [channel EXCEPT !.usable = FALSE, !.awaited = 0]

(* A request above the limit raises and leaves the channel as it is; one to *)
(* a worker that is gone may fail to be sent; none follows a CLOSE.         *)
SendRequest(operation, task) ==
  /\ Idle /\ channel.usable
  /\ channel.number < MaxRequests
  /\ \/ /\ toWorker' = Append(toWorker, [id |-> channel.number + 1, operation |-> operation,
                                         task |-> task])
        /\ channel' = [channel EXCEPT !.number = @ + 1, !.awaited = channel.number + 1,
                                      !.task = task, !.usable = operation = "READ"]
     \/ /\ ~worker.alive
        /\ channel' = [Unusable EXCEPT !.number = @ + 1]
        /\ UNCHANGED toWorker
  /\ UNCHANGED <<storeVars, toClient, worker, protectedAnswers>>

ReceiveRequest ==
  /\ worker.alive /\ worker.request = <<>> /\ toWorker # <<>>
  /\ worker' = [worker EXCEPT !.request = <<Head(toWorker)>>,
       !.row = IF Head(toWorker).operation = "READ" THEN outputRows[Head(toWorker).task] ELSE {}]
  /\ toWorker' = Tail(toWorker)
  /\ UNCHANGED <<storeVars, channel, toClient, protectedAnswers>>

(* The row is read before the artifact, which may be gone by then.          *)
Answer(row) ==
  IF row = {} THEN "PROTECTED_OUTPUT_UNAVAILABLE"
  ELSE IF row \subseteq outputFiles THEN "OUTPUT" ELSE "PROTECTED_OUTPUT_INTEGRITY_FAILURE"

Respond ==
  \E i \in DOMAIN worker.request :
    LET request == worker.request[i]
    IN /\ worker.alive
       /\ toClient' = Append(toClient, [id |-> request.id, row |-> worker.row,
            code |-> IF request.operation = "READ" THEN Answer(worker.row) ELSE "CLOSED"])
       /\ worker' = [Serving EXCEPT !.alive = request.operation = "READ"]
       /\ UNCHANGED <<storeVars, channel, toWorker, protectedAnswers>>

WorkerEnds ==
  /\ worker.alive
  /\ worker' = [Serving EXCEPT !.alive = FALSE]
  /\ UNCHANGED <<storeVars, channel, toWorker, toClient, protectedAnswers>>

(* The first response there is has to be the awaited one.                   *)
ReceiveResponse ==
  /\ channel.awaited > 0 /\ toClient # <<>>
  /\ toClient' = Tail(toClient)
  /\ IF Head(toClient).id = channel.awaited
     THEN /\ channel' = [channel EXCEPT !.awaited = 0]
          /\ protectedAnswers' = protectedAnswers \cup
               {[task |-> channel.task, row |-> Head(toClient).row, code |-> Head(toClient).code]}
     ELSE channel' = Unusable /\ UNCHANGED protectedAnswers
  /\ UNCHANGED <<storeVars, toWorker, worker>>

(* Mutant of Unavailable: the caller may ask again.                         *)
AskedAgain == [channel EXCEPT !.awaited = 0]

(* No response in time, or the end of the pipe.                             *)
Unavailable == Unusable
ResponseMissing ==
  /\ channel.awaited > 0 /\ toClient = <<>>
  /\ channel' = Unavailable
  /\ UNCHANGED <<storeVars, toWorker, toClient, worker, protectedAnswers>>

(* Closing asks a worker that can be asked to end, then ends it anyway.     *)
Close ==
  /\ Idle
  /\ channel.usable /\ worker.alive => channel.number = MaxRequests
  /\ channel' = [Unusable EXCEPT !.closed = TRUE]
  /\ worker' = [Serving EXCEPT !.alive = FALSE]
  /\ toWorker' = <<>> /\ toClient' = <<>>
  /\ UNCHANGED <<storeVars, protectedAnswers>>

ProtectedNext ==
  \/ \E task \in Tasks, digest \in Digests : LookUp(task, digest)
  \/ \E raised \in BOOLEAN : CommitRow(raised)
  \/ PutArtifact \/ AdditionFails \/ CleanUp \/ StoreStops
  \/ \E task \in Tasks : SendRequest("READ", task)
  \/ SendRequest("CLOSE", NoTask)
  \/ ReceiveRequest \/ Respond \/ WorkerEnds \/ ReceiveResponse \/ ResponseMissing \/ Close

ProtectedSpec == ProtectedInit /\ [][ProtectedNext]_protectedVars

-----------------------------------------------------------------------------
(* Properties.                                                              *)

(* The output of every committed task can be read, and whoever asked for    *)
(* one was told so, whatever failed or ended between storing an artifact    *)
(* and committing its row, cleaning up after an exception included          *)
(* (protected_evaluation.py:251-318, 983-999).                              *)
OutputsStayReadable ==
  /\ \A t \in Tasks : outputRows[t] \subseteq outputFiles
  /\ \A a \in protectedAnswers : a.code # "PROTECTED_OUTPUT_INTEGRITY_FAILURE"

(* A request is never given the answer to another one: after a timeout or   *)
(* an answer out of step the channel is of no more use, and while it is     *)
(* used and nothing is asked, nothing is on its way                         *)
(* (protected_evaluation.py:400-429, 447-492).                              *)
ChannelInStep ==
  /\ \A a \in protectedAnswers : a.code = "OUTPUT" => a.row = outputRows[a.task]
  /\ Idle /\ channel.usable /\ worker.alive => toWorker = <<>> /\ toClient = <<>>
=============================================================================
