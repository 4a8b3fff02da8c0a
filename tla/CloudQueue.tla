----------------------------- MODULE CloudQueue -----------------------------
(***************************************************************************)
(* The whole service: the API process that creates jobs (JobSubmission)    *)
(* and the worker processes that execute them (QueueWorker), over the one  *)
(* table, the one queue and the one directory of files they share.         *)
(*                                                                         *)
(* A request r stands for the job it creates and for the message the       *)
(* service publishes for it. What the submission module keeps as its rows  *)
(* and its sent messages is read off the worker module's table and queue.  *)
(* A step is a step of one part that leaves what both share alone, or of   *)
(* both: an INSERT, or a message that reaches the queue.                   *)
(***************************************************************************)
EXTENDS Naturals

CONSTANTS
    Requests,           \* POST /api/v1/jobs requests, and the jobs they create
    Uploads,            \* those with a multipart body
    Duplicates,         \* messages that are not the service's own publication
    Workers, None, MaxReceive, Garbage, \* as in JobQueue and QueueWorker
    ApiFaults,          \* the Faults of JobSubmission
    WorkerFaults        \* the Faults of QueueWorker

VARIABLES
    status, unacked, mstate, body, receives, holder,    \* table and queue
    pc, signalled, renew, delivery, task, outcome,      \* the workers
    results, executions,
    handler, cancelled, cause, answer,                  \* the API process
    files,              \* requests whose input file is in place
    late, underway, doubts

\* The jobs with a row, and the requests whose own message was sent.
Rows == {r \in Requests : status[r] # "ABSENT"}
Sent == {r \in Requests : mstate[r] # "unsent"}

\* The parts, with the theorems about them for CloudQueueProofs to use.
Work ==
    INSTANCE QueueWorkerProofs
    WITH Jobs <- Requests, Messages <- Requests \union Duplicates,
         Bodies <- Requests \union {Garbage}, Faults <- WorkerFaults

Api ==
    INSTANCE JobSubmissionProofs
    WITH Faults <- ApiFaults, rows <- Rows, sent <- Sent

ASSUME CloudQueueAssumption ==
    /\ MaxReceive \in Nat \ {0}
    /\ None \notin Workers \union Requests \union Duplicates \union {Garbage}
    /\ Garbage \notin Requests
    /\ Duplicates \intersect Requests = {}
    /\ Uploads \subseteq Requests
    /\ WorkerFaults \subseteq Work!FaultKinds
    /\ ApiFaults \subseteq Api!FaultKinds
    /\ Duplicates # {} => "stray" \in WorkerFaults

workerVars ==
    <<status, unacked, mstate, body, receives, holder, pc, signalled, renew,
      delivery, task, outcome, results, executions>>
apiVars == <<handler, cancelled, cause, answer, files, late, underway, doubts>>
vars == <<workerVars, apiVars>>

Init == Work!Init /\ Api!Init

\* Workers, queue and database on their own.
WorkerSide == Work!Next /\ UNCHANGED apiVars /\ UNCHANGED <<Rows, Sent>>

\* SendMessage of the handler of r reaches the queue. That the job has a row by
\* then, which Work!Publish asks of a submitter, is for the API to see to.
SendOwn(r) ==
    /\ Work!Send(r, r)
    /\ UNCHANGED <<status, unacked, pc, signalled, renew, delivery, task, outcome,
                   results, executions>>

\* The handler of r, with the row or message its call creates.
HandlerSide(r) ==
    /\ \/ UNCHANGED workerVars
       \/ Work!Submit(r)
       \/ SendOwn(r)
    /\ Api!RequestStep(r)

ApiCrash == UNCHANGED workerVars /\ Api!Crash

Next ==
    \/ WorkerSide
    \/ \E r \in Requests : HandlerSide(r)
    \/ ApiCrash

Spec == Init /\ [][Next]_vars

\* A request that was accepted is handled to its end: every call of a handler
\* has a timeout.
HandlerRuns(r) == handler[r] \in Api!Busy /\ HandlerSide(r) /\ handler'[r] # handler[r]

FairSpec ==
    /\ Spec
    /\ Work!Fairness
    /\ \A r \in Requests : WF_vars(HandlerRuns(r))

-----------------------------------------------------------------------------
\* A worker that acquired an uploaded job finds its input: the file the API
\* stored is in place until the job is settled, whatever the API was told about
\* its INSERT and its SendMessage (Upload keeps it after ErrJobCreated).
ExecutionFindsItsInput ==
    \A w \in Workers, r \in Uploads : Work!Owns(w, r) => r \in files

\* The message the API sends never overtakes its row: a worker that looks the
\* job of such a delivery up finds it (Service.Create publishes after INSERT).
DeliveredJobIsKnown ==
    \A w \in Workers :
        delivery[w] \in Requests => task[w] = delivery[w] /\ status[task[w]] # "ABSENT"

\* A job no worker will hear of, because the API died or gave up between the
\* INSERT and SendMessage, was never announced to its client as created, and
\* never as refused either (the gap jobsubmission/service.go:54 admits).
UnheardJobIsReported ==
    \A r \in Rows \ (Sent \union underway) :
        handler[r] \in {"answered", "lost"} => answer[r] \in {"none", "error"}

\* A client that was told "created" holds a job whose message exists, waits in
\* the DLQ, or was removed because the job is COMPLETED.
CreatedJobIsAccountedFor ==
    \A r \in Requests :
        answer[r] = "created" =>
            \/ mstate[r] \in {"visible", "hidden", "dead"}
            \/ mstate[r] = "deleted" /\ status[r] = "COMPLETED"

\* No accepted request is lost silently: the client is told of an error, the
\* API process died, or the job is COMPLETED or its message in the DLQ.
\* Stranded PROCESSING jobs and failed ones end in the DLQ, with any crashes,
\* lost leases and failing calls on the way.
AcceptedRequestsEnd ==
    \A r \in Requests :
        handler[r] \in Api!Busy ~>
            \/ answer[r] \in {"rejected", "error"} \/ handler[r] = "lost"
            \/ status[r] = "COMPLETED" \/ mstate[r] = "dead"
=============================================================================
