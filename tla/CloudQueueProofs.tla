-------------------------- MODULE CloudQueueProofs --------------------------
(***************************************************************************)
(* The composition implements both of its parts, so what is proved of the  *)
(* parts holds of the whole. Together with one invariant of the            *)
(* composition (the message of a request carries its job) this gives the   *)
(* properties that span the API and the workers.                           *)
(***************************************************************************)
EXTENDS CloudQueue, TLAPS

\* The constants of the composition satisfy the assumptions of both parts.
LEMMA PartAssumptions ==
    Work!QueueAssumption /\ Work!WorkerAssumption /\ Api!SubmissionAssumption
  BY CloudQueueAssumption
  DEF Work!QueueAssumption, Work!WorkerAssumption, Api!SubmissionAssumption

\* Every behaviour of the whole is one of JobSubmission: workers add no rows and
\* send no message of a request.
THEOREM ImplementsApi == Spec => Api!Spec
  <1>1. Init => Api!Init
    BY DEF Init
  <1>2. [Next]_vars => [Api!Next]_(Api!vars)
    <2> SUFFICES ASSUME [Next]_vars
                 PROVE  Api!Next \/ UNCHANGED Api!vars
      OBVIOUS
    <2>1. UNCHANGED apiVars /\ UNCHANGED <<Rows, Sent>> => UNCHANGED Api!vars
      BY DEF apiVars, Api!vars
    <2>2. UNCHANGED workerVars => UNCHANGED <<Rows, Sent>>
      BY DEF workerVars, Rows, Sent
    <2> QED
      BY <2>1, <2>2 DEF Next, vars, WorkerSide, HandlerSide, ApiCrash, Api!Next
  <1> QED
    BY <1>1, <1>2, PTL DEF Spec, Api!Spec

\* The API keeps its invariant whatever the workers do.
LEMMA ApiInvariant == Spec => []Api!SubmissionInv
  <1>1. Api!Spec => []Api!SubmissionInv
    BY PartAssumptions, Api!SubmissionSafety
  <1> QED
    BY <1>1, ImplementsApi, PTL

-----------------------------------------------------------------------------
(* QueueWorker asks of its submitters to send a job once, and after it has *)
(* a row: the API does.                                                    *)

\* The message of a request carries the job of that request, once it is sent.
OwnMessage == \A r \in Requests : body[r] = IF r \in Sent THEN r ELSE None

\* Bodies are only ever written by a publication.
LEMMA OnlyPublishWritesBodies ==
    ASSUME Work!Next
    PROVE  \/ UNCHANGED body
           \/ \E m \in Requests \union Duplicates, b \in Requests \union {Garbage} :
                Work!Publish(m, b)
  <1> USE DEF Work!storeVars, Work!queueVars, Work!vars
  <1>1. CASE Work!Environment
    BY <1>1
    DEF Work!Environment, Work!Submit, Work!Expire, Work!Reappear, Work!DeadLetter,
        Work!Redrive, Work!StatementLands, Work!Signal, Work!Crash, Work!Acknowledge
  <1>2. ASSUME NEW w \in Workers, Work!PollStep(w)
        PROVE  UNCHANGED body
    BY <1>2
    DEF Work!PollStep, Work!Start, Work!StartOneShot, Work!Receive, Work!ReceiveInvalid,
        Work!ReceiveLost, Work!ReceiveEmpty, Work!ReceiveFailed, Work!Deliver
  <1>3. ASSUME NEW w \in Workers, Work!MainStep(w)
        PROVE  UNCHANGED body
    BY <1>3
    DEF Work!MainStep, Work!ProcessStep, Work!StopPolling, Work!LeaseGranted,
        Work!LeaseRefused, Work!LookupFailed, Work!Lookup, Work!Transitioned,
        Work!TransitionRefused, Work!TransitionUnanswered, Work!Begin,
        Work!ProcessStores, Work!ProcessFails, Work!Join, Work!Delete,
        Work!DeleteFailed, Work!Acknowledge
  <1>4. ASSUME NEW w \in Workers, Work!RenewStep(w)
        PROVE  UNCHANGED body
    BY <1>4
    DEF Work!RenewStep, Work!RenewTick, Work!RenewOk, Work!RenewFailed,
        Work!RenewStopped, Work!RenewUnchanged
  <1> QED
    BY <1>1, <1>2, <1>3, <1>4 DEF Work!Next

\* Sending message m with body b leaves every other body alone.
LEMMA SentBody ==
    ASSUME Work!TypeOK,
           NEW m \in Requests \union Duplicates, NEW b \in Requests \union {Garbage},
           Work!Send(m, b)
    PROVE  /\ m \in Requests => m \notin Sent
           /\ \A r \in Requests : (r \in Sent' <=> r \in Sent \/ r = m)
           /\ \A r \in Requests : body'[r] = IF r = m THEN b ELSE body[r]
  BY DEF Work!TypeOK, Work!QueueTypeOK, Work!Send, Sent

\* The API sends a job after its INSERT, and only once.
LEMMA SendIsPublish ==
    ASSUME Work!TypeOK, OwnMessage, Api!MessageHasItsRow', NEW r \in Requests, SendOwn(r)
    PROVE  Work!Publish(r, r)
  <1>1. Work!Send(r, r)
    BY DEF SendOwn
  <1>2. UNCHANGED <<Work!storeVars, Work!workerVars, results, executions>>
    BY DEF SendOwn, Work!storeVars, Work!workerVars
  <1>3. r \notin Sent /\ r \in Sent'
    BY <1>1, SentBody
  <1>4. CASE "stray" \in WorkerFaults
    BY <1>1, <1>2, <1>4 DEF Work!Publish
  <1>5. CASE "stray" \notin WorkerFaults
    <2>1. Duplicates = {}
      BY <1>5, CloudQueueAssumption
    <2>2. \A n \in Requests \union Duplicates : body[n] # r
      BY <1>3, <2>1, CloudQueueAssumption DEF OwnMessage
    <2>3. status[r] # "ABSENT"
      BY <1>3 DEF Api!MessageHasItsRow, Rows, SendOwn
    <2> QED
      BY <1>1, <1>2, <2>2, <2>3 DEF Work!Publish
  <1> QED
    BY <1>4, <1>5

\* A step of the whole is one of the workers, or none to them.
LEMMA StepIsWorkersStep ==
    ASSUME Work!TypeOK, OwnMessage, Api!MessageHasItsRow', [Next]_vars
    PROVE  [Work!Next]_(Work!vars)
  <1>1. UNCHANGED workerVars => UNCHANGED Work!vars
    BY DEF workerVars, Work!vars, Work!storeVars, Work!queueVars, Work!workerVars
  <1>2. ASSUME NEW r \in Requests, Work!Submit(r) \/ Work!Publish(r, r)
        PROVE  Work!Next
    BY <1>2 DEF Work!Next, Work!Environment
  <1> QED
    BY <1>1, <1>2, SendIsPublish DEF Next, vars, WorkerSide, HandlerSide, ApiCrash

\* Only HandlerSide publishes for a request, and with the right body.
LEMMA OwnMessageStep ==
    ASSUME Work!TypeOK, OwnMessage, [Next]_vars
    PROVE  OwnMessage'
  <1>1. ASSUME UNCHANGED <<mstate, body>>
        PROVE  OwnMessage'
    BY <1>1 DEF OwnMessage, Sent
  <1>2. CASE WorkerSide
    <2>1. Work!Next /\ Sent' = Sent
      BY <1>2 DEF WorkerSide
    <2>2. CASE UNCHANGED body
      BY <2>1, <2>2 DEF OwnMessage
    <2>3. ASSUME NEW m \in Requests \union Duplicates, NEW b \in Requests \union {Garbage},
                 Work!Publish(m, b)
          PROVE  OwnMessage'
      <3>1. /\ m \in Requests => m \notin Sent
            /\ \A r \in Requests : (r \in Sent' <=> r \in Sent \/ r = m)
            /\ \A r \in Requests : body'[r] = IF r = m THEN b ELSE body[r]
        BY <2>3, SentBody DEF Work!Publish
      <3>2. m \notin Requests
        BY <2>1, <3>1
      <3> QED
        BY <2>1, <3>1, <3>2 DEF OwnMessage
    <2> QED
      BY <2>1, <2>2, <2>3, OnlyPublishWritesBodies
  <1>3. ASSUME NEW r \in Requests, HandlerSide(r)
        PROVE  OwnMessage'
    <2>1. CASE UNCHANGED workerVars
      BY <1>1, <2>1 DEF workerVars
    <2>2. CASE Work!Submit(r)
      BY <1>1, <2>2 DEF Work!Submit, Work!queueVars
    <2>3. CASE SendOwn(r)
      <3>1. /\ \A q \in Requests : (q \in Sent' <=> q \in Sent \/ q = r)
            /\ \A q \in Requests : body'[q] = IF q = r THEN r ELSE body[q]
        BY <2>3, SentBody DEF SendOwn
      <3> QED
        BY <3>1 DEF OwnMessage
    <2> QED
      BY <1>3, <2>1, <2>2, <2>3 DEF HandlerSide
  <1>4. CASE ApiCrash \/ UNCHANGED vars
    BY <1>1, <1>4 DEF ApiCrash, vars, workerVars
  <1> QED
    BY <1>2, <1>3, <1>4 DEF Next

\* The invariants of both parts hold in the composition, and each message
\* carries its own job.
LEMMA PartInvariants == Spec => [](Work!IInv /\ Api!SubmissionInv /\ OwnMessage)
  <1>1. Init => Work!IInv /\ OwnMessage
    <2>1. Work!Init => Work!IInv
      BY PartAssumptions, Work!InitInv
    <2> QED
      BY <2>1 DEF Init, Work!Init, Work!QueueInit, OwnMessage, Sent
  <1>2. ASSUME Work!IInv, OwnMessage, Api!SubmissionInv', [Next]_vars
        PROVE  (Work!IInv /\ OwnMessage)'
    <2>1. Work!TypeOK /\ Api!MessageHasItsRow'
      BY <1>2 DEF Work!IInv, Api!SubmissionInv
    <2>2. [Work!Next]_(Work!vars)
      BY <1>2, <2>1, StepIsWorkersStep
    <2> QED
      BY <1>2, <2>1, <2>2, PartAssumptions, Work!InductiveStep, OwnMessageStep
  <1> QED
    BY <1>1, <1>2, ApiInvariant, PTL DEF Spec

\* Every behaviour of the whole is one of QueueWorker: what the API does is a
\* Submit, a Publish or nothing to it.
THEOREM ImplementsWorkers == Spec => Work!Spec
  <1>1. Init => Work!Init
    BY DEF Init
  <1>2. Work!IInv => Work!TypeOK
    BY DEF Work!IInv
  <1>3. Api!SubmissionInv => Api!MessageHasItsRow
    BY DEF Api!SubmissionInv
  <1>4. ASSUME Work!TypeOK, OwnMessage, Api!MessageHasItsRow', [Next]_vars
        PROVE  [Work!Next]_(Work!vars)
    BY <1>4, StepIsWorkersStep
  <1> QED
    BY <1>1, <1>2, <1>3, <1>4, PartInvariants, PTL DEF Spec, Work!Spec

\* Each job, from the request that creates it to the last acknowledgement, takes
\* no step but those of its life cycle.
THEOREM WholeImplementsLifecycle == Spec => Work!ImplementsLifecycle
  <1>1. Work!Spec => Work!ImplementsLifecycle
    BY PartAssumptions, Work!Refinement
  <1> QED
    BY <1>1, ImplementsWorkers, PTL

-----------------------------------------------------------------------------
\* However late rows and messages arrive, a worker that acquired an uploaded
\* job finds the file the API stored for it.
THEOREM InputsAreFound == Spec => []ExecutionFindsItsInput
  <1>1. Work!IInv /\ Api!SubmissionInv => ExecutionFindsItsInput
    <2> SUFFICES ASSUME Work!OwnerInv, Api!RowHasItsFile,
                        NEW w \in Workers, NEW r \in Uploads, Work!Owns(w, r)
                 PROVE  r \in files
      BY DEF Work!IInv, Api!SubmissionInv, ExecutionFindsItsInput
    <2>1. status[r] = "PROCESSING"
      BY DEF Work!OwnerInv, Work!Owning, Work!Owns
    <2>2. r \in Rows
      BY <2>1, CloudQueueAssumption DEF Rows
    <2> QED
      BY <2>2 DEF Api!RowHasItsFile, Api!Durable
  <1> QED
    BY <1>1, PartInvariants, PTL

\* The message of a request is only delivered when its job has a row.
THEOREM DeliveriesAreKnown == Spec => []DeliveredJobIsKnown
  <1>1. Work!IInv /\ Api!SubmissionInv /\ OwnMessage => DeliveredJobIsKnown
    <2> SUFFICES ASSUME Work!TypeOK, Work!DeliveryInv, Api!MessageHasItsRow, OwnMessage,
                        NEW w \in Workers, delivery[w] \in Requests
                 PROVE  task[w] = delivery[w] /\ status[task[w]] # "ABSENT"
      BY DEF Work!IInv, Api!SubmissionInv, DeliveredJobIsKnown
    <2>1. mstate[delivery[w]] # "unsent" /\ body[delivery[w]] = task[w]
      BY CloudQueueAssumption DEF Work!DeliveryInv
    <2>2. delivery[w] \in Sent
      BY <2>1 DEF Sent
    <2> QED
      BY <2>1, <2>2 DEF OwnMessage, Api!MessageHasItsRow, Rows
  <1> QED
    BY <1>1, PartInvariants, PTL

\* A client that was told of a job holds one that waits, is in the DLQ or is done.
THEOREM CreatedJobsStayKnown == Spec => []CreatedJobIsAccountedFor
  <1>1. Work!IInv /\ Api!SubmissionInv /\ OwnMessage => CreatedJobIsAccountedFor
    <2> SUFFICES ASSUME Work!TypeOK, Work!AckedJobIsCompleted, Api!CreatedIsQueued,
                        OwnMessage, NEW r \in Requests, answer[r] = "created"
                 PROVE  \/ mstate[r] \in {"visible", "hidden", "dead"}
                        \/ mstate[r] = "deleted" /\ status[r] = "COMPLETED"
      BY DEF Work!IInv, Work!OutcomeInv, Api!SubmissionInv, CreatedJobIsAccountedFor
    <2>1. mstate[r] \in {"unsent", "visible", "hidden", "deleted", "dead"}
      BY DEF Work!TypeOK, Work!QueueTypeOK, Work!MessageStates
    <2>2. mstate[r] # "unsent"
      BY DEF Api!CreatedIsQueued, Sent
    <2>3. mstate[r] = "deleted" => status[r] = "COMPLETED"
      BY <2>2 DEF Work!AckedJobIsCompleted, Work!Acked, OwnMessage, Sent
    <2> QED
      BY <2>1, <2>2, <2>3
  <1> QED
    BY <1>1, PartInvariants, PTL

\* A job that was never sent was not announced as created, nor, as long as
\* connections do not end in the middle of an answer, as refused.
THEOREM UnheardJobsAreReported ==
    ASSUME "eof" \notin ApiFaults
    PROVE  Spec => []UnheardJobIsReported
  <1>1. Api!SubmissionInv => UnheardJobIsReported
    <2> SUFFICES ASSUME Api!TypeOK, Api!CreatedIsQueued, Api!RejectedLeavesNoJob,
                        NEW r \in Rows \ (Sent \union underway)
                 PROVE  answer[r] \in {"none", "error"}
      BY DEF Api!SubmissionInv, UnheardJobIsReported, Rows
    <2>1. answer[r] \in {"none", "created", "rejected", "error"}
      BY DEF Api!TypeOK, Api!Answers, Rows
    <2>2. answer[r] # "rejected"
      BY DEF Api!RejectedLeavesNoJob, Api!Durable, Rows
    <2>3. answer[r] # "created"
      BY DEF Api!CreatedIsQueued, Rows
    <2> QED
      BY <2>1, <2>2, <2>3
  <1> QED
    BY <1>1, PartInvariants, PTL
=============================================================================
