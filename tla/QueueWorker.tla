---------------------------- MODULE QueueWorker -----------------------------
(***************************************************************************)
(* Worker processes (cmd/worker) that receive job messages, keep them      *)
(* leased with a renewal goroutine, drive the job through its states and   *)
(* acknowledge the message: worker.QueueRunner, QueueProcessor, Worker.    *)
(*                                                                         *)
(* A worker process runs two goroutines. pc[w] is the call the main one is *)
(* in, renew[w] the state of the renewal goroutine processDelivery starts: *)
(*                                                                         *)
(*   poll    Run: top of the loop, or in Receive                           *)
(*   lease   processDelivery: the initial visibility extension             *)
(*   lookup  QueueProcessor.ProcessJob: FindByID                           *)
(*   claim   Worker.ProcessJob: MarkProcessing                             *)
(*   begin   Worker.ProcessJob: the context check before Process           *)
(*   run     Processor.Process                                             *)
(*   commit  MarkCompleted            fail    MarkFailed                   *)
(*   join    processDelivery: stopRenew and <-done                         *)
(*   delete  Run: Delete                                                   *)
(*                                                                         *)
(* A context is not a variable: each is done exactly when one of the two   *)
(* causes that cancel it has happened (SignalDone, ProcessDone, RenewDone).*)
(***************************************************************************)
EXTENDS JobStore, JobQueue

CONSTANTS
    Garbage,            \* a body jobqueue.Decode rejects
    Faults              \* the disturbances the environment may cause

FaultKinds == {
    "crash",            \* a worker process dies
    "signal",           \* SIGINT or SIGTERM
    "db",               \* a database call errs or times out
    "sqs",              \* an SQS call errs or times out
    "lapse",            \* a lease expires although it is being renewed
    "oneshot",          \* an operator also runs worker -job-id
    "stray"}            \* duplicate, undecodable or unfounded messages

ASSUME WorkerAssumption ==
    /\ Faults \subseteq FaultKinds
    /\ Garbage \notin Jobs
    /\ Bodies = Jobs \union {Garbage}
    /\ None \notin Jobs \union Messages \union {Garbage}

VARIABLES
    pc,                 \* pc[w]: where the main goroutine is
    signalled,          \* signalled[w]: the signal context is cancelled
    renew,              \* renew[w]: the renewal goroutine
    delivery,           \* delivery[w]: the message being processed, or None
    task,               \* task[w]: the job being processed, or None
    outcome,            \* outcome[w]: what ProcessJob returned
    results,            \* jobs whose result file is in place
    executions          \* history: how often Process was started for a job

workerVars == <<pc, signalled, renew, delivery, task, outcome>>
vars == <<storeVars, queueVars, workerVars, results, executions>>

Calls == {"stopped", "poll", "lease", "lookup", "claim", "begin", "run",
          "commit", "fail", "join", "delete"}
RenewStates == {"off", "waiting", "calling", "stopped", "failed"}

TypeOK ==
    /\ StoreTypeOK
    /\ QueueTypeOK
    /\ pc \in [Workers -> Calls]
    /\ signalled \in [Workers -> BOOLEAN]
    /\ renew \in [Workers -> RenewStates]
    /\ delivery \in [Workers -> Messages \union {None}]
    /\ task \in [Workers -> Jobs \union {None}]
    /\ outcome \in [Workers -> {"none", "ok", "error"}]
    /\ results \in SUBSET Jobs
    /\ executions \in [Jobs -> Nat]

Init ==
    /\ StoreInit
    /\ QueueInit
    /\ pc = [w \in Workers |-> "stopped"]
    /\ signalled = [w \in Workers |-> FALSE]
    /\ renew = [w \in Workers |-> "off"]
    /\ delivery = [w \in Workers |-> None]
    /\ task = [w \in Workers |-> None]
    /\ outcome = [w \in Workers |-> "none"]
    /\ results = {}
    /\ executions = [j \in Jobs |-> 0]

-----------------------------------------------------------------------------
(* Contexts and the moves of the main goroutine.                           *)

\* The context of Run, cancelled by newSignalContext.
SignalDone(w) == signalled[w]

\* processContext: also cancelled by the renewal goroutine when it fails.
ProcessDone(w) == signalled[w] \/ renew[w] = "failed"

\* Variant: stopRenew is forgotten.
RenewNotStopped(w) == signalled[w]

\* renewContext: also cancelled by stopRenew once ProcessJob has returned.
RenewDone(w) == signalled[w] \/ pc[w] = "join"

Goto(w, call) == pc' = [pc EXCEPT ![w] = call]

\* ProcessJob returns to processDelivery (or, one-shot, to run).
Return(w, o) ==
    /\ Goto(w, "join")
    /\ outcome' = [outcome EXCEPT ![w] = o]
    /\ UNCHANGED <<signalled, renew, delivery, task>>

\* The delivery is let go of: Run continues with call = "poll", or the process
\* ends with call = "stopped".
Leave(w, call) ==
    /\ Goto(w, call)
    /\ signalled' = [signalled EXCEPT ![w] = @ /\ call # "stopped"]
    /\ renew' = [renew EXCEPT ![w] = "off"]
    /\ delivery' = [delivery EXCEPT ![w] = None]
    /\ task' = [task EXCEPT ![w] = None]
    /\ outcome' = [outcome EXCEPT ![w] = "none"]

-----------------------------------------------------------------------------
(* The environment: submitters, servers, signals, crashes.                 *)

Submit(j) ==
    /\ Insert(j)
    /\ UNCHANGED <<queueVars, workerVars, results, executions>>

\* The submission service publishes one message for a job it has created.
\* Stray messages come from SDK retries and from other senders.
Publish(m, b) ==
    /\ \/ "stray" \in Faults
       \/ /\ b \in Jobs
          /\ status[b] # "ABSENT"
          /\ \A n \in Messages : body[n] # b
    /\ Send(m, b)
    /\ UNCHANGED <<storeVars, workerVars, results, executions>>

StatementLands(s) ==
    /\ CommitLate(s)
    /\ UNCHANGED <<queueVars, workerVars, results, executions>>

\* The lease of w on m is being kept: VisibilityLease shows that it does not
\* expire then as long as calls answer within their request timeout.
Leased(w, m) ==
    /\ delivery[w] = m
    /\ holder[m] = w
    /\ renew[w] # "failed"
    /\ ~signalled[w]

Unattended(m) == \A w \in Workers : ~Leased(w, m)

Expire(m) ==
    /\ "lapse" \in Faults \/ Unattended(m)
    /\ Reappear(m)
    /\ UNCHANGED <<storeVars, workerVars, results, executions>>

DeadLetter(m) ==
    /\ Redrive(m)
    /\ UNCHANGED <<storeVars, workerVars, results, executions>>

Signal(w) ==
    /\ "signal" \in Faults
    /\ pc[w] # "stopped"
    /\ signalled' = [signalled EXCEPT ![w] = TRUE]
    /\ UNCHANGED <<pc, renew, delivery, task, outcome>>
    /\ UNCHANGED <<storeVars, queueVars, results, executions>>

\* The UPDATE each of the three transition calls sends.
Target == [claim |-> "PROCESSING", commit |-> "COMPLETED", fail |-> "FAILED"]

\* The process dies. A request it was waiting for may still be served.
Crash(w) ==
    /\ "crash" \in Faults
    /\ pc[w] # "stopped"
    /\ IF pc[w] \in DOMAIN Target
       THEN Unanswered(task[w], Target[pc[w]])
       ELSE UNCHANGED storeVars
    /\ \/ UNCHANGED queueVars
       \/ pc[w] = "delete" /\ Acknowledge(w, delivery[w])
    /\ Leave(w, "stopped")
    /\ UNCHANGED <<results, executions>>

-----------------------------------------------------------------------------
(* QueueRunner.Run                                                         *)

Start(w) ==
    /\ pc[w] = "stopped"
    /\ Goto(w, "poll")
    /\ UNCHANGED <<signalled, renew, delivery, task, outcome>>
    /\ UNCHANGED <<storeVars, queueVars, results, executions>>

\* worker -job-id: Worker.ProcessJob without queue, lookup or renewal.
StartOneShot(w, j) ==
    /\ "oneshot" \in Faults
    /\ pc[w] = "stopped"
    /\ Goto(w, "claim")
    /\ task' = [task EXCEPT ![w] = j]
    /\ UNCHANGED <<signalled, renew, delivery, outcome>>
    /\ UNCHANGED <<storeVars, queueVars, results, executions>>

Receive(w, m) ==
    /\ pc[w] = "poll"
    /\ body[m] # Garbage
    /\ Deliver(w, m)
    /\ Goto(w, "lease")
    /\ delivery' = [delivery EXCEPT ![w] = m]
    /\ task' = [task EXCEPT ![w] = body[m]]
    /\ UNCHANGED <<signalled, renew, outcome>>
    /\ UNCHANGED <<storeVars, results, executions>>

\* ErrInvalidDelivery: the message is retained and polling goes on.
ReceiveInvalid(w, m) ==
    /\ pc[w] = "poll"
    /\ body[m] = Garbage
    /\ Deliver(w, m)
    /\ UNCHANGED <<storeVars, workerVars, results, executions>>

\* ErrNoMessage: the long poll ended empty.
ReceiveEmpty(w) ==
    /\ pc[w] = "poll"
    /\ UNCHANGED vars

\* The response with m is lost (the SDK asks again) or comes too late for a
\* Receive that was cancelled.
ReceiveLost(w, m) ==
    /\ "sqs" \in Faults \/ SignalDone(w)
    /\ pc[w] = "poll"
    /\ Deliver(None, m)
    /\ UNCHANGED <<storeVars, workerVars, results, executions>>

\* Any other error of Receive ends Run.
ReceiveFailed(w) ==
    /\ "sqs" \in Faults
    /\ pc[w] = "poll"
    /\ Leave(w, "stopped")
    /\ UNCHANGED <<storeVars, queueVars, results, executions>>

\* Variant: the cancellation of Receive is taken for an empty poll.
StopPollingNever(w) ==
    /\ pc[w] = "poll"
    /\ SignalDone(w)
    /\ UNCHANGED vars

\* The context is done at the top of the loop, or cancels Receive.
StopPolling(w) ==
    /\ pc[w] = "poll"
    /\ SignalDone(w)
    /\ Leave(w, "stopped")
    /\ UNCHANGED <<storeVars, queueVars, results, executions>>

-----------------------------------------------------------------------------
(* QueueRunner.processDelivery                                             *)

\* The initial extension succeeds: the renewal goroutine starts, unless the
\* context was cancelled meanwhile.
LeaseGranted(w) ==
    /\ pc[w] = "lease"
    /\ InFlight(delivery[w])
    /\ IF SignalDone(w)
       THEN Leave(w, "stopped")
       ELSE /\ Goto(w, "lookup")
            /\ renew' = [renew EXCEPT ![w] = "waiting"]
            /\ UNCHANGED <<signalled, delivery, task, outcome>>
    /\ UNCHANGED <<storeVars, queueVars, results, executions>>

LeaseRefused(w) ==
    /\ pc[w] = "lease"
    /\ \/ "sqs" \in Faults \/ SignalDone(w)
       \/ ~InFlight(delivery[w]) \/ holder[delivery[w]] # w
    /\ Leave(w, "stopped")
    /\ UNCHANGED <<storeVars, queueVars, results, executions>>

RenewUnchanged ==
    /\ UNCHANGED <<pc, signalled, delivery, task, outcome>>
    /\ UNCHANGED <<storeVars, queueVars, results, executions>>

\* The ticker fires and renewContext is still live.
RenewTick(w) ==
    /\ renew[w] = "waiting"
    /\ ~RenewDone(w)
    /\ renew' = [renew EXCEPT ![w] = "calling"]
    /\ RenewUnchanged

RenewOk(w) ==
    /\ renew[w] = "calling"
    /\ InFlight(delivery[w])
    /\ renew' = [renew EXCEPT ![w] = "waiting"]
    /\ RenewUnchanged

\* A provider error or the request's own deadline: cancelProcess.
RenewFailed(w) ==
    /\ renew[w] = "calling"
    /\ \/ "sqs" \in Faults
       \/ ~InFlight(delivery[w]) \/ holder[delivery[w]] # w
    /\ renew' = [renew EXCEPT ![w] = "failed"]
    /\ RenewUnchanged

\* The goroutine sees its context done, or its call ends with nothing but
\* that cancellation.
RenewStopped(w) ==
    /\ renew[w] \in {"waiting", "calling"}
    /\ RenewDone(w)
    /\ renew' = [renew EXCEPT ![w] = "stopped"]
    /\ RenewUnchanged

\* Variant: Run does not wait for the goroutine.
JoinWithoutWaiting(w) ==
    /\ pc[w] = "join"
    /\ IF SignalDone(w) \/ renew[w] \in {"off", "failed"} THEN Leave(w, "stopped")
       ELSE IF outcome[w] = "error" THEN Leave(w, "poll")
       ELSE /\ Goto(w, "delete")
            /\ UNCHANGED <<signalled, renew, delivery, task, outcome>>
    /\ UNCHANGED <<storeVars, queueVars, results, executions>>

\* Variant: a failed renewal is handled like a failed job.
JoinKeepsPolling(w) ==
    /\ pc[w] = "join"
    /\ renew[w] \in {"off", "stopped", "failed"}
    /\ IF SignalDone(w) \/ renew[w] = "off" THEN Leave(w, "stopped")
       ELSE IF outcome[w] = "error" \/ renew[w] = "failed" THEN Leave(w, "poll")
       ELSE /\ Goto(w, "delete")
            /\ UNCHANGED <<signalled, renew, delivery, task, outcome>>
    /\ UNCHANGED <<storeVars, queueVars, results, executions>>

\* Variant: the message of a job that succeeded is not deleted.
JoinWithoutDelete(w) ==
    /\ pc[w] = "join"
    /\ renew[w] \in {"off", "stopped", "failed"}
    /\ Leave(w, IF SignalDone(w) \/ renew[w] # "stopped" THEN "stopped" ELSE "poll")
    /\ UNCHANGED <<storeVars, queueVars, results, executions>>

\* <-done, then the checks of Run in their order: context, lease failure,
\* processing failure.
Join(w) ==
    /\ pc[w] = "join"
    /\ renew[w] \in {"off", "stopped", "failed"}
    /\ IF SignalDone(w) \/ renew[w] # "stopped" THEN Leave(w, "stopped")
       ELSE IF outcome[w] = "error" THEN Leave(w, "poll")
       ELSE /\ Goto(w, "delete")
            /\ UNCHANGED <<signalled, renew, delivery, task, outcome>>
    /\ UNCHANGED <<storeVars, queueVars, results, executions>>

Delete(w) ==
    /\ pc[w] = "delete"
    /\ Acknowledge(w, delivery[w])
    /\ Leave(w, "poll")
    /\ UNCHANGED <<storeVars, results, executions>>

\* Delete errs: the request was not served, or was but the answer got lost.
DeleteFailed(w) ==
    /\ pc[w] = "delete"
    /\ "sqs" \in Faults \/ SignalDone(w)
    /\ UNCHANGED queueVars \/ Acknowledge(w, delivery[w])
    /\ Leave(w, "stopped")
    /\ UNCHANGED <<storeVars, results, executions>>

-----------------------------------------------------------------------------
(* QueueProcessor.ProcessJob                                               *)

LookupFailed(w) ==
    /\ pc[w] = "lookup"
    /\ "db" \in Faults \/ ProcessDone(w)
    /\ Return(w, "error")
    /\ UNCHANGED <<storeVars, queueVars, results, executions>>

\* Variant: whatever cannot be executed counts as done.
LookupDropsConflict(w) ==
    /\ pc[w] = "lookup"
    /\ ~ProcessDone(w)
    /\ IF status[task[w]] = "PENDING"
       THEN /\ Goto(w, "claim")
            /\ UNCHANGED <<signalled, renew, delivery, task, outcome>>
       ELSE Return(w, "ok")
    /\ UNCHANGED <<storeVars, queueVars, results, executions>>

\* The switch over the row's status. A job that is FAILED, PROCESSING or has no
\* row is an error, so its message is retained.
Lookup(w) ==
    /\ pc[w] = "lookup"
    /\ ~ProcessDone(w)
    /\ CASE status[task[w]] = "COMPLETED" -> Return(w, "ok")
         [] status[task[w]] = "PENDING" ->
                /\ Goto(w, "claim")
                /\ UNCHANGED <<signalled, renew, delivery, task, outcome>>
         [] OTHER -> Return(w, "error")
    /\ UNCHANGED <<storeVars, queueVars, results, executions>>

-----------------------------------------------------------------------------
(* Worker.ProcessJob                                                       *)

\* MarkProcessing, MarkCompleted or MarkFailed updated the row.
Transitioned(w) ==
    /\ pc[w] \in DOMAIN Target
    /\ Updated(task[w], Target[pc[w]])
    /\ IF pc[w] = "claim"
       THEN /\ Goto(w, "begin")
            /\ UNCHANGED <<signalled, renew, delivery, task, outcome>>
       ELSE Return(w, IF pc[w] = "commit" THEN "ok" ELSE "error")
    /\ UNCHANGED <<queueVars, results, executions>>

TransitionRefused(w) ==
    /\ pc[w] \in DOMAIN Target
    /\ Missed(task[w], Target[pc[w]])
    /\ Return(w, "error")
    /\ UNCHANGED <<queueVars, results, executions>>

TransitionUnanswered(w) ==
    /\ pc[w] \in DOMAIN Target
    /\ "db" \in Faults \/ ProcessDone(w)
    /\ Unanswered(task[w], Target[pc[w]])
    /\ Return(w, "error")
    /\ UNCHANGED <<queueVars, results, executions>>

\* The context check after MarkProcessing, then the call of Process.
Begin(w) ==
    /\ pc[w] = "begin"
    /\ IF ProcessDone(w)
       THEN Return(w, "error") /\ UNCHANGED executions
       ELSE /\ Goto(w, "run")
            /\ executions' = [executions EXCEPT ![task[w]] = @ + 1]
            /\ UNCHANGED <<signalled, renew, delivery, task, outcome>>
    /\ UNCHANGED <<storeVars, queueVars, results>>

\* MarkCompleted and MarkFailed get the context Process got. When it is done
\* before the call nothing is sent and the call errs.
Record(w, call) ==
    IF ProcessDone(w)
    THEN Return(w, "error")
    ELSE /\ Goto(w, call)
         /\ UNCHANGED <<signalled, renew, delivery, task, outcome>>

\* Process stored the result file and returned its key.
ProcessStores(w) ==
    /\ pc[w] = "run"
    /\ results' = results \union {task[w]}
    /\ Record(w, "commit")
    /\ UNCHANGED <<storeVars, queueVars, executions>>

\* Variant: the error is returned without MarkFailed.
ProcessFailsUnrecorded(w) ==
    /\ pc[w] = "run"
    /\ Return(w, "error")
    /\ UNCHANGED <<storeVars, queueVars, results, executions>>

\* Variant: the error comes from a step after the rename of Put.
ProcessFailsStored(w) ==
    /\ pc[w] = "run"
    /\ results' = results \union {task[w]}
    /\ Record(w, "fail")
    /\ UNCHANGED <<storeVars, queueVars, executions>>

\* Process returned an error: no result file was put in place.
ProcessFails(w) ==
    /\ pc[w] = "run"
    /\ Record(w, "fail")
    /\ UNCHANGED <<storeVars, queueVars, results, executions>>

-----------------------------------------------------------------------------
Environment ==
    \/ \E j \in Jobs : Submit(j)
    \/ \E m \in Messages, b \in Bodies : Publish(m, b)
    \/ \E m \in Messages : Expire(m) \/ DeadLetter(m)
    \/ \E s \in unacked : StatementLands(s)
    \/ \E w \in Workers : Signal(w) \/ Crash(w)

\* A job's path through Worker.ProcessJob.
ProcessStep(w) ==
    \/ Transitioned(w) \/ TransitionRefused(w) \/ TransitionUnanswered(w)
    \/ Begin(w) \/ ProcessStores(w) \/ ProcessFails(w)

\* What the main goroutine does next on its own, once it has a delivery.
MainStep(w) ==
    \/ StopPolling(w)
    \/ LeaseGranted(w) \/ LeaseRefused(w)
    \/ LookupFailed(w) \/ Lookup(w)
    \/ ProcessStep(w)
    \/ Join(w) \/ Delete(w) \/ DeleteFailed(w)

RenewStep(w) == RenewTick(w) \/ RenewOk(w) \/ RenewFailed(w) \/ RenewStopped(w)

PollStep(w) ==
    \/ Start(w)
    \/ \E j \in Jobs : StartOneShot(w, j)
    \/ \E m \in Messages : Receive(w, m) \/ ReceiveInvalid(w, m) \/ ReceiveLost(w, m)
    \/ ReceiveEmpty(w) \/ ReceiveFailed(w)

Next ==
    \/ Environment
    \/ \E w \in Workers : PollStep(w) \/ MainStep(w) \/ RenewStep(w)

Spec == Init /\ [][Next]_vars

\* Every goroutine runs on. A stopped worker is started again by its operator.
\* The timeout of a message nobody renews and the redrive policy take their
\* course, and the queue serves a message it is asked for again and again.
Fairness ==
    /\ \A w \in Workers :
        WF_vars(MainStep(w)) /\ WF_vars(RenewStep(w)) /\ WF_vars(Start(w))
    /\ \A m \in Messages :
        /\ WF_vars(Unattended(m) /\ Expire(m)) /\ WF_vars(DeadLetter(m))
        /\ SF_vars(\E w \in Workers : Receive(w, m) \/ ReceiveInvalid(w, m))

FairSpec == Spec /\ Fairness

-----------------------------------------------------------------------------
(* Safety.                                                                 *)

\* w has acquired j and has not returned from Worker.ProcessJob yet.
Owns(w, j) == task[w] = j /\ pc[w] \in {"begin", "run", "commit", "fail"}

Acked == {m \in Messages : mstate[m] = "deleted"}

\* A message leaves the queue only when its job is COMPLETED, whoever deletes
\* it and with whichever receipt handle (QueueRunner.Run deletes after success).
AckedJobIsCompleted == \A m \in Acked : status[body[m]] = "COMPLETED"

\* At most one worker is between MarkProcessing and the end of ProcessJob for a
\* job, however often its message is delivered (atomic PENDING acquisition).
SingleOwner ==
    \A j \in Jobs : \A v, w \in Workers : Owns(v, j) /\ Owns(w, j) => v = w

\* Redelivery, restarts and late statements never run the Processor twice.
AtMostOneExecution == \A j \in Jobs : executions[j] <= 1

\* A COMPLETED job's result file is in place, and a FAILED job has none, even
\* when the UPDATE lands after its worker is gone (Put before MarkCompleted).
ResultMatchesStatus ==
    \A j \in Jobs :
        /\ status[j] = "COMPLETED" => j \in results
        /\ status[j] = "FAILED" => j \notin results

\* While no call fails and nobody is stopped, a PROCESSING job is in the hands
\* of a worker: none is stranded (Worker.ProcessJob records every outcome).
ProcessingIsOwned ==
    \A j \in Jobs :
        status[j] = "PROCESSING" => \E w \in Workers : Owns(w, j)

\* Without faults only the message of a FAILED job reaches the DLQ: a leased
\* message is not redelivered while its job runs (renewal in processDelivery).
DeadLettersAreFailures ==
    \A m \in Messages : mstate[m] = "dead" => status[body[m]] = "FAILED"

\* The renewal goroutine never outlives its delivery, and Delete is called only
\* after it ended without a lease failure (<-done in processDelivery).
RenewalIsJoined ==
    \A w \in Workers :
        /\ renew[w] # "off" => delivery[w] # None
        /\ pc[w] = "delete" => renew[w] = "stopped" /\ outcome[w] = "ok"

\* The worker implements the life cycle promised of each job.
Lifecycle ==
    INSTANCE JobLifecycle
    WITH phase <- status, runs <- executions, stored <- results,
         acked <- {body[m] : m \in Acked}

\* Every step of workers, queue and database is a step of that life cycle.
ImplementsLifecycle == Lifecycle!Spec

-----------------------------------------------------------------------------
(* The inductive invariant behind the safety properties.                   *)

Owning == {"begin", "run", "commit", "fail"}

\* A worker past poll has a job; with a queue delivery, the one its message
\* names. Sent messages have a body.
DeliveryInv ==
    /\ \A m \in Messages : mstate[m] # "unsent" => body[m] \in Bodies
    /\ \A w \in Workers :
        /\ pc[w] \notin {"stopped", "poll"} => task[w] \in Jobs
        /\ pc[w] \in {"stopped", "poll"} => delivery[w] = None
        /\ pc[w] = "lease" => delivery[w] # None
        /\ delivery[w] # None =>
            mstate[delivery[w]] # "unsent" /\ body[delivery[w]] = task[w]

\* An owned job is PROCESSING, and how far it got shows in its history: not
\* executed at begin, executed once from run on, result in place at commit.
OwnerInv ==
    \A w \in Workers : pc[w] \in Owning =>
        /\ status[task[w]] = "PROCESSING"
        /\ executions[task[w]] = IF pc[w] = "begin" THEN 0 ELSE 1
        /\ task[w] \in results <=> pc[w] = "commit"

\* A job that was never acquired has no history; a result needs an execution.
HistoryInv ==
    /\ AtMostOneExecution
    /\ ResultMatchesStatus
    /\ \A j \in Jobs :
        /\ status[j] \in {"ABSENT", "PENDING"} => executions[j] = 0
        /\ j \in results => executions[j] = 1

\* A final statement still on its way was sent by the job's only owner, which
\* has given the job up, so nobody can contradict it any more.
UnackedInv ==
    \A s \in unacked : s.to # "PROCESSING" =>
        /\ status[s.job] \notin {"ABSENT", "PENDING"}
        /\ executions[s.job] = 1
        /\ s.job \in results <=> s.to = "COMPLETED"
        /\ \A w \in Workers : ~Owns(w, s.job)

\* Success is only reported, and acknowledged, for a COMPLETED job.
OutcomeInv ==
    /\ \A w \in Workers :
        /\ pc[w] = "join" => outcome[w] # "none"
        /\ pc[w] \in {"join", "delete"} /\ outcome[w] = "ok" =>
            status[task[w]] = "COMPLETED"
    /\ \A m \in Acked : body[m] \in Jobs
    /\ AckedJobIsCompleted

\* Together with SingleOwner these are preserved by every step.
IInv ==
    /\ TypeOK
    /\ DeliveryInv
    /\ RenewalIsJoined
    /\ SingleOwner
    /\ OwnerInv
    /\ HistoryInv
    /\ UnackedInv
    /\ OutcomeInv

-----------------------------------------------------------------------------
(* Liveness.                                                               *)

\* Every message ends, acknowledged or in the DLQ, whatever fails on the way
\* (redrive policy of init-aws.sh; retained messages come back).
QueueDrains ==
    \A m \in Messages : mstate[m] = "visible" ~> mstate[m] \in {"deleted", "dead"}

\* A worker that takes a delivery always lets go of it again: processDelivery
\* never waits forever for its goroutine, nor the goroutine for it.
DeliveryEnds ==
    \A w \in Workers : pc[w] = "lease" ~> pc[w] \in {"poll", "stopped"}

\* SIGTERM ends the process, wherever it is (Run returns nil on a done context).
ShutdownCompletes == \A w \in Workers : signalled[w] ~> pc[w] = "stopped"

\* A lost lease ends the process: cancelProcess, join, fatal error from Run.
LostLeaseStopsWorker ==
    \A w \in Workers : renew[w] = "failed" ~> pc[w] = "stopped"

\* Without faults every submitted job whose message was sent is settled.
JobsSettle ==
    \A m \in Messages :
        mstate[m] = "visible" ~>
            /\ mstate[m] # "unsent"
            /\ status[body[m]] \in {"COMPLETED", "FAILED"}
=============================================================================
