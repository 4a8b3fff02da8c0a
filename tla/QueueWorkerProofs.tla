------------------------- MODULE QueueWorkerProofs --------------------------
(***************************************************************************)
(* The safety of QueueWorker for any number of workers, jobs, messages and *)
(* receives and under every fault: IInv is inductive, the safety           *)
(* properties follow from it, and so does the refinement of JobLifecycle.  *)
(*                                                                         *)
(* Most actions are one of a few shapes: the worker gives up what it holds *)
(* (GivesUp), moves on with it (GotoStep), or only the queue moves         *)
(* (QueueStep). The lemmas treat the shapes; InitInv and the lemmas after  *)
(* it go through the actions.                                              *)
(***************************************************************************)
EXTENDS QueueWorker, TLAPS

\* What a worker that gives its job up leaves of the shared state.
GivesUp(w) ==
    /\ UNCHANGED <<status, results, executions, body>>
    /\ QueueTypeOK'
    /\ \/ unacked' = unacked
       \/ /\ pc[w] \in DOMAIN Target
          /\ unacked' = unacked \union {[job |-> task[w], to |-> Target[pc[w]]]}
    /\ \A m \in Messages :
        \/ mstate'[m] = mstate[m]
        \/ /\ mstate[m] # "unsent" /\ mstate'[m] = "deleted"
           /\ body[m] \in Jobs /\ status[body[m]] = "COMPLETED"

\* The statements left behind by a worker that gives its job up: none or its own,
\* and nobody is left who could contradict that one.
LEMMA GivesUpUnacked ==
    ASSUME IInv, NEW w \in Workers, GivesUp(w),
           pc' = [pc EXCEPT ![w] = pc'[w]], pc'[w] \notin Owning,
           task' = [task EXCEPT ![w] = task'[w]]
    PROVE  unacked' \in SUBSET Statements /\ UnackedInv'
  <1>1. CASE unacked' = unacked
    BY <1>1 DEF IInv, TypeOK, StoreTypeOK, UnackedInv, GivesUp, Owns, Owning
  <1>2. CASE /\ pc[w] \in DOMAIN Target
             /\ unacked' = unacked \union {[job |-> task[w], to |-> Target[pc[w]]]}
    <2> DEFINE s == [job |-> task[w], to |-> Target[pc[w]]]
    <2>1. pc[w] \in {"claim", "commit", "fail"} /\ task[w] \in Jobs
      BY <1>2 DEF Target, IInv, DeliveryInv
    <2>2. s \in Statements
      BY <2>1 DEF Statements, Targets, Target
    <2>3. ASSUME s.to # "PROCESSING"
          PROVE  /\ status[s.job] = "PROCESSING"
                 /\ executions[s.job] = 1
                 /\ s.job \in results <=> s.to = "COMPLETED"
                 /\ \A v \in Workers : v # w => ~Owns(v, s.job)
      BY <2>1, <2>3 DEF Target, IInv, OwnerInv, SingleOwner, Owns, Owning
    <2> HIDE DEF s
    <2>4. QED
      BY <1>2, <2>2, <2>3 DEF IInv, TypeOK, StoreTypeOK, UnackedInv, GivesUp, Owns, Owning, s
  <1> QED
    BY <1>1, <1>2 DEF GivesUp

\* A worker that lets its delivery go and polls again or stops keeps the
\* invariant.
LEMMA LeaveStep ==
    ASSUME IInv, NEW w \in Workers, NEW call \in {"poll", "stopped"},
           Leave(w, call), GivesUp(w)
    PROVE  IInv'
  <1>1. /\ pc' \in [Workers -> Calls] /\ pc'[w] = call
        /\ signalled' \in [Workers -> BOOLEAN]
        /\ renew' \in [Workers -> RenewStates] /\ renew'[w] = "off"
        /\ delivery' \in [Workers -> Messages \union {None}] /\ delivery'[w] = None
        /\ task' \in [Workers -> Jobs \union {None}] /\ task'[w] = None
        /\ outcome' \in [Workers -> {"none", "ok", "error"}] /\ outcome'[w] = "none"
    BY DEF IInv, TypeOK, Leave, Goto, Calls, RenewStates
  <1>2. \A v \in Workers \ {w} :
            /\ pc'[v] = pc[v] /\ renew'[v] = renew[v] /\ delivery'[v] = delivery[v]
            /\ task'[v] = task[v] /\ outcome'[v] = outcome[v]
    BY DEF IInv, TypeOK, Leave, Goto
  <1>3. unacked' \in SUBSET Statements /\ UnackedInv'
    BY <1>1, GivesUpUnacked DEF Leave, Goto, Owning, IInv, TypeOK
  <1>4. TypeOK'
    BY <1>1, <1>3 DEF IInv, TypeOK, StoreTypeOK, GivesUp
  <1>5. DeliveryInv' /\ RenewalIsJoined'
    BY <1>1, <1>2 DEF IInv, DeliveryInv, RenewalIsJoined, GivesUp
  <1>6. SingleOwner' /\ OwnerInv'
    BY <1>1, <1>2 DEF IInv, SingleOwner, OwnerInv, Owns, Owning, GivesUp
  <1>7. HistoryInv'
    BY DEF IInv, HistoryInv, AtMostOneExecution, ResultMatchesStatus, GivesUp
  <1>8. OutcomeInv'
    BY <1>1, <1>2 DEF IInv, OutcomeInv, AckedJobIsCompleted, Acked, GivesUp
  <1> QED
    BY <1>3, <1>4, <1>5, <1>6, <1>7, <1>8 DEF IInv

\* ProcessJob returning an error, or success for a COMPLETED job, keeps the
\* invariant.
LEMMA ReturnStep ==
    ASSUME IInv, NEW w \in Workers, NEW o \in {"ok", "error"},
           pc[w] \notin {"stopped", "poll", "delete"},
           o = "ok" => status[task[w]] = "COMPLETED",
           Return(w, o), GivesUp(w)
    PROVE  IInv'
  <1>1. /\ pc' \in [Workers -> Calls] /\ pc'[w] = "join"
        /\ outcome' \in [Workers -> {"none", "ok", "error"}] /\ outcome'[w] = o
        /\ UNCHANGED <<signalled, renew, delivery, task>>
    BY DEF IInv, TypeOK, Return, Goto, Calls
  <1>2. \A v \in Workers \ {w} : pc'[v] = pc[v] /\ outcome'[v] = outcome[v]
    BY DEF IInv, TypeOK, Return, Goto
  <1>3. unacked' \in SUBSET Statements /\ UnackedInv'
    BY <1>1, GivesUpUnacked DEF Return, Goto, Owning, IInv, TypeOK
  <1>4. TypeOK'
    BY <1>1, <1>3 DEF IInv, TypeOK, StoreTypeOK, GivesUp
  <1>5. DeliveryInv' /\ RenewalIsJoined'
    BY <1>1, <1>2 DEF IInv, TypeOK, DeliveryInv, RenewalIsJoined, GivesUp
  <1>6. SingleOwner' /\ OwnerInv'
    BY <1>1, <1>2 DEF IInv, SingleOwner, OwnerInv, Owns, Owning, GivesUp
  <1>7. HistoryInv'
    BY DEF IInv, HistoryInv, AtMostOneExecution, ResultMatchesStatus, GivesUp
  <1>8. OutcomeInv'
    BY <1>1, <1>2 DEF IInv, OutcomeInv, AckedJobIsCompleted, Acked, GivesUp
  <1> QED
    BY <1>3, <1>4, <1>5, <1>6, <1>7, <1>8 DEF IInv

\* Steps of the queue alone that acknowledge nothing.
LEMMA QueueStep ==
    ASSUME IInv, UNCHANGED <<storeVars, workerVars, results, executions>>,
           QueueTypeOK', UNCHANGED body,
           \A m \in Messages :
               \/ mstate'[m] = mstate[m]
               \/ mstate[m] # "unsent" /\ mstate'[m] \notin {"unsent", "deleted"}
    PROVE  IInv'
  <1>1. TypeOK'
    BY DEF IInv, TypeOK, StoreTypeOK, storeVars, workerVars
  <1>2. DeliveryInv' /\ RenewalIsJoined' /\ OutcomeInv'
    BY DEF IInv, TypeOK, DeliveryInv, RenewalIsJoined, OutcomeInv,
           AckedJobIsCompleted, Acked, storeVars, workerVars
  <1>3. SingleOwner' /\ OwnerInv' /\ HistoryInv' /\ UnackedInv'
    BY DEF IInv, SingleOwner, OwnerInv, HistoryInv, UnackedInv, Owns,
           AtMostOneExecution, ResultMatchesStatus, storeVars, workerVars
  <1> QED
    BY <1>1, <1>2, <1>3 DEF IInv

\* Steps of w alone that neither take a job up nor let one go.
LEMMA GotoStep ==
    ASSUME IInv, NEW w \in Workers, NEW call \in Calls,
           Goto(w, call),
           call = "poll" => pc[w] = "stopped",
           call \in {"claim", "fail", "delete"} => pc[w] \notin {"stopped", "poll"},
           call \in Owning => call = "fail" /\ pc[w] = "run",
           call = "delete" => renew[w] = "stopped" /\ outcome[w] = "ok" /\ pc[w] = "join",
           call \in {"poll", "claim", "fail", "delete"},
           UNCHANGED <<signalled, renew, delivery, task, outcome>>,
           UNCHANGED <<storeVars, queueVars, results, executions>>
    PROVE  IInv'
  <1>1. pc' \in [Workers -> Calls] /\ pc'[w] = call
    BY DEF IInv, TypeOK, Goto
  <1>2. \A v \in Workers \ {w} : pc'[v] = pc[v]
    BY DEF IInv, TypeOK, Goto
  <1>3. TypeOK'
    BY <1>1 DEF IInv, TypeOK, StoreTypeOK, QueueTypeOK, storeVars, queueVars
  <1>4. DeliveryInv' /\ RenewalIsJoined' /\ OutcomeInv'
    BY <1>1, <1>2 DEF IInv, DeliveryInv, RenewalIsJoined, OutcomeInv,
           AckedJobIsCompleted, Acked, storeVars, queueVars
  <1>5. SingleOwner' /\ OwnerInv' /\ HistoryInv' /\ UnackedInv'
    BY <1>1, <1>2 DEF IInv, SingleOwner, OwnerInv, HistoryInv, UnackedInv, Owns, Owning,
           AtMostOneExecution, ResultMatchesStatus, storeVars, queueVars
  <1> QED
    BY <1>3, <1>4, <1>5 DEF IInv

\* Steps of the renewal goroutine of w alone.
LEMMA RenewalStep ==
    ASSUME IInv, NEW w \in Workers, RenewStep(w)
    PROVE  IInv'
  <1>1. /\ renew' \in [Workers -> RenewStates]
        /\ renew[w] \in {"waiting", "calling"}
        /\ \A v \in Workers \ {w} : renew'[v] = renew[v]
        /\ RenewUnchanged
    BY DEF RenewStep, RenewTick, RenewOk, RenewFailed, RenewStopped, IInv, TypeOK,
           RenewStates
  <1>2. TypeOK'
    BY <1>1 DEF IInv, TypeOK, StoreTypeOK, QueueTypeOK, RenewUnchanged, storeVars, queueVars
  <1>3. DeliveryInv' /\ RenewalIsJoined' /\ OutcomeInv'
    BY <1>1 DEF IInv, DeliveryInv, RenewalIsJoined, OutcomeInv, AckedJobIsCompleted,
           Acked, RenewUnchanged, storeVars, queueVars
  <1>4. SingleOwner' /\ OwnerInv' /\ HistoryInv' /\ UnackedInv'
    BY <1>1 DEF IInv, SingleOwner, OwnerInv, HistoryInv, UnackedInv, Owns,
           AtMostOneExecution, ResultMatchesStatus, RenewUnchanged, storeVars, queueVars
  <1> QED
    BY <1>2, <1>3, <1>4 DEF IInv

\* Queue calls of a worker, and what its environment does to it.
LEMMA AcknowledgeGivesUp ==
    ASSUME IInv, NEW w \in Workers, pc[w] = "delete",
           UNCHANGED <<storeVars, results, executions>>,
           UNCHANGED queueVars \/ Acknowledge(w, delivery[w])
    PROVE  GivesUp(w)
  <1>1. /\ delivery[w] \in Messages /\ mstate[delivery[w]] # "unsent"
        /\ body[delivery[w]] \in Jobs /\ status[body[delivery[w]]] = "COMPLETED"
    BY DEF IInv, TypeOK, DeliveryInv, RenewalIsJoined, OutcomeInv
  <1>2. /\ UNCHANGED <<body, receives, holder>>
        /\ \/ mstate' = mstate
           \/ mstate' = [mstate EXCEPT ![delivery[w]] = "deleted"]
    BY DEF Acknowledge, queueVars
  <1>3. /\ mstate' \in [Messages -> MessageStates]
        /\ \A m \in Messages :
            mstate'[m] = mstate[m] \/ (m = delivery[w] /\ mstate'[m] = "deleted")
    BY <1>1, <1>2 DEF IInv, TypeOK, QueueTypeOK, MessageStates
  <1> QED
    BY <1>1, <1>2, <1>3 DEF GivesUp, IInv, TypeOK, QueueTypeOK, storeVars

\* A worker may give its job up while database and queue stand still.
LEMMA QuietGivesUp ==
    ASSUME IInv, NEW w \in Workers,
           UNCHANGED <<storeVars, queueVars, results, executions>>
    PROVE  GivesUp(w)
  BY DEF GivesUp, IInv, TypeOK, QueueTypeOK, storeVars, queueVars

\* A worker may give its job up because its transition was not answered.
LEMMA UnansweredGivesUp ==
    ASSUME IInv, NEW w \in Workers, pc[w] \in DOMAIN Target,
           Unanswered(task[w], Target[pc[w]]),
           UNCHANGED <<queueVars, results, executions>>
    PROVE  GivesUp(w)
  BY DEF GivesUp, IInv, TypeOK, QueueTypeOK, queueVars, Unanswered

\* A crash is the worker giving up whatever it holds, a request perhaps on its way.
LEMMA CrashStep ==
    ASSUME IInv, NEW w \in Workers, Crash(w)
    PROVE  IInv'
  <1>1. GivesUp(w)
    <2>1. CASE pc[w] \in DOMAIN Target
      BY <2>1, UnansweredGivesUp DEF Crash, Target
    <2>2. CASE pc[w] = "delete"
      BY <2>2, AcknowledgeGivesUp DEF Crash, Target
    <2>3. CASE pc[w] \notin DOMAIN Target /\ pc[w] # "delete"
      BY <2>3, QuietGivesUp DEF Crash
    <2> QED
      BY <2>1, <2>2, <2>3
  <1> QED
    BY <1>1, LeaveStep DEF Crash

\* A new row has no history.
LEMMA SubmitStep ==
    ASSUME IInv, NEW j \in Jobs, Submit(j)
    PROVE  IInv'
  <1>1. /\ status[j] = "ABSENT" /\ status' = [status EXCEPT ![j] = "PENDING"]
        /\ UNCHANGED <<unacked, queueVars, workerVars, results, executions>>
    BY DEF Submit, Insert
  <1>2. TypeOK'
    BY <1>1 DEF IInv, TypeOK, StoreTypeOK, QueueTypeOK, Statuses, queueVars, workerVars
  <1>3. DeliveryInv' /\ RenewalIsJoined'
    BY <1>1 DEF IInv, DeliveryInv, RenewalIsJoined, queueVars, workerVars
  <1>4. SingleOwner' /\ OwnerInv' /\ HistoryInv' /\ UnackedInv'
    BY <1>1 DEF IInv, TypeOK, StoreTypeOK, SingleOwner, OwnerInv, HistoryInv, UnackedInv,
           Owns, AtMostOneExecution, ResultMatchesStatus, Statements, workerVars
  <1>5. OutcomeInv'
    BY <1>1 DEF IInv, TypeOK, StoreTypeOK, OutcomeInv, AckedJobIsCompleted, Acked,
           queueVars, workerVars
  <1> QED
    BY <1>2, <1>3, <1>4, <1>5 DEF IInv

\* A new message names a body and is neither delivered nor acknowledged.
LEMMA PublishStep ==
    ASSUME IInv, NEW m \in Messages, NEW b \in Bodies, Publish(m, b)
    PROVE  IInv'
  <1>1. /\ mstate[m] = "unsent" /\ mstate' = [mstate EXCEPT ![m] = "visible"]
        /\ body' = [body EXCEPT ![m] = b]
        /\ UNCHANGED <<receives, holder, storeVars, workerVars, results, executions>>
    BY DEF Publish, Send
  <1>2. TypeOK'
    BY <1>1 DEF IInv, TypeOK, StoreTypeOK, QueueTypeOK, MessageStates, storeVars, workerVars
  <1>3. DeliveryInv' /\ RenewalIsJoined'
    BY <1>1 DEF IInv, TypeOK, QueueTypeOK, DeliveryInv, RenewalIsJoined, workerVars
  <1>4. SingleOwner' /\ OwnerInv' /\ HistoryInv' /\ UnackedInv'
    BY <1>1 DEF IInv, SingleOwner, OwnerInv, HistoryInv, UnackedInv, Owns,
           AtMostOneExecution, ResultMatchesStatus, storeVars, workerVars
  <1>5. OutcomeInv'
    BY <1>1 DEF IInv, TypeOK, QueueTypeOK, OutcomeInv, AckedJobIsCompleted, Acked,
           storeVars, workerVars
  <1> QED
    BY <1>2, <1>3, <1>4, <1>5 DEF IInv

\* A late MarkProcessing leaves a job nobody owns; a late final statement finds
\* the job given up by its only owner.
LEMMA StatementStep ==
    ASSUME IInv, NEW s \in unacked, StatementLands(s)
    PROVE  IInv'
  <1> DEFINE j == s.job
  <1>1. /\ s \in Statements /\ j \in Jobs /\ s.to \in Targets
        /\ unacked' = unacked \ {s}
        /\ UNCHANGED <<queueVars, workerVars, results, executions>>
    BY DEF StatementLands, CommitLate, IInv, TypeOK, StoreTypeOK, Statements
  <1>2. \/ status' = status
        \/ /\ status' = [status EXCEPT ![j] = s.to]
           /\ status[j] = Expected(s.to)
    BY DEF StatementLands, CommitLate, Applied
  <1>3. TypeOK'
    BY <1>1, <1>2 DEF IInv, TypeOK, StoreTypeOK, QueueTypeOK, Statuses, Targets,
           queueVars, workerVars
  <1>4. DeliveryInv' /\ RenewalIsJoined'
    BY <1>1 DEF IInv, DeliveryInv, RenewalIsJoined, queueVars, workerVars
  <1>5. CASE status' = status
    <2>1. SingleOwner' /\ OwnerInv' /\ HistoryInv' /\ UnackedInv' /\ OutcomeInv'
      BY <1>1, <1>5 DEF IInv, SingleOwner, OwnerInv, HistoryInv, UnackedInv, Owns,
           AtMostOneExecution, ResultMatchesStatus, OutcomeInv, AckedJobIsCompleted,
           Acked, queueVars, workerVars
    <2> QED
      BY <1>3, <1>4, <2>1 DEF IInv
  <1>6. CASE /\ status' = [status EXCEPT ![j] = s.to]
             /\ status[j] = Expected(s.to)
    <2>1. /\ status'[j] = s.to
          /\ \A i \in Jobs : i # j => status'[i] = status[i]
          /\ status[j] = IF s.to = "PROCESSING" THEN "PENDING" ELSE "PROCESSING"
      BY <1>1, <1>6 DEF IInv, TypeOK, StoreTypeOK, Expected
    <2>2. \A w \in Workers : ~Owns(w, j)
      BY <1>1, <2>1 DEF IInv, OwnerInv, UnackedInv, Owns, Owning
    <2>3. SingleOwner' /\ OwnerInv'
      BY <1>1, <2>1, <2>2 DEF IInv, SingleOwner, OwnerInv, DeliveryInv, Owns, Owning, workerVars
    <2>4. HistoryInv'
      BY <1>1, <2>1 DEF IInv, HistoryInv, UnackedInv, AtMostOneExecution,
           ResultMatchesStatus, Targets
    <2>5. UnackedInv'
      BY <1>1, <2>1 DEF IInv, TypeOK, StoreTypeOK, UnackedInv, Owns, Targets, Statements,
           workerVars
    <2>6. OutcomeInv'
      BY <1>1, <2>1 DEF IInv, OutcomeInv, AckedJobIsCompleted, Acked, DeliveryInv,
           WorkerAssumption, queueVars, workerVars
    <2> QED
      BY <1>3, <1>4, <2>3, <2>4, <2>5, <2>6 DEF IInv
  <1> QED
    BY <1>2, <1>5, <1>6

\* A signal only cancels contexts.
LEMMA SignalStep ==
    ASSUME IInv, NEW w \in Workers, Signal(w)
    PROVE  IInv'
  <1>1. /\ signalled' \in [Workers -> BOOLEAN]
        /\ UNCHANGED <<storeVars, queueVars, pc, renew, delivery, task, outcome,
                       results, executions>>
    BY DEF Signal, IInv, TypeOK
  <1> QED
    BY <1>1 DEF IInv, TypeOK, StoreTypeOK, QueueTypeOK, DeliveryInv, RenewalIsJoined,
         SingleOwner, OwnerInv, HistoryInv, UnackedInv, OutcomeInv, Owns,
         AtMostOneExecution, ResultMatchesStatus, AckedJobIsCompleted, Acked,
         storeVars, queueVars

\* A delivery hides a message that was sent, and counts.
LEMMA DeliverStep ==
    ASSUME IInv, NEW h \in Workers \union {None}, NEW m \in Messages, Deliver(h, m)
    PROVE  /\ QueueTypeOK'
           /\ \A n \in Messages :
                \/ mstate'[n] = mstate[n]
                \/ mstate[n] # "unsent" /\ mstate'[n] = "hidden"
  <1>1. /\ mstate[m] = "visible" /\ receives[m] \in 0 .. MaxReceive
        /\ receives[m] < MaxReceive /\ MaxReceive \in Nat
        /\ mstate' = [mstate EXCEPT ![m] = "hidden"]
        /\ receives' = [receives EXCEPT ![m] = receives[m] + 1]
        /\ holder' = [holder EXCEPT ![m] = h]
        /\ body' = body
    BY QueueAssumption DEF Deliver, IInv, TypeOK, QueueTypeOK
  <1>2. receives[m] + 1 \in 0 .. MaxReceive
    BY <1>1
  <1> QED
    BY <1>1, <1>2 DEF IInv, TypeOK, QueueTypeOK, MessageStates

\* The ways a worker takes a job up: one-shot, or with a message.
LEMMA TakeUpStep ==
    ASSUME IInv, NEW w \in Workers,
           \/ \E j \in Jobs : StartOneShot(w, j)
           \/ \E m \in Messages : Receive(w, m)
    PROVE  IInv'
  <1>1. PICK call \in {"claim", "lease"}, j \in Jobs, d \in Messages \union {None} :
            /\ pc[w] \in {"stopped", "poll"}
            /\ pc' = [pc EXCEPT ![w] = call]
            /\ task' = [task EXCEPT ![w] = j]
            /\ delivery' = [delivery EXCEPT ![w] = d]
            /\ call = "lease" => d # None
            /\ d # None => mstate[d] # "unsent" /\ body[d] = j
            /\ UNCHANGED <<storeVars, body, signalled, renew, outcome, results, executions>>
            /\ QueueTypeOK'
            /\ \A m \in Messages :
                \/ mstate'[m] = mstate[m]
                \/ mstate[m] # "unsent" /\ mstate'[m] \notin {"unsent", "deleted"}
    <2>1. CASE \E j \in Jobs : StartOneShot(w, j)
      <3>1. PICK j \in Jobs : StartOneShot(w, j)
        BY <2>1
      <3>2. delivery' = [delivery EXCEPT ![w] = None]
        BY <3>1 DEF StartOneShot, IInv, TypeOK, DeliveryInv
      <3> QED
        BY <3>1, <3>2 DEF StartOneShot, Goto, IInv, TypeOK, QueueTypeOK, queueVars
    <2>2. CASE \E m \in Messages : Receive(w, m)
      <3>1. PICK m \in Messages : Receive(w, m)
        BY <2>2
      <3>2. body[m] \in Jobs /\ m # None /\ mstate[m] = "visible"
        BY <3>1, WorkerAssumption DEF Receive, Deliver, IInv, DeliveryInv
      <3>3. /\ QueueTypeOK'
            /\ \A n \in Messages :
                \/ mstate'[n] = mstate[n]
                \/ mstate[n] # "unsent" /\ mstate'[n] = "hidden"
        BY <3>1, DeliverStep DEF Receive
      <3>4. /\ pc[w] = "poll" /\ pc' = [pc EXCEPT ![w] = "lease"]
            /\ task' = [task EXCEPT ![w] = body[m]]
            /\ delivery' = [delivery EXCEPT ![w] = m]
            /\ UNCHANGED <<storeVars, body, signalled, renew, outcome, results, executions>>
        BY <3>1 DEF Receive, Deliver, Goto
      <3> QED
        BY <3>2, <3>3, <3>4
    <2> QED
      BY <2>1, <2>2
  <1>2. /\ pc' \in [Workers -> Calls] /\ pc'[w] = call
        /\ task' \in [Workers -> Jobs \union {None}] /\ task'[w] = j
        /\ delivery' \in [Workers -> Messages \union {None}] /\ delivery'[w] = d
        /\ \A v \in Workers \ {w} :
            pc'[v] = pc[v] /\ task'[v] = task[v] /\ delivery'[v] = delivery[v]
    BY <1>1 DEF IInv, TypeOK, Calls
  <1>3. TypeOK'
    BY <1>1, <1>2 DEF IInv, TypeOK, StoreTypeOK, storeVars
  <1>4. renew[w] = "off"
    BY <1>1 DEF IInv, DeliveryInv, RenewalIsJoined
  <1>5. DeliveryInv' /\ RenewalIsJoined' /\ OutcomeInv'
    BY <1>1, <1>2, <1>4 DEF IInv, TypeOK, DeliveryInv, RenewalIsJoined, OutcomeInv,
         AckedJobIsCompleted, Acked, storeVars
  <1>6. SingleOwner' /\ OwnerInv' /\ HistoryInv' /\ UnackedInv'
    BY <1>1, <1>2 DEF IInv, SingleOwner, OwnerInv, HistoryInv, UnackedInv, Owns, Owning,
         AtMostOneExecution, ResultMatchesStatus, storeVars
  <1> QED
    BY <1>3, <1>5, <1>6 DEF IInv

\* The end of the initial extension: the renewal starts, or the worker stops.
LEMMA LeaseStep ==
    ASSUME IInv, NEW w \in Workers, LeaseGranted(w)
    PROVE  IInv'
  <1>1. CASE SignalDone(w)
    BY <1>1, QuietGivesUp, LeaveStep DEF LeaseGranted
  <1>2. CASE ~SignalDone(w)
    <2>1. /\ pc[w] = "lease" /\ delivery[w] # None
          /\ pc' \in [Workers -> Calls] /\ pc'[w] = "lookup"
          /\ renew' \in [Workers -> RenewStates] /\ renew'[w] = "waiting"
          /\ \A v \in Workers \ {w} : pc'[v] = pc[v] /\ renew'[v] = renew[v]
          /\ UNCHANGED <<storeVars, queueVars, signalled, delivery, task, outcome,
                         results, executions>>
      BY <1>2 DEF LeaseGranted, Goto, IInv, TypeOK, DeliveryInv, Calls, RenewStates
    <2>2. TypeOK'
      BY <2>1 DEF IInv, TypeOK, StoreTypeOK, QueueTypeOK, storeVars, queueVars
    <2>3. DeliveryInv' /\ RenewalIsJoined' /\ OutcomeInv'
      BY <2>1 DEF IInv, DeliveryInv, RenewalIsJoined, OutcomeInv, AckedJobIsCompleted,
           Acked, storeVars, queueVars
    <2>4. SingleOwner' /\ OwnerInv' /\ HistoryInv' /\ UnackedInv'
      BY <2>1 DEF IInv, SingleOwner, OwnerInv, HistoryInv, UnackedInv, Owns, Owning,
           AtMostOneExecution, ResultMatchesStatus, storeVars, queueVars
    <2> QED
      BY <2>2, <2>3, <2>4 DEF IInv
  <1> QED
    BY <1>1, <1>2

\* The conditional UPDATE: whoever moves the row is, or becomes, its only owner.
LEMMA TransitionStep ==
    ASSUME IInv, NEW w \in Workers, Transitioned(w)
    PROVE  IInv'
  <1> DEFINE j == task[w]
  <1>1. /\ pc[w] \in {"claim", "commit", "fail"} /\ j \in Jobs
        /\ status[j] = (IF pc[w] = "claim" THEN "PENDING" ELSE "PROCESSING")
        /\ status' = [status EXCEPT ![j] = Target[pc[w]]]
        /\ UNCHANGED <<unacked, queueVars, signalled, renew, delivery, task, results,
                       executions>>
    BY DEF Transitioned, Updated, Expected, Target, Return, IInv, DeliveryInv
  <1>2. /\ status' \in [Jobs -> Statuses]
        /\ \A i \in Jobs : i # j => status'[i] = status[i]
        /\ status'[j] = CASE pc[w] = "claim" -> "PROCESSING"
                          [] pc[w] = "commit" -> "COMPLETED"
                          [] pc[w] = "fail" -> "FAILED"
    BY <1>1 DEF Target, IInv, TypeOK, StoreTypeOK, Statuses
  <1>3. /\ pc' \in [Workers -> Calls]
        /\ pc'[w] = IF pc[w] = "claim" THEN "begin" ELSE "join"
        /\ outcome' \in [Workers -> {"none", "ok", "error"}]
        /\ pc[w] # "claim" => outcome'[w] = IF pc[w] = "commit" THEN "ok" ELSE "error"
        /\ \A v \in Workers \ {w} : pc'[v] = pc[v] /\ outcome'[v] = outcome[v]
    BY <1>1 DEF Transitioned, Return, Goto, IInv, TypeOK, Calls
  <1> HIDE DEF j
  <1>4. TypeOK'
    BY <1>1, <1>2, <1>3 DEF IInv, TypeOK, StoreTypeOK, QueueTypeOK, queueVars
  <1>5. DeliveryInv' /\ RenewalIsJoined'
    BY <1>1, <1>3 DEF IInv, DeliveryInv, RenewalIsJoined, queueVars
  <1>6. \A v \in Workers \ {w} : ~Owns(v, j)
    BY <1>1 DEF IInv, SingleOwner, OwnerInv, Owns, Owning, j
  <1>7. SingleOwner' /\ OwnerInv'
    BY <1>1, <1>2, <1>3, <1>6 DEF IInv, SingleOwner, OwnerInv, HistoryInv, DeliveryInv,
         AtMostOneExecution, ResultMatchesStatus, Owns, Owning, j
  <1>8. HistoryInv'
    BY <1>1, <1>2 DEF IInv, OwnerInv, Owning, HistoryInv, AtMostOneExecution,
         ResultMatchesStatus, j
  <1>9. UnackedInv'
    <2>1. \A s \in unacked : s.to # "PROCESSING" => s.job # j
      BY <1>1 DEF IInv, UnackedInv, Owns, j
    <2> QED
      BY <1>1, <1>2, <1>3, <2>1 DEF IInv, TypeOK, StoreTypeOK, UnackedInv, Statements, Owns, j
  <1>10. OutcomeInv'
    BY <1>1, <1>2, <1>3 DEF IInv, TypeOK, StoreTypeOK, DeliveryInv, OutcomeInv,
         AckedJobIsCompleted, Acked, queueVars, j
  <1> QED
    BY <1>4, <1>5, <1>7, <1>8, <1>9, <1>10 DEF IInv

\* Process is started for a job that was never executed.
LEMMA BeginStep ==
    ASSUME IInv, NEW w \in Workers, Begin(w)
    PROVE  IInv'
  <1>1. CASE ProcessDone(w)
    BY <1>1, QuietGivesUp, ReturnStep DEF Begin
  <1>2. CASE ~ProcessDone(w)
    <2> DEFINE j == task[w]
    <2>1. /\ pc[w] = "begin" /\ j \in Jobs /\ executions[j] = 0
          /\ status[j] = "PROCESSING"
          /\ j \notin results
          /\ executions' = [executions EXCEPT ![j] = executions[j] + 1]
          /\ pc' \in [Workers -> Calls] /\ pc'[w] = "run"
          /\ \A v \in Workers \ {w} : pc'[v] = pc[v]
          /\ UNCHANGED <<storeVars, queueVars, signalled, renew, delivery, task, outcome,
                         results>>
      BY <1>2 DEF Begin, Goto, IInv, TypeOK, DeliveryInv, OwnerInv, Owning, Calls
    <2>2. /\ executions' \in [Jobs -> Nat] /\ executions'[j] = 1
          /\ \A i \in Jobs : i # j => executions'[i] = executions[i]
      BY <2>1 DEF IInv, TypeOK
    <2>3. TypeOK'
      BY <2>1, <2>2 DEF IInv, TypeOK, StoreTypeOK, QueueTypeOK, storeVars, queueVars
    <2>4. DeliveryInv' /\ RenewalIsJoined' /\ OutcomeInv'
      BY <2>1 DEF IInv, DeliveryInv, RenewalIsJoined, OutcomeInv, AckedJobIsCompleted,
           Acked, storeVars, queueVars
    <2>5. SingleOwner' /\ OwnerInv'
      BY <2>1, <2>2 DEF IInv, DeliveryInv, SingleOwner, OwnerInv, Owns, Owning, storeVars
    <2>6. HistoryInv' /\ UnackedInv'
      BY <2>1, <2>2 DEF IInv, TypeOK, StoreTypeOK, Statements, HistoryInv, UnackedInv,
           AtMostOneExecution, ResultMatchesStatus, Owns, storeVars
    <2> QED
      BY <2>3, <2>4, <2>5, <2>6 DEF IInv
  <1> QED
    BY <1>1, <1>2

\* The result file is put in place by the owner of the job, before it commits.
LEMMA StoreStep ==
    ASSUME IInv, NEW w \in Workers, ProcessStores(w)
    PROVE  IInv'
  <1> DEFINE j == task[w]
  <1>1. /\ pc[w] = "run" /\ j \in Jobs /\ executions[j] = 1
        /\ status[j] = "PROCESSING"
        /\ results' = results \union {j}
        /\ UNCHANGED <<storeVars, queueVars, signalled, renew, delivery, task, executions>>
    BY DEF ProcessStores, Record, Return, IInv, DeliveryInv, OwnerInv, Owning
  <1>2. /\ pc' \in [Workers -> Calls] /\ pc'[w] \in {"commit", "join"}
        /\ outcome' \in [Workers -> {"none", "ok", "error"}]
        /\ pc'[w] = "join" => outcome'[w] = "error"
        /\ \A v \in Workers \ {w} : pc'[v] = pc[v] /\ outcome'[v] = outcome[v]
    BY DEF ProcessStores, Record, Return, Goto, IInv, TypeOK, Calls
  <1>3. TypeOK'
    BY <1>1, <1>2 DEF IInv, TypeOK, StoreTypeOK, QueueTypeOK, storeVars, queueVars
  <1>4. DeliveryInv' /\ RenewalIsJoined' /\ OutcomeInv'
    BY <1>1, <1>2 DEF IInv, DeliveryInv, RenewalIsJoined, OutcomeInv,
         AckedJobIsCompleted, Acked, storeVars, queueVars
  <1>5. SingleOwner' /\ OwnerInv'
    BY <1>1, <1>2 DEF IInv, DeliveryInv, SingleOwner, OwnerInv, Owns, Owning, storeVars
  <1>6. HistoryInv' /\ UnackedInv'
    BY <1>1, <1>2 DEF IInv, HistoryInv, UnackedInv, AtMostOneExecution,
         ResultMatchesStatus, Owns, storeVars
  <1> QED
    BY <1>3, <1>4, <1>5, <1>6 DEF IInv

-----------------------------------------------------------------------------

\* The invariant holds initially.
LEMMA InitInv == Init => IInv
  BY QueueAssumption DEF Init, StoreInit, QueueInit, IInv, TypeOK, StoreTypeOK, QueueTypeOK,
     Statuses, MessageStates, Calls, RenewStates, DeliveryInv, RenewalIsJoined,
     SingleOwner, OwnerInv, HistoryInv, UnackedInv, OutcomeInv, Owns, Owning,
     AtMostOneExecution, ResultMatchesStatus, AckedJobIsCompleted, Acked

\* The invariant is preserved by everything the environment does.
LEMMA EnvironmentInv ==
    ASSUME IInv, Environment
    PROVE  IInv'
  <1>1. ASSUME NEW m \in Messages, Expire(m)
        PROVE  IInv'
    BY <1>1, QueueStep DEF Expire, Reappear, IInv, TypeOK, QueueTypeOK, MessageStates
  <1>2. ASSUME NEW m \in Messages, DeadLetter(m)
        PROVE  IInv'
    BY <1>2, QueueStep DEF DeadLetter, Redrive, IInv, TypeOK, QueueTypeOK, MessageStates
  <1> QED
    BY <1>1, <1>2, SubmitStep, PublishStep, StatementStep, SignalStep, CrashStep
    DEF Environment

\* The invariant is preserved by starting and by receiving.
LEMMA PollInv ==
    ASSUME IInv, NEW w \in Workers, PollStep(w)
    PROVE  IInv'
  <1>1. CASE Start(w)
    BY <1>1, GotoStep DEF Start, Calls, Owning
  <1>2. ASSUME NEW m \in Messages, ReceiveInvalid(w, m) \/ ReceiveLost(w, m)
        PROVE  IInv'
    <2>1. PICK h \in Workers \union {None} : Deliver(h, m)
      BY <1>2 DEF ReceiveInvalid, ReceiveLost
    <2>2. UNCHANGED <<storeVars, workerVars, results, executions>> /\ UNCHANGED body
      BY <1>2, <2>1 DEF ReceiveInvalid, ReceiveLost, Deliver
    <2>3. /\ QueueTypeOK'
          /\ \A n \in Messages :
                \/ mstate'[n] = mstate[n]
                \/ mstate[n] # "unsent" /\ mstate'[n] = "hidden"
      BY <2>1, DeliverStep
    <2> QED
      BY <2>2, <2>3, QueueStep
  <1>3. CASE ReceiveEmpty(w)
    BY <1>3 DEF ReceiveEmpty, vars, IInv, TypeOK, StoreTypeOK, QueueTypeOK, DeliveryInv,
       RenewalIsJoined, SingleOwner, OwnerInv, HistoryInv, UnackedInv, OutcomeInv, Owns,
       AtMostOneExecution, ResultMatchesStatus, AckedJobIsCompleted, Acked,
       storeVars, queueVars, workerVars
  <1>4. CASE ReceiveFailed(w)
    BY <1>4, QuietGivesUp, LeaveStep DEF ReceiveFailed
  <1> QED
    BY <1>1, <1>2, <1>3, <1>4, TakeUpStep DEF PollStep

\* The invariant is preserved by every step of the main goroutine.
LEMMA MainInv ==
    ASSUME IInv, NEW w \in Workers, MainStep(w)
    PROVE  IInv'
  <1>1. CASE StopPolling(w) \/ LeaseRefused(w)
    BY <1>1, QuietGivesUp, LeaveStep DEF StopPolling, LeaseRefused
  <1>2. CASE LookupFailed(w)
    BY <1>2, QuietGivesUp, ReturnStep DEF LookupFailed
  <1>3. CASE Lookup(w)
    <2>1. CASE status[task[w]] = "COMPLETED"
      BY <1>3, <2>1, QuietGivesUp, ReturnStep DEF Lookup
    <2>2. CASE status[task[w]] = "PENDING"
      BY <1>3, <2>2, GotoStep DEF Lookup, Calls, Owning
    <2>3. CASE status[task[w]] \notin {"COMPLETED", "PENDING"}
      BY <1>3, <2>3, QuietGivesUp, ReturnStep DEF Lookup
    <2> QED
      BY <2>1, <2>2, <2>3
  <1>4. CASE TransitionRefused(w)
    <2>1. UNCHANGED <<storeVars, queueVars, results, executions>> /\ Return(w, "error")
      BY <1>4 DEF TransitionRefused, Missed
    <2> QED
      BY <1>4, <2>1, QuietGivesUp, ReturnStep DEF TransitionRefused, Target
  <1>5. CASE TransitionUnanswered(w)
    BY <1>5, UnansweredGivesUp, ReturnStep DEF TransitionUnanswered, Target
  <1>6. CASE ProcessFails(w)
    <2>1. CASE ProcessDone(w)
      BY <1>6, <2>1, QuietGivesUp, ReturnStep DEF ProcessFails, Record
    <2>2. CASE ~ProcessDone(w)
      BY <1>6, <2>2, GotoStep DEF ProcessFails, Record, Calls, Owning
    <2> QED
      BY <2>1, <2>2
  <1>7. CASE Join(w)
    <2>1. CASE SignalDone(w) \/ renew[w] # "stopped" \/ outcome[w] = "error"
      BY <1>7, <2>1, QuietGivesUp, LeaveStep DEF Join
    <2>2. CASE ~(SignalDone(w) \/ renew[w] # "stopped" \/ outcome[w] = "error")
      <3>1. Goto(w, "delete") /\ pc[w] = "join" /\ renew[w] = "stopped"
        BY <1>7, <2>2 DEF Join
      <3>2. outcome[w] = "ok"
        BY <3>1, <2>2 DEF IInv, TypeOK, OutcomeInv
      <3> QED
        BY <1>7, <2>2, <3>1, <3>2, GotoStep DEF Join, Calls, Owning
    <2> QED
      BY <2>1, <2>2
  <1>8. CASE Delete(w) \/ DeleteFailed(w)
    BY <1>8, AcknowledgeGivesUp, LeaveStep DEF Delete, DeleteFailed
  <1> QED
    BY <1>1, <1>2, <1>3, <1>4, <1>5, <1>6, <1>7, <1>8, LeaseStep, TransitionStep, BeginStep,
       StoreStep
    DEF MainStep, ProcessStep

\* Every step of the environment and of either goroutine of a worker preserves
\* the inductive invariant.
LEMMA InductiveStep ==
    ASSUME IInv, [Next]_vars
    PROVE  IInv'
  <1>1. CASE Next
    BY <1>1, EnvironmentInv, PollInv, MainInv, RenewalStep DEF Next
  <1>2. CASE UNCHANGED vars
    BY <1>2 DEF vars, IInv, TypeOK, StoreTypeOK, QueueTypeOK, DeliveryInv,
       RenewalIsJoined, SingleOwner, OwnerInv, HistoryInv, UnackedInv, OutcomeInv, Owns,
       AtMostOneExecution, ResultMatchesStatus, AckedJobIsCompleted, Acked,
       storeVars, queueVars, workerVars
  <1> QED
    BY <1>1, <1>2

\* The inductive invariant holds throughout.
THEOREM InductiveInvariant == Spec => []IInv
  BY InitInv, InductiveStep, PTL DEF Spec

\* The columns of every state agree with their types.
THEOREM TypeCorrect == Spec => []TypeOK
  BY InductiveInvariant, PTL DEF IInv

\* A deleted message is always that of a COMPLETED job, for any number of
\* workers, jobs, messages and receives, and under every fault.
THEOREM AckSafety == Spec => []AckedJobIsCompleted
  <1>1. IInv => AckedJobIsCompleted
    BY DEF IInv, OutcomeInv
  <1> QED
    BY <1>1, InductiveInvariant, PTL

\* No two workers own a job at once.
THEOREM Ownership == Spec => []SingleOwner
  <1>1. IInv => SingleOwner
    BY DEF IInv
  <1> QED
    BY <1>1, InductiveInvariant, PTL

\* No redelivery, restart, one-shot run or late statement executes a job twice.
THEOREM ExecutionSafety == Spec => []AtMostOneExecution
  <1>1. IInv => AtMostOneExecution
    BY DEF IInv, HistoryInv
  <1> QED
    BY <1>1, InductiveInvariant, PTL

\* The result file of a job is there when the status says so, and matches it.
THEOREM ResultSafety == Spec => []ResultMatchesStatus
  <1>1. IInv => ResultMatchesStatus
    BY DEF IInv, HistoryInv
  <1> QED
    BY <1>1, InductiveInvariant, PTL

\* The renewal goroutine is joined, without failure, before Delete.
THEOREM RenewalSafety == Spec => []RenewalIsJoined
  <1>1. IInv => RenewalIsJoined
    BY DEF IInv
  <1> QED
    BY <1>1, InductiveInvariant, PTL

-----------------------------------------------------------------------------
(* Refinement: what each step does to the life cycle of a job.             *)

AckedJobs == {body[m] : m \in Acked}

\* Steps that leave the life cycle alone.
LEMMA Stutter ==
    ASSUME UNCHANGED <<status, executions, results>>, AckedJobs' = AckedJobs
    PROVE  UNCHANGED Lifecycle!lifecycleVars
  BY DEF Lifecycle!lifecycleVars, AckedJobs

\* As long as no message gets deleted and no sent one changes its body, the
\* set of acknowledged jobs stays.
LEMMA SameAcked ==
    ASSUME \A m \in Messages :
               /\ mstate[m] = "deleted" <=> mstate'[m] = "deleted"
               /\ mstate[m] = "deleted" => body'[m] = body[m]
    PROVE  AckedJobs' = AckedJobs
  BY DEF AckedJobs, Acked

\* A worker that deletes, or dies deleting, acknowledges its own job at most.
LEMMA AcknowledgeRefines ==
    ASSUME IInv, NEW w \in Workers, pc[w] = "delete",
           UNCHANGED <<status, results, executions>>,
           UNCHANGED queueVars \/ Acknowledge(w, delivery[w])
    PROVE  [Lifecycle!Next]_Lifecycle!lifecycleVars
  <1>1. /\ delivery[w] \in Messages /\ task[w] \in Jobs
        /\ body[delivery[w]] = task[w] /\ status[task[w]] = "COMPLETED"
    BY DEF IInv, TypeOK, DeliveryInv, RenewalIsJoined, OutcomeInv
  <1>2. CASE mstate' = mstate /\ body' = body
    BY <1>2, SameAcked, Stutter
  <1>3. CASE mstate' = [mstate EXCEPT ![delivery[w]] = "deleted"] /\ body' = body
    <2>1. Acked' = Acked \union {delivery[w]}
      BY <1>1, <1>3 DEF Acked, IInv, TypeOK, QueueTypeOK
    <2>2. AckedJobs' = AckedJobs \union {task[w]}
      BY <1>1, <1>3, <2>1 DEF AckedJobs
    <2> QED
      BY <1>1, <2>2 DEF Lifecycle!Next, Lifecycle!Acknowledge, AckedJobs
  <1> QED
    BY <1>2, <1>3 DEF Acknowledge, queueVars

\* An environment step submits a job, lets an UPDATE through that its owner sent,
\* acknowledges for a dying worker, or stutters.
LEMMA EnvironmentRefines ==
    ASSUME IInv, Environment
    PROVE  [Lifecycle!Next]_Lifecycle!lifecycleVars
  <1>1. ASSUME NEW j \in Jobs, Submit(j)
        PROVE  Lifecycle!Next
    <2>1. AckedJobs' = AckedJobs
      BY <1>1 DEF Submit, AckedJobs, Acked, queueVars
    <2> QED
      BY <1>1, <2>1
      DEF Submit, Insert, AckedJobs, Lifecycle!Next, Lifecycle!Submit, Lifecycle!Advance
  <1>2. ASSUME NEW m \in Messages, NEW b \in Bodies, Publish(m, b)
        PROVE  UNCHANGED Lifecycle!lifecycleVars
    <2>1. AckedJobs' = AckedJobs
      BY <1>2, SameAcked DEF Publish, Send, IInv, TypeOK, QueueTypeOK
    <2> QED
      BY <1>2, <2>1, Stutter DEF Publish, storeVars
  <1>3. ASSUME NEW m \in Messages, Expire(m) \/ DeadLetter(m)
        PROVE  UNCHANGED Lifecycle!lifecycleVars
    <2>1. AckedJobs' = AckedJobs
      BY <1>3, SameAcked DEF Expire, Reappear, DeadLetter, Redrive, IInv, TypeOK, QueueTypeOK
    <2> QED
      BY <1>3, <2>1, Stutter DEF Expire, DeadLetter, storeVars
  <1>4. ASSUME NEW s \in unacked, StatementLands(s)
        PROVE  [Lifecycle!Next]_Lifecycle!lifecycleVars
    <2>1. s.job \in Jobs /\ s.to \in {"PROCESSING", "COMPLETED", "FAILED"}
      BY DEF IInv, TypeOK, StoreTypeOK, Statements, Targets
    <2>2. AckedJobs' = AckedJobs /\ UNCHANGED <<results, executions>>
      BY <1>4, SameAcked DEF StatementLands, queueVars
    <2>3. CASE status' = status
      BY <2>2, <2>3, Stutter
    <2>4. CASE /\ status' = [status EXCEPT ![s.job] = s.to]
               /\ status[s.job] = Expected(s.to)
      <3>1. CASE s.to = "PROCESSING"
        BY <2>1, <2>2, <2>4, <3>1
        DEF Expected, AckedJobs, Lifecycle!Next, Lifecycle!Acquire, Lifecycle!Advance
      <3>2. CASE s.to = "COMPLETED"
        <4>1. s.job \in results
          BY <3>2 DEF IInv, UnackedInv
        <4> QED
          BY <2>1, <2>2, <2>4, <3>2, <4>1
          DEF Expected, AckedJobs, Lifecycle!Next, Lifecycle!Complete, Lifecycle!Advance
      <3>3. CASE s.to = "FAILED"
        <4>1. s.job \notin results /\ executions[s.job] = 1
          BY <3>3 DEF IInv, UnackedInv
        <4> QED
          BY <2>1, <2>2, <2>4, <3>3, <4>1
          DEF Expected, AckedJobs, Lifecycle!Next, Lifecycle!Fail, Lifecycle!Advance
      <3> QED
        BY <2>1, <3>1, <3>2, <3>3
    <2> QED
      BY <1>4, <2>3, <2>4 DEF StatementLands, CommitLate, Applied
  <1>5. ASSUME NEW w \in Workers, Signal(w)
        PROVE  UNCHANGED Lifecycle!lifecycleVars
    BY <1>5, SameAcked, Stutter DEF Signal, storeVars, queueVars
  <1>6. ASSUME NEW w \in Workers, Crash(w)
        PROVE  [Lifecycle!Next]_Lifecycle!lifecycleVars
    <2>1. UNCHANGED <<status, results, executions>>
      BY <1>6 DEF Crash, Unanswered, storeVars
    <2>2. CASE pc[w] = "delete"
      BY <1>6, <2>1, <2>2, AcknowledgeRefines DEF Crash
    <2>3. CASE pc[w] # "delete"
      BY <1>6, <2>1, <2>3, SameAcked, Stutter DEF Crash, queueVars
    <2> QED
      BY <2>2, <2>3
  <1> QED
    BY <1>1, <1>2, <1>3, <1>4, <1>5, <1>6 DEF Environment

\* The steps of a worker that neither touch the row nor run the Processor nor
\* delete a message.
LEMMA QuietRefines ==
    ASSUME UNCHANGED <<status, results, executions>>,
           UNCHANGED queueVars
    PROVE  UNCHANGED Lifecycle!lifecycleVars
  BY SameAcked, Stutter DEF queueVars

\* A step of Worker.ProcessJob is a step of the life cycle of its job.
LEMMA ProcessRefines ==
    ASSUME IInv, NEW w \in Workers, ProcessStep(w)
    PROVE  [Lifecycle!Next]_Lifecycle!lifecycleVars
  <1> DEFINE j == task[w]
  <1>1. AckedJobs' = AckedJobs
    BY SameAcked DEF ProcessStep, Transitioned, TransitionRefused, TransitionUnanswered,
       Begin, ProcessStores, ProcessFails, queueVars
  <1>2. CASE Transitioned(w)
    <2>1. /\ pc[w] \in {"claim", "commit", "fail"} /\ j \in Jobs
          /\ status[j] = (IF pc[w] = "claim" THEN "PENDING" ELSE "PROCESSING")
          /\ status' = [status EXCEPT ![j] = Target[pc[w]]]
          /\ pc[w] = "commit" => j \in results
          /\ pc[w] = "fail" => j \notin results /\ executions[j] = 1
          /\ UNCHANGED <<results, executions>>
      BY <1>2 DEF Transitioned, Updated, Expected, Target, IInv, DeliveryInv, OwnerInv, Owning
    <2> HIDE DEF j
    <2>2. CASE pc[w] = "claim"
      <3>1. Lifecycle!Acquire(j)
        BY <1>1, <2>1, <2>2 DEF Target, AckedJobs, Lifecycle!Acquire, Lifecycle!Advance
      <3> QED
        BY <2>1, <3>1 DEF Lifecycle!Next
    <2>3. CASE pc[w] = "commit"
      <3>1. Lifecycle!Complete(j)
        BY <1>1, <2>1, <2>3 DEF Target, AckedJobs, Lifecycle!Complete, Lifecycle!Advance
      <3> QED
        BY <2>1, <3>1 DEF Lifecycle!Next
    <2>4. CASE pc[w] = "fail"
      <3>1. Lifecycle!Fail(j)
        BY <1>1, <2>1, <2>4 DEF Target, AckedJobs, Lifecycle!Fail, Lifecycle!Advance
      <3> QED
        BY <2>1, <3>1 DEF Lifecycle!Next
    <2> QED
      BY <2>1, <2>2, <2>3, <2>4
  <1>3. CASE Begin(w)
    <2>1. CASE ProcessDone(w)
      BY <1>1, <1>3, <2>1, Stutter DEF Begin, storeVars
    <2>2. CASE ~ProcessDone(w)
      <3>1. /\ j \in Jobs /\ status[j] = "PROCESSING" /\ executions[j] = 0
            /\ executions' = [executions EXCEPT ![j] = 1]
            /\ UNCHANGED <<status, results>>
        BY <1>3, <2>2 DEF Begin, IInv, TypeOK, DeliveryInv, OwnerInv, Owning, storeVars
      <3> HIDE DEF j
      <3>2. Lifecycle!Execute(j)
        BY <1>1, <3>1 DEF AckedJobs, Lifecycle!Execute
      <3> QED
        BY <3>1, <3>2 DEF Lifecycle!Next
    <2> QED
      BY <2>1, <2>2
  <1>4. CASE ProcessStores(w)
    <2>1. /\ j \in Jobs /\ status[j] = "PROCESSING" /\ executions[j] = 1
          /\ j \notin results /\ results' = results \union {j}
          /\ UNCHANGED <<status, executions>>
      BY <1>4 DEF ProcessStores, IInv, DeliveryInv, OwnerInv, Owning, storeVars
    <2> HIDE DEF j
    <2>2. Lifecycle!Store(j)
      BY <1>1, <2>1 DEF AckedJobs, Lifecycle!Store
    <2> QED
      BY <2>1, <2>2 DEF Lifecycle!Next
  <1>5. CASE TransitionRefused(w) \/ TransitionUnanswered(w) \/ ProcessFails(w)
    BY <1>1, <1>5, Stutter
    DEF TransitionRefused, Missed, TransitionUnanswered, Unanswered, ProcessFails, storeVars
  <1> QED
    BY <1>2, <1>3, <1>4, <1>5 DEF ProcessStep

\* Every step of a worker is a step of the life cycle or a stutter.
LEMMA WorkerRefines ==
    ASSUME IInv, NEW w \in Workers, PollStep(w) \/ MainStep(w) \/ RenewStep(w)
    PROVE  [Lifecycle!Next]_Lifecycle!lifecycleVars
  <1>1. CASE PollStep(w)
    <2>1. /\ UNCHANGED <<status, results, executions>>
          /\ \/ UNCHANGED queueVars
             \/ \E h \in Workers \union {None}, m \in Messages : Deliver(h, m)
      BY <1>1 DEF PollStep, Start, StartOneShot, Receive, ReceiveInvalid, ReceiveLost,
         ReceiveEmpty, ReceiveFailed, storeVars, vars
    <2>2. CASE UNCHANGED queueVars
      BY <2>1, <2>2, QuietRefines
    <2>3. ASSUME NEW h \in Workers \union {None}, NEW m \in Messages, Deliver(h, m)
          PROVE  AckedJobs' = AckedJobs
      BY <2>3, SameAcked DEF Deliver, IInv, TypeOK, QueueTypeOK
    <2> QED
      BY <2>1, <2>2, <2>3, Stutter
  <1>2. CASE RenewStep(w)
    BY <1>2, QuietRefines
    DEF RenewStep, RenewTick, RenewOk, RenewFailed, RenewStopped, RenewUnchanged, storeVars
  <1>3. CASE MainStep(w)
    <2>1. CASE Delete(w) \/ DeleteFailed(w)
      BY <2>1, AcknowledgeRefines DEF Delete, DeleteFailed, storeVars
    <2>2. CASE \/ StopPolling(w) \/ LeaseGranted(w) \/ LeaseRefused(w)
               \/ LookupFailed(w) \/ Lookup(w) \/ Join(w)
      BY <2>2, QuietRefines
      DEF StopPolling, LeaseGranted, LeaseRefused, LookupFailed, Lookup, Join, storeVars
    <2> QED
      BY <1>3, <2>1, <2>2, ProcessRefines DEF MainStep
  <1> QED
    BY <1>1, <1>2, <1>3

\* QueueWorker, with all its calls, queue states, renewals and faults, takes
\* each job through the life cycle of JobLifecycle and no other.
THEOREM Refinement == Spec => ImplementsLifecycle
  <1>1. Init => Lifecycle!Init
    BY DEF Init, StoreInit, QueueInit, Lifecycle!Init, Acked
  <1>2. IInv /\ [Next]_vars => [Lifecycle!Next]_Lifecycle!lifecycleVars
    <2> SUFFICES ASSUME IInv, [Next]_vars
                 PROVE  [Lifecycle!Next]_Lifecycle!lifecycleVars
      OBVIOUS
    <2>1. CASE Next
      BY <2>1, EnvironmentRefines, WorkerRefines DEF Next
    <2>2. CASE UNCHANGED vars
      BY <2>2, QuietRefines DEF vars, storeVars
    <2> QED
      BY <2>1, <2>2
  <1> QED
    BY <1>1, <1>2, InductiveInvariant, PTL DEF Spec, ImplementsLifecycle, Lifecycle!Spec

-----------------------------------------------------------------------------
(* Without failing calls, lost leases and stopped processes no job is left *)
(* behind in PROCESSING.                                                   *)

Undisturbed == Faults \subseteq {"oneshot", "stray"}

\* What such a run keeps besides IInv: no context is done, no statement is on
\* its way, and a delivery in hand is hidden under its worker's own receipt.
CalmInv ==
    /\ unacked = {}
    /\ \A w \in Workers : ~signalled[w] /\ renew[w] # "failed"
    /\ \A w \in Workers : delivery[w] # None =>
        holder[delivery[w]] = w /\ mstate[delivery[w]] = "hidden"
    /\ ProcessingIsOwned

\* Workers, deliveries and rows that do not change keep what CalmInv says.
LEMMA CalmStutter ==
    ASSUME CalmInv, UNCHANGED <<unacked, pc, signalled, renew, delivery, task>>,
           \A j \in Jobs : status'[j] = "PROCESSING" => status[j] = "PROCESSING",
           \A w \in Workers : delivery[w] # None =>
                /\ holder'[delivery[w]] = holder[delivery[w]]
                /\ mstate'[delivery[w]] = mstate[delivery[w]]
    PROVE  CalmInv'
  BY DEF CalmInv, ProcessingIsOwned, Owns

\* The environment: an undisturbed lease keeps its message from reappearing.
LEMMA CalmEnvironment ==
    ASSUME Undisturbed, IInv, CalmInv, Environment
    PROVE  CalmInv'
  <1>1. CASE \E j \in Jobs : Submit(j)
    BY <1>1, CalmStutter
    DEF Submit, Insert, queueVars, workerVars, IInv, TypeOK, StoreTypeOK
  <1>2. CASE \E m \in Messages, b \in Bodies : Publish(m, b)
    BY <1>2, CalmStutter
    DEF Publish, Send, storeVars, workerVars, CalmInv, IInv, TypeOK, QueueTypeOK
  <1>3. CASE \E m \in Messages : Expire(m)
    BY <1>3, CalmStutter
    DEF Undisturbed, Expire, Unattended, Leased, Reappear, storeVars, workerVars, CalmInv,
        IInv, TypeOK, QueueTypeOK
  <1>4. CASE \E m \in Messages : DeadLetter(m)
    BY <1>4, CalmStutter
    DEF DeadLetter, Redrive, storeVars, workerVars, CalmInv, IInv, TypeOK, QueueTypeOK
  <1>5. CASE \E s \in unacked : StatementLands(s)
    BY <1>5 DEF CalmInv
  <1>6. CASE \E w \in Workers : Signal(w) \/ Crash(w)
    BY <1>6 DEF Undisturbed, Signal, Crash
  <1> QED
    BY <1>1, <1>2, <1>3, <1>4, <1>5, <1>6 DEF Environment

\* The worker that takes a step: what CalmInv asks of it afterwards, and of the
\* jobs that it owned or now owns.
LEMMA CalmWorker ==
    ASSUME IInv, CalmInv, NEW w \in Workers, unacked' = unacked,
           pc' = [pc EXCEPT ![w] = pc'[w]], task' = [task EXCEPT ![w] = task'[w]],
           signalled' = [signalled EXCEPT ![w] = signalled'[w]],
           renew' = [renew EXCEPT ![w] = renew'[w]],
           delivery' = [delivery EXCEPT ![w] = delivery'[w]],
           ~signalled'[w], renew'[w] # "failed",
           delivery'[w] # None => holder'[delivery'[w]] = w /\ mstate'[delivery'[w]] = "hidden",
           \A v \in Workers \ {w} : delivery[v] # None =>
                /\ holder'[delivery[v]] = holder[delivery[v]]
                /\ mstate'[delivery[v]] = mstate[delivery[v]],
           \A j \in Jobs : status'[j] = "PROCESSING" =>
                \/ Owns(w, j)'
                \/ status[j] = "PROCESSING" /\ ~Owns(w, j)
    PROVE  CalmInv'
  <1>1. \A v \in Workers \ {w} :
            /\ pc'[v] = pc[v] /\ task'[v] = task[v] /\ signalled'[v] = signalled[v]
            /\ renew'[v] = renew[v] /\ delivery'[v] = delivery[v]
    BY DEF IInv, TypeOK
  <1>2. ProcessingIsOwned'
    <2> SUFFICES ASSUME NEW j \in Jobs, status'[j] = "PROCESSING", ~Owns(w, j)'
                 PROVE  \E v \in Workers : Owns(v, j)'
      BY DEF ProcessingIsOwned
    <2>1. status[j] = "PROCESSING" /\ ~Owns(w, j)
      OBVIOUS
    <2>2. PICK v \in Workers : Owns(v, j)
      BY <2>1 DEF CalmInv, ProcessingIsOwned
    <2> QED
      BY <1>1, <2>1, <2>2 DEF Owns
  <1> QED
    BY <1>1, <1>2 DEF CalmInv

\* A worker that owns no job before and after its step strands none.
LEMMA CalmUnowned ==
    ASSUME IInv, CalmInv, NEW w \in Workers, UNCHANGED <<status, unacked>>,
           pc[w] \notin Owning,
           pc' = [pc EXCEPT ![w] = pc'[w]], task' = [task EXCEPT ![w] = task'[w]],
           signalled' = [signalled EXCEPT ![w] = signalled'[w]],
           renew' = [renew EXCEPT ![w] = renew'[w]],
           delivery' = [delivery EXCEPT ![w] = delivery'[w]],
           ~signalled'[w], renew'[w] # "failed",
           delivery'[w] # None => holder'[delivery'[w]] = w /\ mstate'[delivery'[w]] = "hidden",
           \A v \in Workers \ {w} : delivery[v] # None =>
                /\ holder'[delivery[v]] = holder[delivery[v]]
                /\ mstate'[delivery[v]] = mstate[delivery[v]]
    PROVE  CalmInv'
  <1>1. \A j \in Jobs : ~Owns(w, j)
    BY DEF Owns, Owning
  <1> QED
    BY <1>1, CalmWorker

\* Taking a delivery or a one-shot job up.
LEMMA CalmPoll ==
    ASSUME Undisturbed, IInv, CalmInv, NEW w \in Workers, PollStep(w)
    PROVE  CalmInv'
  <1> USE DEF storeVars, queueVars, workerVars, Goto, Owning
  <1>1. /\ ~signalled[w] /\ renew[w] # "failed"
        /\ \A v \in Workers : delivery[v] \in Messages \union {None}
        /\ delivery[w] # None => holder[delivery[w]] = w /\ mstate[delivery[w]] = "hidden"
    BY DEF CalmInv, IInv, TypeOK
  <1>2. CASE Start(w) \/ \E j \in Jobs : StartOneShot(w, j)
    BY <1>1, <1>2, CalmUnowned DEF Start, StartOneShot, IInv, TypeOK
  <1>3. ASSUME NEW m \in Messages, Receive(w, m)
        PROVE  CalmInv'
    <2>1. \A v \in Workers : delivery[v] # None => delivery[v] # m
      BY <1>3 DEF Receive, Deliver, CalmInv
    <2>2. holder'[m] = w /\ mstate'[m] = "hidden"
      BY <1>3 DEF Receive, Deliver, IInv, TypeOK, QueueTypeOK
    <2>3. \A n \in Messages \ {m} : holder'[n] = holder[n] /\ mstate'[n] = mstate[n]
      BY <1>3 DEF Receive, Deliver, IInv, TypeOK, QueueTypeOK
    <2> QED
      BY <1>1, <1>3, <2>1, <2>2, <2>3, CalmUnowned DEF Receive, IInv, TypeOK
  <1>4. ASSUME NEW m \in Messages, ReceiveInvalid(w, m)
        PROVE  CalmInv'
    <2>1. \A v \in Workers : delivery[v] # None => delivery[v] # m
      BY <1>4 DEF ReceiveInvalid, Deliver, CalmInv
    <2>2. \A n \in Messages \ {m} : holder'[n] = holder[n] /\ mstate'[n] = mstate[n]
      BY <1>4 DEF ReceiveInvalid, Deliver, IInv, TypeOK, QueueTypeOK
    <2> QED
      BY <1>1, <1>4, <2>1, <2>2, CalmStutter DEF ReceiveInvalid
  <1>5. CASE ReceiveEmpty(w)
    BY <1>1, <1>5, CalmStutter DEF ReceiveEmpty, vars
  <1>6. CASE ReceiveFailed(w) \/ \E m \in Messages : ReceiveLost(w, m)
    BY <1>1, <1>6 DEF Undisturbed, ReceiveFailed, ReceiveLost, SignalDone
  <1> QED
    BY <1>2, <1>3, <1>4, <1>5, <1>6 DEF PollStep

\* The renewal goroutine: no extension of a lease that is kept fails.
LEMMA CalmRenew ==
    ASSUME Undisturbed, IInv, CalmInv, NEW w \in Workers, RenewStep(w)
    PROVE  CalmInv'
  <1> USE DEF storeVars, queueVars
  <1>1. /\ UNCHANGED <<pc, signalled, delivery, task, status, unacked, mstate, holder>>
        /\ renew' = [renew EXCEPT ![w] = renew'[w]]
    BY DEF RenewStep, RenewTick, RenewOk, RenewFailed, RenewStopped, RenewUnchanged,
           IInv, TypeOK
  <1>2. renew'[w] # "failed"
    <2>1. ~RenewFailed(w)
      BY DEF Undisturbed, RenewFailed, InFlight, CalmInv, IInv, RenewalIsJoined
    <2> QED
      BY <2>1 DEF RenewStep, RenewTick, RenewOk, RenewStopped, IInv, TypeOK
  <1>3. \A v \in Workers : renew'[v] # "failed"
    BY <1>1, <1>2 DEF CalmInv, IInv, TypeOK
  <1> QED
    BY <1>1, <1>3 DEF CalmInv, ProcessingIsOwned, Owns

\* The main goroutine: whoever owns a job records its outcome before it returns.
LEMMA CalmMain ==
    ASSUME Undisturbed, IInv, CalmInv, NEW w \in Workers, MainStep(w)
    PROVE  CalmInv'
  <1> USE DEF storeVars, queueVars, workerVars, Goto, Owning
  <1>1. /\ ~signalled[w] /\ renew[w] # "failed" /\ ~SignalDone(w) /\ ~ProcessDone(w)
        /\ delivery[w] # None => holder[delivery[w]] = w /\ mstate[delivery[w]] = "hidden"
    BY DEF CalmInv, SignalDone, ProcessDone
  <1>2. ~StopPolling(w) /\ ~LookupFailed(w) /\ ~TransitionUnanswered(w) /\ ~DeleteFailed(w)
    BY <1>1 DEF Undisturbed, StopPolling, LookupFailed, TransitionUnanswered, DeleteFailed
  <1>3. ~LeaseRefused(w)
    BY <1>1 DEF Undisturbed, LeaseRefused, InFlight, IInv, DeliveryInv
  <1>4. CASE LeaseGranted(w)
    BY <1>1, <1>4, CalmUnowned DEF LeaseGranted, IInv, TypeOK
  <1>5. CASE Lookup(w)
    BY <1>1, <1>5, CalmUnowned DEF Lookup, Return, IInv, TypeOK
  <1>6. CASE Join(w)
    BY <1>1, <1>6, CalmUnowned DEF Join, Leave, IInv, TypeOK
  <1>7. CASE Delete(w)
    <2>1. \A v \in Workers \ {w} : delivery[v] # None => delivery[v] # delivery[w]
      BY <1>7 DEF CalmInv, Delete, IInv, RenewalIsJoined
    <2>2. \A n \in Messages : n # delivery[w] => holder'[n] = holder[n] /\ mstate'[n] = mstate[n]
      BY <1>7 DEF Delete, Acknowledge, IInv, TypeOK, QueueTypeOK
    <2>3. \A v \in Workers : delivery[v] \in Messages \union {None}
      BY DEF IInv, TypeOK
    <2> QED
      BY <1>1, <1>7, <2>1, <2>2, <2>3, CalmUnowned DEF Delete, Leave, IInv, TypeOK
  <1>8. CASE Begin(w) \/ ProcessStores(w) \/ ProcessFails(w)
    <2>1. /\ UNCHANGED <<signalled, renew, delivery, task, status, unacked, mstate, holder>>
          /\ pc' = [pc EXCEPT ![w] = pc'[w]] /\ pc[w] \in Owning /\ pc'[w] \in Owning
      BY <1>1, <1>8 DEF Begin, ProcessStores, ProcessFails, Record, IInv, TypeOK
    <2>2. \A v \in Workers, j \in Jobs : Owns(v, j) => Owns(v, j)'
      BY <2>1 DEF Owns, IInv, TypeOK
    <2> QED
      BY <2>1, <2>2 DEF CalmInv, ProcessingIsOwned
  <1>9. CASE Transitioned(w) \/ TransitionRefused(w)
    <2>1. /\ UNCHANGED <<signalled, renew, delivery, task, unacked, mstate, holder>>
          /\ pc' = [pc EXCEPT ![w] = pc'[w]] /\ task[w] \in Jobs
          /\ pc[w] \in {"claim", "commit", "fail"}
      BY <1>9 DEF Transitioned, Updated, TransitionRefused, Missed, Return, Target, IInv, TypeOK,
         DeliveryInv
    <2>2. CASE pc[w] = "claim"
      <3>1. \A j \in Jobs : ~Owns(w, j)
        BY <2>2 DEF Owns
      <3>2. \A j \in Jobs : status'[j] = "PROCESSING" => status[j] = "PROCESSING" \/ Owns(w, j)'
        BY <1>9, <2>1, <2>2 DEF Transitioned, Updated, TransitionRefused, Missed, Target, Owns,
           IInv, TypeOK, StoreTypeOK
      <3> QED
        BY <1>1, <2>1, <3>1, <3>2, CalmWorker DEF IInv, TypeOK
    <2>3. CASE pc[w] \in {"commit", "fail"}
      <3>1. status[task[w]] = "PROCESSING"
        BY <2>3 DEF IInv, OwnerInv
      <3>2. Updated(task[w], Target[pc[w]]) /\ Target[pc[w]] \in {"COMPLETED", "FAILED"}
        BY <1>9, <2>3, <3>1 DEF Transitioned, TransitionRefused, Missed, Expected, Target
      <3>3. \A j \in Jobs : status'[j] = "PROCESSING" => status[j] = "PROCESSING" /\ ~Owns(w, j)
        BY <2>1, <3>2 DEF Updated, Owns, IInv, TypeOK, StoreTypeOK
      <3> QED
        BY <1>1, <2>1, <3>3, CalmWorker DEF IInv, TypeOK
    <2> QED
      BY <2>1, <2>2, <2>3
  <1> QED
    BY <1>2, <1>3, <1>4, <1>5, <1>6, <1>7, <1>8, <1>9 DEF MainStep, ProcessStep

LEMMA CalmAlways ==
    ASSUME Undisturbed
    PROVE  Spec => []CalmInv
  <1>1. Init => CalmInv
    BY DEF Init, StoreInit, CalmInv, ProcessingIsOwned
  <1>2. IInv /\ CalmInv /\ [Next]_vars => CalmInv'
    <2> SUFFICES ASSUME IInv, CalmInv, [Next]_vars
                 PROVE  CalmInv'
      OBVIOUS
    <2>1. CASE Next
      BY <2>1, CalmEnvironment, CalmPoll, CalmMain, CalmRenew DEF Next
    <2>2. CASE UNCHANGED vars
      BY <2>2, CalmStutter DEF vars, storeVars, queueVars, workerVars
    <2> QED
      BY <2>1, <2>2
  <1> QED
    BY <1>1, <1>2, InductiveInvariant, PTL DEF Spec

\* While no call fails and nobody is stopped, whatever duplicates and one-shot
\* runs do, a PROCESSING job is in the hands of a worker.
THEOREM NoJobIsStranded ==
    ASSUME Undisturbed
    PROVE  Spec => []ProcessingIsOwned
  <1>1. CalmInv => ProcessingIsOwned
    BY DEF CalmInv
  <1> QED
    BY <1>1, CalmAlways, PTL

-----------------------------------------------------------------------------
(* Without any fault only messages of FAILED jobs reach the DLQ.           *)

NothingFails == Faults = {}

\* What a run without faults keeps of one message: it names a job that waits for
\* it, and that is FAILED once the message was let go of without being deleted.
MessageSettles(m) ==
    /\ mstate[m] = "unsent" => receives[m] = 0 /\ body[m] = None
    /\ mstate[m] # "unsent" => body[m] \in Jobs /\ status[body[m]] # "ABSENT"
    /\ mstate[m] # "unsent" /\ receives[m] = 0 => status[body[m]] = "PENDING"
    /\ /\ receives[m] > 0 /\ mstate[m] # "deleted"
       /\ \A w \in Workers : delivery[w] # m
       => status[body[m]] = "FAILED"
    /\ mstate[m] = "dead" => receives[m] > 0

\* And of one worker: it is renewing the lease of a delivery, and an error it
\* has to report is that job's failure.
WorkerSettles(w) ==
    /\ pc[w] \notin {"stopped", "poll"} => delivery[w] # None
    /\ pc[w] \notin {"stopped", "poll", "lease"} => renew[w] # "off"
    /\ delivery[w] # None => receives[delivery[w]] > 0
    /\ pc[w] \in {"lease", "lookup"} => status[task[w]] \in {"PENDING", "FAILED"}
    /\ pc[w] = "claim" => status[task[w]] = "PENDING"
    /\ pc[w] = "join" /\ outcome[w] = "error" => status[task[w]] = "FAILED"

\* No job has two messages, and none is beyond PENDING that has no message.
OneMessageEach ==
    /\ \A m, n \in Messages : mstate[m] # "unsent" /\ body[m] = body[n] => m = n
    /\ \A j \in Jobs : (\A m \in Messages : body[m] # j) => status[j] \in {"ABSENT", "PENDING"}

SettleInv ==
    /\ \A m \in Messages : MessageSettles(m)
    /\ \A w \in Workers : WorkerSettles(w)
    /\ OneMessageEach

\* Two workers never have one delivery or one job in hand.
LEMMA HandsAreDisjoint ==
    ASSUME IInv, CalmInv, SettleInv, NEW v \in Workers, NEW w \in Workers, v # w,
           delivery[v] # None, delivery[w] # None
    PROVE  delivery[v] # delivery[w] /\ task[v] # task[w]
  <1>1. delivery[v] # delivery[w]
    BY DEF CalmInv
  <1>2. /\ delivery[v] \in Messages /\ delivery[w] \in Messages
        /\ mstate[delivery[v]] # "unsent"
        /\ body[delivery[v]] = task[v] /\ body[delivery[w]] = task[w]
    BY DEF IInv, TypeOK, DeliveryInv
  <1> QED
    BY <1>1, <1>2 DEF SettleInv, OneMessageEach

\* Rows, deliveries and the queue stay; a worker moves within what it may.
LEMMA SettleStutter ==
    ASSUME SettleInv, UNCHANGED <<status, body, delivery, receives>>,
           \A m \in Messages :
                \/ mstate'[m] = mstate[m]
                \/ mstate[m] # "unsent" /\ mstate'[m] = "visible" /\ mstate[m] # "deleted"
                \/ mstate[m] # "unsent" /\ mstate'[m] = "dead" /\ mstate[m] # "deleted" /\ receives[m] > 0,
           \A w \in Workers : WorkerSettles(w)'
    PROVE  SettleInv'
  <1>1. \A m \in Messages : mstate'[m] = "unsent" <=> mstate[m] = "unsent"
    OBVIOUS
  <1>2. \A m \in Messages : MessageSettles(m)'
    BY <1>1 DEF SettleInv, MessageSettles
  <1>3. OneMessageEach'
    BY <1>1 DEF SettleInv, OneMessageEach
  <1> QED
    BY <1>2, <1>3 DEF SettleInv

\* The environment without faults.
LEMMA SettleEnvironment ==
    ASSUME NothingFails, IInv, CalmInv, SettleInv, Environment
    PROVE  SettleInv'
  <1> USE DEF storeVars, queueVars, workerVars
  <1>1. ASSUME NEW j \in Jobs, Submit(j)
        PROVE  SettleInv'
    <2>1. /\ status[j] = "ABSENT" /\ status'[j] = "PENDING"
          /\ \A i \in Jobs \ {j} : status'[i] = status[i]
          /\ UNCHANGED <<mstate, body, receives, delivery, pc, renew, task, outcome>>
      BY <1>1 DEF Submit, Insert, IInv, TypeOK, StoreTypeOK
    <2>2. \A m \in Messages : mstate[m] # "unsent" => body[m] \in Jobs \ {j}
      BY <2>1 DEF SettleInv, MessageSettles
    <2>3. \A m \in Messages : mstate[m] # "unsent" => status'[body[m]] = status[body[m]]
      BY <2>1, <2>2
    <2>4. \A m \in Messages : MessageSettles(m)'
      BY <2>1, <2>3 DEF SettleInv, MessageSettles
    <2>5. \A w \in Workers : delivery[w] # None =>
            status'[task[w]] = status[task[w]]
      BY <2>3 DEF IInv, TypeOK, DeliveryInv
    <2>6. \A w \in Workers : WorkerSettles(w)'
      BY <2>1, <2>5 DEF SettleInv, WorkerSettles
    <2>7. OneMessageEach'
      BY <2>1 DEF SettleInv, OneMessageEach
    <2> QED
      BY <2>4, <2>6, <2>7 DEF SettleInv
  <1>2. ASSUME NEW m \in Messages, NEW b \in Bodies, Publish(m, b)
        PROVE  SettleInv'
    <2>1. /\ b \in Jobs /\ status[b] # "ABSENT" /\ mstate[m] = "unsent"
          /\ \A n \in Messages : body[n] # b
          /\ mstate'[m] = "visible" /\ body'[m] = b
          /\ \A n \in Messages \ {m} : mstate'[n] = mstate[n] /\ body'[n] = body[n]
          /\ UNCHANGED <<status, receives, delivery, pc, renew, task, outcome>>
      BY <1>2 DEF NothingFails, Publish, Send, IInv, TypeOK, QueueTypeOK
    <2>2. status[b] = "PENDING" /\ receives[m] = 0 /\ body[m] = None
      BY <2>1 DEF SettleInv, OneMessageEach, MessageSettles
    <2>3. \A n \in Messages : MessageSettles(n)'
      BY <2>1, <2>2 DEF SettleInv, MessageSettles
    <2>4. \A w \in Workers : WorkerSettles(w)'
      BY <2>1 DEF SettleInv, WorkerSettles
    <2>5. OneMessageEach'
      BY <2>1, <2>2, WorkerAssumption DEF SettleInv, OneMessageEach
    <2> QED
      BY <2>3, <2>4, <2>5 DEF SettleInv
  <1>3. ASSUME NEW m \in Messages, Expire(m) \/ DeadLetter(m)
        PROVE  SettleInv'
    <2>1. /\ mstate' = [mstate EXCEPT ![m] = mstate'[m]]
          /\ \/ mstate[m] = "hidden" /\ mstate'[m] = "visible"
             \/ mstate[m] = "visible" /\ mstate'[m] = "dead" /\ receives[m] = MaxReceive
          /\ UNCHANGED <<status, body, receives, delivery, pc, renew, task, outcome>>
      BY <1>3 DEF Expire, Reappear, DeadLetter, Redrive, IInv, TypeOK, QueueTypeOK
    <2>2. \A n \in Messages \ {m} : mstate'[n] = mstate[n]
      BY <2>1 DEF IInv, TypeOK, QueueTypeOK
    <2>3. \A w \in Workers : WorkerSettles(w)'
      BY <2>1 DEF SettleInv, WorkerSettles
    <2> QED
      BY <2>1, <2>2, <2>3, SettleStutter, QueueAssumption
  <1>4. CASE \E s \in unacked : StatementLands(s)
    BY <1>4 DEF CalmInv
  <1>5. CASE \E w \in Workers : Signal(w) \/ Crash(w)
    BY <1>5 DEF NothingFails, Signal, Crash
  <1> QED
    BY <1>1, <1>2, <1>3, <1>4, <1>5 DEF Environment

\* A worker goes on with its delivery: only its own job changes.
LEMMA SettleMove ==
    ASSUME IInv, CalmInv, SettleInv, NEW w \in Workers,
           UNCHANGED <<mstate, body, receives, delivery, task>>,
           pc' = [pc EXCEPT ![w] = pc'[w]], outcome' = [outcome EXCEPT ![w] = outcome'[w]],
           renew' = [renew EXCEPT ![w] = renew'[w]],
           delivery[w] # None,
           \A j \in Jobs : j # task[w] => status'[j] = status[j],
           status'[task[w]] = status[task[w]] \/ status'[task[w]] # "ABSENT",
           WorkerSettles(w)'
    PROVE  SettleInv'
  <1>1. /\ delivery[w] \in Messages /\ mstate[delivery[w]] # "unsent"
        /\ body[delivery[w]] = task[w]
    BY DEF IInv, TypeOK, DeliveryInv
  <1>2. \A m \in Messages \ {delivery[w]} : mstate[m] # "unsent" =>
            body[m] \in Jobs /\ body[m] # task[w] /\ status'[body[m]] = status[body[m]]
    BY <1>1 DEF SettleInv, OneMessageEach, MessageSettles
  <1>3. \A m \in Messages \ {delivery[w]} : MessageSettles(m)'
    BY <1>2 DEF SettleInv, MessageSettles
  <1>4. MessageSettles(delivery[w])'
    BY <1>1 DEF SettleInv, MessageSettles, WorkerSettles
  <1>5. ASSUME NEW v \in Workers \ {w}
        PROVE  WorkerSettles(v)'
    <2>1. /\ pc'[v] = pc[v] /\ outcome'[v] = outcome[v] /\ renew'[v] = renew[v]
          /\ WorkerSettles(v)
      BY DEF IInv, TypeOK, SettleInv
    <2>2. CASE delivery[v] # None
      <3>1. task[v] \in Jobs /\ task[v] # task[w]
        BY <2>2, HandsAreDisjoint DEF IInv, DeliveryInv, TypeOK
      <3> QED
        BY <2>1, <3>1 DEF WorkerSettles
    <2>3. CASE delivery[v] = None
      BY <2>1, <2>3 DEF WorkerSettles
    <2> QED
      BY <2>2, <2>3
  <1>6. OneMessageEach'
    BY <1>1 DEF SettleInv, OneMessageEach
  <1> QED
    BY <1>3, <1>4, <1>5, <1>6 DEF SettleInv

\* A worker lets go of its delivery, deleted or with the job FAILED.
LEMMA SettleLeave ==
    ASSUME IInv, CalmInv, SettleInv, NEW w \in Workers, delivery[w] # None,
           Leave(w, "poll"), UNCHANGED <<status, body, receives>>,
           \A m \in Messages : m # delivery[w] => mstate'[m] = mstate[m],
           \/ mstate'[delivery[w]] = "deleted"
           \/ UNCHANGED mstate /\ status[task[w]] = "FAILED"
    PROVE  SettleInv'
  <1>1. /\ delivery[w] \in Messages /\ mstate[delivery[w]] # "unsent"
        /\ body[delivery[w]] = task[w]
    BY DEF IInv, TypeOK, DeliveryInv
  <1>2. /\ pc'[w] = "poll" /\ delivery'[w] = None
        /\ \A v \in Workers \ {w} :
            /\ pc'[v] = pc[v] /\ renew'[v] = renew[v] /\ delivery'[v] = delivery[v]
            /\ task'[v] = task[v] /\ outcome'[v] = outcome[v]
    BY DEF Leave, Goto, IInv, TypeOK
  <1>3. \A m \in Messages : m # delivery[w] /\ (\A v \in Workers : delivery'[v] # m) =>
            \A v \in Workers : delivery[v] # m
    BY <1>2
  <1>4. \A m \in Messages \ {delivery[w]} : MessageSettles(m)'
    BY <1>3 DEF SettleInv, MessageSettles
  <1>5. ASSUME NEW m \in Messages, m = delivery[w]
        PROVE  MessageSettles(m)'
    BY <1>1, <1>5 DEF SettleInv, MessageSettles, WorkerSettles
  <1>6. \A v \in Workers : WorkerSettles(v)'
    BY <1>2 DEF SettleInv, WorkerSettles
  <1>7. OneMessageEach'
    BY <1>1 DEF SettleInv, OneMessageEach
  <1> QED
    BY <1>4, <1>5, <1>6, <1>7 DEF SettleInv

\* Starting, and taking a delivery up.
LEMMA SettlePoll ==
    ASSUME NothingFails, IInv, CalmInv, SettleInv, NEW w \in Workers, PollStep(w)
    PROVE  SettleInv'
  <1> USE DEF storeVars, queueVars, workerVars
  <1>1. CASE Start(w)
    <2>1. \A v \in Workers : WorkerSettles(v)'
      BY <1>1 DEF Start, Goto, IInv, TypeOK, SettleInv, WorkerSettles
    <2> QED
      BY <1>1, <2>1, SettleStutter DEF Start
  <1>2. ASSUME NEW m \in Messages, Receive(w, m)
        PROVE  SettleInv'
    <2>1. /\ mstate[m] = "visible" /\ mstate'[m] = "hidden"
          /\ receives[m] \in Nat /\ receives'[m] = receives[m] + 1
          /\ \A n \in Messages \ {m} : mstate'[n] = mstate[n] /\ receives'[n] = receives[n]
          /\ pc'[w] = "lease" /\ delivery'[w] = m /\ task'[w] = body[m]
          /\ \A v \in Workers \ {w} :
                pc'[v] = pc[v] /\ delivery'[v] = delivery[v] /\ task'[v] = task[v]
          /\ UNCHANGED <<status, body, renew, outcome>>
      BY <1>2, QueueAssumption DEF Receive, Deliver, Goto, IInv, TypeOK, QueueTypeOK
    <2>2. \A v \in Workers : delivery[v] # m /\ (v # w => delivery'[v] # m)
      <3>1. None \notin Messages
        BY WorkerAssumption
      <3> QED
        BY <2>1, <3>1 DEF CalmInv
    <2>3. body[m] \in Jobs /\ status[body[m]] \in {"PENDING", "FAILED"}
      BY <2>1, <2>2 DEF SettleInv, MessageSettles
    <2>4. delivery[w] = None
      BY <1>2 DEF Receive, IInv, DeliveryInv
    <2>5. \A n \in Messages \ {m} : MessageSettles(n)'
      BY <2>1, <2>4, WorkerAssumption DEF SettleInv, MessageSettles
    <2>6. MessageSettles(m)'
      BY <2>1, <2>3 DEF MessageSettles
    <2>7. WorkerSettles(w)'
      BY <2>1, <2>3, WorkerAssumption DEF WorkerSettles
    <2>8. \A v \in Workers \ {w} : WorkerSettles(v)'
      BY <2>1, <2>2 DEF SettleInv, WorkerSettles, IInv, TypeOK
    <2>9. OneMessageEach'
      BY <2>1 DEF SettleInv, OneMessageEach
    <2> QED
      BY <2>5, <2>6, <2>7, <2>8, <2>9 DEF SettleInv
  <1>3. ASSUME NEW m \in Messages, ReceiveInvalid(w, m)
        PROVE  SettleInv'
    BY <1>3, WorkerAssumption DEF ReceiveInvalid, Deliver, SettleInv, MessageSettles
  <1>4. CASE ReceiveEmpty(w)
    BY <1>4, SettleStutter DEF ReceiveEmpty, vars, SettleInv, WorkerSettles
  <1>5. CASE \/ ReceiveFailed(w) \/ \E m \in Messages : ReceiveLost(w, m)
             \/ \E j \in Jobs : StartOneShot(w, j)
    BY <1>5 DEF NothingFails, ReceiveFailed, ReceiveLost, StartOneShot, SignalDone, CalmInv
  <1> QED
    BY <1>1, <1>2, <1>3, <1>4, <1>5 DEF PollStep

LEMMA SettleRenew ==
    ASSUME IInv, CalmInv, SettleInv, NEW w \in Workers, RenewStep(w)
    PROVE  SettleInv'
  <1> USE DEF storeVars, queueVars
  <1>1. /\ UNCHANGED <<pc, delivery, task, outcome, status, mstate, body, receives>>
        /\ renew' = [renew EXCEPT ![w] = renew'[w]] /\ renew'[w] # "off"
    BY DEF RenewStep, RenewTick, RenewOk, RenewFailed, RenewStopped, RenewUnchanged,
           IInv, TypeOK
  <1>2. \A v \in Workers : WorkerSettles(v)'
    BY <1>1 DEF SettleInv, WorkerSettles, IInv, TypeOK
  <1> QED
    BY <1>1, <1>2, SettleStutter

\* The main goroutine: the only error it has to report is the job's own.
LEMMA SettleMain ==
    ASSUME NothingFails, IInv, CalmInv, SettleInv, NEW w \in Workers, MainStep(w)
    PROVE  SettleInv'
  <1> USE DEF storeVars, queueVars, workerVars, Goto
  <1>1. /\ ~SignalDone(w) /\ ~ProcessDone(w) /\ renew[w] # "failed"
        /\ delivery[w] # None => holder[delivery[w]] = w /\ mstate[delivery[w]] = "hidden"
        /\ WorkerSettles(w)
    BY DEF CalmInv, SignalDone, ProcessDone, SettleInv
  <1>2. /\ ~StopPolling(w) /\ ~LookupFailed(w) /\ ~TransitionUnanswered(w)
        /\ ~DeleteFailed(w) /\ ~LeaseRefused(w)
    BY <1>1 DEF NothingFails, StopPolling, LookupFailed, TransitionUnanswered, DeleteFailed,
       LeaseRefused, InFlight, WorkerSettles
  <1>3. /\ pc[w] \notin {"stopped", "poll"} => task[w] \in Jobs /\ delivery[w] # None
        /\ status \in [Jobs -> Statuses]
    BY <1>1 DEF IInv, DeliveryInv, TypeOK, StoreTypeOK, WorkerSettles
  <1>4. CASE LeaseGranted(w)
    <2>1. WorkerSettles(w)'
      BY <1>1, <1>4 DEF LeaseGranted, WorkerSettles, IInv, TypeOK
    <2> QED
      BY <1>1, <1>3, <1>4, <2>1, SettleMove DEF LeaseGranted, IInv, TypeOK
  <1>5. CASE Lookup(w)
    <2>1. WorkerSettles(w)'
      BY <1>1, <1>5 DEF Lookup, Return, WorkerSettles, IInv, TypeOK
    <2> QED
      BY <1>1, <1>3, <1>5, <2>1, SettleMove DEF Lookup, Return, IInv, TypeOK
  <1>6. CASE Transitioned(w)
    <2>1. /\ pc[w] \in {"claim", "commit", "fail"}
          /\ status'[task[w]] = Target[pc[w]]
          /\ \A j \in Jobs : j # task[w] => status'[j] = status[j]
      BY <1>3, <1>6 DEF Transitioned, Updated, Target
    <2>2. WorkerSettles(w)'
      BY <1>1, <1>6, <2>1 DEF Transitioned, Return, Target, WorkerSettles, IInv, TypeOK
    <2> QED
      BY <1>3, <1>6, <2>1, <2>2, SettleMove DEF Transitioned, Return, Target, IInv, TypeOK
  <1>7. ~TransitionRefused(w)
    BY <1>1 DEF TransitionRefused, Missed, Expected, Target, WorkerSettles, IInv, OwnerInv, Owning
  <1>8. CASE Begin(w) \/ ProcessStores(w) \/ ProcessFails(w)
    <2>1. /\ pc[w] \in {"begin", "run"} /\ pc'[w] \in {"run", "commit", "fail"}
          /\ pc' = [pc EXCEPT ![w] = pc'[w]]
          /\ UNCHANGED <<renew, delivery, task, outcome, status, mstate, body, receives>>
      BY <1>1, <1>8 DEF Begin, ProcessStores, ProcessFails, Record, IInv, TypeOK
    <2>2. WorkerSettles(w)'
      BY <1>1, <2>1 DEF WorkerSettles
    <2> QED
      BY <1>3, <2>1, <2>2, SettleMove DEF IInv, TypeOK
  <1>9. CASE Join(w)
    <2>1. pc[w] = "join" /\ renew[w] = "stopped"
      BY <1>1, <1>9 DEF Join, WorkerSettles
    <2>2. CASE outcome[w] = "error"
      BY <1>1, <1>3, <1>9, <2>1, <2>2, SettleLeave DEF Join, WorkerSettles
    <2>3. CASE outcome[w] # "error"
      <3>1. /\ pc' = [pc EXCEPT ![w] = "delete"]
            /\ UNCHANGED <<renew, delivery, task, outcome, status, mstate, body, receives>>
        BY <1>1, <1>9, <2>1, <2>3 DEF Join
      <3>2. WorkerSettles(w)'
        BY <1>1, <2>1, <3>1 DEF WorkerSettles, IInv, TypeOK
      <3> QED
        BY <1>3, <2>1, <3>1, <3>2, SettleMove DEF IInv, TypeOK
    <2> QED
      BY <2>2, <2>3
  <1>10. CASE Delete(w)
    <2>1. delivery[w] # None /\ delivery[w] \in Messages
      BY <1>3, <1>10 DEF Delete, IInv, TypeOK
    <2>2. /\ mstate'[delivery[w]] = "deleted"
          /\ \A m \in Messages : m # delivery[w] => mstate'[m] = mstate[m]
          /\ UNCHANGED <<status, body, receives>>
      BY <1>1, <1>10, <2>1 DEF Delete, Acknowledge, IInv, TypeOK, QueueTypeOK
    <2> QED
      BY <1>10, <2>1, <2>2, SettleLeave DEF Delete
  <1> QED
    BY <1>2, <1>4, <1>5, <1>6, <1>7, <1>8, <1>9, <1>10 DEF MainStep, ProcessStep

\* While nothing fails, a message reaches the DLQ only by way of a FAILED job.
THEOREM OnlyFailuresAreDeadLetters ==
    ASSUME NothingFails
    PROVE  Spec => []DeadLettersAreFailures
  <1>1. Undisturbed
    BY DEF NothingFails, Undisturbed
  <1>2. Init => SettleInv
    BY WorkerAssumption
    DEF Init, StoreInit, QueueInit, SettleInv, MessageSettles, WorkerSettles, OneMessageEach
  <1>3. IInv /\ CalmInv /\ SettleInv /\ [Next]_vars => SettleInv'
    <2> SUFFICES ASSUME IInv, CalmInv, SettleInv, [Next]_vars
                 PROVE  SettleInv'
      OBVIOUS
    <2>1. CASE Next
      BY <2>1, SettleEnvironment, SettlePoll, SettleMain, SettleRenew DEF Next
    <2>2. CASE UNCHANGED vars
      BY <2>2, SettleStutter
      DEF vars, storeVars, queueVars, workerVars, SettleInv, WorkerSettles
    <2> QED
      BY <2>1, <2>2
  <1>4. IInv /\ CalmInv /\ SettleInv => DeadLettersAreFailures
    <2> SUFFICES ASSUME IInv, CalmInv, SettleInv,
                        NEW m \in Messages, mstate[m] = "dead"
                 PROVE  status[body[m]] = "FAILED"
      BY DEF DeadLettersAreFailures
    <2>1. \A w \in Workers : delivery[w] # m
      BY WorkerAssumption DEF CalmInv
    <2> QED
      BY <2>1 DEF SettleInv, MessageSettles
  <1> QED
    BY <1>1, <1>2, <1>3, <1>4, CalmAlways, InductiveInvariant, PTL DEF Spec
=============================================================================
