-------------------------- MODULE VisibilityLease ---------------------------
(***************************************************************************)
(* The timing of one delivery's lease: the initial extension and the       *)
(* heartbeat of QueueRunner.processDelivery against the visibility timeout *)
(* the queue counts down. It justifies the guard of QueueWorker!Expire.    *)
(*                                                                         *)
(* Time is discrete and relative: no clock grows. Goroutines are assumed   *)
(* to react without delay (what a late scheduler may add is what the code  *)
(* leaves as margin); requests take any time up to the request timeout.    *)
(***************************************************************************)
EXTENDS Integers

CONSTANTS
    MaxTimeout,         \* the largest visibility timeout SQS accepts
    QueueVisibility     \* the queue's own VisibilityTimeout attribute

ASSUME LeaseAssumption ==
    /\ MaxTimeout \in Nat \ {0}
    /\ QueueVisibility \in Nat \ {0}

VARIABLES
    config,             \* the VisibilityConfig in force
    phase,              \* what the renewal is doing
    left,               \* time until the message becomes visible again
    age,                \* time since the latest request was sent
    applied,            \* the server has served that request
    due,                \* time until the ticker's next tick
    ticked              \* a tick waits in the ticker's channel

vars == <<config, phase, left, age, applied, due, ticked>>

Configs == [timeout : 1 .. MaxTimeout, heartbeat : 1 .. MaxTimeout, request : 1 .. MaxTimeout]

\* Variant: room for the renewal but not for the initial request before it.
ValidateOneRequest(c) ==
    /\ c.heartbeat < c.timeout
    /\ c.request < c.timeout - c.heartbeat

\* VisibilityConfig.Validate, with its integer division.
Validate(c) ==
    /\ c.heartbeat < c.timeout
    /\ c.request < (c.timeout - c.heartbeat) \div 2

Requesting == {"initial", "calling"}
Ended == {"stopped", "failed"}

TypeOK ==
    /\ config \in Configs
    /\ phase \in Requesting \union Ended \union {"waiting"}
    /\ left \in Int
    /\ age \in Nat
    /\ applied \in BOOLEAN
    /\ due \in 0 .. config.heartbeat
    /\ ticked \in BOOLEAN

\* Receive has just returned and the initial extension is sent. The queue's own
\* timeout covers that request.
Init ==
    /\ config \in {c \in Configs : Validate(c) /\ c.request < QueueVisibility}
    /\ phase = "initial"
    /\ left = QueueVisibility
    /\ age = 0
    /\ applied = FALSE
    /\ due = config.heartbeat
    /\ ticked = FALSE

\* The request's context (context.WithTimeout in extend) ends at its deadline;
\* a tick is delivered when it is due, and taken as soon as somebody waits.
MayPass ==
    /\ phase \in Requesting => age < config.request
    /\ phase = "waiting" => ~ticked
    /\ phase \in {"waiting", "calling"} => due > 0

Pass ==
    /\ phase \notin Ended
    /\ MayPass
    /\ left' = left - 1
    /\ age' = age + 1
    /\ due' = IF phase = "initial" THEN due ELSE due - 1
    /\ UNCHANGED <<config, phase, applied, ticked>>

\* ChangeMessageVisibility takes effect, counted from when it is served.
Serve ==
    /\ phase \in Requesting
    /\ ~applied
    /\ left > 0
    /\ left' = config.timeout
    /\ applied' = TRUE
    /\ UNCHANGED <<config, phase, age, due, ticked>>

\* The answer arrives. The first one starts the ticker.
Answer ==
    /\ phase \in Requesting
    /\ applied
    /\ phase' = "waiting"
    /\ due' = IF phase = "initial" THEN config.heartbeat ELSE due
    /\ UNCHANGED <<config, left, age, applied, ticked>>

\* The ticker fires; its channel holds one tick and drops the rest.
Tick ==
    /\ phase \in {"waiting", "calling"}
    /\ due = 0
    /\ ticked' = TRUE
    /\ due' = config.heartbeat
    /\ UNCHANGED <<config, phase, left, age, applied>>

Renew ==
    /\ phase = "waiting"
    /\ ticked
    /\ phase' = "calling"
    /\ age' = 0
    /\ applied' = FALSE
    /\ ticked' = FALSE
    /\ UNCHANGED <<config, left, due>>

\* The request errs, at its deadline at the latest: processing is cancelled.
Fail ==
    /\ phase \in Requesting
    /\ phase' = "failed"
    /\ UNCHANGED <<config, left, age, applied, due, ticked>>

\* ProcessJob returned: stopRenew.
Stop ==
    /\ phase \in {"waiting", "calling"}
    /\ phase' = "stopped"
    /\ UNCHANGED <<config, left, age, applied, due, ticked>>

Next == Pass \/ Serve \/ Answer \/ Tick \/ Renew \/ Fail \/ Stop

Spec == Init /\ [][Next]_vars

-----------------------------------------------------------------------------
\* Under every configuration Validate accepts, the message stays hidden until
\* processing has ended or has been cancelled (phase and time stop there), even
\* when each request is served early and answered at its deadline.
LeaseHeld == left > 0

\* Sending a renewal is never later than a request timeout and a heartbeat
\* after the previous request (processDelivery creates the ticker only when
\* the initial request is answered).
Pace == config.request + config.heartbeat

\* Why LeaseHeld is preserved: how old the latest request that is known to
\* have been served can be, and what it left on the lease.
LeaseInv ==
    /\ TypeOK
    /\ Validate(config)
    /\ phase \in Requesting => age <= config.request
    /\ phase = "initial" =>
        /\ ~ticked
        /\ applied => left >= config.timeout - age
        /\ ~applied => left = QueueVisibility - age
        /\ config.request < QueueVisibility
    /\ phase = "waiting" =>
        /\ left >= config.timeout - age
        /\ age + (IF ticked THEN 0 ELSE due) <= Pace
    /\ phase = "calling" =>
        /\ applied => left >= config.timeout - age
        /\ ~applied => left >= config.timeout - Pace - age
        /\ age + due <= Pace
        /\ ticked => age <= config.request
    /\ LeaseHeld
=============================================================================
