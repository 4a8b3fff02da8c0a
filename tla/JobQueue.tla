------------------------------ MODULE JobQueue ------------------------------
(***************************************************************************)
(* The SQS source queue and its dead-letter queue, as init-aws.sh sets     *)
(* them up (redrive after maxReceiveCount) and sqsqueue/adapter.go calls   *)
(* them. Receipt handles are abstracted to their owner: the handle worker  *)
(* w got for message m is the current one iff holder[m] = w.               *)
(***************************************************************************)
EXTENDS Naturals

CONSTANTS
    Messages,           \* messages that may ever be sent
    Bodies,             \* what a message may carry
    Workers,            \* worker processes that may receive
    None,               \* no worker
    MaxReceive          \* maxReceiveCount of the redrive policy

ASSUME QueueAssumption ==
    /\ MaxReceive \in Nat \ {0}
    /\ None \notin Workers

VARIABLES
    mstate,             \* mstate[m]: where the message is
    body,               \* body[m]: what it carries (None before it is sent)
    receives,           \* receives[m]: ApproximateReceiveCount
    holder              \* holder[m]: who has its most recent receipt handle

queueVars == <<mstate, body, receives, holder>>

MessageStates == {"unsent", "visible", "hidden", "deleted", "dead"}

QueueTypeOK ==
    /\ mstate \in [Messages -> MessageStates]
    /\ body \in [Messages -> Bodies \union {None}]
    /\ receives \in [Messages -> 0 .. MaxReceive]
    /\ holder \in [Messages -> Workers \union {None}]

QueueInit ==
    /\ mstate = [m \in Messages |-> "unsent"]
    /\ body = [m \in Messages |-> None]
    /\ receives = [m \in Messages |-> 0]
    /\ holder = [m \in Messages |-> None]

\* Publisher.Publish: SendMessage.
Send(m, b) ==
    /\ mstate[m] = "unsent"
    /\ mstate' = [mstate EXCEPT ![m] = "visible"]
    /\ body' = [body EXCEPT ![m] = b]
    /\ UNCHANGED <<receives, holder>>

\* ReceiveMessage hands m to h with a fresh receipt handle and hides it. When
\* the response is lost, h is None: nobody has the handle.
Deliver(h, m) ==
    /\ mstate[m] = "visible"
    /\ receives[m] < MaxReceive
    /\ mstate' = [mstate EXCEPT ![m] = "hidden"]
    /\ receives' = [receives EXCEPT ![m] = @ + 1]
    /\ holder' = [holder EXCEPT ![m] = h]
    /\ UNCHANGED body

\* The visibility timeout of a received message runs out.
Reappear(m) ==
    /\ mstate[m] = "hidden"
    /\ mstate' = [mstate EXCEPT ![m] = "visible"]
    /\ UNCHANGED <<body, receives, holder>>

\* Variant: off by one, no message ever qualifies.
RedriveAboveMax(m) ==
    /\ mstate[m] = "visible"
    /\ receives[m] > MaxReceive
    /\ mstate' = [mstate EXCEPT ![m] = "dead"]
    /\ UNCHANGED <<body, receives, holder>>

\* The redrive policy moves a message that used up its receives to the DLQ.
Redrive(m) ==
    /\ mstate[m] = "visible"
    /\ receives[m] = MaxReceive
    /\ mstate' = [mstate EXCEPT ![m] = "dead"]
    /\ UNCHANGED <<body, receives, holder>>

\* DeleteMessage is certain with the current handle, visible or not; with an
\* older one SQS answers success and may or may not remove the message.
Acknowledge(w, m) ==
    /\ \/ /\ mstate[m] \in {"visible", "hidden"}
          /\ mstate' = [mstate EXCEPT ![m] = "deleted"]
       \/ /\ mstate[m] \in {"deleted", "dead"} \/ holder[m] # w
          /\ UNCHANGED mstate
    /\ UNCHANGED <<body, receives, holder>>

\* ChangeMessageVisibility is accepted only for a message in flight.
InFlight(m) == mstate[m] = "hidden"
=============================================================================
