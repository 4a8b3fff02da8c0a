---------------------------- MODULE JobLifecycle ----------------------------
(***************************************************************************)
(* What CloudQueue promises about one job, without workers, calls or       *)
(* faults: it is acquired at most once and executed at most once, its      *)
(* result is stored before it is COMPLETED, a FAILED job has none, the two *)
(* terminal states are final, and its message is acknowledged only once    *)
(* the job is COMPLETED. A job may stop anywhere: nothing here promises    *)
(* that it ends.                                                           *)
(***************************************************************************)
EXTENDS Naturals

CONSTANT Jobs

VARIABLES
    phase,      \* phase[j]: the status column
    runs,       \* runs[j]: how often the Processor was started for j
    stored,     \* jobs whose result file exists
    acked       \* jobs one of whose messages was acknowledged

lifecycleVars == <<phase, runs, stored, acked>>

Init ==
    /\ phase = [j \in Jobs |-> "ABSENT"]
    /\ runs = [j \in Jobs |-> 0]
    /\ stored = {}
    /\ acked = {}

Advance(j, from, to) ==
    /\ phase[j] = from
    /\ phase' = [phase EXCEPT ![j] = to]
    /\ UNCHANGED <<runs, stored, acked>>

Submit(j) == Advance(j, "ABSENT", "PENDING")

Acquire(j) == Advance(j, "PENDING", "PROCESSING")

Execute(j) ==
    /\ phase[j] = "PROCESSING"
    /\ runs[j] = 0
    /\ runs' = [runs EXCEPT ![j] = 1]
    /\ UNCHANGED <<phase, stored, acked>>

Store(j) ==
    /\ phase[j] = "PROCESSING"
    /\ runs[j] = 1
    /\ j \notin stored
    /\ stored' = stored \union {j}
    /\ UNCHANGED <<phase, runs, acked>>

Complete(j) ==
    /\ j \in stored
    /\ Advance(j, "PROCESSING", "COMPLETED")

Fail(j) ==
    /\ runs[j] = 1
    /\ j \notin stored
    /\ Advance(j, "PROCESSING", "FAILED")

Acknowledge(j) ==
    /\ phase[j] = "COMPLETED"
    /\ acked' = acked \union {j}
    /\ UNCHANGED <<phase, runs, stored>>

Next ==
    \E j \in Jobs :
        \/ Submit(j) \/ Acquire(j) \/ Execute(j) \/ Store(j)
        \/ Complete(j) \/ Fail(j) \/ Acknowledge(j)

Spec == Init /\ [][Next]_lifecycleVars
=============================================================================
