------------------------------ MODULE JobStore ------------------------------
(***************************************************************************)
(* The PostgreSQL table of jobs as internal/job/repository.go uses it.     *)
(*                                                                         *)
(* A row is its status. The other columns carry no control: result_key is  *)
(* set exactly in COMPLETED, error_message exactly in FAILED, started_at   *)
(* from PROCESSING on, and every UPDATE of the repository writes them      *)
(* together with the status.                                               *)
(*                                                                         *)
(* A statement has three possible answers: it matched a row, it matched    *)
(* none, or the client saw an error (lost connection, timeout, cancelled   *)
(* context). After an error the client does not know whether the server    *)
(* will run the statement; "unacked" holds the ones it may still run.      *)
(***************************************************************************)
EXTENDS Naturals

CONSTANT Jobs           \* the job identifiers (UUIDs) in play

VARIABLES
    status,             \* status[j]: the status column, ABSENT when there is no row
    unacked             \* statements whose client has given up on an answer

storeVars == <<status, unacked>>

Statuses == {"ABSENT", "PENDING", "PROCESSING", "COMPLETED", "FAILED"}
Targets == {"PROCESSING", "COMPLETED", "FAILED"}
Statements == [job : Jobs, to : Targets]

StoreTypeOK ==
    /\ status \in [Jobs -> Statuses]
    /\ unacked \in SUBSET Statements

StoreInit ==
    /\ status = [j \in Jobs |-> "ABSENT"]
    /\ unacked = {}

\* INSERT INTO jobs: the row starts PENDING by the column's default.
Insert(j) ==
    /\ status[j] = "ABSENT"
    /\ status' = [status EXCEPT ![j] = "PENDING"]
    /\ UNCHANGED unacked

\* The status each UPDATE requires in its WHERE clause.
Expected(to) == IF to = "PROCESSING" THEN "PENDING" ELSE "PROCESSING"

\* Variant: the UPDATE has no status condition.
AppliedUnconditionally(s) == [status EXCEPT ![s.job] = s.to]

\* What a statement leaves in the table when the server runs it.
Applied(s) ==
    IF status[s.job] = Expected(s.to)
    THEN [status EXCEPT ![s.job] = s.to]
    ELSE status

\* Variant: MarkProcessing may also take a job over that is PROCESSING.
UpdatedTakingOver(j, to) ==
    /\ status[j] \in {Expected(to), "PROCESSING"}
    /\ status' = [status EXCEPT ![j] = to]
    /\ UNCHANGED unacked

\* transition(): the conditional UPDATE matched the row and the client knows.
Updated(j, to) ==
    /\ status[j] = Expected(to)
    /\ status' = [status EXCEPT ![j] = to]
    /\ UNCHANGED unacked

\* classifyTransitionMiss(): it matched nothing; ErrNotFound and
\* ErrInvalidTransition are both errors to every caller.
Missed(j, to) ==
    /\ status[j] # Expected(to)
    /\ UNCHANGED storeVars

\* The client gave up: the statement was never sent, or is still on its way.
Unanswered(j, to) ==
    /\ unacked' \in {unacked, unacked \union {[job |-> j, to |-> to]}}
    /\ UNCHANGED status

\* The server runs a statement nobody waits for any more.
CommitLate(s) ==
    /\ s \in unacked
    /\ status' = Applied(s)
    /\ unacked' = unacked \ {s}
=============================================================================
