--------------------------- MODULE JobSubmission ----------------------------
(***************************************************************************)
(* Creating a job through the API process: the JSON path of the handler    *)
(* (jobsubmission.Service) and the upload path (jobupload.Service), which  *)
(* write up to three stores without a common transaction: the input file,  *)
(* the row, the queue message.                                             *)
(*                                                                         *)
(* A request r stands for everything it creates: its file (the key is a    *)
(* fresh UUID, so no other request shares it), its row and its message.    *)
(***************************************************************************)
EXTENDS Naturals

CONSTANTS
    Requests,           \* POST /api/v1/jobs requests
    Uploads,            \* those with a multipart body
    Faults              \* what may go wrong

FaultKinds == {
    "cancel",           \* the client goes away: the request context is done
    "crash",            \* the API process dies
    "db", "sqs", "storage", \* a call to that service errs
    "eof"}              \* and a connection may end in the middle of an answer

ASSUME SubmissionAssumption ==
    /\ Uploads \subseteq Requests
    /\ Faults \subseteq FaultKinds

VARIABLES
    handler,            \* handler[r]: the call the handler is in
    cancelled,          \* requests whose context is done
    cause,              \* cause[r]: the answer to give after the cleanup
    answer,             \* answer[r]: created, rejected (4xx), error (500)
    files,              \* requests whose input file is in place
    rows,               \* requests whose row exists
    late,               \* requests whose INSERT may still be run by the server
    underway,           \* requests whose SendMessage may still be served
    sent,               \* requests whose message is in the queue
    doubts              \* history: requests that ended without knowing, or
                        \* without managing to remove, what they left behind

vars == <<handler, cancelled, cause, answer, files, rows, late, underway, sent, doubts>>

Busy == {"put", "check", "insert", "publish", "cleanup"}
Answers == {"none", "created", "rejected", "error"}

TypeOK ==
    /\ handler \in [Requests -> Busy \union {"idle", "answered", "lost"}]
    /\ cancelled \in SUBSET Requests
    /\ cause \in [Requests -> Answers]
    /\ answer \in [Requests -> Answers]
    /\ files \in SUBSET Requests
    /\ rows \in SUBSET Requests
    /\ late \in SUBSET Requests
    /\ underway \in SUBSET Requests
    /\ sent \in SUBSET Requests
    /\ doubts \in SUBSET Requests

Init ==
    /\ handler = [r \in Requests |-> "idle"]
    /\ cancelled = {}
    /\ cause = [r \in Requests |-> "none"]
    /\ answer = [r \in Requests |-> "none"]
    /\ files = {}
    /\ rows = {}
    /\ late = {}
    /\ underway = {}
    /\ sent = {}
    /\ doubts = {}

Goto(r, call) ==
    /\ handler' = [handler EXCEPT ![r] = call]
    /\ UNCHANGED <<cancelled, cause, answer>>

Reply(r, a) ==
    /\ handler' = [handler EXCEPT ![r] = "answered"]
    /\ answer' = [answer EXCEPT ![r] = a]
    /\ UNCHANGED <<cancelled, cause>>

\* Remove the input first, then answer.
CleanUp(r, a) ==
    /\ handler' = [handler EXCEPT ![r] = "cleanup"]
    /\ cause' = [cause EXCEPT ![r] = a]
    /\ UNCHANGED <<cancelled, answer>>

\* The answer to an error of the database or of SQS. writeUploadError takes one
\* that wraps io.ErrUnexpectedEOF for a truncated request body (see UploadErrors).
FailureAnswers(r) ==
    {"error"} \union {a \in {"rejected"} : r \in Uploads /\ "eof" \in Faults}

\* Whether a call that takes the request context may err.
MayErr(r, service) == service \in Faults \/ r \in cancelled

-----------------------------------------------------------------------------
(* Handler.createJob, uploadJob                                            *)

\* The body is well formed and the path chosen by its Content-Type.
Accept(r) ==
    /\ handler[r] = "idle"
    /\ Goto(r, IF r \in Uploads THEN "put" ELSE "insert")
    /\ UNCHANGED <<files, rows, late, underway, sent, doubts>>

\* Invalid JSON, form, media type, size or file name.
Reject(r) ==
    /\ handler[r] = "idle"
    /\ Reply(r, "rejected")
    /\ UNCHANGED <<files, rows, late, underway, sent, doubts>>

\* The client may be gone before its body is parsed; nobody looks until Upload.
Cancel(r) ==
    /\ "cancel" \in Faults
    /\ handler[r] \in Busy \union {"idle"}
    /\ cancelled' = cancelled \union {r}
    /\ UNCHANGED <<handler, cause, answer, files, rows, late, underway, sent, doubts>>

-----------------------------------------------------------------------------
(* jobupload.Service.Upload                                                *)

\* LocalStorage.Put renamed the complete file into place.
Put(r) ==
    /\ handler[r] = "put"
    /\ files' = files \union {r}
    /\ Goto(r, "check")
    /\ UNCHANGED <<rows, late, underway, sent, doubts>>

\* Put failed before its rename, or Upload gave up before it called Put and has
\* nothing to clean up. boundedReader is a second check of the size the handler
\* has compared.
PutFails(r) ==
    /\ handler[r] = "put"
    /\ \/ MayErr(r, "storage") /\ (CleanUp(r, "error") \/ Reply(r, "error"))
       \/ CleanUp(r, "rejected")        \* ErrUploadTooLarge
    /\ UNCHANGED <<files, rows, late, underway, sent, doubts>>

\* Variant: the cancelled request is answered without removing its file.
CheckLeavesFile(r) ==
    /\ handler[r] = "check"
    /\ IF r \in cancelled THEN Reply(r, "error") ELSE Goto(r, "insert")
    /\ UNCHANGED <<files, rows, late, underway, sent, doubts>>

\* No create has started, so cancellation is safe to clean up.
Check(r) ==
    /\ handler[r] = "check"
    /\ IF r \in cancelled THEN CleanUp(r, "error") ELSE Goto(r, "insert")
    /\ UNCHANGED <<files, rows, late, underway, sent, doubts>>

\* The answer that had to wait for the cleanup.
ReplyCause(r) ==
    /\ handler' = [handler EXCEPT ![r] = "answered"]
    /\ answer' = [answer EXCEPT ![r] = cause[r]]
    /\ cause' = [cause EXCEPT ![r] = "none"]
    /\ UNCHANGED cancelled

\* cleanup(): Delete under a context of its own, so cancellation cannot fail it.
Cleaned(r) ==
    /\ handler[r] = "cleanup"
    /\ files' = files \ {r}
    /\ ReplyCause(r)
    /\ UNCHANGED <<rows, late, underway, sent, doubts>>

CleanupFails(r) ==
    /\ handler[r] = "cleanup"
    /\ "storage" \in Faults
    /\ doubts' = doubts \union {r}
    /\ ReplyCause(r)
    /\ UNCHANGED <<files, rows, late, underway, sent>>

-----------------------------------------------------------------------------
(* jobsubmission.Service.Create over Repository.Create                     *)

Inserted(r) ==
    /\ handler[r] = "insert"
    /\ rows' = rows \union {r}
    /\ Goto(r, "publish")
    /\ UNCHANGED <<files, late, underway, sent, doubts>>

\* ErrNotCreated: certainly no row (never sent, or refused by the server).
InsertRefused(r) ==
    /\ handler[r] = "insert"
    /\ MayErr(r, "db")
    /\ IF r \in Uploads THEN CleanUp(r, "error") ELSE Reply(r, "error")
    /\ UNCHANGED <<files, rows, late, underway, sent, doubts>>

\* Variant: every error of Create removes the input.
InsertUnansweredCleans(r) ==
    /\ handler[r] = "insert"
    /\ MayErr(r, "db")
    /\ late' \in {late, late \union {r}}
    /\ CleanUp(r, "error")
    /\ UNCHANGED <<files, rows, underway, sent, doubts>>

\* Variant: an unanswered INSERT is taken for a success.
InsertUnansweredPublishes(r) ==
    /\ handler[r] = "insert"
    /\ MayErr(r, "db")
    /\ late' \in {late, late \union {r}}
    /\ Goto(r, "publish")
    /\ UNCHANGED <<files, rows, underway, sent, doubts>>

\* Any other error: the row may exist, now or later, so the file is kept.
InsertUnanswered(r) ==
    /\ handler[r] = "insert"
    /\ MayErr(r, "db")
    /\ late' \in {late, late \union {r}}
    /\ doubts' = doubts \union {r}
    /\ \E a \in FailureAnswers(r) : Reply(r, a)
    /\ UNCHANGED <<files, rows, underway, sent>>

InsertLands(r) ==
    /\ r \in late
    /\ rows' = rows \union {r}
    /\ late' = late \ {r}
    /\ UNCHANGED <<handler, cancelled, cause, answer, files, underway, sent, doubts>>

Published(r) ==
    /\ handler[r] = "publish"
    /\ sent' = sent \union {r}
    /\ Reply(r, "created")
    /\ UNCHANGED <<files, rows, late, underway, doubts>>

\* What a failed Publish may leave on its way to the queue.
MayStillArrive(r) == underway' \in {underway, underway \union {r}}

\* Variant: the error of Publish is dropped.
PublishFailsIgnored(r) ==
    /\ handler[r] = "publish"
    /\ MayErr(r, "sqs")
    /\ MayStillArrive(r)
    /\ Reply(r, "created")
    /\ UNCHANGED <<files, rows, late, sent, doubts>>

\* Variant: a failed publication is reported like an invalid request.
PublishFailsRejected(r) ==
    /\ handler[r] = "publish"
    /\ MayErr(r, "sqs")
    /\ MayStillArrive(r)
    /\ Reply(r, "rejected")
    /\ UNCHANGED <<files, rows, late, sent, doubts>>

\* Variant: Upload does not exclude ErrJobCreated from its cleanup.
PublishFailsCleans(r) ==
    /\ handler[r] = "publish"
    /\ MayErr(r, "sqs")
    /\ MayStillArrive(r)
    /\ IF r \in Uploads THEN CleanUp(r, "error") ELSE Reply(r, "error")
    /\ UNCHANGED <<files, rows, late, sent, doubts>>

\* ErrJobCreated: the PENDING row and its file stay. SQS may have the message,
\* or get it later.
PublishFails(r) ==
    /\ handler[r] = "publish"
    /\ MayErr(r, "sqs")
    /\ MayStillArrive(r)
    /\ \E a \in FailureAnswers(r) : Reply(r, a)
    /\ UNCHANGED <<files, rows, late, sent, doubts>>

MessageArrives(r) ==
    /\ r \in underway
    /\ sent' = sent \union {r}
    /\ underway' = underway \ {r}
    /\ UNCHANGED <<handler, cancelled, cause, answer, files, rows, late, doubts>>

-----------------------------------------------------------------------------
\* The API process dies with every request it is handling; statements and
\* messages already on their way may still arrive.
Crash ==
    /\ "crash" \in Faults
    /\ \E r \in Requests : handler[r] \in Busy
    /\ handler' = [r \in Requests |-> IF handler[r] \in Busy THEN "lost" ELSE handler[r]]
    /\ doubts' = doubts \union {r \in Requests : handler[r] \in Busy}
    /\ \E S \in SUBSET {r \in Requests : handler[r] = "insert"} : late' = late \union S
    /\ \E S \in SUBSET {r \in Requests : handler[r] = "publish"} : underway' = underway \union S
    /\ UNCHANGED <<cancelled, cause, answer, files, rows, sent>>

\* What the handler of r does next on its own.
HandlerStep(r) ==
    \/ Put(r) \/ PutFails(r) \/ Check(r)
    \/ Inserted(r) \/ InsertRefused(r) \/ InsertUnanswered(r)
    \/ Published(r) \/ PublishFails(r)
    \/ Cleaned(r) \/ CleanupFails(r)

RequestStep(r) ==
    \/ Accept(r) \/ Reject(r) \/ Cancel(r) \/ HandlerStep(r)
    \/ InsertLands(r) \/ MessageArrives(r)

Next == (\E r \in Requests : RequestStep(r)) \/ Crash

Spec == Init /\ [][Next]_vars

-----------------------------------------------------------------------------
Durable == rows \union late

\* A row that exists, or may come to exist, never names an input file that is
\* not there, so no worker fails on a file its API removed (Upload's cleanup
\* only after a certain ErrNotCreated).
RowHasItsFile == \A r \in Durable \intersect Uploads : r \in files

\* 201 is only answered once row and message are both durable.
CreatedIsQueued == \A r \in Requests : answer[r] = "created" => r \in rows /\ r \in sent

\* A message never precedes the row its worker will look up.
MessageHasItsRow == sent \subseteq rows

\* A 4xx answer leaves no job: repeating the corrected request duplicates none.
\* An upload breaks it when a connection ends early (fault "eof").
RejectedLeavesNoJob ==
    \A r \in Requests : answer[r] = "rejected" => r \notin Durable /\ r \notin sent

\* A file without a row is left only where the outcome was unknown, the removal
\* failed or the process died; every other failed upload cleans up.
OrphanIsDoubtful ==
    \A r \in files : handler[r] = "answered" /\ r \notin Durable => r \in doubts

\* Which stores a request can have reached where.
ProgressInv ==
    \A r \in Requests :
        /\ r \in rows => handler[r] \in {"publish", "answered", "lost"}
        /\ r \in late => handler[r] \in {"answered", "lost"} /\ answer[r] # "created"
        /\ r \in sent => handler[r] \in {"answered", "lost"}
        /\ r \in underway => handler[r] \in {"answered", "lost"} /\ r \in rows
        /\ r \in underway => answer[r] # "created"
        /\ handler[r] = "publish" => r \in rows
        /\ handler[r] \in {"put", "check"} => r \in Uploads
        /\ handler[r] \in {"check", "insert"} /\ r \in Uploads => r \in files
        /\ r \in files => handler[r] \notin {"idle", "put"}
        /\ r \in files => r \in Uploads
        /\ handler[r] # "answered" => answer[r] = "none"
        /\ handler[r] = "cleanup" => cause[r] \in {"rejected", "error"}

SubmissionInv ==
    /\ TypeOK
    /\ ProgressInv
    /\ RowHasItsFile
    /\ CreatedIsQueued
    /\ MessageHasItsRow
    /\ "eof" \notin Faults => RejectedLeavesNoJob
    /\ OrphanIsDoubtful
=============================================================================
