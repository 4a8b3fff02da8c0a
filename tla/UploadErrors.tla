---------------------------- MODULE UploadErrors ----------------------------
(***************************************************************************)
(* How the errors of one multipart upload are told apart: by               *)
(* Repository.Create (is there certainly no row?), by jobupload.Upload     *)
(* (may the input be removed?) and by writeUploadError (whose fault is     *)
(* it?). Each looks with errors.Is or errors.As through what the layers    *)
(* below wrapped and joined, so an error is the set of what it contains.   *)
(*                                                                         *)
(* JobSubmission has many requests and the stores, but takes the outcome   *)
(* of these decisions for granted. Checks that cannot fail on this path    *)
(* are left out: Upload sees a validated name, a content that is neither   *)
(* empty nor too long, and an identifier made by the database.             *)
(***************************************************************************)
EXTENDS Naturals

VARIABLES
    stage,              \* the call the handler is in
    error,              \* what the error in hand contains, {} for nil
    blame,              \* history: what went wrong first
    cancelled,          \* the request context is done
    file,               \* the input file is in place
    row,                \* the row exists or will exist
    unremoved,          \* history: the cleanup failed
    status              \* of the response, 0 before it

vars == <<stage, error, blame, cancelled, file, row, unremoved, status>>

\* What errors.Is and errors.As look for.
InvalidInput == "job.ErrInvalidInput"
UploadTooLarge == "job.ErrUploadTooLarge"
MaxBytes == "http.MaxBytesError"
UnexpectedEOF == "io.ErrUnexpectedEOF"
NotCreated == "job.ErrNotCreated"
JobCreated == "jobsubmission.ErrJobCreated"
SafeToRetry == "pgconn.SafeToRetry"     \* no byte was sent to the server
DataError == "SQLSTATE 22, 23, 42"      \* the statement was refused
ServerError == "other SQLSTATE"
Canceled == "context.Canceled"
Other == "other"

Sentinels == {InvalidInput, UploadTooLarge, MaxBytes, UnexpectedEOF, NotCreated,
              JobCreated, SafeToRetry, DataError, ServerError, Canceled, Other}

Early == {"parse", "form", "open", "put"}       \* no file yet
Late == {"check", "create", "publish"}
Decisive == {"answer", "answered"}              \* the answer is decided
Stages == Early \union Late \union {"cleanup"} \union Decisive
Blames == {"nobody", "client", "size", "temporary file", "storage", "database", "queue"}

TypeOK ==
    /\ stage \in Stages
    /\ error \in SUBSET Sentinels
    /\ blame \in Blames
    /\ cancelled \in BOOLEAN
    /\ file \in BOOLEAN
    /\ row \in BOOLEAN
    /\ unremoved \in BOOLEAN
    /\ status \in {0, 201, 400, 413, 500}

Init ==
    /\ stage = "parse"
    /\ error = {}
    /\ blame = "nobody"
    /\ cancelled = FALSE
    /\ file = FALSE
    /\ row = FALSE
    /\ unremoved = FALSE
    /\ status = 0

\* The request context may be what makes a call err.
Lost == {e \in {{Canceled}} : cancelled}

\* What a call over a network may err with: an answer cut short shows as
\* io.ErrUnexpectedEOF in pgconn and in net/http.
NetworkErrors == {{Other}, {UnexpectedEOF}} \union Lost

Proceed(next) ==
    /\ stage' = next
    /\ UNCHANGED <<error, blame, cancelled, unremoved, status>>

Fail(next, e, who) ==
    /\ stage' = next
    /\ error' = e
    /\ blame' = who
    /\ UNCHANGED <<cancelled, unremoved, status>>

\* The client goes away. Once the answer is decided nobody looks.
Cancel ==
    /\ stage \notin Decisive
    /\ ~cancelled
    /\ cancelled' = TRUE
    /\ UNCHANGED <<stage, error, blame, file, row, unremoved, status>>

-----------------------------------------------------------------------------
(* Handler.uploadJob                                                       *)

\* ParseMultipartForm, and the epilogue after it: every error is joined with
\* ErrInvalidInput, also that of a temporary file that cannot be written.
Parse ==
    /\ stage = "parse"
    /\ \/ Proceed("form")
       \/ \E e \in {Other, UnexpectedEOF} : Fail("answer", {InvalidInput, e}, "client")
       \/ Fail("answer", {InvalidInput, MaxBytes}, "size")
       \/ Fail("answer", {InvalidInput, Other}, "temporary file")
    /\ UNCHANGED <<file, row>>

\* The number of fields and files, the name, the length.
Form ==
    /\ stage = "form"
    /\ \/ Proceed("open")
       \/ Fail("answer", {InvalidInput}, "client")
       \/ Fail("answer", {UploadTooLarge}, "size")
    /\ UNCHANGED <<file, row>>

\* header.Open, the context and Peek.
Open ==
    /\ stage = "open"
    /\ \/ Proceed("put")
       \/ Fail("answer", {Other}, "temporary file")
       \/ cancelled /\ Fail("answer", {Canceled}, "client")
    /\ UNCHANGED <<file, row>>

-----------------------------------------------------------------------------
(* jobupload.Service.Upload                                                *)

Put ==
    /\ stage = "put"
    /\ \/ Proceed("check") /\ file' = TRUE
       \/ \E e \in {{Other}} \union Lost : Fail("cleanup", e, "storage") /\ file' = FALSE
    /\ UNCHANGED row

Check ==
    /\ stage = "check"
    /\ IF cancelled THEN Fail("cleanup", {Canceled}, "client") ELSE Proceed("create")
    /\ UNCHANGED <<file, row>>

\* Variant: whatever the server itself reports was not created.
ClassifiedAnyServerError(e) ==
    IF e \intersect {SafeToRetry, DataError, ServerError} # {}
    THEN e \union {NotCreated}
    ELSE e

\* Variant: refusals of the server are not classified.
ClassifiedUnsentOnly(e) == IF SafeToRetry \in e THEN e \union {NotCreated} ELSE e

\* Repository.Create
Classified(e) ==
    IF e \intersect {SafeToRetry, DataError} # {} THEN e \union {NotCreated} ELSE e

\* Upload: remove the input, or keep it because a row may name it.
Decided(e) ==
    IF JobCreated \notin e /\ e \intersect {NotCreated, InvalidInput} # {}
    THEN "cleanup"
    ELSE "answer"

\* An INSERT that failed without leaving a row, or one that may yet take effect.
Create ==
    /\ stage = "create"
    /\ \/ Proceed("publish") /\ row' = TRUE
       \/ \E e \in {{DataError}, {SafeToRetry, Other}} \union {{SafeToRetry} \union l : l \in Lost} :
            Fail(Decided(Classified(e)), Classified(e), "database") /\ row' = FALSE
       \/ \E e \in {{ServerError}} \union NetworkErrors :
            Fail(Decided(Classified(e)), Classified(e), "database") /\ row' \in BOOLEAN
    /\ UNCHANGED file

\* jobsubmission.Service.Create after the INSERT
Publish ==
    /\ stage = "publish"
    /\ \/ Proceed("answer")
       \/ \E e \in NetworkErrors :
            Fail(Decided({JobCreated} \union e), {JobCreated} \union e, "queue")
    /\ UNCHANGED <<file, row>>

\* Under a context of its own.
Cleanup ==
    /\ stage = "cleanup"
    /\ stage' = "answer"
    /\ \/ file' = FALSE /\ UNCHANGED <<error, unremoved>>
       \/ error' = error \union {Other} /\ unremoved' = TRUE /\ UNCHANGED file
    /\ UNCHANGED <<blame, cancelled, row, status>>

-----------------------------------------------------------------------------
\* Variant: ErrInvalidInput is looked for first.
StatusInvalidFirst(e) ==
    IF e = {} THEN 201
    ELSE IF e \intersect {InvalidInput, UnexpectedEOF} # {} THEN 400
    ELSE IF e \intersect {UploadTooLarge, MaxBytes} # {} THEN 413
    ELSE 500

\* Variant: a cancelled request is the client's fault.
StatusCanceledIsClient(e) ==
    IF e = {} THEN 201
    ELSE IF e \intersect {UploadTooLarge, MaxBytes} # {} THEN 413
    ELSE IF e \intersect {InvalidInput, UnexpectedEOF, Canceled} # {} THEN 400
    ELSE 500

\* writeUploadError, whose first case that holds counts, and 201 without an error
Status(e) ==
    IF e = {} THEN 201
    ELSE IF e \intersect {UploadTooLarge, MaxBytes} # {} THEN 413
    ELSE IF e \intersect {InvalidInput, UnexpectedEOF} # {} THEN 400
    ELSE 500

Answer ==
    /\ stage = "answer"
    /\ status' = Status(error)
    /\ stage' = "answered"
    /\ UNCHANGED <<error, blame, cancelled, file, row, unremoved>>

Next ==
    \/ Cancel \/ Parse \/ Form \/ Open \/ Put \/ Check
    \/ Create \/ Publish \/ Cleanup \/ Answer

Spec == Init /\ [][Next]_vars

-----------------------------------------------------------------------------
\* 413 is for uploads over a limit and for all of them, although the limit on
\* the request shows in the middle of the parser and is joined with
\* ErrInvalidInput.
SizeIs413 == stage = "answered" => (status = 413 <=> blame = "size")

\* The connection to PostgreSQL or SQS ended in the middle of the answer.
AnswerCutShort == blame \in {"database", "queue"} /\ UnexpectedEOF \in error

\* README.md:766: a failure of storage, database or queue is a 500.
ServiceFailureIs500 ==
    stage = "answered" /\ blame \in {"storage", "database", "queue"} => status = 500

\* A client is told to correct its request, and may then repeat it without making
\* a second job, only for what it sent and before there is a row; of the service's
\* own failures a temporary file that the parser cannot write is answered so, and
\* the connections cut short.
RefusedForItsRequest ==
    status \in {400, 413} =>
        \/ blame \in {"client", "size", "temporary file"} /\ ~row
        \/ AnswerCutShort

\* A row that exists, or will, has its input: what Create classified as not
\* created, Upload decided on, and Cleanup removed, was certain to leave none.
RowKeepsInput == row => file

\* Create returned an error that does not rule the row out.
Unclear == blame = "database" /\ SafeToRetry \notin error /\ DataError \notin error

\* An input is left without a row only when its removal failed or the database
\* may still insert one (README.md:772).
CertainFailureIsCleaned ==
    stage = "answered" /\ file /\ ~row => unremoved \/ Unclear

\* What an error shows of its cause.
Tells(e, who) ==
    /\ e = {} <=> who = "nobody"
    /\ UploadTooLarge \in e \/ MaxBytes \in e <=> who = "size"
    /\ InvalidInput \in e => who \in {"client", "size", "temporary file"}
    /\ UnexpectedEOF \in e => who \in {"client", "database", "queue"}

\* Where the input and the row are.
Places ==
    /\ row => file
    /\ stage \in Early => ~file
    /\ stage \in Late => file
    /\ stage \in Early \union Late => blame = "nobody"
    /\ stage = "cleanup" => blame \notin {"nobody", "size"} /\ ~row /\ ~Unclear
    /\ blame = "nobody" => (row <=> stage \in {"publish"} \union Decisive)
    /\ blame \in {"client", "size", "temporary file", "storage"} => ~row
    /\ blame = "database" /\ row => Unclear
    /\ blame = "queue" => row
    /\ unremoved => stage \in Decisive
    /\ stage \in Decisive /\ file /\ ~row => unremoved \/ Unclear

\* The error in hand tells what went wrong first, and that, with the stage, where
\* the input and the row are; what is cleaned up is a failure of the service.
UploadInv ==
    /\ TypeOK
    /\ Tells(error, blame)
    /\ Places
    /\ stage = "cleanup" => InvalidInput \notin error /\ UnexpectedEOF \notin error
    /\ status = IF stage = "answered" THEN Status(error) ELSE 0

-----------------------------------------------------------------------------
(* The upload as JobSubmission has it, for one request: what is decided    *)
(* here from errors is a choice there. An INSERT that may or may not have  *)
(* left a row counts as still under way.                                   *)

Request == "upload"
InCase(holds) == {r \in {Request} : holds}
Each(value) == [r \in {Request} |-> value]

Handler ==
    CASE stage \in {"parse", "form"} -> "idle"
      [] stage = "open" -> "put"
      [] stage = "create" -> "insert"
      [] stage = "answer" -> "answered"
      [] OTHER -> stage

AnswerTo(e) ==
    CASE Status(e) = 201 -> "created"
      [] Status(e) = 500 -> "error"
      [] OTHER -> "rejected"

Answered == IF stage \in Decisive THEN AnswerTo(error) ELSE "none"

Cause == IF stage = "cleanup" THEN "error" ELSE "none"
Certain == row /\ ~Unclear
Pending == row /\ Unclear
Sent == stage \in Decisive /\ error = {}
Doubt == unremoved \/ Unclear

Submission ==
    INSTANCE JobSubmission
    WITH Requests <- {Request}, Uploads <- {Request},
         Faults <- {"cancel", "crash", "db", "sqs", "storage", "eof"},
         handler <- Each(Handler), cancelled <- InCase(cancelled),
         cause <- Each(Cause), answer <- Each(Answered), files <- InCase(file),
         rows <- InCase(Certain), late <- InCase(Pending), underway <- {},
         sent <- InCase(Sent), doubts <- InCase(Doubt)

\* What errors.Is and errors.As tell of one upload is what JobSubmission takes
\* for granted of every request: which failures are cleaned up, when the row may
\* exist, and which answer the client gets.
ImplementsSubmission == Submission!Spec
=============================================================================
