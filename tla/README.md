# CloudQueue: specification and proofs

CloudQueue is a Go service that analyses uploaded access logs in the background. An API
process stores the file and a job row and sends a message; worker processes receive the
message, analyse the file, store the result and record the outcome. This directory holds
TLA+ models of that system, the TLC configurations that check them on small instances, and
TLAPS proofs of the results that matter most.

Paths such as `internal/worker/runner.go:93` are relative to the repository. `PROJECT.json`
lists, in machine-readable form, which lines each definition models, the runs, the theorems,
and for every property a plausible bug that breaks it (the definitions marked "Variant" in
the modules; no specification uses them).

## 1. The system

| Component | Code | State | Operations |
| --- | --- | --- | --- |
| API handlers | `internal/job/handler.go`, `upload_handler.go` | none | create (JSON or multipart), get, list |
| Submission | `internal/jobsubmission`, `internal/jobupload` | none of its own; writes file, row, message | Create, Upload, cleanup |
| Job repository | `internal/job/repository.go`, `service.go`, `migrations/` | the table `jobs` | Create, FindByID, List, MarkProcessing, MarkCompleted, MarkFailed |
| Queue | `internal/jobqueue`, `sqsqueue`, `docker/localstack/init-aws.sh` | source queue, DLQ | Publish, Receive, ExtendVisibility, Delete, redrive |
| Worker | `internal/worker`, `cmd/worker` | two goroutines, three contexts, the delivery in hand | Run, processDelivery, ProcessJob, one-shot mode |
| Log processor | `internal/logprocessor/processor.go` | none | Process: open, analyse, encode, put |
| Local storage | `internal/logprocessor/local_storage.go` | files below a root shared by all processes | Put, Open, Delete |
| Log analyzer | `internal/loganalysis` | counters of one call | Analyze, readLine, parseLine |
| Health, readiness, configuration, wiring | `internal/httpapi`, `internal/database`, `cmd/*`, `sqsqueue/config.go` | none | - |

How they interact. The API writes to up to three stores that share no transaction, in the
order file, row, message. The message carries only the job's identifier. A worker extends
the message's visibility, starts a goroutine that keeps extending it, looks the row up,
acquires the job with `UPDATE ... WHERE status = 'PENDING'`, runs the processor, stores the
result file, sets the final status, joins the goroutine and only then deletes the message.
Everything that can be lost in between comes back as a redelivery, until the redrive policy
moves the message to the DLQ.

What is hard here:

- several workers, copies of a message and a manual `worker -job-id` run race for one job;
- the status that decides what to do is read before the UPDATE that acts on it;
- a call that errs may have had its effect, or may have it later;
- two goroutines of one process cancel each other through contexts and have to be joined;
- the lease must outlive the worst spacing of heartbeats and slow requests;
- three stores are written one after the other, and undone only when that is safe;
- shutdown, lost leases and crashes strike between any two calls.

`PROJECT.json` lists these hazards at the lines where they bite, with the properties that
would catch them going wrong, or the reason why none does.

## 2. Modules

| Module | Models | Checked by | Proved in |
| --- | --- | --- | --- |
| `JobStore` | the table as the repository uses it | as part of `QueueWorker` | as part of it |
| `JobQueue` | source queue, DLQ, receipt handles | as part of `QueueWorker` | as part of it |
| `QueueWorker` | worker processes; extends `JobStore` and `JobQueue` | `worker_*` runs | `QueueWorkerProofs` |
| `JobLifecycle` | what is promised of one job (abstract) | as the property `ImplementsLifecycle` | `QueueWorkerProofs!Refinement` |
| `JobSubmission` | JSON and upload path of job creation | `submission` | `JobSubmissionProofs` |
| `CloudQueue` | the service: submission and workers over the same table, queue and files | `cloud` | `CloudQueueProofs` |
| `UploadErrors` | how the errors of one upload are classified and answered; implements `JobSubmission` | `upload_errors`, `upload_broken` | `UploadProofs` |
| `BoundedUpload` | the size limit of an upload, read by read | `bounded_upload` | `UploadProofs` |
| `JobListing` | the list endpoint and a client that walks its pages | `listing` | `JobListingProofs` |
| `VisibilityLease` | the timing of lease and heartbeat | `lease` | `VisibilityLeaseProofs` |
| `RenewalErrors` | `cancellationOnly` over trees of errors | `lease` | `VisibilityLeaseProofs` |
| `LocalStorage` | Put, Open, Delete over a page cache and a disk | `storage` | `LocalStorageProofs` |
| `StorageKeys` | which keys are accepted and where they lead | `storage` | `LocalStorageProofs` |
| `LogAnalysis` | Analyze and readLine over a buffered reader | `analysis` | `LogAnalysisProofs` |

The modules named `MC*` define constants and symmetry; `MCVisibilityLease` and
`MCLocalStorage` also join the pure functions of `RenewalErrors` and `StorageKeys` to the
specification whose calls use them, and state what is checked of them.

### JobStore

A row is its status. `result_key`, `error_message`, `started_at` and `completed_at` are
written by the same UPDATE as the status and never read for control, so they are functions
of it and left out. A statement matches its row (`Updated`), matches none (`Missed`: both
`ErrNotFound` and `ErrInvalidTransition` are errors to every caller), or is not answered
(`Unanswered`). An unanswered statement may have been sent; `unacked` keeps it until the
server runs it (`CommitLate`), at any later time or never. The 5-second `queryTimeout` and
a cancelled context are causes of `Unanswered`.

### JobQueue

A message is unsent, visible, hidden, deleted or dead (in the DLQ). `receives` is SQS's
receive count, which the redrive policy of `init-aws.sh` compares. A receipt handle is
abstracted to the worker that got it: it is current iff `holder[m]` is that worker.
`DeleteMessage` with the current handle always deletes, even after the visibility timeout;
with an older handle SQS may ignore it and still answer success. `ChangeMessageVisibility`
needs a message in flight. When the response of a receive is lost nobody has the handle.

### QueueWorker

`pc[w]` is the call the main goroutine is in, `renew[w]` the state of the renewal goroutine
of `processDelivery`; the module's header lists them. One action is one call of the code with
everything that follows it up to the next call, so the interleavings are those of the calls.
The three contexts are derived: `SignalDone`, `ProcessDone` and `RenewDone` say when each is
cancelled.

| Code | Actions |
| --- | --- |
| `Run` | `Start`, `Receive*`, `StopPolling`, `Join` (the checks after processDelivery), `Delete`, `DeleteFailed` |
| `processDelivery` | `LeaseGranted`, `LeaseRefused`, `RenewTick`, `RenewOk`, `RenewFailed`, `RenewStopped`, `Join` |
| `QueueProcessor.ProcessJob` | `Lookup`, `LookupFailed` |
| `Worker.ProcessJob` | `Transitioned`, `TransitionRefused`, `TransitionUnanswered` (each for the three transitions), `Begin`, `ProcessStores`, `ProcessFails` |
| `worker -job-id` | `StartOneShot`, then the actions of `Worker.ProcessJob` |
| environment | `Submit`, `Publish`, `Expire`, `DeadLetter`, `StatementLands`, `Signal`, `Crash` |

`Faults` selects what the environment may do, so that a property that only holds without
some disturbance says so in its configuration.

Abstractions to know:

- `Process` is one call that stores the result file and returns its key, or errs without
  having stored it. `LocalStorage` justifies this: Put only errs before its rename.
- `Expire` does not hide a message from a worker that is renewing its lease, unless the
  fault "lapse" is on. `VisibilityLease` justifies the guard. `worker_safety` and `cloud` have
  "lapse" on and the proofs hold with it, so nothing safe depends on timing; only
  `ProcessingIsOwned` and `DeadLettersAreFailures`, which are about an undisturbed system, do.
- A DeleteMessage that is still on its way when its worker dies is decided in that step.
- `LookupFailed` needs a cause: the fault "db" or a cancelled context.
- The 12-hour limit of SQS on a lease is a case of "lapse" or "sqs".
- `NewQueueRunner` without visibility is not used by `cmd/worker` and not modelled.

### JobLifecycle

The abstract specification: a job is submitted, acquired at most once, executed at most
once, stores its result before it is COMPLETED, is FAILED only without one, never leaves a
final state, and has a message acknowledged only when COMPLETED. The refinement mapping is
`phase <- status`, `runs <- executions`, `stored <- results`,
`acked <- {body[m] : m \in Acked}`.

### VisibilityLease

One delivery in discrete time, with the configuration chosen among all those `Validate`
accepts. `left` is the time until the message reappears; a request is served and answered at
any time up to the request timeout; the ticker runs on while a request is out and its channel
holds one tick. `LeaseHeld` says that the message stays hidden until processing ended or was
cancelled. The model has goroutines react without delay. The code leaves that delay as a
margin of unspecified size (`README.md:663`), so the result is about the budget, not about a
loaded machine. The initial request is covered by the queue's own visibility timeout
(`QueueVisibility`, 30 s in `init-aws.sh`), which has to exceed the request timeout (5 s).

`RenewalErrors` is about the error of a request: `cancellationOnly` over trees of wrapped and
joined errors, against the causes that can be reached in the tree. A tree is written down as
the sequence of its nodes, each after what is inside it, so the recursion of the code is one
over positions; the reference (`Found`, `Held`) is not recursive. A wrapper around nil is a
cause of its own, as it is to the code.

### JobSubmission

A request stands for its file, row and message: no two requests share one, since keys and
identifiers are fresh UUIDs. Each write succeeds, is certain to have failed, or is ambiguous;
`late` holds INSERTs that may still be run, `underway` SendMessage calls that may still reach
the queue. `doubts` is a history variable: requests that ended without knowing or without
managing to remove what they left behind. The fault "eof" is a connection to PostgreSQL or
SQS that ends in the middle of an answer; an upload then answers 400 (see the finding below),
so what only holds without it says so. A request may be cancelled before its body is parsed,
and Upload may give up before it has called Put, when there is nothing to clean up.

### CloudQueue

`CloudQueue` instantiates `QueueWorker` (through its proofs) and `JobSubmission` over shared
state: the rows and sent messages of the submission are read off the workers' table and queue
(`rows <- Rows`, `sent <- Sent`). A step is one of the workers that leaves both alone
(`WorkerSide`), one of a handler, joined with the INSERT or SendMessage it causes
(`HandlerSide`), or the death of the API process (`ApiCrash`). `SendOwn` does not ask for the
row: that the API sends a job only after its row, and once, which `QueueWorker!Publish` asks
of its submitters, is proved. The storage side of the composition is the set `files`.

### UploadErrors

One multipart upload, with an error represented by the set of what `errors.Is` and `errors.As`
find in it. `blame` records what went wrong first; the decisions of the three layers
(`Classified` in the repository, `Decided` in Upload, `Status` in the handler) are then
compared with it. Checks that cannot fail on this path are left out: Upload is given a
validated name and a content that is neither empty nor too long, and `NewMessage` an
identifier the database made.

`JobSubmission` leaves to chance what is decided here from errors: whether a failed call is
cleaned up, and which answer it gets. `ImplementsSubmission` says that one upload with these
decisions is one request of `JobSubmission`: the parsing of the body is `Accept` or `Reject`,
each call of Upload and of Create is the action of its name, and an INSERT that failed without
ruling its row out leaves a row on its way (`late <- Pending`) or none. So `JobSubmission`'s
`InsertRefused`, which removes the input, is taken only for errors that are certain to have
left no row, and what is proved of all its requests holds with the errors in place.

Finding: `writeUploadError` (`internal/job/upload_handler.go:109`) answers 400 to every error
that wraps `io.ErrUnexpectedEOF`. A connection to PostgreSQL or SQS that ends in the middle of
an answer reports that value too, so a service failure is answered 400 although a row may
exist; `README.md:766` promises 500. The run `upload_broken` shows it. A smaller asymmetry is
written into the model as it is: a temporary file `ParseMultipartForm` cannot write is
answered 400, one that cannot be opened afterwards 500.

### BoundedUpload

`Peek`, `boundedReader` and the copy loop, counted in bytes. The readers below return any
number of bytes up to what is asked for, and show the end together with the last bytes or by
itself. The reader asks for one byte more than remains, so that a content of exactly the limit
is told from a longer one.

### JobListing

A job is its place in `ORDER BY created_at DESC, id DESC`. Other requests insert anywhere in
that order, because `created_at` is when the inserting transaction began; each page is one
SELECT. The walking client moves on by the limit the answer states. Rows are never deleted.

### LocalStorage

Every concurrent call is a process. An inode is named by the Put that wrote it; `written`
and `objects` are what the page cache says, `synced` and `persisted` what the disk may hold.
`PowerLoss` falls back to any state the disk may hold, `Kill` ends one call (a process that
dies takes any number of them). Links are not modelled, nor are two keys with the same path
(the service's own keys contain no `..`).

`StorageKeys` is about keys as sequences of segments: `validateStorageKey` and `resolve`
(with `path.Clean`) against a count of levels below the root.

### LogAnalysis

`Analyze` and `readLine` over any input. A byte is a newline, white space, or one that makes
an entry by itself (with a status below 400, or from 400 on); two of the latter in a line
stand for a line the patterns of `parseLine` reject. One action is one `ReadSlice` with what
`readLine` and `Analyze` do with the fragment: append it, refuse the line, or count its
entry. The reference is in the same module, below the actions: it looks at the whole input
and knows no buffer. The counts by status, method and endpoint are incremented in the same
step as the total and left out.

## 3. Runs

Eleven runs pass; `upload_broken` expects the violation it is about. The largest has about
880 000 distinct states, and none takes two minutes.

| Run | Instance and faults | Properties |
| --- | --- | --- |
| `worker_safety` | 2 workers, 1 job, 2 messages, 2 receives; every fault but signals | `IInv`, `AckedJobIsCompleted`, `AtMostOneExecution`, `ResultMatchesStatus`, `RenewalIsJoined`, `ImplementsLifecycle` |
| `worker_settle` | 2 workers, 2 jobs, 2 messages; no faults; fair | `ProcessingIsOwned`, `DeadLettersAreFailures`, `JobsSettle` |
| `worker_drain` | 2 workers, 1 job, 1 message; all faults but one-shot; fair | `QueueDrains`, `DeliveryEnds`, `ShutdownCompletes`, `LostLeaseStopsWorker` |
| `lease` | all configurations with values up to 9, queue visibility 4; errors made of up to 4 | `LeaseHeld`, `OnlyCancellationIsQuiet` |
| `submission` | 2 uploads and 1 JSON request; every fault but "eof" | `RowHasItsFile`, `CreatedIsQueued`, `RejectedLeavesNoJob`, `OrphanIsDoubtful` |
| `cloud` | 1 upload, 2 workers, 2 receives; API: every fault but "eof"; workers: crashes, failing database and SQS calls, lapsed leases; fair | `ExecutionFindsItsInput`, `DeliveredJobIsKnown`, `UnheardJobIsReported`, `CreatedJobIsAccountedFor`, `AcceptedRequestsEnd` |
| `upload_errors` | every error of every call of one upload | `SizeIs413`, `CertainFailureIsCleaned`, `RefusedForItsRequest`, `ImplementsSubmission` |
| `upload_broken` | the same | `ServiceFailureIs500` (violated) |
| `bounded_upload` | contents of up to 12 bytes, limit 6, buffer 4; fair | `StoredIsWholeAndBounded`, `LargeIsTooLarge`, `UploadEnds` |
| `listing` | up to 6 rows, limits -1 to 4, default 2, largest 3; fair | `WalkMissesNothing`, `RepeatsAreInserts`, `WalkEnds` |
| `storage` | 2 writers, 1 reader, 1 remover, 2 keys, contents of 2 reads; every fault; keys of up to 5 segments | `NoTornObject`, `WholeReads`, `TemporariesAreOwned`, `KeysLeadBelowRoot` |
| `analysis` | every input of up to 6 bytes; buffer 2, limit 3 | `ReportIsExact`, `LineIsBounded` |

The type invariants and the inductive invariants other than `IInv` are not repeated as
invariants of the runs: they are proved.

What they show, and why the bounds are enough:

- Two workers and two messages for one job are the smallest instance in which a redelivery,
  a duplicate and a superseded receipt handle meet; two receives are enough for a message to
  be redelivered once and then to be redriven. The safety results do not rest on these bounds:
  they are proved for all of them.
- Signals are left out of `worker_safety` for size: a signal ends a process like a crash does,
  later and in better order. They are in `worker_drain` and in the proofs.
- `ProcessingIsOwned` is false under faults, and the repository says so (`README.md:608`, `695`):
  a cancelled or crashed worker leaves its job PROCESSING. The run shows that nothing else
  does; with duplicates and one-shot runs as well, that is proved (`NoJobIsStranded`).
- `JobsSettle` and `DeadLettersAreFailures` are about the undisturbed system: every message
  that was sent leads to a COMPLETED or FAILED job, and a message only reaches the DLQ by way
  of a FAILED job, because a lease that is renewed is never redelivered.
- The `worker_drain` properties hold under crashes, lost leases, failing calls and signals.
- Values up to 9 let `Validate` accept configurations with every remainder of its integer
  division and heartbeats shorter and longer than the request timeout. Errors made of four
  nest every kind of node in every other, under a join that has a second branch.
- Requests share no state, so two uploads and one JSON request show every interference there
  could be. Two keys let a run distinguish replacing an object from writing another one.
- In `cloud` one upload meets two workers: redelivery, stranded rows and the DLQ all happen to
  its message, and its row and its message may arrive late. The safety part is proved for any
  number of requests and workers and all faults. One-shot runs and signals are left out of
  the liveness part: an operator who runs a job by hand again and again is under no fairness.
- A limit of 6 and a buffer of 4 make the limit fall inside a read and on the end of one, and
  contents of up to 12 bytes reach beyond the byte that tells.
- Six rows and pages of 1 to 3 give walks of several pages with inserts before, inside and
  behind the page in between; the inputs cover 0, a negative and a too large limit.
- A key of five segments can go down, leave and come back below the root, whose path has two.
- A buffer of 2, a limit of 3 that is no multiple of it and inputs of up to 6 bytes make the
  end of a buffer fall inside a line, on its newline, on the limit and on the end of input.

Deadlock is checked in the worker runs and in `cloud`, where a worker can always poll. The
other specifications model work that ends, so their configurations turn the check off.

### Fairness

`FairSpec` assumes, and the code justifies it as follows:

- weak fairness of `MainStep(w)` and `RenewStep(w)`: a goroutine is scheduled, and each call
  it makes ends, because every database call has a 5-second timeout, every extension a
  request timeout, the SDK its own, and the processor reads a finite file;
- weak fairness of `Start(w)`: a stopped worker is started again. Nothing in the repository
  does that (`docker-compose.yml` restarts only PostgreSQL and LocalStack): it is an
  assumption on the operator, and only `QueueDrains` needs it;
- weak fairness of `Expire(m)` for a message nobody renews, and of `DeadLetter(m)`: the
  timeouts and the redrive policy of SQS. A lease that is renewed may lapse but need not;
- strong fairness of receiving each message: a queue that is asked again and again does not
  pass over one message forever. Strong, because workers stop and start in between.

The other fair specifications:

- `CloudQueue` takes over the fairness of the workers and adds that a request whose handling
  has begun goes on (`HandlerRuns`): every call of a handler has a timeout of its own or the
  SDK's, and cleanup has its own context;
- `JobListing`: a client that repeats a failed request is answered in the end;
- `BoundedUpload` (`FairCopySpec`): reads of the content return, and need not fail.

Nothing fair is assumed of crashes, signals, losses, late statements or new submissions.

## 4. Proofs

Every theorem holds for all values of the constants that satisfy the named assumptions
(`QueueAssumption`, `WorkerAssumption`, `SubmissionAssumption`, `CloudQueueAssumption`,
`LeaseAssumption`, `ErrorsAssumption`, `StorageAssumption`, `KeysAssumption`,
`ListingAssumption`, `BoundedAssumption` and `AnalysisAssumption`); they only say that sets are disjoint where names differ and that bounds
are positive or ordered. TLC evaluates them in every run. Four theorems assume more of the
environment, in their statement: `NoJobIsStranded` (no call errs and nobody is stopped),
`OnlyFailuresAreDeadLetters` (`NothingFails`: no fault at all, no duplicate, no one-shot run),
`RefusalsAreTrue` and `UnheardJobsAreReported` (no connection ends in the middle of an answer).

**Workers** (`QueueWorkerProofs`). `AckedJobIsCompleted` and `AtMostOneExecution` are not
inductive: they say nothing about a worker in the middle of its calls, nor about statements
on their way. `IInv` adds

- `DeliveryInv`: the message in hand names the job in hand;
- `OwnerInv`: between MarkProcessing and the return of ProcessJob the row is PROCESSING, and
  how far the owner got shows in executions and results;
- `SingleOwner`: there is one such worker at most;
- `UnackedInv`: a final statement still on its way was sent by the job's only owner, which is
  gone; nobody can contradict it, and it agrees with the result file. This is what makes
  late commits harmless: the PENDING condition hands a job out once, so the sender of a final
  statement is the only one there will ever be;
- `HistoryInv` and `OutcomeInv`: histories match the status, and success is reported only
  for a COMPLETED job.

Most actions are one of a few shapes (the worker gives up, moves on, takes up; the queue moves
alone), and the lemmas are about the shapes. `InductiveInvariant` is `Spec => []IInv`;
`TypeCorrect`, `AckSafety`, `Ownership`, `ExecutionSafety`, `ResultSafety` and `RenewalSafety`
follow from it; `Refinement` uses it to map each step to a step of `JobLifecycle` or a stutter.

`NoJobIsStranded` needs a second invariant, `CalmInv`, relative to `Undisturbed`: no statement
is on its way, no context is done, and a delivery in hand is hidden under its worker's own
receipt, so an owner is never interrupted between its two transitions.

`OnlyFailuresAreDeadLetters` adds `SettleInv` on top of that: when nothing fails each job has
one message, so what happened to the job is what happened to its message. A message that was
received before and can be received again was let go of without being deleted, and then its
job is FAILED; and no two workers have one delivery or one job in hand
(`HandsAreDisjoint`), so what one does leaves the other's message alone.
`SettleMain` has a case per step of the worker.

**Submission** (`JobSubmissionProofs`). `RequestInv` is the invariant of one request;
`RequestStepInv` shows that an action preserves it for the request that takes it and touches
no other, `CrashStep` treats the one action of all requests. `SubmissionSafety`,
`RowsKeepTheirFiles`, `CreatedMeansQueued`, `RefusalsAreTrue` and `OrphansAreDoubtful` follow.

**Service** (`CloudQueueProofs`). The composition implements both parts, so each theorem about
a part is one about the whole. `ImplementsApi` is direct: workers add no rows and send no
message of a request. `ImplementsWorkers` is where the parts rely on each other: the API's
SendMessage is a `Publish` of `QueueWorker` only because the row is there (the API's own
invariant, available by `ImplementsApi`) and because it sends once (`OwnMessage`). The workers'
invariant, `OwnMessage` and the API's invariant are therefore carried through one induction
(`PartInvariants`), and the properties that span both sides follow from all three:
`InputsAreFound`, `DeliveriesAreKnown`, `CreatedJobsStayKnown`, `UnheardJobsAreReported`.

**Lease** (`VisibilityLeaseProofs`). `ValidateBudget` turns the integer division of `Validate`
into `heartbeat + 2 * request < timeout`, the condition `README.md:661` documents.
`LeaseInv` bounds the age of the last request known to be served; `LeaseIsHeld` follows.
`ErrorsAreJudged` is about errors of any size: `AnswersExist` shows that the recursion of
`cancellationOnly` has a value at each node; the nodes it holds of are closed under opening, so
they contain all that is found; and the least node found that it does not hold of would hold
no loud cause and have nothing loud inside. `OnlyShutdownIsQuiet` is the property of the run.

**Storage** (`LocalStorageProofs`). `NoTornObject` is about the cache; what makes it survive
a power loss is that every entry the disk may hold names an inode synced whole. `ReadsAreWhole`
adds that an inode a reader has open is complete.

`EveryKeyIsJudged` is about keys of any length. `CleaningTells` follows `path.Clean` and the
count of levels side by side: as long as no prefix has left the root, the path has as many
segments as the count says and no `..`; once one has, the path begins with `..` and keeps it
(`InsideStep`, `OutsideStep`). So the test of the cleaned key sees exactly the keys that leave,
and cleaning the joined path leaves the root in front (`JoinedIsClean`). `KeysAreKeptBelow` is
the property of the run.

**Listing** (`JobListingProofs`). `WalkInv`: whatever was there at the start and now stands
before the next offset was on a page already. Inserts only move rows away from the start
(`PlaceGrows`); places are distinct and have no gaps (`PlacesAreDense`), so a page that is not
full is the last one (`ShortPageIsLast`). `RepeatInv` counts: all pages together have one
place for each row the offset has passed, so seen and repeated rows fit in the rows passed
(`PassedGrows`: an insert pushes out at most the row it takes the place of). Seen rows include
every row that was passed and is not new, which leaves for repeats the new ones.

**Uploads** (`UploadProofs`). `UploadInv` has two parts. `Tells`: what the error in hand
contains shows what went wrong first, and the cleanup adds nothing that would change that.
`Places`: the stage and the cause say where the input and the row are; what is cleaned up is a
failure of the service that certainly left no row. The answers follow because an answer depends
only on what the error contains (`StatusIs`): `SizeHasItsAnswer`, `FailuresAreCleaned`,
`RefusalsAreDeserved`, and `RowsKeepTheirInput` (a row always has its input). For the refinement
(`UploadsAreSubmissions`) each action has a lemma that names the steps of `JobSubmission` it may
be (`MapsEarly`, `MapsPut`, `MapsCreate`, ...), and needs `UploadInv`: without it a cleanup
might be answered with something other than the 500 that `JobSubmission` has put aside.

The size limit is in the same module, which extends `BoundedUpload` too (hence the prefixes of
`CopySpec` and others there). `BoundInv`: what was read was stored and counted,
and one byte over the limit ends the copy. `LimitIsExact` and `RefusedIsTooLarge` follow.

**Log lines** (`LogAnalysisProofs`). `LineInv`: what is gathered of a line lies between the end
of the last line and the position of the reader, and is within the limit, because a full
buffer hands out exactly its size and the length is compared before it is appended.
`ReportsAreExact` adds `CountInv` and `ReportInv`: the entries counted so far are those of the
lines that end before the reader's position, so a line that is finished adds the one line the
reference finds between its two newlines, and at the end of the input, or at the line that is
refused, the counts are the reference's. Nothing recursive is involved: the reference is a set
of lines, and each line ends at the least newline that is not before its start (`Least`).

**Induction.** The library's induction theorems take an operator as a parameter, which the
provers cannot instantiate. Where an argument needs induction it goes by a least
counterexample: a set of numbers that is not empty has a least element (`Least`, from `WFMin`
and `NatLessThanWellFounded`). `InductionTo` (a set that holds 0, and i with i - 1, holds
everything up to n) and `RecursionTo` (a recursion up to n has a solution) are derived from it,
in `LocalStorageProofs`, for sets and functions in the place of operators.

Only model-checked: every liveness property (TLAPS does not reason about fairness and
ENABLED). Each of the runs' invariants, and each refinement, is proved.

## 5. Not modelled

- Message codec: JSON encoding and decoding of one identifier. `QueueWorker` keeps its only
  control: a body names a job or is rejected (`Garbage`).
- GET of one job: reads one row and relates nothing. Of the list's query, only what refuses a
  request or sets the limit.
- Health and readiness: routing and one Ping, no state.
- Configuration and wiring: validated once, before anything concurrent exists. (`Validate` of
  the visibility settings is modelled, in `VisibilityLease`.)
- Multipart and JSON parsing: the choice between `Accept` and `Reject`, and the errors of
  `UploadErrors!Parse`.
- The JSON form of a result, and the counts by status, method and endpoint, which are further
  counters of the step that increments the total.
- The directory is not synced after the rename (`local_storage.go:137`): after a power loss a
  COMPLETED job may have no result file. `LocalStorage` has the behaviour (an entry the disk
  never got is lost); no document promises otherwise, so there is no property about it.
- Integration tests and the compose file: the queue's attributes and the restart policy are
  used as assumptions.

## 6. Where to go from here

The plan of this project (workers, submission, storage, lease, analysis, their composition,
paging, the size limit, the classification of errors, and the proofs of section 4) is done.
What would add to it: an instance of `cloud` with two requests, once the state space of the
workers allows.
