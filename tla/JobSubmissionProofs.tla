------------------------ MODULE JobSubmissionProofs -------------------------
(***************************************************************************)
(* SubmissionInv is inductive for any number of requests and any set of    *)
(* faults. Requests share no state, so each action is looked at for the    *)
(* request that takes it; every other request keeps what it has.           *)
(***************************************************************************)
EXTENDS JobSubmission, TLAPS

\* What SubmissionInv says of one request.
RequestInv(r) ==
    /\ r \in rows => handler[r] \in {"publish", "answered", "lost"}
    /\ r \in late => handler[r] \in {"answered", "lost"} /\ answer[r] # "created"
    /\ r \in sent => handler[r] \in {"answered", "lost"}
    /\ r \in underway => handler[r] \in {"answered", "lost"} /\ r \in rows
    /\ r \in underway => answer[r] # "created"
    /\ handler[r] = "publish" => r \in rows
    /\ handler[r] \in {"put", "check"} => r \in Uploads
    /\ handler[r] \in {"check", "insert"} /\ r \in Uploads => r \in files
    /\ r \in files => handler[r] \notin {"idle", "put"}
    /\ r \in files => r \in Uploads
    /\ handler[r] # "answered" => answer[r] = "none"
    /\ handler[r] = "cleanup" => cause[r] \in {"rejected", "error"}
    /\ r \in Durable /\ r \in Uploads => r \in files
    /\ answer[r] = "created" => r \in rows /\ r \in sent
    /\ r \in sent => r \in rows
    /\ "eof" \notin Faults /\ answer[r] = "rejected" => r \notin Durable /\ r \notin sent
    /\ r \in files /\ handler[r] = "answered" /\ r \notin Durable => r \in doubts

\* The invariant is the type invariant and RequestInv of every request.
LEMMA PerRequest ==
    SubmissionInv <=> TypeOK /\ \A r \in Requests : RequestInv(r)
  <1>1. TypeOK => Durable \subseteq Requests /\ files \subseteq Requests
                  /\ sent \subseteq Requests /\ rows \subseteq Requests
                  /\ underway \subseteq Requests
    BY DEF TypeOK, Durable
  <1> QED
    BY <1>1, SubmissionAssumption
    DEF SubmissionInv, RequestInv, ProgressInv, RowHasItsFile, CreatedIsQueued,
        MessageHasItsRow, RejectedLeavesNoJob, OrphanIsDoubtful, Durable

\* Initially nothing exists anywhere.
LEMMA SubmissionInit == Init => SubmissionInv
  <1> SUFFICES ASSUME Init
               PROVE  TypeOK /\ \A r \in Requests : RequestInv(r)
    BY PerRequest
  <1> QED
    BY DEF Init, TypeOK, RequestInv, Durable, Busy, Answers

\* A step of one request leaves every other request's part of the state alone.
Untouched(r) ==
    /\ handler'[r] = handler[r] /\ cause'[r] = cause[r] /\ answer'[r] = answer[r]
    /\ r \in files' <=> r \in files
    /\ r \in rows' <=> r \in rows
    /\ r \in late' <=> r \in late
    /\ r \in underway' <=> r \in underway
    /\ r \in sent' <=> r \in sent
    /\ r \in doubts' <=> r \in doubts

\* RequestInv only depends on the request's own part of the state.
LEMMA UntouchedStep ==
    ASSUME NEW r \in Requests, RequestInv(r), Untouched(r)
    PROVE  RequestInv(r)'
  BY DEF RequestInv, Untouched, Durable

\* A step of request r preserves the type invariant, its own RequestInv, and
\* touches nobody else.
LEMMA RequestStepInv ==
    ASSUME NEW r \in Requests, TypeOK, RequestInv(r), RequestStep(r)
    PROVE  /\ TypeOK' /\ RequestInv(r)'
           /\ \A q \in Requests \ {r} : Untouched(q)
  <1> USE SubmissionAssumption
  <1> USE DEF TypeOK, RequestInv, Untouched, Durable, Busy, Answers, Goto, Reply, CleanUp, ReplyCause
  <1>1. CASE Accept(r)
    BY <1>1 DEF Accept
  <1>2. CASE Reject(r)
    BY <1>2 DEF Reject
  <1>3. CASE Cancel(r)
    BY <1>3 DEF Cancel
  <1>4. CASE HandlerStep(r)
    <2>1. CASE Put(r)
      BY <2>1 DEF Put
    <2>2. CASE PutFails(r)
      BY <2>2 DEF PutFails
    <2>3. CASE Check(r)
      BY <2>3 DEF Check
    <2>4. CASE Inserted(r)
      BY <2>4 DEF Inserted
    <2>5. CASE InsertRefused(r)
      BY <2>5 DEF InsertRefused
    <2>6. CASE InsertUnanswered(r)
      BY <2>6 DEF InsertUnanswered, FailureAnswers
    <2>7. CASE Published(r)
      BY <2>7 DEF Published
    <2>8. CASE PublishFails(r)
      BY <2>8 DEF PublishFails, MayStillArrive, FailureAnswers
    <2>9. CASE Cleaned(r)
      BY <2>9 DEF Cleaned
    <2>10. CASE CleanupFails(r)
      BY <2>10 DEF CleanupFails
    <2> QED
      BY <1>4, <2>1, <2>2, <2>3, <2>4, <2>5, <2>6, <2>7, <2>8, <2>9, <2>10
      DEF HandlerStep
  <1>5. CASE InsertLands(r)
    BY <1>5 DEF InsertLands
  <1>6. CASE MessageArrives(r)
    BY <1>6 DEF MessageArrives
  <1> QED
    BY <1>1, <1>2, <1>3, <1>4, <1>5, <1>6 DEF RequestStep

\* A crash takes every request being handled, each from the call it is in.
LEMMA CrashStep ==
    ASSUME TypeOK, \A r \in Requests : RequestInv(r), Crash
    PROVE  TypeOK' /\ \A r \in Requests : RequestInv(r)'
  <1>1. /\ handler' = [r \in Requests |-> IF handler[r] \in Busy THEN "lost" ELSE handler[r]]
        /\ doubts' = doubts \union {r \in Requests : handler[r] \in Busy}
        /\ UNCHANGED <<cancelled, cause, answer, files, rows, sent>>
    BY DEF Crash
  <1>2. PICK S \in SUBSET {r \in Requests : handler[r] = "insert"} : late' = late \union S
    BY DEF Crash
  <1>3. PICK P \in SUBSET {r \in Requests : handler[r] = "publish"} : underway' = underway \union P
    BY DEF Crash
  <1>4. TypeOK'
    BY <1>1, <1>2, <1>3 DEF TypeOK, Busy
  <1>5. ASSUME NEW r \in Requests
        PROVE  RequestInv(r)'
    <2>1. CASE handler[r] \in Busy
      BY <1>1, <1>2, <1>3, <2>1 DEF TypeOK, RequestInv, Durable, Busy
    <2>2. CASE handler[r] \notin Busy
      <3>1. Untouched(r)
        BY <1>1, <1>2, <1>3, <2>2 DEF Untouched, Busy
      <3> QED
        BY <3>1, UntouchedStep
    <2> QED
      BY <2>1, <2>2
  <1> QED
    BY <1>4, <1>5

\* Every step preserves the invariant.
LEMMA SubmissionNext ==
    ASSUME SubmissionInv, [Next]_vars
    PROVE  SubmissionInv'
  <1>1. TypeOK /\ \A r \in Requests : RequestInv(r)
    BY PerRequest
  <1> SUFFICES TypeOK' /\ \A r \in Requests : RequestInv(r)'
    BY PerRequest
       DEF SubmissionInv, RequestInv, ProgressInv, RowHasItsFile, CreatedIsQueued,
           MessageHasItsRow, RejectedLeavesNoJob, OrphanIsDoubtful, TypeOK, Durable
  <1>2. CASE \E r \in Requests : RequestStep(r)
    <2>1. PICK r \in Requests : RequestStep(r)
      BY <1>2
    <2>2. /\ TypeOK' /\ RequestInv(r)'
          /\ \A q \in Requests \ {r} : Untouched(q)
      BY <1>1, <2>1, RequestStepInv
    <2> QED
      BY <1>1, <2>2, UntouchedStep
  <1>3. CASE Crash
    BY <1>1, <1>3, CrashStep
  <1>4. CASE UNCHANGED vars
    BY <1>1, <1>4 DEF vars, TypeOK, RequestInv, Durable
  <1> QED
    BY <1>2, <1>3, <1>4 DEF Next

\* Whatever fails, and however many requests are in flight, the three stores
\* stay consistent in the order Upload and Create write them.
THEOREM SubmissionSafety == Spec => []SubmissionInv
  BY SubmissionInit, SubmissionNext, PTL DEF Spec

\* A row, present or on its way, never names an input file that was removed:
\* Upload cleans up only after an error that rules the row out.
THEOREM RowsKeepTheirFiles == Spec => []RowHasItsFile
  <1>1. SubmissionInv => RowHasItsFile
    BY DEF SubmissionInv
  <1> QED
    BY <1>1, SubmissionSafety, PTL

\* 201 means row and message, and nothing is sent for a job that has no row.
THEOREM CreatedMeansQueued == Spec => [](CreatedIsQueued /\ MessageHasItsRow)
  <1>1. SubmissionInv => CreatedIsQueued /\ MessageHasItsRow
    BY DEF SubmissionInv
  <1> QED
    BY <1>1, SubmissionSafety, PTL

\* 4xx means no job, unless the end of a connection to a service is taken for
\* the end of the request body.
THEOREM RefusalsAreTrue ==
    ASSUME "eof" \notin Faults
    PROVE  Spec => []RejectedLeavesNoJob
  <1>1. SubmissionInv => RejectedLeavesNoJob
    BY DEF SubmissionInv
  <1> QED
    BY <1>1, SubmissionSafety, PTL

\* Only an unknown outcome, a failed removal or a crash leaves a file behind.
THEOREM OrphansAreDoubtful == Spec => []OrphanIsDoubtful
  <1>1. SubmissionInv => OrphanIsDoubtful
    BY DEF SubmissionInv
  <1> QED
    BY <1>1, SubmissionSafety, PTL
=============================================================================
