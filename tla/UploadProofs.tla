---------------------------- MODULE UploadProofs ----------------------------
(***************************************************************************)
(* What an upload promises, for every outcome of the calls it makes: the   *)
(* answer tells what went wrong, the cleanup spares every row, and each    *)
(* upload is one request of JobSubmission. Then, for every limit, buffer   *)
(* size and content, what the copy loop under its Put stores and refuses.  *)
(***************************************************************************)
EXTENDS UploadErrors, BoundedUpload, TLAPS

\* An answer is one of four, and which one only depends on what the error contains.
LEMMA StatusIs ==
    ASSUME NEW e
    PROVE  /\ Status(e) \in {201, 400, 413, 500}
           /\ Status(e) = 201 <=> e = {}
           /\ Status(e) = 413 <=> UploadTooLarge \in e \/ MaxBytes \in e
           /\ Status(e) = 400 <=> /\ UploadTooLarge \notin e /\ MaxBytes \notin e
                                  /\ InvalidInput \in e \/ UnexpectedEOF \in e
  <1> DEFINE large == e \intersect {UploadTooLarge, MaxBytes}
             invalid == e \intersect {InvalidInput, UnexpectedEOF}
  <1>1. large # {} <=> UploadTooLarge \in e \/ MaxBytes \in e
    OBVIOUS
  <1>2. invalid # {} <=> InvalidInput \in e \/ UnexpectedEOF \in e
    OBVIOUS
  <1>3. e = {} => large = {} /\ invalid = {}
    OBVIOUS
  <1>4. Status(e) = IF e = {} THEN 201
                    ELSE IF large # {} THEN 413 ELSE IF invalid # {} THEN 400 ELSE 500
    BY DEF Status
  <1> HIDE DEF large, invalid
  <1> QED
    BY <1>1, <1>2, <1>3, <1>4

\* The values errors are looked for are all different.
Names == {InvalidInput, UploadTooLarge, MaxBytes, UnexpectedEOF}
\* Those nothing looks at to choose the answer.
Quiet == Sentinels \ Names

\* What the others are.
LEMMA QuietIs ==
    /\ Quiet = {NotCreated, JobCreated, SafeToRetry, DataError, ServerError, Canceled, Other}
    /\ Quiet \subseteq Sentinels /\ Names \subseteq Sentinels
  BY DEF Quiet, Names, Sentinels, InvalidInput, UploadTooLarge, MaxBytes, UnexpectedEOF,
         NotCreated, JobCreated, SafeToRetry, DataError, ServerError, Canceled, Other

\* They tell neither the size nor a request that is wrong.
LEMMA QuietTells ==
    ASSUME NEW e \in SUBSET Quiet, NEW who, who \notin {"nobody", "size"}, e # {}
    PROVE  Tells(e, who) /\ e \in SUBSET Sentinels
  BY DEF Tells, Quiet, Names

\* How errors are answered by what is looked for first.
LEMMA StatusKinds ==
    ASSUME NEW e, e # {}
    PROVE  /\ InvalidInput \in e \/ UploadTooLarge \in e => Status(e) \in {400, 413}
           /\ e \subseteq Quiet => Status(e) = 500
  <1>1. CASE InvalidInput \in e \/ UploadTooLarge \in e
    <2>1. e \subseteq Quiet => FALSE
      BY <1>1 DEF Quiet, Names
    <2>2. Status(e) = 400 \/ Status(e) = 413
      BY <1>1, StatusIs
    <2> QED
      BY <2>1, <2>2
  <1>2. CASE ~(InvalidInput \in e \/ UploadTooLarge \in e)
    <2>1. e \subseteq Quiet => UploadTooLarge \notin e /\ MaxBytes \notin e
                              /\ InvalidInput \notin e /\ UnexpectedEOF \notin e
      BY DEF Quiet, Names
    <2>2. e \subseteq Quiet => Status(e) = 500
      BY <2>1, StatusIs
    <2> QED
      BY <1>2, <2>2
  <1> QED
    BY <1>1, <1>2

\* Two errors that nothing is looked for in.
LEMMA PlainErrors == Status({Other}) = 500 /\ Status({Canceled}) = 500
  <1>1. {Other} # {} /\ {Other} \subseteq Quiet /\ {Canceled} # {} /\ {Canceled} \subseteq Quiet
    BY QuietIs
  <1>2. Status({Other}) = 500
    BY <1>1, StatusKinds
  <1>3. Status({Canceled}) = 500
    BY <1>1, StatusKinds
  <1> QED
    BY <1>2, <1>3

\* What the cleanup adds is told apart by nobody.
LEMMA OtherTells ==
    ASSUME NEW e \in SUBSET Sentinels, NEW who, who # "nobody", Tells(e, who)
    PROVE  Tells(e \union {Other}, who) /\ e \union {Other} \in SUBSET Sentinels
  BY QuietIs DEF Tells, Quiet, Names

\* The parts of the type invariant.
Flags == cancelled \in BOOLEAN /\ file \in BOOLEAN /\ row \in BOOLEAN /\ unremoved \in BOOLEAN
Statuses == {0, 201, 400, 413, 500}

\* TypeOK in those parts.
LEMMA Types ==
    TypeOK <=> /\ stage \in Stages /\ error \in SUBSET Sentinels /\ blame \in Blames
               /\ Flags /\ status \in Statuses
  BY Zenon DEF TypeOK, Stages, Blames, Flags, Statuses

\* And after a step.
LEMMA TypesNext ==
    ASSUME stage' \in Stages, error' \in SUBSET Sentinels, blame' \in Blames, Flags',
           status' \in Statuses
    PROVE  TypeOK'
  BY DEF TypeOK, Stages, Blames, Flags, Statuses, Early, Late, Decisive, Sentinels

\* Initially nothing has gone wrong and nothing is stored.
LEMMA UploadInit == Init => UploadInv
  <1> SUFFICES ASSUME Init
               PROVE  UploadInv
    OBVIOUS
  <1>1. /\ stage = "parse" /\ error = {} /\ blame = "nobody" /\ status = 0
        /\ Flags /\ ~file /\ ~row /\ ~unremoved
    BY DEF Init, Flags
  <1>2. TypeOK
    <2>1. stage \in Stages /\ error \in SUBSET Sentinels /\ blame \in Blames /\ status \in Statuses
      BY <1>1 DEF Stages, Early, Blames, Statuses
    <2> QED
      BY <1>1, <2>1, Types
  <1>3. Tells(error, blame)
    BY <1>1 DEF Tells
  <1>4. Places
    BY <1>1 DEF Places, Early, Late, Decisive
  <1> QED
    BY <1>1, <1>2, <1>3, <1>4 DEF UploadInv

\* Until something went wrong, or nothing is left to do, the stage says it all.
LEMMA BeforeTheEnd ==
    ASSUME UploadInv, stage \in Early \union Late
    PROVE  /\ blame = "nobody" /\ error = {} /\ unremoved = FALSE
           /\ stage \notin {"cleanup"} \union Decisive
           /\ row \in BOOLEAN /\ file \in BOOLEAN /\ cancelled \in BOOLEAN
           /\ row <=> stage = "publish"
           /\ file <=> stage \in Late
           /\ status = 0
  <1>1. TypeOK /\ Tells(error, blame) /\ Places
    BY DEF UploadInv
  <1>2. stage \notin {"cleanup"} \union Decisive
    BY DEF Early, Late, Decisive
  <1>3. blame = "nobody" /\ error = {}
    BY <1>1 DEF Places, Tells
  <1>4. /\ row \in BOOLEAN /\ file \in BOOLEAN /\ cancelled \in BOOLEAN /\ unremoved = FALSE
        /\ file <=> stage \in Late
    BY <1>1, <1>2 DEF Places, TypeOK, Early, Late
  <1>5. row <=> stage = "publish"
    BY <1>1, <1>2, <1>3 DEF Places
  <1>6. status = 0
    BY <1>2 DEF UploadInv, Decisive
  <1> QED
    BY <1>2, <1>3, <1>4, <1>5, <1>6

\* Only the stage, the error and the history move while an upload ends.
LEMMA AnswerStep == UploadInv /\ (Cleanup \/ Answer \/ Cancel \/ UNCHANGED vars) => UploadInv'
  <1> SUFFICES ASSUME UploadInv, Cleanup \/ Answer \/ Cancel \/ UNCHANGED vars
               PROVE  UploadInv'
    OBVIOUS
  <1>1. TypeOK /\ Tells(error, blame) /\ Places
    BY DEF UploadInv
  <1>2. CASE Cleanup
    <2>1. /\ stage = "cleanup" /\ stage' = "answer"
          /\ UNCHANGED <<blame, cancelled, row, status>>
          /\ blame # "nobody" /\ ~row /\ ~Unclear /\ status = 0
      BY <1>1, <1>2 DEF Cleanup, Places, UploadInv
    <2>2. /\ Tells(error', blame) /\ error' \in SUBSET Sentinels
          /\ Unclear' <=> Unclear
      <3>1. CASE error' = error
        BY <1>1, <2>1, <3>1 DEF TypeOK, Unclear
      <3>2. CASE error' = error \union {Other}
        <4>1. Other # SafeToRetry /\ Other # DataError
          BY DEF Other, SafeToRetry, DataError
        <4>2. Unclear' <=> Unclear
          BY <2>1, <3>2, <4>1 DEF Unclear
        <4> QED
          BY <1>1, <2>1, <3>2, <4>2, OtherTells DEF TypeOK
      <3> QED
        BY <1>2, <3>1, <3>2 DEF Cleanup
    <2>3. (file' = FALSE /\ UNCHANGED unremoved) \/ (unremoved' = TRUE /\ UNCHANGED file)
      BY <1>2 DEF Cleanup
    <2>4. TypeOK'
      <3>1. stage' \in Stages /\ blame' \in Blames /\ status' \in Statuses
        BY <1>1, <2>1, Types DEF Stages, Decisive
      <3>2. Flags'
        BY <1>1, <2>1, <2>3, Types DEF Flags
      <3> QED
        BY <2>2, <3>1, <3>2, TypesNext
    <2>5. Places'
      BY <1>1, <2>1, <2>2, <2>3 DEF Places, TypeOK, Early, Late, Decisive
    <2> QED
      BY <2>1, <2>2, <2>4, <2>5 DEF UploadInv
  <1>3. CASE Answer
    <2>1. /\ stage = "answer" /\ stage' = "answered" /\ status' = Status(error)
          /\ UNCHANGED <<error, blame, cancelled, file, row, unremoved>>
      BY <1>3 DEF Answer
    <2>2. TypeOK'
      <3>1. stage' \in Stages /\ error' \in SUBSET Sentinels /\ blame' \in Blames
        BY <1>1, <2>1, Types DEF Stages, Decisive
      <3>2. Flags'
        BY <1>1, <2>1, Types DEF Flags
      <3>3. status' \in Statuses
        BY <2>1, StatusIs DEF Statuses
      <3> QED
        BY <3>1, <3>2, <3>3, TypesNext
    <2>3. Places'
      BY <1>1, <2>1 DEF Places, Early, Late, Decisive, Unclear
    <2> QED
      BY <1>1, <2>1, <2>2, <2>3 DEF UploadInv
  <1>4. CASE UNCHANGED <<stage, error, blame, file, row, unremoved, status>>
             /\ cancelled' \in BOOLEAN
    <2>1. TypeOK'
      <3>1. /\ stage' \in Stages /\ error' \in SUBSET Sentinels /\ blame' \in Blames
            /\ status' \in Statuses
        BY <1>1, <1>4, Types
      <3>2. Flags'
        BY <1>1, <1>4, Types DEF Flags
      <3> QED
        BY <3>1, <3>2, TypesNext
    <2>2. Places'
      BY <1>1, <1>4 DEF Places, Unclear
    <2> QED
      BY <1>4, <2>1, <2>2 DEF UploadInv
  <1>5. CASE Cancel
    BY <1>4, <1>5 DEF Cancel
  <1>6. CASE UNCHANGED vars
    BY <1>1, <1>4, <1>6 DEF vars, TypeOK
  <1> QED
    BY <1>2, <1>3, <1>5, <1>6

\* The calls before there is a row.
LEMMA EarlyStep == UploadInv /\ (Parse \/ Form \/ Open) => UploadInv'
  <1> SUFFICES ASSUME UploadInv, Parse \/ Form \/ Open
               PROVE  UploadInv'
    OBVIOUS
  <1>1. stage \in Early /\ stage' \in {"form", "open", "put", "answer"}
        /\ UNCHANGED <<file, row, cancelled, unremoved, status>>
    BY DEF Parse, Form, Open, Proceed, Fail, Early
  <1>2. CASE stage' # "answer" /\ UNCHANGED <<error, blame>>
    <2>1. TypeOK'
      <3>1. /\ stage' \in Stages /\ error' \in SUBSET Sentinels /\ blame' \in Blames
            /\ status' \in Statuses
        BY <1>1, <1>2, Types DEF UploadInv, Stages, Early
      <3>2. Flags'
        BY <1>1, Types DEF Flags, UploadInv
      <3> QED
        BY <3>1, <3>2, TypesNext
    <2>2. Places'
      BY <1>1, <1>2 DEF UploadInv, Places, Early, Late, Decisive, Unclear
    <2> QED
      BY <1>1, <1>2, <2>1, <2>2 DEF UploadInv, Early
  <1>3. ASSUME stage' = "answer", error' \in SUBSET Sentinels, Tells(error', blame'),
               blame' \in {"client", "size", "temporary file"}
        PROVE  UploadInv'
    <2>1. TypeOK'
      <3>1. stage' \in Stages /\ blame' \in Blames /\ status' \in Statuses
        BY <1>1, <1>3, Types DEF UploadInv, Stages, Decisive, Blames
      <3>2. Flags'
        BY <1>1, Types DEF Flags, UploadInv
      <3> QED
        BY <1>3, <3>1, <3>2, TypesNext
    <2>2. Places'
      BY <1>1, <1>3 DEF UploadInv, TypeOK, Places, Early, Late, Decisive, Unclear
    <2> QED
      BY <1>1, <1>3, <2>1, <2>2 DEF UploadInv, Early
  <1>4. ASSUME NEW e \in {Other, UnexpectedEOF}, Fail("answer", {InvalidInput, e}, "client")
        PROVE  UploadInv'
    <2>1. Tells({InvalidInput, e}, "client") /\ {InvalidInput, e} \in SUBSET Sentinels
      BY <1>4 DEF Tells, Sentinels, InvalidInput, UploadTooLarge, MaxBytes, UnexpectedEOF, Other
    <2> QED
      BY <1>3, <1>4, <2>1 DEF Fail
  <1>5. CASE Fail("answer", {InvalidInput, MaxBytes}, "size")
    <2>1. Tells({InvalidInput, MaxBytes}, "size") /\ {InvalidInput, MaxBytes} \in SUBSET Sentinels
      BY DEF Tells, Sentinels, InvalidInput, UploadTooLarge, MaxBytes, UnexpectedEOF
    <2> QED
      BY <1>3, <1>5, <2>1 DEF Fail
  <1>6. CASE Fail("answer", {InvalidInput, Other}, "temporary file")
    <2>1. /\ Tells({InvalidInput, Other}, "temporary file")
          /\ {InvalidInput, Other} \in SUBSET Sentinels
      BY DEF Tells, Sentinels, InvalidInput, UploadTooLarge, MaxBytes, UnexpectedEOF, Other
    <2> QED
      BY <1>3, <1>6, <2>1 DEF Fail
  <1>7. CASE Fail("answer", {InvalidInput}, "client")
    <2>1. Tells({InvalidInput}, "client") /\ {InvalidInput} \in SUBSET Sentinels
      BY DEF Tells, Sentinels, InvalidInput, UploadTooLarge, MaxBytes, UnexpectedEOF
    <2> QED
      BY <1>3, <1>7, <2>1 DEF Fail
  <1>8. CASE Fail("answer", {UploadTooLarge}, "size")
    <2>1. Tells({UploadTooLarge}, "size") /\ {UploadTooLarge} \in SUBSET Sentinels
      BY DEF Tells, Sentinels, InvalidInput, UploadTooLarge, MaxBytes, UnexpectedEOF
    <2> QED
      BY <1>3, <1>8, <2>1 DEF Fail
  <1>9. CASE Fail("answer", {Other}, "temporary file") \/ Fail("answer", {Canceled}, "client")
    <2>1. /\ Tells({Other}, "temporary file") /\ {Other} \in SUBSET Sentinels
          /\ Tells({Canceled}, "client") /\ {Canceled} \in SUBSET Sentinels
      BY QuietIs, QuietTells
    <2> QED
      BY <1>3, <1>9, <2>1 DEF Fail
  <1>10. CASE \E next \in {"form", "open", "put"} : Proceed(next)
    BY <1>2, <1>10 DEF Proceed
  <1> QED
    BY <1>4, <1>5, <1>6, <1>7, <1>8, <1>9, <1>10 DEF Parse, Form, Open

\* The input is stored.
LEMMA StoreStep == UploadInv /\ (Put \/ Check) => UploadInv'
  <1> SUFFICES ASSUME UploadInv, Put \/ Check
               PROVE  UploadInv'
    OBVIOUS
  <1>1. /\ stage \in {"put", "check"} /\ ~row /\ UNCHANGED <<row, cancelled, unremoved, status>>
        /\ blame = "nobody" /\ error = {} /\ unremoved = FALSE
    <2>1. stage \in {"put", "check"} /\ UNCHANGED <<row, cancelled, unremoved, status>>
      BY DEF Put, Check, Proceed, Fail
    <2>2. stage \in Early \union Late /\ stage # "publish"
      BY <2>1 DEF Early, Late
    <2> QED
      BY <2>1, <2>2, BeforeTheEnd
  <1>2. ASSUME NEW e \in SUBSET Quiet, e # {}, NEW who \in {"client", "storage"},
               Fail("cleanup", e, who), file' \in BOOLEAN
        PROVE  UploadInv'
    <2>1. Tells(e, who) /\ e \in SUBSET Sentinels /\ InvalidInput \notin e /\ UnexpectedEOF \notin e
      BY <1>2, QuietTells DEF Quiet, Names
    <2>2. /\ stage' = "cleanup" /\ error' = e /\ blame' = who
          /\ UNCHANGED <<cancelled, unremoved, status>> /\ status = 0
      BY <1>1, <1>2 DEF Fail, UploadInv
    <2>3. TypeOK'
      <3>1. stage' \in Stages /\ blame' \in Blames /\ status' \in Statuses
        BY <1>2, <2>2, Types DEF UploadInv, Stages, Blames
      <3>2. Flags'
        BY <1>1, <1>2, <2>2, Types DEF Flags, UploadInv
      <3> QED
        BY <2>1, <2>2, <3>1, <3>2, TypesNext
    <2>4. Places'
      BY <1>1, <1>2, <2>2 DEF Places, Early, Late, Decisive, Unclear
    <2> QED
      BY <2>1, <2>2, <2>3, <2>4 DEF UploadInv
  <1>3. {Other} \in SUBSET Quiet /\ {Canceled} \in SUBSET Quiet
    BY QuietIs
  <1>6. ASSUME NEW next \in {"check", "create"}, Proceed(next), file' = TRUE
        PROVE  UploadInv'
    <2>1. /\ stage' = next /\ UNCHANGED <<error, blame, cancelled, row, unremoved, status>>
          /\ status = 0 /\ file'
      BY <1>1, <1>6 DEF Proceed, UploadInv
    <2>2. TypeOK'
      <3>1. /\ stage' \in Stages /\ error' \in SUBSET Sentinels /\ blame' \in Blames
            /\ status' \in Statuses
        BY <2>1, Types DEF UploadInv, Stages, Late
      <3>2. Flags'
        BY <1>1, <1>6, <2>1, Types DEF Flags, UploadInv
      <3> QED
        BY <3>1, <3>2, TypesNext
    <2>3. Places'
      BY <1>1, <2>1 DEF Places, Early, Late, Decisive
    <2> QED
      BY <2>1, <2>2, <2>3 DEF UploadInv
  <1>4. CASE Put
    <2>1. CASE Proceed("check") /\ file' = TRUE
      BY <1>1, <1>6, <2>1
    <2>2. CASE \E e \in {{Other}} \union Lost : Fail("cleanup", e, "storage") /\ file' = FALSE
      BY <1>2, <1>3, <2>2 DEF Lost
    <2> QED
      BY <1>4, <2>1, <2>2 DEF Put
  <1>5. CASE Check
    <2>1. UNCHANGED file /\ file \in BOOLEAN
      BY <1>5 DEF Check, UploadInv, TypeOK
    <2>2. CASE Fail("cleanup", {Canceled}, "client")
      BY <1>2, <1>3, <2>1, <2>2
    <2>3. CASE Proceed("create")
      <3>1. file
        BY <1>5 DEF Check, UploadInv, Places, Late
      <3> QED
        BY <1>1, <1>6, <2>1, <2>3, <3>1
    <2> QED
      BY <1>5, <2>2, <2>3 DEF Check
  <1> QED
    BY <1>4, <1>5

\* A refusal that was certain is classified, and cleaned up.
LEMMA RefusalIs ==
    ASSUME NEW e, e \in {{DataError}, {SafeToRetry, Other}} \union {{SafeToRetry} \union l : l \in Lost}
    PROVE  /\ Classified(e) = e \union {NotCreated}
           /\ Classified(e) \in SUBSET Quiet
           /\ Decided(Classified(e)) = "cleanup"
           /\ SafeToRetry \in Classified(e) \/ DataError \in Classified(e)
  <1>1. SafeToRetry \in e \/ DataError \in e
    OBVIOUS
  <1>2. Classified(e) = e \union {NotCreated}
    BY <1>1 DEF Classified
  <1>3. e \subseteq {DataError, SafeToRetry, Other, Canceled}
    BY DEF Lost
  <1>4. Classified(e) \subseteq {DataError, SafeToRetry, Other, Canceled, NotCreated}
    BY <1>2, <1>3
  <1>5. JobCreated \notin {DataError, SafeToRetry, Other, Canceled, NotCreated}
    BY DEF JobCreated, DataError, SafeToRetry, Other, Canceled, NotCreated
  <1>6. Decided(Classified(e)) = "cleanup"
    BY <1>2, <1>4, <1>5 DEF Decided
  <1> QED
    BY <1>1, <1>2, <1>4, <1>6, QuietIs

\* Any other error of Create is left as it is, and nothing is cleaned up.
LEMMA FailureIs ==
    ASSUME NEW e \in {{ServerError}} \union NetworkErrors
    PROVE  /\ Classified(e) = e /\ Decided(e) = "answer"
           /\ Tells(e, "database") /\ e \in SUBSET Sentinels
           /\ SafeToRetry \notin e /\ DataError \notin e /\ JobCreated \notin e /\ e # {}
           /\ e \subseteq {ServerError, Other, UnexpectedEOF, Canceled}
  <1>1. e \subseteq {ServerError, Other, UnexpectedEOF, Canceled} /\ e # {}
    BY DEF NetworkErrors, Lost
  <1>2. {ServerError, Other, UnexpectedEOF, Canceled}
        \intersect {SafeToRetry, DataError, NotCreated, InvalidInput, UploadTooLarge, MaxBytes, JobCreated} = {}
    BY DEF ServerError, Other, UnexpectedEOF, Canceled, SafeToRetry, DataError, NotCreated,
           InvalidInput, UploadTooLarge, MaxBytes, JobCreated
  <1>3. /\ SafeToRetry \notin e /\ DataError \notin e /\ NotCreated \notin e /\ InvalidInput \notin e
        /\ UploadTooLarge \notin e /\ MaxBytes \notin e /\ JobCreated \notin e
    BY <1>1, <1>2
  <1>4. e \in SUBSET Sentinels
    BY <1>1 DEF Sentinels
  <1>5. Classified(e) = e
    BY <1>3 DEF Classified
  <1>6. Decided(e) = "answer"
    BY <1>3 DEF Decided
  <1>7. Tells(e, "database")
    BY <1>1, <1>3 DEF Tells
  <1> QED
    BY <1>1, <1>3, <1>4, <1>5, <1>6, <1>7

\* After the row, nothing is cleaned up.
LEMMA PublicationIs ==
    ASSUME NEW e \in NetworkErrors
    PROVE  /\ Decided({JobCreated} \union e) = "answer"
           /\ Tells({JobCreated} \union e, "queue")
           /\ {JobCreated} \union e \in SUBSET Sentinels
  <1>1. e \subseteq {Other, UnexpectedEOF, Canceled}
    BY DEF NetworkErrors, Lost
  <1>2. {JobCreated, Other, UnexpectedEOF, Canceled} \intersect {InvalidInput, UploadTooLarge, MaxBytes} = {}
    BY DEF JobCreated, Other, UnexpectedEOF, Canceled, InvalidInput, UploadTooLarge, MaxBytes
  <1>3. Decided({JobCreated} \union e) = "answer"
    BY DEF Decided
  <1>4. Tells({JobCreated} \union e, "queue")
    BY <1>1, <1>2 DEF Tells
  <1>5. {JobCreated} \union e \in SUBSET Sentinels
    BY <1>1 DEF Sentinels
  <1> QED
    BY <1>3, <1>4, <1>5

\* A row, an error that rules it out, or one that does not.
LEMMA CreateStep == UploadInv /\ (Create \/ Publish) => UploadInv'
  <1> SUFFICES ASSUME UploadInv, Create \/ Publish
               PROVE  UploadInv'
    OBVIOUS
  <1>1. /\ stage \in {"create", "publish"} /\ (row <=> stage = "publish")
        /\ file /\ file' = file /\ ~unremoved
        /\ blame = "nobody" /\ error = {} /\ status = 0
        /\ UNCHANGED <<cancelled, unremoved, status>>
    BY DEF Create, Publish, Proceed, Fail, UploadInv, Places, Late, Decisive, Tells
  <1>2. Flags /\ (row' \in BOOLEAN => Flags') /\ row \in BOOLEAN
    BY <1>1, Types DEF Flags, UploadInv
  <1>3. ASSUME NEW next \in {"publish", "answer"}, Proceed(next), row', row' \in BOOLEAN
        PROVE  UploadInv'
    <2>1. stage' = next /\ UNCHANGED <<error, blame>>
      BY <1>3 DEF Proceed
    <2>2. TypeOK'
      <3>1. /\ stage' \in Stages /\ error' \in SUBSET Sentinels /\ blame' \in Blames
            /\ status' \in Statuses
        BY <1>1, <2>1, Types DEF UploadInv, Stages, Late, Decisive
      <3> QED
        BY <1>2, <1>3, <3>1, TypesNext
    <2>3. Places'
      BY <1>1, <1>3, <2>1 DEF Places, Early, Late, Decisive
    <2> QED
      BY <1>1, <2>1, <2>2, <2>3 DEF UploadInv
  <1>4. ASSUME NEW next \in {"cleanup", "answer"}, NEW e \in SUBSET Sentinels,
               NEW who \in {"database", "queue"}, Fail(next, e, who), Tells(e, who),
               row' \in BOOLEAN, who = "queue" => row' /\ next = "answer",
               who = "database" /\ next = "cleanup" =>
                 /\ ~row' /\ InvalidInput \notin e /\ UnexpectedEOF \notin e
                 /\ SafeToRetry \in e \/ DataError \in e,
               who = "database" /\ next = "answer" => SafeToRetry \notin e /\ DataError \notin e
        PROVE  UploadInv'
    <2>1. stage' = next /\ error' = e /\ blame' = who
      BY <1>4 DEF Fail
    <2>2. TypeOK'
      <3>1. stage' \in Stages /\ blame' \in Blames /\ status' \in Statuses
        BY <1>1, <2>1, Types DEF UploadInv, Stages, Decisive, Blames
      <3> QED
        BY <1>2, <1>4, <2>1, <3>1, TypesNext
    <2>3. Unclear' <=> who = "database" /\ next = "answer"
      BY <1>4, <2>1 DEF Unclear
    <2>4. Places'
      BY <1>1, <1>4, <2>1, <2>3 DEF Places, Early, Late, Decisive
    <2> QED
      BY <1>1, <1>4, <2>1, <2>2, <2>4 DEF UploadInv
  <1>5. CASE Create
    <2>1. CASE Proceed("publish") /\ row' = TRUE
      BY <1>3, <2>1
    <2>2. ASSUME NEW e \in {{DataError}, {SafeToRetry, Other}} \union {{SafeToRetry} \union l : l \in Lost},
                 Fail(Decided(Classified(e)), Classified(e), "database"), row' = FALSE
          PROVE  UploadInv'
      <3>1. Classified(e) # {} /\ "database" \notin {"nobody", "size"}
        BY RefusalIs
      <3>2. Tells(Classified(e), "database") /\ Classified(e) \in SUBSET Sentinels
        BY <3>1, RefusalIs, QuietTells
      <3>3. InvalidInput \notin Classified(e) /\ UnexpectedEOF \notin Classified(e)
        BY RefusalIs DEF Quiet, Names
      <3> QED
        BY <1>4, <2>2, <3>2, <3>3, RefusalIs
    <2>3. ASSUME NEW e \in {{ServerError}} \union NetworkErrors,
                 Fail(Decided(Classified(e)), Classified(e), "database"), row' \in BOOLEAN
          PROVE  UploadInv'
      BY <1>4, <2>3, FailureIs
    <2> QED
      BY <1>5, <2>1, <2>2, <2>3 DEF Create
  <1>6. CASE Publish
    <2>1. row /\ row' = row
      BY <1>1, <1>6 DEF Publish
    <2>2. CASE Proceed("answer")
      BY <1>2, <1>3, <2>1, <2>2
    <2>3. ASSUME NEW e \in NetworkErrors,
                 Fail(Decided({JobCreated} \union e), {JobCreated} \union e, "queue")
          PROVE  UploadInv'
      BY <1>2, <1>4, <2>1, <2>3, PublicationIs
    <2> QED
      BY <1>6, <2>2, <2>3 DEF Publish
  <1> QED
    BY <1>5, <1>6

\* Every step keeps the invariant.
LEMMA UploadNext == UploadInv /\ [Next]_vars => UploadInv'
  BY EarlyStep, StoreStep, CreateStep, AnswerStep DEF Next

\* The inductive invariant.
THEOREM UploadSafety == Spec => []UploadInv
  BY UploadInit, UploadNext, PTL DEF Spec

\* 413 is for uploads over a limit and for all of them, although the limit on
\* the request shows in the middle of the parser.
THEOREM SizeHasItsAnswer == Spec => []SizeIs413
  <1>1. UploadInv => SizeIs413
    <2> SUFFICES ASSUME UploadInv, stage = "answered"
                 PROVE  status = 413 <=> blame = "size"
      BY DEF SizeIs413
    <2>1. Tells(error, blame) /\ status = Status(error)
      BY DEF UploadInv
    <2>2. status = 413 <=> UploadTooLarge \in error \/ MaxBytes \in error
      BY <2>1, StatusIs
    <2> QED
      BY <2>1, <2>2 DEF Tells
  <1> QED
    BY <1>1, UploadSafety, PTL

\* Whatever is removed, no row will ask for it.
THEOREM RowsKeepTheirInput == Spec => []RowKeepsInput
  <1>1. UploadInv => RowKeepsInput
    BY DEF UploadInv, Places, RowKeepsInput
  <1> QED
    BY <1>1, UploadSafety, PTL

\* Nothing else is left behind.
THEOREM FailuresAreCleaned == Spec => []CertainFailureIsCleaned
  <1>1. UploadInv => CertainFailureIsCleaned
    BY DEF UploadInv, Places, Decisive, CertainFailureIsCleaned
  <1> QED
    BY <1>1, UploadSafety, PTL

\* Connections cut short excepted, 400 and 413 are for requests that were wrong
\* and left nothing.
THEOREM RefusalsAreDeserved == Spec => []RefusedForItsRequest
  <1>1. UploadInv => RefusedForItsRequest
    <2> SUFFICES ASSUME UploadInv, status \in {400, 413}
                 PROVE  \/ blame \in {"client", "size", "temporary file"} /\ ~row
                        \/ AnswerCutShort
      BY DEF RefusedForItsRequest
    <2>1. status = Status(error) /\ Tells(error, blame) /\ Places
      BY DEF UploadInv
    <2>2. \/ UploadTooLarge \in error \/ MaxBytes \in error
          \/ InvalidInput \in error \/ UnexpectedEOF \in error
      BY <2>1, StatusIs
    <2> QED
      BY <2>1, <2>2 DEF Tells, Places, AnswerCutShort
  <1> QED
    BY <1>1, UploadSafety, PTL

-----------------------------------------------------------------------------
(* Refinement of JobSubmission, for the one request there is.              *)

\* The functions of JobSubmission have this one request.
LEMMA Mapped ==
    /\ \A v : Each(v)[Request] = v
    /\ \A v, w : [Each(v) EXCEPT ![Request] = w] = Each(w)
    /\ Request \in {Request}
  BY DEF Each

\* And so have its sets, or nothing.
LEMMA MappedSets ==
    ASSUME NEW b \in BOOLEAN
    PROVE  /\ Request \in InCase(b) <=> b
           /\ b => InCase(b) = {Request}
           /\ ~b => InCase(b) = {}
           /\ InCase(b) \union {Request} = {Request}
           /\ InCase(b) \ {Request} = {}
  BY DEF InCase

\* The initial state is one of JobSubmission.
LEMMA UploadMapsInit == Init => Submission!Init
  <1> SUFFICES ASSUME Init
               PROVE  Submission!Init
    OBVIOUS
  <1>1. Handler = "idle" /\ Answered = "none"
    BY DEF Init, Handler, Answered, Decisive
  <1>2. ~cancelled /\ ~file /\ Cause = "none" /\ ~Certain /\ ~Pending /\ ~Sent /\ ~Doubt
    BY DEF Init, Cause, Certain, Pending, Sent, Doubt, Unclear, Decisive
  <1> QED
    BY <1>1, <1>2 DEF Submission!Init, Each, InCase

\* A step that leaves the mapped variables alone.
LEMMA MappedStutter ==
    ASSUME Handler' = Handler, Answered' = Answered, Cause' = Cause,
           cancelled' = cancelled, file' = file, Certain' = Certain,
           Pending' = Pending, Sent' = Sent, Doubt' = Doubt
    PROVE  UNCHANGED Submission!vars
  BY DEF Submission!vars, Cause, Certain, Pending, Sent, Doubt

\* The ways JobSubmission has of moving on.
Same == cancelled' = cancelled
Data == file' = file /\ Certain' = Certain /\ Pending' = Pending /\ Sent' = Sent /\ Doubt' = Doubt

\* On to the next call.
LEMMA MapsGoto ==
    ASSUME NEW call, Handler' = call, Same, Cause' = Cause, Answered' = Answered
    PROVE  Submission!Goto(Request, call)
  BY Mapped DEF Submission!Goto, Cause, Same

\* The answer.
LEMMA MapsReply ==
    ASSUME NEW a, Handler' = "answered", Answered' = a, Same, Cause' = Cause
    PROVE  Submission!Reply(Request, a)
  BY Mapped DEF Submission!Reply, Cause, Same

\* The cleanup before an answer.
LEMMA MapsCleanUp ==
    ASSUME Handler' = "cleanup", Cause' = "error", Same, Answered' = Answered
    PROVE  Submission!CleanUp(Request, "error")
  BY Mapped DEF Submission!CleanUp, Cause, Same

\* The answer after the cleanup.
LEMMA MapsReplyCause ==
    ASSUME Handler' = "answered", Answered' = Cause, Cause' = "none", Same
    PROVE  Submission!ReplyCause(Request)
  BY Mapped DEF Submission!ReplyCause, Cause, Same

\* The parts of the state JobSubmission only has sets for.
LEMMA MapsData ==
    ASSUME Data
    PROVE  /\ InCase(file)' = InCase(file)
           /\ InCase(Certain)' = InCase(Certain)
           /\ InCase(Pending)' = InCase(Pending)
           /\ InCase(Sent)' = InCase(Sent)
           /\ InCase(Doubt)' = InCase(Doubt)
  BY DEF Data

\* Every kind of fault there is.
LEMMA MapsFaults ==
    ASSUME NEW service \in {"storage", "db", "sqs"}
    PROVE  Submission!MayErr(Request, service)
  BY DEF Submission!MayErr

\* An error of the database or of SQS may be answered with 400.
LEMMA MapsAnswers == Submission!FailureAnswers(Request) = {"error", "rejected"}
  BY DEF Submission!FailureAnswers

\* An error is not answered with 201.
LEMMA AnswerToIs ==
    /\ AnswerTo({}) = "created"
    /\ \A e : e # {} => AnswerTo(e) \in {"error", "rejected"}
    /\ \A e : Status(e) = 500 => AnswerTo(e) = "error"
    /\ \A e : Status(e) \in {400, 413} => AnswerTo(e) = "rejected"
  BY StatusIs DEF AnswerTo

\* Where a step leads that goes on.
LEMMA MapsProceed ==
    ASSUME NEW next \in Stages \ {"parse", "cleanup", "answered"}, Proceed(next),
           blame = "nobody", error = {}, stage \notin {"cleanup"} \union Decisive
    PROVE  /\ Handler' = CASE next = "form" -> "idle"
                           [] next = "open" -> "put"
                           [] next = "create" -> "insert"
                           [] next = "answer" -> "answered"
                           [] OTHER -> next
           /\ Same /\ Cause' = Cause /\ Doubt' = Doubt /\ ~Unclear /\ ~Unclear'
           /\ Sent' <=> next = "answer"
           /\ Answered' = IF next = "answer" THEN "created" ELSE Answered
  <1>1. stage' = next /\ error' = {} /\ blame' = "nobody" /\ unremoved' = unremoved
        /\ cancelled' = cancelled
    BY DEF Proceed
  <1>2. ~Unclear /\ ~Unclear'
    BY <1>1 DEF Unclear
  <1>3. Doubt' = Doubt /\ Same /\ Cause' = Cause /\ (Sent' <=> next = "answer")
    BY <1>1, <1>2 DEF Doubt, Same, Cause, Sent, Decisive, Stages, Early, Late
  <1>4. Answered' = IF next = "answer" THEN "created" ELSE Answered
    BY <1>1, AnswerToIs DEF Answered, Decisive
  <1>5. Handler' = CASE next = "form" -> "idle"
                     [] next = "open" -> "put"
                     [] next = "create" -> "insert"
                     [] next = "answer" -> "answered"
                     [] OTHER -> next
    BY <1>1 DEF Handler, Stages, Early, Late, Decisive
  <1> QED
    BY <1>2, <1>3, <1>4, <1>5

\* Where a step leads that gives up.
LEMMA MapsFail ==
    ASSUME NEW next \in {"answer", "cleanup"}, NEW e, NEW who, Fail(next, e, who), e # {},
           stage \notin {"cleanup"} \union Decisive
    PROVE  /\ Same /\ ~Sent /\ ~Sent' /\ unremoved' = unremoved /\ error' = e /\ blame' = who
           /\ next = "answer" => /\ Handler' = "answered" /\ Cause' = Cause
                                 /\ Answered' = AnswerTo(e)
           /\ next = "cleanup" => /\ Handler' = "cleanup" /\ Cause' = "error"
                                  /\ Answered' = Answered
  <1>1. stage' = next /\ error' = e /\ blame' = who /\ unremoved' = unremoved
        /\ cancelled' = cancelled
    BY DEF Fail
  <1>2. Same /\ ~Sent /\ ~Sent'
    BY <1>1 DEF Same, Sent, Decisive
  <1>3. next = "answer" => Handler' = "answered" /\ Cause' = Cause /\ Answered' = AnswerTo(e)
    BY <1>1 DEF Handler, Cause, Answered, Decisive
  <1>4. next = "cleanup" => Handler' = "cleanup" /\ Cause' = "error" /\ Answered' = Answered
    BY <1>1 DEF Handler, Cause, Answered, Decisive
  <1> QED
    BY <1>1, <1>2, <1>3, <1>4

\* Before the INSERT nothing is in doubt.
LEMMA Quietly ==
    ASSUME UploadInv, stage \in Early \union Late
    PROVE  /\ blame = "nobody" /\ error = {} /\ ~unremoved /\ ~Unclear /\ ~Doubt /\ ~Pending
           /\ stage \notin {"cleanup"} \union Decisive
           /\ row <=> stage = "publish"
           /\ file <=> stage \in Late
           /\ Certain <=> row
           /\ Answered = "none" /\ Cause = "none" /\ ~Sent
  <1>1. ~Unclear
    BY BeforeTheEnd DEF Unclear
  <1> QED
    BY <1>1, BeforeTheEnd DEF Doubt, Pending, Certain, Answered, Cause, Sent

\* What the handler checks is the Accept or the Reject of JobSubmission; Upload
\* may give up before it calls Put.
LEMMA MapsEarly ==
    ASSUME UploadInv, Parse \/ Form \/ Open
    PROVE  Submission!RequestStep(Request) \/ UNCHANGED Submission!vars
  <1>1. stage \in {"parse", "form", "open"} /\ file' = file /\ row' = row
    BY DEF Parse, Form, Open
  <1>2. stage \in Early \union Late /\ stage # "publish"
    BY <1>1 DEF Early
  <1>3. Handler = IF stage = "open" THEN "put" ELSE "idle"
    BY <1>1 DEF Handler
  <1>4. ASSUME NEW next \in {"form", "open", "put"}, Proceed(next)
        PROVE  /\ Handler' = IF next = "form" THEN "idle" ELSE "put"
               /\ Answered' = Answered /\ Cause' = Cause /\ Data /\ Same
    <2>1. next \in Stages \ {"parse", "cleanup", "answered"} /\ next # "answer"
      BY DEF Stages, Early
    <2>2. /\ Handler' = IF next = "form" THEN "idle" ELSE "put"
          /\ Same /\ Cause' = Cause /\ Doubt' = Doubt /\ ~Unclear /\ ~Unclear'
          /\ ~Sent' /\ ~Sent /\ Answered' = Answered
      BY <1>2, <1>4, <2>1, MapsProceed, Quietly
    <2>3. Data
      BY <1>1, <2>2 DEF Data, Certain, Pending, Sent
    <2> QED
      BY <2>2, <2>3
  <1>5. ASSUME NEW e, NEW who, who # "database", e # {}, Fail("answer", e, who)
        PROVE  /\ Handler' = "answered" /\ Cause' = Cause /\ Data /\ Same
               /\ Answered' = AnswerTo(e)
    <2>1. ~Unclear'
      BY <1>2, <1>5, MapsFail, Quietly DEF Unclear
    <2> QED
      <3>1. /\ Handler' = "answered" /\ Cause' = Cause /\ Same /\ Answered' = AnswerTo(e)
            /\ ~Sent /\ ~Sent' /\ unremoved' = unremoved /\ ~Unclear
        BY <1>2, <1>5, MapsFail, Quietly
      <3>2. Data
        BY <1>1, <2>1, <3>1 DEF Data, Certain, Pending, Doubt, Sent
      <3> QED
        BY <3>1, <3>2
  <1>6. ASSUME NEW e, NEW who, who # "database", e # {}, Fail("answer", e, who),
               stage # "open", Status(e) \in {400, 413}
        PROVE  Submission!Reject(Request)
    <2>1. Submission!Reply(Request, "rejected")
      BY <1>5, <1>6, AnswerToIs, MapsReply
    <2> QED
      BY <1>3, <1>5, <1>6, <2>1, MapsData, Mapped DEF Submission!Reject
  <1>7. ASSUME NEW e, NEW who, who # "database", e # {}, Fail("answer", e, who),
               stage = "open", Status(e) = 500
        PROVE  Submission!PutFails(Request)
    <2>1. Submission!Reply(Request, "error")
      BY <1>5, <1>7, AnswerToIs, MapsReply
    <2> QED
      BY <1>3, <1>5, <1>7, <2>1, MapsData, Mapped, MapsFaults DEF Submission!PutFails
  <1>8. CASE Parse
    <2>1. CASE Proceed("form")
      BY <1>3, <1>4, <1>8, <2>1, MappedStutter DEF Parse, Data, Same
    <2>2. ASSUME NEW e \in {{InvalidInput, Other}, {InvalidInput, UnexpectedEOF},
                            {InvalidInput, MaxBytes}},
                 NEW who \in {"client", "size", "temporary file"}, Fail("answer", e, who)
          PROVE  Submission!Reject(Request)
      <3>1. e # {} /\ InvalidInput \in e
        BY <2>2
      <3>2. Status(e) \in {400, 413}
        BY <3>1, StatusKinds
      <3> QED
        BY <3>2, <1>6, <1>8, <2>2, <3>1 DEF Parse
    <2> QED
      BY <1>8, <2>1, <2>2 DEF Parse, Submission!RequestStep
  <1>9. CASE Form
    <2>1. CASE Proceed("open")
      <3>1. Submission!Goto(Request, "put")
        BY <1>4, <2>1, MapsGoto
      <3>2. Submission!Accept(Request)
        BY <1>3, <1>4, <1>9, <2>1, <3>1, MapsData, Mapped DEF Form, Submission!Accept
      <3> QED
        BY <3>2 DEF Submission!RequestStep
    <2>2. ASSUME NEW e \in {{InvalidInput}, {UploadTooLarge}},
                 NEW who \in {"client", "size"}, Fail("answer", e, who)
          PROVE  Submission!Reject(Request)
      <3>1. e # {} /\ (InvalidInput \in e \/ UploadTooLarge \in e)
        BY <2>2
      <3>2. Status(e) \in {400, 413}
        BY <3>1, StatusKinds
      <3> QED
        BY <3>2, <1>6, <1>9, <2>2, <3>1 DEF Form
    <2> QED
      BY <1>9, <2>1, <2>2 DEF Form, Submission!RequestStep
  <1>10. CASE Open
    <2>1. CASE Proceed("put")
      BY <1>3, <1>4, <1>10, <2>1, MappedStutter DEF Open, Data, Same
    <2>2. ASSUME NEW e \in {{Other}, {Canceled}},
                 NEW who \in {"client", "temporary file"}, Fail("answer", e, who)
          PROVE  Submission!PutFails(Request)
      <3>1. e # {} /\ Status(e) = 500
        BY <2>2, PlainErrors
      <3> QED
        BY <1>7, <1>10, <2>2, <3>1 DEF Open
    <2> QED
      BY <1>10, <2>1, <2>2 DEF Open, Submission!RequestStep, Submission!HandlerStep
  <1> QED
    BY <1>8, <1>9, <1>10

\* Cleaned and CleanupFails: what is cleaned up is answered with 500.
LEMMA MapsCleaned ==
    ASSUME UploadInv, Cleanup
    PROVE  Submission!HandlerStep(Request)
  <1>1. /\ stage = "cleanup" /\ stage' = "answer" /\ row' = row /\ blame' = blame
        /\ TypeOK /\ Tells(error, blame) /\ Places
        /\ InvalidInput \notin error /\ UnexpectedEOF \notin error
    BY DEF UploadInv, Cleanup
  <1>2. blame \notin {"nobody", "size"} /\ ~row /\ ~Unclear
    BY <1>1 DEF Places
  <1>3. error # {} /\ AnswerTo(error) = "error"
    <2>1. error # {} /\ UploadTooLarge \notin error /\ MaxBytes \notin error
      BY <1>1, <1>2 DEF Tells
    <2>2. Status(error) = 500
      BY <1>1, <2>1, StatusIs
    <2> QED
      BY <2>1, <2>2, AnswerToIs
  <1>4. /\ Handler = "cleanup" /\ Handler' = "answered" /\ Cause = "error" /\ Cause' = "none"
        /\ Answered' = AnswerTo(error') /\ ~Sent /\ ~Certain /\ ~Certain' /\ ~Pending /\ ~Pending'
    BY <1>1, <1>2 DEF Handler, Cause, Answered, Sent, Certain, Pending, Decisive
  <1>5. Same
    BY DEF Cleanup, Same
  <1>6. CASE file' = FALSE /\ UNCHANGED <<error, unremoved>>
    <2>1. Doubt' = Doubt /\ ~Sent'
      BY <1>1, <1>3, <1>6 DEF Doubt, Unclear, Sent
    <2>2. Submission!ReplyCause(Request)
      BY <1>3, <1>4, <1>5, <1>6, MapsReplyCause
    <2>3. Submission!Cleaned(Request)
      BY <1>4, <1>6, <2>1, <2>2, Mapped
      DEF Submission!Cleaned, Cause, Certain, Pending, Sent, Doubt, InCase
    <2> QED
      BY <2>3 DEF Submission!HandlerStep
  <1>7. CASE error' = error \union {Other} /\ unremoved' = TRUE /\ UNCHANGED file
    <2>1. error' # {} /\ AnswerTo(error') = "error"
      <3>1. error' # {}
        BY <1>7
      <3>2. /\ InvalidInput \notin error' /\ UnexpectedEOF \notin error'
            /\ UploadTooLarge \notin error' /\ MaxBytes \notin error'
        BY <1>1, <1>2, <1>7, QuietIs DEF Tells, Quiet, Names
      <3>3. Status(error') = 500
        BY <3>1, <3>2, StatusIs
      <3> QED
        BY <3>3, AnswerToIs
    <2>2. Submission!ReplyCause(Request)
      BY <1>4, <1>5, <2>1, MapsReplyCause
    <2>3. Doubt' /\ ~Sent'
      BY <1>7, <2>1 DEF Doubt, Sent
    <2>4. Submission!CleanupFails(Request)
      BY <1>4, <1>7, <2>2, <2>3, Mapped
      DEF Submission!CleanupFails, Cause, Certain, Pending, Sent, Doubt, InCase
    <2> QED
      BY <2>4 DEF Submission!HandlerStep
  <1> QED
    BY <1>6, <1>7 DEF Cleanup

\* The answer was decided on before it is written.
LEMMA MapsAnswer ==
    ASSUME Answer
    PROVE  UNCHANGED Submission!vars
  <1>1. /\ stage = "answer" /\ stage' = "answered"
        /\ UNCHANGED <<error, blame, cancelled, file, row, unremoved>>
    BY DEF Answer
  <1>2. Handler' = Handler /\ Answered' = Answered /\ Cause' = Cause /\ Sent' = Sent
    BY <1>1 DEF Handler, Answered, Cause, Sent, Decisive
  <1>3. Certain' = Certain /\ Pending' = Pending /\ Doubt' = Doubt
    BY <1>1 DEF Certain, Pending, Doubt, Unclear
  <1> QED
    BY <1>1, <1>2, <1>3, MappedStutter

\* Cancel.
LEMMA MapsCancel ==
    ASSUME UploadInv, Cancel
    PROVE  Submission!Cancel(Request)
  <1>1. /\ stage \notin Decisive /\ ~cancelled /\ cancelled'
        /\ UNCHANGED <<stage, error, blame, file, row, unremoved, status>> /\ stage \in Stages
    BY DEF Cancel, UploadInv, TypeOK
  <1>2. Handler \in Submission!Busy \union {"idle"}
    BY <1>1 DEF Handler, Stages, Early, Late, Decisive, Submission!Busy
  <1>3. Handler' = Handler /\ Answered' = Answered /\ Cause' = Cause /\ Data
    BY <1>1 DEF Handler, Answered, Cause, Data, Sent, Certain, Pending, Doubt, Unclear
  <1>4. Submission!Cancel(Request)
    BY <1>1, <1>2, <1>3, Mapped, MapsData DEF Submission!Cancel, Cause, InCase
  <1> QED
    BY <1>4

\* What a step of Upload gives up with.
LEMMA Failures ==
    /\ \A e \in {{Other}} \union Lost : e # {}
    /\ \A e \in {{ServerError}} \union NetworkErrors : e # {}
  BY DEF Lost, NetworkErrors

\* Put, PutFails and Check.
LEMMA MapsPut ==
    ASSUME UploadInv, Put \/ Check
    PROVE  Submission!HandlerStep(Request)
  <1>1. stage \in {"put", "check"} /\ row' = row
    BY DEF Put, Check
  <1>2. stage \in Early \union Late /\ stage # "publish"
    BY <1>1 DEF Early, Late
  <1>3. Handler = stage
    BY <1>1 DEF Handler
  <1>4. ~Certain /\ ~Pending /\ ~Doubt /\ ~Sent /\ ~row /\ ~Unclear
    BY <1>2, Quietly
  <1>5. ASSUME NEW e, NEW who, who # "database", e # {}, Fail("cleanup", e, who)
        PROVE  /\ ~Certain' /\ ~Pending' /\ ~Doubt' /\ ~Sent'
               /\ Submission!CleanUp(Request, "error")
    <2>1. /\ Same /\ ~Sent' /\ unremoved' = unremoved /\ blame' = who
          /\ Handler' = "cleanup" /\ Cause' = "error" /\ Answered' = Answered
      BY <1>2, <1>5, MapsFail, Quietly
    <2>2. ~Unclear'
      BY <1>5, <2>1 DEF Unclear
    <2>3. ~Certain' /\ ~Pending' /\ ~Doubt'
      BY <1>1, <1>4, <2>1, <2>2 DEF Certain, Pending, Doubt
    <2> QED
      BY <2>1, <2>3, MapsCleanUp
  <1>6. ASSUME NEW next \in {"check", "create"}, Proceed(next)
        PROVE  /\ ~Certain' /\ ~Pending' /\ ~Doubt' /\ ~Sent'
               /\ Submission!Goto(Request, IF next = "create" THEN "insert" ELSE next)
    <2>1. next \in Stages \ {"parse", "cleanup", "answered"} /\ next # "answer"
      BY DEF Stages, Early, Late
    <2>2. /\ Handler' = IF next = "create" THEN "insert" ELSE next
          /\ Same /\ Cause' = Cause /\ Doubt' = Doubt /\ ~Unclear'
          /\ ~Sent' /\ Answered' = Answered
      BY <1>2, <1>6, <2>1, MapsProceed, Quietly
    <2>3. ~Certain' /\ ~Pending' /\ ~Doubt'
      BY <1>1, <1>4, <2>2 DEF Certain, Pending
    <2> QED
      BY <2>2, <2>3, MapsGoto
  <1>7. CASE Put
    <2>1. stage = "put" /\ ~file
      BY <1>2, <1>7, Quietly DEF Put, Late
    <2>2. CASE Proceed("check") /\ file' = TRUE
      <3>1. Submission!Put(Request)
        BY <1>3, <1>4, <1>6, <2>1, <2>2, Mapped
        DEF Submission!Put, Certain, Pending, Doubt, Sent, InCase
      <3> QED
        BY <3>1 DEF Submission!HandlerStep
    <2>3. ASSUME NEW e \in {{Other}} \union Lost, Fail("cleanup", e, "storage"), file' = FALSE
          PROVE  Submission!HandlerStep(Request)
      <3>1. e # {}
        BY <2>3, Failures
      <3>2. Submission!PutFails(Request)
        BY <1>3, <1>4, <1>5, <2>1, <2>3, <3>1, Mapped, MapsFaults
        DEF Submission!PutFails, Certain, Pending, Doubt, Sent, InCase
      <3> QED
        BY <3>2 DEF Submission!HandlerStep
    <2> QED
      BY <1>7, <2>2, <2>3 DEF Put
  <1>8. CASE Check
    <2>1. stage = "check" /\ file' = file /\ cancelled \in BOOLEAN
      BY <1>8 DEF Check, UploadInv, TypeOK
    <2>2. CASE cancelled
      <3>1. Fail("cleanup", {Canceled}, "client") /\ {Canceled} # {}
        BY <1>8, <2>2 DEF Check
      <3>2. Submission!Check(Request)
        BY <1>3, <1>4, <1>5, <2>1, <2>2, <3>1, Mapped, MappedSets
        DEF Submission!Check, Certain, Pending, Doubt, Sent
      <3> QED
        BY <3>2 DEF Submission!HandlerStep
    <2>3. CASE ~cancelled
      <3>1. Proceed("create")
        BY <1>8, <2>3 DEF Check
      <3>2. Submission!Check(Request)
        BY <1>3, <1>4, <1>6, <2>1, <2>3, <3>1, Mapped, MappedSets
        DEF Submission!Check, Certain, Pending, Doubt, Sent
      <3> QED
        BY <3>2 DEF Submission!HandlerStep
    <2> QED
      BY <2>2, <2>3
  <1> QED
    BY <1>7, <1>8

\* Inserted, InsertRefused and InsertUnanswered: classified as not created is
\* certain to have left no row.
LEMMA MapsCreate ==
    ASSUME UploadInv, Create
    PROVE  Submission!HandlerStep(Request)
  <1>1. stage = "create" /\ file' = file /\ stage \in Early \union Late
    BY DEF Create, Late
  <1>2. /\ Handler = "insert" /\ ~row /\ ~Certain /\ ~Pending /\ ~Doubt /\ ~Sent /\ ~Unclear
        /\ ~unremoved
    BY <1>1, Quietly DEF Handler
  <1>3. CASE Proceed("publish") /\ row' = TRUE
    <2>1. "publish" \in Stages \ {"parse", "cleanup", "answered"}
      BY DEF Stages, Early, Late
    <2>2. /\ Handler' = "publish" /\ Same /\ Cause' = Cause /\ Doubt' = Doubt /\ ~Unclear'
          /\ ~Sent' /\ Answered' = Answered
      BY <1>1, <1>3, <2>1, MapsProceed, Quietly
    <2>3. Certain' /\ ~Pending'
      BY <1>3, <2>2 DEF Certain, Pending
    <2>4. Submission!Goto(Request, "publish")
      BY <2>2, MapsGoto
    <2>5. Submission!Inserted(Request)
      BY <1>1, <1>2, <2>2, <2>3, <2>4, Mapped
      DEF Submission!Inserted, Certain, Pending, Doubt, Sent, InCase
    <2> QED
      BY <2>5 DEF Submission!HandlerStep
  <1>4. ASSUME NEW e \in {{DataError}, {SafeToRetry, Other}} \union {{SafeToRetry} \union l : l \in Lost},
               Fail(Decided(Classified(e)), Classified(e), "database"), row' = FALSE
        PROVE  Submission!HandlerStep(Request)
    <2> DEFINE c == Classified(e)
    <2>1. Fail("cleanup", c, "database") /\ c # {} /\ (SafeToRetry \in c \/ DataError \in c)
      BY <1>4, RefusalIs
    <2> HIDE DEF c
    <2>2. /\ Same /\ ~Sent' /\ unremoved' = unremoved /\ error' = c
          /\ Handler' = "cleanup" /\ Cause' = "error" /\ Answered' = Answered
      BY <1>1, <2>1, MapsFail, Quietly
    <2>3. ~Unclear'
      BY <2>1, <2>2 DEF Unclear
    <2>4. ~Certain' /\ ~Pending' /\ ~Doubt'
      BY <1>2, <1>4, <2>2, <2>3 DEF Certain, Pending, Doubt
    <2>5. Submission!CleanUp(Request, "error")
      BY <2>2, MapsCleanUp
    <2>6. Submission!InsertRefused(Request)
      BY <1>1, <1>2, <2>2, <2>4, <2>5, Mapped, MapsFaults
      DEF Submission!InsertRefused, Certain, Pending, Doubt, Sent, InCase
    <2> QED
      BY <2>6 DEF Submission!HandlerStep
  <1>5. ASSUME NEW e \in {{ServerError}} \union NetworkErrors,
               Fail(Decided(Classified(e)), Classified(e), "database"), row' \in BOOLEAN
        PROVE  Submission!HandlerStep(Request)
    <2>1. Fail("answer", e, "database") /\ e # {} /\ SafeToRetry \notin e /\ DataError \notin e
      BY <1>5, FailureIs
    <2>2. /\ Same /\ ~Sent' /\ error' = e /\ blame' = "database"
          /\ Handler' = "answered" /\ Cause' = Cause /\ Answered' = AnswerTo(e)
      BY <1>1, <2>1, MapsFail, Quietly
    <2>3. Unclear'
      BY <2>1, <2>2 DEF Unclear
    <2>4. Doubt' /\ ~Certain' /\ (Pending' <=> row')
      BY <2>3 DEF Certain, Pending, Doubt
    <2>5. \E a \in Submission!FailureAnswers(Request) : Submission!Reply(Request, a)
      BY <2>1, <2>2, AnswerToIs, MapsAnswers, MapsReply
    <2>6. Submission!InsertUnanswered(Request)
      BY <1>1, <1>2, <2>2, <2>4, <2>5, Mapped, MapsFaults
      DEF Submission!InsertUnanswered, Certain, Pending, Doubt, Sent, InCase
    <2> QED
      BY <2>6 DEF Submission!HandlerStep
  <1> QED
    BY <1>3, <1>4, <1>5 DEF Create

\* Published and PublishFails: a row that was created is never cleaned up.
LEMMA MapsPublish ==
    ASSUME UploadInv, Publish
    PROVE  Submission!HandlerStep(Request)
  <1>1. stage = "publish" /\ file' = file /\ row' = row /\ stage \in Early \union Late
    BY DEF Publish, Late
  <1>2. Handler = "publish" /\ row /\ Certain /\ ~Pending /\ ~Doubt /\ ~Sent /\ ~Unclear /\ ~unremoved
    BY <1>1, Quietly DEF Handler
  <1>3. CASE Proceed("answer")
    <2>1. "answer" \in Stages \ {"parse", "cleanup", "answered"}
      BY DEF Stages, Decisive
    <2>2. /\ Handler' = "answered" /\ Same /\ Cause' = Cause /\ Doubt' = Doubt /\ ~Unclear'
          /\ Sent' /\ Answered' = "created"
      BY <1>1, <1>3, <2>1, MapsProceed, Quietly
    <2>3. Certain' /\ ~Pending'
      BY <1>1, <1>2, <2>2 DEF Certain, Pending
    <2>4. Submission!Reply(Request, "created")
      BY <2>2, MapsReply
    <2>5. Submission!Published(Request)
      BY <1>1, <1>2, <2>2, <2>3, <2>4, Mapped
      DEF Submission!Published, Certain, Pending, Doubt, Sent, InCase
    <2> QED
      BY <2>5 DEF Submission!HandlerStep
  <1>4. ASSUME NEW e \in NetworkErrors,
               Fail(Decided({JobCreated} \union e), {JobCreated} \union e, "queue")
        PROVE  Submission!HandlerStep(Request)
    <2> DEFINE c == {JobCreated} \union e
    <2>1. Fail("answer", c, "queue") /\ c # {}
      BY <1>4, PublicationIs
    <2> HIDE DEF c
    <2>2. /\ Same /\ ~Sent' /\ unremoved' = unremoved /\ blame' = "queue"
          /\ Handler' = "answered" /\ Cause' = Cause /\ Answered' = AnswerTo(c)
      BY <1>1, <2>1, MapsFail, Quietly
    <2>3. ~Unclear'
      BY <2>2 DEF Unclear
    <2>4. ~Doubt' /\ Certain' /\ ~Pending'
      BY <1>1, <1>2, <2>2, <2>3 DEF Certain, Pending, Doubt
    <2>5. \E a \in Submission!FailureAnswers(Request) : Submission!Reply(Request, a)
      BY <2>1, <2>2, AnswerToIs, MapsAnswers, MapsReply
    <2>6. Submission!MayStillArrive(Request)
      BY DEF Submission!MayStillArrive
    <2>7. Submission!PublishFails(Request)
      BY <1>1, <1>2, <2>2, <2>4, <2>5, <2>6, Mapped, MapsFaults
      DEF Submission!PublishFails, Certain, Pending, Doubt, Sent, InCase
    <2> QED
      BY <2>7 DEF Submission!HandlerStep
  <1> QED
    BY <1>3, <1>4 DEF Publish

\* Nothing happens.
LEMMA MapsUnchanged ==
    ASSUME UNCHANGED vars
    PROVE  UNCHANGED Submission!vars
  <1>1. UNCHANGED <<stage, error, cancelled, file, row, unremoved>> /\ Unclear' = Unclear
    BY DEF vars, Unclear
  <1>2. Handler' = Handler /\ Answered' = Answered /\ Cause' = Cause
    BY <1>1 DEF Handler, Answered, Cause
  <1>3. Certain' = Certain /\ Pending' = Pending /\ Doubt' = Doubt /\ Sent' = Sent
    BY <1>1 DEF Certain, Pending, Doubt, Sent
  <1> QED
    BY <1>1, <1>2, <1>3, MappedStutter

\* Every step is a step of JobSubmission or none.
LEMMA UploadMapsNext == UploadInv /\ [Next]_vars => [Submission!Next]_(Submission!vars)
  <1> SUFFICES ASSUME UploadInv, [Next]_vars
               PROVE  Submission!RequestStep(Request) \/ UNCHANGED Submission!vars
    BY Mapped DEF Submission!Next
  <1>1. Submission!HandlerStep(Request) \/ Submission!Cancel(Request) => Submission!RequestStep(Request)
    BY DEF Submission!RequestStep
  <1> QED
    BY <1>1, MapsEarly, MapsPut, MapsCreate, MapsPublish, MapsCleaned, MapsAnswer, MapsCancel,
       MapsUnchanged
    DEF Next

\* What errors.Is and errors.As tell of one upload is what JobSubmission takes
\* for granted of every request.
THEOREM UploadsAreSubmissions == Spec => ImplementsSubmission
  BY UploadMapsInit, UploadMapsNext, UploadSafety, PTL
  DEF Spec, ImplementsSubmission, Submission!Spec

-----------------------------------------------------------------------------
(* The copy of one content into its file, BoundedUpload.                    *)

\* A read hands out at most the byte that shows the content to be too long.
LEMMA ReadStep ==
    ASSUME BoundInv, NEW n \in 0 .. Room, NEW err \in {"nil", "eof", "error"}, Read(n, err)
    PROVE  BoundInv'
  <1>1. /\ step = "copy" /\ n \in Nat /\ n <= left /\ n <= remaining + 1
        /\ err = "eof" => n = left
        /\ left' = left - n /\ remaining' = remaining - n /\ stored' = stored + n
        /\ size' = size
    BY BoundedAssumption DEF Read, Room, BoundInv, CopyTypeOK
  <1>2. /\ left \in Nat /\ stored \in Nat /\ size \in Nat /\ remaining \in Int
        /\ left + stored = size /\ remaining = MaxUploadBytes - stored
        /\ remaining >= 0 /\ size > 0
    BY <1>1 DEF BoundInv, CopyTypeOK
  <1>3. CASE remaining - n < 0
    <2>1. step' = "large"
      BY <1>3 DEF Read, Outcome
    <2> QED
      BY <1>1, <1>2, <1>3, <2>1, BoundedAssumption
      DEF BoundInv, CopyTypeOK, Ends, StoredIsWholeAndBounded, LargeIsTooLarge
  <1>4. CASE ~(remaining - n < 0)
    <2>1. step' = IF err = "nil" THEN "copy" ELSE IF err = "eof" THEN "commit" ELSE "error"
      BY <1>4 DEF Read, Outcome
    <2> QED
      BY <1>1, <1>2, <1>4, <2>1, BoundedAssumption
      DEF BoundInv, CopyTypeOK, Ends, StoredIsWholeAndBounded, LargeIsTooLarge
  <1> QED
    BY <1>3, <1>4

\* Every step keeps the counters together.
LEMMA BoundNext ==
    ASSUME BoundInv, [CopyNext]_copyVars
    PROVE  BoundInv'
  <1> USE BoundedAssumption DEF BoundInv, CopyTypeOK, Ends, StoredIsWholeAndBounded, LargeIsTooLarge
  <1>1. CASE Peek
    BY <1>1 DEF Peek, Goto
  <1>2. CASE Fails
    BY <1>2 DEF Fails, Goto
  <1>3. CASE Commit
    BY <1>3 DEF Commit, Goto
  <1>4. ASSUME NEW n \in 0 .. Room, NEW err \in {"nil", "eof", "error"}, Read(n, err)
        PROVE  BoundInv'
    BY <1>4, ReadStep
  <1>5. CASE UNCHANGED copyVars
    BY <1>5 DEF copyVars
  <1> QED
    BY <1>1, <1>2, <1>3, <1>4, <1>5 DEF CopyNext

\* The inductive invariant of boundedReader and the copy loop.
THEOREM BoundedSafety == CopySpec => []BoundInv
  <1>1. CopyInit => BoundInv
    BY BoundedAssumption
    DEF CopyInit, BoundInv, CopyTypeOK, Ends, StoredIsWholeAndBounded, LargeIsTooLarge
  <1> QED
    BY <1>1, BoundNext, PTL DEF CopySpec

\* A limit is a limit to the byte: what is put in place is the whole content and
\* within it (boundedReader and the commit of LocalStorage.Put).
THEOREM LimitIsExact == CopySpec => []StoredIsWholeAndBounded
  <1>1. BoundInv => StoredIsWholeAndBounded
    BY DEF BoundInv
  <1> QED
    BY <1>1, BoundedSafety, PTL

\* What is refused is over the limit, and nobody reads on once that is known.
THEOREM RefusedIsTooLarge == CopySpec => [](LargeIsTooLarge /\ ReadsAreBounded)
  <1>1. BoundInv => LargeIsTooLarge /\ ReadsAreBounded
    BY BoundedAssumption DEF BoundInv, CopyTypeOK, ReadsAreBounded
  <1> QED
    BY <1>1, BoundedSafety, PTL
=============================================================================
