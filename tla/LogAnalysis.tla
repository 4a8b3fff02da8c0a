---------------------------- MODULE LogAnalysis -----------------------------
(***************************************************************************)
(* loganalysis.Analyzer: Analyze over readLine over a bufio.Reader. A line *)
(* is put together from fragments no longer than the reader's buffer, its  *)
(* length is limited, and its entry is counted. The reference definition   *)
(* below says what should come out, without fragments and buffers.         *)
(*                                                                         *)
(* Bytes are a newline, white space, or a byte that alone (with white      *)
(* space around it) makes an entry: "a" with a status below 400, "b" with  *)
(* one from 400 on. Two such bytes in a line are no entry.                 *)
(***************************************************************************)
EXTENDS Integers, Sequences, FiniteSets

CONSTANTS
    BufferSize,         \* readerBufferSize
    MaxLine,            \* maxLineSize
    MaxInput            \* bound on the inputs

ASSUME AnalysisAssumption ==
    /\ BufferSize \in Nat \ {0}
    /\ MaxLine \in Nat \ {0}
    /\ MaxInput \in Nat

Bytes == {"newline", "space", "a", "b"}

VARIABLES
    data,               \* the input
    pos,                \* how much of it ReadSlice has returned
    line,               \* how long the line gathered so far is
    lineNumber,
    total,              \* TotalRequests
    errors,             \* ErrorRequests
    outcome             \* how Analyze ended, and at which line it gave up

vars == <<data, pos, line, lineNumber, total, errors, outcome>>

Running == [result |-> "running", at |-> 0]

Init ==
    /\ data \in UNION {[1 .. n -> Bytes] : n \in 0 .. MaxInput}
    /\ pos = 0
    /\ line = 0
    /\ lineNumber = 1
    /\ total = 0
    /\ errors = 0
    /\ outcome = Running

\* parseLine of the bytes from first to last.
Entry(first, last) ==
    LET word == {i \in first .. last : data[i] \in {"a", "b"}}
    IN  IF word = {} THEN "blank"
        ELSE IF Cardinality(word) > 1 THEN "invalid"
        ELSE data[CHOOSE i \in word : TRUE]

End(result, at) ==
    /\ outcome' = [result |-> result, at |-> at]
    /\ UNCHANGED <<data, pos, line, lineNumber, total, errors>>

\* What ReadSlice may return next: the position after it and why it stopped. A
\* full buffer and the end of the input may coincide.
Slices ==
    LET window == pos + 1 .. IF Len(data) < pos + BufferSize THEN Len(data) ELSE pos + BufferSize
        newlines == {i \in window : data[i] = "newline"}
    IN  IF newlines # {}
        THEN {<<i, "newline">> : i \in {k \in newlines : \A j \in newlines : k <= j}}
        ELSE {s \in {<<pos + Cardinality(window), why>> : why \in {"full", "eof"}} :
                /\ s[2] = "full" => Cardinality(window) = BufferSize
                /\ s[2] = "eof" => s[1] = Len(data)}

\* Variant: the newline is not counted against the limit.
TooLongWithoutNewline(last) == line + (last - pos) > MaxLine + 1

\* The check of readLine, before it appends the fragment that ends at last.
TooLong(last) == line + (last - pos) > MaxLine

\* Variant: a full buffer ends the line.
EndsLineWhenFull(last, why) == why # "eof" \/ line + (last - pos) > 0

\* readLine returns a line: its newline was found, or the input ends in it.
EndsLine(last, why) == why = "newline" \/ (why = "eof" /\ line + (last - pos) > 0)

\* The line that ends at last is parsed and counted.
Count(last) ==
    LET entry == Entry(pos - line + 1, last)
    IN  IF entry = "invalid"
        THEN End("invalid", lineNumber)
        ELSE /\ total' = total + IF entry = "blank" THEN 0 ELSE 1
             /\ errors' = errors + IF entry = "b" THEN 1 ELSE 0
             /\ pos' = last
             /\ line' = 0
             /\ lineNumber' = lineNumber + 1
             /\ UNCHANGED <<data, outcome>>

\* One turn of the loop of readLine and, when it returns, of Analyze's.
Next ==
    /\ outcome = Running
    /\ \E s \in Slices : LET last == s[1] IN LET why == s[2] IN
        \/ TooLong(last) /\ End("too long", lineNumber)
        \/ ~TooLong(last) /\ EndsLine(last, why) /\ Count(last)
        \/ /\ ~TooLong(last) /\ ~EndsLine(last, why) /\ why = "full"
           /\ line' = line + (last - pos)
           /\ pos' = last
           /\ UNCHANGED <<data, lineNumber, total, errors, outcome>>
        \/ ~TooLong(last) /\ ~EndsLine(last, why) /\ why = "eof" /\ End("ok", 0)

\* The context is done, or the reader errs.
Interrupted == outcome = Running /\ End("interrupted", lineNumber)

Spec == Init /\ [][Next \/ Interrupted]_vars

-----------------------------------------------------------------------------
(* The reference: the lines of the input as a whole.                       *)

Newlines == {i \in 1 .. Len(data) : data[i] = "newline"}

\* Where the lines of the input start, and where the line from first ends.
Starts == {i \in 1 .. Len(data) : i = 1 \/ i - 1 \in Newlines}

Last(first) ==
    CHOOSE i \in first .. Len(data) :
        /\ i \in Newlines \/ i = Len(data)
        /\ \A j \in first .. i - 1 : j \notin Newlines

Number(first) == 1 + Cardinality({i \in Newlines : i < first})

Oversized(first) == Last(first) - first + 1 > MaxLine

Bad == {s \in Starts : Oversized(s) \/ Entry(s, Last(s)) = "invalid"}

Entries(kinds) == Cardinality({s \in Starts : Entry(s, Last(s)) \in kinds})

\* The report is that of the reference, however the lines fall into buffers:
\* the first bad line is named and given its reason, and otherwise every entry
\* of the input is counted once (Analyze, readLine).
ReportIsExact ==
    outcome # Running /\ outcome.result # "interrupted" =>
        IF Bad = {}
        THEN /\ outcome.result = "ok"
             /\ total = Entries({"a", "b"})
             /\ errors = Entries({"b"})
        ELSE LET first == CHOOSE s \in Bad : \A t \in Bad : s <= t
             IN  outcome = [result |-> IF Oversized(first) THEN "too long" ELSE "invalid",
                            at |-> Number(first)]

\* No more than the limit is ever gathered of a line, whatever the input
\* (readLine checks before it appends), and what was gathered is one line.
LineIsBounded ==
    /\ line <= MaxLine
    /\ \A i \in pos - line + 1 .. pos : data[i] # "newline"
=============================================================================
