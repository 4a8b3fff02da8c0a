------------------------- MODULE LogAnalysisProofs --------------------------
(***************************************************************************)
(* For every input, buffer size and limit on a line: readLine keeps its    *)
(* limit, and the report is the reference's. The argument has two levels.  *)
(* LineInv is about readLine: what it has gathered is the beginning of one *)
(* line. CountInv is about Analyze: what was counted is what the reference *)
(* counts in the lines before that one, none of which is bad.              *)
(***************************************************************************)
EXTENDS LogAnalysis, FiniteSetTheorems, WellFoundedInduction, TLAPS

\* What has been gathered lies between the last line and the reader's position.
LineInv ==
    /\ data \in Seq(Bytes)
    /\ pos \in 0 .. Len(data)
    /\ line \in 0 .. pos
    /\ LineIsBounded

LEMMA LineInit == Init => LineInv
  <1> SUFFICES ASSUME Init
               PROVE  LineInv
    OBVIOUS
  <1>1. PICK n \in 0 .. MaxInput : data \in [1 .. n -> Bytes]
    BY DEF Init
  <1>2. data \in Seq(Bytes)
    BY <1>1, AnalysisAssumption
  <1> QED
    BY <1>2, AnalysisAssumption DEF Init, LineInv, LineIsBounded

\* What ReadSlice returns, in terms of the input: no newline before the last byte.
LEMMA SliceIs ==
    ASSUME LineInv, NEW s \in Slices
    PROVE  /\ s[1] \in pos .. Len(data)
           /\ \A i \in pos + 1 .. s[1] - 1 : i \notin Newlines
           /\ s[2] = "newline" => s[1] > pos /\ s[1] \in Newlines
           /\ s[2] = "eof" => s[1] = Len(data)
           /\ s[2] # "newline" => s[1] \notin Newlines \/ s[1] = pos
           /\ s[2] \in {"newline", "full", "eof"}
  <1> DEFINE end == IF Len(data) < pos + BufferSize THEN Len(data) ELSE pos + BufferSize
             window == pos + 1 .. end
             newlines == {i \in window : data[i] = "newline"}
  <1>1. end \in pos .. Len(data) /\ pos \in Nat /\ Len(data) \in Nat
    BY AnalysisAssumption DEF LineInv
  <1>2. \A i \in window : i \in newlines <=> i \in Newlines
    BY <1>1 DEF Newlines
  <1>3. CASE newlines # {}
    <2>1. PICK i \in newlines : s = <<i, "newline">> /\ \A j \in newlines : i <= j
      BY <1>3 DEF Slices
    <2>2. s[1] = i /\ s[2] = "newline" /\ i \in pos + 1 .. end
      BY <2>1
    <2>3. \A k \in pos + 1 .. i - 1 : k \notin Newlines
      BY <1>1, <1>2, <2>1, <2>2
    <2> QED
      BY <1>1, <1>2, <2>1, <2>2, <2>3
  <1>4. CASE newlines = {}
    <2>1. s[2] \in {"full", "eof"} /\ (s[2] = "eof" => s[1] = Len(data))
      BY <1>4 DEF Slices
    <2>2. s[1] = pos + Cardinality(window)
      BY <1>4 DEF Slices
    <2>3. Cardinality(window) = end - pos
      <3> HIDE DEF end
      <3>1. pos + 1 \in Int /\ end \in Int
        BY <1>1
      <3>2. Cardinality(window) = IF pos + 1 > end THEN 0 ELSE end - (pos + 1) + 1
        BY ONLY <3>1, FS_Interval
      <3> QED
        BY <1>1, <3>2
    <2> HIDE DEF end
    <2>4. s[1] = end
      BY <1>1, <2>2, <2>3
    <2>5. \A i \in pos + 1 .. end : i \notin Newlines
      BY <1>2, <1>4
    <2> QED
      BY <1>1, <2>1, <2>4, <2>5
  <1> QED
    BY <1>3, <1>4

\* A turn of the loops ends Analyze, starts a new line, or appends to this one.
LEMMA TurnKeepsLimit == LineInv /\ Next => LineInv'
  <1> SUFFICES ASSUME LineInv, Next
               PROVE  LineInv'
    OBVIOUS
  <1>1. PICK s \in Slices :
            \/ TooLong(s[1]) /\ End("too long", lineNumber)
            \/ ~TooLong(s[1]) /\ EndsLine(s[1], s[2]) /\ Count(s[1])
            \/ /\ ~TooLong(s[1]) /\ ~EndsLine(s[1], s[2]) /\ s[2] = "full"
               /\ line' = line + (s[1] - pos)
               /\ pos' = s[1]
               /\ UNCHANGED <<data, lineNumber, total, errors, outcome>>
            \/ ~TooLong(s[1]) /\ ~EndsLine(s[1], s[2]) /\ s[2] = "eof" /\ End("ok", 0)
    BY Zenon DEF Next
  <1>2. CASE UNCHANGED <<data, pos, line>>
    BY <1>2 DEF LineInv, LineIsBounded
  <1>3. CASE data' = data /\ pos' = s[1] /\ line' = 0 /\ EndsLine(s[1], s[2])
    <2>1. s[1] \in pos .. Len(data)
      BY SliceIs
    <2> QED
      BY <1>3, <2>1, AnalysisAssumption DEF LineInv, LineIsBounded
  <1>4. CASE /\ s[2] = "full" /\ ~TooLong(s[1])
             /\ line' = line + (s[1] - pos) /\ pos' = s[1] /\ data' = data
    <2>1. /\ s[1] \in pos .. Len(data)
          /\ \A i \in pos + 1 .. s[1] : data[i] # "newline"
      <3>1. /\ s[1] \in pos .. Len(data)
            /\ \A i \in pos + 1 .. s[1] - 1 : i \notin Newlines
            /\ s[1] \notin Newlines \/ s[1] = pos
        BY <1>4, SliceIs
      <3>2. \A i \in pos + 1 .. s[1] : i \notin Newlines /\ i \in 1 .. Len(data)
        BY <3>1 DEF LineInv
      <3> QED
        BY <3>1, <3>2 DEF Newlines
    <2>2. /\ line' \in 0 .. pos' /\ line' <= MaxLine
          /\ pos' - line' + 1 = pos - line + 1
      BY <1>4, <2>1, AnalysisAssumption DEF LineInv, TooLong
    <2>3. \A i \in pos - line + 1 .. s[1] : data[i] # "newline"
      BY <2>1 DEF LineInv, LineIsBounded
    <2> QED
      BY <1>4, <2>1, <2>2, <2>3 DEF LineInv, LineIsBounded
  <1> QED
    BY <1>1, <1>2, <1>3, <1>4 DEF End, Count

\* However the input falls into buffers, readLine never gathers more than the
\* limit, and never beyond the end of a line.
THEOREM LinesAreBounded == Spec => []LineIsBounded
  <1>1. LineInv /\ [Next \/ Interrupted]_vars => LineInv'
    BY TurnKeepsLimit DEF LineInv, LineIsBounded, Interrupted, End, vars
  <1>2. LineInv => LineIsBounded
    BY DEF LineInv
  <1> QED
    BY <1>1, <1>2, LineInit, PTL DEF Spec

-----------------------------------------------------------------------------
(* The report: what was counted is what the reference counts in the lines  *)
(* before the one being gathered.                                          *)

\* Every set of natural numbers that is not empty has a least one.
LEMMA Least ==
    ASSUME NEW S, S \subseteq Nat, S # {}
    PROVE  \E x \in S : \A y \in S : x <= y
  <1> DEFINE R == OpToRel(<, Nat)
  <1>1. IsWellFoundedOn(R, Nat)
    BY NatLessThanWellFounded
  <1>2. \A i, j \in Nat : <<i, j>> \in R <=> i < j
    BY DEF OpToRel
  <1> HIDE DEF R
  <1>3. PICK x \in S : \A y \in S : <<y, x>> \notin R
    BY <1>1, WFMin
  <1>4. ASSUME NEW y \in S
        PROVE  x <= y
    <2>1. x \in Nat /\ y \in Nat /\ ~(y < x)
      BY <1>2, <1>3
    <2> QED
      BY <2>1
  <1> QED
    BY <1>4

\* Where the line being gathered starts.
Start == pos - line + 1

\* The reference, cut off before position i.
BadBefore(i) == {s \in Bad : s < i}
EntriesBefore(i, kinds) == {s \in Starts : s < i /\ Entry(s, Last(s)) \in kinds}

\* While Analyze runs, it has counted the entries of the lines before the one it
\* gathers, none of which was bad.
CountInv ==
    /\ lineNumber \in Nat /\ total \in Nat /\ errors \in Nat
    /\ Start <= Len(data) => Start \in Starts /\ lineNumber = Number(Start)
    /\ BadBefore(Start) = {}
    /\ total = Cardinality(EntriesBefore(Start, {"a", "b"}))
    /\ errors = Cardinality(EntriesBefore(Start, {"b"}))

\* The inductive invariant of the report.
ReportInv ==
    /\ LineInv
    /\ outcome = Running => CountInv
    /\ ReportIsExact

\* The reference depends on the input alone.
LEMMA ReferenceStays ==
    ASSUME data' = data
    PROVE  /\ Newlines' = Newlines /\ Starts' = Starts /\ Bad' = Bad
           /\ \A i : BadBefore(i)' = BadBefore(i)
           /\ \A i, kinds : EntriesBefore(i, kinds)' = EntriesBefore(i, kinds)
           /\ \A s : Number(s)' = Number(s)
           /\ \A s : Oversized(s)' = Oversized(s)
           /\ \A kinds : Entries(kinds)' = Entries(kinds)
  <1>1. Newlines' = Newlines
    BY DEF Newlines
  <1>2. Starts' = Starts
    BY <1>1 DEF Starts
  <1>3. \A s : Last(s)' = Last(s)
    BY <1>1 DEF Last
  <1>4. \A s, e : Entry(s, e)' = Entry(s, e)
    BY <1>1 DEF Entry
  <1>5. \A s : Oversized(s)' = Oversized(s)
    BY <1>3 DEF Oversized
  <1>6. Bad' = Bad
    BY <1>2, <1>3, <1>4, <1>5 DEF Bad
  <1>7. \A i, kinds : EntriesBefore(i, kinds)' = EntriesBefore(i, kinds)
    BY <1>2, <1>3, <1>4 DEF EntriesBefore
  <1>8. \A s : Number(s)' = Number(s)
    BY <1>1 DEF Number
  <1>9. \A kinds : Entries(kinds)' = Entries(kinds)
    BY <1>2, <1>3, <1>4 DEF Entries
  <1> QED
    BY <1>1, <1>2, <1>5, <1>6, <1>7, <1>8, <1>9 DEF BadBefore

\* Every line has an end.
LEMMA LastExists ==
    ASSUME data \in Seq(Bytes), NEW first \in 1 .. Len(data)
    PROVE  /\ Last(first) \in first .. Len(data)
           /\ Last(first) \in Newlines \/ Last(first) = Len(data)
           /\ \A j \in first .. Last(first) - 1 : j \notin Newlines
  <1> DEFINE ends == {i \in first .. Len(data) : i \in Newlines \/ i = Len(data)}
  <1>1. ends \subseteq Nat /\ Len(data) \in ends
    OBVIOUS
  <1>2. PICK e \in ends : \A y \in ends : e <= y
    <2> HIDE DEF ends
    <2> QED
      BY <1>1, Least
  <1>3. e \in first .. Len(data) /\ (e \in Newlines \/ e = Len(data))
    BY <1>2
  <1>4. \A j \in first .. e - 1 : j \notin Newlines
    BY <1>2, <1>3
  <1> QED
    BY <1>3, <1>4 DEF Last

\* And only one.
LEMMA LastIs ==
    ASSUME data \in Seq(Bytes), NEW first \in 1 .. Len(data), NEW e \in first .. Len(data),
           e \in Newlines \/ e = Len(data), \A j \in first .. e - 1 : j \notin Newlines
    PROVE  Last(first) = e
  <1>1. /\ Last(first) \in first .. Len(data)
        /\ Last(first) \in Newlines \/ Last(first) = Len(data)
        /\ \A j \in first .. Last(first) - 1 : j \notin Newlines
    BY LastExists
  <1>2. ~(Last(first) < e)
    BY <1>1
  <1>3. ~(e < Last(first))
    BY <1>1
  <1> QED
    BY <1>1, <1>2, <1>3

\* A slice that leaves the line open, or ends it: there is no newline before its
\* last byte, and no bad line before this one.
LEMMA LineInHand ==
    ASSUME LineInv, CountInv, NEW s \in Slices, line + (s[1] - pos) > 0
    PROVE  /\ Start \in Starts /\ Start \in 1 .. s[1] /\ s[1] \in Start .. Len(data)
           /\ \A j \in Start .. s[1] - 1 : j \notin Newlines
           /\ lineNumber = Number(Start)
           /\ \A t \in Bad : Start <= t
  <1>1. /\ pos \in Nat /\ line \in 0 .. pos /\ s[1] \in pos .. Len(data) /\ Len(data) \in Nat
        /\ \A i \in pos + 1 .. s[1] - 1 : i \notin Newlines
    BY SliceIs DEF LineInv
  <1>2. /\ Start \in 1 .. s[1] /\ s[1] \in Start .. Len(data)
    BY <1>1 DEF Start
  <1>3. \A j \in Start .. pos : j \notin Newlines
    BY DEF LineInv, LineIsBounded, Start, Newlines
  <1>4. \A j \in Start .. s[1] - 1 : j \notin Newlines
    BY <1>1, <1>2, <1>3
  <1>5. Start \in Starts /\ lineNumber = Number(Start)
    BY <1>2 DEF CountInv
  <1>6. ASSUME NEW t \in Bad
        PROVE  Start <= t
    <2>1. t \in Nat /\ Start \in Nat
      BY <1>2 DEF Bad, Starts
    <2>2. ~(t < Start)
      BY <1>6 DEF CountInv, BadBefore
    <2> QED
      BY <2>1, <2>2
  <1> QED
    BY <1>2, <1>4, <1>5, <1>6

\* A line is refused when what was read of it is too long, before its end is seen.
LEMMA TooLongIsOversized ==
    ASSUME LineInv, CountInv, NEW s \in Slices, TooLong(s[1])
    PROVE  Start \in Bad /\ Oversized(Start) /\ lineNumber = Number(Start)
           /\ \A t \in Bad : Start <= t
  <1>1. /\ pos \in Nat /\ line \in 0 .. pos /\ s[1] \in pos .. Len(data) /\ Len(data) \in Nat
        /\ data \in Seq(Bytes)
    BY SliceIs DEF LineInv
  <1>2. line + (s[1] - pos) > MaxLine /\ MaxLine > 0
    BY AnalysisAssumption DEF TooLong
  <1>3. line + (s[1] - pos) > 0
    BY <1>1, <1>2, AnalysisAssumption
  <1>4. /\ Start \in Starts /\ Start \in 1 .. s[1] /\ s[1] \in Start .. Len(data)
        /\ \A j \in Start .. s[1] - 1 : j \notin Newlines
        /\ lineNumber = Number(Start)
        /\ \A t \in Bad : Start <= t
    BY <1>3, LineInHand
  <1>5. /\ Last(Start) \in Start .. Len(data)
        /\ Last(Start) \in Newlines \/ Last(Start) = Len(data)
    BY <1>1, <1>4, LastExists
  <1>6. Last(Start) >= s[1]
    BY <1>1, <1>4, <1>5
  <1>7. Last(Start) - Start + 1 > MaxLine
    BY <1>1, <1>2, <1>5, <1>6, AnalysisAssumption DEF Start
  <1> QED
    BY <1>4, <1>7 DEF Oversized, Bad

\* A line that ends with this slice is the reference's line from Start.
LEMMA LineIsWhole ==
    ASSUME LineInv, CountInv, NEW s \in Slices, EndsLine(s[1], s[2])
    PROVE  /\ Start \in Starts /\ s[1] \in Start .. Len(data) /\ Start \in 1 .. s[1]
           /\ Last(Start) = s[1]
           /\ \A j \in Start .. s[1] - 1 : j \notin Newlines
           /\ s[1] \in Newlines \/ s[1] = Len(data)
           /\ lineNumber = Number(Start)
           /\ \A t \in Bad : Start <= t
  <1>1. /\ pos \in Nat /\ line \in 0 .. pos /\ s[1] \in pos .. Len(data) /\ Len(data) \in Nat
        /\ data \in Seq(Bytes)
    BY SliceIs DEF LineInv
  <1>2. line + (s[1] - pos) > 0
    BY <1>1, SliceIs DEF EndsLine
  <1>3. s[1] \in Newlines \/ s[1] = Len(data)
    BY SliceIs DEF EndsLine
  <1>4. /\ Start \in Starts /\ Start \in 1 .. s[1] /\ s[1] \in Start .. Len(data)
        /\ \A j \in Start .. s[1] - 1 : j \notin Newlines
        /\ lineNumber = Number(Start)
        /\ \A t \in Bad : Start <= t
    BY <1>2, LineInHand
  <1>5. Start \in 1 .. Len(data)
    BY <1>1, <1>4
  <1>6. Last(Start) = s[1]
    BY <1>1, <1>3, <1>4, <1>5, LastIs
  <1> QED
    BY <1>3, <1>4, <1>6

\* The first bad line is the one the reference names.
LEMMA FirstBad ==
    ASSUME NEW first \in Bad, Bad \subseteq Nat, \A t \in Bad : first <= t
    PROVE  (CHOOSE s \in Bad : \A t \in Bad : s <= t) = first
  <1> DEFINE least == CHOOSE s \in Bad : \A t \in Bad : s <= t
  <1>1. least \in Bad /\ \A t \in Bad : least <= t
    OBVIOUS
  <1> HIDE DEF least
  <1>2. least \in Nat /\ first \in Nat /\ least <= first /\ first <= least
    BY <1>1
  <1>3. least = first
    BY <1>2
  <1> QED
    BY <1>3 DEF least

\* A line that is neither too long nor invalid moves the reference one line on.
LEMMA CountKeepsReport ==
    ASSUME LineInv, CountInv, NEW s \in Slices, EndsLine(s[1], s[2]), ~TooLong(s[1]),
           Entry(Start, s[1]) # "invalid", Count(s[1])
    PROVE  CountInv'
  <1> DEFINE e == s[1]
  <1>1. /\ Start \in Starts /\ e \in Start .. Len(data) /\ Start \in 1 .. e
        /\ Last(Start) = e
        /\ \A j \in Start .. e - 1 : j \notin Newlines
        /\ e \in Newlines \/ e = Len(data)
        /\ lineNumber = Number(Start)
    BY LineIsWhole
  <1>2. /\ pos \in Nat /\ line \in 0 .. pos /\ Len(data) \in Nat /\ data \in Seq(Bytes)
    BY DEF LineInv
  <1>3. /\ total' = total + IF Entry(Start, e) = "blank" THEN 0 ELSE 1
        /\ errors' = errors + IF Entry(Start, e) = "b" THEN 1 ELSE 0
        /\ pos' = e /\ line' = 0 /\ lineNumber' = lineNumber + 1 /\ data' = data
    BY Zenon DEF Count, Start, End
  <1>4. Start' = e + 1
    BY <1>1, <1>3 DEF Start
  <1>5. Starts \subseteq 1 .. Len(data) /\ Newlines \subseteq 1 .. Len(data)
    BY DEF Starts, Newlines
  <1>6. \A t \in Starts : t < e + 1 <=> t < Start \/ t = Start
    <2> SUFFICES ASSUME NEW t \in Starts, t > Start
                 PROVE  t > e
      BY <1>1, <1>2, <1>5
    <2>1. t - 1 \in Newlines
      BY <1>1, <1>5 DEF Starts
    <2> QED
      BY <1>1, <1>2, <1>5, <2>1
  <1>7. ~Oversized(Start)
    BY <1>1, <1>2, AnalysisAssumption DEF Oversized, TooLong, Start
  <1>8. BadBefore(e + 1) = {}
    BY <1>1, <1>6, <1>7 DEF BadBefore, Bad, CountInv
  <1>9. \A kinds : EntriesBefore(e + 1, kinds) =
            IF Entry(Start, e) \in kinds THEN EntriesBefore(Start, kinds) \union {Start}
            ELSE EntriesBefore(Start, kinds)
    BY <1>1, <1>6 DEF EntriesBefore
  <1>10. \A kinds : Start \notin EntriesBefore(Start, kinds) /\ IsFiniteSet(EntriesBefore(Start, kinds))
    <2> SUFFICES ASSUME NEW kinds
                 PROVE  IsFiniteSet(EntriesBefore(Start, kinds))
      <3>1. Start \in Nat
        BY <1>1
      <3> QED
        BY <3>1 DEF EntriesBefore
    <2>1. IsFiniteSet(1 .. Len(data))
      BY <1>2, FS_Interval
    <2>2. EntriesBefore(Start, kinds) \subseteq 1 .. Len(data)
      BY <1>5 DEF EntriesBefore
    <2> QED
      BY <2>1, <2>2, FS_Subset
  <1>11. Entry(Start, e) \in {"blank", "a", "b"}
    <2> DEFINE word == {i \in Start .. e : data[i] \in {"a", "b"}}
               one == CHOOSE i \in word : TRUE
    <2>1. word # {} => one \in word
      OBVIOUS
    <2>2. Entry(Start, e) \in {"blank", data[one]}
      BY DEF Entry
    <2>3. word = {} => Entry(Start, e) = "blank"
      BY DEF Entry
    <2> QED
      BY <2>1, <2>2, <2>3
  <1> HIDE DEF e
  <1>12. \A kinds : Cardinality(EntriesBefore(e + 1, kinds)) =
            Cardinality(EntriesBefore(Start, kinds)) + IF Entry(Start, e) \in kinds THEN 1 ELSE 0
    <2> SUFFICES ASSUME NEW kinds
                 PROVE  Cardinality(EntriesBefore(e + 1, kinds)) =
            Cardinality(EntriesBefore(Start, kinds)) + IF Entry(Start, e) \in kinds THEN 1 ELSE 0
      OBVIOUS
    <2>1. Cardinality(EntriesBefore(Start, kinds)) \in Nat
      BY <1>10, FS_CardinalityType
    <2>2. Cardinality(EntriesBefore(Start, kinds) \union {Start}) =
                Cardinality(EntriesBefore(Start, kinds)) + 1
      BY <1>10, FS_AddElement
    <2> QED
      BY <1>9, <2>1, <2>2
  <1>13. total' = Cardinality(EntriesBefore(e + 1, {"a", "b"}))
    BY <1>3, <1>11, <1>12 DEF CountInv
  <1>14. errors' = Cardinality(EntriesBefore(e + 1, {"b"}))
    BY <1>3, <1>11, <1>12 DEF CountInv
  <1>15. e + 1 <= Len(data) => e + 1 \in Starts /\ lineNumber + 1 = Number(e + 1)
    <2> SUFFICES ASSUME e + 1 <= Len(data)
                 PROVE  e + 1 \in Starts /\ lineNumber + 1 = Number(e + 1)
      OBVIOUS
    <2> DEFINE N == {i \in Newlines : i < Start}
    <2>1. e \in Newlines /\ e \in Nat
      BY <1>1, <1>2, <1>5
    <2>2. e + 1 \in Starts
      BY <1>2, <2>1 DEF Starts
    <2>3. {i \in Newlines : i < e + 1} = N \union {e} /\ e \notin N
      <3>1. /\ Start \in Nat /\ Start <= e
            /\ \A i \in Newlines : i \in Nat /\ ~(i \in Start .. e - 1)
        BY <1>1, <1>5
      <3>2. \A i \in Newlines : i < e + 1 <=> i < Start \/ i = e
        BY <2>1, <3>1
      <3>3. e \notin N
        BY <3>1
      <3>4. {i \in Newlines : i < e + 1} = N \union {e}
        BY <2>1, <3>2
      <3> QED
        BY <3>3, <3>4
    <2>4. IsFiniteSet(N)
      <3>1. IsFiniteSet(1 .. Len(data))
        BY <1>2, FS_Interval
      <3>2. N \subseteq 1 .. Len(data)
        BY <1>5
      <3> QED
        BY <3>1, <3>2, FS_Subset
    <2>5. Number(Start) = 1 + Cardinality(N)
      BY DEF Number
    <2>6. Number(e + 1) = 1 + Cardinality(N \union {e})
      BY <2>3 DEF Number
    <2> HIDE DEF N
    <2>7. Cardinality(N \union {e}) = Cardinality(N) + 1 /\ Cardinality(N) \in Nat
      BY <2>3, <2>4, FS_AddElement, FS_CardinalityType
    <2> QED
      BY <1>1, <2>2, <2>5, <2>6, <2>7
  <1>16. lineNumber' \in Nat /\ total' \in Nat /\ errors' \in Nat
    BY <1>3 DEF CountInv
  <1> QED
    BY <1>3, <1>4, <1>8, <1>13, <1>14, <1>15, <1>16, ReferenceStays DEF CountInv

\* One turn: the line is refused, counted, or gathered further, or the input ends.
LEMMA TurnKeepsReport ==
    ASSUME LineInv, CountInv, Next
    PROVE  (outcome' = Running => CountInv') /\ ReportIsExact'
  <1>1. outcome = Running
    BY DEF Next
  <1>2. PICK s \in Slices :
            \/ TooLong(s[1]) /\ End("too long", lineNumber)
            \/ ~TooLong(s[1]) /\ EndsLine(s[1], s[2]) /\ Count(s[1])
            \/ /\ ~TooLong(s[1]) /\ ~EndsLine(s[1], s[2]) /\ s[2] = "full"
               /\ line' = line + (s[1] - pos)
               /\ pos' = s[1]
               /\ UNCHANGED <<data, lineNumber, total, errors, outcome>>
            \/ ~TooLong(s[1]) /\ ~EndsLine(s[1], s[2]) /\ s[2] = "eof" /\ End("ok", 0)
    BY Zenon DEF Next
  <1>3. Bad \subseteq Nat
    BY DEF Bad, Starts
  <1>4. data' = data
    BY <1>2, Zenon DEF End, Count
  <1>5. CASE TooLong(s[1]) /\ End("too long", lineNumber)
    <2>1. /\ Start \in Bad /\ Oversized(Start) /\ lineNumber = Number(Start)
          /\ \A t \in Bad : Start <= t
      BY <1>5, TooLongIsOversized
    <2>2. (CHOOSE u \in Bad : \A t \in Bad : u <= t) = Start
      BY <1>3, <2>1, FirstBad
    <2>3. outcome' = [result |-> "too long", at |-> Number(Start)]
      BY <1>5, <2>1 DEF End
    <2>4. outcome' # Running
      BY <2>3 DEF Running
    <2> QED
      BY <1>4, <2>1, <2>2, <2>3, <2>4, ReferenceStays DEF ReportIsExact
  <1>6. CASE ~TooLong(s[1]) /\ EndsLine(s[1], s[2]) /\ Count(s[1])
    <2>1. CASE Entry(Start, s[1]) = "invalid"
      <3>1. /\ Start \in Starts /\ Last(Start) = s[1]
            /\ s[1] \in Int /\ lineNumber = Number(Start)
            /\ \A t \in Bad : Start <= t
        BY <1>6, LineIsWhole DEF LineInv
      <3>2. Start \in Bad
        BY <2>1, <3>1 DEF Bad
      <3>3. ~Oversized(Start)
        BY <1>6, <3>1, AnalysisAssumption DEF Oversized, TooLong, Start, LineInv
      <3>4. (CHOOSE u \in Bad : \A t \in Bad : u <= t) = Start
        BY <1>3, <3>1, <3>2, FirstBad
      <3>5. outcome' = [result |-> "invalid", at |-> Number(Start)]
        BY <1>6, <2>1, <3>1 DEF Count, End, Start
      <3>6. outcome' # Running
        BY <3>5 DEF Running
      <3> QED
        BY <1>4, <3>2, <3>3, <3>4, <3>5, <3>6, ReferenceStays DEF ReportIsExact
    <2>2. CASE Entry(Start, s[1]) # "invalid"
      <3>1. CountInv'
        BY <1>6, <2>2, CountKeepsReport
      <3>2. outcome' = outcome
        BY <1>6, <2>2 DEF Count, Start
      <3> QED
        BY <1>1, <3>1, <3>2 DEF ReportIsExact
    <2> QED
      BY <2>1, <2>2
  <1>7. CASE /\ s[2] = "full" /\ line' = line + (s[1] - pos) /\ pos' = s[1]
             /\ UNCHANGED <<data, lineNumber, total, errors, outcome>>
    <2>1. Start' = Start
      BY <1>7, SliceIs DEF Start, LineInv
    <2> QED
      BY <1>1, <1>7, <2>1, ReferenceStays DEF CountInv, ReportIsExact
  <1>8. CASE ~TooLong(s[1]) /\ ~EndsLine(s[1], s[2]) /\ s[2] = "eof" /\ End("ok", 0)
    <2>1. s[1] = Len(data) /\ line + (s[1] - pos) <= 0
      BY <1>8, SliceIs DEF EndsLine, LineInv
    <2>2. Start = Len(data) + 1 /\ Len(data) \in Nat
      BY <2>1, SliceIs DEF LineInv, Start
    <2>3. \A t \in Starts : t < Start
      BY <2>2 DEF Starts
    <2>4. Bad = {}
      BY <2>3 DEF Bad, CountInv, BadBefore
    <2>5. \A kinds : Entries(kinds) = Cardinality(EntriesBefore(Start, kinds))
      <3> SUFFICES ASSUME NEW kinds
                   PROVE  {t \in Starts : Entry(t, Last(t)) \in kinds} = EntriesBefore(Start, kinds)
        BY DEF Entries
      <3> QED
        BY <2>3 DEF EntriesBefore
    <2>6. outcome' = [result |-> "ok", at |-> 0] /\ UNCHANGED <<total, errors>>
      BY <1>8 DEF End
    <2>7. outcome' # Running /\ outcome'.result = "ok"
      BY <2>6 DEF Running
    <2>8. total = Entries({"a", "b"}) /\ errors = Entries({"b"})
      BY <2>5 DEF CountInv
    <2>9. Bad' = {} /\ \A kinds : Entries(kinds)' = Entries(kinds)
      BY <1>4, <2>4, ReferenceStays
    <2>10. total' = Entries({"a", "b"})' /\ errors' = Entries({"b"})'
      BY <2>6, <2>8, <2>9
    <2> QED
      BY <2>7, <2>9, <2>10 DEF ReportIsExact
  <1> QED
    BY <1>2, <1>5, <1>6, <1>7, <1>8

LEMMA CountInit == Init => CountInv
  <1> SUFFICES ASSUME Init
               PROVE  CountInv
    OBVIOUS
  <1>1. LineInv
    BY LineInit
  <1>2. /\ Start = 1 /\ lineNumber = 1 /\ total = 0 /\ errors = 0
        /\ Len(data) \in Nat
    BY <1>1 DEF Init, Start, LineInv
  <1>3. 1 <= Len(data) => 1 \in Starts
    BY <1>2 DEF Starts
  <1>4. Number(1) = 1
    <2>1. {i \in Newlines : i < 1} = {}
      BY <1>2 DEF Newlines
    <2> QED
      BY <2>1, FS_EmptySet DEF Number
  <1>5. BadBefore(1) = {} /\ \A kinds : EntriesBefore(1, kinds) = {}
    BY <1>2 DEF BadBefore, Bad, EntriesBefore, Starts
  <1> QED
    BY <1>2, <1>3, <1>4, <1>5, FS_EmptySet DEF CountInv

\* For every input, buffer size and limit on a line: Analyze ends with the right
\* counts, or with the first bad line and what is wrong with it.
THEOREM ReportsAreExact == Spec => []ReportIsExact
  <1>1. Init => ReportInv
    BY LineInit, CountInit DEF Init, ReportInv, ReportIsExact
  <1>2. ReportInv /\ [Next \/ Interrupted]_vars => ReportInv'
    <2> SUFFICES ASSUME ReportInv, [Next \/ Interrupted]_vars
                 PROVE  ReportInv'
      OBVIOUS
    <2>1. LineInv'
      BY TurnKeepsLimit DEF ReportInv, LineInv, LineIsBounded, Interrupted, End, vars
    <2>2. CASE Next
      BY <2>1, <2>2, TurnKeepsReport DEF ReportInv, Next
    <2>3. CASE Interrupted
      <3>1. outcome'.result = "interrupted"
        BY <2>3 DEF Interrupted, End
      <3>2. outcome' # Running
        BY <3>1 DEF Running
      <3> QED
        BY <2>1, <3>1, <3>2 DEF ReportInv, ReportIsExact
    <2>4. CASE UNCHANGED vars
      BY <2>1, <2>4, ReferenceStays DEF ReportInv, vars, CountInv, Start, ReportIsExact
    <2> QED
      BY <2>2, <2>3, <2>4
  <1>3. ReportInv => ReportIsExact
    BY DEF ReportInv
  <1> QED
    BY <1>1, <1>2, <1>3, PTL DEF Spec
=============================================================================
