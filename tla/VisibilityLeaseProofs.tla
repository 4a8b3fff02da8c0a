----------------------- MODULE VisibilityLeaseProofs ------------------------
(***************************************************************************)
(* The lease is held under every configuration VisibilityConfig.Validate   *)
(* accepts, for any range of timeouts and any visibility of the queue that *)
(* covers one request; and an extension that fails is judged by all that   *)
(* is in its error, for every tree of errors.                              *)
(***************************************************************************)
EXTENDS MCVisibilityLease, WellFoundedInduction, TLAPS

\* What the integer division in Validate amounts to: room for two requests and
\* a heartbeat.
LEMMA ValidateBudget ==
    ASSUME NEW c \in Configs, Validate(c)
    PROVE  /\ c.timeout \in Nat /\ c.heartbeat \in Nat \ {0} /\ c.request \in Nat \ {0}
           /\ c.heartbeat + c.request + c.request < c.timeout
  <1>1. /\ c.timeout \in 1 .. MaxTimeout /\ c.heartbeat \in 1 .. MaxTimeout
        /\ c.request \in 1 .. MaxTimeout
    BY DEF Configs
  <1>2. c.timeout \in Nat /\ c.heartbeat \in Nat \ {0} /\ c.request \in Nat \ {0}
    BY <1>1, LeaseAssumption
  <1>3. c.request < (c.timeout - c.heartbeat) \div 2
    BY DEF Validate
  <1> QED
    BY <1>2, <1>3

\* The initial extension is sent while the queue's own timeout runs.
LEMMA LeaseInit == Init => LeaseInv
  <1> SUFFICES ASSUME Init
               PROVE  LeaseInv
    OBVIOUS
  <1>1. config \in Configs /\ Validate(config) /\ config.request < QueueVisibility
    BY DEF Init
  <1>2. config.request \in Nat \ {0} /\ config.heartbeat \in Nat \ {0}
    BY <1>1, ValidateBudget
  <1>3. ~applied /\ ~ticked /\ applied \in BOOLEAN /\ ticked \in BOOLEAN
    BY Zenon DEF Init
  <1> QED
    BY <1>1, <1>2, <1>3, LeaseAssumption
    DEF Init, LeaseInv, TypeOK, LeaseHeld, Requesting, Ended

\* Every step keeps to the budget.
LEMMA LeaseNext ==
    ASSUME LeaseInv, [Next]_vars
    PROVE  LeaseInv'
  <1> DEFINE T == config.timeout
             H == config.heartbeat
             R == config.request
  <1>1. /\ T \in Nat /\ H \in Nat \ {0} /\ R \in Nat \ {0} /\ H + R + R < T
        /\ Pace = R + H /\ config' = config
    BY ValidateBudget DEF LeaseInv, TypeOK, Pace, Next, Pass, Serve, Answer, Tick, Renew,
       Fail, Stop, vars
  <1>2. Validate(config') /\ Pace' = Pace
    BY <1>1 DEF LeaseInv, Pace
  <1> USE DEF LeaseInv, TypeOK, LeaseHeld, Requesting, Ended
  <1>3. CASE Pass
    BY <1>1, <1>2, <1>3, LeaseAssumption DEF Pass, MayPass
  <1>4. CASE Serve
    BY <1>1, <1>2, <1>4 DEF Serve
  <1>5. CASE Answer
    BY <1>1, <1>2, <1>5 DEF Answer
  <1>6. CASE Tick
    BY <1>1, <1>2, <1>6 DEF Tick
  <1>7. CASE Renew
    <2>1. ~applied' /\ ~ticked' /\ applied' \in BOOLEAN /\ ticked' \in BOOLEAN
      BY <1>7, Zenon DEF Renew
    <2>2. /\ phase = "waiting" /\ phase' = "calling" /\ age' = 0
          /\ left' = left /\ due' = due
      BY <1>7 DEF Renew
    <2>3. left >= T - age /\ age <= Pace /\ due <= H /\ age \in Nat /\ left \in Int
      <3>1. CASE ticked
        BY <1>1, <2>2, <3>1 DEF TypeOK
      <3> QED
        BY <1>7, <3>1 DEF Renew
    <2> QED
      BY <1>1, <1>2, <2>1, <2>2, <2>3
  <1>8. CASE Fail \/ Stop
    BY <1>1, <1>2, <1>8 DEF Fail, Stop
  <1>9. CASE UNCHANGED vars
    BY <1>1, <1>2, <1>9 DEF vars
  <1> QED
    BY <1>3, <1>4, <1>5, <1>6, <1>7, <1>8, <1>9 DEF Next

\* The budget of Validate bounds the age of the last request that was served, for
\* every configuration, order of ticks and slowness of requests.
THEOREM LeaseInductive == Spec => []LeaseInv
  BY LeaseInit, LeaseNext, PTL DEF Spec

\* The message stays hidden until processing has ended or been cancelled.
THEOREM LeaseIsHeld == Spec => []LeaseHeld
  <1>1. LeaseInv => LeaseHeld
    BY DEF LeaseInv
  <1> QED
    BY <1>1, LeaseInductive, PTL

-----------------------------------------------------------------------------
(* cancellationOnly, over every tree of errors.                            *)

\* A set of numbers has a least one.
LEMMA Least ==
    ASSUME NEW S, S \subseteq Nat, S # {}
    PROVE  \E x \in S : \A y \in S : x <= y
  <1> DEFINE R == OpToRel(<, Nat)
  <1>1. IsWellFoundedOn(R, Nat)
    BY NatLessThanWellFounded
  <1>2. \A i, j \in Nat : <<i, j>> \in R <=> i < j
    BY DEF OpToRel
  <1> HIDE DEF R
  <1>3. PICK x \in S : \A y \in S : <<y, x>> \notin R
    BY <1>1, WFMin
  <1>4. ASSUME NEW y \in S
        PROVE  x <= y
    <2>1. x \in Nat /\ y \in Nat /\ ~(y < x)
      BY <1>2, <1>3
    <2> QED
      BY <2>1
  <1> QED
    BY <1>4

\* What an error is made of comes before it.
LEMMA ErrorIs ==
    ASSUME NEW n \in Nat, NEW e \in Errors(n), NEW i \in 1 .. n
    PROVE  /\ e[i].inside \subseteq 1 .. (i - 1)
           /\ e[i].kind \in {"leaf", "wrap", "join"}
           /\ e[i].kind = "leaf" => e[i].inside = {}
           /\ e[i].kind = "wrap" => e[i].inside # {}
           /\ e[i] = Leaf("canceled") <=> e[i].kind = "leaf" /\ e[i].cause = "canceled"
  <1>1. e[i] \in Made(i - 1)
    BY DEF Errors
  <1>2. CASE \E c \in Causes : e[i] = Leaf(c)
    BY <1>2 DEF Leaf
  <1>3. CASE \E j \in 1 .. (i - 1) : e[i] = Wrap(j)
    BY <1>3 DEF Wrap, Leaf
  <1>4. CASE \E J \in SUBSET (1 .. (i - 1)) : e[i] = Join(J)
    BY <1>4 DEF Join, Leaf
  <1> QED
    BY <1>1, <1>2, <1>3, <1>4 DEF Made

\* An error made of n has n parts.
LEMMA ErrorLength ==
    ASSUME NEW n \in Nat, NEW e \in Errors(n)
    PROVE  Len(e) = n
  BY DEF Errors

\* What cancellationOnly makes of one error, given its answers for those inside.
Verdict(x, only) ==
    \/ x = Leaf("canceled")
    \/ x.kind = "join" /\ x.inside # {} /\ \A j \in x.inside : only[j]
    \/ x.kind = "wrap" /\ \A j \in x.inside : only[j]

\* It only depends on the answers for those inside.
LEMMA VerdictIs ==
    ASSUME NEW x, NEW f, NEW g, \A j \in x.inside : f[j] = g[j]
    PROVE  Verdict(x, f) = Verdict(x, g)
  BY DEF Verdict

\* It is an answer.
LEMMA VerdictType ==
    ASSUME NEW x, NEW f
    PROVE  Verdict(x, f) \in BOOLEAN
  BY DEF Verdict

\* The recursion comes to an end: it has answers for every error.
LEMMA AnswersExist ==
    ASSUME NEW n \in Nat, NEW e \in Errors(n)
    PROVE  \E f : f = [i \in 1 .. n |-> Verdict(e[i], f)]
  <1> DEFINE Answers(m) == {f \in [1 .. m -> BOOLEAN] : \A i \in 1 .. m : f[i] = Verdict(e[i], f)}
             Unanswered == {m \in 0 .. n : Answers(m) = {}}
  <1>1. ASSUME NEW m \in 1 .. n, NEW f \in Answers(m - 1)
        PROVE  Answers(m) # {}
    <2> DEFINE g == [i \in 1 .. m |-> IF i = m THEN Verdict(e[m], f) ELSE f[i]]
    <2>1. g \in [1 .. m -> BOOLEAN]
      <3>1. ASSUME NEW i \in 1 .. m, i # m
            PROVE  f[i] \in BOOLEAN
        <4>1. i \in 1 .. (m - 1)
          BY <3>1
        <4> QED
          BY <4>1
      <3> QED
        BY <3>1, VerdictType
    <2>2. ASSUME NEW i \in 1 .. m
          PROVE  g[i] = Verdict(e[i], g)
      <3>1. i \in 1 .. n /\ \A j \in e[i].inside : j \in 1 .. m /\ j # m /\ j \in 1 .. (i - 1)
        BY ErrorIs
      <3>2. \A j \in e[i].inside : g[j] = f[j]
        BY <3>1
      <3> HIDE DEF g
      <3>3. Verdict(e[i], g) = Verdict(e[i], f)
        BY <3>2, VerdictIs
      <3>4. CASE i = m
        BY <3>3, <3>4 DEF g
      <3>5. CASE i # m
        <4>1. i \in 1 .. (m - 1)
          BY <3>5
        <4>2. f[i] = Verdict(e[i], f)
          BY <4>1
        <4> QED
          BY <3>3, <3>5, <4>2 DEF g
      <3> QED
        BY <3>4, <3>5
    <2> HIDE DEF g
    <2> QED
      BY <2>1, <2>2
  <1>2. Answers(0) # {}
    <2>1. [i \in 1 .. 0 |-> TRUE] \in Answers(0)
      OBVIOUS
    <2> QED
      BY <2>1
  <1>3. Unanswered = {}
    <2> SUFFICES ASSUME Unanswered # {}
                 PROVE  FALSE
      OBVIOUS
    <2>1. Unanswered \subseteq Nat
      OBVIOUS
    <2>2. PICK m \in Unanswered : \A k \in Unanswered : m <= k
      <3> HIDE DEF Unanswered
      <3> QED
        BY <2>1, Least
    <2>3. m \in 1 .. n /\ Answers(m) = {}
      <3> HIDE DEF Answers
      <3> QED
        BY <1>2, <2>2
    <2>4. m - 1 \in 0 .. n /\ m - 1 \notin Unanswered
      <3>1. m - 1 \in 0 .. n
        BY <2>3
      <3>2. m \in Nat /\ ~(m <= m - 1)
        BY <2>3
      <3> HIDE DEF Unanswered
      <3> QED
        BY <2>2, <3>1, <3>2
    <2>5. Answers(m - 1) # {}
      <3> HIDE DEF Answers
      <3> QED
        BY <2>4
    <2> HIDE DEF Answers
    <2> QED
      BY <1>1, <2>3, <2>5
  <1>4. PICK f : f \in Answers(n)
    <2>1. n \in 0 .. n
      OBVIOUS
    <2> HIDE DEF Answers
    <2> QED
      BY <1>3, <2>1
  <1> QED
    BY <1>4

\* And they are those of cancellationOnly.
LEMMA CancellationOnlyIs ==
    ASSUME NEW n \in Nat, NEW e \in Errors(n)
    PROVE  \A i \in 1 .. n : CancellationOnlyOf(e)[i] = Verdict(e[i], CancellationOnlyOf(e))
  <1> DEFINE only == CancellationOnlyOf(e)
  <1>1. PICK f : f = [i \in 1 .. n |-> Verdict(e[i], f)]
    BY AnswersExist
  <1>2. only = CHOOSE g : g = [i \in 1 .. n |-> Verdict(e[i], g)]
    BY ErrorLength DEF CancellationOnlyOf, Verdict
  <1> HIDE DEF only
  <1>3. only = [i \in 1 .. n |-> Verdict(e[i], only)]
    BY <1>1, <1>2
  <1> QED
    BY <1>3 DEF only

\* What is found is closed, and the least that is.
LEMMA FoundIs ==
    ASSUME NEW n \in Nat \ {0}, NEW e \in Errors(n)
    PROVE  /\ Found(e) \subseteq 1 .. n /\ n \in Found(e)
           /\ \A i \in Found(e) : e[i].inside \subseteq Found(e)
           /\ \A S \in SUBSET (1 .. n) : Closed(e, S) => Found(e) \subseteq S
  <1>1. Len(e) = n
    BY ErrorLength
  <1>2. Found(e) = {i \in 1 .. n : \A S \in SUBSET (1 .. n) : Closed(e, S) => i \in S}
    BY <1>1 DEF Found
  <1>3. n \in Found(e)
    BY <1>1, <1>2 DEF Closed
  <1>4. ASSUME NEW i \in Found(e), NEW j \in e[i].inside
        PROVE  j \in Found(e)
    <2>1. i \in 1 .. n /\ j \in 1 .. n
      <3>1. i \in 1 .. n
        BY <1>2
      <3>2. j \in 1 .. (i - 1)
        BY <3>1, ErrorIs
      <3> QED
        BY <3>1, <3>2
    <2>2. ASSUME NEW S \in SUBSET (1 .. n), Closed(e, S)
          PROVE  j \in S
      <3>1. i \in S
        BY <1>2, <2>2
      <3> QED
        BY <2>2, <3>1 DEF Closed
    <2> QED
      BY <1>2, <2>1, <2>2
  <1> QED
    BY <1>2, <1>3, <1>4

\* The ends of what is found, where the causes are.
Ends(e) == {i \in Found(e) : e[i].inside = {}}

\* Every error has an end.
LEMMA EndsExist ==
    ASSUME NEW n \in Nat \ {0}, NEW e \in Errors(n)
    PROVE  Ends(e) # {}
  <1>1. Found(e) \subseteq Nat /\ Found(e) # {}
    BY FoundIs
  <1>2. PICK i \in Found(e) : \A j \in Found(e) : i <= j
    BY <1>1, Least
  <1>3. i \in 1 .. n
    BY FoundIs
  <1>4. ASSUME NEW j \in e[i].inside
        PROVE  FALSE
    <2>1. j \in 1 .. (i - 1) /\ j \in Found(e)
      BY <1>3, ErrorIs, FoundIs
    <2> QED
      BY <1>2, <1>3, <2>1
  <1> QED
    BY <1>4 DEF Ends

\* An error holds nothing but cancellation when each of its ends is one.
LEMMA HeldIs ==
    ASSUME NEW n \in Nat \ {0}, NEW e \in Errors(n)
    PROVE  Held(e) = {"canceled"} <=> \A i \in Ends(e) : e[i] = Leaf("canceled")
  <1> DEFINE cause(i) == IF e[i].kind = "leaf" THEN e[i].cause ELSE "provider"
  <1>1. Held(e) = {cause(i) : i \in Ends(e)}
    BY DEF Held, Ends
  <1>2. ASSUME NEW i \in Ends(e)
        PROVE  cause(i) = "canceled" <=> e[i] = Leaf("canceled")
    <2>1. i \in 1 .. n
      BY FoundIs DEF Ends
    <2> QED
      BY <2>1, ErrorIs
  <1> HIDE DEF cause
  <1> QED
    BY <1>1, <1>2, EndsExist

\* cancellationOnly holds of an error exactly when it holds nothing else.
LEMMA EveryErrorIsJudged ==
    ASSUME NEW n \in Nat \ {0}, NEW e \in Errors(n)
    PROVE  JudgedByCauses(e)
  <1> DEFINE only == CancellationOnlyOf(e)
  <1>1. \A i \in 1 .. n : only[i] = Verdict(e[i], only)
    BY CancellationOnlyIs
  <1>2. CancellationOnly(e) = only[n]
    BY ErrorLength DEF CancellationOnly
  <1> HIDE DEF only
  <1>3. ASSUME only[n]
        PROVE  \A i \in Ends(e) : e[i] = Leaf("canceled")
    <2> DEFINE quiet == {i \in 1 .. n : only[i]}
    <2>1. Closed(e, quiet)
      <3>1. n \in quiet /\ Len(e) = n
        BY <1>3, ErrorLength
      <3>2. ASSUME NEW i \in quiet, NEW j \in e[i].inside
            PROVE  j \in quiet
        <4>1. i \in 1 .. n /\ Verdict(e[i], only)
          BY <1>1
        <4>2. j \in 1 .. (i - 1) /\ e[i] # Leaf("canceled")
          BY <4>1, ErrorIs
        <4>3. only[j]
          BY <4>1, <4>2 DEF Verdict
        <4> QED
          BY <4>1, <4>2, <4>3
      <3> HIDE DEF quiet
      <3> QED
        BY <3>1, <3>2 DEF Closed
    <2>2. Found(e) \subseteq quiet
      <3>1. quiet \in SUBSET (1 .. n)
        OBVIOUS
      <3> HIDE DEF quiet
      <3> QED
        BY <2>1, <3>1, FoundIs
    <2>3. ASSUME NEW i \in Ends(e)
          PROVE  e[i] = Leaf("canceled")
      <3>1. i \in 1 .. n /\ only[i] /\ e[i].inside = {}
        BY <2>2 DEF Ends
      <3>2. Verdict(e[i], only)
        BY <1>1, <3>1
      <3> QED
        BY <3>1, <3>2, ErrorIs DEF Verdict
    <2> QED
      BY <2>3
  <1>4. ASSUME \A i \in Ends(e) : e[i] = Leaf("canceled")
        PROVE  only[n]
    <2> DEFINE loud == {i \in Found(e) : ~only[i]}
    <2>1. loud = {}
      <3> SUFFICES ASSUME loud # {}
                   PROVE  FALSE
        OBVIOUS
      <3>1. loud \subseteq Nat
        BY FoundIs
      <3>2. PICK i \in loud : \A j \in loud : i <= j
        <4> HIDE DEF loud
        <4> QED
          BY <3>1, Least
      <3>3. i \in Found(e) /\ i \in 1 .. n /\ ~only[i]
        BY FoundIs
      <3>4. ASSUME NEW j \in e[i].inside
            PROVE  only[j]
        <4>1. j \in 1 .. (i - 1) /\ j \in Found(e)
          BY <3>3, ErrorIs, FoundIs
        <4>2. ~(i <= j)
          BY <3>3, <4>1
        <4> QED
          BY <3>2, <4>1, <4>2
      <3>5. CASE e[i].inside = {}
        <4>1. e[i] = Leaf("canceled")
          BY <1>4, <3>3, <3>5 DEF Ends
        <4>2. Verdict(e[i], only)
          BY <4>1 DEF Verdict
        <4> QED
          BY <1>1, <3>3, <4>2
      <3>6. CASE e[i].inside # {}
        <4>1. e[i].kind \in {"join", "wrap"}
          BY <3>3, <3>6, ErrorIs
        <4>2. Verdict(e[i], only)
          BY <3>4, <3>6, <4>1 DEF Verdict
        <4> QED
          BY <1>1, <3>3, <4>2
      <3> QED
        BY <3>5, <3>6
    <2> QED
      BY <2>1, FoundIs
  <1>5. Verdict(e[n], only) \in BOOLEAN
    BY VerdictType
  <1> QED
    BY <1>1, <1>2, <1>3, <1>4, <1>5, HeldIs DEF JudgedByCauses

\* No branch and no wrapper hides a failure of the lease, and no wrapper makes
\* one of a shutdown (cancellationOnly).
THEOREM ErrorsAreJudged ==
    \A n \in Nat \ {0} : \A e \in Errors(n) : JudgedByCauses(e)
  BY EveryErrorIsJudged

\* So the renewal ends quietly exactly when nothing but the worker's own
\* cancellation is in the error, whatever the bound of the runs.
THEOREM OnlyShutdownIsQuiet == Spec => []OnlyCancellationIsQuiet
  <1>1. \A e \in SomeErrors : JudgedByCauses(e)
    <2> SUFFICES ASSUME NEW n \in 1 .. MaxErrors, NEW e \in Errors(n)
                 PROVE  JudgedByCauses(e)
      BY DEF SomeErrors
    <2>1. n \in Nat \ {0}
      BY ErrorsAssumption
    <2> QED
      BY <2>1, EveryErrorIsJudged
  <1>2. OnlyCancellationIsQuiet
    BY <1>1 DEF OnlyCancellationIsQuiet
  <1> QED
    BY <1>2, PTL
=============================================================================
