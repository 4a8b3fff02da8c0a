--------------------------- MODULE RenewalErrors ----------------------------
(***************************************************************************)
(* cancellationOnly: when an extension fails after the renewal was told to *)
(* stop, the error is a tree that the SDK and the adapter built around one *)
(* or more causes, and only a tree that holds nothing but cancellation     *)
(* ends the goroutine quietly. QueueWorker has the two outcomes as         *)
(* RenewStopped and RenewFailed; here is the function that tells them      *)
(* apart, compared with the causes that can be reached in the tree: for    *)
(* every tree up to a bound by TLC, for every tree by                      *)
(* VisibilityLeaseProofs.                                                  *)
(*                                                                         *)
(* An error is the sequence of the errors it is made of, in the order they *)
(* were made: each is a cause, or has others before it inside. The last is *)
(* the one at hand.                                                        *)
(***************************************************************************)
EXTENDS Naturals, Sequences

CONSTANT MaxErrors      \* bound on what an error is made of

ASSUME ErrorsAssumption == MaxErrors \in Nat

\* context.Canceled, context.DeadlineExceeded (the request timeout), an SQS error.
Causes == {"canceled", "deadline", "provider"}

Leaf(c) == [kind |-> "leaf", cause |-> c, inside |-> {}]
Wrap(j) == [kind |-> "wrap", cause |-> "none", inside |-> {j}]      \* Unwrap() error
Join(J) == [kind |-> "join", cause |-> "none", inside |-> J]        \* Unwrap() []error

\* What can be made of n errors, and of nothing.
Made(n) ==
    {Leaf(c) : c \in Causes} \union {Wrap(j) : j \in 1 .. n} \union {Join(J) : J \in SUBSET (1 .. n)}

\* The errors made of n.
Errors(n) == {e \in [1 .. n -> Made(n)] : \A i \in 1 .. n : e[i] \in Made(i - 1)}

\* The errors TLC looks at.
SomeErrors == UNION {Errors(n) : n \in 1 .. MaxErrors}

\* Variant: errors.Is(err, context.Canceled), true of any branch.
CancellationAnywhere(e) ==
    LET any[i \in 1 .. Len(e)] ==
            e[i] = Leaf("canceled") \/ \E j \in e[i].inside : any[j]
    IN  any[Len(e)]

\* The answer for each of the errors inside e, and for e itself.
CancellationOnlyOf(e) ==
    LET only[i \in 1 .. Len(e)] ==
            \/ e[i] = Leaf("canceled")
            \/ e[i].kind = "join" /\ e[i].inside # {} /\ \A j \in e[i].inside : only[j]
            \/ e[i].kind = "wrap" /\ \A j \in e[i].inside : only[j]
    IN  only

CancellationOnly(e) == CancellationOnlyOf(e)[Len(e)]

-----------------------------------------------------------------------------
\* The errors that are found in e by opening it, and what is inside, and so on.
Closed(e, S) == Len(e) \in S /\ \A i \in S : e[i].inside \subseteq S
Found(e) == {i \in 1 .. Len(e) : \A S \in SUBSET (1 .. Len(e)) : Closed(e, S) => i \in S}

\* The causes e holds; an error that claims to join none is the SDK's own.
Held(e) ==
    {IF e[i].kind = "leaf" THEN e[i].cause ELSE "provider" :
        i \in {j \in Found(e) : e[j].inside = {}}}

\* Whether e is judged by what it holds.
JudgedByCauses(e) == CancellationOnly(e) <=> Held(e) = {"canceled"}
=============================================================================
