------------------------- MODULE MCVisibilityLease --------------------------
(* The instance of VisibilityLease for TLC, together with the function that *)
(* judges the error of a request (Fail): stopped, or a lost lease?          *)
EXTENDS VisibilityLease, RenewalErrors

\* A request that errs ends the renewal quietly exactly when nothing but our
\* cancellation is in its error: no branch or wrapper hides a failure of the
\* lease, and however the SDK wraps a cancellation, a shutdown is no failure
\* (cancellationOnly; README.md:687). The initial state stands for all in which
\* a request is out: the error does not depend on the timing.
OnlyCancellationIsQuiet ==
    phase = "initial" /\ age = 0 => \A e \in SomeErrors : JudgedByCauses(e)
=============================================================================
