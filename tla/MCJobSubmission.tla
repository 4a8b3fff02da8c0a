-------------------------- MODULE MCJobSubmission ---------------------------
(* Small instances of JobSubmission for TLC.                               *)
EXTENDS JobSubmission

\* Calls fail, but no connection ends in the middle of an answer.
WholeAnswers == FaultKinds \ {"eof"}
=============================================================================
