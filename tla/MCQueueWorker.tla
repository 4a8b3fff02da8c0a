--------------------------- MODULE MCQueueWorker ----------------------------
(* Small instances of QueueWorker for TLC.                                 *)
EXTENDS QueueWorker, TLC

MCBodies == Jobs \union {Garbage}

\* Everything may go wrong except a signal, which stops a process much like a
\* crash, but later.
UnsignalledFaults == FaultKinds \ {"signal"}
\* Everything may go wrong except an operator's one-shot run.
QueueFaults == FaultKinds \ {"oneshot"}
NoFaults == {}

Symmetry == Permutations(Workers) \union Permutations(Messages)
=============================================================================
