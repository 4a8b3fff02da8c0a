---------------------------- MODULE MCCloudQueue ----------------------------
(* A small instance of CloudQueue for TLC.                                 *)
EXTENDS CloudQueue

\* Everything the API may meet but connections that end in the middle of an answer.
MCApiFaults == {"cancel", "crash", "db", "sqs", "storage"}
\* Crashes, failing calls, late statements and lost leases.
MCWorkerFaults == {"crash", "db", "sqs", "lapse"}
=============================================================================
