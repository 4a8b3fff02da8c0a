---------------------------- MODULE MCJobListing ----------------------------
(* A small instance of JobListing for TLC.                                 *)
EXTENDS JobListing

MCJobs == 1 .. 6
MCInputs == -1 .. 4
=============================================================================
