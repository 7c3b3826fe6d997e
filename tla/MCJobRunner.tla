---------------------------- MODULE MCJobRunner ----------------------------
(***************************************************************************)
(* A small instance of JobRunner for TLC.                                  *)
(***************************************************************************)
EXTENDS JobRunner

\* Backoff grows with the attempts, as BACKOFF_SECONDS does.
MCBackoff == [n \in 1..MaxAttempts |-> n]
MCInterval == [t \in Task |-> 2]
=============================================================================
