----------------------------- MODULE JobLedger -----------------------------
(***************************************************************************)
(* What the background_jobs table of Tel-Agent promises to the code that   *)
(* queues work, with no processes, no clock and no SQL in sight: a job is  *)
(* taken by at most one attempt at a time, it is taken at most MaxAttempts *)
(* times, and once it is done, failed or lost nobody ever takes it again.  *)
(* JobRunner implements this module (the refinement is checked by TLC and  *)
(* proved in JobRunnerProofs).                                             *)
(***************************************************************************)
EXTENDS Naturals

CONSTANTS Job,          \* the units of work
          MaxAttempts   \* BackgroundJob.max_attempts

VARIABLES phase,  \* none, open, held, lost, done or failed
          tries   \* how often the job has been taken

ledger == <<phase, tries>>

Phases == {"none", "open", "held", "lost", "done", "failed"}

LedgerInit ==
  /\ phase = [j \in Job |-> "none"]
  /\ tries = [j \in Job |-> 0]

Move(j, from, to) ==
  /\ phase[j] = from
  /\ phase' = [phase EXCEPT ![j] = to]

Submit(j) == Move(j, "none", "open") /\ UNCHANGED tries

Take(j) ==
  /\ Move(j, "open", "held")
  /\ tries[j] < MaxAttempts
  /\ tries' = [tries EXCEPT ![j] = @ + 1]

Retry(j) ==
  /\ Move(j, "held", "open")
  /\ tries[j] < MaxAttempts
  /\ UNCHANGED tries

\* A process died, or could not write the verdict: nobody holds the job any
\* more and nobody will look at it again.
Lose(j)   == Move(j, "held", "lost")   /\ UNCHANGED tries
Finish(j) == Move(j, "held", "done")   /\ UNCHANGED tries
GiveUp(j) == Move(j, "held", "failed") /\ UNCHANGED tries

LedgerNext ==
  \E j \in Job :
    Submit(j) \/ Take(j) \/ Retry(j) \/ Lose(j) \/ Finish(j) \/ GiveUp(j)

LedgerSpec == LedgerInit /\ [][LedgerNext]_ledger
=============================================================================
