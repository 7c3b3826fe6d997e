-------------------------- MODULE OperationsProofs --------------------------
(* Proofs about JobRunner, Apps, Desk, Backups and Settings: for any number of processes,
   jobs and tasks, any packages, switches and emissions, any number of hands and records,
   any number of nights, and any number of submissions. *)
EXTENDS JobRunner, Apps, Desk, Backups, Settings, WellFoundedInduction, Integers, TLAPS

(***************************************************************************)
(* The job runner: the inductive invariant says who owns a running row and *)
(* what a handler has done so far. Exclusive attempts, the bound on        *)
(* attempts, at most one completion and the refinement of JobLedger follow.*)
(***************************************************************************)
\* A process at work on a row has a job in hand, the row says "running", and
\* what it knows of the handler agrees with what the handler did.
Ownership ==
  /\ \A w \in Worker :
       /\ pc[w] \in {"update", "attempt", "settle"} => hand[w] \in Job
       /\ pc[w] = "update" => left[w] > 0
       /\ pc[w] \in {"attempt", "settle"} => status[hand[w]] = "running"
       /\ pc[w] = "attempt" => completions[hand[w]] = 0
       /\ pc[w] = "settle" =>
            /\ verdict[w] \in Verdicts
            /\ completions[hand[w]] = IF verdict[w] = "ok" THEN 1 ELSE 0
  /\ \A u, w \in Worker :
       /\ pc[u] \in {"attempt", "settle"}
       /\ pc[w] \in {"attempt", "settle"}
       /\ hand[u] = hand[w]
       => u = w

\* What a row says of the past of its job.
RowTruth ==
  \A j \in Job :
    /\ completions[j] \in 0..1
    /\ status[j] = "none" => completions[j] = 0 /\ attempts[j] = 0
    /\ status[j] = "queued" => completions[j] = 0 /\ attempts[j] < MaxAttempts
    /\ status[j] = "running" => attempts[j] >= 1
    /\ status[j] = "failed" => completions[j] = 0
    /\ status[j] = "done" => completions[j] = 1

JobsInv == TypeOK /\ Ownership /\ RowTruth

LEMMA JobsInitInv == Init => JobsInv
  BY JobRunnerAssumption, SMT
     DEF Init, JobsInv, TypeOK, Ownership, RowTruth, JobStatus, Verdicts, Nothing

LEMMA JobsNextInv == JobsInv /\ [Next]_vars => JobsInv'
<1> SUFFICES ASSUME JobsInv, [Next]_vars PROVE JobsInv'
  OBVIOUS
<1> USE JobRunnerAssumption DEF JobsInv, TypeOK, JobStatus, Verdicts
<1>1. CASE UNCHANGED vars
  BY <1>1 DEF Ownership, RowTruth, vars, jobRows, taskRows, memory, history
<1>2. ASSUME NEW j \in Job, NEW d \in Delays, Enqueue(j, d) PROVE JobsInv'
  BY <1>2 DEF Enqueue, Ownership, RowTruth, taskRows, memory, history
<1>3. ASSUME NEW t \in Task, SetEnabled(t) PROVE JobsInv'
  BY <1>3 DEF SetEnabled, Ownership, RowTruth, jobRows, memory, history
<1>4. CASE Tick
  BY <1>4 DEF Tick, Older, Ownership, RowTruth, memory
<1>5. ASSUME NEW w \in Worker, Start(w) PROVE JobsInv'
  BY <1>5 DEF Start, Goto, Ownership, RowTruth, jobRows, history
<1>6. ASSUME NEW w \in Worker, Wake(w) PROVE JobsInv'
  BY <1>6 DEF Wake, Goto, Ownership, RowTruth, jobRows, taskRows, history
<1>7. ASSUME NEW w \in Worker, LoadDueTasks(w) PROVE JobsInv'
  BY <1>7 DEF LoadDueTasks, Goto, Ownership, RowTruth, jobRows, taskRows, history
<1>8. ASSUME NEW w \in Worker, TasksDone(w) PROVE JobsInv'
  BY <1>8 DEF TasksDone, Goto, Ownership, RowTruth, jobRows, taskRows, history
<1>9. ASSUME NEW w \in Worker, EndTask(w) PROVE JobsInv'
  BY <1>9 DEF EndTask, Goto, Ownership, RowTruth, jobRows, taskRows, history
<1>10. ASSUME NEW w \in Worker, NEW t \in Task, RunTask(w, t) PROVE JobsInv'
  BY <1>10 DEF RunTask, ClaimTask, Goto, Ownership, RowTruth, jobRows
<1>11. ASSUME NEW w \in Worker, NEW t \in Task, SkipTask(w, t) PROVE JobsInv'
  BY <1>11 DEF SkipTask, ClaimTask, Ownership, RowTruth, jobRows
<1>12. ASSUME NEW w \in Worker, SelectJob(w) PROVE JobsInv'
  BY <1>12 DEF SelectJob, Candidates, DueJobs, Goto, Ownership, RowTruth,
               jobRows, taskRows, history
<1>13. ASSUME NEW w \in Worker, NoMoreJobs(w) PROVE JobsInv'
  BY <1>13 DEF NoMoreJobs, Goto, Ownership, RowTruth, jobRows, taskRows, history
<1>14. ASSUME NEW w \in Worker, ClaimJob(w) PROVE JobsInv'
  <2>1. hand[w] \in Job /\ left[w] \in 1..Limit /\ status[hand[w]] = "queued"
    BY <1>14 DEF ClaimJob, StillClaimable, Ownership
  <2>2. TypeOK'
    BY <1>14, <2>1 DEF ClaimJob, Goto, taskRows, RowTruth
  <2>3. Ownership'
    BY <1>14, <2>1 DEF ClaimJob, Goto, Ownership, RowTruth
  <2>4. RowTruth'
    BY <1>14, <2>1 DEF ClaimJob, RowTruth
  <2> QED BY <2>2, <2>3, <2>4
<1>15. ASSUME NEW w \in Worker, LoseClaim(w) PROVE JobsInv'
  BY <1>15 DEF LoseClaim, Goto, Ownership, RowTruth, jobRows, taskRows, history
<1>16. ASSUME NEW w \in Worker, NEW v \in Verdicts, RunHandler(w, v) PROVE JobsInv'
  <2>1. hand[w] \in Job /\ status[hand[w]] = "running" /\ completions[hand[w]] = 0
    BY <1>16 DEF RunHandler, Ownership
  <2>2. TypeOK'
    BY <1>16, <2>1 DEF RunHandler, Goto, jobRows, taskRows
  <2>3. Ownership'
    BY <1>16, <2>1 DEF RunHandler, Goto, Ownership, jobRows
  <2>4. RowTruth'
    BY <1>16, <2>1 DEF RunHandler, RowTruth, jobRows
  <2> QED BY <2>2, <2>3, <2>4
<1>17. ASSUME NEW w \in Worker, Settle(w) PROVE JobsInv'
  <2> DEFINE k == hand[w]
  <2>1. /\ k \in Job /\ status[k] = "running" /\ verdict[w] \in Verdicts
        /\ completions[k] = IF verdict[w] = "ok" THEN 1 ELSE 0
        /\ attempts[k] \in 1..MaxAttempts
    BY <1>17 DEF Settle, Ownership, RowTruth
  <2>2. /\ Outcome(k, verdict[w]) \in {"done", "failed", "queued"}
        /\ Outcome(k, verdict[w]) = "queued" =>
             verdict[w] = "raised" /\ attempts[k] < MaxAttempts
        /\ Outcome(k, verdict[w]) = "done" <=> verdict[w] = "ok"
    BY <2>1 DEF Outcome
  <2>3. TypeOK'
    BY <1>17, <2>1, <2>2 DEF Settle, Goto, taskRows, history
  <2>4. Ownership'
    BY <1>17, <2>1, <2>2 DEF Settle, Goto, Ownership, history
  <2>5. RowTruth'
    BY <1>17, <2>1, <2>2 DEF Settle, RowTruth, history
  <2> QED BY <2>3, <2>4, <2>5
<1>18. ASSUME NEW w \in Worker, Crash(w) PROVE JobsInv'
  BY <1>18 DEF Crash, Goto, Forget, Ownership, RowTruth, jobRows, taskRows
<1>19. ASSUME NEW w \in Worker, EndTaskFails(w) PROVE JobsInv'
  BY <1>19 DEF EndTaskFails, Goto, Forget, Ownership, RowTruth, jobRows, taskRows
<1>20. ASSUME NEW w \in Worker, SettleFails(w) PROVE JobsInv'
  BY <1>20 DEF SettleFails, Goto, Forget, Ownership, RowTruth, jobRows, taskRows
<1> QED
  BY <1>1, <1>2, <1>3, <1>4, <1>5, <1>6, <1>7, <1>8, <1>9, <1>10, <1>11, <1>12,
     <1>13, <1>14, <1>15, <1>16, <1>17, <1>18, <1>19, <1>20 DEF Next, Step, Fault

\* The inductive invariant holds in every reachable state.
THEOREM JobsInductive == Spec => []JobsInv
  BY JobsInitInv, JobsNextInv, PTL DEF Spec

\* Every variable keeps its type; in particular no job is attempted more than
\* max_attempts times.
THEOREM JobsAreTyped == Spec => []TypeOK
<1>1. JobsInv => TypeOK
  BY DEF JobsInv
<1> QED BY <1>1, JobsInductive, PTL

\* "Two processes must never run one job twice": for any number of processes,
\* crashes and retries, a job is in the hands of at most one of them.
THEOREM Exclusive == Spec => []OneAttemptAtATime
<1>1. JobsInv => OneAttemptAtATime
  BY DEF JobsInv, Ownership, OneAttemptAtATime, Holds
<1> QED BY <1>1, JobsInductive, PTL

\* No job's handler returns normally twice.
THEOREM AtMostOnce == Spec => []CompletesAtMostOnce
<1>1. JobsInv => CompletesAtMostOnce
  BY DEF JobsInv, RowTruth, CompletesAtMostOnce
<1> QED BY <1>1, JobsInductive, PTL

\* A row's status agrees with what its handler did.
THEOREM RowsTellTheTruth == Spec => []StatusTellsTheTruth
<1>1. JobsInv => StatusTellsTheTruth
  BY DEF JobsInv, RowTruth, StatusTellsTheTruth
<1> QED BY <1>1, JobsInductive, PTL
----------------------------------------------------------------------------
\* One process: nothing begins before its time

Alone == \A u, w \in Worker : u = w

\* A row about to be claimed is still due; a task's row and its last start add up to its
\* interval, and what is left of the list is due.
OnTime ==
  /\ early = {}
  /\ \A w \in Worker : pc[w] = "update" => status[hand[w]] = "queued" /\ jobWait[hand[w]] <= 0
  /\ \A t \in Task :
       /\ taskRow[t] => taskWait[t] + sinceStart[t] >= Interval[t]
       /\ ~taskRow[t] => sinceStart[t] >= Interval[t]
  /\ \A w \in Worker : \A t \in due[w] : taskRow[t] /\ taskWait[t] = 0

LEMMA InitOnTime == Init => OnTime
BY JobRunnerAssumption DEF Init, OnTime

LEMMA StepOnTime ==
  ASSUME Alone, JobsInv, OnTime, [Next]_vars
  PROVE  OnTime'
<1> USE JobRunnerAssumption DEF JobsInv, TypeOK
<1>1. CASE UNCHANGED vars
  BY <1>1 DEF OnTime, vars, jobRows, taskRows, memory, history
<1>2. ASSUME NEW j \in Job, NEW d \in Delays, Enqueue(j, d) PROVE OnTime'
  BY <1>2 DEF Enqueue, OnTime, Ownership, taskRows, memory, history
<1>3. ASSUME NEW t \in Task, SetEnabled(t) PROVE OnTime'
  BY <1>3 DEF SetEnabled, OnTime, jobRows, memory, history
<1>4. CASE Tick
  <2>1. \A j \in Job : jobWait[j] <= 0 => jobWait'[j] <= 0
    BY <1>4 DEF Tick, Older
  <2>2. \A t \in Task : /\ taskWait'[t] + sinceStart'[t] >= Interval[t]
                              \/ taskWait'[t] + sinceStart'[t] >= taskWait[t] + sinceStart[t]
                        /\ sinceStart'[t] >= sinceStart[t]
                        /\ taskWait[t] = 0 => taskWait'[t] = 0
    BY <1>4 DEF Tick
  <2> QED
    BY <1>4, <2>1, <2>2 DEF Tick, OnTime, memory, Ownership
<1>5. ASSUME NEW w \in Worker, Start(w) PROVE OnTime'
  BY <1>5 DEF Start, Goto, OnTime, jobRows, history
<1>6. ASSUME NEW w \in Worker, LoadDueTasks(w) PROVE OnTime'
  BY <1>6 DEF LoadDueTasks, Goto, OnTime, jobRows, taskRows, history
<1>7. ASSUME NEW w \in Worker, NEW t \in Task, RunTask(w, t) \/ SkipTask(w, t) PROVE OnTime'
  <2>1. \A u \in Worker : u = w
    BY DEF Alone
  <2>2. ClaimTask(w, t) /\ due'[w] = due[w] \ {t} /\ pc'[w] # "update"
    BY <1>7 DEF RunTask, SkipTask, ClaimTask, Goto
  <2>3. \A u \in Task : /\ taskWait'[u] = IF u = t THEN Interval[t] ELSE taskWait[u]
                        /\ u # t => sinceStart'[u] = sinceStart[u]
                        /\ sinceStart'[u] \in Nat
    BY <1>7, <2>2 DEF RunTask, SkipTask, ClaimTask
  <2>4. taskRow' = taskRow /\ taskRow[t] /\ early' = early
    BY <2>2 DEF ClaimTask, OnTime
  <2>5. \A u \in Task : /\ taskRow'[u] => taskWait'[u] + sinceStart'[u] >= Interval[u]
                        /\ ~taskRow'[u] => sinceStart'[u] >= Interval[u]
    <3> TAKE u \in Task
    <3>1. CASE u = t
      BY <2>3, <2>4, <3>1
    <3>2. CASE u # t
      BY <2>3, <2>4, <3>2 DEF OnTime
    <3> QED
      BY <3>1, <3>2
  <2>6. \A u \in due'[w] : taskRow'[u] /\ taskWait'[u] = 0
    <3>1. \A u \in due[w] : u \in Task /\ taskRow[u] /\ taskWait[u] = 0
      BY DEF OnTime
    <3> QED
      BY <2>2, <2>3, <2>4, <3>1
  <2> QED
    BY <2>1, <2>2, <2>4, <2>5, <2>6 DEF OnTime
<1>8. ASSUME NEW w \in Worker, SelectJob(w) PROVE OnTime'
  BY <1>8 DEF SelectJob, Candidates, DueJobs, Goto, OnTime, jobRows, taskRows, history
<1>9. ASSUME NEW w \in Worker, ClaimJob(w) PROVE OnTime'
  <2>1. \A u \in Worker : u = w
    BY DEF Alone
  <2>2. hand[w] \in Job /\ jobWait[hand[w]] <= 0
    BY <1>9 DEF ClaimJob, Ownership, OnTime
  <2>3. early' = early /\ pc'[w] # "update"
    BY <1>9, <2>2 DEF ClaimJob, Goto
  <2> QED
    BY <1>9, <2>1, <2>3 DEF ClaimJob, OnTime, taskRows
<1>10. ASSUME NEW w \in Worker, Settle(w) PROVE OnTime'
  <2>1. \A u \in Worker : u = w
    BY DEF Alone
  <2> QED
    BY <1>10, <2>1 DEF Settle, Goto, OnTime, taskRows, history
<1>11. ASSUME NEW w \in Worker, NEW v \in Verdicts, RunHandler(w, v) PROVE OnTime'
  BY <1>11 DEF RunHandler, Goto, OnTime, jobRows, taskRows
<1>12. ASSUME NEW w \in Worker, LoseClaim(w) \/ NoMoreJobs(w) \/ TasksDone(w) \/ EndTask(w) \/ Wake(w)
       PROVE  OnTime'
  <2>1. /\ UNCHANGED <<jobRows, taskRows, due, history>>
        /\ \E l \in {"sleep", "claim", "tasks", "wake"} : pc' = [pc EXCEPT ![w] = l]
        /\ \A u \in Worker : u # w => hand'[u] = hand[u]
    BY <1>12 DEF LoseClaim, NoMoreJobs, TasksDone, EndTask, Wake, Goto
  <2> QED
    BY <2>1 DEF OnTime, jobRows, taskRows, history
<1>13. ASSUME NEW w \in Worker, Fault(w) PROVE OnTime'
  <2>1. /\ UNCHANGED <<jobRows, taskRows, early, sinceStart>>
        /\ due' = [due EXCEPT ![w] = {}] /\ hand' = [hand EXCEPT ![w] = Nothing]
        /\ \E l \in {"off", "sleep"} : pc' = [pc EXCEPT ![w] = l]
    BY <1>13 DEF Fault, Crash, EndTaskFails, SettleFails, Goto, Forget
  <2> QED
    BY <2>1 DEF OnTime, jobRows, taskRows
<1> QED
  BY <1>1, <1>2, <1>3, <1>4, <1>5, <1>6, <1>7, <1>8, <1>9, <1>10, <1>11, <1>12, <1>13 DEF Next, Step

\* Wherever the one process stops, no attempt of a job begins before its backoff ended, and
\* two starts of a task are its interval apart; of two processes that is false, since the
\* claims do not compare the time again.
THEOREM InTime ==
  ASSUME Alone
  PROVE  Spec => NothingIsEarly
<1>1. JobsInv /\ OnTime /\ [Next]_vars => OnTime'
  BY StepOnTime
<1>2. JobsInv /\ OnTime /\ [Next]_vars =>
        [/\ early' = {}
         /\ \A t \in Task : (\E w \in Worker : RunTask(w, t)) => sinceStart[t] >= Interval[t]]_vars
  <2> SUFFICES ASSUME JobsInv, OnTime, [Next]_vars
               PROVE  /\ early' = {}
                      /\ \A t \in Task : (\E w \in Worker : RunTask(w, t)) => sinceStart[t] >= Interval[t]
    OBVIOUS
  <2>1. early' = {}
    BY <1>1 DEF OnTime
  <2>2. ASSUME NEW t \in Task, NEW w \in Worker, RunTask(w, t) PROVE sinceStart[t] >= Interval[t]
    BY <2>2, JobRunnerAssumption DEF RunTask, ClaimTask, OnTime, JobsInv, TypeOK
  <2> QED
    BY <2>1, <2>2
<1> QED
  BY <1>1, <1>2, JobsInductive, InitOnTime, PTL DEF Spec, NothingIsEarly
----------------------------------------------------------------------------
\* Finality and the refinement

\* Done and failed are final.
THEOREM Final == Spec => FinishedIsFinal
<1>1. JobsInv /\ [Next]_vars =>
        [\A j \in Job : status[j] \in {"done", "failed"} => status'[j] = status[j]]_vars
  <2> SUFFICES ASSUME JobsInv, Next, NEW j \in Job, status[j] \in {"done", "failed"}
               PROVE  status'[j] = status[j]
    OBVIOUS
  <2> USE DEF JobsInv, TypeOK
  <2>1. ASSUME NEW k \in Job, NEW d \in Delays, Enqueue(k, d)
        PROVE status'[j] = status[j]
    BY <2>1 DEF Enqueue
  <2>2. ASSUME NEW w \in Worker, ClaimJob(w) PROVE status'[j] = status[j]
    BY <2>2 DEF ClaimJob, StillClaimable, Ownership
  <2>3. ASSUME NEW w \in Worker, Settle(w) PROVE status'[j] = status[j]
    BY <2>3 DEF Settle, Ownership
  <2>4. CASE UNCHANGED status
    BY <2>4
  <2> QED
    BY <2>1, <2>2, <2>3, <2>4
       DEF Next, Step, Fault, Tick, SetEnabled, Start, Wake, LoadDueTasks, TasksDone,
           EndTask, RunTask, SkipTask, ClaimTask, SelectJob, NoMoreJobs, LoseClaim,
           RunHandler, Crash, EndTaskFails, SettleFails, jobRows
<1> QED BY <1>1, JobsInductive, PTL DEF Spec, FinishedIsFinal

phase == [j \in Job |-> Phase(j)]

LEMMA PhaseKept ==
  ASSUME status' = status, attempts' = attempts,
         \A j \in Job : (\E w \in Worker : Holds(w, j)) <=> (\E w \in Worker : Holds(w, j)')
  PROVE  UNCHANGED <<phase, attempts>>
  BY DEF phase, Phase

\* One job's phase moved and every other job kept its own.
LEMMA PhaseMoved ==
  ASSUME NEW k \in Job, NEW p,
         \A j \in Job : Phase(j)' = IF j = k THEN p ELSE Phase(j)
  PROVE  phase' = [phase EXCEPT ![k] = p]
  BY DEF phase

\* Every step of JobRunner is a step of JobLedger or leaves it unchanged.
LEMMA StepLedger == JobsInv /\ JobsInv' /\ [Next]_vars => [Ledger!LedgerNext]_<<phase, attempts>>
<1> SUFFICES ASSUME JobsInv, JobsInv', [Next]_vars
             PROVE  Ledger!LedgerNext \/ UNCHANGED <<phase, attempts>>
  BY DEF phase
<1> USE DEF JobsInv, TypeOK
<1>1. CASE UNCHANGED vars
  BY <1>1, PhaseKept DEF vars, jobRows, memory, Holds
<1>2. ASSUME NEW j \in Job, NEW d \in Delays, Enqueue(j, d) PROVE Ledger!LedgerNext
  <2>1. \A i \in Job : Phase(i)' = IF i = j THEN "open" ELSE Phase(i)
    BY <1>2 DEF Enqueue, Phase, Holds, memory
  <2>2. phase[j] = "none" /\ UNCHANGED attempts
    BY <1>2 DEF Enqueue, Phase, phase
  <2> QED BY <2>1, <2>2, PhaseMoved
          DEF Ledger!LedgerNext, Ledger!Submit, Ledger!Move, phase
<1>3. ASSUME NEW t \in Task, SetEnabled(t) PROVE UNCHANGED <<phase, attempts>>
  BY <1>3, PhaseKept DEF SetEnabled, jobRows, memory, Holds
<1>4. CASE Tick
  BY <1>4, PhaseKept DEF Tick, memory, Holds
<1>5. ASSUME NEW w \in Worker,
             \/ Start(w) \/ Wake(w) \/ LoadDueTasks(w) \/ TasksDone(w) \/ EndTask(w)
             \/ \E t \in Task : RunTask(w, t) \/ SkipTask(w, t)
             \/ SelectJob(w) \/ NoMoreJobs(w) \/ LoseClaim(w) \/ EndTaskFails(w)
             \/ \E v \in Verdicts : RunHandler(w, v)
      PROVE  UNCHANGED <<phase, attempts>>
  <2>1. UNCHANGED <<status, attempts>>
    BY <1>5 DEF Start, Wake, LoadDueTasks, TasksDone, EndTask, RunTask, SkipTask,
                ClaimTask, SelectJob, NoMoreJobs, LoseClaim, EndTaskFails,
                RunHandler, jobRows
  <2>2. ASSUME NEW u \in Worker, NEW j \in Job PROVE Holds(u, j)' <=> Holds(u, j)
    BY <1>5 DEF Start, Wake, LoadDueTasks, TasksDone, EndTask, RunTask, SkipTask,
                ClaimTask, SelectJob, NoMoreJobs, LoseClaim, EndTaskFails,
                RunHandler, Goto, Forget, Holds
  <2> QED BY <2>1, <2>2, PhaseKept
<1>6. ASSUME NEW w \in Worker, ClaimJob(w) PROVE Ledger!LedgerNext
  <2> DEFINE k == hand[w]
  <2>1. k \in Job /\ status[k] = "queued" /\ attempts[k] < MaxAttempts
    BY <1>6 DEF ClaimJob, StillClaimable, Ownership, RowTruth
  <2>2. pc'[w] = "attempt" /\ hand'[w] = k /\ status'[k] = "running"
    BY <1>6, <2>1 DEF ClaimJob, Goto
  <2>3. \A i \in Job : Phase(i)' = IF i = k THEN "held" ELSE Phase(i)
    <3> SUFFICES ASSUME NEW i \in Job PROVE Phase(i)' = IF i = k THEN "held" ELSE Phase(i)
      OBVIOUS
    <3>1. CASE i = k
      BY <2>2, <3>1 DEF Phase, Holds
    <3>2. CASE i # k
      <4>1. status'[i] = status[i]
        BY <1>6, <3>2, <2>1 DEF ClaimJob
      <4>2. \A u \in Worker : Holds(u, i)' <=> Holds(u, i)
        BY <1>6, <3>2, <2>1 DEF ClaimJob, Goto, Holds
      <4> QED BY <4>1, <4>2, <3>2 DEF Phase
    <3> QED BY <3>1, <3>2
  <2>4. phase[k] = "open"
    BY <2>1 DEF phase, Phase
  <2>5. attempts' = [attempts EXCEPT ![k] = @ + 1]
    BY <1>6 DEF ClaimJob
  <2>6. Ledger!Take(k)
    BY <2>1, <2>3, <2>4, <2>5, PhaseMoved DEF Ledger!Take, Ledger!Move, phase
  <2> QED BY <2>1, <2>6 DEF Ledger!LedgerNext
<1>7. ASSUME NEW w \in Worker, Settle(w) PROVE Ledger!LedgerNext
  <2> DEFINE k == hand[w]
             out == Outcome(k, verdict[w])
  <2>1. /\ k \in Job /\ status[k] = "running" /\ Holds(w, k)
        /\ out \in {"done", "failed", "queued"}
        /\ out = "queued" => attempts[k] < MaxAttempts
    <3>1. /\ k \in Job /\ status[k] = "running" /\ Holds(w, k)
          /\ verdict[w] \in Verdicts /\ attempts[k] \in 0..MaxAttempts
      BY <1>7 DEF Settle, Ownership, Holds
    <3>2. /\ out \in {"done", "failed", "queued"}
          /\ out = "queued" => attempts[k] < MaxAttempts
      BY <3>1, JobRunnerAssumption DEF Outcome
    <3> QED BY <3>1, <3>2
  <2>2. status' = [status EXCEPT ![k] = out] /\ UNCHANGED attempts
    BY <1>7 DEF Settle
  <2> DEFINE p == IF out = "queued" THEN "open" ELSE out
  <2>3. \A i \in Job : Phase(i)' = IF i = k THEN p ELSE Phase(i)
    <3> SUFFICES ASSUME NEW i \in Job PROVE Phase(i)' = IF i = k THEN p ELSE Phase(i)
      OBVIOUS
    <3>1. CASE i = k
      <4>1. status'[i] = out
        BY <2>1, <2>2, <3>1
      <4> QED BY <4>1, <2>1, <3>1 DEF Phase
    <3>2. CASE i # k
      <4>1. status'[i] = status[i]
        BY <2>1, <2>2, <3>2
      <4>2. \A u \in Worker : Holds(u, i)' <=> Holds(u, i)
        BY <1>7, <3>2, <2>1 DEF Settle, Goto, Holds
      <4> QED BY <4>1, <4>2, <3>2 DEF Phase
    <3> QED BY <3>1, <3>2
  <2>4. phase[k] = "held"
    BY <2>1 DEF phase, Phase
  <2>5. Ledger!Finish(k) \/ Ledger!GiveUp(k) \/ Ledger!Retry(k)
    BY <2>1, <2>2, <2>3, <2>4, PhaseMoved
       DEF Ledger!Finish, Ledger!GiveUp, Ledger!Retry, Ledger!Move, phase
  <2> QED BY <2>1, <2>5 DEF Ledger!LedgerNext
<1>8. ASSUME NEW w \in Worker, Crash(w) \/ SettleFails(w)
      PROVE  Ledger!LedgerNext \/ UNCHANGED <<phase, attempts>>
  <2> DEFINE k == hand[w]
  <2>1. /\ UNCHANGED <<status, attempts>>
        /\ pc'[w] \in {"off", "sleep"}
        /\ \A u \in Worker \ {w} : pc'[u] = pc[u] /\ hand'[u] = hand[u]
    BY <1>8 DEF Crash, SettleFails, Goto, Forget, jobRows
  <2>2. CASE pc[w] \in {"attempt", "settle"}
    <3>1. k \in Job /\ status[k] = "running" /\ Holds(w, k)
      BY <2>2 DEF Ownership, Holds
    <3>2. \A i \in Job : Phase(i)' = IF i = k THEN "lost" ELSE Phase(i)
      <4> SUFFICES ASSUME NEW i \in Job PROVE Phase(i)' = IF i = k THEN "lost" ELSE Phase(i)
        OBVIOUS
      <4>1. CASE i = k
        <5>1. \A u \in Worker : ~Holds(u, i)'
          BY <2>1, <2>2, <4>1 DEF Ownership, Holds
        <5> QED BY <5>1, <2>1, <3>1, <4>1 DEF Phase
      <4>2. CASE i # k
        <5>1. \A u \in Worker : Holds(u, i)' <=> Holds(u, i)
          BY <2>1, <4>2 DEF Holds
        <5> QED BY <5>1, <2>1, <4>2 DEF Phase
      <4> QED BY <4>1, <4>2
    <3>3. phase[k] = "held"
      BY <3>1 DEF phase, Phase
    <3>4. Ledger!Lose(k)
      BY <2>1, <3>1, <3>2, <3>3, PhaseMoved DEF Ledger!Lose, Ledger!Move, phase
    <3> QED BY <3>1, <3>4 DEF Ledger!LedgerNext
  <2>3. CASE pc[w] \notin {"attempt", "settle"}
    <3>1. ASSUME NEW u \in Worker, NEW j \in Job PROVE Holds(u, j)' <=> Holds(u, j)
      BY <2>1, <2>3 DEF Holds
    <3> QED BY <2>1, <3>1, PhaseKept
  <2> QED BY <2>2, <2>3
<1> QED
  BY <1>1, <1>2, <1>3, <1>4, <1>5, <1>6, <1>7, <1>8 DEF Next, Step, Fault

\* The processes, the clock and the rows together keep the promise of the
\* abstract ledger: exclusive takes, at most MaxAttempts of them, final ends.
THEOREM Implements == Spec => KeepsLedger
<1>1. Init => Ledger!LedgerInit
  BY DEF Init, Ledger!LedgerInit, Phase
<1>2. JobsInv /\ JobsInv' /\ [Next]_vars => [Ledger!LedgerNext]_(Ledger!ledger)
  BY StepLedger DEF phase, Ledger!ledger
<1> QED BY <1>1, <1>2, JobsInductive, PTL DEF Spec, KeepsLedger, Ledger!LedgerSpec

(***************************************************************************)
(* Extensions.                                                             *)
(***************************************************************************)
Asks  == {"asks", "knows"}
Known == Slugs \cup SystemApps

Emitted == [at : Asks \cup {"idle", "done"}, generation : Nat,
            enabled : SUBSET Known, ran : SUBSET Known]

\* The counter, and emissions that are never ahead of it.
Counted ==
  /\ generation \in Nat
  /\ remembered = Unread \/ remembered \subseteq Known
  /\ emissions \in [Emissions -> Emitted]
  /\ \A e \in Emissions : emissions[e].at \in Asks => emissions[e].generation <= generation

Requests == switches \in [Switches -> [at : {"idle", "asked", "committed", "done"},
                                       slug : Slugs \cup catalogue \cup {"none"},
                                       on : BOOLEAN, known : BOOLEAN]]

SomeCommitted == \E r \in Switches : switches[r].at = "committed"

\* An answer read in the generation that still runs is what the table says, or a switch has
\* yet to say that it is not.
AnswersAreCurrent ==
  \A e \in Emissions :
    emissions[e].at = "knows" /\ emissions[e].generation = generation
      => emissions[e].enabled = EnabledSlugs \/ SomeCommitted

AppsInv == Counted /\ Requests /\ AnswersAreCurrent /\ MemoryIsCurrent

LEMMA AppsInitInv == AppsInit => AppsInv
<1> SUFFICES ASSUME AppsInit PROVE AppsInv
  OBVIOUS
<1>1. Counted
  BY DEF AppsInit, Counted, Unsent, Emitted, Asks, Known
<1>2. Requests
  BY DEF AppsInit, Requests, Unasked
<1>3. AnswersAreCurrent /\ MemoryIsCurrent
  BY DEF AppsInit, AnswersAreCurrent, MemoryIsCurrent, Unsent
<1> QED
  BY <1>1, <1>2, <1>3 DEF AppsInv

\* What a table can say is about apps there are.
LEMMA EnabledAreKnown == EnabledSlugs \subseteq Known
BY DEF EnabledSlugs, Known

(***************************************************************************)
(* Switching                                                               *)
(***************************************************************************)
LEMMA AsksInv ==
  ASSUME AppsInv, NEW r \in Switches, AsksToSwitch(r)
  PROVE  AppsInv'
<1>1. PICK s \in catalogue, on \in BOOLEAN :
        switches' = [switches EXCEPT ![r] = [at |-> "asked", slug |-> s, on |-> on,
                                             known |-> installs[s] # "none"]]
  BY DEF AsksToSwitch
<1>2. /\ UNCHANGED <<registry, catalogue, installs, remembered, generation, serving, emissions>>
      /\ switches[r].at = "idle"
  BY DEF AsksToSwitch
<1>3. Requests'
  BY <1>1, <1>2 DEF AppsInv, Requests
<1>4. SomeCommitted => SomeCommitted'
  BY <1>1, <1>2 DEF AppsInv, Requests, SomeCommitted
<1>5. Counted' /\ EnabledSlugs' = EnabledSlugs
  BY <1>2 DEF AppsInv, Counted, EnabledSlugs
<1>6. AnswersAreCurrent' /\ MemoryIsCurrent'
  BY <1>2, <1>4, <1>5 DEF AppsInv, AnswersAreCurrent, MemoryIsCurrent, SomeCommitted
<1> QED
  BY <1>3, <1>5, <1>6 DEF AppsInv

LEMMA CommitsInv ==
  ASSUME AppsInv, NEW r \in Switches, Commits(r)
  PROVE  AppsInv'
<1>1. UNCHANGED <<registry, catalogue, remembered, generation, serving, emissions>>
  BY DEF Commits
<1>2. Counted'
  BY <1>1 DEF AppsInv, Counted
<1>3. CASE Clashes(switches[r])
  <2>1. switches' = [switches EXCEPT ![r].at = "done"] /\ installs' = installs
        /\ switches[r].at = "asked"
    BY <1>3 DEF Commits
  <2>2. Requests' /\ (SomeCommitted => SomeCommitted')
    BY <1>1, <2>1 DEF AppsInv, Requests, SomeCommitted
  <2>3. EnabledSlugs' = EnabledSlugs
    BY <2>1 DEF EnabledSlugs
  <2> QED
    BY <1>1, <1>2, <2>2, <2>3 DEF AppsInv, AnswersAreCurrent, MemoryIsCurrent, SomeCommitted
<1>4. CASE ~Clashes(switches[r])
  <2>1. switches' = [switches EXCEPT ![r].at = "committed"]
    BY <1>4 DEF Commits
  <2>2. Requests' /\ SomeCommitted'
    BY <1>1, <2>1 DEF AppsInv, Requests, SomeCommitted
  <2> QED
    BY <1>1, <1>2, <2>2 DEF AppsInv, AnswersAreCurrent, MemoryIsCurrent, SomeCommitted
<1> QED
  BY <1>3, <1>4

\* The generation moves on, so that no answer on its way is of the one that runs.
LEMMA ForgetsInv ==
  ASSUME AppsInv, NEW r \in Switches, Forgets(r)
  PROVE  AppsInv'
<1>1. /\ remembered' = Unread /\ generation' = generation + 1
      /\ switches' = [switches EXCEPT ![r].at = "done"]
      /\ UNCHANGED <<registry, catalogue, installs, serving, emissions>>
  BY DEF Forgets
<1>2. Counted'
  BY <1>1 DEF AppsInv, Counted, Emitted
<1>3. Requests'
  BY <1>1 DEF AppsInv, Requests
<1>4. \A e \in Emissions : emissions'[e].at = "knows" => emissions'[e].generation # generation'
  BY <1>1 DEF AppsInv, Counted, Emitted, Asks
<1>5. AnswersAreCurrent' /\ MemoryIsCurrent'
  BY <1>1, <1>4 DEF AnswersAreCurrent, MemoryIsCurrent
<1> QED
  BY <1>2, <1>3, <1>5 DEF AppsInv

(***************************************************************************)
(* Emitting                                                                *)
(***************************************************************************)
\* A record that is done is one of the records.
LEMMA Finished ==
  ASSUME NEW row \in Emitted, NEW ran \in SUBSET Known
  PROVE  /\ [row EXCEPT !.at = "done", !.ran = ran] \in Emitted
         /\ [row EXCEPT !.at = "done", !.ran = ran].at = "done"
BY DEF Emitted

\* An emission that has run its listeners has nothing more to remember.
LEMMA RunsInv ==
  ASSUME AppsInv, NEW e \in Emissions, NEW those \in SUBSET Known, Runs(e, those),
         UNCHANGED <<registry, catalogue, installs, generation, serving, switches>>,
         remembered' = Unread \/ remembered' \subseteq Known,
         MemoryIsCurrent'
  PROVE  AppsInv'
<1>1. PICK over \in Emitted : over.at = "done" /\ emissions' = [emissions EXCEPT ![e] = over]
  <2>1. {l.slug : l \in listeners} \cap those \in SUBSET Known
    OBVIOUS
  <2>2. emissions[e] \in Emitted
    BY DEF AppsInv, Counted
  <2> QED
    BY <2>1, <2>2, Finished DEF Runs
<1>2. Counted'
  BY <1>1 DEF AppsInv, Counted, Asks
<1>3. Requests' /\ EnabledSlugs' = EnabledSlugs
  BY DEF AppsInv, Requests, EnabledSlugs
<1>4. AnswersAreCurrent'
  BY <1>1, <1>3 DEF AppsInv, Counted, AnswersAreCurrent, SomeCommitted
<1> QED
  BY <1>2, <1>3, <1>4 DEF AppsInv

LEMMA EmitInv ==
  ASSUME AppsInv, NEW e \in Emissions, Emit(e)
  PROVE  AppsInv'
<1>1. UNCHANGED <<registry, catalogue, installs, remembered, generation, serving, switches>>
  BY DEF Emit
<1>2. MemoryIsCurrent' /\ EnabledSlugs' = EnabledSlugs
  BY <1>1 DEF AppsInv, MemoryIsCurrent, EnabledSlugs
<1>3. CASE remembered # Unread
  <2>1. Runs(e, remembered) /\ remembered \in SUBSET Known
    BY <1>3 DEF Emit, AppsInv, Counted
  <2> QED
    BY <1>1, <1>2, <2>1, RunsInv
<1>4. CASE remembered = Unread
  <2>1. emissions' = [emissions EXCEPT ![e].at = "asks", ![e].generation = generation]
    BY <1>4 DEF Emit
  <2>2. Counted'
    <3>1. emissions \in [Emissions -> Emitted] /\ generation \in Nat
      BY DEF AppsInv, Counted
    <3>2. emissions' \in [Emissions -> Emitted] /\ emissions'[e].generation = generation
      BY <2>1, <3>1 DEF Emitted, Asks
    <3>3. \A f \in Emissions : f # e => emissions'[f] = emissions[f]
      BY <2>1, <3>1
    <3>4. \A f \in Emissions : emissions'[f].at \in Asks => emissions'[f].generation <= generation
      BY <3>1, <3>2, <3>3 DEF AppsInv, Counted
    <3> QED
      BY <1>1, <3>2, <3>4 DEF AppsInv, Counted
  <2>3. Requests'
    BY <1>1 DEF AppsInv, Requests
  <2>4. AnswersAreCurrent'
    BY <1>1, <1>2, <2>1 DEF AppsInv, Counted, Emitted, AnswersAreCurrent, SomeCommitted
  <2> QED
    BY <1>2, <2>2, <2>3, <2>4 DEF AppsInv
<1> QED
  BY <1>3, <1>4

LEMMA LooksInv ==
  ASSUME AppsInv, NEW e \in Emissions, Looks(e)
  PROVE  AppsInv'
<1>1. /\ UNCHANGED <<registry, catalogue, installs, remembered, generation, serving, switches>>
      /\ emissions[e].at = "asks"
  BY DEF Looks
<1>2. MemoryIsCurrent' /\ EnabledSlugs' = EnabledSlugs
  BY <1>1 DEF AppsInv, MemoryIsCurrent, EnabledSlugs
<1>3. CASE Runs(e, {})
  BY <1>1, <1>2, <1>3, RunsInv DEF AppsInv, Counted
<1>4. CASE emissions' = [emissions EXCEPT ![e].at = "knows", ![e].enabled = EnabledSlugs]
  <2>1. Counted'
    BY <1>1, <1>4, EnabledAreKnown DEF AppsInv, Counted, Emitted, Asks
  <2>2. Requests'
    BY <1>1 DEF AppsInv, Requests
  <2>3. AnswersAreCurrent'
    BY <1>1, <1>2, <1>4 DEF AppsInv, Counted, Emitted, AnswersAreCurrent, SomeCommitted
  <2> QED
    BY <1>2, <2>1, <2>2, <2>3 DEF AppsInv
<1> QED
  BY <1>3, <1>4 DEF Looks

\* What is remembered was read in the generation that runs, hence is current.
LEMMA RemembersInv ==
  ASSUME AppsInv, NEW e \in Emissions, Remembers(e)
  PROVE  AppsInv'
<1>1. /\ UNCHANGED <<registry, catalogue, installs, generation, serving, switches>>
      /\ emissions[e].at = "knows" /\ Runs(e, emissions[e].enabled)
      /\ remembered' = IF emissions[e].generation = generation
                       THEN emissions[e].enabled ELSE remembered
  BY DEF Remembers
<1>2. emissions[e].enabled \in SUBSET Known
  BY DEF AppsInv, Counted, Emitted
<1>3. EnabledSlugs' = EnabledSlugs /\ (SomeCommitted => SomeCommitted')
  BY <1>1 DEF EnabledSlugs, SomeCommitted
<1>4. MemoryIsCurrent'
  BY <1>1, <1>3 DEF AppsInv, AnswersAreCurrent, MemoryIsCurrent, SomeCommitted
<1> QED
  BY <1>1, <1>2, <1>4, RunsInv DEF AppsInv, Counted

(***************************************************************************)
(* The rest                                                                *)
(***************************************************************************)
LEMMA StartInv ==
  ASSUME AppsInv, Syncs \/ \E p \in Packages : Load(p)
  PROVE  AppsInv'
<1>1. /\ UNCHANGED <<installs, remembered, generation, switches, emissions>>
      /\ catalogue \subseteq catalogue'
  BY DEF Syncs, Load
<1>2. Counted' /\ EnabledSlugs' = EnabledSlugs
  BY <1>1 DEF AppsInv, Counted, EnabledSlugs
<1>3. Requests'
  BY <1>1 DEF AppsInv, Requests
<1>4. AnswersAreCurrent' /\ MemoryIsCurrent'
  BY <1>1, <1>2 DEF AppsInv, AnswersAreCurrent, MemoryIsCurrent, SomeCommitted
<1> QED
  BY <1>2, <1>3, <1>4 DEF AppsInv

LEMMA AppsStopInv ==
  ASSUME AppsInv, AppsStop
  PROVE  AppsInv'
<1>1. Counted'
  BY DEF AppsStop, Counted, Unsent, Emitted, Asks
<1>2. Requests'
  BY DEF AppsInv, Requests, AppsStop, Unasked
<1>3. AnswersAreCurrent' /\ MemoryIsCurrent'
  BY DEF AppsStop, AnswersAreCurrent, MemoryIsCurrent, Unsent
<1> QED
  BY <1>1, <1>2, <1>3 DEF AppsInv

LEMMA AppsNextInv == AppsInv /\ [AppsNext]_appVars => AppsInv'
<1> SUFFICES ASSUME AppsInv, [AppsNext]_appVars PROVE AppsInv'
  OBVIOUS
<1>1. CASE UNCHANGED appVars
  BY <1>1 DEF appVars, AppsInv, Counted, Requests, AnswersAreCurrent, MemoryIsCurrent, EnabledSlugs,
              SomeCommitted
<1>2. ASSUME NEW r \in Switches, AsksToSwitch(r) \/ Commits(r) \/ Forgets(r) PROVE AppsInv'
  BY <1>2, AsksInv, CommitsInv, ForgetsInv
<1>3. ASSUME NEW e \in Emissions, Emit(e) \/ Looks(e) \/ Remembers(e) PROVE AppsInv'
  BY <1>3, EmitInv, LooksInv, RemembersInv
<1> QED
  BY <1>1, <1>2, <1>3, StartInv, AppsStopInv DEF AppsNext

\* For any number of switches and emissions that overlap, of packages, and of stops: what
\* the bus remembers is what the table of installs says, or a switch has yet to tell it
\* (api/extensions/hooks.py).
THEOREM MemoryHolds == AppsSpec => []MemoryIsCurrent
<1>1. AppsInv => MemoryIsCurrent
  BY DEF AppsInv
<1> QED
  BY AppsInitInv, AppsNextInv, <1>1, PTL DEF AppsSpec

(***************************************************************************)
(* The desk of an administrator.                                           *)
(***************************************************************************)
DeskRow == [name : Names \cup {"any", "none"}, ref : Int,
        mode : {"allow", "block", "fixed", "on_request", "active", "disabled", "plain", "none"}]

\* A row of a table says something, or is not there.
Named(row) == row \in DeskRow /\ (row = Empty \/ row.name # "none")

Filled == tables \in [Tables -> [Records -> DeskRow]] /\ \A t \in Tables, i \in Records : Named(tables[t][i])

\* What a request is about to write: its route decides what the rows it carries may be.
Planned(k) ==
  /\ k.route \in DOMAIN Routes /\ k.id \in Records
  /\ k.found \in DeskRow /\ k.row \in DeskRow
  /\ Routes[k.route].op = "add" => k.found = Empty
  /\ Routes[k.route].op # "remove" => k.row.name # "none"

Plans == /\ hands \in [Hands -> [at : {"idle", "commit", "refresh", "tell", "queue", "over"},
                                 route : DOMAIN Routes \cup {"none"}, id : Records \cup {0},
                                 found : DeskRow, row : DeskRow]]
         /\ \A c \in Hands : hands[c].at = "commit" => Planned(hands[c])

\* Who is past the commit has committed.
Committed == \A c \in Hands : hands[c].at \in {"refresh", "tell", "queue"} => c \in done

DeskInv == Filled /\ Plans /\ Committed /\ ToldMeansDone /\ SourcesHaveTheirAssistant

LEMMA EmptyRow == Empty \in DeskRow /\ Named(Empty)
BY DEF Empty, DeskRow, Named

\* A route is about one of the seven tables, and assistants go by one of them only.
LEMMA RouteFacts ==
  ASSUME NEW name \in DOMAIN Routes
  PROVE  /\ Routes[name].table \in Tables
         /\ Routes[name].op \in {"add", "edit", "remove"}
         /\ name = "delete_assistant" <=>
              Routes[name].table = "assistant" /\ Routes[name].op = "remove"
BY DEF Routes, Route, Tables, add_rule, change_rule, remove_rule, add_assistant, edit_assistant,
  delete_assistant, add_service, edit_service, remove_service, add_knowledge, edit_knowledge,
  remove_knowledge, add_contact, change_contact, remove_contact, add_number, change_status,
  release_number, add_webhook, edit_webhook, rotate_secret, remove_webhook

LEMMA NewRows ==
  ASSUME NEW t \in Tables
  PROVE  /\ \A row \in [name : NamesOf(t), mode : Modes(t), ref : Refs(t)] :
              row \in DeskRow /\ row.name # "none"
         /\ New(t) \subseteq [name : NamesOf(t), mode : Modes(t), ref : Refs(t)]
<1>1. NamesOf(t) \subseteq Names \cup {"any"} /\ "none" \notin NamesOf(t)
  BY DeskAssumption DEF NamesOf
<1>2. Refs(t) \subseteq Int
  BY DeskAssumption DEF Refs
<1>3. Modes(t) \subseteq {"allow", "block", "fixed", "on_request", "active", "disabled", "plain", "none"}
  BY DEF Modes
<1>4. New(t) \subseteq [name : NamesOf(t), mode : Modes(t), ref : Refs(t)]
  BY DEF New
<1> QED
  BY <1>1, <1>2, <1>3, <1>4 DEF DeskRow

LEMMA FirstRows ==
  ASSUME NEW t \in Tables
  PROVE  Kept(t) \in New(t) /\ (t = "source" => Kept(t).ref = 1)
<1>1. PICK n \in Names : TRUE
  BY DeskAssumption
<1> DEFINE Fits(row) == row.ref \in {0, 1} /\ (t \in {"source", "service"} => row.ref = 1)
           name == IF t \in {"rule", "assistant", "number", "contact"} THEN n ELSE "any"
           mode == CASE t = "rule"    -> "allow"
                     [] t = "service" -> "fixed"
                     [] t \in {"assistant", "number", "webhook"} -> "active"
                     [] OTHER -> "plain"
           ref  == IF t \in {"source", "service", "webhook"} THEN 1 ELSE 0
           first == [name |-> name, mode |-> mode, ref |-> ref]
<1>2. name \in NamesOf(t)
  BY <1>1 DEF NamesOf, Tables
<1>3. mode \in Modes(t)
  BY DEF Modes, Tables
<1>4. ref \in Refs(t)
  BY DeskAssumption DEF Refs, Tables
<1>5. first \in [name : NamesOf(t), mode : Modes(t), ref : Refs(t)]
  BY <1>2, <1>3, <1>4
<1>6. t = "service" => Sellable(first) /\ first.ref = Priced(first.mode, first.ref)
  BY DEF Sellable, Priced
<1>7. t \in {"assistant", "number", "webhook"} => first.mode = "active"
  OBVIOUS
<1>8. first \in New(t)
  BY <1>5, <1>6, <1>7 DEF New, Tables
<1>9. Fits(first)
  OBVIOUS
<1>10. Kept(t) = CHOOSE row \in New(t) : Fits(row)
  BY DEF Kept
<1> HIDE DEF Fits, first
<1>11. Kept(t) \in New(t) /\ Fits(Kept(t))
  BY <1>8, <1>9, <1>10
<1> QED
  BY <1>11 DEF Fits

LEMMA DeskInitInv == DeskInit => DeskInv
<1> SUFFICES ASSUME DeskInit PROVE DeskInv
  OBVIOUS
<1>1. \A t \in Tables : Kept(t) \in DeskRow /\ Kept(t).name # "none"
  BY FirstRows, NewRows
<1>2. /\ tables = [t \in Tables |-> [i \in Records |-> IF i = 1 THEN Kept(t) ELSE Empty]]
      /\ hands = [c \in Hands |-> Unbound]
  BY DEF DeskInit
<1>3. Filled
  <2>1. \A t \in Tables, i \in Records : tables[t][i] \in DeskRow /\ Named(tables[t][i])
    BY <1>1, <1>2, EmptyRow DEF Named
  <2> QED
    BY <1>2, <2>1 DEF Filled
<1>4. Plans /\ Committed
  BY <1>2, EmptyRow DEF Plans, Committed, Unbound
<1>5. ToldMeansDone
  BY DEF DeskInit, ToldMeansDone
<1>6. SourcesHaveTheirAssistant
  <2>1. 1 \in Rows("assistant")
    BY <1>1, <1>2, DeskAssumption DEF Rows, Tables, Empty
  <2>2. \A i \in Records : tables["source"][i].ref \in {0, 1}
    BY <1>2, FirstRows DEF Tables, Empty
  <2> QED
    BY <2>1, <2>2 DEF SourcesHaveTheirAssistant
<1> QED
  BY <1>3, <1>4, <1>5, <1>6 DEF DeskInv

\* A step that leaves the rows alone.
LEMMA RowsStay ==
  ASSUME DeskInv, UNCHANGED tables, Plans', Committed', ToldMeansDone'
  PROVE  DeskInv'
BY DEF DeskInv, Filled, SourcesHaveTheirAssistant, Rows

\* A request goes on to `at` with nothing but that changed, or is over.
LEMMA MovesOn ==
  ASSUME DeskInv, NEW c \in Hands, NEW at \in {"tell", "queue"}, hands[c].at # "commit",
         UNCHANGED <<tables, done>>,
         \/ hands' = [hands EXCEPT ![c] = [hands[c] EXCEPT !.at = at]] /\ c \in done
         \/ hands' = [hands EXCEPT ![c] = Over]
  PROVE  Plans' /\ Committed'
<1>1. Plans /\ Committed
  BY DEF DeskInv
<1>2. CASE hands' = [hands EXCEPT ![c] = [hands[c] EXCEPT !.at = at]] /\ c \in done
  BY <1>1, <1>2 DEF Plans, Committed
<1>3. CASE hands' = [hands EXCEPT ![c] = Over]
  BY <1>1, <1>3, EmptyRow DEF Plans, Committed, Over, Unbound
<1> QED
  BY <1>2, <1>3

LEMMA RefreshInv ==
  ASSUME DeskInv, NEW c \in Hands, Refresh(c)
  PROVE  DeskInv'
<1>1. UNCHANGED <<office, tables, done, audited, deliveries, told, stops>> /\ hands[c].at = "refresh"
  BY DEF Refresh
<1>2. c \in done
  BY <1>1 DEF DeskInv, Committed
<1>3. hands' = [hands EXCEPT ![c] = [hands[c] EXCEPT !.at = "tell"]] \/ hands' = [hands EXCEPT ![c] = Over]
  BY DEF Refresh
<1>4. Plans' /\ Committed'
  BY <1>1, <1>2, <1>3, MovesOn
<1>5. ToldMeansDone'
  BY <1>1 DEF DeskInv, ToldMeansDone
<1> QED
  BY <1>1, <1>4, <1>5, RowsStay

LEMMA AuditsInv ==
  ASSUME DeskInv, NEW c \in Hands, Audits(c)
  PROVE  DeskInv'
<1>1. UNCHANGED <<office, tables, done, deliveries, told, stops>> /\ hands[c].at = "tell"
      /\ audited' \in {audited, audited \cup {c}}
  BY DEF Audits
<1>2. c \in done
  BY <1>1 DEF DeskInv, Committed
<1>3. hands' = [hands EXCEPT ![c] = [hands[c] EXCEPT !.at = "queue"]] \/ hands' = [hands EXCEPT ![c] = Over]
  BY DEF Audits
<1>4. Plans' /\ Committed'
  BY <1>1, <1>2, <1>3, MovesOn
<1>5. ToldMeansDone'
  BY <1>1, <1>2 DEF DeskInv, ToldMeansDone
<1> QED
  BY <1>1, <1>4, <1>5, RowsStay

LEMMA QueuesInv ==
  ASSUME DeskInv, NEW c \in Hands, Queues(c)
  PROVE  DeskInv'
<1>1. UNCHANGED <<office, tables, done, audited, told, stops>> /\ hands[c].at = "queue"
      /\ hands' = [hands EXCEPT ![c] = Over]
  BY DEF Queues
<1>2. \A d \in deliveries' : d \in deliveries \/ d.about = c
  BY DEF Queues
<1>3. c \in done
  BY <1>1 DEF DeskInv, Committed
<1>4. Plans' /\ Committed'
  BY <1>1, MovesOn
<1>5. ToldMeansDone'
  BY <1>1, <1>2, <1>3 DEF DeskInv, ToldMeansDone
<1> QED
  BY <1>1, <1>4, <1>5, RowsStay

LEMMA DeliversInv ==
  ASSUME DeskInv, NEW d \in deliveries, Delivers(d)
  PROVE  DeskInv'
<1>1. UNCHANGED <<office, tables, hands, done, audited, stops>>
      /\ deliveries' \cup told' \subseteq deliveries \cup told
  BY DEF Delivers
<1>2. Plans' /\ Committed'
  BY <1>1 DEF DeskInv, Plans, Committed
<1>3. ToldMeansDone'
  BY <1>1 DEF DeskInv, ToldMeansDone
<1> QED
  BY <1>1, <1>2, <1>3, RowsStay

LEMMA CrashesInv ==
  ASSUME DeskInv, Crashes
  PROVE  DeskInv'
<1>1. UNCHANGED <<office, tables, done, audited, deliveries, told>>
      /\ hands' = [c \in Hands |-> IF hands[c] = Unbound THEN Unbound ELSE Over]
  BY DEF Crashes
<1>2. Plans' /\ Committed'
  BY <1>1, EmptyRow DEF Plans, Committed, Over, Unbound
<1>3. ToldMeansDone'
  BY <1>1 DEF DeskInv, ToldMeansDone
<1> QED
  BY <1>1, <1>2, <1>3, RowsStay

\* What an edit can make of a row is a row that says something.
LEMMA ChangedRows ==
  ASSUME NEW name \in DOMAIN Routes, NEW old \in DeskRow, old.name # "none",
         NEW row \in Changed(name, old)
  PROVE  row \in DeskRow /\ row.name # "none"
<1> DEFINE t == Routes[name].table
           rows == [name : NamesOf(t), mode : Modes(t), ref : Refs(t)]
<1>1. \A r \in rows : r \in DeskRow /\ r.name # "none"
  BY NewRows, RouteFacts
<1>2. CASE name = "rotate_secret"
  BY <1>2 DEF Changed, DeskRow
<1>3. CASE name \in {"change_rule", "change_status", "edit_webhook"}
  BY <1>3 DEF Changed, DeskRow, Modes
<1>4. CASE name \notin {"rotate_secret", "change_rule", "change_status", "edit_webhook"}
  <2>1. Changed(name, old) \subseteq rows
    BY <1>4 DEF Changed
  <2> QED
    BY <1>1, <2>1
<1> QED
  BY <1>2, <1>3, <1>4

LEMMA ConsidersInv ==
  ASSUME DeskInv, NEW c \in Hands, NEW name \in DOMAIN Routes, Considers(c, name)
  PROVE  DeskInv'
<1> DEFINE way == Routes[name]
           t == way.table
<1>1. UNCHANGED <<office, tables, done, audited, deliveries, told, stops>>
  BY DEF Considers
<1>2. PICK i \in Records, old \in DeskRow, row \in DeskRow :
        /\ hands' = [hands EXCEPT ![c] =
             [at |-> "commit", route |-> name, id |-> i, found |-> old, row |-> row]]
        /\ way.op = "add" => old = Empty
        /\ way.op # "remove" => row.name # "none"
  <2>1. way.op \in {"add", "edit", "remove"} /\ t \in Tables
    BY RouteFacts
  <2>2. \A i \in Records : tables[t][i] \in DeskRow
    BY <2>1 DEF DeskInv, Filled
  <2>3. CASE way.op = "add"
    <3>1. PICK i \in Records, row \in New(t) :
            hands' = [hands EXCEPT ![c] =
              [at |-> "commit", route |-> name, id |-> i, found |-> Empty, row |-> row]]
      BY <2>3 DEF Considers
    <3>2. row \in DeskRow /\ row.name # "none"
      BY <2>1, NewRows
    <3> QED
      BY <2>3, <3>1, <3>2, EmptyRow
  <2>4. CASE way.op = "edit"
    <3>1. PICK i \in Rows(t) : \E row \in Changed(name, tables[t][i]) :
            hands' = [hands EXCEPT ![c] =
              [at |-> "commit", route |-> name, id |-> i, found |-> tables[t][i], row |-> row]]
      BY <2>4 DEF Considers
    <3>2. PICK row \in Changed(name, tables[t][i]) :
            hands' = [hands EXCEPT ![c] =
              [at |-> "commit", route |-> name, id |-> i, found |-> tables[t][i], row |-> row]]
      BY <3>1
    <3>3. i \in Records /\ tables[t][i] \in DeskRow /\ tables[t][i].name # "none"
      BY <2>1, <2>2 DEF Rows, DeskInv, Filled, Named
    <3>4. row \in DeskRow /\ row.name # "none"
      BY <3>3, ChangedRows
    <3> QED
      BY <2>4, <3>2, <3>3, <3>4
  <2>5. CASE way.op = "remove"
    <3>1. PICK i \in Rows(t) :
            hands' = [hands EXCEPT ![c] =
              [at |-> "commit", route |-> name, id |-> i, found |-> tables[t][i], row |-> Empty]]
      BY <2>5 DEF Considers
    <3>2. i \in Records
      BY DEF Rows
    <3> QED
      BY <2>2, <2>5, <3>1, <3>2, EmptyRow
  <2> QED
    BY <2>1, <2>3, <2>4, <2>5
<1> DEFINE next == [at |-> "commit", route |-> name, id |-> i, found |-> old, row |-> row]
<1>3. Planned(next)
  BY <1>2 DEF Planned
<1>4. Plans'
  BY <1>2, <1>3 DEF DeskInv, Plans
<1>5. Committed'
  BY <1>1, <1>2 DEF DeskInv, Plans, Committed
<1>6. ToldMeansDone'
  BY <1>1 DEF DeskInv, ToldMeansDone
<1> QED
  BY <1>1, <1>4, <1>5, <1>6, RowsStay

\* Merging keeps a row that says something, and its reference is the row's or the request's.
LEMMA MergedRows ==
  ASSUME NEW now \in DeskRow, NEW old \in DeskRow, NEW row \in DeskRow,
         now.name # "none" \/ old.name = "none", row.name # "none"
  PROVE  /\ Merged(now, old, row) \in DeskRow
         /\ Merged(now, old, row).name # "none"
         /\ Merged(now, old, row).ref = IF row.ref = old.ref THEN now.ref ELSE row.ref
<1>1. DOMAIN row = {"name", "mode", "ref"}
  BY DEF DeskRow
<1> QED
  BY <1>1 DEF Merged, DeskRow

\* A row whose assistant goes stays as it was otherwise.
LEMMA FreedRows ==
  ASSUME NEW row, Named(row)
  PROVE  Named([row EXCEPT !.ref = 0]) /\ [row EXCEPT !.ref = 0].ref = 0
<1>1. [row EXCEPT !.ref = 0] \in DeskRow /\ [row EXCEPT !.ref = 0].ref = 0
      /\ [row EXCEPT !.ref = 0].name = row.name
  BY DEF Named, DeskRow
<1>2. CASE row = Empty
  BY <1>1, <1>2 DEF Named, Empty
<1>3. CASE row.name # "none"
  BY <1>1, <1>3 DEF Named
<1> QED
  BY <1>2, <1>3 DEF Named

\* A commit that the database accepts.
LEMMA CommitRows ==
  ASSUME DeskInv, NEW c \in Hands, Commit(c), ~Refused(hands[c])
  PROVE  Filled' /\ SourcesHaveTheirAssistant'
<1> DEFINE k == hands[c]
           way == Routes[k.route]
           t == way.table
           i == IF way.op = "add" /\ k.id \in Rows(t) THEN CHOOSE j \in Records : j \notin Rows(t) ELSE k.id
           new == IF way.op = "remove" \/ (way.op = "edit" /\ i \notin Rows(t)) THEN Empty
                  ELSE Merged(tables[t][i], k.found, k.row)
<1>1. /\ k.at = "commit" /\ Planned(k)
      /\ way.op = "add" => Rows(t) # Records
  BY DEF Commit, DeskInv, Plans
<1>2. /\ t \in Tables /\ way.op \in {"add", "edit", "remove"}
      /\ k.route = "delete_assistant" <=> t = "assistant" /\ way.op = "remove"
  BY <1>1, RouteFacts DEF Planned
<1>3. i \in Records /\ (way.op = "add" => i \notin Rows(t)) /\ (way.op # "add" => i = k.id)
  <2>1. way.op = "add" => \E j \in Records : j \notin Rows(t)
    BY <1>1 DEF Rows
  <2> QED
    BY <1>1, <2>1 DEF Planned
<1>4. tables' = [s \in Tables |->
         IF s = t THEN [tables[t] EXCEPT ![i] = new]
         ELSE IF s = "source" /\ k.route = "delete_assistant" THEN Released(i)
         ELSE tables[s]]
  BY DEF Commit
<1>5. /\ tables \in [Tables -> [Records -> DeskRow]]
      /\ \A s \in Tables, j \in Records : tables[s][j] = Empty \/ tables[s][j].name # "none"
      /\ \A j \in Records : tables["source"][j].ref \in {0} \cup Rows("assistant")
  BY DEF DeskInv, Filled, Named, SourcesHaveTheirAssistant
<1> HIDE DEF i, new
<1>6. /\ new \in DeskRow /\ Named(new)
      /\ way.op = "remove" \/ (way.op = "edit" /\ i \notin Rows(t)) => new = Empty
      /\ ~(way.op = "remove" \/ (way.op = "edit" /\ i \notin Rows(t))) =>
           /\ new.name # "none"
           /\ new.ref = IF k.row.ref = k.found.ref THEN tables[t][i].ref ELSE k.row.ref
  <2>1. CASE way.op = "remove" \/ (way.op = "edit" /\ i \notin Rows(t))
    BY <2>1, EmptyRow DEF new
  <2>2. CASE ~(way.op = "remove" \/ (way.op = "edit" /\ i \notin Rows(t)))
    <3>1. tables[t][i].name # "none" \/ k.found.name = "none"
      BY <1>1, <1>2, <1>3, <1>5, <2>2 DEF Planned, Rows, Empty
    <3>2. k.row.name # "none" /\ k.row \in DeskRow /\ k.found \in DeskRow /\ tables[t][i] \in DeskRow
      BY <1>1, <1>2, <1>3, <1>5, <2>2 DEF Planned
    <3>3. new = Merged(tables[t][i], k.found, k.row)
      BY <2>2 DEF new
    <3> DEFINE merged == Merged(tables[t][i], k.found, k.row)
    <3>4. /\ merged \in DeskRow /\ merged.name # "none"
          /\ merged.ref = IF k.row.ref = k.found.ref THEN tables[t][i].ref ELSE k.row.ref
      BY <3>1, <3>2, MergedRows
    <3> HIDE DEF merged
    <3>5. new = merged
      BY <3>3 DEF merged
    <3> QED
      BY <2>2, <3>4, <3>5 DEF Named
  <2> QED
    BY <2>1, <2>2
<1>7. CASE k.route = "delete_assistant"
  <2>1. t = "assistant" /\ new = Empty
    BY <1>2, <1>6, <1>7
  <2>2. /\ tables'["assistant"] = [tables["assistant"] EXCEPT ![i] = Empty]
        /\ tables'["source"] = Released(i)
        /\ \A s \in Tables \ {"assistant", "source"} : tables'[s] = tables[s]
    BY <1>4, <1>7, <2>1 DEF Tables
  <2>3. Released(i) \in [Records -> DeskRow]
        /\ \A j \in Records : /\ Named(Released(i)[j])
                              /\ Released(i)[j].ref \in ({0} \cup Rows("assistant")) \ {i}
    <3>1. i # 0
      BY <1>3, DeskAssumption
    <3>2. ASSUME NEW j \in Records
          PROVE  /\ Released(i)[j] \in DeskRow /\ Named(Released(i)[j])
                 /\ Released(i)[j].ref \in ({0} \cup Rows("assistant")) \ {i}
      <4>1. Named(tables["source"][j]) /\ tables["source"][j].ref \in {0} \cup Rows("assistant")
        BY <1>5 DEF Tables, Named
      <4>2. CASE tables["source"][j].ref = i
        <5>1. Released(i)[j] = [tables["source"][j] EXCEPT !.ref = 0]
          BY <4>2 DEF Released
        <5> QED
          BY <3>1, <4>1, <5>1, FreedRows DEF Named
      <4>3. CASE tables["source"][j].ref # i
        <5>1. Released(i)[j] = tables["source"][j]
          BY <4>3 DEF Released
        <5> QED
          BY <4>1, <4>3, <5>1 DEF Named
      <4> QED
        BY <4>2, <4>3
    <3>3. Released(i) = [j \in Records |-> Released(i)[j]]
      BY DEF Released
    <3> QED
      BY <3>2, <3>3
  <2>4. Filled'
    <3>1. tables' \in [Tables -> [Records -> DeskRow]]
      <4>1. tables'["assistant"] \in [Records -> DeskRow] /\ tables'["source"] \in [Records -> DeskRow]
        <5>1. tables["assistant"] \in [Records -> DeskRow] /\ Empty \in DeskRow
          BY <1>5, EmptyRow DEF Tables
        <5>2. [tables["assistant"] EXCEPT ![i] = Empty] \in [Records -> DeskRow]
          BY <5>1
        <5> QED
          BY <2>2, <2>3, <5>2
      <4>2. \A s \in Tables : tables'[s] \in [Records -> DeskRow]
        BY <1>5, <2>2, <4>1
      <4>3. tables' = [s \in Tables |-> tables'[s]]
        BY <1>4
      <4> QED
        BY <4>2, <4>3
    <3>2. \A s \in Tables, j \in Records : Named(tables'[s][j])
      BY <1>5, <2>2, <2>3, EmptyRow DEF Tables, Named
    <3> QED
      BY <3>1, <3>2 DEF Filled
  <2>5. Rows("assistant") \ {i} \subseteq Rows("assistant")'
    BY <1>5, <2>2 DEF Rows, Tables
  <2> QED
    BY <2>2, <2>3, <2>4, <2>5 DEF SourcesHaveTheirAssistant
<1>8. CASE k.route # "delete_assistant"
  <2>1. /\ tables' \in [Tables -> [Records -> DeskRow]]
        /\ tables'[t] = [tables[t] EXCEPT ![i] = new]
        /\ \A s \in Tables \ {t} : tables'[s] = tables[s]
    <3>1. [tables[t] EXCEPT ![i] = new] \in [Records -> DeskRow]
      BY <1>2, <1>3, <1>5, <1>6
    <3>2. tables' = [s \in Tables |-> IF s = t THEN [tables[t] EXCEPT ![i] = new] ELSE tables[s]]
      BY <1>4, <1>8
    <3> QED
      BY <1>2, <1>5, <3>1, <3>2
  <2>2. Filled'
    BY <1>2, <1>5, <1>6, <2>1 DEF Filled, Named
  <2>3. Rows("assistant") \subseteq Rows("assistant")'
    <3>1. t = "assistant" /\ i \in Rows("assistant") => new # Empty
      BY <1>2, <1>6, <1>8 DEF Empty
    <3> QED
      BY <1>2, <1>5, <2>1, <3>1 DEF Rows, Tables
  <2>4. t = "source" => new.ref \in {0} \cup Rows("assistant")
    <3> SUFFICES ASSUME t = "source" PROVE new.ref \in {0} \cup Rows("assistant")
      OBVIOUS
    <3>1. CASE new = Empty
      BY <3>1 DEF Empty
    <3>2. CASE way.op # "remove" /\ k.row.ref # k.found.ref
      <4>1. AssistantOk(k.row)
        BY <3>2 DEF Refused
      <4> QED
        BY <1>6, <3>1, <3>2, <4>1 DEF AssistantOk
    <3>3. CASE new # Empty /\ k.row.ref = k.found.ref
      BY <1>3, <1>5, <1>6, <3>3
    <3> QED
      BY <1>6, <3>1, <3>2, <3>3
  <2>5. \A j \in Records : tables'["source"][j].ref \in {0} \cup Rows("assistant")
    BY <1>2, <1>5, <2>1, <2>4 DEF Tables
  <2> QED
    BY <2>2, <2>3, <2>5 DEF SourcesHaveTheirAssistant
<1> QED
  BY <1>7, <1>8

LEMMA CommitInv ==
  ASSUME DeskInv, NEW c \in Hands, Commit(c)
  PROVE  DeskInv'
<1>1. UNCHANGED <<office, audited, deliveries, told, stops>> /\ hands[c].at = "commit"
  BY DEF Commit
<1>2. CASE Refused(hands[c])
  <2>1. hands' = [hands EXCEPT ![c] = Over] /\ UNCHANGED <<tables, done>>
    BY <1>2 DEF Commit
  <2>2. Plans' /\ Committed'
    BY <2>1, EmptyRow DEF DeskInv, Plans, Committed, Over, Unbound
  <2>3. ToldMeansDone'
    BY <1>1, <2>1 DEF DeskInv, ToldMeansDone
  <2> QED
    BY <2>1, <2>2, <2>3, RowsStay
<1>3. CASE ~Refused(hands[c])
  <2>1. PICK at \in {"refresh", "tell"}, i \in Records :
          hands' = [hands EXCEPT ![c].at = at, ![c].id = i]
    <3>1. Planned(hands[c])
      BY <1>1 DEF DeskInv, Plans
    <3>2. Routes[hands[c].route].op = "add" =>
            \E j \in Records : j \notin Rows(Routes[hands[c].route].table)
      BY <1>1 DEF Commit, Rows
    <3> QED
      BY <1>3, <3>1, <3>2 DEF Commit, Planned
  <2>2. done' = done \cup {c}
    BY <1>3 DEF Commit
  <2>3. Plans'
    BY <2>1 DEF DeskInv, Plans
  <2>4. Committed' /\ ToldMeansDone'
    BY <1>1, <2>1, <2>2 DEF DeskInv, Plans, Committed, ToldMeansDone
  <2> QED
    BY <1>3, <2>3, <2>4, CommitRows DEF DeskInv
<1> QED
  BY <1>2, <1>3

LEMMA DeskNextInv == DeskInv /\ [DeskNext]_deskVars => DeskInv'
<1> SUFFICES ASSUME DeskInv, [DeskNext]_deskVars PROVE DeskInv'
  OBVIOUS
<1>1. CASE UNCHANGED deskVars
  BY <1>1 DEF deskVars, DeskInv, Filled, Plans, Committed, ToldMeansDone, SourcesHaveTheirAssistant, Rows
<1>2. ASSUME NEW c \in Hands, Commit(c) \/ Refresh(c) \/ Audits(c) \/ Queues(c)
      PROVE  DeskInv'
  BY <1>2, CommitInv, RefreshInv, AuditsInv, QueuesInv
<1> QED
  BY <1>1, <1>2, ConsidersInv, DeliversInv, CrashesInv DEF DeskNext

\* DeskInv holds in every reachable state.
THEOREM DeskInductive == DeskSpec => []DeskInv
BY DeskInitInv, DeskNextInv, PTL DEF DeskSpec

\* For any number of hands at any number of records: what the audit or a webhook speaks of
\* has been committed (api/security/audit.py, api/webhooks.py).
THEOREM NothingUntrueIsTold == DeskSpec => []ToldMeansDone
<1>1. DeskInv => ToldMeansDone
  BY DEF DeskInv
<1> QED
  BY <1>1, DeskInductive, PTL

\* A source belongs to everybody or to an assistant that exists (api/routes/knowledge.py),
\* though the check and the commit are two steps: the commit looks again.
THEOREM SourcesBelong == DeskSpec => []SourcesHaveTheirAssistant
<1>1. DeskInv => SourcesHaveTheirAssistant
  BY DEF DeskInv
<1> QED
  BY <1>1, DeskInductive, PTL

(***************************************************************************)
(* Backups.                                                                *)
(***************************************************************************)
RunFields == {"at", "id", "copy", "verdict", "left", "answered", "gone"}
IsDated(x) == x = [f \in {"status", "kind", "day"} |-> x[f]] /\ x.day \in Nat
Dated(rows) == rows = [i \in Ids |-> rows[i]] /\ \A i \in Ids : IsDated(rows[i])
IsCopy(c) == c = [f \in {"threads", "lines", "backups"} |-> c[f]] /\ Dated(c.backups)
IsRun(x)  == x = [f \in RunFields |-> x[f]] /\ IsCopy(x.copy)

BackupsForms ==
  /\ today \in Nat
  /\ Dated(backups)
  /\ held = [i \in Ids |-> held[i]] /\ \A i \in Ids : IsCopy(held[i])
  /\ runs = [k \in Kinds |-> runs[k]] /\ \A k \in Kinds : IsRun(runs[k])
  /\ tray = [t \in Trays |-> [m \in Messages |-> tray[t][m]]]

\* The script works only while the application is down; the request it carries out waits
\* until the data is in, and it is the one that was picked.
ScriptFollows ==
  /\ script = [at |-> script.at, id |-> script.id]
  /\ script.at # "idle" => ~up /\ script.id \in Ids /\ staged \in {0, script.id}
  /\ script.at = "loaded" => data.origin = script.id

BackupsInv == BackupsForms /\ NightIsTold /\ ScriptFollows

(***************************************************************************)
(* A set of numbers up to n has a greatest, if it is not empty.            *)
(***************************************************************************)
LEMMA GreatestExists ==
  ASSUME NEW n \in Nat, NEW S \in SUBSET (1..n), S # {}
  PROVE  \E x \in S : \A y \in S : x >= y
<1> DEFINE Less == {p \in Nat \X Nat : p[1] < p[2]}
           T    == {n - x : x \in S}
<1>1. IsWellFoundedOn(Less, Nat)
  BY NatLessThanWellFounded, Zenon DEF OpToRel
<1>2. \A x, y \in Nat : x < y => <<x, y>> \in Less
  OBVIOUS
<1> HIDE DEF Less
<1>3. T \subseteq Nat /\ T # {}
  <2>1. \A x \in S : n - x \in Nat
    OBVIOUS
  <2>2. PICK x \in S : TRUE
    OBVIOUS
  <2> QED
    BY <2>1, <2>2
<1>4. PICK m \in T : \A k \in T : ~(<<k, m>> \in Less)
  <2> HIDE DEF T
  <2> QED
    BY <1>1, <1>3, WFMin
<1>5. PICK x \in S : m = n - x
  OBVIOUS
<1>6. ASSUME NEW y \in S PROVE x >= y
  <2>1. n - y \in T /\ n - y \in Nat /\ n - x \in Nat
    OBVIOUS
  <2>2. ~(n - y < n - x)
    BY <1>2, <1>4, <1>5, <2>1
  <2> QED
    BY <2>2
<1> QED
  BY <1>6

LEMMA GreatestIs ==
  ASSUME NEW n \in Nat, NEW S \in SUBSET (1..n), S # {}
  PROVE  Max(S) \in S /\ \A y \in S : Max(S) >= y
BY GreatestExists DEF Max

\* The newest verified backup is kept, and whatever the windows promise.
LEMMA KeepKeeps ==
  ASSUME BackupsForms
  PROVE  /\ \A i \in Ids : Promised(i) => i \in Keep(backups)
         /\ (\E i \in Ids : backups[i].status = "ok") => \E i \in Keep(backups) : i \in Ids /\ backups[i].status = "ok"
<1> DEFINE verified == {i \in Ids : backups[i].status = "ok"}
           kept     == {i \in Good(backups) : backups[i].kind = "before_update"} \cup Daily(backups) \cup Weekly(backups)
<1>1. /\ verified \in SUBSET (1..MaxTaken) /\ MaxTaken \in Nat
      /\ verified # {} => Max(verified) \in verified
  BY GreatestIs, BackupsAssumption DEF Ids
<1>2. /\ Keep(backups) = IF verified # {} /\ kept \cap verified = {} THEN kept \cup {Max(verified)} ELSE kept
      /\ kept \subseteq Keep(backups)
  BY DEF Keep
<1>3. verified # {} => \E i \in Keep(backups) : i \in verified
  BY <1>1, <1>2
<1>4. ASSUME NEW i \in Ids, Promised(i) PROVE i \in Keep(backups)
  <2>1. CASE verified = {i}
    BY <1>3, <2>1
  <2>2. CASE /\ i \in Good(backups) /\ Age(backups, i) <= DailyKept
             /\ \A j \in Good(backups) : backups[j].day = backups[i].day => j <= i
    BY <1>2, <2>2 DEF Daily
  <2>3. CASE /\ i \in Good(backups) /\ Age(backups, i) <= WeeklyKept
             /\ \A j \in Good(backups) : Week(backups, j) = Week(backups, i) => j <= i
    <3>1. \A j \in Good(backups) : backups[j].day = backups[i].day => j <= i
      BY <2>3 DEF Week
    <3>2. CASE Age(backups, i) <= DailyKept
      BY <2>2, <2>3, <3>1, <3>2
    <3>3. CASE Age(backups, i) > DailyKept
      BY <1>2, <2>3, <3>3 DEF Weekly
    <3>4. Age(backups, i) \in Int /\ DailyKept \in Nat
      BY BackupsAssumption DEF BackupsForms, Dated, IsDated, Age
    <3> QED
      BY <3>2, <3>3, <3>4
  <2> QED
    BY <1>4, <2>1, <2>2, <2>3 DEF Promised
<1> QED
  BY <1>3, <1>4

(***************************************************************************)
(* What a step changes.                                                    *)
(***************************************************************************)
LEMMA RunMoves ==
  ASSUME NEW k \in Kinds, NEW x, runs = [j \in Kinds |-> runs[j]], Sets(k, x)
  PROVE  /\ runs' = [j \in Kinds |-> runs'[j]]
         /\ runs'[k] = x
         /\ \A j \in Kinds : j # k => runs'[j] = runs[j]
BY DEF Sets

LEMMA AtEaseIs == IsRun(AtEase) /\ AtEase.at = "idle" /\ AtEase.gone = {} /\ IsCopy(NoArchive)
BY DEF AtEase, IsRun, RunFields, NoArchive, IsCopy, Dated, IsDated, NoBackup

\* A run that goes on keeps its form, what it tells and what it prunes.
Goes(x, y) == /\ IsRun(y)
              /\ y.at = "telling" => /\ x.at = "telling" /\ y.left = x.left /\ y.verdict = x.verdict
                                      /\ x.answered \subseteq y.answered
                                   \/ y.left = Trays
              /\ y.gone \in {x.gone, {}}

LEMMA Headlines == \A x : Headline(x) \in Messages \ {"restore_staged"}
BY DEF Headline, Messages

LEMMA RunGoesOn ==
  ASSUME BackupsInv, NEW k \in Kinds, NEW x, Sets(k, x), Goes(runs[k], x), tray' = tray
  PROVE  /\ runs' = [j \in Kinds |-> runs'[j]] /\ \A j \in Kinds : IsRun(runs'[j])
         /\ tray' = [t \in Trays |-> [m \in Messages |-> tray'[t][m]]]
         /\ NightIsTold'
         /\ runs'["nightly"].gone \in {runs["nightly"].gone, {}}
<1>1. /\ runs' = [j \in Kinds |-> runs'[j]] /\ runs'[k] = x
      /\ \A j \in Kinds : j # k => runs'[j] = runs[j]
  BY RunMoves DEF BackupsInv, BackupsForms
<1>2. \A j \in Kinds : Goes(runs[j], runs'[j]) \/ runs'[j] = runs[j]
  BY <1>1
<1>3. "nightly" \in Kinds
  BY DEF Kinds
<1>4. NightIsTold'
  <2> SUFFICES ASSUME runs'["nightly"].at = "telling", NEW t \in Trays \ runs'["nightly"].left
               PROVE  \/ tray'[t][Headline(runs'["nightly"])] = "open"
                      \/ t \in runs'["nightly"].answered
    BY DEF NightIsTold
  <2>1. CASE runs'["nightly"] = runs["nightly"]
    BY <2>1 DEF BackupsInv, NightIsTold
  <2>2. CASE Goes(runs["nightly"], runs'["nightly"])
    <3>1. /\ runs["nightly"].at = "telling" /\ t \in Trays \ runs["nightly"].left
          /\ runs'["nightly"].verdict = runs["nightly"].verdict
          /\ runs["nightly"].answered \subseteq runs'["nightly"].answered
      BY <2>2 DEF Goes
    <3>2. Headline(runs'["nightly"]) = Headline(runs["nightly"])
      BY <3>1 DEF Headline
    <3> QED
      BY <3>1, <3>2 DEF BackupsInv, NightIsTold
  <2> QED
    BY <1>2, <1>3, <2>1, <2>2
<1> QED
  BY <1>1, <1>2, <1>3, <1>4 DEF BackupsInv, BackupsForms, Goes

\* The invariant goes on and nothing new is about to be pruned.
Going == BackupsInv' /\ runs'["nightly"].gone \in {runs["nightly"].gone, {}}

LEMMA RunGoing ==
  ASSUME BackupsInv, NEW k \in Kinds, NEW x, Sets(k, x), Goes(runs[k], x), tray' = tray,
         Dated(backups'), held' = [i \in Ids |-> held'[i]], \A i \in Ids : IsCopy(held'[i]),
         UNCHANGED <<data, staged, script, today, up>>
  PROVE  Going
<1>1. ScriptFollows'
  BY DEF BackupsInv, ScriptFollows
<1> QED
  BY <1>1, RunGoesOn DEF Going, BackupsInv, BackupsForms

LEMMA RunsKept ==
  ASSUME BackupsInv, NEW k \in Kinds
  PROVE  IsRun(runs[k]) /\ IsCopy(runs[k].copy) /\ Dated(backups) /\ today \in Nat
         /\ held = [i \in Ids |-> held[i]] /\ \A i \in Ids : IsCopy(held[i])
BY DEF BackupsInv, BackupsForms, IsRun

LEMMA StartsKeeps ==
  ASSUME BackupsInv, NEW k \in Kinds, Starts(k)
  PROVE  Going
<1> DEFINE x == [AtEase EXCEPT !.at = "target", !.id = taken + 1]
           row == [status |-> "running", kind |-> k, day |-> today]
<1>1. Goes(runs[k], x)
  BY AtEaseIs DEF Goes, AtEase, IsRun, RunFields
<1>2. Sets(k, x) /\ tray' = tray /\ UNCHANGED <<held, data, staged, script, today, up>>
      /\ backups' = [backups EXCEPT ![taken + 1] = row]
  BY DEF Starts
<1>3. IsDated(row)
  BY RunsKept DEF IsDated
<1> HIDE DEF x, row
<1>4. Dated(backups')
  BY <1>2, <1>3, RunsKept DEF Dated
<1> QED
  BY <1>1, <1>2, <1>4, RunsKept, RunGoing

LEMMA DumpsKeeps ==
  ASSUME BackupsInv, NEW k \in Kinds, DumpsThreads(k) \/ DumpsLines(k)
  PROVE  Going
<1>1. PICK x : Sets(k, x) /\ Goes(runs[k], x)
  <2> DEFINE c == runs[k].copy
             threads == [c EXCEPT !.threads = data.threads, !.backups = backups]
             linesIn == [c EXCEPT !.lines = data.lines]
  <2>1. CASE DumpsThreads(k)
    <3> DEFINE x == [runs[k] EXCEPT !.at = "lines", !.copy = threads]
    <3>1. IsCopy(threads) /\ Sets(k, x)
      BY <2>1, RunsKept DEF IsCopy, DumpsThreads
    <3> HIDE DEF threads
    <3>2. Goes(runs[k], x)
      BY <3>1, RunsKept DEF IsRun, RunFields, Goes
    <3> QED
      BY <3>1, <3>2
  <2>2. CASE DumpsLines(k)
    <3> DEFINE x == [runs[k] EXCEPT !.at = "seal", !.copy = linesIn]
    <3>1. IsCopy(linesIn) /\ Sets(k, x)
      BY <2>2, RunsKept DEF IsCopy, DumpsLines
    <3> HIDE DEF linesIn
    <3>2. Goes(runs[k], x)
      BY <3>1, RunsKept DEF IsRun, RunFields, Goes
    <3> QED
      BY <3>1, <3>2
  <2> QED
    BY <2>1, <2>2
<1>2. UNCHANGED <<tray, backups, held, data, staged, script, today, up>>
  BY DEF DumpsThreads, DumpsLines, library, pending
<1> QED
  BY <1>1, <1>2, RunsKept, RunGoing

LEMMA SealsKeeps ==
  ASSUME BackupsInv, NEW k \in Kinds, Seals(k)
  PROVE  Going
<1>1. PICK outcome : Sets(k, [runs[k] EXCEPT !.at = "verdict", !.copy = NoArchive,
                                !.verdict = IF outcome = "whole" THEN "ok" ELSE "unverified"])
  BY DEF Seals
<1> DEFINE x == [runs[k] EXCEPT !.at = "verdict", !.copy = NoArchive,
                                !.verdict = IF outcome = "whole" THEN "ok" ELSE "unverified"]
<1>2. Sets(k, x)
  BY <1>1
<1>3. Goes(runs[k], x)
  BY RunsKept, AtEaseIs DEF IsRun, RunFields, Goes
<1> HIDE DEF x
<1>4. UNCHANGED <<tray, backups, data, staged, script, today, up>> /\ held' = [held EXCEPT ![runs[k].id] = runs[k].copy]
  BY DEF Seals, pending
<1>5. held' = [i \in Ids |-> held'[i]] /\ \A i \in Ids : IsCopy(held'[i])
  BY <1>4, RunsKept
<1> QED
  BY <1>2, <1>3, <1>4, <1>5, RunsKept, RunGoing

LEMMA BreaksKeeps ==
  ASSUME BackupsInv, NEW k \in Kinds, Breaks(k)
  PROVE  Going
<1> DEFINE x == [runs[k] EXCEPT !.at = "verdict", !.copy = NoArchive, !.verdict = "failed"]
<1>1. Sets(k, x)
  BY DEF Breaks
<1>2. Goes(runs[k], x)
  BY RunsKept, AtEaseIs DEF IsRun, RunFields, Goes
<1> HIDE DEF x
<1>3. UNCHANGED <<tray, backups, held, data, staged, script, today, up>>
  BY DEF Breaks, library, pending
<1> QED
  BY <1>1, <1>2, <1>3, RunsKept, RunGoing

LEMMA ConcludesKeeps ==
  ASSUME BackupsInv, NEW k \in Kinds, Concludes(k)
  PROVE  Going
<1>1. UNCHANGED <<tray, held, data, staged, script, today, up>>
  BY DEF Concludes, pending
<1>2. Goes(runs[k], AtEase)
  BY AtEaseIs DEF Goes
<1>3. Goes(runs[k], After(runs[k]))
  BY RunsKept DEF IsRun, RunFields, Goes, After
<1>4. \E x : Sets(k, x) /\ Goes(runs[k], x)
  BY <1>2, <1>3 DEF Concludes
<1>5. Dated(backups')
  <2>1. CASE backups' = backups
    BY <2>1, RunsKept
  <2>2. CASE backups' = [backups EXCEPT ![runs[k].id].status = runs[k].verdict]
    BY <2>2, RunsKept DEF Dated, IsDated
  <2> QED
    BY <2>1, <2>2 DEF Concludes
<1> QED
  BY <1>1, <1>4, <1>5, RunsKept, RunGoing

LEMMA TellsKeeps ==
  ASSUME BackupsInv, NEW t \in Trays, Tells(t)
  PROVE  Going
<1> DEFINE run == runs["nightly"]
           m == Headline(run)
           x == [run EXCEPT !.left = @ \ {t}, !.answered = @ \ {t}]
<1>1. "nightly" \in Kinds /\ m \in Messages
  BY Headlines DEF Kinds
<1>2. UNCHANGED <<backups, held, data, staged, script, today, up>> /\ Sets("nightly", x)
  BY DEF Tells, library, pending
<1>3. /\ IsRun(x) /\ x.at = run.at /\ x.gone = run.gone /\ x.verdict = run.verdict
      /\ x.left = run.left \ {t} /\ x.answered = run.answered \ {t}
  BY <1>1, RunsKept DEF IsRun, RunFields
<1>4. Headline(x) = m
  BY <1>3 DEF Headline
<1> HIDE DEF x
<1>5. /\ runs' = [j \in Kinds |-> runs'[j]] /\ runs'["nightly"] = x
      /\ \A j \in Kinds : j # "nightly" => runs'[j] = runs[j]
  BY <1>1, <1>2, RunMoves DEF BackupsInv, BackupsForms
<1>6. /\ tray' = [s \in Trays |-> [n \in Messages |-> tray'[s][n]]]
      /\ tray'[t][m] = "open"
      /\ \A s \in Trays : s # t => tray'[s] = tray[s]
  <2> HIDE DEF m
  <2>1. tray' = Raised(t, m)
    BY DEF Tells, m
  <2> QED
    BY <1>1, <2>1 DEF Raised, AlreadyOpen, BackupsInv, BackupsForms
<1>7. NightIsTold'
  <2> SUFFICES ASSUME NEW s \in Trays \ x.left PROVE tray'[s][m] = "open" \/ s \in x.answered
    BY <1>4, <1>5 DEF NightIsTold
  <2>1. CASE s = t
    BY <1>6, <2>1
  <2>2. CASE s # t
    <3>1. s \in Trays \ run.left /\ run.at = "telling"
      BY <1>3, <2>2 DEF Tells
    <3>2. tray[s][m] = "open" \/ s \in run.answered
      BY <3>1 DEF BackupsInv, NightIsTold
    <3> QED
      BY <1>3, <1>6, <2>2, <3>2
  <2> QED
    BY <2>1, <2>2
<1>8. ScriptFollows'
  BY <1>2 DEF BackupsInv, ScriptFollows
<1> QED
  BY <1>2, <1>3, <1>5, <1>6, <1>7, <1>8, RunsKept DEF Going, BackupsInv, BackupsForms

LEMMA NightGoesOn ==
  ASSUME BackupsInv, NightWithoutTarget \/ Told \/ ForgetsRows
  PROVE  Going
<1>1. "nightly" \in Kinds
  BY DEF Kinds
<1>2. UNCHANGED <<tray, held, data, staged, script, today, up>>
  BY DEF NightWithoutTarget, Told, ForgetsRows, library, pending
<1>3. \E x : Sets("nightly", x) /\ Goes(runs["nightly"], x)
  <2>1. Goes(runs["nightly"], AtEase)
    BY AtEaseIs DEF Goes
  <2>2. Goes(runs["nightly"], [runs["nightly"] EXCEPT !.at = "prune"])
    BY <1>1, RunsKept DEF IsRun, RunFields, Goes
  <2>3. Goes(runs["nightly"], [AtEase EXCEPT !.at = "telling", !.left = Trays, !.verdict = "untargeted"])
    BY AtEaseIs DEF AtEase, IsRun, RunFields, Goes
  <2>4. CASE Told
    BY <2>1, <2>2, <2>4 DEF Told
  <2>5. CASE NightWithoutTarget \/ ForgetsRows
    BY <2>1, <2>3, <2>5 DEF NightWithoutTarget, ForgetsRows
  <2> QED
    BY <2>4, <2>5
<1>4. Dated(backups')
  <2>1. CASE backups' = [i \in Ids |-> IF i \in runs["nightly"].gone THEN NoBackup ELSE backups[i]]
    BY <1>1, <2>1, RunsKept DEF Dated, IsDated, NoBackup
  <2>2. CASE backups' = backups
    BY <1>1, <2>2, RunsKept
  <2> QED
    BY <2>1, <2>2 DEF NightWithoutTarget, Told, ForgetsRows, library
<1> QED
  BY <1>1, <1>2, <1>3, <1>4, RunsKept, RunGoing

LEMMA PrunesKeeps ==
  ASSUME BackupsInv, Prunes
  PROVE  BackupsInv' /\ runs'["nightly"].gone = {i \in Ids : backups[i] # NoBackup} \ Keep(backups)
<1> DEFINE gone == {i \in Ids : backups[i] # NoBackup} \ Keep(backups)
           x == [runs["nightly"] EXCEPT !.at = "pruned", !.gone = gone]
<1>1. "nightly" \in Kinds
  BY DEF Kinds
<1>2. UNCHANGED <<tray, backups, held, data, staged, script, today, up>> /\ Sets("nightly", x)
  BY DEF Prunes, pending
<1> HIDE DEF gone
<1>3. IsRun(x) /\ x.at = "pruned" /\ x.gone = gone
  BY <1>1, RunsKept DEF IsRun, RunFields
<1> HIDE DEF x
<1>4. /\ runs' = [j \in Kinds |-> runs'[j]] /\ runs'["nightly"] = x
      /\ \A j \in Kinds : j # "nightly" => runs'[j] = runs[j]
  BY <1>1, <1>2, RunMoves DEF BackupsInv, BackupsForms
<1>5. NightIsTold' /\ ScriptFollows'
  BY <1>2, <1>3, <1>4 DEF NightIsTold, BackupsInv, ScriptFollows
<1> QED
  BY <1>1, <1>2, <1>3, <1>4, <1>5, RunsKept DEF BackupsInv, BackupsForms, gone

LEMMA DealsWithKeeps ==
  ASSUME BackupsInv, NEW t \in Trays, DealsWith(t)
  PROVE  Going
<1> DEFINE run == runs["nightly"]
           x == [run EXCEPT !.answered = @ \cup {t}]
<1>1. "nightly" \in Kinds
  BY DEF Kinds
<1>2. UNCHANGED <<backups, held, data, staged, script, today, up>> /\ Sets("nightly", x)
  BY <1>1, RunsKept DEF DealsWith, library, pending, Sets, IsRun, RunFields
<1>3. /\ IsRun(x) /\ x.at = run.at /\ x.gone = run.gone /\ x.verdict = run.verdict
      /\ x.left = run.left /\ x.answered = run.answered \cup {t}
  BY <1>1, RunsKept DEF IsRun, RunFields
<1>4. Headline(x) = Headline(run)
  BY <1>3 DEF Headline
<1> HIDE DEF x
<1>5. /\ runs' = [j \in Kinds |-> runs'[j]] /\ runs'["nightly"] = x
      /\ \A j \in Kinds : j # "nightly" => runs'[j] = runs[j]
  BY <1>1, <1>2, RunMoves DEF BackupsInv, BackupsForms
<1>6. /\ tray' = [s \in Trays |-> [n \in Messages |-> tray'[s][n]]]
      /\ \A s \in Trays : s # t => tray'[s] = tray[s]
  BY DEF DealsWith, BackupsInv, BackupsForms
<1>7. NightIsTold'
  <2> SUFFICES ASSUME x.at = "telling", NEW s \in Trays \ x.left
               PROVE  tray'[s][Headline(run)] = "open" \/ s \in x.answered
    BY <1>4, <1>5 DEF NightIsTold
  <2>1. CASE s = t
    BY <1>3, <2>1
  <2>2. CASE s # t
    BY <1>3, <1>6, <2>2 DEF BackupsInv, NightIsTold
  <2> QED
    BY <2>1, <2>2
<1>8. ScriptFollows'
  BY <1>2 DEF BackupsInv, ScriptFollows
<1> QED
  BY <1>2, <1>3, <1>5, <1>6, <1>7, <1>8, RunsKept DEF Going, BackupsInv, BackupsForms

\* Whatever is no part of a night leaves what it has told waiting.
LEMMA NightWaits ==
  ASSUME BackupsInv, runs' = runs,
         tray' = [t \in Trays |-> [m \in Messages |-> tray'[t][m]]],
         \A t \in Trays, m \in Messages \ {"restore_staged"} : tray'[t][m] = tray[t][m],
         today' \in Nat, Dated(backups'), held' = held, ScriptFollows'
  PROVE  Going
<1>1. NightIsTold'
  BY Headlines DEF BackupsInv, NightIsTold
<1> QED
  BY <1>1 DEF Going, BackupsInv, BackupsForms

LEMMA TrayStays ==
  ASSUME BackupsInv, tray' = tray
  PROVE  /\ tray' = [t \in Trays |-> [m \in Messages |-> tray'[t][m]]]
         /\ \A t \in Trays, m \in Messages \ {"restore_staged"} : tray'[t][m] = tray[t][m]
BY DEF BackupsInv, BackupsForms

LEMMA RoutesKeep ==
  ASSUME BackupsInv,
         RunNow \/ DeleteBackup \/ DeletesRow \/ StageRestore \/ ConversationBegins \/ Decays \/ NextDay
           \/ \E t \in Trays : MarksLogRead(t)
  PROVE  Going
<1>1. runs' = runs /\ held' = held /\ script' = script /\ up' = up
  BY DEF RunNow, DeleteBackup, DeletesRow, StageRestore, ConversationBegins, Decays, NextDay, MarksLogRead,
         library, pending
<1>2. /\ tray' = [t \in Trays |-> [m \in Messages |-> tray'[t][m]]]
      /\ \A t \in Trays, m \in Messages \ {"restore_staged"} : tray'[t][m] = tray[t][m]
  <2>1. CASE tray' = tray
    BY <2>1, TrayStays
  <2>2. CASE StageRestore
    BY <2>2 DEF StageRestore, BackupsInv, BackupsForms
  <2>3. CASE \E t \in Trays : MarksLogRead(t)
    <3>1. PICK s \in Trays : tray' = [tray EXCEPT ![s]["restore_staged"] = "resolved"]
      BY <2>3 DEF MarksLogRead
    <3> QED
      BY <3>1 DEF BackupsInv, BackupsForms
  <2> QED
    BY <2>1, <2>2, <2>3 DEF RunNow, DeleteBackup, DeletesRow, ConversationBegins, Decays, NextDay
<1>3. Dated(backups')
  <2>1. CASE DeletesRow
    BY <2>1, AtEaseIs DEF DeletesRow, BackupsInv, BackupsForms, Dated, IsDated, NoBackup
  <2>2. CASE backups' = backups
    BY <2>2 DEF BackupsInv, BackupsForms
  <2> QED
    BY <2>1, <2>2 DEF RunNow, DeleteBackup, StageRestore, ConversationBegins, Decays, NextDay, MarksLogRead, library
<1>4. today' \in Nat
  <2>1. today' \in {today, today + 1}
    BY DEF RunNow, DeleteBackup, DeletesRow, StageRestore, ConversationBegins, Decays, NextDay, MarksLogRead
  <2> QED
    BY <2>1 DEF BackupsInv, BackupsForms
<1>5. ScriptFollows'
  <2>1. CASE up
    BY <1>1, <2>1 DEF BackupsInv, ScriptFollows
  <2>2. CASE data' = data /\ staged' = staged
    BY <1>1, <2>2 DEF BackupsInv, ScriptFollows
  <2> QED
    BY <2>1, <2>2 DEF RunNow, DeleteBackup, DeletesRow, StageRestore, ConversationBegins, Decays, NextDay,
                      MarksLogRead, pending
<1> QED
  BY <1>1, <1>2, <1>3, <1>4, <1>5, NightWaits

LEMMA ScriptKeeps ==
  ASSUME BackupsInv, PicksArchive \/ Declines \/ Loads \/ Unstages
  PROVE  Going
<1>1. runs' = runs /\ held' = held /\ tray' = tray /\ today' = today /\ up' = up
  BY DEF PicksArchive, Declines, Loads, Unstages, library
<1>2. Dated(backups')
  <2>1. CASE backups' = backups
    BY <2>1 DEF BackupsInv, BackupsForms
  <2>2. CASE Loads /\ backups' = held[script.id].backups
    <3>1. script.id \in Ids
      BY <2>2 DEF Loads, BackupsInv, ScriptFollows
    <3> QED
      BY <2>2, <3>1 DEF BackupsInv, BackupsForms, IsCopy
  <2> QED
    BY <2>1, <2>2 DEF PicksArchive, Declines, Loads, Unstages, library
<1>3. ScriptFollows'
  <2>1. CASE PicksArchive
    BY <2>1 DEF PicksArchive, BackupsInv, ScriptFollows
  <2>2. CASE Declines
    BY <2>2 DEF Declines, BackupsInv, ScriptFollows
  <2>3. CASE Loads
    BY <2>3 DEF Loads, BackupsInv, ScriptFollows
  <2>4. CASE Unstages
    BY <2>4 DEF Unstages, BackupsInv, ScriptFollows
  <2> QED
    BY <2>1, <2>2, <2>3, <2>4
<1> QED
  BY <1>1, <1>2, <1>3, TrayStays, NightWaits DEF BackupsInv, BackupsForms

LEMMA HaltsKeeps ==
  ASSUME BackupsInv, Halts
  PROVE  Going
<1>1. UNCHANGED <<backups, held, tray, today, data, staged>> /\ runs' = [k \in Kinds |-> AtEase]
  BY DEF Halts, library
<1>2. ScriptFollows'
  BY <1>1 DEF Halts, BackupsInv, ScriptFollows
<1>3. NightIsTold' /\ runs'["nightly"].gone = {}
  BY <1>1, AtEaseIs DEF NightIsTold, Kinds
<1> QED
  BY <1>1, <1>2, <1>3, AtEaseIs DEF Going, BackupsInv, BackupsForms

LEMMA BackupsInitInv == BackupsInit => BackupsInv
<1> SUFFICES ASSUME BackupsInit PROVE BackupsInv
  OBVIOUS
<1>1. IsDated(NoBackup)
  BY DEF IsDated, NoBackup
<1>2. BackupsForms
  BY <1>1, AtEaseIs DEF BackupsInit, BackupsForms, Dated
<1>3. NightIsTold
  BY AtEaseIs DEF BackupsInit, NightIsTold, Kinds
<1>4. ScriptFollows
  BY DEF BackupsInit, ScriptFollows
<1> QED
  BY <1>2, <1>3, <1>4 DEF BackupsInv

LEMMA BackupsStep == BackupsInv /\ [BackupsNext]_backupVars => BackupsInv' /\ (Going \/ Prunes)
<1> SUFFICES ASSUME BackupsInv, [BackupsNext]_backupVars PROVE BackupsInv' /\ (Going \/ Prunes)
  OBVIOUS
<1>1. CASE UNCHANGED backupVars
  <2>1. UNCHANGED <<backups, held, data, staged, script, tray, today, up, runs>>
    BY <1>1 DEF backupVars
  <2>2. ScriptFollows' /\ Dated(backups') /\ today' \in Nat
    BY <2>1 DEF BackupsInv, ScriptFollows, BackupsForms
  <2> QED
    BY <2>1, <2>2, TrayStays, NightWaits DEF Going
<1>2. CASE Night \/ RunsJob
  <2>1. "nightly" \in Kinds /\ "manual" \in Kinds
    BY DEF Kinds
  <2> QED
    BY <1>2, <2>1, StartsKeeps DEF Night, RunsJob, Going
<1>3. ASSUME NEW k \in Kinds, DumpsThreads(k) \/ DumpsLines(k) \/ Seals(k) \/ Breaks(k) \/ Concludes(k)
      PROVE  Going
  BY <1>3, DumpsKeeps, SealsKeeps, BreaksKeeps, ConcludesKeeps
<1>4. ASSUME NEW t \in Trays, Tells(t) \/ DealsWith(t) PROVE Going
  BY <1>4, TellsKeeps, DealsWithKeeps
<1> QED
  BY <1>1, <1>2, <1>3, <1>4, NightGoesOn, PrunesKeeps, RoutesKeep, ScriptKeeps, HaltsKeeps
     DEF BackupsNext, Going

\* The invariant of the backups.
THEOREM BackupsHold == BackupsSpec => []BackupsInv
<1>1. BackupsInit => BackupsInv
  BY BackupsInitInv
<1>2. BackupsInv /\ [BackupsNext]_backupVars => BackupsInv'
  BY BackupsStep
<1> QED
  BY <1>1, <1>2, PTL DEF BackupsSpec

\* Whoever was told of a bad night has it waiting, or has dealt with it since, whatever
\* else the installation does and wherever it stops.
THEOREM NightsAreTold == BackupsSpec => []NightIsTold
<1>1. BackupsInv => NightIsTold
  BY DEF BackupsInv
<1> QED
  BY <1>1, BackupsHold, PTL

\* Pruning takes nothing that was promised, and never the last verified backup, for any
\* windows, any number of backups and days, and whatever overlaps it.
THEOREM RetentionIsKept == BackupsSpec => RetentionHolds
<1>1. ASSUME BackupsInv, [BackupsNext]_backupVars,
             runs'["nightly"].gone # runs["nightly"].gone, runs'["nightly"].gone # {}
      PROVE  /\ \A i \in runs'["nightly"].gone : ~Promised(i)
             /\ (\E i \in Ids : backups[i].status = "ok") =>
                  \E i \in Ids \ runs'["nightly"].gone : backups[i].status = "ok"
  <2>1. Prunes
    BY <1>1, BackupsStep DEF Going
  <2>2. runs'["nightly"].gone = {i \in Ids : backups[i] # NoBackup} \ Keep(backups)
    BY <1>1, <2>1, PrunesKeeps
  <2> QED
    BY <1>1, <2>2, KeepKeeps DEF BackupsInv
<1>2. BackupsInv /\ [BackupsNext]_backupVars =>
        [LET gone == runs'["nightly"].gone IN
         gone # runs["nightly"].gone /\ gone # {}
           => /\ \A i \in gone : ~Promised(i)
              /\ (\E i \in Ids : backups[i].status = "ok") => \E i \in Ids \ gone : backups[i].status = "ok"]_backupVars
  BY <1>1
<1> QED
  BY <1>2, BackupsHold, PTL DEF BackupsSpec, RetentionHolds

\* A restore lands whole or not at all, and its request is there until it has, wherever
\* the script stops.
THEOREM RestoresAreWhole == BackupsSpec => RestoreIsWhole
<1>1. ASSUME BackupsInv, [BackupsNext]_backupVars
      PROVE  /\ data' # data /\ ~up
                  => /\ script.at = "opened"
                     /\ data'.threads = held[script.id].threads /\ data'.lines = held[script.id].lines
             /\ staged # 0 /\ staged' = 0 => data.origin = staged
  <2>1. Loads \/ ConversationBegins \/ data' = data
    BY <1>1 DEF BackupsNext, Night, NightWithoutTarget, Told, Prunes, ForgetsRows, RunNow, RunsJob, Starts,
                DumpsThreads, DumpsLines, Seals, Breaks, Concludes, Tells, DealsWith, MarksLogRead, DeleteBackup,
                DeletesRow, StageRestore, PicksArchive, Declines, Unstages, Decays, NextDay, Halts, backupVars
  <2>2. Unstages \/ StageRestore \/ staged' = staged
    BY <1>1 DEF BackupsNext, Night, NightWithoutTarget, Told, Prunes, ForgetsRows, RunNow, RunsJob, Starts,
                DumpsThreads, DumpsLines, Seals, Breaks, Concludes, Tells, DealsWith, MarksLogRead, DeleteBackup,
                DeletesRow, PicksArchive, Declines, Loads, ConversationBegins, Decays, NextDay, Halts, backupVars,
                pending
  <2>3. Unstages => staged = 0 \/ data.origin = staged
    BY <1>1 DEF Unstages, BackupsInv, ScriptFollows
  <2>4. StageRestore => staged' # 0
    BY BackupsAssumption DEF StageRestore, Ids
  <2>5. ConversationBegins => up
    BY DEF ConversationBegins
  <2>6. Loads /\ data' # data => /\ script.at = "opened"
                                /\ data'.threads = held[script.id].threads /\ data'.lines = held[script.id].lines
    BY DEF Loads
  <2> QED
    BY <2>1, <2>2, <2>3, <2>4, <2>5, <2>6
<1>2. BackupsInv /\ [BackupsNext]_backupVars =>
        [/\ data' # data /\ ~up
              => /\ script.at = "opened"
                 /\ data'.threads = held[script.id].threads /\ data'.lines = held[script.id].lines
         /\ staged # 0 /\ staged' = 0 => data.origin = staged]_backupVars
  BY <1>1
<1> QED
  BY <1>2, BackupsHold, PTL DEF BackupsSpec, RestoreIsWhole

(***************************************************************************)
(* Settings.                                                               *)
(***************************************************************************)
\* Every submission has a row of its own, and works on no key that its form left out.
SavesForms ==
  /\ saves = [w \in Saves |-> saves[w]]
  /\ \A w \in Saves : saves[w] = [f \in {"at", "sent", "found", "left"} |-> saves[w][f]]

LEMMA SubmitsKeeps ==
  ASSUME SavesForms, NEW w \in Saves, Submits(w)
  PROVE  SavesForms' /\ saves'[w].at \in {"refused", "reads"} /\ \A v \in Saves : v # w => saves'[v] = saves[v]
<1>1. PICK s, l : \/ saves' = [saves EXCEPT ![w] = [Blank EXCEPT !.at = "refused"]]
                  \/ saves' = [saves EXCEPT ![w] = [Blank EXCEPT !.at = "reads", !.sent = s, !.left = l]]
  <2>1. PICK a \in Sent \ {"mask"}, c \in Sent, declared \in BOOLEAN :
          LET sent == [k \in Keys |-> IF k = "address" THEN a ELSE c] IN
          saves' = [saves EXCEPT ![w] =
            IF ~declared \/ (c # "absent" /\ ~HasKey)
            THEN [Blank EXCEPT !.at = "refused"]
            ELSE [Blank EXCEPT !.at = "reads", !.sent = sent, !.left = WorkedOn(sent)]]
    BY DEF Submits
  <2> QED
    BY <2>1
<1> QED
  BY <1>1 DEF SavesForms, Blank

LEMMA FindsKeeps ==
  ASSUME SavesForms, NEW w \in Saves, NEW k \in Keys, Finds(w, k)
  PROVE  SavesForms' /\ \A v \in Saves : saves'[v].at = saves[v].at
<1>1. PICK row : saves' = [saves EXCEPT ![w].left = @ \ {k}, ![w].found[k] = row]
  BY DEF Finds
<1> QED
  BY <1>1 DEF SavesForms

LEMMA SavesAllKeeps ==
  ASSUME SavesForms, NEW w \in Saves, SavesAll(w)
  PROVE  /\ SavesForms' /\ \A v \in Saves : v # w => saves'[v] = saves[v]
         /\ saves[w].sent["credential"] = "mask" => settings'["credential"] = settings["credential"]
<1>1. \E a : saves' = [saves EXCEPT ![w].at = a]
  BY DEF SavesAll
<1>2. ASSUME saves[w].sent["credential"] = "mask" PROVE settings'["credential"] = settings["credential"]
  <2>1. "credential" \in Keys /\ "credential" \notin WorkedOn(saves[w].sent)
    BY <1>2 DEF Keys, WorkedOn
  <2> QED
    BY <2>1 DEF SavesAll
<1> QED
  BY <1>1, <1>2 DEF SavesForms

LEMMA SettingsStep ==
  ASSUME SavesForms, [SettingsNext]_settingVars
  PROVE  /\ SavesForms'
         /\ \A w \in Saves : saves[w].at = "reads" /\ saves'[w].at = "saved" /\ saves[w].sent["credential"] = "mask"
              => settings'["credential"] = settings["credential"]
<1>1. CASE saves' = saves
  BY <1>1 DEF SavesForms
<1>2. ASSUME NEW w \in Saves, Submits(w) \/ SavesAll(w) \/ \E k \in Keys : Finds(w, k)
      PROVE  /\ SavesForms'
             /\ \A v \in Saves : saves[v].at = "reads" /\ saves'[v].at = "saved" /\ saves[v].sent["credential"] = "mask"
                  => settings'["credential"] = settings["credential"]
  BY <1>2, SubmitsKeeps, FindsKeeps, SavesAllKeeps
<1> QED
  BY <1>1, <1>2 DEF SettingsNext, UsesAddress, UsesCredential, IsAnswered, settingVars

\* A form with a masked credential leaves the credential that is stored, whatever other
\* forms have saved since its screen was opened.
THEOREM EchoesAreHarmless == SettingsSpec => EchoKeepsTheCredential
<1>1. SettingsInit => SavesForms
  BY DEF SettingsInit, SavesForms, Blank
<1>2. SavesForms /\ [SettingsNext]_settingVars => SavesForms'
  BY SettingsStep
<1>3. SavesForms /\ [SettingsNext]_settingVars =>
        [\A w \in Saves :
           saves[w].at = "reads" /\ saves'[w].at = "saved" /\ saves[w].sent["credential"] = "mask"
             => settings'["credential"] = settings["credential"]]_settingVars
  BY SettingsStep
<1> QED
  BY <1>1, <1>2, <1>3, PTL DEF SettingsSpec, EchoKeepsTheCredential
=============================================================================
