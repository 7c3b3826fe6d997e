----------------------------- MODULE JobRunner -----------------------------
(***************************************************************************)
(* The scheduler and the job worker: api/jobs/runner.py over the tables of *)
(* api/models/jobs.py.                                                     *)
(*                                                                         *)
(* Every process of the installation runs one loop: the scheduled tasks    *)
(* that are due, then up to Limit queued jobs, then a sleep. A database    *)
(* statement or commit is one action; between two of them any other        *)
(* process may act, the clock may advance, or the process may die. What is *)
(* in a process's memory (its list of due tasks, the job it selected) is   *)
(* therefore kept apart from what is in the rows.                          *)
(*                                                                         *)
(* Time is relative: a row stores how many units remain until it is due,   *)
(* zero or less meaning due, and Tick lets one unit pass.                  *)
(***************************************************************************)
EXTENDS Integers, FiniteSets

CONSTANTS Worker,        \* the processes that run the loop
          Job,           \* rows of background_jobs
          Task,          \* names in scheduled_tasks
          MaxAttempts,   \* BackgroundJob.max_attempts
          Limit,         \* the `limit` of run_due_jobs
          Backoff,       \* Backoff[n]: units between attempt n and the next
          Delays,        \* delay_seconds that callers of enqueue use
          Interval,      \* Interval[t]: units between runs of task t
          FirstDelay,    \* first_run_delay of ensure_schedule
          Overdue,       \* bound: how far past due the order is remembered
          MaxFaults      \* bound: crashes and failed commits in a behaviour

ASSUME JobRunnerAssumption ==
  /\ MaxAttempts \in Nat \ {0}
  /\ Limit \in Nat \ {0}
  /\ Backoff \in [1..MaxAttempts -> Nat]
  /\ Delays \subseteq Nat
  /\ Interval \in [Task -> Nat \ {0}]
  /\ FirstDelay \in Nat
  /\ Overdue \in Nat
  /\ MaxFaults \in Nat

NoRow == "norow"
Nothing == "nothing"

VARIABLES
  \* the rows of background_jobs
  status, attempts, jobWait,
  \* the rows of scheduled_tasks
  taskRow, taskWait, enabled,
  \* the memory of each process
  pc, hand, left, due, verdict,
  \* bookkeeping that no code reads
  completions,  \* how often a job's handler returned normally
  early,        \* jobs of which some attempt began before its backoff ended
  sinceStart,   \* units since a task was last started
  faults

jobRows  == <<status, attempts, jobWait>>
taskRows == <<taskRow, taskWait, enabled>>
memory   == <<pc, hand, left, due, verdict>>
history  == <<completions, early, sinceStart, faults>>
vars     == <<jobRows, taskRows, memory, history>>

JobStatus == {"none", "queued", "running", "done", "failed"}
Verdicts  == {"ok", "raised", "missing"}

Init ==
  /\ status = [j \in Job |-> "none"]
  /\ attempts = [j \in Job |-> 0]
  /\ jobWait = [j \in Job |-> 0]
  /\ taskRow = [t \in Task |-> FALSE]
  /\ taskWait = [t \in Task |-> 0]
  /\ enabled = [t \in Task |-> TRUE]
  /\ pc = [w \in Worker |-> "off"]
  /\ hand = [w \in Worker |-> Nothing]
  /\ left = [w \in Worker |-> 0]
  /\ due = [w \in Worker |-> {}]
  /\ verdict = [w \in Worker |-> Nothing]
  /\ completions = [j \in Job |-> 0]
  /\ early = {}
  /\ sinceStart = [t \in Task |-> Interval[t]]
  /\ faults = 0

Goto(w, label) == pc' = [pc EXCEPT ![w] = label]

----------------------------------------------------------------------------
\* The callers of enqueue, the operator and the clock

\* enqueue: the row appears when the caller's transaction commits.
Enqueue(j, d) ==
  /\ status[j] = "none"
  /\ status' = [status EXCEPT ![j] = "queued"]
  /\ jobWait' = [jobWait EXCEPT ![j] = d]
  /\ UNCHANGED <<attempts, taskRows, memory, history>>

\* The operator turns a scheduled task off or on again.
SetEnabled(t) ==
  /\ taskRow[t]
  /\ enabled' = [enabled EXCEPT ![t] = ~@]
  /\ UNCHANGED <<jobRows, taskRow, taskWait, memory, history>>

Older(n) == IF n > -Overdue THEN n - 1 ELSE n

Tick ==
  /\ jobWait' = [j \in Job |-> IF status[j] = "queued" THEN Older(jobWait[j])
                               ELSE jobWait[j]]
  /\ taskWait' = [t \in Task |-> IF taskRow[t] /\ taskWait[t] > 0
                                 THEN taskWait[t] - 1 ELSE taskWait[t]]
  /\ sinceStart' = [t \in Task |-> IF sinceStart[t] < Interval[t]
                                   THEN sinceStart[t] + 1 ELSE sinceStart[t]]
  /\ UNCHANGED <<status, attempts, taskRow, enabled, memory,
                 completions, early, faults>>

----------------------------------------------------------------------------
\* The life of a process

\* lifespan: ensure_schedule for each core task that has no row, then loop().
Start(w) ==
  /\ pc[w] = "off"
  /\ Goto(w, "wake")
  /\ taskRow' = [t \in Task |-> TRUE]
  /\ taskWait' = [t \in Task |-> IF taskRow[t] THEN taskWait[t] ELSE FirstDelay]
  /\ UNCHANGED <<jobRows, enabled, hand, left, due, verdict, history>>

Forget(w) ==
  /\ hand' = [hand EXCEPT ![w] = Nothing]
  /\ left' = [left EXCEPT ![w] = 0]
  /\ due' = [due EXCEPT ![w] = {}]
  /\ verdict' = [verdict EXCEPT ![w] = Nothing]

\* The process dies, or the lifespan cancels the loop.
Crash(w) ==
  /\ pc[w] # "off"
  /\ faults < MaxFaults
  /\ faults' = faults + 1
  /\ Goto(w, "off")
  /\ Forget(w)
  /\ UNCHANGED <<jobRows, taskRows, completions, early, sinceStart>>

\* loop: asyncio.sleep(interval) is over.
Wake(w) ==
  /\ pc[w] = "sleep"
  /\ Goto(w, "wake")
  /\ UNCHANGED <<jobRows, taskRows, hand, left, due, verdict, history>>

----------------------------------------------------------------------------
\* run_due_tasks

\* The SELECT that reads every due row at once.
LoadDueTasks(w) ==
  /\ pc[w] = "wake"
  /\ due' = [due EXCEPT ![w] =
               {t \in Task : taskRow[t] /\ enabled[t] /\ taskWait[t] <= 0}]
  /\ Goto(w, "tasks")
  /\ UNCHANGED <<jobRows, taskRows, hand, left, verdict, history>>

\* A row of the list is claimed by moving its next run forward, whatever the
\* table says by now.
ClaimTask(w, t) ==
  /\ pc[w] = "tasks"
  /\ t \in due[w]
  /\ due' = [due EXCEPT ![w] = @ \ {t}]
  /\ taskWait' = [taskWait EXCEPT ![t] = Interval[t]]
  /\ UNCHANGED <<jobRows, taskRow, enabled, left, verdict>>
  /\ UNCHANGED <<completions, early, faults>>

RunTask(w, t) ==
  /\ ClaimTask(w, t)
  /\ sinceStart' = [sinceStart EXCEPT ![t] = 0]
  /\ hand' = [hand EXCEPT ![w] = t]
  /\ Goto(w, "task")

\* The registry holds no handler for the row (a disabled extension).
SkipTask(w, t) ==
  /\ ClaimTask(w, t)
  /\ UNCHANGED <<pc, hand, sinceStart>>

\* The handler returned or raised, and last_status was committed.
EndTask(w) ==
  /\ pc[w] = "task"
  /\ hand' = [hand EXCEPT ![w] = Nothing]
  /\ Goto(w, "tasks")
  /\ UNCHANGED <<jobRows, taskRows, left, due, verdict, history>>

\* The commit after the handler raises: the exception leaves run_due_tasks, so
\* loop() skips the rest of the list and this beat's jobs.
EndTaskFails(w) ==
  /\ pc[w] = "task"
  /\ faults < MaxFaults
  /\ faults' = faults + 1
  /\ Goto(w, "sleep")
  /\ Forget(w)
  /\ UNCHANGED <<jobRows, taskRows, completions, early, sinceStart>>

TasksDone(w) ==
  /\ pc[w] = "tasks"
  /\ due[w] = {}
  /\ left' = [left EXCEPT ![w] = Limit]
  /\ Goto(w, "claim")
  /\ UNCHANGED <<jobRows, taskRows, hand, due, verdict, history>>

----------------------------------------------------------------------------
\* run_due_jobs

\* Mutant: the query forgets next_attempt_at.
DueJobsNoClock == {j \in Job : status[j] = "queued"}

\* Mutant: only jobs that were never attempted are looked for.
DueJobsFirstTry == {j \in Job : status[j] = "queued" /\ jobWait[j] <= 0 /\ attempts[j] = 0}

DueJobs == {j \in Job : status[j] = "queued" /\ jobWait[j] <= 0}

\* ORDER BY next_attempt_at LIMIT 1
Candidates == {j \in DueJobs : \A k \in DueJobs : jobWait[j] <= jobWait[k]}

\* _claim_one's SELECT.
SelectJob(w) ==
  /\ pc[w] = "claim"
  /\ left[w] > 0
  /\ \E j \in Candidates : hand' = [hand EXCEPT ![w] = j]
  /\ Goto(w, "update")
  /\ UNCHANGED <<jobRows, taskRows, left, due, verdict, history>>

\* Nothing is due, or the limit is used up: this beat's jobs are over.
NoMoreJobs(w) ==
  /\ pc[w] = "claim"
  /\ left[w] = 0 \/ DueJobs = {}
  /\ left' = [left EXCEPT ![w] = 0]
  /\ Goto(w, "sleep")
  /\ UNCHANGED <<jobRows, taskRows, hand, due, verdict, history>>

\* Mutant: an unconditional UPDATE.
ClaimableAnyway(j) == TRUE

\* The WHERE clause of _claim_one's UPDATE.
StillClaimable(j) == status[j] = "queued"

\* The UPDATE changed one row, and the commit made this process its owner.
ClaimJob(w) ==
  LET j == hand[w] IN
  /\ pc[w] = "update"
  /\ StillClaimable(j)
  /\ status' = [status EXCEPT ![j] = "running"]
  /\ attempts' = [attempts EXCEPT ![j] = @ + 1]
  /\ early' = IF jobWait[j] > 0 THEN early \cup {j} ELSE early
  /\ left' = [left EXCEPT ![w] = @ - 1]
  /\ Goto(w, "attempt")
  /\ UNCHANGED <<jobWait, taskRows, hand, due, verdict,
                 completions, sinceStart, faults>>

\* rowcount was zero: _claim_one returns None and run_due_jobs breaks.
LoseClaim(w) ==
  /\ pc[w] = "update"
  /\ ~StillClaimable(hand[w])
  /\ hand' = [hand EXCEPT ![w] = Nothing]
  /\ left' = [left EXCEPT ![w] = 0]
  /\ Goto(w, "sleep")
  /\ UNCHANGED <<jobRows, taskRows, due, verdict, history>>

\* _attempt up to the handler's end: it returned, it raised, or the registry
\* has none for this kind.
RunHandler(w, v) ==
  /\ pc[w] = "attempt"
  /\ verdict' = [verdict EXCEPT ![w] = v]
  /\ completions' = IF v = "ok" THEN [completions EXCEPT ![hand[w]] = @ + 1]
                    ELSE completions
  /\ Goto(w, "settle")
  /\ UNCHANGED <<jobRows, taskRows, hand, left, due, early, sinceStart, faults>>

\* Mutant: one attempt too many.
OutcomeOffByOne(j, v) ==
  IF v = "ok" THEN "done"
  ELSE IF v = "missing" \/ attempts[j] > MaxAttempts THEN "failed" ELSE "queued"

Outcome(j, v) ==
  IF v = "ok" THEN "done"
  ELSE IF v = "missing" \/ attempts[j] >= MaxAttempts THEN "failed" ELSE "queued"

\* _attempt's commit: done, failed for good, or queued again after a backoff.
Settle(w) ==
  LET j == hand[w]
      next == Outcome(j, verdict[w])
  IN
  /\ pc[w] = "settle"
  /\ status' = [status EXCEPT ![j] = next]
  /\ jobWait' = IF next = "queued"
                THEN [jobWait EXCEPT ![j] = Backoff[attempts[j]]] ELSE jobWait
  /\ hand' = [hand EXCEPT ![w] = Nothing]
  /\ verdict' = [verdict EXCEPT ![w] = Nothing]
  /\ Goto(w, "claim")
  /\ UNCHANGED <<attempts, taskRows, left, due, history>>

\* The commit raises (a handler that left the session's transaction broken, a
\* database that is away): the row keeps saying "running".
SettleFails(w) ==
  /\ pc[w] = "settle"
  /\ faults < MaxFaults
  /\ faults' = faults + 1
  /\ Goto(w, "sleep")
  /\ Forget(w)
  /\ UNCHANGED <<jobRows, taskRows, completions, early, sinceStart>>

----------------------------------------------------------------------------
\* What a living process does next when nothing goes wrong.
Step(w) ==
  \/ Wake(w) \/ LoadDueTasks(w) \/ TasksDone(w) \/ EndTask(w)
  \/ \E t \in Task : RunTask(w, t) \/ SkipTask(w, t)
  \/ SelectJob(w) \/ NoMoreJobs(w) \/ ClaimJob(w) \/ LoseClaim(w)
  \/ \E v \in Verdicts : RunHandler(w, v)
  \/ Settle(w)

Fault(w) == Crash(w) \/ EndTaskFails(w) \/ SettleFails(w)

Next ==
  \/ Tick
  \/ \E j \in Job, d \in Delays : Enqueue(j, d)
  \/ \E t \in Task : SetEnabled(t)
  \/ \E w \in Worker : Start(w) \/ Step(w) \/ Fault(w)

Spec == Init /\ [][Next]_vars

\* Time passes, the supervisor starts a process that is down, and a process
\* that is up is scheduled; every handler returns or raises in the end. Nothing
\* says that a handler ever succeeds.
Fairness ==
  /\ WF_vars(Tick)
  /\ \A w \in Worker : WF_vars(Start(w)) /\ WF_vars(Step(w))

FairSpec == Spec /\ Fairness

----------------------------------------------------------------------------
\* Properties

TypeOK ==
  /\ status \in [Job -> JobStatus]
  /\ attempts \in [Job -> 0..MaxAttempts]
  /\ jobWait \in [Job -> Int]
  /\ taskRow \in [Task -> BOOLEAN]
  /\ taskWait \in [Task -> Nat]
  /\ enabled \in [Task -> BOOLEAN]
  /\ pc \in [Worker -> {"off", "sleep", "wake", "tasks", "task",
                        "claim", "update", "attempt", "settle"}]
  /\ hand \in [Worker -> Job \cup Task \cup {Nothing}]
  /\ left \in [Worker -> 0..Limit]
  /\ due \in [Worker -> SUBSET Task]
  /\ verdict \in [Worker -> Verdicts \cup {Nothing}]
  /\ completions \in [Job -> Nat]
  /\ early \subseteq Job
  /\ sinceStart \in [Task -> Nat]
  /\ faults \in 0..MaxFaults

Holds(w, j) == pc[w] \in {"attempt", "settle"} /\ hand[w] = j

\* "Two processes must never run one job twice" (the module's docstring): no
\* job is in the hands of two processes at a time.
OneAttemptAtATime ==
  \A j \in Job : \A u, w \in Worker : Holds(u, j) /\ Holds(w, j) => u = w

\* Nor one after the other: whatever crashes, is retried or is raced for, a
\* job's handler returns normally at most once in the life of the row.
CompletesAtMostOnce == \A j \in Job : completions[j] <= 1

\* A row is only ever `done` when its handler really returned, and a row that is
\* still queued has an attempt left and has not been completed.
StatusTellsTheTruth ==
  \A j \in Job :
    /\ status[j] = "done" => completions[j] = 1
    /\ status[j] = "queued" => completions[j] = 0 /\ attempts[j] < MaxAttempts
    /\ status[j] = "failed" => completions[j] = 0

\* "Backoff between attempts" and "a task that crashes the process must not be retried in
\* a tight loop on restart": wherever the one process stops, no attempt begins before its
\* time has come, and two starts of a task are at least its interval apart. (Of several
\* processes neither holds: the claims do not compare the time again.)
NothingIsEarly ==
  [][/\ early' = {}
     /\ \A t \in Task : (\E w \in Worker : RunTask(w, t)) => sinceStart[t] >= Interval[t]]_vars

\* Done and failed are final: no late worker reopens or relabels a finished row.
FinishedIsFinal ==
  [][\A j \in Job : status[j] \in {"done", "failed"} => status'[j] = status[j]]_vars

\* JobRunner implements JobLedger: a row that says "running" while no process
\* works on it is a lost job.
Phase(j) ==
  CASE status[j] = "queued" -> "open"
    [] status[j] = "running" -> IF \E w \in Worker : Holds(w, j) THEN "held" ELSE "lost"
    [] OTHER -> status[j]

Ledger == INSTANCE JobLedger WITH phase <- [j \in Job |-> Phase(j)],
                                  tries <- attempts

KeepsLedger == Ledger!LedgerSpec

\* While the rows say the truth the queue drains: a queued job is done, failed for
\* good, or the one job a stop of its process left at "running" (run_due_jobs, loop).
EveryJobSettles ==
  \A j \in Job : (status[j] = "queued") ~> (Phase(j) \in {"done", "failed", "lost"})
=============================================================================
