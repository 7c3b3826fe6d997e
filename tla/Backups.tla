------------------------------ MODULE Backups ------------------------------
(***************************************************************************)
(* Taking, keeping, removing and restoring backups: api/backup/*, the      *)
(* routes of api/routes/backup.py, the nightly task and the run_backup job *)
(* of api/jobs/builtin.py, scripts/restore.py, and the notifications of    *)
(* api/notifications.py by which somebody hears of it.                     *)
(*                                                                         *)
(* A backup is named by the order in which it was started. The database is *)
(* one parent table and one child table: conversations and their lines.   *)
(***************************************************************************)
EXTENDS Naturals, FiniteSets, FiniteSetsExt

CONSTANTS Chores,       \* sets of operations examined together
          Trays,        \* the workspaces that are notified
          DailyKept,    \* DAILY_KEPT, in days
          WeeklyKept,   \* WEEKLY_KEPT, in days
          WeekDays,     \* days of a week
          LastDay,      \* bound: days that pass
          MaxTaken,     \* bound: backups
          NightsAndJobs(_), \* bound: backups started, of each set of operations
          MaxArrivals   \* bound: conversations that begin

ASSUME BackupsAssumption ==
  /\ {DailyKept, WeeklyKept, LastDay, MaxTaken, MaxArrivals} \subseteq Nat
  /\ DailyKept <= WeeklyKept /\ WeekDays \in Nat \ {0}
  /\ \A c \in Chores : NightsAndJobs(c) \in 0..MaxTaken

VARIABLES
  chores,    \* the operations of this behaviour
  backups,   \* the table of that name
  disk,      \* the files at the target
  held,      \* what each archive holds
  taken,     \* backups started so far
  data,      \* conversations and lines in the database, and the archive they came from
  queued,    \* a run_backup job waits
  runs,      \* the nightly task and the job
  removal,   \* a request to delete a backup
  staged,    \* var/restore-request.json: the backup to restore, 0 is no file
  script,    \* scripts/restore.py
  tray,      \* notifications
  today,
  up         \* the application runs

backupVars == <<chores, backups, disk, held, taken, data, queued, runs, removal, staged,
                script, tray, today, up>>
library    == <<backups, disk, held, taken>>
pending    == <<queued, removal, staged, script>>

Ids      == 1..MaxTaken
Kinds    == {"nightly", "manual"}
Messages == {"backup_failed", "backup_unverified", "backup_no_target", "restore_staged"}

NoBackup == [status |-> "none", kind |-> "none", day |-> 0]
NoArchive == [threads |-> 0, lines |-> 0, backups |-> [i \in Ids |-> NoBackup]]
AtEase   == [at |-> "idle", id |-> 0, copy |-> NoArchive, verdict |-> "none",
             left |-> {}, answered |-> {}, gone |-> {}]

BackupsInit ==
  /\ chores \in Chores
  /\ backups = [i \in Ids |-> NoBackup]
  /\ disk = [i \in Ids |-> "none"]
  /\ held = [i \in Ids |-> NoArchive]
  /\ taken = 0
  /\ data = [threads |-> 0, lines |-> 0, origin |-> 0]
  /\ queued = FALSE
  /\ runs = [k \in Kinds |-> AtEase]
  /\ removal = [at |-> "idle", id |-> 0]
  /\ staged = 0
  /\ script = [at |-> "idle", id |-> 0]
  /\ tray = [t \in Trays |-> [m \in Messages |-> "none"]]
  /\ today = 0
  /\ up = TRUE

BackupsTypeOK ==
  /\ \A i \in Ids : backups[i].status \in {"none", "running", "ok", "unverified", "failed"}
  /\ \A i \in Ids : disk[i] \in {"none", "partial", "whole", "spoiled"}
  /\ \A k \in Kinds : runs[k].at \in {"idle", "target", "lines", "seal", "verdict",
                                      "telling", "prune", "pruned"}
  /\ taken \in 0..MaxTaken /\ staged \in 0..MaxTaken /\ today \in 0..LastDay

Good(rows) == {i \in Ids : rows[i].status \in {"ok", "unverified"}}
Present(i) == backups[i].status \in {"ok", "unverified"} /\ disk[i] \in {"whole", "spoiled"}
Sets(k, r) == runs' = [runs EXCEPT ![k] = r]

\* The disk once some archives have been removed; and an archive that verify accepts.
Without(gone) == [i \in Ids |-> IF i \in gone THEN "none" ELSE disk[i]]
Verifies(i)   == disk[i] = "whole"

(***************************************************************************)
(* _keep.                                                                  *)
(***************************************************************************)
Age(rows, i)  == today - rows[i].day
Week(rows, i) == rows[i].day \div WeekDays

\* The newest of each day, and then of each week.
Daily(rows) ==
  LET recent == {i \in Good(rows) : Age(rows, i) <= DailyKept}
  IN  {i \in recent : \A j \in recent : rows[j].day = rows[i].day => j <= i}

Weekly(rows) ==
  LET older == {i \in Good(rows) : Age(rows, i) > DailyKept /\ Age(rows, i) <= WeeklyKept}
  IN  {i \in older : \A j \in older : Week(rows, j) = Week(rows, i) => j <= i}

\* A mutant: no floor below the windows.
Windows(rows) ==
  {i \in Good(rows) : rows[i].kind = "before_update"} \cup Daily(rows) \cup Weekly(rows)

Keep(rows) ==
  LET verified == {i \in Ids : rows[i].status = "ok"}
      kept     == {i \in Good(rows) : rows[i].kind = "before_update"} \cup Daily(rows) \cup Weekly(rows)
  IN  IF verified # {} /\ kept \cap verified = {} THEN kept \cup {Max(verified)} ELSE kept

(***************************************************************************)
(* Notifications.                                                          *)
(***************************************************************************)
\* A mutant: one that was dealt with still counts as open.
AlreadyOpenOnce(t, m) == tray[t][m] # "none"

\* _already_open.
AlreadyOpen(t, m) == tray[t][m] = "open"

\* raise_notification with skip_if_open: nothing is added beside one that is open.
Raised(t, m) == IF AlreadyOpen(t, m) THEN tray ELSE [tray EXCEPT ![t][m] = "open"]

\* resolve_notification, and mark_log_read, which leaves the decisions waiting.
DealsWith(t) ==
  /\ up /\ "deal" \in chores
  /\ \E m \in Messages \ {"restore_staged"} :
       /\ tray[t][m] = "open"
       /\ tray' = [tray EXCEPT ![t][m] = "resolved"]
  /\ runs' = [runs EXCEPT !["nightly"].answered = @ \cup {t}]
  /\ UNCHANGED <<chores, library, data, pending, today, up>>

MarksLogRead(t) ==
  /\ up /\ tray[t]["restore_staged"] = "open"
  /\ tray' = [tray EXCEPT ![t]["restore_staged"] = "resolved"]
  /\ UNCHANGED <<chores, library, data, pending, runs, today, up>>

(***************************************************************************)
(* run_backup.                                                             *)
(***************************************************************************)
\* The row is committed before anything else is tried.
Starts(k) ==
  /\ up /\ runs[k].at = "idle" /\ taken < NightsAndJobs(chores)
  /\ taken' = taken + 1
  /\ backups' = [backups EXCEPT ![taken + 1] = [status |-> "running", kind |-> k, day |-> today]]
  /\ Sets(k, [AtEase EXCEPT !.at = "target", !.id = taken + 1])
  /\ UNCHANGED <<chores, disk, held, data, removal, staged, script, tray, today, up>>

\* Once the directory has been resolved and probed, the tables are read one after the
\* other, in dependency order, while the application goes on writing them.
DumpsThreads(k) ==
  /\ runs[k].at = "target"
  /\ disk' = [disk EXCEPT ![runs[k].id] = "partial"]
  /\ Sets(k, [runs[k] EXCEPT !.at = "lines",
                              !.copy = [@ EXCEPT !.threads = data.threads, !.backups = backups]])
  /\ UNCHANGED <<chores, backups, held, taken, data, pending, tray, today, up>>

DumpsLines(k) ==
  /\ runs[k].at = "lines"
  /\ Sets(k, [runs[k] EXCEPT !.at = "seal", !.copy = [@ EXCEPT !.lines = data.lines]])
  /\ UNCHANGED <<chores, library, data, pending, tray, today, up>>

\* The partial file is renamed, then read back.
Seals(k) ==
  LET run == runs[k] IN
  /\ run.at = "seal"
  /\ held' = [held EXCEPT ![run.id] = run.copy]
  /\ \E outcome \in {"whole"} \cup ({"spoiled"} \cap chores) :
       /\ disk' = [disk EXCEPT ![run.id] = outcome]
       /\ Sets(k, [run EXCEPT !.at = "verdict", !.copy = NoArchive,
                              !.verdict = IF outcome = "whole" THEN "ok" ELSE "unverified"])
  /\ UNCHANGED <<chores, backups, taken, data, pending, tray, today, up>>

\* Anything raised on the way is the verdict "failed".
Breaks(k) ==
  /\ "breaks" \in chores
  /\ runs[k].at \in {"target", "lines", "seal"}
  /\ Sets(k, [runs[k] EXCEPT !.at = "verdict", !.copy = NoArchive, !.verdict = "failed"])
  /\ UNCHANGED <<chores, library, data, pending, tray, today, up>>

\* What comes after the verdict of a night: a failure and an archive that could not be
\* read back are told, then old backups are pruned.
After(run) ==
  IF run.verdict = "ok" THEN [run EXCEPT !.at = "prune"]
                        ELSE [run EXCEPT !.at = "telling", !.left = Trays]

\* The last commit. A row that was deleted meanwhile cannot be updated: that raises.
Concludes(k) ==
  LET run == runs[k] IN
  /\ run.at = "verdict"
  /\ IF backups[run.id] = NoBackup
     THEN Sets(k, AtEase) /\ UNCHANGED backups
     ELSE /\ backups' = [backups EXCEPT ![run.id].status = run.verdict]
          /\ Sets(k, IF k = "nightly" THEN After(run) ELSE AtEase)
  /\ UNCHANGED <<chores, disk, held, taken, data, pending, tray, today, up>>

(***************************************************************************)
(* backup_nightly, prune and the run_backup job.                           *)
(***************************************************************************)
Night == "night" \in chores /\ Starts("nightly") /\ UNCHANGED queued

\* Without a target there is nothing to try, and that is said once.
NightWithoutTarget ==
  /\ up /\ "untargeted" \in chores
  /\ runs["nightly"].at = "idle"
  /\ Sets("nightly", [AtEase EXCEPT !.at = "telling", !.left = Trays, !.verdict = "untargeted"])
  /\ UNCHANGED <<chores, library, data, pending, tray, today, up>>

Headline(run) ==
  CASE run.verdict = "failed"     -> "backup_failed"
    [] run.verdict = "unverified" -> "backup_unverified"
    [] OTHER                      -> "backup_no_target"

\* raise_for_installation, one workspace after the other.
Tells(t) ==
  LET run == runs["nightly"] IN
  /\ run.at = "telling" /\ t \in run.left
  /\ tray' = Raised(t, Headline(run))
  /\ Sets("nightly", [run EXCEPT !.left = @ \ {t}, !.answered = @ \ {t}])
  /\ UNCHANGED <<chores, library, data, pending, today, up>>

\* A failed night raises, one without a target returns; only the others prune.
Told ==
  LET run == runs["nightly"] IN
  /\ run.at = "telling" /\ run.left = {}
  /\ Sets("nightly", IF run.verdict = "unverified" THEN [run EXCEPT !.at = "prune"] ELSE AtEase)
  /\ UNCHANGED <<chores, library, data, pending, tray, today, up>>

\* The files of every row that is not kept go first, their rows in one commit.
Prunes ==
  LET run  == runs["nightly"]
      gone == {i \in Ids : backups[i] # NoBackup} \ Keep(backups)
  IN
  /\ run.at = "prune"
  /\ disk' = Without(gone \cap Good(backups))
  /\ Sets("nightly", [run EXCEPT !.at = "pruned", !.gone = gone])
  /\ UNCHANGED <<chores, backups, held, taken, data, pending, tray, today, up>>

ForgetsRows ==
  LET run == runs["nightly"] IN
  /\ run.at = "pruned"
  /\ backups' = [i \in Ids |-> IF i \in run.gone THEN NoBackup ELSE backups[i]]
  /\ Sets("nightly", AtEase)
  /\ UNCHANGED <<chores, disk, held, taken, data, pending, tray, today, up>>

RunNow ==
  /\ up /\ "manual" \in chores /\ ~queued
  /\ queued' = TRUE
  /\ UNCHANGED <<chores, library, data, runs, removal, staged, script, tray, today, up>>

\* A job that failed stays queued for another attempt.
RunsJob ==
  /\ queued
  /\ Starts("manual")
  /\ queued' \in {FALSE, "breaks" \in chores}

(***************************************************************************)
(* The routes.                                                             *)
(***************************************************************************)
\* delete_backup: the file, then the audit's commit, then the row.
DeleteBackup ==
  /\ up /\ "delete" \in chores /\ removal.at = "idle"
  /\ \E i \in Ids :
       /\ backups[i] # NoBackup
       /\ disk' = Without({i} \cap Good(backups))
       /\ removal' = [at |-> "removed", id |-> i]
  /\ UNCHANGED <<chores, backups, held, taken, data, queued, runs, staged, script, tray, today, up>>

DeletesRow ==
  /\ removal.at = "removed"
  /\ backups' = [backups EXCEPT ![removal.id] = NoBackup]
  /\ removal' = [at |-> "idle", id |-> 0]
  /\ UNCHANGED <<chores, disk, held, taken, data, queued, runs, staged, script, tray, today, up>>

\* stage_restore: present, dated and readable; the file is written and every workspace
\* is told.
StageRestore ==
  /\ up /\ "restore" \in chores
  /\ \E i \in Ids :
       /\ Present(i) /\ Verifies(i)
       /\ staged' = i
  /\ tray' = [t \in Trays |-> [tray[t] EXCEPT !["restore_staged"] = "open"]]
  /\ UNCHANGED <<chores, library, data, queued, runs, removal, script, today, up>>

(***************************************************************************)
(* scripts/restore.py, run while the application is stopped.               *)
(***************************************************************************)
\* The staged archive, or one that is named. It is verified before anything changes.
PicksArchive ==
  /\ ~up /\ "restore" \in chores /\ script.at = "idle"
  /\ \E i \in Ids :
       /\ staged = i \/ (staged = 0 /\ "named" \in chores)
       /\ Verifies(i)
       /\ script' = [at |-> "opened", id |-> i]
  /\ UNCHANGED <<chores, library, data, queued, runs, removal, staged, tray, today, up>>

\* The operator declines, or the archive is of a newer schema.
Declines ==
  /\ script.at = "opened"
  /\ script' = [at |-> "idle", id |-> 0]
  /\ UNCHANGED <<chores, library, data, queued, runs, removal, staged, tray, today, up>>

Restores(copy) == copy.lines <= copy.threads

\* A mutant: every table is committed on its own.
LoadsByTable ==
  LET copy == held[script.id] IN
  /\ script.at = "opened"
  /\ data' = [threads |-> copy.threads, origin |-> script.id,
              lines |-> IF Restores(copy) THEN copy.lines ELSE 0]
  /\ backups' = copy.backups
  /\ script' = [script EXCEPT !.at = "loaded"]
  /\ UNCHANGED <<chores, disk, held, taken, queued, runs, removal, staged, tray, today, up>>

\* _load: every table is emptied and filled in one transaction, which a line without
\* its conversation rolls back.
Loads ==
  LET copy == held[script.id] IN
  /\ script.at = "opened"
  /\ IF Restores(copy)
     THEN /\ data' = [threads |-> copy.threads, lines |-> copy.lines, origin |-> script.id]
          /\ backups' = copy.backups
          /\ script' = [script EXCEPT !.at = "loaded"]
     ELSE script' = [at |-> "idle", id |-> 0] /\ UNCHANGED <<data, backups>>
  /\ UNCHANGED <<chores, disk, held, taken, queued, runs, removal, staged, tray, today, up>>

\* The request is removed after the restore has been committed.
Unstages ==
  /\ script.at = "loaded"
  /\ staged' = 0
  /\ script' = [at |-> "idle", id |-> 0]
  /\ UNCHANGED <<chores, library, data, queued, runs, removal, tray, today, up>>

(***************************************************************************)
(* The rest of the installation.                                           *)
(***************************************************************************)
\* A conversation begins with its first line.
ConversationBegins ==
  /\ up /\ "arrivals" \in chores /\ data.threads < MaxArrivals
  /\ data' = [data EXCEPT !.threads = @ + 1, !.lines = @ + 1, !.origin = 0]
  /\ UNCHANGED <<chores, library, pending, runs, tray, today, up>>

\* A file that decays or goes home in somebody's bag.
Decays ==
  /\ "decays" \in chores
  /\ \E i \in Ids, worse \in {"spoiled", "none"} \cap chores :
       /\ disk[i] = "whole"
       /\ disk' = [disk EXCEPT ![i] = worse]
  /\ UNCHANGED <<chores, backups, held, taken, data, pending, runs, tray, today, up>>

NextDay ==
  /\ "days" \in chores /\ today < LastDay
  /\ today' = today + 1
  /\ UNCHANGED <<chores, library, data, pending, runs, tray, up>>

\* The process stops with whatever it was doing, and the script may be stopped too.
Halts ==
  /\ "stops" \in chores
  /\ IF up
     THEN up' = FALSE /\ script' = script
     ELSE up' = (script.at = "idle") /\ script' = [at |-> "idle", id |-> 0]
  /\ runs' = [k \in Kinds |-> AtEase]
  /\ removal' = [at |-> "idle", id |-> 0]
  /\ queued' = (queued /\ runs["manual"].at = "idle")
  /\ UNCHANGED <<chores, library, data, staged, tray, today>>

BackupsNext ==
  \/ Night \/ NightWithoutTarget \/ Told \/ Prunes \/ ForgetsRows \/ RunNow \/ RunsJob
  \/ \E k \in Kinds : DumpsThreads(k) \/ DumpsLines(k) \/ Seals(k) \/ Breaks(k) \/ Concludes(k)
  \/ \E t \in Trays : Tells(t) \/ DealsWith(t) \/ MarksLogRead(t)
  \/ DeleteBackup \/ DeletesRow \/ StageRestore
  \/ PicksArchive \/ Declines \/ Loads \/ Unstages
  \/ ConversationBegins \/ Decays \/ NextDay \/ Halts

BackupsSpec == BackupsInit /\ [][BackupsNext]_backupVars

(***************************************************************************)
(* Properties.                                                             *)
(***************************************************************************)
\* Retention keeps what the module says it keeps, whatever overlaps it: the newest good
\* backup of a recent day, the newest of a week inside the weekly window, and never
\* none of the verified ones (service.py, _keep and prune).
Promised(i) ==
  LET good     == Good(backups)
      verified == {j \in Ids : backups[j].status = "ok"}
  IN  \/ verified = {i}
      \/ /\ i \in good /\ Age(backups, i) <= DailyKept
         /\ \A j \in good : backups[j].day = backups[i].day => j <= i
      \/ /\ i \in good /\ Age(backups, i) <= WeeklyKept
         /\ \A j \in good : Week(backups, j) = Week(backups, i) => j <= i

RetentionHolds ==
  [][LET gone == runs'["nightly"].gone IN
     gone # runs["nightly"].gone /\ gone # {}
       => /\ \A i \in gone : ~Promised(i)
          /\ (\E i \in Ids : backups[i].status = "ok") => \E i \in Ids \ gone : backups[i].status = "ok"]_backupVars

\* When a night has failed or left an archive nobody could read, every workspace that
\* was told has it waiting, unless somebody dealt with it since (builtin.py,
\* _backup_nightly; notifications.py).
NightIsTold ==
  LET run == runs["nightly"] IN
  run.at = "telling"
    => \A t \in Trays \ run.left : tray[t][Headline(run)] = "open" \/ t \in run.answered

\* A restore lands whole or not at all: what the script leaves in the database is what
\* was there, or all of an archive that was verified. And the request for it is there
\* until it has been carried out, wherever the script stops (restore.py, _load and main).
RestoreIsWhole ==
  [][/\ data' # data /\ ~up
          => /\ script.at = "opened"
             /\ data'.threads = held[script.id].threads /\ data'.lines = held[script.id].lines
     /\ staged # 0 /\ staged' = 0 => data.origin = staged]_backupVars

\* "Read back and verified after writing, so it is known to restore" (archive.py,
\* verify): a backup that says ok can be restored. It cannot, when a line of a
\* conversation that began during the dump is read and the conversation was not.
KnownToRestore ==
  \A i \in Ids : backups[i].status = "ok" /\ disk[i] = "whole" => Restores(held[i])
=============================================================================
