------------------------------- MODULE Links -------------------------------
(***************************************************************************)
(* The connections the process keeps to the platforms: a supervisor that   *)
(* compares the channel's row with what runs, the connections it starts    *)
(* and cancels, IRC's register of open sessions, and the health of the     *)
(* channel with its alert in the tray.                                     *)
(*                                                                         *)
(* How long a connection waits before it tries again is left out.          *)
(***************************************************************************)
EXTENDS Cards

CONSTANTS LinkKinds,       \* the channels that dial out
          MaxConnections,  \* bound: connections alive or closing at once
          MaxFaults        \* bound: connections and reports that fail, restarts

ASSUME LinksAssumption == MaxConnections \in Nat \ {0} /\ MaxFaults \in Nat

VARIABLES
  wanted,   \* what the supervisor's pass read: the credentials to run, or none
  running,  \* the connection the supervisor knows of and what it was started for
  conn,     \* the connections
  session,  \* _SESSIONS[channel]: the connection IRC sends through
  report,   \* _REPORTS[channel]
  alerts,   \* unanswered alerts that the channel is down
  faults    \* how much has gone wrong

linkVars == <<wanted, running, conn, session, report, alerts, faults>>

Connections == 1..MaxConnections
Asking      == {"signal", "matrix"}

Gone == [at |-> "done", with |-> "none", off |-> FALSE, last |-> FALSE]
None == [conn |-> 0, with |-> "none"]

LinksInit ==
  /\ CardsInit
  /\ wanted = "unread"
  /\ running = None
  /\ conn = [c \in Connections |-> Gone]
  /\ session = 0
  /\ report = "none"
  /\ alerts = 0
  /\ faults = 0

LinksTypeOK ==
  /\ CardsTypeOK
  /\ running.conn \in 0..MaxConnections /\ session \in 0..MaxConnections
  /\ report \in {"none", "ok", "down"}
  /\ \A c \in Connections : conn[c].at \in
       {"starting", "opening", "open", "recovering", "serving", "dropped", "alerting",
        "closing", "waiting", "done"}

Fault == faults < MaxFaults /\ faults' = faults + 1

Raised == IF alerts = 0 THEN 1 ELSE alerts

(***************************************************************************)
(* The supervisor.                                                         *)
(***************************************************************************)
\* usable_channels: a row that cannot be decrypted is reported and left out. The channels
\* with their own code also leave out a row without credentials.
SupervisorReads ==
  /\ wanted = "unread"
  /\ IF row.active /\ Unreadable(row)
     THEN /\ wanted' = "no"
          /\ report' = "down"
          /\ alerts' = IF report = "down" THEN alerts ELSE Raised
     ELSE /\ wanted' = IF row.active /\ (card \in Declared \/ HasSecret(row))
                       THEN row.secret ELSE "no"
          /\ UNCHANGED <<report, alerts>>
  /\ UNCHANGED <<cardVars, running, conn, session, faults>>

\* A mutant: a connection keeps running on credentials that were replaced.
SupervisorActsOnGone ==
  /\ wanted # "unread"
  /\ LET ends == running.conn # 0 /\ (wanted = "no" \/ conn[running.conn].at = "done")
         stopped == IF ends THEN [conn EXCEPT ![running.conn].off = TRUE] ELSE conn
     IN IF wanted = "no" \/ (running.conn # 0 /\ ~ends)
        THEN conn' = stopped /\ running' = IF ends THEN None ELSE running
        ELSE \E c \in Connections :
               /\ conn[c].at = "done"
               /\ conn' = [stopped EXCEPT ![c] = [Gone EXCEPT !.at = "starting", !.with = wanted]]
               /\ running' = [conn |-> c, with |-> wanted]
  /\ wanted' = "unread"
  /\ UNCHANGED <<cardVars, session, report, alerts, faults>>

\* What is gone, has other credentials or has ended is cancelled, and what is missing is
\* started.
SupervisorActs ==
  /\ wanted # "unread"
  /\ LET ends == running.conn # 0
                 /\ (wanted # running.with \/ conn[running.conn].at = "done")
         stopped == IF ends THEN [conn EXCEPT ![running.conn].off = TRUE] ELSE conn
     IN IF wanted = "no" \/ (running.conn # 0 /\ ~ends)
        THEN conn' = stopped /\ running' = IF ends THEN None ELSE running
        ELSE \E c \in Connections :
               /\ conn[c].at = "done"
               /\ conn' = [stopped EXCEPT ![c] = [Gone EXCEPT !.at = "starting", !.with = wanted]]
               /\ running' = [conn |-> c, with |-> wanted]
  /\ wanted' = "unread"
  /\ UNCHANGED <<cardVars, session, report, alerts, faults>>

(***************************************************************************)
(* A connection. Discord, Slack and Mattermost hold the credentials they   *)
(* were started with; IRC reads the row when it opens, Signal and Matrix   *)
(* before every request, and they end when the channel is off.             *)
(***************************************************************************)
Ended(c)     == conn' = [conn EXCEPT ![c] = Gone]
Moves(c, at) == conn' = [conn EXCEPT ![c].at = at]
Goes(c, from) == conn[c].at = from /\ ~conn[c].off

Dials(c) ==
  /\ card \notin Asking \cup {"irc"}
  /\ Goes(c, "starting")
  /\ Moves(c, "opening")
  /\ UNCHANGED <<cardVars, wanted, running, session, report, alerts, faults>>

ReadsRow(c) ==
  /\ card \in Asking \cup {"irc"}
  /\ Goes(c, "starting")
  /\ conn' = [conn EXCEPT ![c] =
       IF Unreadable(row) THEN [@ EXCEPT !.at = "dropped"]
       ELSE IF row.active THEN [@ EXCEPT !.at = "opening", !.with = row.secret]
       ELSE Gone]
  /\ UNCHANGED <<cardVars, wanted, running, session, report, alerts, faults>>

\* IRC's session is the one that sends from here on.
Accepted(c) ==
  /\ Goes(c, "opening")
  /\ Moves(c, "open")
  /\ session' = IF card = "irc" THEN c ELSE session
  /\ UNCHANGED <<cardVars, wanted, running, report, alerts, faults>>

\* An asking connection goes on to its next request.
Served == IF card \in Asking THEN "starting" ELSE "serving"

\* report_ok: the registry first, then the notice of a recovery.
ReportsOk(c) ==
  /\ Goes(c, "open")
  /\ report' = "ok"
  /\ Moves(c, IF report = "down" THEN "recovering" ELSE Served)
  /\ UNCHANGED <<cardVars, wanted, running, session, alerts, faults>>

TellsRecovery(c) ==
  /\ Goes(c, "recovering")
  /\ Moves(c, Served)
  /\ UNCHANGED <<cardVars, wanted, running, session, report, alerts, faults>>

Breaks(c) ==
  /\ \E from \in {"opening", "open", "recovering", "serving"} : Goes(c, from)
  /\ Fault
  /\ Moves(c, "dropped")
  /\ UNCHANGED <<cardVars, wanted, running, session, report, alerts>>

\* The gateway asks for a new connection.
Reconnects(c) ==
  /\ card \in {"discord", "slack"}
  /\ Goes(c, "serving")
  /\ Fault
  /\ Moves(c, "waiting")
  /\ UNCHANGED <<cardVars, wanted, running, session, report, alerts>>

\* An event arrives for a channel that is off by now: IRC ends, the others wait for the
\* supervisor to end them.
HearsWhileOff(c) ==
  /\ card \notin Asking
  /\ Goes(c, "serving") /\ ~row.active
  /\ conn' = [conn EXCEPT ![c] = IF card = "irc" THEN [@ EXCEPT !.at = "closing", !.last = TRUE]
                                 ELSE [@ EXCEPT !.at = "waiting"]]
  /\ UNCHANGED <<cardVars, wanted, running, session, report, alerts, faults>>

AfterDrop == IF card = "irc" THEN "closing" ELSE "waiting"

\* report_down: the registry first, then the alert of an outage that is news.
ReportsDown(c) ==
  /\ Goes(c, "dropped")
  /\ report' = "down"
  /\ Moves(c, IF report = "down" THEN AfterDrop ELSE "alerting")
  /\ UNCHANGED <<cardVars, wanted, running, session, alerts, faults>>

\* A mutant: the alert is raised whether or not one stands unanswered.
AlertsAgain(c) ==
  /\ Goes(c, "alerting")
  /\ alerts' = alerts + 1
  /\ Moves(c, AfterDrop)
  /\ UNCHANGED <<cardVars, wanted, running, session, report, faults>>

Alerts(c) ==
  /\ Goes(c, "alerting")
  /\ alerts' = Raised
  /\ Moves(c, AfterDrop)
  /\ UNCHANGED <<cardVars, wanted, running, session, report, faults>>

\* The alert cannot be stored: that ends the connection's task.
AlertFails(c) ==
  /\ Goes(c, "alerting")
  /\ Fault
  /\ conn' = [conn EXCEPT ![c] = IF card = "irc" THEN [@ EXCEPT !.at = "closing", !.last = TRUE]
                                 ELSE Gone]
  /\ UNCHANGED <<cardVars, wanted, running, session, report, alerts>>

\* A mutant: an ended connection takes the channel's session away, whoever opened it.
ClosesAny(c) ==
  /\ conn[c].at = "closing"
  /\ session' = 0
  /\ IF conn[c].last \/ conn[c].off THEN Ended(c) ELSE Moves(c, "waiting")
  /\ UNCHANGED <<cardVars, wanted, running, report, alerts, faults>>

\* The finally of an IRC connection: its own session leaves the register and is closed.
Closes(c) ==
  /\ conn[c].at = "closing"
  /\ session' = IF session = c THEN 0 ELSE session
  /\ IF conn[c].last \/ conn[c].off THEN Ended(c) ELSE Moves(c, "waiting")
  /\ UNCHANGED <<cardVars, wanted, running, report, alerts, faults>>

TriesAgain(c) ==
  /\ Goes(c, "waiting")
  /\ Moves(c, "starting")
  /\ UNCHANGED <<cardVars, wanted, running, session, report, alerts, faults>>

\* A cancellation lands wherever the task waits; what it was about to tell is not told.
Cancelled(c) ==
  /\ conn[c].off /\ conn[c].at \notin {"closing", "done"}
  /\ IF card = "irc" /\ conn[c].at \notin {"starting", "opening", "waiting"}
     THEN Moves(c, "closing") ELSE Ended(c)
  /\ UNCHANGED <<cardVars, wanted, running, session, report, alerts, faults>>

(***************************************************************************)
(* Around them.                                                            *)
(***************************************************************************)
\* Somebody answers the alert.
Answers ==
  /\ alerts > 0
  /\ alerts' = 0
  /\ UNCHANGED <<cardVars, wanted, running, conn, session, report, faults>>

\* The process ends and starts again: its tasks and what it knew are gone.
ProcessRestarts ==
  /\ Fault
  /\ wanted' = "unread" /\ running' = None /\ session' = 0 /\ report' = "none"
  /\ conn' = [c \in Connections |-> Gone]
  /\ ask' = [r \in Requests |-> IF ask[r].at \in {"staged", "admitted", "activating", "probing"}
                                THEN Over("refused") ELSE ask[r]]
  /\ token' = "none" /\ buyer' = [buyer EXCEPT !.at = "idle"]
  /\ UNCHANGED <<card, row, copies, app, switches, crossed, alerts>>

Connects(c) ==
  \/ Dials(c) \/ ReadsRow(c) \/ Accepted(c) \/ ReportsOk(c) \/ TellsRecovery(c)
  \/ ReportsDown(c) \/ Alerts(c) \/ Closes(c) \/ TriesAgain(c) \/ Cancelled(c)

Supervises == card \in LinkKinds /\ (SupervisorReads \/ SupervisorActs)

\* Bound: the requests to a card overlap where no connection runs.
Requested ==
  /\ CardsNext
  /\ card \in LinkKinds =>
       switches' = switches
       /\ Cardinality({r \in Requests : ask'[r].at \in {"staged", "admitted", "activating"}}) <= 1
       /\ \A r \in Requests : ask'[r].at # "probing"
  /\ UNCHANGED linkVars

LinksNext ==
  \/ Requested
  \/ Supervises
  \/ \E c \in Connections : Connects(c) \/ Breaks(c) \/ Reconnects(c) \/ HearsWhileOff(c)
                           \/ AlertFails(c)
  \/ Answers
  \/ ProcessRestarts

LinksSpec == LinksInit /\ [][LinksNext]_<<cardVars, linkVars>>

\* The supervisor passes every 15 seconds, the event loop runs its tasks, and a platform
\* that is asked answers.
LinksFairness ==
  /\ WF_<<cardVars, linkVars>>(Supervises)
  /\ \A c \in Connections : WF_<<cardVars, linkVars>>(Connects(c))

(***************************************************************************)
(* Properties.                                                             *)
(***************************************************************************)
\* What the card says comes to be: at last an active channel is served with the stored
\* credentials, and one that is off or unreadable is not served at all.
CardTakesEffect ==
  <>[](card \in LinkKinds /\ copies < 2 =>
        IF row.active /\ ~Unreadable(row) /\ (card \in Declared \/ HasSecret(row))
        THEN running.conn # 0 /\ conn[running.conn].at # "done"
             /\ conn[running.conn].with = row.secret
        ELSE \A c \in Connections : conn[c].at = "done")

\* An IRC connection that serves is the one its channel's answers are sent through: the
\* end of an older one does not take its session away.
ServingIsRegistered ==
  card = "irc" => \A c \in Connections :
    conn[c].at = "serving" /\ ~conn[c].off => session = c

\* However often the channel goes down, at most one unanswered alert says so.
OneAlert == alerts <= 1
=============================================================================
