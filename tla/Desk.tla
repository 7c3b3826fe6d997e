-------------------------------- MODULE Desk --------------------------------
(***************************************************************************)
(* The records an office keeps: rules, assistants, services, knowledge,    *)
(* contacts, numbers and webhooks (api/routes/*.py of those names), the    *)
(* audit of every change and the webhooks that are told about some of them *)
(* (api/webhooks.py and the webhook job of api/jobs/builtin.py).           *)
(*                                                                         *)
(* Every route is one of three operations on one table. What is particular *)
(* to it is a record: whether it checks for a clash, stamps the row, reads *)
(* it again after the commit, is audited and is told to webhooks.          *)
(***************************************************************************)
EXTENDS Naturals, FiniteSets

CONSTANTS Offices,   \* sets of routes examined together
          Hands,    \* requests
          Records,   \* ids a table can hold
          Names,     \* names, patterns and numbers
          MaxStops   \* bound: stops of the process

ASSUME DeskAssumption ==
  /\ MaxStops \in Nat
  /\ Records \subseteq Nat \ {0} /\ 1 \in Records
  /\ Names # {} /\ "none" \notin Names

VARIABLES
  office,    \* the routes of this behaviour
  tables,     \* rows of each table
  hands,     \* requests on their way
  done,       \* requests that are committed
  audited,    \* requests the audit speaks of
  deliveries, \* webhook jobs: [hook, about]
  told,       \* deliveries a receiver has accepted
  stops

deskVars == <<office, tables, hands, done, audited, deliveries, told, stops>>

Tables == {"rule", "assistant", "service", "source", "contact", "number", "webhook"}
Empty  == [name |-> "none", mode |-> "none", ref |-> 0]
Rows(t) == {i \in Records : tables[t][i] # Empty}
Unbound == [at |-> "idle", route |-> "none", id |-> 0, found |-> Empty, row |-> Empty]
Over    == [Unbound EXCEPT !.at = "over"]

(***************************************************************************)
(* The routes.                                                             *)
(***************************************************************************)
Route(table, op, checks, stamps, refreshes, audits, tells) ==
  [table |-> table, op |-> op, checks |-> checks, stamps |-> stamps, refreshes |-> refreshes,
   audits |-> audits, tells |-> tells]

add_rule         == Route("rule", "add", TRUE, FALSE, FALSE, TRUE, FALSE)
change_rule      == Route("rule", "edit", FALSE, FALSE, FALSE, TRUE, FALSE)
remove_rule      == Route("rule", "remove", FALSE, FALSE, FALSE, TRUE, FALSE)
add_assistant    == Route("assistant", "add", TRUE, FALSE, TRUE, TRUE, TRUE)
edit_assistant   == Route("assistant", "edit", TRUE, TRUE, TRUE, TRUE, TRUE)
delete_assistant == Route("assistant", "remove", FALSE, FALSE, FALSE, TRUE, TRUE)
add_service      == Route("service", "add", FALSE, FALSE, TRUE, TRUE, FALSE)
edit_service     == Route("service", "edit", FALSE, FALSE, TRUE, TRUE, FALSE)
remove_service   == Route("service", "remove", FALSE, FALSE, FALSE, TRUE, FALSE)
add_knowledge    == Route("source", "add", FALSE, FALSE, TRUE, TRUE, TRUE)
edit_knowledge   == Route("source", "edit", FALSE, TRUE, TRUE, TRUE, TRUE)
remove_knowledge == Route("source", "remove", FALSE, FALSE, FALSE, TRUE, TRUE)
add_contact      == Route("contact", "add", TRUE, FALSE, FALSE, FALSE, FALSE)
change_contact   == Route("contact", "edit", FALSE, FALSE, FALSE, FALSE, FALSE)
remove_contact   == Route("contact", "remove", FALSE, FALSE, FALSE, FALSE, FALSE)
add_number       == Route("number", "add", TRUE, FALSE, FALSE, TRUE, FALSE)
change_status    == Route("number", "edit", FALSE, FALSE, FALSE, TRUE, FALSE)
release_number   == Route("number", "remove", FALSE, FALSE, FALSE, TRUE, FALSE)
add_webhook      == Route("webhook", "add", FALSE, FALSE, TRUE, TRUE, FALSE)
edit_webhook     == Route("webhook", "edit", FALSE, TRUE, TRUE, TRUE, FALSE)
rotate_secret    == Route("webhook", "edit", FALSE, TRUE, TRUE, TRUE, FALSE)
remove_webhook   == Route("webhook", "remove", FALSE, FALSE, FALSE, TRUE, FALSE)

Routes == [add_rule |-> add_rule, change_rule |-> change_rule, remove_rule |-> remove_rule,
           add_assistant |-> add_assistant, edit_assistant |-> edit_assistant,
           delete_assistant |-> delete_assistant, add_service |-> add_service,
           edit_service |-> edit_service, remove_service |-> remove_service,
           add_knowledge |-> add_knowledge, edit_knowledge |-> edit_knowledge,
           remove_knowledge |-> remove_knowledge, add_contact |-> add_contact,
           change_contact |-> change_contact, remove_contact |-> remove_contact,
           add_number |-> add_number, change_status |-> change_status,
           release_number |-> release_number, add_webhook |-> add_webhook,
           edit_webhook |-> edit_webhook, rotate_secret |-> rotate_secret,
           remove_webhook |-> remove_webhook]

\* Names the database holds unique; of numbers only the route sees to it.
UniqueTables == {"rule", "assistant", "contact"}

\* What a row may say: a rule's action, a status, a price mode with its amount, an
\* assistant, whether a webhook is on and which secret it signs with.
Modes(t) == CASE t = "rule"    -> {"allow", "block"}
              [] t = "service" -> {"fixed", "on_request"}
              [] t \in {"assistant", "number", "webhook"} -> {"active", "disabled"}
              [] OTHER -> {"plain"}

Refs(t) == CASE t = "service" -> {0, 1, 2}
             [] t = "source"  -> {0} \cup Records
             [] t = "webhook" -> {1, 2}
             [] OTHER -> {0}

\* "On request" clears the amount; the other modes need one.
Priced(mode, amount) == IF mode = "on_request" THEN 0 ELSE amount
Sellable(row) == row.mode = "on_request" \/ row.ref # 0

\* The names of services, sources and webhooks are compared with nothing.
NamesOf(t) == IF t \in {"rule", "assistant", "contact", "number"} THEN Names ELSE {"any"}

\* The rows an add can write and the rows an edit can make of the one it found.
New(t) ==
  LET rows == [name : NamesOf(t), mode : Modes(t), ref : Refs(t)] IN
  CASE t = "service" -> {r \in rows : Sellable(r) /\ r.ref = Priced(r.mode, r.ref)}
    [] t = "webhook" -> {r \in rows : r.mode = "active"}
    [] t \in {"assistant", "number"} -> {r \in rows : r.mode = "active"}
    [] OTHER -> rows

Changed(name, row) ==
  LET t == Routes[name].table IN
  CASE name = "edit_service" ->
         {r \in [name : NamesOf(t), mode : Modes(t), ref : Refs(t)] :
            Sellable(r) /\ r.ref = Priced(r.mode, r.ref)}
    [] name = "rotate_secret" -> {[row EXCEPT !.ref = 3 - @]}
    [] name \in {"change_rule", "change_status"} -> {[row EXCEPT !.mode = m] : m \in Modes(t)}
    [] name = "edit_webhook" -> {[row EXCEPT !.mode = m] : m \in Modes(t)}
    [] OTHER -> [name : NamesOf(t), mode : Modes(t), ref : Refs(t)]

\* Every table begins with a row; the source is the assistant's, the service has a price.
Kept(t) == CHOOSE row \in New(t) : row.ref \in {0, 1} /\ (t \in {"source", "service"} => row.ref = 1)

DeskInit ==
  /\ office \in Offices
  /\ tables = [t \in Tables |-> [i \in Records |-> IF i = 1 THEN Kept(t) ELSE Empty]]
  /\ hands = [c \in Hands |-> Unbound]
  /\ done = {} /\ audited = {} /\ deliveries = {} /\ told = {} /\ stops = 0

(***************************************************************************)
(* A request.                                                              *)
(***************************************************************************)
\* _name_taken and its like.
Taken(t, name, but) == \E i \in Rows(t) \ {but} : tables[t][i].name = name

\* _assistant_ok.
AssistantOk(row) == row.ref = 0 \/ row.ref \in Rows("assistant")

\* The row is found, the request is judged, and what it would write is worked out.
Considers(c, name) ==
  LET way == Routes[name]
      t == way.table
      plan(i, old, row) ==
        /\ ~(way.checks /\ row.name # old.name /\ Taken(t, row.name, i))
        /\ t = "source" /\ row.ref # old.ref => AssistantOk(row)
        /\ hands' = [hands EXCEPT ![c] =
             [at |-> "commit", route |-> name, id |-> i, found |-> old, row |-> row]]
  IN
  /\ hands[c].at = "idle" /\ name \in office
  /\ CASE way.op = "add"  -> \E i \in Records, row \in New(t) :
                               i \notin Rows(t) /\ plan(i, Empty, row)
       [] way.op = "edit" -> \E i \in Rows(t) : \E row \in Changed(name, tables[t][i]) :
                               plan(i, tables[t][i], row)
       [] OTHER           -> \E i \in Rows(t) : plan(i, tables[t][i], Empty)
  /\ UNCHANGED <<office, tables, done, audited, deliveries, told, stops>>

\* Only the columns whose value changed are written.
Merged(now, old, row) ==
  [f \in DOMAIN row |-> IF row[f] = old[f] THEN now[f] ELSE row[f]]

\* A mutant: what pointed at an assistant goes on pointing at it.
Dangling(i) == tables["source"]

\* ON DELETE SET NULL.
Released(i) ==
  [j \in Records |-> IF tables["source"][j].ref = i THEN [tables["source"][j] EXCEPT !.ref = 0]
                     ELSE tables["source"][j]]

\* What the database refuses: a name that is taken by now, an assistant that has gone, and
\* the update of a row that has gone. The id of a new row is the next that is free.
Refused(c) ==
  LET way == Routes[c.route]
      t == way.table
  IN  \/ way.op # "remove" /\ t \in UniqueTables /\ c.row.name # c.found.name
         /\ Taken(t, c.row.name, c.id)
      \/ way.op # "remove" /\ t = "source" /\ c.row.ref # c.found.ref /\ ~AssistantOk(c.row)
      \/ way.op = "edit" /\ tables[t][c.id] = Empty /\ (way.stamps \/ c.row # c.found)

Commit(c) ==
  LET k == hands[c]
      way == Routes[k.route]
      t == way.table
      i == IF way.op = "add" /\ k.id \in Rows(t) THEN CHOOSE j \in Records : j \notin Rows(t) ELSE k.id
      new == IF way.op = "remove" \/ (way.op = "edit" /\ i \notin Rows(t)) THEN Empty
             ELSE Merged(tables[t][i], k.found, k.row)
      next == [hands EXCEPT ![c].at = IF way.refreshes THEN "refresh" ELSE "tell", ![c].id = i]
  IN
  /\ k.at = "commit"
  /\ way.op = "add" => Rows(t) # Records
  /\ IF Refused(k)
     THEN hands' = [hands EXCEPT ![c] = Over] /\ UNCHANGED <<tables, done>>
     ELSE /\ tables' = [s \in Tables |->
               IF s = t THEN [tables[t] EXCEPT ![i] = new]
               ELSE IF s = "source" /\ k.route = "delete_assistant" THEN Released(i)
               ELSE tables[s]]
          /\ hands' = next
          /\ done' = done \cup {c}
  /\ UNCHANGED <<office, audited, deliveries, told, stops>>

\* The row is read again; one that has been deleted by then raises, and the change is
\* neither audited nor told.
Refresh(c) ==
  LET k == hands[c] IN
  /\ k.at = "refresh"
  /\ hands' = [hands EXCEPT ![c] = IF k.id \in Rows(Routes[k.route].table)
                                     THEN [k EXCEPT !.at = "tell"] ELSE Over]
  /\ UNCHANGED <<office, tables, done, audited, deliveries, told, stops>>

\* A mutant: the audit is written before the change is committed.
AuditsFirst(c) ==
  /\ hands[c].at \in {"commit", "tell"} /\ c \notin audited
  /\ audited' = audited \cup {c}
  /\ UNCHANGED <<office, tables, hands, done, deliveries, told, stops>>

\* The audit commits by itself and never fails its caller.
Audits(c) ==
  LET k == hands[c] IN
  /\ k.at = "tell"
  /\ hands' = [hands EXCEPT ![c] = IF Routes[k.route].tells THEN [k EXCEPT !.at = "queue"] ELSE Over]
  /\ audited' \in IF Routes[k.route].audits THEN {audited, audited \cup {c}} ELSE {audited}
  /\ UNCHANGED <<office, tables, done, deliveries, told, stops>>

\* _told and queue: one job for every webhook that is on; a failure is logged.
Queues(c) ==
  /\ hands[c].at = "queue"
  /\ LET hooks == {i \in Rows("webhook") : tables["webhook"][i].mode = "active"} IN
     deliveries' \in {deliveries, deliveries \cup {[hook |-> i, about |-> c] : i \in hooks}}
  /\ hands' = [hands EXCEPT ![c] = Over]
  /\ UNCHANGED <<office, tables, done, audited, told, stops>>

\* The webhook job reads the row as it is now: one that is gone or off is skipped. A job
\* whose receiver refuses stays for another attempt.
Delivers(d) ==
  /\ d \in deliveries
  /\ IF d.hook \in Rows("webhook") /\ tables["webhook"][d.hook].mode = "active"
     THEN told' = told \cup {d} ELSE told' = told
  /\ deliveries' = deliveries \ {d}
  /\ UNCHANGED <<office, tables, hands, done, audited, stops>>

\* The process ends with every request on its way.
Crashes ==
  /\ stops < MaxStops /\ \E c \in Hands : hands[c].at \notin {"idle", "over"}
  /\ stops' = stops + 1
  /\ hands' = [c \in Hands |-> IF hands[c] = Unbound THEN Unbound ELSE Over]
  /\ UNCHANGED <<office, tables, done, audited, deliveries, told>>

DeskNext ==
  \/ \E c \in Hands : \/ \E name \in DOMAIN Routes : Considers(c, name)
                       \/ Commit(c) \/ Refresh(c) \/ Audits(c) \/ Queues(c)
  \/ \E d \in deliveries : Delivers(d)
  \/ Crashes

DeskSpec == DeskInit /\ [][DeskNext]_deskVars

(***************************************************************************)
(* Properties.                                                             *)
(***************************************************************************)
\* Nobody is told of a change that did not happen: what the audit or a webhook speaks of
\* has been committed, whatever the database refused and wherever the process ended.
ToldMeansDone == \A c \in Hands :
  c \in audited \/ (\E d \in deliveries \cup told : d.about = c) => c \in done

\* A source belongs to everybody or to an assistant that exists, though assistants are
\* removed while sources are given to them (routes/knowledge.py, _assistant_ok).
SourcesHaveTheirAssistant ==
  \A i \in Records : tables["source"][i].ref \in {0} \cup Rows("assistant")
=============================================================================
