-------------------------- MODULE DeclaredChannel --------------------------
(***************************************************************************)
(* A channel declared by its module: a platform that calls the public door *)
(* (api/routes/public_channel.py), the inbound half of such a module       *)
(* (api/channels/sms.py stands for them), and the shared outbound half of  *)
(* api/channels/generic.py.                                                *)
(*                                                                         *)
(* The platform delivers every message of one customer at least once: it   *)
(* repeats, overlaps and reorders deliveries as it likes. One delivery is  *)
(* one process from the request to the end of the reply task it schedules; *)
(* every await of the code is a point between two actions. What a process  *)
(* read stays in its own record and is not refreshed unless the code does. *)
(***************************************************************************)
EXTENDS Thread

CONSTANTS Messages,       \* ids of the messages this customer sends
          MaxDeliveries,  \* bound: deliveries, repeats included
          Pieces,         \* platform messages one answer is split into
          RecentKept,     \* RECENT_IDS_KEPT
          Rules,          \* what routing.decide may answer for this customer
          Ends,           \* the model may call end_call
          Overlap,        \* deliveries may be handled at the same time
          MaxRestarts,    \* bound: restarts of the process
          MaxFaults       \* bound: providers that raise and failing webhooks

ASSUME DeclaredChannelAssumption ==
  /\ Push
  /\ MaxDeliveries \in Nat
  /\ Pieces \in Nat \ {0}
  /\ RecentKept \in Nat \ {0}
  /\ Rules \subseteq {"ai", "pass", "block"}
  /\ Ends \in BOOLEAN /\ Overlap \in BOOLEAN
  /\ MaxRestarts \in Nat /\ MaxFaults \in Nat

VARIABLES
  flow,    \* the deliveries and their reply tasks
  recent,  \* state_json[kind].recent_ids of each conversation
  restarts, faults

channelVars == <<flow, recent, restarts, faults>>
vars        == <<threadVars, channelVars>>

Deliveries == 1..MaxDeliveries

\* Where a delivery is: in the request until "acknowledged", then in its reply task.
InRequest == {"arrived", "found", "routed", "announcing"}
InReply   == {"scheduled", "generating", "sending"}

Unused == [at |-> "unused", msg |-> 0, thread |-> 0, ids |-> <<>>, handling |-> "ai",
           rule |-> "ai", sent |-> 0]

Init ==
  /\ ThreadInit
  /\ flow = [d \in Deliveries |-> Unused]
  /\ recent = <<>>
  /\ restarts = 0 /\ faults = 0

Goto(d, where) == [flow EXCEPT ![d].at = where]

(***************************************************************************)
(* The request. The decision is made before anything is stored.            *)
(***************************************************************************)
Deliver(d, m) ==
  /\ flow[d].at = "unused"
  /\ \A o \in 1..(d - 1) : flow[o].at # "unused"
  /\ ~Overlap => \A o \in Deliveries : flow[o].at \notin InRequest
  /\ \E rule \in Rules :
       flow' = [flow EXCEPT ![d] = [Unused EXCEPT !.at = IF rule = "block" THEN "blocked"
                                                          ELSE "arrived",
                                                  !.msg = m, !.rule = rule]]
  /\ UNCHANGED <<threadVars, recent, restarts, faults>>

\* The open thread of this customer, as the row says now; conversation_for.
FindsThread(d) ==
  /\ flow[d].at = "arrived"
  /\ IF OpenOnes = {}
     THEN /\ Len(threads) < MaxThreads
          /\ flow' = [flow EXCEPT ![d].at = "found", ![d].thread = 0, ![d].ids = <<>>]
     ELSE \E c \in OpenOnes :
            flow' = [flow EXCEPT ![d].at = "found", ![d].thread = c,
                                 ![d].ids = recent[c],
                                 ![d].handling = threads[c].handling]
  /\ UNCHANGED <<threadVars, recent, restarts, faults>>

\* The row of the delivery's conversation, created if there was none.
Home(d)    == IF flow[d].thread = 0 THEN Len(threads) + 1 ELSE flow[d].thread
Created(d) == IF flow[d].thread = 0 THEN NewThread ELSE threads
IdsOf(d)   == IF flow[d].thread = 0 THEN Append(recent, <<>>) ELSE recent

\* A mutant: seen_before runs before apply_pass, whose commit writes its record.
PassesRecords(d) ==
  /\ flow[d].at = "found" /\ flow[d].rule = "pass" /\ flow[d].handling # "human"
  /\ Home(d) <= MaxThreads
  /\ threads' = [Created(d) EXCEPT ![Home(d)].handling = "human"]
  /\ recent' = [IdsOf(d) EXCEPT ![Home(d)] = Append(flow[d].ids, flow[d].msg)]
  /\ flow' = [flow EXCEPT ![d].at = "routed", ![d].thread = Home(d),
                          ![d].handling = "human"]
  /\ UNCHANGED <<lines, outbox, person, typed, restarts, faults>>

\* apply_pass: the handover is committed (a new row with it) before the message.
Passes(d) ==
  /\ flow[d].at = "found" /\ flow[d].rule = "pass" /\ flow[d].handling # "human"
  /\ Home(d) <= MaxThreads
  /\ threads' = [Created(d) EXCEPT ![Home(d)].handling = "human"]
  /\ recent' = IdsOf(d)
  /\ flow' = [flow EXCEPT ![d].at = "routed", ![d].thread = Home(d),
                          ![d].handling = "human"]
  /\ UNCHANGED <<lines, outbox, person, typed, restarts, faults>>

Routed(d) ==
  \/ flow[d].at = "routed"
  \/ flow[d].at = "found" /\ (flow[d].rule = "ai" \/ flow[d].handling = "human")

\* seen_before: the last RecentKept ids, this one included.
Kept(ids) == IF Len(ids) > RecentKept THEN SubSeq(ids, Len(ids) - RecentKept + 1, Len(ids))
             ELSE ids
SeenBefore(d) == \E i \in 1..Len(flow[d].ids) : flow[d].ids[i] = flow[d].msg

Repeated(d) ==
  /\ Routed(d) /\ SeenBefore(d)
  /\ flow' = Goto(d, "repeated")
  /\ UNCHANGED <<threadVars, recent, restarts, faults>>

\* The line, the recorded id (the whole column is rewritten from what was read) and
\* a new conversation are one commit.
StoresLine(d) ==
  /\ Routed(d) /\ ~SeenBefore(d)
  /\ Home(d) <= MaxThreads
  /\ threads' = Created(d)
  /\ recent' = [IdsOf(d) EXCEPT ![Home(d)] = Kept(Append(flow[d].ids, flow[d].msg))]
  /\ lines' = Append(lines, Line(Home(d), "caller", d))
  /\ flow' = [flow EXCEPT ![d].at = "announcing", ![d].thread = Home(d)]
  /\ UNCHANGED <<outbox, person, typed, restarts, faults>>

\* The extensions are told, the platform is answered, and the reply is scheduled
\* unless a person has the thread (as it was when the row was read).
Acknowledges(d) ==
  /\ flow[d].at = "announcing"
  /\ flow' = Goto(d, IF flow[d].handling = "human" THEN "withheld" ELSE "scheduled")
  /\ UNCHANGED <<threadVars, recent, restarts, faults>>

\* Queueing a webhook fails. The rollback expires every attribute of the session's
\* objects, so the log line that follows (conversation.id) raises as well and the door
\* refuses a request whose line is stored.
AnnounceFails(d) ==
  /\ flow[d].at = "announcing"
  /\ faults < MaxFaults
  /\ faults' = faults + 1
  /\ flow' = Goto(d, "refused")
  /\ UNCHANGED <<threadVars, recent, restarts>>

(***************************************************************************)
(* respond().                                                              *)
(***************************************************************************)
\* The thread is a person's. (The channel's credentials are taken to be complete.)
RespondWithheld(d) ==
  /\ flow[d].at = "scheduled"
  /\ Taken(flow[d].thread)
  /\ flow' = Goto(d, "withheld")
  /\ UNCHANGED <<threadVars, recent, restarts, faults>>

RespondBegins(d) ==
  /\ flow[d].at = "scheduled"
  /\ ~Taken(flow[d].thread)
  /\ flow' = Goto(d, "generating")
  /\ UNCHANGED <<threadVars, recent, restarts, faults>>

RespondTool(d) ==
  /\ flow[d].at = "generating"
  /\ \/ TransferCall(flow[d].thread)
     \/ Ends /\ EndCall(flow[d].thread)
  /\ UNCHANGED <<lines, outbox, person, typed, channelVars>>

\* The provider raises or says nothing, or the model takes a message (see WebChat).
RespondFails(d) ==
  /\ flow[d].at = "generating"
  /\ faults < MaxFaults
  /\ faults' = faults + 1
  /\ flow' = Goto(d, "failed")
  /\ UNCHANGED <<threadVars, recent, restarts>>

\* The takeover is read again, now that generating is over.
RespondChecks(d) ==
  /\ flow[d].at = "generating"
  /\ flow' = Goto(d, IF Taken(flow[d].thread) THEN "withheld" ELSE "sending")
  /\ UNCHANGED <<threadVars, recent, restarts, faults>>

SendsPiece(d) ==
  /\ flow[d].at = "sending" /\ flow[d].sent < Pieces
  /\ flow' = [flow EXCEPT ![d].sent = @ + 1]
  /\ outbox' = outbox \cup {<<"agent", d, flow[d].sent + 1>>}
  /\ UNCHANGED <<threads, lines, person, typed, recent, restarts, faults>>

\* The platform refuses a piece: the answer is abandoned and nothing is stored.
SendRefused(d) ==
  /\ flow[d].at = "sending" /\ flow[d].sent < Pieces
  /\ flow' = Goto(d, "undelivered")
  /\ UNCHANGED <<threadVars, recent, restarts, faults>>

\* A mutant: the answer is stored as soon as the first piece is out.
StoresAnswerEarly(d) ==
  /\ flow[d].at = "sending" /\ flow[d].sent > 0
  /\ lines' = Append(lines, Line(flow[d].thread, "agent", d))
  /\ flow' = Goto(d, "answered")
  /\ UNCHANGED <<threads, outbox, person, typed, recent, restarts, faults>>

StoresAnswer(d) ==
  /\ flow[d].at = "sending" /\ flow[d].sent = Pieces
  /\ lines' = Append(lines, Line(flow[d].thread, "agent", d))
  /\ flow' = Goto(d, "answered")
  /\ UNCHANGED <<threads, outbox, person, typed, recent, restarts, faults>>

\* The process stops and starts again: requests and reply tasks are gone.
Restart ==
  /\ restarts < MaxRestarts
  /\ restarts' = restarts + 1
  /\ flow' = [d \in Deliveries |->
                IF flow[d].at \in InRequest \cup InReply
                THEN [flow[d] EXCEPT !.at = "lost"] ELSE flow[d]]
  /\ UNCHANGED <<threadVars, recent, faults>>

Request(d) ==
  \/ FindsThread(d) \/ Passes(d) \/ Repeated(d) \/ StoresLine(d) \/ Acknowledges(d)

Respond(d) ==
  \/ RespondWithheld(d) \/ RespondBegins(d) \/ RespondChecks(d)
  \/ SendsPiece(d) \/ StoresAnswer(d)

Next ==
  \/ \E d \in Deliveries :
       \/ \E m \in Messages : Deliver(d, m)
       \/ Request(d) \/ AnnounceFails(d)
       \/ Respond(d) \/ RespondTool(d) \/ RespondFails(d) \/ SendRefused(d)
  \/ Restart
  \/ Staff /\ UNCHANGED channelVars

Spec == Init /\ [][Next]_vars

(***************************************************************************)
(* Properties.                                                             *)
(***************************************************************************)
\* The shape of the state.
TypeOK ==
  /\ ThreadTypeOK
  /\ Len(recent) = Len(threads)
  /\ \A c \in Threads : Len(recent[c]) <= RecentKept
  /\ \A d \in Deliveries : flow[d].thread \in 0..Len(threads)
  /\ restarts \in 0..MaxRestarts /\ faults \in 0..MaxFaults

CallerLines == {l \in Stored : l.who = "caller"}
AgentLines  == {l \in Stored : l.who = "agent"}
HumanLines  == {l \in Stored : l.who = "human"}

\* The transcript never shows an answer the customer did not receive: every piece of
\* a stored answer, the agent's or a person's, was accepted by the platform first
\* ("Delivery before storage", respond and reply_as_business).
DeliveredBeforeStored ==
  /\ \A l \in AgentLines : \A n \in 1..Pieces : <<"agent", l.text, n>> \in outbox
  /\ \A l \in HumanLines : <<"human", l.text, 1>> \in outbox

\* Nothing a customer wrote is lost to the retry guard: a delivery dropped as repeated
\* has its message in the transcript, whatever restarts (seen_before, store_line).
RepeatedIsStored ==
  \A d \in Deliveries : flow[d].at = "repeated" =>
    \E l \in CallerLines : flow[l.text].msg = flow[d].msg
=============================================================================
