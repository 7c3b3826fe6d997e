----------------------------- MODULE Messengers -----------------------------
(***************************************************************************)
(* Twelve channels on the steps of Inbox: what each takes for a customer's *)
(* message, in which order it records, hands over and stores, and how      *)
(* often it looks at a takeover before it answers.                         *)
(*                                                                         *)
(* An event is [from, group, named, text, odd]: who wrote it, whether in a *)
(* room of many and addressed to the agent there, whether it has a text,   *)
(* and whether it is one of the platform's own forms of a message that is  *)
(* not a new question (an edit, a notice, a picture, an autoresponder).    *)
(***************************************************************************)
EXTENDS Inbox

Rules == {"ai", "pass", "block"}

\* What each platform sends of this: Viber and WhatsApp bring only what customers write,
\* automated senders mark themselves on IRC and Matrix, and only e-mail, Slack,
\* Mattermost and Teams have other bots in the room.
Arrives(k, e) ==
  /\ k \in {"whatsapp", "viber"} => e.from = "customer" /\ ~e.group
  /\ k \in {"email", "meta"} => ~e.group
  /\ e.from = "bot" => k \in {"discord", "slack", "mattermost", "teams"} \/ e.odd
  /\ k = "discord" => ~e.odd

(***************************************************************************)
(* The three orders of an ingest. The first records the id with the line,  *)
(* the second before the handover's commit, the third has no rules.        *)
(***************************************************************************)
RulesFirst(d, isText, remembered) ==
  \/ Skips(d, isText) \/ Decides(d, isText, Rules) \/ Finds(d)
  \/ HandsOver(d, FALSE)
  \/ Routed(d) /\ Repeats(d)
  \/ ~Seen(d) /\ Stores(d, remembered)

MarkFirst(d, isText) ==
  \/ Skips(d, isText) \/ Decides(d, isText, Rules) \/ Finds(d)
  \/ flow[d].at = "found" /\ Repeats(d)
  \/ ~Seen(d) /\ HandsOver(d, TRUE)
  \/ flow[d].at = "found" /\ ~Seen(d) /\ Stores(d, LastFew(d))
  \/ flow[d].at = "routed" /\ Stores(d, mark[Home(d)])

NoRules(d, isText, remembered) ==
  \/ Skips(d, isText) \/ Decides(d, isText, {"ai"}) \/ Finds(d)
  \/ Routed(d) /\ Repeats(d)
  \/ ~Seen(d) /\ Stores(d, remembered)

\* The answer of a channel with its own code, which reads the takeover once, and of the
\* shared code, which reads it again after generating.
LooksOnce(o)  == Looks(o) \/ Finishes(o, FALSE) \/ Sends(o) \/ StoresReply(o)
LooksTwice(o) == Looks(o) \/ Finishes(o, TRUE) \/ Sends(o) \/ StoresReply(o)

\* How events come: one or several at a time, in turn or while others are handled.
\* Bound: requests of one door overlap when each holds one event.
One(d, inTurn) == \E m \in Messages : <<m>> \in Batches(kind) /\ Hands(d, <<m>>, inTurn)
Several(d, inTurn) ==
  \E batch \in Batches(kind) :
    Hands(d, batch, inTurn \/ Len(batch) > 1 \/ \E o \in Busy : Len(flow[o].todo) > 1)

(***************************************************************************)
(* Gateways: a connection reads one event after another.                   *)
(***************************************************************************)
\* An author that is a bot covers the agent itself; a guild's message must mention it.
DiscordText(e)    == e.from = "customer" /\ (e.group => e.named) /\ e.text
DiscordTells(d)    == Tells(d)
DiscordIngest(d)   == RulesFirst(d, DiscordText(EventOf(d)), OnlyLast(d)) \/ DiscordTells(d)
DiscordRespond(o)  == LooksOnce(o)
DiscordDelivers(d) == One(d, TRUE)

\* A bot id or a subtype is nobody's question; outside a direct message only app_mention.
SlackText(e)    == e.from = "customer" /\ ~e.odd /\ (e.group => e.named) /\ e.text
SlackTells(d)    == Tells(d)
SlackIngest(d)   == RulesFirst(d, SlackText(EventOf(d)), OnlyLast(d)) \/ SlackTells(d)
SlackRespond(o)  == LooksOnce(o)
SlackDelivers(d) == One(d, TRUE)

MattermostText(e)   == e.from \notin {"own", "bot"} /\ ~e.odd /\ e.text /\ (e.group => e.named)
MattermostIngest(d) == NoRules(d, MattermostText(EventOf(d)), LastFew(d)) \/ Tells(d)
MattermostDelivers(d) == One(d, TRUE)

\* A NOTICE and a CTCP query are no conversation; nobody else is known to be a machine.
IrcText(e)   == ~e.odd /\ e.from # "own" /\ e.text /\ (e.group => e.named)
IrcIngest(d) == MarkFirst(d, IrcText(EventOf(d))) \/ Tells(d)
IrcDelivers(d) == One(d, TRUE)

(***************************************************************************)
(* Queues that are asked: one answer may hold several events, and the      *)
(* replies wait for the last of them.                                      *)
(***************************************************************************)
SignalText(e)   == ~e.odd /\ e.from # "own" /\ e.text /\ (e.group => e.named)
SignalIngest(d) == MarkFirst(d, SignalText(EventOf(d))) \/ Tells(d)
SignalDelivers(d) == Several(d, TRUE)

MatrixText(e)   == ~e.odd /\ e.from # "own" /\ e.text /\ (e.group => e.named)
MatrixIngest(d) == MarkFirst(d, MatrixText(EventOf(d))) \/ Tells(d)
MatrixDelivers(d) == Several(d, TRUE)

\* An autoresponder's mail is stored and never answered. A mailbox remembers no ids: a
\* mail that was fetched is marked as read.
EmailText(e) == e.from # "own" /\ e.text

\* A mutant: the autoresponder is answered.
EmailTellsAll(d) ==
  /\ flow[d].at = "announcing"
  /\ IF flow[d].handling = "human"
     THEN flow' = Past(d) /\ fate' = Becomes(This(d), "silent")
     ELSE flow' = [flow EXCEPT ![d].at = "replying"] /\ fate' = Becomes(This(d), "generating")
  /\ UNCHANGED <<threadVars, kind, event, mark, troubles>>

\* The pass answers each mail before it reads the next.
EmailTells(d) ==
  /\ flow[d].at = "announcing"
  /\ IF EventOf(d).odd \/ flow[d].handling = "human"
     THEN flow' = Past(d) /\ fate' = Becomes(This(d), "silent")
     ELSE flow' = [flow EXCEPT ![d].at = "replying"] /\ fate' = Becomes(This(d), "generating")
  /\ UNCHANGED <<threadVars, kind, event, mark, troubles>>

EmailIngest(d)  == RulesFirst(d, EmailText(EventOf(d)), <<>>) \/ EmailTells(d)
EmailRespond(o) == Finishes(o, FALSE) \/ Sends(o) \/ StoresReply(o)
EmailDelivers(d) == Several(d, TRUE)

\* A refused mail is logged and the next one is read.
EmailGoesOn(d) ==
  /\ flow[d].at = "replying" /\ fate[This(d)] \notin InReply
  /\ flow' = Past(d)
  /\ UNCHANGED <<threadVars, kind, event, fate, mark, troubles>>

(***************************************************************************)
(* Doors: a request brings the events, and the platform may repeat it.     *)
(***************************************************************************)
WhatsAppText(e)    == ~e.odd /\ e.text
WhatsAppTells(d)   == Tells(d)
WhatsAppIngest(d)  == RulesFirst(d, WhatsAppText(EventOf(d)), OnlyLast(d)) \/ WhatsAppTells(d)
WhatsAppRespond(o) == LooksOnce(o)
WhatsAppDelivers(d) == Several(d, FALSE)

\* Meta echoes the page's own messages back.
MetaText(e)    == ~e.odd /\ e.text /\ e.from # "own"
MetaTells(d)    == Tells(d)
MetaIngest(d)   == RulesFirst(d, MetaText(EventOf(d)), OnlyLast(d)) \/ MetaTells(d)
MetaRespond(o)  == LooksOnce(o)
MetaDelivers(d) == Several(d, FALSE)

LineText(e)   == ~e.odd /\ e.from # "own" /\ e.text /\ (e.group => e.named)
LineIngest(d) == MarkFirst(d, LineText(EventOf(d))) \/ Tells(d)
LineDelivers(d) == Several(d, FALSE)

ViberText(e)   == ~e.odd /\ e.text
ViberIngest(d) == MarkFirst(d, ViberText(EventOf(d))) \/ Tells(d)
ViberDelivers(d) == One(d, FALSE)

TeamsText(e)   == ~e.odd /\ e.from \notin {"own", "bot"} /\ (e.group => e.named) /\ e.text
\* A mutant: the id is recorded before the rules hand over.
TeamsMarksFirst(d) == MarkFirst(d, TeamsText(EventOf(d))) \/ Tells(d)
TeamsIngest(d) == RulesFirst(d, TeamsText(EventOf(d)), LastFew(d)) \/ Tells(d)
TeamsDelivers(d) == One(d, FALSE)

(***************************************************************************)
(* One step of the channel this behaviour is about.                        *)
(***************************************************************************)
OwnCode == {"discord", "slack", "whatsapp", "meta"}

MessengersInit == InboxInit /\ \A m \in Messages : Arrives(kind, event[m])

Delivers(d) ==
  \/ kind = "discord" /\ DiscordDelivers(d)
  \/ kind = "slack" /\ SlackDelivers(d)
  \/ kind = "mattermost" /\ MattermostDelivers(d)
  \/ kind = "irc" /\ IrcDelivers(d)
  \/ kind = "signal" /\ SignalDelivers(d)
  \/ kind = "matrix" /\ MatrixDelivers(d)
  \/ kind = "email" /\ EmailDelivers(d)
  \/ kind = "whatsapp" /\ WhatsAppDelivers(d)
  \/ kind = "meta" /\ MetaDelivers(d)
  \/ kind = "line" /\ LineDelivers(d)
  \/ kind = "viber" /\ ViberDelivers(d)
  \/ kind = "teams" /\ TeamsDelivers(d)

Ingests(d) ==
  \/ kind = "discord" /\ DiscordIngest(d)
  \/ kind = "slack" /\ SlackIngest(d)
  \/ kind = "mattermost" /\ MattermostIngest(d)
  \/ kind = "irc" /\ IrcIngest(d)
  \/ kind = "signal" /\ SignalIngest(d)
  \/ kind = "matrix" /\ MatrixIngest(d)
  \/ kind = "email" /\ (EmailIngest(d) \/ EmailGoesOn(d))
  \/ kind = "whatsapp" /\ WhatsAppIngest(d)
  \/ kind = "meta" /\ MetaIngest(d)
  \/ kind = "line" /\ LineIngest(d)
  \/ kind = "viber" /\ ViberIngest(d)
  \/ kind = "teams" /\ TeamsIngest(d)
  \/ Schedules(d)

Responds(o) ==
  \/ kind = "discord" /\ DiscordRespond(o)
  \/ kind = "slack" /\ SlackRespond(o)
  \/ kind = "whatsapp" /\ WhatsAppRespond(o)
  \/ kind = "meta" /\ MetaRespond(o)
  \/ kind = "email" /\ EmailRespond(o)
  \/ kind \notin OwnCode \cup {"email"} /\ LooksTwice(o)

MessengersNext ==
  \/ \E d \in Deliveries : Delivers(d) \/ Ingests(d) \/ Raises(d)
  \/ \E o \in Occurrences : Responds(o) \/ Fails(o) \/ Refused(o)
  \/ Restarts
  \/ (\E c \in Threads : TakeOver(c)) /\ UNCHANGED inboxVars

MessengersSpec == MessengersInit /\ [][MessengersNext]_<<threadVars, inboxVars>>

\* The process runs its tasks, and the provider and the platform answer in the end. Each
\* delivery and each reply has finitely many steps, so fairness to all of them at once
\* is enough.
MessengersFairness ==
  /\ WF_<<threadVars, inboxVars>>(\E d \in Deliveries : Ingests(d))
  /\ WF_<<threadVars, inboxVars>>(\E o \in Occurrences : Responds(o))

(***************************************************************************)
(* Properties.                                                             *)
(***************************************************************************)
CallerLines == {l \in Stored : l.who = "caller"}

\* The guard against repeats is exact. A repeat is not stored, and so not answered, a second
\* time on the channels that keep a list of ids and read in turn (seen_before); where only
\* the last id is kept (Discord, Slack) it is caught as long as nothing came in between.
\* And a message dropped as a repeat is in the transcript, whatever stopped in between, on
\* the channels that record the id with the line.
Caught(i, j) ==
  \/ kind \in {"mattermost", "irc", "signal", "matrix"}
  \/ kind \in {"discord", "slack"} /\ \A n \in (i + 1)..(j - 1) : lines[n].who # "caller"

GuardIsExact ==
  /\ \A i, j \in 1..Len(lines) :
       i < j /\ lines[i].who = "caller" /\ lines[j].who = "caller" /\ Caught(i, j)
         => lines[i].text[2] # lines[j].text[2]
  /\ \A o \in Occurrences :
       fate[o] = "repeated" /\ kind \notin {"irc", "signal", "matrix", "line", "viber"}
         => \E l \in CallerLines : l.text[2] = o[2]

\* Nobody but a customer speaking to the agent is ever answered: not the agent's own
\* words come back, another bot, a room's talk, or an autoresponder (message_text).
OnlyCustomersAreAnswered ==
  \A o \in Occurrences : fate[o] \in {"sending", "answered"} =>
    LET e == event[o[2]] IN e.from = "customer" /\ e.text /\ ~e.odd /\ (e.group => e.named)

\* What the transcript says the agent answered, the customer was sent whole.
AnsweredMeansDelivered ==
  \A l \in Stored : l.who = "agent" => Sent(l.text) = 1..Pieces

\* A message that was let in comes to an end: answered, a person's, refused by the
\* provider or the platform, a repeat, or lost with the batch or process it was in. None
\* stays halfway.
Halfway ==
  {o \in Occurrences : \/ fate[o] \in {"stored", "due"} \cup InReply
                       \/ flow[o[1]].at = "arrived" /\ flow[o[1]].todo[1] = o[2]}
EveryEventSettles == (Halfway # {}) ~> (Halfway = {})
=============================================================================
