------------------------ MODULE ConversationsProofs -------------------------
(* Proofs about Messengers and WebChat, for any number of messages, conversations and
   exchanges, and of the staff. *)
EXTENDS Messengers, WebChat, FiniteSetTheorems, SequenceTheorems, WellFoundedInduction, Integers, TLAPS

(***************************************************************************)
(* The messengers.                                                         *)
(***************************************************************************)
MarkKinds == {"irc", "signal", "matrix", "line", "viber"}
Lists     == {"mattermost", "irc", "signal", "matrix"}
InTurn    == Lists \cup {"discord", "slack"}
Answering == {"due", "scheduled", "generating", "sending", "answered"}
Handled   == {"arrived", "found", "routed", "announcing", "replying"}

\* The ids this customer's messages may have fit the list a channel keeps of them.
Fits    == IsFiniteSet(Messages) /\ Cardinality(Messages) <= RecentKept
Guarded == kind \in InTurn /\ (kind \in Lists => Fits)

Customer(e) == e.from = "customer" /\ e.text /\ ~e.odd /\ (e.group => e.named)

\* An autoresponder's mail is stored as well, and not answered.
Speaks(e) == IF kind = "email" THEN EmailText(e) ELSE Customer(e)

Ids(s)    == {s[i] : i \in 1..Len(s)}
StoredIds == {l.text[2] : l \in CallerLines}

Distinct(ids) == \A i, j \in 1..Len(ids) : ids[i] = ids[j] => i = j

\* What a channel that reads in turn remembers: it has one conversation at most.
Memory == IF Len(mark) = 0 THEN <<>> ELSE mark[1]

FlowFields == {"at", "todo", "thread", "seen", "handling", "rule"}

DeliveryOk(f) ==
  /\ f = [x \in FlowFields |-> f[x]] /\ f.todo \in Seq(Messages) /\ f.seen \in Seq(Messages)
  /\ f.thread \in 0..Len(threads) /\ (f.at = "routed" => f.thread # 0)
  /\ f.at \in Handled => f.todo # <<>> /\ Speaks(event[f.todo[1]])
  /\ kind \notin MarkKinds => Ids(f.seen) \subseteq StoredIds
  /\ Guarded =>
       /\ f.at \in {"next", "arrived"} => f.thread = 0 /\ f.seen = <<>>
       /\ f.at \in {"found", "routed"} => f.thread = Len(threads)
       /\ f.at = "found" \/ (f.at = "routed" /\ kind \notin MarkKinds) => f.seen = Memory
       /\ f.at = "routed" /\ kind \in MarkKinds => f.todo[1] \in Ids(Memory) \ StoredIds

FateOk(o, to) ==
  /\ to \in Answering => Customer(event[o[2]])
  /\ to = "repeated" /\ kind \notin MarkKinds => o[2] \in StoredIds

OpenRow == [status : {"open"}, handling : {"ai", "human"}]

MessengersForms ==
  /\ kind \in Kinds
  /\ \A m \in Messages : event[m] \in Events /\ Arrives(kind, event[m])
  /\ flow = [d \in Deliveries |-> flow[d]]
  /\ fate = [o \in Occurrences |-> fate[o]]
  /\ threads \in Seq(OpenRow)
  /\ mark \in Seq(Seq(Messages)) /\ Len(mark) = Len(threads)
  /\ lines \in Seq(Stored)

Apart ==
  \A i, j \in 1..Len(lines) :
    i < j /\ lines[i].who = "caller" /\ lines[j].who = "caller" /\ Caught(i, j)
      => lines[i].text[2] # lines[j].text[2]

\* A list holds all that was stored and nothing twice; the last id is that of the last
\* line of the customer.
Remembers ==
  /\ Apart
  /\ kind \in Lists => /\ StoredIds \subseteq Ids(Memory)
                       /\ Distinct(Memory)
  /\ kind \in {"discord", "slack"} =>
       \A i \in 1..Len(lines) :
         lines[i].who = "caller" /\ (\A n \in (i + 1)..Len(lines) : lines[n].who # "caller")
           => Memory = <<lines[i].text[2]>>

MessengersInv ==
  /\ MessengersForms
  /\ \A d \in Deliveries : DeliveryOk(flow[d])
  /\ \A o \in Occurrences : FateOk(o, fate[o])
  /\ AnsweredMeansDelivered
  /\ kind \notin MarkKinds => \A c \in 1..Len(mark) : Ids(mark[c]) \subseteq StoredIds
  /\ Guarded => /\ Len(threads) <= 1
                /\ \A d, e \in Busy : d = e
                /\ Remembers

(***************************************************************************)
(* What each channel takes for a message is a customer's, and the steps    *)
(* the twelve orders are made of.                                          *)
(***************************************************************************)
LEMMA TextsSpeak ==
  ASSUME NEW e, e.from \in {"customer", "own", "bot"}, Arrives(kind, e)
  PROVE  /\ kind = "discord" /\ DiscordText(e) => Speaks(e)
         /\ kind = "slack" /\ SlackText(e) => Speaks(e)
         /\ kind = "mattermost" /\ MattermostText(e) => Speaks(e)
         /\ kind = "irc" /\ IrcText(e) => Speaks(e)
         /\ kind = "signal" /\ SignalText(e) => Speaks(e)
         /\ kind = "matrix" /\ MatrixText(e) => Speaks(e)
         /\ kind = "email" /\ EmailText(e) => Speaks(e) /\ (~e.odd => Customer(e))
         /\ kind = "whatsapp" /\ WhatsAppText(e) => Speaks(e)
         /\ kind = "meta" /\ MetaText(e) => Speaks(e)
         /\ kind = "line" /\ LineText(e) => Speaks(e)
         /\ kind = "viber" /\ ViberText(e) => Speaks(e)
         /\ kind = "teams" /\ TeamsText(e) => Speaks(e)
BY DEF Arrives, Speaks, Customer, DiscordText, SlackText, MattermostText, IrcText, SignalText,
       MatrixText, EmailText, WhatsAppText, MetaText, LineText, ViberText, TeamsText

Keeps(d, ids) ==
  \/ kind \in {"discord", "slack", "whatsapp", "meta"} /\ ~Seen(d) /\ ids = OnlyLast(d)
  \/ kind \in {"mattermost", "teams"} /\ ~Seen(d) /\ ids = LastFew(d)
  \/ kind = "email" /\ ids = <<>>
  \/ kind \in MarkKinds /\ flow[d].at = "found" /\ ~Seen(d) /\ ids = LastFew(d)
  \/ kind \in MarkKinds /\ flow[d].at = "routed" /\ ids = mark[Home(d)]

IngestStep(d) ==
  \/ \E isText : Skips(d, isText)
  \/ \E isText, rules : (isText /\ flow[d].todo # <<>> => Speaks(EventOf(d))) /\ Decides(d, isText, rules)
  \/ Finds(d)
  \/ kind \notin MarkKinds /\ HandsOver(d, FALSE)
  \/ kind \in MarkKinds /\ ~Seen(d) /\ HandsOver(d, TRUE)
  \/ flow[d].at \in {"found", "routed"} /\ Repeats(d)
  \/ \E ids : Keeps(d, ids) /\ Stores(d, ids)
  \/ kind # "email" /\ Tells(d)
  \/ kind = "email" /\ (EmailTells(d) \/ EmailGoesOn(d))
  \/ Schedules(d)

LEMMA OrdersStep ==
  ASSUME NEW d \in Deliveries, NEW isText, isText /\ flow[d].todo # <<>> => Speaks(EventOf(d)),
         NEW ids
  PROVE  /\ (~Seen(d) => Keeps(d, ids)) /\ kind \notin MarkKinds
               /\ (RulesFirst(d, isText, ids) \/ NoRules(d, isText, ids)) => IngestStep(d)
         /\ MarkFirst(d, isText) /\ kind \in MarkKinds => IngestStep(d)
<1>1. Routed(d) => flow[d].at \in {"found", "routed"}
  BY DEF Routed
<1>2. ASSUME RulesFirst(d, isText, ids), kind \notin MarkKinds, ~Seen(d) => Keeps(d, ids)
      PROVE  IngestStep(d)
  BY <1>1, <1>2 DEF RulesFirst, IngestStep
<1>3. ASSUME NoRules(d, isText, ids), kind \notin MarkKinds, ~Seen(d) => Keeps(d, ids)
      PROVE  IngestStep(d)
  BY <1>1, <1>3 DEF NoRules, IngestStep
<1>4. ASSUME MarkFirst(d, isText), kind \in MarkKinds
      PROVE  IngestStep(d)
  BY <1>1, <1>4 DEF MarkFirst, IngestStep, Keeps
<1> QED
  BY <1>2, <1>3, <1>4

LEMMA IngestsStep ==
  ASSUME InboxAssumption, MessengersForms, NEW d \in Deliveries, Ingests(d),
         flow[d].todo \in Seq(Messages)
  PROVE  IngestStep(d)
<1> DEFINE e == EventOf(d)
<1>1. ASSUME flow[d].todo # <<>>
      PROVE  e.from \in {"customer", "own", "bot"} /\ Arrives(kind, e)
  BY <1>1 DEF MessengersForms, InboxAssumption, EventOf, Msg
<1> HIDE DEF e
<1>2. ASSUME NEW isText, isText /\ flow[d].todo # <<>> => Speaks(e), NEW ids
      PROVE  /\ (~Seen(d) => Keeps(d, ids)) /\ kind \notin MarkKinds
                   /\ (RulesFirst(d, isText, ids) \/ NoRules(d, isText, ids)) => IngestStep(d)
             /\ MarkFirst(d, isText) /\ kind \in MarkKinds => IngestStep(d)
  BY <1>2, OrdersStep DEF e
<1>3. ~Seen(d) => /\ kind \in {"discord", "slack", "whatsapp", "meta"} => Keeps(d, OnlyLast(d))
                  /\ kind \in {"mattermost", "teams"} => Keeps(d, LastFew(d))
                  /\ kind = "email" => Keeps(d, <<>>)
  BY DEF Keeps
<1>4. Tells(d) /\ kind # "email" => IngestStep(d)
  BY DEF IngestStep
<1>5. (EmailTells(d) \/ EmailGoesOn(d)) /\ kind = "email" => IngestStep(d)
  BY DEF IngestStep
<1>6. Schedules(d) => IngestStep(d)
  BY DEF IngestStep
<1>7. CASE kind = "discord" /\ DiscordIngest(d)
  <2>1. DiscordText(e) /\ flow[d].todo # <<>> => Speaks(e)
    BY <1>1, <1>7, TextsSpeak
  <2> QED
    BY <1>2, <1>3, <1>4, <1>7, <2>1 DEF DiscordIngest, DiscordTells, e, MarkKinds
<1>8. CASE kind = "slack" /\ SlackIngest(d)
  <2>1. SlackText(e) /\ flow[d].todo # <<>> => Speaks(e)
    BY <1>1, <1>8, TextsSpeak
  <2> QED
    BY <1>2, <1>3, <1>4, <1>8, <2>1 DEF SlackIngest, SlackTells, e, MarkKinds
<1>9. CASE kind = "mattermost" /\ MattermostIngest(d)
  <2>1. MattermostText(e) /\ flow[d].todo # <<>> => Speaks(e)
    BY <1>1, <1>9, TextsSpeak
  <2> QED
    BY <1>2, <1>3, <1>4, <1>9, <2>1 DEF MattermostIngest, e, MarkKinds
<1>10. CASE kind = "irc" /\ IrcIngest(d)
  <2>1. IrcText(e) /\ flow[d].todo # <<>> => Speaks(e)
    BY <1>1, <1>10, TextsSpeak
  <2> QED
    BY <1>2, <1>4, <1>10, <2>1 DEF IrcIngest, e, MarkKinds
<1>11. CASE kind = "signal" /\ SignalIngest(d)
  <2>1. SignalText(e) /\ flow[d].todo # <<>> => Speaks(e)
    BY <1>1, <1>11, TextsSpeak
  <2> QED
    BY <1>2, <1>4, <1>11, <2>1 DEF SignalIngest, e, MarkKinds
<1>12. CASE kind = "matrix" /\ MatrixIngest(d)
  <2>1. MatrixText(e) /\ flow[d].todo # <<>> => Speaks(e)
    BY <1>1, <1>12, TextsSpeak
  <2> QED
    BY <1>2, <1>4, <1>12, <2>1 DEF MatrixIngest, e, MarkKinds
<1>13. CASE kind = "email" /\ (EmailIngest(d) \/ EmailGoesOn(d))
  <2>1. EmailText(e) /\ flow[d].todo # <<>> => Speaks(e)
    BY <1>1, <1>13, TextsSpeak
  <2> QED
    BY <1>2, <1>3, <1>5, <1>13, <2>1 DEF EmailIngest, e, MarkKinds
<1>14. CASE kind = "whatsapp" /\ WhatsAppIngest(d)
  <2>1. WhatsAppText(e) /\ flow[d].todo # <<>> => Speaks(e)
    BY <1>1, <1>14, TextsSpeak
  <2> QED
    BY <1>2, <1>3, <1>4, <1>14, <2>1 DEF WhatsAppIngest, WhatsAppTells, e, MarkKinds
<1>15. CASE kind = "meta" /\ MetaIngest(d)
  <2>1. MetaText(e) /\ flow[d].todo # <<>> => Speaks(e)
    BY <1>1, <1>15, TextsSpeak
  <2> QED
    BY <1>2, <1>3, <1>4, <1>15, <2>1 DEF MetaIngest, MetaTells, e, MarkKinds
<1>16. CASE kind = "line" /\ LineIngest(d)
  <2>1. LineText(e) /\ flow[d].todo # <<>> => Speaks(e)
    BY <1>1, <1>16, TextsSpeak
  <2> QED
    BY <1>2, <1>4, <1>16, <2>1 DEF LineIngest, e, MarkKinds
<1>17. CASE kind = "viber" /\ ViberIngest(d)
  <2>1. ViberText(e) /\ flow[d].todo # <<>> => Speaks(e)
    BY <1>1, <1>17, TextsSpeak
  <2> QED
    BY <1>2, <1>4, <1>17, <2>1 DEF ViberIngest, e, MarkKinds
<1>18. CASE kind = "teams" /\ TeamsIngest(d)
  <2>1. TeamsText(e) /\ flow[d].todo # <<>> => Speaks(e)
    BY <1>1, <1>18, TextsSpeak
  <2> QED
    BY <1>2, <1>3, <1>4, <1>18, <2>1 DEF TeamsIngest, e, MarkKinds
<1> QED
  BY <1>6, <1>7, <1>8, <1>9, <1>10, <1>11, <1>12, <1>13, <1>14, <1>15, <1>16, <1>17, <1>18
     DEF Ingests

LEMMA DeliversHands ==
  ASSUME InboxAssumption, MessengersForms, NEW d \in Deliveries, Delivers(d)
  PROVE  \E batch \in Seq(Messages) : \E inTurn : Hands(d, batch, inTurn) /\ (kind \in InTurn => inTurn)
<1>1. Batches(kind) \subseteq Seq(Messages)
  BY DEF InboxAssumption, MessengersForms
<1>2. ASSUME NEW inTurn, One(d, inTurn), kind \in InTurn => inTurn
      PROVE  \E batch \in Seq(Messages) : \E t : Hands(d, batch, t) /\ (kind \in InTurn => t)
  BY <1>1, <1>2 DEF One
<1>3. ASSUME NEW inTurn, Several(d, inTurn), kind \in InTurn => inTurn
      PROVE  \E batch \in Seq(Messages) : \E t : Hands(d, batch, t) /\ (kind \in InTurn => t)
  BY <1>1, <1>3 DEF Several
<1> QED
  BY <1>2, <1>3 DEF Delivers, DiscordDelivers, SlackDelivers, MattermostDelivers, IrcDelivers,
     SignalDelivers, MatrixDelivers, EmailDelivers, WhatsAppDelivers, MetaDelivers, LineDelivers,
     ViberDelivers, TeamsDelivers, InTurn, Lists

(***************************************************************************)
(* A step that leaves the transcript alone.                                *)
(***************************************************************************)
LEMMA TranscriptStays ==
  ASSUME UNCHANGED <<threads, lines, outbox, kind, event, mark>>
  PROVE  /\ \A f : DeliveryOk(f)' <=> DeliveryOk(f)
         /\ \A o, to : FateOk(o, to)' <=> FateOk(o, to)
         /\ AnsweredMeansDelivered' <=> AnsweredMeansDelivered
         /\ Remembers' <=> Remembers
         /\ Guarded' <=> Guarded
         /\ Len(threads') = Len(threads)
         /\ StoredIds' = StoredIds
BY DEF DeliveryOk, FateOk, AnsweredMeansDelivered, Sent, Remembers, Apart, Caught, Guarded, Fits, Memory,
       StoredIds, CallerLines, Stored, Speaks, Customer, EmailText

LEMMA OnlyMoves ==
  ASSUME MessengersInv, UNCHANGED <<threads, lines, outbox, kind, event, mark>>,
         flow' = [d \in Deliveries |-> flow'[d]], \A d \in Deliveries : DeliveryOk(flow'[d]),
         fate' = [o \in Occurrences |-> fate'[o]], \A o \in Occurrences : FateOk(o, fate'[o]),
         Guarded => \A d, e \in Deliveries : flow'[d].at \in InRequest /\ flow'[e].at \in InRequest => d = e
  PROVE  MessengersInv'
<1>1. MessengersForms'
  BY DEF MessengersInv, MessengersForms, Stored, Arrives
<1>2. \A d \in Deliveries : DeliveryOk(flow[d])'
  BY TranscriptStays
<1>3. \A o \in Occurrences : FateOk(o, fate[o])'
  BY TranscriptStays
<1>4. AnsweredMeansDelivered' /\ (Guarded => Remembers' /\ Len(threads') <= 1) /\ (Guarded' => Guarded)
  BY TranscriptStays DEF MessengersInv
<1>5. kind' \notin MarkKinds => \A c \in 1..Len(mark') : Ids(mark'[c]) \subseteq StoredIds'
  BY TranscriptStays DEF MessengersInv
<1> QED
  BY <1>1, <1>2, <1>3, <1>4, <1>5 DEF MessengersInv, Busy

LEMMA NextIsOk ==
  ASSUME MessengersForms, NEW todo \in Seq(Messages)
  PROVE  LET f == [Untouched EXCEPT !.at = "next", !.todo = todo] IN DeliveryOk(f) /\ f.at = "next"
<1> DEFINE f == [Untouched EXCEPT !.at = "next", !.todo = todo]
<1>1. /\ f = [x \in FlowFields |-> f[x]]
      /\ f.at = "next" /\ f.todo = todo /\ f.seen = <<>> /\ f.thread = 0
  BY DEF Untouched, FlowFields
<1>2. Ids(<<>>) = {} /\ <<>> \in Seq(Messages) /\ Len(threads) \in Nat
  BY DEF Ids, MessengersForms
<1> HIDE DEF f
<1>3. f.at \notin Handled /\ f.at \notin {"found", "routed"} /\ 0 \in 0..Len(threads)
  BY <1>1, <1>2 DEF Handled
<1>4. Ids(f.seen) = {} /\ f.seen \in Seq(Messages) /\ f.thread \in 0..Len(threads)
  BY <1>1, <1>2, <1>3
<1>5. DeliveryOk(f)
  BY <1>1, <1>3, <1>4 DEF DeliveryOk
<1> QED
  BY <1>1, <1>5 DEF f

LEMMA PartsHold ==
  ASSUME MessengersInv
  PROVE  /\ \A d \in Deliveries : DeliveryOk(flow[d]) /\ flow[d].todo \in Seq(Messages)
         /\ \A o \in Occurrences : FateOk(o, fate[o])
         /\ flow = [d \in Deliveries |-> flow[d]] /\ fate = [o \in Occurrences |-> fate[o]]
BY DEF MessengersInv, MessengersForms, DeliveryOk

\* One delivery goes on, and with it one occurrence at most.
LEMMA DeliveryMoves ==
  ASSUME MessengersInv, UNCHANGED <<threads, lines, outbox, kind, event, mark>>,
         NEW d \in Deliveries, NEW f, flow' = [flow EXCEPT ![d] = f], DeliveryOk(f),
         f.at \in InRequest => flow[d].at \in InRequest \/ (Guarded => Busy = {}),
         NEW o \in Occurrences, NEW to, fate' = [fate EXCEPT ![o] = to], FateOk(o, to)
  PROVE  MessengersInv'
<1>1. flow'[d] = f /\ \A e \in Deliveries \ {d} : flow'[e] = flow[e]
  BY PartsHold
<1>2. \A e \in Deliveries : DeliveryOk(flow'[e])
  BY <1>1, PartsHold
<1>3. \A p \in Occurrences : FateOk(p, fate'[p])
  BY PartsHold
<1>4. Guarded => \A e, g \in Deliveries : flow'[e].at \in InRequest /\ flow'[g].at \in InRequest => e = g
  BY <1>1 DEF MessengersInv, Busy
<1>5. flow' = [e \in Deliveries |-> flow'[e]] /\ fate' = [p \in Occurrences |-> fate'[p]]
  BY PartsHold
<1> QED
  BY <1>2, <1>3, <1>4, <1>5, OnlyMoves

LEMMA FlowMoves ==
  ASSUME MessengersInv, UNCHANGED <<threads, lines, outbox, kind, event, mark>>,
         NEW d \in Deliveries, NEW f, flow' = [flow EXCEPT ![d] = f], DeliveryOk(f),
         f.at \in InRequest => flow[d].at \in InRequest \/ (Guarded => Busy = {}),
         fate' = fate
  PROVE  MessengersInv'
<1>1. flow'[d] = f /\ \A e \in Deliveries \ {d} : flow'[e] = flow[e]
  BY PartsHold
<1>2. \A e \in Deliveries : DeliveryOk(flow'[e])
  BY <1>1, PartsHold
<1>3. \A p \in Occurrences : FateOk(p, fate'[p])
  BY PartsHold
<1>4. Guarded => \A e, g \in Deliveries : flow'[e].at \in InRequest /\ flow'[g].at \in InRequest => e = g
  BY <1>1 DEF MessengersInv, Busy
<1>5. flow' = [e \in Deliveries |-> flow'[e]] /\ fate' = [p \in Occurrences |-> fate'[p]]
  BY PartsHold
<1> QED
  BY <1>2, <1>3, <1>4, <1>5, OnlyMoves

LEMMA ThisIsOne ==
  ASSUME MessengersInv, NEW d \in Deliveries, flow[d].todo # <<>>
  PROVE  /\ This(d) \in Occurrences /\ This(d)[2] = Msg(d) /\ EventOf(d) = event[This(d)[2]]
         /\ Msg(d) \in Messages /\ Tail(flow[d].todo) \in Seq(Messages)
BY PartsHold DEF This, Msg, Occurrences, EventOf

LEMMA PastKeeps ==
  ASSUME MessengersInv, UNCHANGED <<threads, lines, outbox, kind, event, mark>>,
         NEW d \in Deliveries, flow[d].todo # <<>>, flow[d].at \in InRequest,
         flow' = Past(d), NEW to, fate' = Becomes(This(d), to), FateOk(This(d), to)
  PROVE  MessengersInv'
<1> DEFINE f == [Untouched EXCEPT !.at = "next", !.todo = Tail(flow[d].todo)]
<1>1. DeliveryOk(f) /\ flow' = [flow EXCEPT ![d] = f]
  BY ThisIsOne, NextIsOk DEF Past, MessengersInv
<1> HIDE DEF f
<1> QED
  BY <1>1, ThisIsOne, DeliveryMoves DEF Becomes

LEMMA SilentIsOk ==
  \A o : FateOk(o, "silent") /\ FateOk(o, "dropped") /\ FateOk(o, "stored")
BY DEF FateOk, Answering

LEMMA HandsKeeps ==
  ASSUME MessengersInv, NEW d \in Deliveries, NEW batch \in Seq(Messages), NEW inTurn,
         Hands(d, batch, inTurn), kind \in InTurn => inTurn
  PROVE  MessengersInv'
<1> DEFINE f == [Untouched EXCEPT !.at = "next", !.todo = batch]
<1>1. DeliveryOk(f) /\ flow' = [flow EXCEPT ![d] = f]
  BY NextIsOk DEF Hands, MessengersInv
<1>2. UNCHANGED <<threads, lines, outbox, kind, event, fate, mark>> /\ (Guarded => Busy = {})
  BY DEF Hands, threadVars, Guarded
<1> HIDE DEF f
<1>3. flow' = [e \in Deliveries |-> flow'[e]] /\ fate' = [o \in Occurrences |-> fate'[o]]
  BY <1>1, <1>2, PartsHold
<1>4. flow'[d] = f /\ \A e \in Deliveries \ {d} : flow'[e] = flow[e]
  BY <1>1, PartsHold
<1>5. Guarded => \A e, g \in Deliveries : flow'[e].at \in InRequest /\ flow'[g].at \in InRequest => e = g
  BY <1>2, <1>4 DEF Busy
<1>6. \A e \in Deliveries : DeliveryOk(flow'[e])
  BY <1>1, <1>4, PartsHold
<1>7. \A o \in Occurrences : FateOk(o, fate'[o])
  BY <1>2, PartsHold
<1> QED
  BY <1>2, <1>3, <1>5, <1>6, <1>7, OnlyMoves

LEMMA SkipsKeeps ==
  ASSUME MessengersInv, NEW d \in Deliveries, NEW isText, Skips(d, isText)
  PROVE  MessengersInv'
BY PastKeeps, SilentIsOk DEF Skips, threadVars, InRequest

LEMMA DecidesKeeps ==
  ASSUME MessengersInv, NEW d \in Deliveries, NEW isText, NEW rules, Decides(d, isText, rules),
         isText /\ flow[d].todo # <<>> => Speaks(EventOf(d))
  PROVE  MessengersInv'
<1>1. UNCHANGED <<threads, lines, outbox, kind, event, mark>> /\ flow[d].at = "next" /\ flow[d].todo # <<>>
  BY DEF Decides, threadVars
<1>2. CASE flow' = Past(d) /\ fate' = Becomes(This(d), "dropped")
  BY <1>1, <1>2, PastKeeps, SilentIsOk DEF InRequest
<1>3. ASSUME NEW rule, flow' = [flow EXCEPT ![d].at = "arrived", ![d].rule = rule], fate' = fate
      PROVE  MessengersInv'
  <2> DEFINE f == [flow[d] EXCEPT !.at = "arrived", !.rule = rule]
  <2>1. flow' = [flow EXCEPT ![d] = f]
    BY <1>3, PartsHold
  <2>2. Speaks(event[flow[d].todo[1]])
    BY <1>1 DEF Decides, EventOf, Msg
  <2>3. DeliveryOk(f)
    BY <1>1, <2>2, PartsHold DEF DeliveryOk, FlowFields, Handled
  <2> HIDE DEF f
  <2> QED
    BY <1>1, <1>3, <2>1, <2>3, FlowMoves DEF InRequest
<1> QED
  BY <1>2, <1>3 DEF Decides

LEMMA OpenIs ==
  ASSUME MessengersForms
  PROVE  OpenOnes = Threads /\ Len(threads) \in Nat /\ Len(mark) = Len(threads)
<1>1. \A x \in OpenRow : x.status = "open"
  BY DEF OpenRow
<1>2. Len(threads) \in Nat /\ \A c \in 1..Len(threads) : threads[c] \in OpenRow
  BY DEF MessengersForms
<1>3. OpenOnes = Threads
  BY <1>1, <1>2 DEF OpenOnes, Threads, IsOpen
<1> QED
  BY <1>2, <1>3 DEF MessengersForms

LEMMA FindsKeeps ==
  ASSUME MessengersInv, NEW d \in Deliveries, Finds(d)
  PROVE  MessengersInv'
<1>1. UNCHANGED <<threads, lines, outbox, kind, event, fate, mark>> /\ flow[d].at = "arrived"
  BY DEF Finds, threadVars
<1>2. /\ DeliveryOk(flow[d]) /\ MessengersForms
      /\ Guarded => Len(threads) <= 1
  BY PartsHold DEF MessengersInv
<1>3. CASE OpenOnes = {}
  <2> DEFINE f == [flow[d] EXCEPT !.at = "found"]
  <2>1. flow' = [flow EXCEPT ![d] = f]
    BY <1>3, PartsHold DEF Finds
  <2>2. Len(threads) = 0 /\ Memory = <<>>
    BY <1>2, <1>3, OpenIs DEF Threads, Memory
  <2>3. DeliveryOk(f)
    BY <1>1, <1>2, <2>2 DEF DeliveryOk, FlowFields, Handled
  <2> HIDE DEF f
  <2> QED
    BY <1>1, <2>1, <2>3, FlowMoves DEF InRequest
<1>4. ASSUME NEW c \in OpenOnes,
             flow' = [flow EXCEPT ![d].at = "found", ![d].thread = c, ![d].seen = mark[c],
                                  ![d].handling = threads[c].handling]
      PROVE  MessengersInv'
  <2> DEFINE seen == mark[c]
             handling == threads[c].handling
             f == [flow[d] EXCEPT !.at = "found", !.thread = c, !.seen = seen, !.handling = handling]
  <2>1. flow' = [flow EXCEPT ![d] = f]
    BY <1>4, PartsHold
  <2>2. /\ c \in 1..Len(threads) /\ seen \in Seq(Messages) /\ c \in 0..Len(threads)
        /\ Guarded => c = Len(threads) /\ seen = Memory
        /\ kind \notin MarkKinds => Ids(seen) \subseteq StoredIds
    BY <1>2, <1>4, OpenIs DEF Threads, Memory, MessengersInv, MessengersForms
  <2> HIDE DEF seen, handling
  <2>3. /\ f = [x \in FlowFields |-> f[x]]
        /\ f.at = "found" /\ f.thread = c /\ f.seen = seen /\ f.todo = flow[d].todo
    BY <1>2 DEF DeliveryOk, FlowFields
  <2>4. f.todo \in Seq(Messages) /\ f.todo # <<>> /\ Speaks(event[f.todo[1]])
    BY <1>1, <1>2, <2>3 DEF DeliveryOk, Handled
  <2> HIDE DEF f
  <2>5. DeliveryOk(f)
    BY <2>2, <2>3, <2>4 DEF DeliveryOk
  <2> QED
    BY <1>1, <2>1, <2>3, <2>5, FlowMoves DEF InRequest
<1> QED
  BY <1>3, <1>4 DEF Finds

LEMMA RepeatsKeeps ==
  ASSUME MessengersInv, NEW d \in Deliveries, Repeats(d), flow[d].at \in {"found", "routed"}
  PROVE  MessengersInv'
<1>1. flow[d].todo # <<>> /\ (kind \notin MarkKinds => Ids(flow[d].seen) \subseteq StoredIds)
  BY PartsHold DEF DeliveryOk, Handled
<1>2. Msg(d) \in Ids(flow[d].seen)
  BY DEF Repeats, Seen, Ids
<1>3. FateOk(This(d), "repeated")
  BY <1>1, <1>2, ThisIsOne DEF FateOk, Answering
<1> QED
  BY <1>1, <1>3, PastKeeps DEF Repeats, threadVars, InRequest

LEMMA TellsKeeps ==
  ASSUME MessengersInv, NEW d \in Deliveries, Tells(d), kind # "email"
  PROVE  MessengersInv'
<1>1. flow[d].at = "announcing" /\ flow[d].todo # <<>> /\ Speaks(event[flow[d].todo[1]])
  BY PartsHold DEF Tells, DeliveryOk, Handled
<1>2. Customer(event[This(d)[2]])
  BY <1>1, ThisIsOne DEF Speaks, EventOf, Msg
<1>3. FateOk(This(d), "silent") /\ FateOk(This(d), "due")
  BY <1>2 DEF FateOk, Answering
<1> QED
  BY <1>1, <1>3, PastKeeps DEF Tells, threadVars, InRequest

LEMMA EmailTellsKeeps ==
  ASSUME InboxAssumption, MessengersInv, NEW d \in Deliveries, EmailTells(d), kind = "email"
  PROVE  MessengersInv'
<1>1. flow[d].at = "announcing" /\ flow[d].todo # <<>> /\ Speaks(event[flow[d].todo[1]])
  BY PartsHold DEF EmailTells, DeliveryOk, Handled
<1>2. UNCHANGED <<threads, lines, outbox, kind, event, mark>>
  BY DEF EmailTells, threadVars
<1>3. EventOf(d).from \in {"customer", "own", "bot"} /\ Arrives(kind, EventOf(d))
  BY <1>1, ThisIsOne DEF EventOf, MessengersInv, MessengersForms, InboxAssumption
<1>4. ~EventOf(d).odd => Customer(event[This(d)[2]])
  BY <1>1, <1>3, ThisIsOne, TextsSpeak DEF Speaks, EventOf, Msg
<1>5. CASE flow' = Past(d) /\ fate' = Becomes(This(d), "silent")
  BY <1>1, <1>2, <1>5, PastKeeps, SilentIsOk DEF InRequest
<1>6. CASE ~EventOf(d).odd /\ flow' = [flow EXCEPT ![d].at = "replying"]
           /\ fate' = Becomes(This(d), "generating")
  <2> DEFINE f == [flow[d] EXCEPT !.at = "replying"]
  <2>1. flow' = [flow EXCEPT ![d] = f]
    BY <1>6, PartsHold
  <2>2. DeliveryOk(f)
    BY <1>1, PartsHold DEF DeliveryOk, FlowFields, Handled
  <2>3. FateOk(This(d), "generating")
    BY <1>4, <1>6 DEF FateOk, Answering
  <2> HIDE DEF f
  <2> QED
    BY <1>1, <1>2, <1>6, <2>1, <2>2, <2>3, ThisIsOne, DeliveryMoves DEF InRequest, Becomes
<1> QED
  BY <1>5, <1>6 DEF EmailTells

LEMMA EmailGoesOnKeeps ==
  ASSUME MessengersInv, NEW d \in Deliveries, EmailGoesOn(d)
  PROVE  MessengersInv'
<1>1. flow[d].todo # <<>>
  BY PartsHold DEF EmailGoesOn, DeliveryOk, Handled
<1> DEFINE f == [Untouched EXCEPT !.at = "next", !.todo = Tail(flow[d].todo)]
<1>2. DeliveryOk(f) /\ flow' = [flow EXCEPT ![d] = f]
  BY <1>1, ThisIsOne, NextIsOk DEF Past, MessengersInv, EmailGoesOn
<1> HIDE DEF f
<1> QED
  BY <1>2, FlowMoves DEF EmailGoesOn, threadVars, InRequest

LEMMA SchedulesKeeps ==
  ASSUME MessengersInv, NEW d \in Deliveries, Schedules(d)
  PROVE  MessengersInv'
<1> DEFINE f == [flow[d] EXCEPT !.at = "over"]
<1>1. UNCHANGED <<threads, lines, outbox, kind, event, mark>> /\ flow' = [flow EXCEPT ![d] = f]
  BY PartsHold DEF Schedules, threadVars
<1>2. DeliveryOk(f) /\ f.at = "over"
  BY PartsHold DEF DeliveryOk, FlowFields, Handled
<1> HIDE DEF f
<1>3. \A o \in Occurrences : FateOk(o, fate'[o])
  BY PartsHold DEF Schedules, FateOk, Answering
<1>4. flow' = [e \in Deliveries |-> flow'[e]] /\ fate' = [o \in Occurrences |-> fate'[o]]
  BY <1>1, PartsHold DEF Schedules
<1>5. flow'[d] = f /\ \A e \in Deliveries \ {d} : flow'[e] = flow[e]
  BY <1>1, PartsHold
<1>6. Guarded => \A e, g \in Deliveries : flow'[e].at \in InRequest /\ flow'[g].at \in InRequest => e = g
  BY <1>2, <1>5 DEF Busy, InRequest, MessengersInv
<1>7. \A e \in Deliveries : DeliveryOk(flow'[e])
  BY <1>2, <1>5, PartsHold
<1> QED
  BY <1>1, <1>3, <1>4, <1>6, <1>7, OnlyMoves

LEMMA AbandonedIsOk ==
  ASSUME MessengersInv, NEW ds, NEW o \in Occurrences
  PROVE  FateOk(o, Abandoned(ds)[o])
<1>1. Abandoned(ds)[o] \in {"silent", fate[o]}
  BY DEF Abandoned
<1> QED
  BY <1>1, PartsHold, SilentIsOk

LEMMA RaisesKeeps ==
  ASSUME MessengersInv, NEW d \in Deliveries, Raises(d)
  PROVE  MessengersInv'
<1> DEFINE f == [flow[d] EXCEPT !.at = "failed"]
<1>1. UNCHANGED <<threads, lines, outbox, kind, event, mark>> /\ flow' = [flow EXCEPT ![d] = f]
  BY PartsHold DEF Raises, threadVars
<1>2. DeliveryOk(f) /\ f.at = "failed"
  BY PartsHold DEF DeliveryOk, FlowFields, Handled
<1> HIDE DEF f
<1>3. \A o \in Occurrences : FateOk(o, fate'[o])
  BY AbandonedIsOk DEF Raises
<1>4. flow' = [e \in Deliveries |-> flow'[e]] /\ fate' = [o \in Occurrences |-> fate'[o]]
  BY <1>1, PartsHold DEF Raises, Abandoned
<1>5. flow'[d] = f /\ \A e \in Deliveries \ {d} : flow'[e] = flow[e]
  BY <1>1, PartsHold
<1>6. Guarded => \A e, g \in Deliveries : flow'[e].at \in InRequest /\ flow'[g].at \in InRequest => e = g
  BY <1>2, <1>5 DEF Busy, InRequest, MessengersInv
<1>7. \A e \in Deliveries : DeliveryOk(flow'[e])
  BY <1>2, <1>5, PartsHold
<1> QED
  BY <1>1, <1>3, <1>4, <1>6, <1>7, OnlyMoves

LEMMA RestartsKeeps ==
  ASSUME MessengersInv, Restarts
  PROVE  MessengersInv'
<1>1. UNCHANGED <<threads, lines, outbox, kind, event, mark>>
  BY DEF Restarts, threadVars
<1>2. ASSUME NEW d \in Deliveries
      PROVE  DeliveryOk(flow'[d]) /\ flow'[d].at \notin InRequest
  <2> DEFINE f == [flow[d] EXCEPT !.at = "failed"]
  <2>1. DeliveryOk(f) /\ f.at = "failed"
    BY PartsHold DEF DeliveryOk, FlowFields, Handled
  <2>2. flow'[d] = IF d \in Busy THEN f ELSE flow[d]
    BY DEF Restarts
  <2> HIDE DEF f
  <2> QED
    BY <2>1, <2>2, PartsHold DEF Busy, InRequest
<1>3. \A o \in Occurrences : FateOk(o, fate'[o])
  BY AbandonedIsOk, SilentIsOk DEF Restarts
<1>4. flow' = [e \in Deliveries |-> flow'[e]] /\ fate' = [o \in Occurrences |-> fate'[o]]
  BY DEF Restarts
<1> QED
  BY <1>1, <1>2, <1>3, <1>4, OnlyMoves

\* The reply task looks, gives up or goes on.
LEMMA FateMoves ==
  ASSUME MessengersInv, UNCHANGED <<threadVars, kind, event, flow, mark>>,
         NEW o \in Occurrences, NEW to, fate' = Becomes(o, to), FateOk(o, to)
  PROVE  MessengersInv'
<1>1. UNCHANGED <<threads, lines, outbox, kind, event, mark>>
  BY DEF threadVars
<1>2. \A p \in Occurrences : FateOk(p, fate'[p])
  BY PartsHold DEF Becomes
<1>3. flow' = [e \in Deliveries |-> flow'[e]] /\ fate' = [p \in Occurrences |-> fate'[p]]
  BY PartsHold DEF Becomes
<1>4. /\ \A d \in Deliveries : DeliveryOk(flow'[d])
      /\ Guarded => \A e, g \in Deliveries : flow'[e].at \in InRequest /\ flow'[g].at \in InRequest => e = g
  BY PartsHold DEF MessengersInv, Busy
<1> QED
  BY <1>1, <1>2, <1>3, <1>4, OnlyMoves

LEMMA RepliesKeep ==
  ASSUME MessengersInv, NEW o \in Occurrences,
         Looks(o) \/ Fails(o) \/ (\E again : Finishes(o, again)) \/ Refused(o)
  PROVE  MessengersInv'
<1>1. fate[o] \in Answering => \A to \in Answering : FateOk(o, to)
  BY PartsHold DEF FateOk, Answering
<1>2. CASE Looks(o)
  BY <1>1, <1>2, FateMoves, SilentIsOk DEF Looks, Answering
<1>3. CASE Fails(o)
  BY <1>3, FateMoves, SilentIsOk DEF Fails
<1>4. ASSUME NEW again, Finishes(o, again) PROVE MessengersInv'
  BY <1>1, <1>4, FateMoves, SilentIsOk DEF Finishes, Answering
<1>5. CASE Refused(o)
  BY <1>5, FateMoves, SilentIsOk DEF Refused
<1> QED
  BY <1>2, <1>3, <1>4, <1>5

(***************************************************************************)
(* A step that writes to the transcript, to the platform or to a           *)
(* conversation.                                                           *)
(***************************************************************************)
LEMMA SendsKeeps ==
  ASSUME MessengersInv, NEW o \in Occurrences, Sends(o)
  PROVE  MessengersInv'
<1>1. UNCHANGED <<threads, lines, kind, event, mark, flow, fate>> /\ outbox \subseteq outbox'
  BY DEF Sends, inboxVars
<1>2. AnsweredMeansDelivered'
  BY <1>1 DEF MessengersInv, AnsweredMeansDelivered, Sent, Stored
<1>3. /\ \A f : DeliveryOk(f)' <=> DeliveryOk(f)
      /\ \A p, to : FateOk(p, to)' <=> FateOk(p, to)
      /\ Remembers' <=> Remembers
      /\ Guarded' <=> Guarded
      /\ StoredIds' = StoredIds
  BY <1>1 DEF DeliveryOk, FateOk, Remembers, Apart, Caught, Guarded, Fits, Memory,
       StoredIds, CallerLines, Stored, Speaks, Customer, EmailText
<1>4. MessengersForms'
  BY <1>1 DEF MessengersInv, MessengersForms, Stored, Arrives
<1> QED
  BY <1>1, <1>2, <1>3, <1>4 DEF MessengersInv, Busy

LEMMA OneMore ==
  ASSUME NEW s, s \in Seq({s[i] : i \in 1..Len(s)}), NEW x
  PROVE  LET t == Append(s, x) IN
         /\ t \in Seq({t[i] : i \in 1..Len(t)}) /\ Len(s) \in Nat /\ Len(t) = Len(s) + 1
         /\ {t[i] : i \in 1..Len(t)} = {s[i] : i \in 1..Len(s)} \cup {x}
         /\ \A i \in 1..Len(s) : t[i] = s[i]
         /\ t[Len(t)] = x
<1> DEFINE R == {s[i] : i \in 1..Len(s)}
           t == Append(s, x)
<1>1. s \in Seq(R \cup {x}) /\ x \in R \cup {x}
  BY SeqMonotonic
<1>2. /\ t \in Seq(R \cup {x}) /\ Len(t) = Len(s) + 1 /\ Len(s) \in Nat
      /\ \A i \in 1..Len(s) : t[i] = s[i]
      /\ t[Len(t)] = x
  BY <1>1, AppendProperties
<1>3. 1..Len(t) = 1..Len(s) \cup {Len(t)}
  BY <1>2
<1>4. {t[i] : i \in 1..Len(t)} = R \cup {x}
  BY <1>2, <1>3
<1> QED
  BY <1>2, <1>4

\* Different ids of a set that fits are not too many.
LEMMA DistinctFit ==
  ASSUME NEW ids \in Seq(Messages), Distinct(ids), Fits
  PROVE  Len(ids) <= RecentKept
<1>1. ids \in Injection(1..Len(ids), Messages)
  BY DEF Distinct, Injection, IsInjective
<1>2. Cardinality(1..Len(ids)) <= Cardinality(Messages)
  BY <1>1, FS_Injection DEF Fits
<1>3. Cardinality(1..Len(ids)) = Len(ids) /\ Len(ids) \in Nat
  BY FS_Interval
<1>4. Cardinality(Messages) \in Nat
  BY FS_CardinalityType DEF Fits
<1> QED
  BY <1>2, <1>3, <1>4, InboxAssumption DEF Fits

LEMMA KeptIs ==
  ASSUME NEW seen \in Seq(Messages), NEW m \in Messages
  PROVE  LET ids == Kept(Append(seen, m)) IN
         /\ ids \in Seq(Messages) /\ Ids(ids) \subseteq Ids(seen) \cup {m}
         /\ Fits /\ Distinct(seen) /\ m \notin Ids(seen) =>
              Ids(ids) = Ids(seen) \cup {m} /\ Distinct(ids)
<1> DEFINE t == Append(seen, m)
           n == Len(t)
<1>1. /\ t \in Seq(Messages) /\ n = Len(seen) + 1 /\ Len(seen) \in Nat
      /\ \A i \in 1..Len(seen) : t[i] = seen[i]
      /\ t[n] = m
  OBVIOUS
<1>2. 1..n = 1..Len(seen) \cup {n}
  BY <1>1
<1>3. Ids(t) = Ids(seen) \cup {m}
  BY <1>1, <1>2 DEF Ids
<1> HIDE DEF t
<1>4. CASE n <= RecentKept
  <2>1. Kept(t) = t
    BY <1>1, <1>4, InboxAssumption DEF Kept
  <2>2. m \notin Ids(seen) /\ Distinct(seen) => Distinct(t)
    BY <1>1, <1>2 DEF Distinct, Ids
  <2> QED
    BY <1>1, <1>3, <2>1, <2>2 DEF t
<1>5. CASE n > RecentKept
  <2> DEFINE k == n - RecentKept + 1
  <2>1. k \in 1..n /\ n \in 1..n /\ RecentKept \in Nat
    BY <1>1, <1>5, InboxAssumption
  <2>2. Kept(t) = SubSeq(t, k, n)
    BY <1>5 DEF Kept
  <2>3. /\ SubSeq(t, k, n) \in Seq(Messages) /\ Len(SubSeq(t, k, n)) = n - k + 1
        /\ \A i \in 1..(n - k + 1) : SubSeq(t, k, n)[i] = t[k + i - 1]
    BY <1>1, <2>1, SubSeqProperties
  <2>4. \A i \in 1..(n - k + 1) : k + i - 1 \in 1..n
    BY <1>1, <2>1
  <2>5. Ids(SubSeq(t, k, n)) \subseteq Ids(t)
    BY <2>3, <2>4 DEF Ids
  <2>6. ~(Fits /\ Distinct(seen) /\ m \notin Ids(seen))
    <3>1. m \notin Ids(seen) /\ Distinct(seen) => Distinct(t)
      BY <1>1, <1>2 DEF Distinct, Ids
    <3> QED
      BY <1>1, <1>5, <2>1, <3>1, DistinctFit
  <2> QED
    BY <1>3, <2>2, <2>3, <2>5, <2>6 DEF t
<1> QED
  BY <1>1, <1>4, <1>5, InboxAssumption

LEMMA LinesGrow ==
  ASSUME MessengersForms, NEW c, NEW who, NEW o, lines' = Append(lines, Line(c, who, o))
  PROVE  LET x == Line(c, who, o) IN
         /\ lines' \in Seq(Stored') /\ Len(lines) \in Nat /\ Len(lines') = Len(lines) + 1
         /\ Stored' = Stored \cup {x}
         /\ \A i \in 1..Len(lines) : lines'[i] = lines[i]
         /\ lines'[Len(lines) + 1] = x /\ x.who = who /\ x.text = o
         /\ who # "caller" => StoredIds' = StoredIds
         /\ who = "caller" => StoredIds' = StoredIds \cup {o[2]}
<1> DEFINE x == Line(c, who, o)
<1>1. x.who = who /\ x.text = o
  BY DEF Line
<1> HIDE DEF x
<1>2. /\ lines' \in Seq(Stored') /\ Len(lines) \in Nat /\ Len(lines') = Len(lines) + 1
      /\ Stored' = Stored \cup {x}
      /\ \A i \in 1..Len(lines) : lines'[i] = lines[i]
      /\ lines'[Len(lines')] = x
  BY OneMore DEF MessengersForms, Stored, x
<1>3. CallerLines' = CallerLines \cup (IF who = "caller" THEN {x} ELSE {})
  BY <1>1, <1>2 DEF CallerLines
<1>4. /\ who # "caller" => StoredIds' = StoredIds
      /\ who = "caller" => StoredIds' = StoredIds \cup {o[2]}
  BY <1>1, <1>3 DEF StoredIds
<1> QED
  BY <1>1, <1>2, <1>4 DEF x

LEMMA StoresReplyKeeps ==
  ASSUME MessengersInv, NEW o \in Occurrences, StoresReply(o)
  PROVE  MessengersInv'
<1>1. /\ UNCHANGED <<threads, outbox, kind, event, mark, flow>> /\ Sent(o) = 1..Pieces
      /\ lines' = Append(lines, Line(Conversation(o), "agent", o))
      /\ fate' = Becomes(o, "answered") /\ fate[o] = "sending"
  BY DEF StoresReply
<1> DEFINE x == Line(Conversation(o), "agent", o)
<1>2. /\ lines' \in Seq(Stored') /\ Len(lines) \in Nat /\ Len(lines') = Len(lines) + 1
      /\ Stored' = Stored \cup {x}
      /\ \A i \in 1..Len(lines) : lines'[i] = lines[i]
      /\ lines'[Len(lines) + 1] = x /\ x.who = "agent" /\ x.text = o
      /\ StoredIds' = StoredIds
  BY <1>1, LinesGrow DEF MessengersInv
<1> HIDE DEF x
<1>3. AnsweredMeansDelivered'
  BY <1>1, <1>2 DEF MessengersInv, AnsweredMeansDelivered, Sent
<1>4. /\ \A f : DeliveryOk(f)' <=> DeliveryOk(f)
      /\ \A p, to : FateOk(p, to)' <=> FateOk(p, to)
      /\ Guarded' <=> Guarded
  BY <1>1, <1>2 DEF DeliveryOk, FateOk, Guarded, Fits, Memory, Speaks, Customer, EmailText
<1>5. \A p \in Occurrences : FateOk(p, fate'[p])
  BY <1>1, PartsHold DEF Becomes, FateOk, Answering
<1>6. MessengersForms'
  <2>1. fate' = [p \in Occurrences |-> fate'[p]]
    BY <1>1, PartsHold DEF Becomes
  <2> QED
    BY <1>1, <1>2, <2>1 DEF MessengersInv, MessengersForms, Arrives
<1>7. ASSUME NEW i \in 1..Len(lines'), NEW j \in 1..Len(lines'), i < j,
             lines'[i].who = "caller", lines'[j].who = "caller", Caught(i, j)'
      PROVE  i \in 1..Len(lines) /\ j \in 1..Len(lines) /\ Caught(i, j)
  <2>1. i \in 1..Len(lines) /\ j \in 1..Len(lines)
    BY <1>2, <1>7
  <2>2. \A n \in (i + 1)..(j - 1) : n \in 1..Len(lines)
    BY <1>2, <2>1
  <2> QED
    BY <1>1, <1>2, <1>7, <2>1, <2>2 DEF Caught
<1>8. Remembers => Remembers'
  <2> SUFFICES ASSUME Remembers PROVE Remembers'
    OBVIOUS
  <2>1. Apart'
    BY <1>2, <1>7 DEF Remembers, Apart
  <2>2. Memory' = Memory /\ kind' = kind
    BY <1>1 DEF Memory
  <2>3. ASSUME NEW i \in 1..Len(lines'), lines'[i].who = "caller",
               \A n \in (i + 1)..Len(lines') : lines'[n].who # "caller",
               kind \in {"discord", "slack"}
        PROVE  Memory = <<lines'[i].text[2]>>
    <3>1. i \in 1..Len(lines)
      BY <1>2, <2>3
    <3>2. \A n \in (i + 1)..Len(lines) : n \in (i + 1)..Len(lines') /\ n \in 1..Len(lines)
      BY <1>2, <3>1
    <3> QED
      BY <1>2, <2>3, <3>1, <3>2 DEF Remembers
  <2> QED
    BY <1>2, <2>1, <2>2, <2>3 DEF Remembers
<1> QED
  BY <1>1, <1>2, <1>3, <1>4, <1>5, <1>6, <1>8, PartsHold DEF MessengersInv, Busy

\* The conversation the message goes to, the one there is or a new one.
LEMMA HomeIs ==
  ASSUME MessengersInv, NEW d \in Deliveries, flow[d].at \in {"found", "routed"}
  PROVE  /\ Created(d) \in Seq(OpenRow) /\ MarksOf(d) \in Seq(Seq(Messages))
         /\ Len(MarksOf(d)) = Len(Created(d)) /\ Len(Created(d)) \in Nat
         /\ Home(d) \in 1..Len(Created(d)) /\ Len(threads) \in Nat
         /\ Len(threads) <= Len(Created(d))
         /\ kind \notin MarkKinds => \A c \in 1..Len(MarksOf(d)) : Ids(MarksOf(d)[c]) \subseteq StoredIds
         /\ Guarded => Len(Created(d)) = 1 /\ Home(d) = 1 /\ MarksOf(d)[1] = Memory
         /\ flow[d].todo # <<>> /\ flow[d].seen \in Seq(Messages)
<1> DEFINE f == flow[d]
<1>1. /\ f.thread \in 0..Len(threads) /\ f.todo # <<>> /\ f.seen \in Seq(Messages)
      /\ Guarded => f.thread = Len(threads) /\ Len(threads) <= 1
  BY PartsHold DEF DeliveryOk, Handled, MessengersInv
<1>2. /\ threads \in Seq(OpenRow) /\ mark \in Seq(Seq(Messages)) /\ Len(mark) = Len(threads)
      /\ Len(threads) \in Nat
      /\ kind \notin MarkKinds => \A c \in 1..Len(mark) : Ids(mark[c]) \subseteq StoredIds
  BY DEF MessengersInv, MessengersForms
<1>3. CASE f.thread # 0
  <2>1. Created(d) = threads /\ MarksOf(d) = mark /\ Home(d) = f.thread
    BY <1>3 DEF Created, MarksOf, Home
  <2> QED
    BY <1>1, <1>2, <1>3, <2>1 DEF Memory
<1>4. CASE f.thread = 0
  <2> DEFINE fresh == [status |-> "open", handling |-> "ai"]
             none  == <<>>
  <2>1. Created(d) = Append(threads, fresh) /\ MarksOf(d) = Append(mark, none) /\ Home(d) = Len(threads) + 1
    BY <1>4 DEF Created, MarksOf, Home, NewThread
  <2>2. fresh \in OpenRow /\ none \in Seq(Messages) /\ Ids(none) = {}
    BY DEF OpenRow, Ids
  <2>3. (Guarded => Memory = none) /\ (Guarded => Len(threads) = 0)
    BY <1>1, <1>2, <1>4 DEF Memory
  <2> HIDE DEF fresh, none
  <2>4. /\ Created(d) \in Seq(OpenRow) /\ Len(Created(d)) = Len(threads) + 1
    BY <1>2, <2>1, <2>2
  <2>5. /\ MarksOf(d) \in Seq(Seq(Messages)) /\ Len(MarksOf(d)) = Len(threads) + 1
        /\ \A c \in 1..Len(mark) : MarksOf(d)[c] = mark[c]
        /\ MarksOf(d)[Len(mark) + 1] = none
    BY <1>2, <2>1, <2>2
  <2>6. kind \notin MarkKinds => \A c \in 1..Len(MarksOf(d)) : Ids(MarksOf(d)[c]) \subseteq StoredIds
    <3>1. \A c \in 1..Len(MarksOf(d)) : c \in 1..Len(mark) \/ c = Len(mark) + 1
      BY <1>2, <2>5
    <3>2. Ids(MarksOf(d)[Len(mark) + 1]) = {}
      BY <2>2, <2>5
    <3> QED
      BY <1>2, <2>5, <3>1, <3>2
  <2> QED
    BY <1>1, <1>2, <2>1, <2>3, <2>4, <2>5, <2>6
<1> QED
  BY <1>3, <1>4

LEMMA LastFewIs ==
  ASSUME MessengersInv, NEW d \in Deliveries, flow[d].at \in {"found", "routed"}, ~Seen(d)
  PROVE  /\ LastFew(d) \in Seq(Messages) /\ Ids(LastFew(d)) \subseteq Ids(flow[d].seen) \cup {Msg(d)}
         /\ Guarded /\ kind \in Lists /\ (flow[d].at = "found" \/ kind \notin MarkKinds) =>
              /\ Msg(d) \notin StoredIds /\ Distinct(LastFew(d))
              /\ StoredIds \cup {Msg(d)} \subseteq Ids(LastFew(d))
<1>1. flow[d].seen \in Seq(Messages) /\ Msg(d) \in Messages
  BY HomeIs, ThisIsOne
<1>2. Msg(d) \notin Ids(flow[d].seen)
  BY DEF Seen, Ids
<1>3. Guarded /\ kind \in Lists /\ (flow[d].at = "found" \/ kind \notin MarkKinds) =>
        /\ flow[d].seen = Memory /\ Distinct(Memory) /\ StoredIds \subseteq Ids(Memory) /\ Fits
  BY PartsHold DEF DeliveryOk, MessengersInv, Remembers, Guarded
<1> QED
  BY <1>1, <1>2, <1>3, KeptIs DEF LastFew

\* What the row remembers after the line is stored.
LEMMA KeepsIs ==
  ASSUME MessengersInv, NEW d \in Deliveries, flow[d].at \in {"found", "routed"},
         NEW ids, Keeps(d, ids)
  PROVE  /\ ids \in Seq(Messages)
         /\ kind \notin MarkKinds => Ids(ids) \subseteq StoredIds \cup {Msg(d)}
         /\ Guarded /\ kind \in Lists =>
              /\ Msg(d) \notin StoredIds /\ Distinct(ids)
              /\ StoredIds \cup {Msg(d)} \subseteq Ids(ids)
         /\ Guarded /\ kind \in {"discord", "slack"} => ids = <<Msg(d)>> /\ Msg(d) \notin Ids(Memory)
<1>1. Msg(d) \in Messages /\ flow[d].todo # <<>>
  BY HomeIs, ThisIsOne
<1>2. kind \notin MarkKinds => Ids(flow[d].seen) \subseteq StoredIds
  BY PartsHold DEF DeliveryOk
<1>3. CASE kind \in {"discord", "slack", "whatsapp", "meta"} /\ ~Seen(d) /\ ids = OnlyLast(d)
  <2>1. ids = <<Msg(d)>> /\ ids \in Seq(Messages) /\ Ids(ids) = {Msg(d)}
    BY <1>1, <1>3 DEF OnlyLast, Ids
  <2>2. Msg(d) \notin Ids(flow[d].seen)
    BY <1>3 DEF Seen, Ids
  <2>3. Guarded => flow[d].seen = Memory
    BY <1>3, PartsHold DEF DeliveryOk, MarkKinds
  <2>4. kind \notin Lists
    BY <1>3 DEF Lists
  <2> QED
    BY <2>1, <2>2, <2>3, <2>4
<1>4. CASE kind \in {"mattermost", "teams"} /\ ~Seen(d) /\ ids = LastFew(d)
  <2>1. kind \notin MarkKinds /\ kind \notin {"discord", "slack"}
    BY <1>4 DEF MarkKinds
  <2> QED
    BY <1>2, <1>4, <2>1, LastFewIs
<1>5. CASE kind = "email" /\ ids = <<>>
  BY <1>5 DEF Lists, Ids
<1>6. CASE kind \in MarkKinds /\ flow[d].at = "found" /\ ~Seen(d) /\ ids = LastFew(d)
  <2>1. kind \notin {"discord", "slack"}
    BY <1>6 DEF MarkKinds
  <2> QED
    BY <1>6, <2>1, LastFewIs
<1>7. CASE kind \in MarkKinds /\ flow[d].at = "routed" /\ ids = mark[Home(d)]
  <2>1. kind \notin {"discord", "slack"}
    BY <1>7 DEF MarkKinds
  <2>2. flow[d].thread \in 1..Len(threads) /\ Home(d) = flow[d].thread
    BY <1>7, PartsHold DEF DeliveryOk, Home, MessengersInv, MessengersForms
  <2>3. mark \in Seq(Seq(Messages)) /\ Len(mark) = Len(threads) /\ Len(threads) \in Nat
    BY DEF MessengersInv, MessengersForms
  <2>4. ids \in Seq(Messages)
    BY <1>7, <2>2, <2>3
  <2>5. Guarded => ids = Memory
    <3>1. Guarded => Len(threads) <= 1
      BY DEF MessengersInv
    <3>2. Guarded => flow[d].thread = 1 /\ Len(mark) # 0
      BY <2>2, <2>3, <3>1
    <3> QED
      BY <1>7, <2>2, <3>2 DEF Memory
  <2>6. Guarded => Msg(d) \in Ids(Memory) \ StoredIds
    BY <1>7, PartsHold DEF DeliveryOk, Msg
  <2>7. Guarded /\ kind \in Lists => Distinct(Memory) /\ StoredIds \subseteq Ids(Memory)
    BY DEF MessengersInv, Remembers
  <2> QED
    BY <1>7, <2>1, <2>4, <2>5, <2>6, <2>7
<1> QED
  BY <1>3, <1>4, <1>5, <1>6, <1>7 DEF Keeps

LEMMA HandsOverKeeps ==
  ASSUME MessengersInv, NEW d \in Deliveries, NEW writes \in BOOLEAN, HandsOver(d, writes),
         writes <=> kind \in MarkKinds, writes => ~Seen(d)
  PROVE  MessengersInv'
<1> DEFINE h == Home(d)
           f == [flow[d] EXCEPT !.at = "routed", !.thread = h, !.handling = "human"]
<1>1. /\ UNCHANGED <<lines, outbox, kind, event, fate>> /\ flow[d].at = "found"
      /\ threads' = [Created(d) EXCEPT ![h].handling = "human"]
      /\ mark' = IF writes THEN [MarksOf(d) EXCEPT ![h] = LastFew(d)] ELSE MarksOf(d)
      /\ flow' = [flow EXCEPT ![d] = f]
  BY PartsHold DEF HandsOver
<1>2. /\ Created(d) \in Seq(OpenRow) /\ MarksOf(d) \in Seq(Seq(Messages))
      /\ Len(MarksOf(d)) = Len(Created(d)) /\ Len(Created(d)) \in Nat
      /\ h \in 1..Len(Created(d)) /\ Len(threads) \in Nat /\ Len(threads) <= Len(Created(d))
      /\ kind \notin MarkKinds => \A c \in 1..Len(MarksOf(d)) : Ids(MarksOf(d)[c]) \subseteq StoredIds
      /\ Guarded => Len(Created(d)) = 1 /\ h = 1 /\ MarksOf(d)[1] = Memory
      /\ flow[d].todo # <<>>
  BY <1>1, HomeIs
<1>3. /\ f = [x \in FlowFields |-> f[x]]
      /\ f.at = "routed" /\ f.thread = h /\ f.seen = flow[d].seen /\ f.todo = flow[d].todo
  BY PartsHold DEF DeliveryOk, FlowFields
<1> HIDE DEF h, f
<1>4. threads' \in Seq(OpenRow) /\ Len(threads') = Len(Created(d))
  <2> DEFINE x == [Created(d)[h] EXCEPT !.handling = "human"]
  <2>1. Created(d)[h] \in OpenRow
    BY <1>2
  <2>2. x \in OpenRow
    BY <2>1 DEF OpenRow
  <2>3. threads' = [Created(d) EXCEPT ![h] = x]
    BY <1>1, <1>2
  <2> HIDE DEF x
  <2> QED
    BY <1>2, <2>2, <2>3
<1>5. LastFew(d) \in Seq(Messages) \/ ~writes
  BY <1>1, LastFewIs
<1>6. mark' \in Seq(Seq(Messages)) /\ Len(mark') = Len(threads')
  BY <1>1, <1>2, <1>4, <1>5
<1>7. MessengersForms'
  <2>1. flow' = [e \in Deliveries |-> flow'[e]] /\ fate' = [o \in Occurrences |-> fate'[o]]
    BY <1>1, PartsHold
  <2>2. lines' \in Seq(Stored')
    BY <1>1 DEF Stored, MessengersInv, MessengersForms
  <2> QED
    BY <1>1, <1>4, <1>6, <2>1, <2>2 DEF MessengersInv, MessengersForms, Arrives
<1>8. StoredIds' = StoredIds /\ (Guarded' <=> Guarded) /\ (\A e : Speaks(e)' <=> Speaks(e))
      /\ (\A o, to : FateOk(o, to)' <=> FateOk(o, to))
      /\ AnsweredMeansDelivered'
  BY <1>1 DEF StoredIds, CallerLines, Stored, Guarded, Fits, Speaks, Customer, EmailText, FateOk,
     MessengersInv, AnsweredMeansDelivered, Sent
<1>9. Guarded => Len(threads') = 1 /\ Memory' = (IF writes THEN LastFew(d) ELSE Memory)
  BY <1>1, <1>2, <1>4, <1>6 DEF Memory
<1>10. Guarded /\ kind \in Lists /\ writes =>
         /\ Msg(d) \notin StoredIds /\ Distinct(LastFew(d))
         /\ StoredIds \cup {Msg(d)} \subseteq Ids(LastFew(d))
  BY <1>1, LastFewIs
<1>11. Guarded /\ writes => kind \in Lists
  BY DEF Guarded, MarkKinds, InTurn
<1>12. \A e \in Deliveries \ {d} : flow'[e] = flow[e] /\ (Guarded => flow[e].at \notin InRequest)
  BY <1>1, PartsHold DEF MessengersInv, Busy, InRequest
<1>13. flow'[d] = f /\ f.at \in InRequest
  BY <1>1, <1>3, PartsHold DEF InRequest
<1>14. ASSUME NEW e \in Deliveries, e = d PROVE DeliveryOk(flow[e])'
  <2>1. f.todo \in Seq(Messages) /\ f.seen \in Seq(Messages) /\ Speaks(event[f.todo[1]])
        /\ (kind \notin MarkKinds => Ids(f.seen) \subseteq StoredIds)
        /\ (Guarded => f.seen = Memory)
    BY <1>1, <1>3, PartsHold DEF DeliveryOk, Handled
  <2>2. f.thread \in 0..Len(threads') /\ f.thread # 0 /\ (Guarded => f.thread = Len(threads'))
    <3>1. Len(threads') \in Nat /\ h \in 1..Len(threads') /\ (Guarded => h = Len(threads'))
      BY <1>2, <1>4
    <3> QED
      BY <1>3, <3>1
  <2>3. Guarded /\ kind \notin MarkKinds => f.seen = Memory'
    BY <1>9, <2>1
  <2>4. Guarded /\ kind \in MarkKinds => f.todo[1] \in Ids(Memory') \ StoredIds
    BY <1>3, <1>9, <1>10, <1>11 DEF Msg
  <2> QED
    BY <1>1, <1>2, <1>3, <1>8, <1>13, <1>14, <2>1, <2>2, <2>3, <2>4 DEF DeliveryOk
<1>15. ASSUME NEW e \in Deliveries \ {d} PROVE DeliveryOk(flow[e])'
  <2>1. DeliveryOk(flow[e]) /\ (Guarded => flow[e].at \notin {"next", "arrived", "found", "routed"})
    BY <1>12, PartsHold DEF InRequest
  <2>2. flow[e].thread \in 0..Len(threads')
    BY <1>2, <1>4, <2>1 DEF DeliveryOk
  <2> QED
    BY <1>1, <1>8, <1>12, <2>1, <2>2 DEF DeliveryOk
<1>16. Guarded => Remembers'
  <2>1. Apart' <=> Apart
    BY <1>1 DEF Apart, Caught
  <2>2. kind \in {"discord", "slack"} => ~writes
    BY DEF MarkKinds
  <2> QED
    BY <1>1, <1>8, <1>9, <1>10, <2>1, <2>2 DEF MessengersInv, Remembers
<1>17. kind \notin MarkKinds => \A c \in 1..Len(mark') : Ids(mark'[c]) \subseteq StoredIds'
  BY <1>1, <1>2, <1>8
<1>18. Guarded => \A a, b \in Busy' : a = b
  BY <1>12, <1>13 DEF Busy
<1>19. \A o \in Occurrences : FateOk(o, fate'[o])
  BY <1>1, PartsHold
<1>20. ASSUME NEW e \in Deliveries PROVE DeliveryOk(flow[e])'
  BY <1>14, <1>15
<1>21. Guarded => Len(threads') <= 1
  <2>1. Guarded => Len(Created(d)) = 1
    BY <1>2
  <2>2. Len(threads') = Len(Created(d))
    BY <1>4
  <2> QED
    BY <2>1, <2>2
<1>22. kind' \notin MarkKinds => \A c \in 1..Len(mark') : Ids(mark'[c]) \subseteq StoredIds'
  BY <1>1, <1>17
<1>23. Guarded' => Len(threads') <= 1 /\ (\A a, b \in Busy' : a = b) /\ Remembers'
  BY <1>8, <1>16, <1>18, <1>21
<1>24. \A e \in Deliveries : DeliveryOk(flow[e])'
  BY <1>20
<1>25. \A o \in Occurrences : FateOk(o, fate[o])'
  BY <1>8, <1>19
<1> QED
  BY <1>7, <1>8, <1>22, <1>23, <1>24, <1>25 DEF MessengersInv

LEMMA StoresKeeps ==
  ASSUME MessengersInv, NEW d \in Deliveries, NEW ids, Keeps(d, ids), Stores(d, ids)
  PROVE  MessengersInv'
<1> DEFINE h == Home(d)
           f == [flow[d] EXCEPT !.at = "announcing", !.thread = h]
           x == Line(h, "caller", This(d))
<1>1. /\ UNCHANGED <<outbox, kind, event>> /\ flow[d].at \in {"found", "routed"}
      /\ threads' = Created(d)
      /\ mark' = [MarksOf(d) EXCEPT ![h] = ids]
      /\ lines' = Append(lines, x)
      /\ flow' = [flow EXCEPT ![d] = f]
      /\ fate' = Becomes(This(d), "stored")
  BY PartsHold DEF Stores, Routed
<1>2. /\ Created(d) \in Seq(OpenRow) /\ MarksOf(d) \in Seq(Seq(Messages))
      /\ Len(MarksOf(d)) = Len(Created(d)) /\ Len(Created(d)) \in Nat
      /\ h \in 1..Len(Created(d)) /\ Len(threads) \in Nat /\ Len(threads) <= Len(Created(d))
      /\ kind \notin MarkKinds => \A c \in 1..Len(MarksOf(d)) : Ids(MarksOf(d)[c]) \subseteq StoredIds
      /\ Guarded => Len(Created(d)) = 1 /\ h = 1
      /\ flow[d].todo # <<>>
  BY <1>1, HomeIs
<1>3. /\ f = [z \in FlowFields |-> f[z]]
      /\ f.at = "announcing" /\ f.thread = h /\ f.seen = flow[d].seen /\ f.todo = flow[d].todo
  BY PartsHold DEF DeliveryOk, FlowFields
<1>4. This(d) \in Occurrences /\ This(d)[2] = Msg(d)
  BY <1>2, ThisIsOne
<1>5. /\ lines' \in Seq(Stored') /\ Len(lines) \in Nat /\ Len(lines') = Len(lines) + 1
      /\ Stored' = Stored \cup {x}
      /\ \A i \in 1..Len(lines) : lines'[i] = lines[i]
      /\ lines'[Len(lines) + 1] = x /\ x.who = "caller" /\ x.text[2] = Msg(d)
      /\ StoredIds' = StoredIds \cup {Msg(d)}
  BY <1>1, <1>4, LinesGrow DEF MessengersInv
<1>6. /\ ids \in Seq(Messages)
      /\ kind \notin MarkKinds => Ids(ids) \subseteq StoredIds \cup {Msg(d)}
      /\ Guarded /\ kind \in Lists =>
           /\ Msg(d) \notin StoredIds /\ Distinct(ids)
           /\ StoredIds \cup {Msg(d)} \subseteq Ids(ids)
      /\ Guarded /\ kind \in {"discord", "slack"} => ids = <<Msg(d)>> /\ Msg(d) \notin Ids(Memory)
  BY <1>1, KeepsIs
<1> HIDE DEF h, f, x
<1>7. /\ threads' \in Seq(OpenRow) /\ mark' \in Seq(Seq(Messages)) /\ Len(mark') = Len(threads')
      /\ \A c \in 1..Len(mark') : mark'[c] = IF c = h THEN ids ELSE MarksOf(d)[c]
      /\ h \in 1..Len(mark')
  BY <1>1, <1>2, <1>6
<1>8. MessengersForms'
  <2>1. flow' = [e \in Deliveries |-> flow'[e]] /\ fate' = [o \in Occurrences |-> fate'[o]]
    BY <1>1, PartsHold DEF Becomes
  <2> QED
    BY <1>1, <1>5, <1>7, <2>1 DEF MessengersInv, MessengersForms, Arrives
<1>9. (Guarded' <=> Guarded) /\ \A e : Speaks(e)' <=> Speaks(e)
  BY <1>1 DEF Guarded, Fits, Speaks, Customer, EmailText
<1>10. AnsweredMeansDelivered'
  BY <1>1, <1>5 DEF MessengersInv, AnsweredMeansDelivered, Sent
<1>11. Guarded => Len(threads') <= 1
  <2>1. Guarded => Len(Created(d)) = 1
    BY <1>2
  <2>2. Len(threads') = Len(Created(d))
    BY <1>1
  <2> QED
    BY <2>1, <2>2
<1>12. Guarded => Memory' = ids
  BY <1>2, <1>7 DEF Memory
<1>13. \A e \in Deliveries \ {d} : flow'[e] = flow[e] /\ (Guarded => flow[e].at \notin InRequest)
  BY <1>1, PartsHold DEF MessengersInv, Busy, InRequest
<1>14. flow'[d] = f /\ f.at \in InRequest
  BY <1>1, <1>3, PartsHold DEF InRequest
<1>15. ASSUME NEW e \in Deliveries, e = d PROVE DeliveryOk(flow[e])'
  <2>1. f.todo \in Seq(Messages) /\ f.seen \in Seq(Messages) /\ Speaks(event[f.todo[1]])
        /\ (kind \notin MarkKinds => Ids(f.seen) \subseteq StoredIds)
    BY <1>1, <1>3, PartsHold DEF DeliveryOk, Handled
  <2>2. f.thread \in 0..Len(threads')
    BY <1>1, <1>2, <1>3
  <2> QED
    BY <1>1, <1>2, <1>3, <1>5, <1>9, <1>14, <1>15, <2>1, <2>2 DEF DeliveryOk
<1>16. ASSUME NEW e \in Deliveries \ {d} PROVE DeliveryOk(flow[e])'
  <2>1. DeliveryOk(flow[e]) /\ (Guarded => flow[e].at \notin {"next", "arrived", "found", "routed"})
    BY <1>13, PartsHold DEF InRequest
  <2>2. flow[e].thread \in 0..Len(threads')
    BY <1>1, <1>2, <2>1 DEF DeliveryOk
  <2> QED
    BY <1>1, <1>5, <1>9, <1>13, <2>1, <2>2 DEF DeliveryOk
<1>17. \A o \in Occurrences : FateOk(o, fate[o])'
  <2>1. \A o \in Occurrences : FateOk(o, fate'[o])
    BY <1>1, PartsHold, SilentIsOk DEF Becomes
  <2> QED
    BY <1>1, <1>5, <2>1 DEF FateOk, Customer
<1>18. kind' \notin MarkKinds => \A c \in 1..Len(mark') : Ids(mark'[c]) \subseteq StoredIds'
  BY <1>1, <1>2, <1>5, <1>6, <1>7
<1>19. Guarded => \A a, b \in Busy' : a = b
  BY <1>13, <1>14 DEF Busy
<1>20. ASSUME Guarded PROVE Remembers'
  <2>1. Remembers
    BY <1>20 DEF MessengersInv
  <2>2. CASE kind \in Lists
    <3>1. ASSUME NEW i \in 1..Len(lines), lines[i].who = "caller" PROVE lines[i].text[2] \in StoredIds
      BY <3>1 DEF StoredIds, CallerLines, Stored
    <3>2. ASSUME NEW i \in 1..Len(lines'), NEW j \in 1..Len(lines'), i < j,
                 lines'[i].who = "caller", lines'[j].who = "caller"
          PROVE  lines'[i].text[2] # lines'[j].text[2]
      <4>1. i \in 1..Len(lines) /\ lines'[i] = lines[i] /\ (j \in 1..Len(lines) \/ j = Len(lines) + 1)
        BY <1>5, <3>2
      <4>2. CASE j \in 1..Len(lines)
        <5>1. Caught(i, j)
          BY <2>2 DEF Caught, Lists
        <5> QED
          BY <1>5, <2>1, <3>2, <4>1, <4>2, <5>1 DEF Remembers, Apart
      <4>3. CASE j = Len(lines) + 1
        BY <1>5, <1>6, <1>20, <2>2, <3>1, <3>2, <4>1, <4>3
      <4> QED
        BY <4>1, <4>2, <4>3
    <3>3. kind \notin {"discord", "slack"}
      BY <2>2 DEF Lists
    <3> QED
      BY <1>1, <1>5, <1>6, <1>12, <1>20, <2>2, <3>2, <3>3 DEF Remembers, Apart
  <2>3. CASE kind \in {"discord", "slack"}
    <3>1. Memory' = <<Msg(d)>> /\ Msg(d) \notin Ids(Memory) /\ kind \notin Lists /\ kind' = kind
      BY <1>1, <1>6, <1>12, <1>20, <2>3 DEF Lists
    <3>2. ASSUME NEW i \in 1..Len(lines'), lines'[i].who = "caller",
                 \A n \in (i + 1)..Len(lines') : lines'[n].who # "caller"
          PROVE  Memory' = <<lines'[i].text[2]>>
      <4>1. i = Len(lines) + 1
        BY <1>5, <3>2
      <4> QED
        BY <1>5, <3>1, <4>1
    <3>3. ASSUME NEW i \in 1..Len(lines'), NEW j \in 1..Len(lines'), i < j,
                 lines'[i].who = "caller", lines'[j].who = "caller",
                 \A n \in (i + 1)..(j - 1) : lines'[n].who # "caller"
          PROVE  lines'[i].text[2] # lines'[j].text[2]
      <4>1. i \in 1..Len(lines) /\ lines'[i] = lines[i] /\ (j \in 1..Len(lines) \/ j = Len(lines) + 1)
        BY <1>5, <3>3
      <4>2. CASE j \in 1..Len(lines)
        <5>1. \A n \in (i + 1)..(j - 1) : n \in 1..Len(lines) /\ lines'[n] = lines[n]
          BY <1>5, <4>1, <4>2
        <5>2. Caught(i, j)
          BY <2>3, <3>3, <5>1 DEF Caught
        <5> QED
          BY <1>5, <2>1, <3>3, <4>1, <4>2, <5>2 DEF Remembers, Apart
      <4>3. CASE j = Len(lines) + 1
        <5>1. \A n \in (i + 1)..Len(lines) : lines[n].who # "caller"
          BY <1>5, <3>3, <4>1, <4>3
        <5>2. Memory = <<lines[i].text[2]>>
          BY <2>1, <2>3, <3>3, <4>1, <5>1 DEF Remembers
        <5>3. lines[i].text[2] \in Ids(Memory)
          BY <5>2 DEF Ids
        <5> QED
          BY <1>5, <3>1, <4>1, <4>3, <5>3
      <4> QED
        BY <4>1, <4>2, <4>3
    <3> QED
      BY <3>1, <3>2, <3>3, <2>3 DEF Remembers, Apart, Caught, Lists
  <2> QED
    BY <1>20, <2>2, <2>3 DEF Guarded, InTurn
<1>21. ASSUME NEW e \in Deliveries PROVE DeliveryOk(flow[e])'
  BY <1>15, <1>16
<1>22. Guarded' => Len(threads') <= 1 /\ (\A a, b \in Busy' : a = b) /\ Remembers'
  BY <1>9, <1>11, <1>19, <1>20
<1> QED
  BY <1>8, <1>10, <1>17, <1>18, <1>21, <1>22 DEF MessengersInv

LEMMA TakeOverKeeps ==
  ASSUME MessengersInv, NEW c \in Threads, TakeOver(c), UNCHANGED inboxVars
  PROVE  MessengersInv'
<1>1. UNCHANGED <<lines, outbox, kind, event, flow, fate, mark>>
  BY DEF TakeOver, inboxVars
<1>2. threads' \in Seq(OpenRow) /\ Len(threads') = Len(threads)
  <2> DEFINE x == [threads[c] EXCEPT !.handling = "human"]
  <2>1. threads \in Seq(OpenRow) /\ c \in 1..Len(threads) /\ threads[c] \in OpenRow
    BY DEF MessengersInv, MessengersForms, Threads
  <2>2. x \in OpenRow
    BY <2>1 DEF OpenRow
  <2>3. threads' = [threads EXCEPT ![c] = x]
    BY <2>1 DEF TakeOver
  <2> HIDE DEF x
  <2> QED
    BY <2>1, <2>2, <2>3
<1>3. /\ \A f : DeliveryOk(f)' <=> DeliveryOk(f)
      /\ \A p, to : FateOk(p, to)' <=> FateOk(p, to)
      /\ Remembers' <=> Remembers
      /\ Guarded' <=> Guarded
      /\ StoredIds' = StoredIds
  BY <1>1, <1>2 DEF DeliveryOk, FateOk, Remembers, Apart, Caught, Guarded, Fits, Memory,
       StoredIds, CallerLines, Stored, Speaks, Customer, EmailText
<1>4. MessengersForms'
  BY <1>1, <1>2 DEF MessengersInv, MessengersForms, Stored, Arrives
<1>5. AnsweredMeansDelivered'
  BY <1>1 DEF MessengersInv, AnsweredMeansDelivered, Sent, Stored
<1> QED
  BY <1>1, <1>2, <1>3, <1>4, <1>5 DEF MessengersInv, Busy

(***************************************************************************)
(* Every step, and the theorems.                                           *)
(***************************************************************************)
LEMMA IngestsKeeps ==
  ASSUME MessengersInv, NEW d \in Deliveries, Ingests(d)
  PROVE  MessengersInv'
<1>1. IngestStep(d)
  BY IngestsStep, InboxAssumption, PartsHold DEF MessengersInv
<1>2. ASSUME NEW isText, Skips(d, isText) PROVE MessengersInv'
  BY <1>2, SkipsKeeps
<1>3. ASSUME NEW isText, NEW rules, Decides(d, isText, rules),
             isText /\ flow[d].todo # <<>> => Speaks(EventOf(d))
      PROVE  MessengersInv'
  BY <1>3, DecidesKeeps
<1>4. CASE kind \notin MarkKinds /\ HandsOver(d, FALSE)
  BY <1>4, HandsOverKeeps
<1>5. CASE kind \in MarkKinds /\ ~Seen(d) /\ HandsOver(d, TRUE)
  BY <1>5, HandsOverKeeps
<1>6. ASSUME NEW ids, Keeps(d, ids), Stores(d, ids) PROVE MessengersInv'
  BY <1>6, StoresKeeps
<1> QED
  BY <1>1, <1>2, <1>3, <1>4, <1>5, <1>6, FindsKeeps, RepeatsKeeps, TellsKeeps, EmailTellsKeeps,
     EmailGoesOnKeeps, SchedulesKeeps, InboxAssumption DEF IngestStep

LEMMA RespondsKeeps ==
  ASSUME MessengersInv, NEW o \in Occurrences, Responds(o)
  PROVE  MessengersInv'
<1>1. Looks(o) \/ (\E again : Finishes(o, again)) \/ Sends(o) \/ StoresReply(o)
  BY DEF Responds, DiscordRespond, SlackRespond, WhatsAppRespond, MetaRespond, EmailRespond,
         LooksOnce, LooksTwice
<1> QED
  BY <1>1, RepliesKeep, SendsKeeps, StoresReplyKeeps

LEMMA MessengersInitInv == MessengersInit => MessengersInv
<1> SUFFICES ASSUME MessengersInit PROVE MessengersInv
  OBVIOUS
<1>1. /\ kind \in Kinds /\ threads = <<>> /\ mark = <<>> /\ lines = <<>>
      /\ \A m \in Messages : event[m] \in Events /\ Arrives(kind, event[m])
      /\ flow = [d \in Deliveries |-> Untouched] /\ fate = [o \in Occurrences |-> "none"]
  BY DEF MessengersInit, InboxInit, ThreadInit
<1>2. MessengersForms
  BY <1>1 DEF MessengersForms
<1>3. ASSUME NEW d \in Deliveries PROVE DeliveryOk(flow[d]) /\ flow[d].at = "unused"
  <2>1. flow[d] = Untouched
    BY <1>1
  <2>2. /\ Untouched = [x \in FlowFields |-> Untouched[x]] /\ Untouched.at = "unused"
        /\ Untouched.todo = <<>> /\ Untouched.seen = <<>> /\ Untouched.thread = 0
    BY DEF Untouched, FlowFields
  <2>3. Ids(<<>>) = {} /\ 0 \in 0..Len(threads) /\ <<>> \in Seq(Messages)
    BY <1>1 DEF Ids
  <2> QED
    BY <2>1, <2>2, <2>3 DEF DeliveryOk, Handled
<1>4. \A o \in Occurrences : FateOk(o, fate[o])
  BY <1>1 DEF FateOk, Answering
<1>5. Stored = {} /\ StoredIds = {} /\ Memory = <<>> /\ Len(threads) = 0 /\ Len(mark) = 0 /\ Len(lines) = 0
  BY <1>1 DEF Stored, StoredIds, CallerLines, Memory
<1>6. Remembers
  BY <1>5 DEF Remembers, Apart, Distinct
<1> QED
  BY <1>2, <1>3, <1>4, <1>5, <1>6 DEF MessengersInv, AnsweredMeansDelivered, Busy, InRequest

LEMMA MessengersNextInv ==
  MessengersInv /\ [MessengersNext]_<<threadVars, inboxVars>> => MessengersInv'
<1> SUFFICES ASSUME MessengersInv, [MessengersNext]_<<threadVars, inboxVars>>
             PROVE  MessengersInv'
  OBVIOUS
<1>1. ASSUME NEW d \in Deliveries, Delivers(d) PROVE MessengersInv'
  <2>1. PICK batch \in Seq(Messages) : \E inTurn : Hands(d, batch, inTurn) /\ (kind \in InTurn => inTurn)
    BY <1>1, DeliversHands, InboxAssumption DEF MessengersInv
  <2> QED
    BY <2>1, HandsKeeps
<1>2. ASSUME NEW c \in Threads, TakeOver(c), UNCHANGED inboxVars PROVE MessengersInv'
  BY <1>2, TakeOverKeeps
<1>3. CASE UNCHANGED <<threadVars, inboxVars>>
  <2>1. UNCHANGED <<threads, lines, outbox, kind, event, flow, fate, mark>>
    BY <1>3 DEF threadVars, inboxVars
  <2>2. \A d \in Deliveries : DeliveryOk(flow'[d])
    BY <2>1, PartsHold
  <2>3. \A o \in Occurrences : FateOk(o, fate'[o])
    BY <2>1, PartsHold
  <2>4. flow' = [d \in Deliveries |-> flow'[d]] /\ fate' = [o \in Occurrences |-> fate'[o]]
    BY <2>1, PartsHold
  <2>5. Guarded => \A e, g \in Deliveries : flow'[e].at \in InRequest /\ flow'[g].at \in InRequest => e = g
    BY <2>1 DEF MessengersInv, Busy
  <2> QED
    BY <2>1, <2>2, <2>3, <2>4, <2>5, OnlyMoves
<1> QED
  BY <1>1, <1>2, <1>3, IngestsKeeps, RaisesKeeps, RespondsKeeps, RepliesKeep, RestartsKeeps
     DEF MessengersNext

\* The invariant of the messengers.
THEOREM MessengersHold == MessengersSpec => []MessengersInv
<1>1. MessengersInit => MessengersInv
  BY MessengersInitInv
<1>2. MessengersInv /\ [MessengersNext]_<<threadVars, inboxVars>> => MessengersInv'
  BY MessengersNextInv
<1> QED
  BY <1>1, <1>2, PTL DEF MessengersSpec

\* On every one of the twelve channels nobody but a customer speaking to the agent is
\* answered (message_text, and the autoresponder's check of the mailbox).
THEOREM CustomersAlone == MessengersSpec => []OnlyCustomersAreAnswered
<1>1. MessengersInv => OnlyCustomersAreAnswered
  <2> SUFFICES ASSUME MessengersInv, NEW o \in Occurrences, fate[o] \in {"sending", "answered"}
               PROVE  Customer(event[o[2]])
    BY DEF OnlyCustomersAreAnswered, Customer
  <2> QED
    BY PartsHold DEF FateOk, Answering
<1> QED
  BY <1>1, MessengersHold, PTL

\* An answer in the transcript was sent to the customer whole.
THEOREM DeliveredWhole == MessengersSpec => []AnsweredMeansDelivered
<1>1. MessengersInv => AnsweredMeansDelivered
  BY DEF MessengersInv
<1> QED
  BY <1>1, MessengersHold, PTL

\* The guard against repeats is exact, however long the conversation, as long as the
\* list of ids is long enough for the customer's messages: a channel that keeps the last
\* RECENT_IDS_KEPT ids says nothing of a repeat of an older one.
THEOREM RepeatsAreCaught ==
  ASSUME Fits
  PROVE  MessengersSpec => []GuardIsExact
<1>1. MessengersInv => GuardIsExact
  <2> SUFFICES ASSUME MessengersInv PROVE GuardIsExact
    OBVIOUS
  <2>1. Apart
    <3>1. kind \in InTurn => Apart
      BY DEF MessengersInv, Remembers, Guarded
    <3>2. \A i, j : Caught(i, j) => kind \in InTurn
      BY DEF Caught, InTurn, Lists
    <3> QED
      BY <3>1, <3>2 DEF Apart
  <2>2. \A o \in Occurrences : fate[o] = "repeated" /\ kind \notin MarkKinds =>
          \E l \in CallerLines : l.text[2] = o[2]
    BY PartsHold DEF FateOk, StoredIds
  <2> QED
    BY <2>1, <2>2 DEF GuardIsExact, Apart, MarkKinds
<1> QED
  BY <1>1, MessengersHold, PTL

(***************************************************************************)
(* The web chat.                                                           *)
(***************************************************************************)
\* One page of the visitor: of two pages with one handle, both can be told the answer to the
\* message that came last.
OnePage == \A t, u \in Tabs : t = u

Stages   == {"posting", "matched", "stored", "accepted", "streaming", "finishing", "over"}
Unstored == {"posting", "matched"}
Exchange == [at : Stages, tab : Tabs, thread : Nat, about : Nat, chunks : Nat, alive : BOOLEAN]
ThreadRow == [status : {"open", "closed"}, handling : {"ai", "human"}]
Row      == [thread : Nat, who : Speakers, text : Nat]

PageFields == {"conversation", "screen", "known", "busy", "watching", "ask"}
AskFields  == {"kind", "at", "thread", "got"}
IsPage(x) ==
  /\ x = [f \in PageFields |-> x[f]]
  /\ x.conversation \in Nat /\ x.busy \in Nat

WebForms ==
  /\ ex \in Seq(Exchange)
  /\ lines \in Seq(Row)
  /\ threads \in Seq(ThreadRow)
  /\ tab = [t \in Tabs |-> tab[t]] /\ \A t \in Tabs : IsPage(tab[t])
  /\ saved \in Nat
  /\ typed \in Nat
  /\ person = [p \in People |-> person[p]]
  /\ \A p \in People : /\ person[p] = [f \in {"at", "thread", "text"} |-> person[p][f]]
                       /\ person[p].thread \in Nat /\ person[p].text \in Nat

\* An exchange whose page still waits is the last one, and the page's button is disabled.
Waits(e) == ex[e].alive /\ ex[e].at # "over"

OneAtATime ==
  /\ \A e \in Exchanges : Waits(e) => e = Len(ex) /\ tab[ex[e].tab].busy = e
  /\ \A e \in Exchanges : ex[e].chunks > 0 => ex[e].at \in {"streaming", "finishing", "over"}

\* A message is stored once, after it was matched.
FromCaller(i, e) == lines[i].who = "caller" /\ lines[i].text = e

PostedOnce ==
  /\ \A i \in 1..Len(lines) : lines[i].who = "caller" =>
       lines[i].text \in Exchanges /\ ex[lines[i].text].at \notin Unstored
  /\ \A i, j \in 1..Len(lines) :
       lines[i].who = "caller" /\ lines[j].who = "caller" /\ lines[i].text = lines[j].text => i = j
  /\ \A e \in Exchanges : ex[e].at \in {"stored", "accepted"} =>
       \E i \in 1..Len(lines) : lines[i] = Line(ex[e].thread, "caller", e)

\* What a stream that may speak answers is not before its own message, and is before
\* every later one.
MaySpeak(e) == ex[e].chunks > 0 \/ (ex[e].at = "streaming" /\ ex[e].alive)

AnswersInPlace(e) ==
  \E i, k \in 1..Len(lines) :
    /\ k <= i /\ FromCaller(k, e) /\ FromCaller(i, ex[e].about)
    /\ \A j \in 1..Len(lines) : lines[j].who = "caller" /\ lines[j].text > e => i < j

AnswersTheLast == \A e \in Exchanges : MaySpeak(e) => AnswersInPlace(e)

\* An answer is of an exchange that spoke, in its thread.
AnswerIsOf(i) ==
  LET e == lines[i].text
  IN  /\ e \in Exchanges /\ lines[i].thread = ex[e].thread
      /\ ex[e].at \in {"finishing", "over"} /\ ex[e].chunks > 0

AnswersAreOf == \A i \in 1..Len(lines) : lines[i].who = "agent" => AnswerIsOf(i)

WebInv == WebForms /\ OneAtATime /\ PostedOnce /\ AnswersTheLast /\ AnswersAreOf

LEMMA GreatestExists ==
  ASSUME NEW n \in Nat, NEW S \in SUBSET (1..n), S # {}
  PROVE  \E x \in S : \A y \in S : x >= y
<1> DEFINE Less == {p \in Nat \X Nat : p[1] < p[2]}
           T    == {n - x : x \in S}
<1>1. IsWellFoundedOn(Less, Nat)
  BY NatLessThanWellFounded, Zenon DEF OpToRel
<1>2. \A x, y \in Nat : x < y => <<x, y>> \in Less
  OBVIOUS
<1> HIDE DEF Less
<1>3. T \subseteq Nat /\ T # {}
  <2>1. \A x \in S : n - x \in Nat
    OBVIOUS
  <2>2. PICK x \in S : TRUE
    OBVIOUS
  <2> QED
    BY <2>1, <2>2
<1>4. PICK m \in T : \A k \in T : ~(<<k, m>> \in Less)
  <2> HIDE DEF T
  <2> QED
    BY <1>1, <1>3, WFMin
<1>5. PICK x \in S : m = n - x
  OBVIOUS
<1>6. ASSUME NEW y \in S PROVE x >= y
  <2>1. n - y \in T /\ n - y \in Nat /\ n - x \in Nat
    OBVIOUS
  <2>2. ~(n - y < n - x)
    BY <1>2, <1>4, <1>5, <2>1
  <2> QED
    BY <2>2
<1> QED
  BY <1>6

(***************************************************************************)
(* What a step of an exchange and a step of the thread may do.             *)
(***************************************************************************)
LEMMA ExchangeIs ==
  ASSUME WebForms, NEW e \in Exchanges
  PROVE  /\ e \in Nat \ {0} /\ Len(ex) \in Nat /\ ex[e] \in Exchange
         /\ ex[e] = [at |-> ex[e].at, tab |-> ex[e].tab, thread |-> ex[e].thread,
                     about |-> ex[e].about, chunks |-> ex[e].chunks, alive |-> ex[e].alive]
<1>1. e \in Nat \ {0} /\ Len(ex) \in Nat /\ ex[e] \in Exchange
  BY ElementOfSeq DEF WebForms, Exchanges
<1> QED
  BY <1>1 DEF Exchange

LEMMA OneExchangeChanges ==
  ASSUME WebForms, NEW e \in Exchanges, NEW x \in Exchange, ex' = [ex EXCEPT ![e] = x]
  PROVE  /\ ex' \in Seq(Exchange) /\ Len(ex') = Len(ex) /\ Exchanges' = Exchanges
         /\ ex'[e] = x /\ \A f \in Exchanges : f # e => ex'[f] = ex[f]
<1>1. /\ ex' \in Seq(Exchange) /\ Len(ex') = Len(ex)
      /\ \A f \in 1..Len(ex) : ex'[f] = IF f = e THEN x ELSE ex[f]
  BY ExceptSeq DEF WebForms, Exchanges
<1> QED
  BY <1>1 DEF Exchanges

\* Lines are added at the end, and no line of the visitor is among the new ones.
KeepsLines ==
  /\ lines' \in Seq(Row) /\ Len(lines') >= Len(lines)
  /\ \A i \in 1..Len(lines) : lines'[i] = lines[i]
  /\ \A i \in 1..Len(lines') : i \in 1..Len(lines) \/ lines'[i].who # "caller"

\* An exchange goes on from where it is.
Follows(e) ==
  /\ ex'[e].at \in Unstored => ex[e].at \in Unstored
  /\ ex'[e].at \in {"stored", "accepted"} =>
       ex[e].at \in {"stored", "accepted"} /\ ex'[e].thread = ex[e].thread
  /\ ex[e].at \in {"finishing", "over"} =>
       ex'[e].at \in {"finishing", "over"} /\ ex'[e].thread = ex[e].thread
  /\ ex'[e].chunks >= ex[e].chunks
  /\ ex'[e].chunks > 0 => ex'[e].at \in {"streaming", "finishing", "over"}
  /\ MaySpeak(e) => ex'[e].about = ex[e].about

AnswersAdded == \A i \in 1..Len(lines') : i \in 1..Len(lines) \/ (lines'[i].who = "agent" => AnswerIsOf(i)')

LEMMA StaysInPlace ==
  ASSUME WebForms, KeepsLines, NEW e \in Exchanges, AnswersInPlace(e), ex'[e].about = ex[e].about
  PROVE  AnswersInPlace(e)'
<1>1. PICK i, k \in 1..Len(lines) :
        /\ k <= i /\ FromCaller(k, e) /\ FromCaller(i, ex[e].about)
        /\ \A j \in 1..Len(lines) : lines[j].who = "caller" /\ lines[j].text > e => i < j
  BY DEF AnswersInPlace
<1>2. Len(lines) \in Nat /\ Len(lines') \in Nat
  BY DEF WebForms, KeepsLines
<1>3. /\ i \in 1..Len(lines') /\ k \in 1..Len(lines') /\ k <= i
      /\ FromCaller(k, e)' /\ FromCaller(i, ex[e].about)'
  BY <1>1, <1>2 DEF KeepsLines, FromCaller
<1>4. \A j \in 1..Len(lines') : lines'[j].who = "caller" /\ lines'[j].text > e => i < j
  BY <1>1, <1>2 DEF KeepsLines
<1> QED
  BY <1>3, <1>4 DEF AnswersInPlace, FromCaller

\* Everything but the types and the waiting page follows from such a step.
LEMMA GoesOn ==
  ASSUME WebInv, KeepsLines, AnswersAdded, WebForms',
         Len(ex') >= Len(ex), \A e \in Exchanges : Follows(e),
         \A e \in Exchanges' : e \in Exchanges \/ (ex'[e].at = "posting" /\ ex'[e].chunks = 0),
         \A e \in Exchanges : MaySpeak(e)' /\ ~MaySpeak(e) => AnswersInPlace(e)',
         \A e \in Exchanges' : Waits(e)' => e = Len(ex') /\ tab'[ex'[e].tab].busy = e
  PROVE  WebInv'
<1>1. Len(ex) \in Nat /\ Len(ex') \in Nat /\ Exchanges \subseteq Exchanges' /\ Len(lines) \in Nat /\ Len(lines') \in Nat
  BY DEF WebInv, WebForms, Exchanges, KeepsLines
<1>2. OneAtATime'
  BY <1>1 DEF Follows, OneAtATime
<1>3. PostedOnce'
  <2>1. ASSUME NEW i \in 1..Len(lines'), lines'[i].who = "caller"
        PROVE  /\ i \in 1..Len(lines) /\ lines'[i] = lines[i]
               /\ lines'[i].text \in Exchanges' /\ ex'[lines'[i].text].at \notin Unstored
    BY <1>1, <2>1 DEF KeepsLines, WebInv, PostedOnce, Follows
  <2>2. ASSUME NEW e \in Exchanges', ex'[e].at \in {"stored", "accepted"}
        PROVE  \E i \in 1..Len(lines') : lines'[i] = Line(ex'[e].thread, "caller", e)
    <3>1. e \in Exchanges /\ ex[e].at \in {"stored", "accepted"} /\ ex'[e].thread = ex[e].thread
      BY <2>2 DEF Follows
    <3>2. PICK i \in 1..Len(lines) : lines[i] = Line(ex[e].thread, "caller", e)
      BY <3>1 DEF WebInv, PostedOnce
    <3> QED
      BY <1>1, <3>1, <3>2 DEF KeepsLines
  <2>3. ASSUME NEW i \in 1..Len(lines'), NEW j \in 1..Len(lines'), lines'[i].who = "caller",
               lines'[j].who = "caller", lines'[i].text = lines'[j].text
        PROVE  i = j
    BY <2>1, <2>3 DEF WebInv, PostedOnce
  <2> QED
    BY <2>1, <2>2, <2>3 DEF PostedOnce, Line
<1>4. AnswersTheLast'
  <2>1. ASSUME NEW e \in Exchanges', MaySpeak(e)' PROVE AnswersInPlace(e)'
    <3>1. e \in Exchanges
      BY <2>1 DEF MaySpeak
    <3>2. CASE MaySpeak(e)
      BY <3>1, <3>2, StaysInPlace DEF WebInv, AnswersTheLast, Follows
    <3> QED
      BY <2>1, <3>1, <3>2
  <2> QED
    BY <2>1 DEF AnswersTheLast
<1>5. AnswersAreOf'
  <2>1. ASSUME NEW i \in 1..Len(lines), lines[i].who = "agent" PROVE AnswerIsOf(i)'
    <3>1. AnswerIsOf(i) /\ lines'[i] = lines[i]
      BY <2>1 DEF WebInv, AnswersAreOf, KeepsLines
    <3>2. lines[i].text \in Exchanges
      BY <3>1 DEF AnswerIsOf
    <3>3. /\ Follows(lines[i].text) /\ lines[i].text \in Exchanges'
          /\ ex[lines[i].text].chunks \in Nat /\ ex'[lines[i].text].chunks \in Nat
      <4>1. \A n \in Exchanges : ex[n] \in Exchange
        BY ElementOfSeq DEF WebInv, WebForms, Exchanges
      <4>2. \A n \in Exchanges' : ex'[n] \in Exchange
        BY ElementOfSeq DEF WebForms, Exchanges
      <4> QED
        BY <1>1, <3>2, <4>1, <4>2 DEF Exchange
    <3>4. /\ lines[i].thread = ex'[lines[i].text].thread
          /\ ex'[lines[i].text].at \in {"finishing", "over"} /\ ex'[lines[i].text].chunks > 0
      BY <3>1, <3>3 DEF AnswerIsOf, Follows
    <3> QED
      BY <3>1, <3>3, <3>4 DEF AnswerIsOf
  <2>2. ASSUME NEW i \in 1..Len(lines'), lines'[i].who = "agent" PROVE AnswerIsOf(i)'
    <3>1. CASE i \in 1..Len(lines)
      BY <2>1, <2>2, <3>1 DEF KeepsLines
    <3> QED
      BY <2>2, <3>1 DEF AnswersAdded
  <2> QED
    BY <2>2 DEF AnswersAreOf
<1> QED
  BY <1>2, <1>3, <1>4, <1>5 DEF WebInv

LEMMA OnePageChanges ==
  ASSUME WebForms, NEW t \in Tabs, NEW y, IsPage(y), tab' = [tab EXCEPT ![t] = y]
  PROVE  /\ tab' = [u \in Tabs |-> tab'[u]] /\ \A u \in Tabs : IsPage(tab'[u])
         /\ tab'[t] = y /\ \A u \in Tabs : u # t => tab'[u] = tab[u]
<1>1. \A u \in Tabs : tab'[u] = IF u = t THEN y ELSE tab[u]
  BY DEF WebForms
<1>2. tab' = [u \in Tabs |-> tab'[u]]
  BY DEF WebForms
<1> QED
  BY <1>1, <1>2 DEF WebForms

LEMMA SameLines ==
  ASSUME WebForms, UNCHANGED lines
  PROVE  KeepsLines /\ AnswersAdded
BY DEF WebForms, KeepsLines, AnswersAdded

BusyKept == \A t \in Tabs : tab'[t].busy = tab[t].busy

\* One exchange goes on, and the page waits for it as long as it waits itself.
PageFollows(e) ==
  /\ tab' = [t \in Tabs |-> tab'[t]] /\ \A t \in Tabs : IsPage(tab'[t])
  /\ Waits(e)' => Waits(e)
  /\ ~Waits(e) \/ Waits(e)' => BusyKept

LEMMA OneGoesOn ==
  ASSUME WebInv, KeepsLines, AnswersAdded,
         NEW e \in Exchanges, NEW x \in Exchange, ex' = [ex EXCEPT ![e] = x],
         threads' \in Seq(ThreadRow), UNCHANGED <<typed, person>>, saved' \in Nat,
         Follows(e), PageFollows(e), x.tab = ex[e].tab,
         MaySpeak(e)' => MaySpeak(e) \/ AnswersInPlace(e)'
  PROVE  WebInv'
<1>1. /\ ex' \in Seq(Exchange) /\ Len(ex') = Len(ex) /\ Exchanges' = Exchanges
      /\ ex'[e] = x /\ \A f \in Exchanges : f # e => ex'[f] = ex[f]
  BY OneExchangeChanges DEF WebInv
<1>2. WebForms'
  BY <1>1 DEF WebInv, WebForms, KeepsLines, PageFollows
<1>3. \A f \in Exchanges : ex[f] \in Exchange
  BY ExchangeIs DEF WebInv
<1>4. \A f \in Exchanges : Follows(f)
  <2>1. ASSUME NEW f \in Exchanges, f # e PROVE Follows(f)
    <3>1. ex'[f] = ex[f] /\ ex[f].chunks \in Nat
      BY <1>1, <1>3, <2>1 DEF Exchange
    <3> QED
      BY <3>1 DEF Follows, WebInv, OneAtATime
  <2> QED
    BY <2>1
<1>5. \A f \in Exchanges : MaySpeak(f)' /\ ~MaySpeak(f) => AnswersInPlace(f)'
  BY <1>1 DEF MaySpeak
<1>6. ASSUME NEW f \in Exchanges', Waits(f)' PROVE f = Len(ex') /\ tab'[ex'[f].tab].busy = f
  <2>1. Waits(f) /\ ex'[f].tab = ex[f].tab /\ f \in Exchanges
    BY <1>1, <1>6 DEF Waits, PageFollows
  <2>2. f = Len(ex) /\ tab[ex[f].tab].busy = f /\ (f # e => ~Waits(e))
    BY <2>1 DEF WebInv, OneAtATime
  <2>3. BusyKept
    BY <1>6, <2>2 DEF PageFollows
  <2> QED
    BY <1>1, <1>3, <2>1, <2>2, <2>3 DEF BusyKept, Exchange
<1>7. Len(ex') >= Len(ex)
  BY <1>1 DEF WebInv, WebForms
<1> QED
  BY <1>1, <1>2, <1>4, <1>5, <1>6, <1>7, GoesOn

(***************************************************************************)
(* The message.                                                            *)
(***************************************************************************)
LEMMA FailedIs ==
  ASSUME WebForms, NEW t \in Tabs, NEW e \in Exchanges
  PROVE  IsPage(Failed(t, e)) /\ IsPage(StreamError(t, e)) /\ IsPage(Released(t))
BY DEF WebForms, IsPage, PageFields, Failed, StreamError, Released

LEMMA MatchesKeeps ==
  ASSUME WebInv, NEW e \in Exchanges, PostMatches(e)
  PROVE  WebInv'
<1> DEFINE x == [ex[e] EXCEPT !.at = "matched", !.thread = IF IsOpen(@) THEN @ ELSE 0]
<1>1. ex[e] \in Exchange
  BY ExchangeIs DEF WebInv
<1>2. ex' = [ex EXCEPT ![e] = x] /\ ex[e].at = "posting"
  BY DEF PostMatches
<1>3. x \in Exchange /\ x.tab = ex[e].tab /\ x.at = "matched" /\ x.chunks = ex[e].chunks /\ x.alive = ex[e].alive
  BY <1>1 DEF Exchange, Stages
<1> HIDE DEF x
<1>4. ex'[e] = x
  BY <1>2, <1>3, OneExchangeChanges DEF WebInv
<1>5. ~(ex[e].chunks > 0)
  BY <1>2 DEF WebInv, OneAtATime
<1>6. Follows(e) /\ ~MaySpeak(e)'
  BY <1>1, <1>2, <1>3, <1>4, <1>5 DEF Follows, MaySpeak, Exchange, Unstored
<1>7. PageFollows(e)
  BY <1>2, <1>3, <1>4 DEF PageFollows, WebInv, WebForms, Waits, BusyKept, PostMatches
<1> QED
  BY <1>2, <1>3, <1>6, <1>7, OneGoesOn, SameLines DEF PostMatches, threadVars, WebInv, WebForms

\* An exchange moves to another stage and keeps everything else.
Moved(e, s) ==
  /\ ex'[e] \in Exchange /\ ex'[e].at = s
  /\ ex'[e].tab = ex[e].tab /\ ex'[e].thread = ex[e].thread /\ ex'[e].about = ex[e].about
  /\ ex'[e].chunks = ex[e].chunks /\ ex'[e].alive = ex[e].alive

LEMMA Moves ==
  ASSUME WebForms, NEW e \in Exchanges, NEW s \in Stages, ex' = [ex EXCEPT ![e].at = s]
  PROVE  ex[e] \in Exchange /\ ex' = [ex EXCEPT ![e] = ex'[e]] /\ Moved(e, s)
<1> DEFINE x == [ex[e] EXCEPT !.at = s]
<1>1. ex[e] \in Exchange
  BY ExchangeIs
<1>2. ex' = [ex EXCEPT ![e] = x]
  OBVIOUS
<1>3. /\ x \in Exchange /\ x.at = s /\ x.tab = ex[e].tab /\ x.thread = ex[e].thread
      /\ x.about = ex[e].about /\ x.chunks = ex[e].chunks /\ x.alive = ex[e].alive
  BY <1>1 DEF Exchange
<1> HIDE DEF x
<1>4. ex'[e] = x
  BY <1>2, <1>3, OneExchangeChanges
<1> QED
  BY <1>1, <1>2, <1>3, <1>4 DEF Moved

\* The exchange is over, and a page that is still there is told.
LEMMA EndsKeeps ==
  ASSUME WebInv, NEW e \in Exchanges, ex' = [ex EXCEPT ![e].at = "over"], ex[e].at # "over",
         UNCHANGED <<threadVars, saved>>, NEW y, IsPage(y),
         tab' = IF Alive(e) THEN [tab EXCEPT ![ex[e].tab] = y] ELSE tab
  PROVE  WebInv'
<1>1. ex[e] \in Exchange /\ ex' = [ex EXCEPT ![e] = ex'[e]] /\ Moved(e, "over")
  BY Moves DEF WebInv, Stages
<1>2. Follows(e) /\ (MaySpeak(e)' => MaySpeak(e))
  BY <1>1 DEF Moved, Follows, MaySpeak, Exchange, WebInv, OneAtATime, Unstored
<1>3. PageFollows(e)
  <2>1. ~Waits(e)' /\ (Waits(e) <=> Alive(e))
    BY <1>1 DEF Moved, Waits, Alive
  <2>2. CASE Alive(e)
    <3>1. ex[e].tab \in Tabs /\ tab' = [tab EXCEPT ![ex[e].tab] = y]
      BY <1>1, <2>2 DEF Exchange
    <3>2. tab' = [u \in Tabs |-> tab'[u]] /\ \A u \in Tabs : IsPage(tab'[u])
      BY <3>1, OnePageChanges DEF WebInv
    <3> QED
      BY <2>1, <2>2, <3>2 DEF PageFollows
  <2>3. CASE ~Alive(e)
    BY <2>1, <2>3 DEF PageFollows, BusyKept, WebInv, WebForms
  <2> QED
    BY <2>2, <2>3
<1> QED
  BY <1>1, <1>2, <1>3, OneGoesOn, SameLines DEF Moved, threadVars, WebInv, WebForms

LEMMA RefusedKeeps ==
  ASSUME WebInv, NEW e \in Exchanges, PostRefused(e)
  PROVE  WebInv'
<1>1. IsPage(Failed(ex[e].tab, e))
  BY ExchangeIs, FailedIs DEF WebInv, Exchange
<1> QED
  BY <1>1, EndsKeeps DEF PostRefused

LEMMA SilentKeeps ==
  ASSUME WebInv, NEW e \in Exchanges,
         StreamSilent(e) \/ StreamFails(e) \/ StreamEmpty(e) \/ StreamCancelled(e)
  PROVE  WebInv'
<1>1. IsPage(StreamError(ex[e].tab, e))
  BY ExchangeIs, FailedIs DEF WebInv, Exchange
<1>2. /\ ex' = [ex EXCEPT ![e].at = "over"] /\ ex[e].at # "over" /\ UNCHANGED <<threadVars, saved>>
      /\ tab' = IF Alive(e) THEN [tab EXCEPT ![ex[e].tab] = StreamError(ex[e].tab, e)] ELSE tab
  BY DEF StreamSilent, StreamFails, StreamEmpty, StreamCancelled
<1> QED
  BY <1>1, <1>2, EndsKeeps

LEMMA DoneKeeps ==
  ASSUME WebInv, NEW e \in Exchanges, StreamDone(e)
  PROVE  WebInv'
<1> DEFINE y == [Released(ex[e].tab) EXCEPT !.known = @ + 1]
<1>1. IsPage(y)
  <2>1. IsPage(Released(ex[e].tab))
    BY ExchangeIs, FailedIs DEF WebInv, Exchange
  <2> QED
    BY <2>1 DEF IsPage, PageFields
<1> HIDE DEF y
<1>2. /\ ex' = [ex EXCEPT ![e].at = "over"] /\ ex[e].at # "over" /\ UNCHANGED <<threadVars, saved>>
      /\ tab' = IF Alive(e) THEN [tab EXCEPT ![ex[e].tab] = y] ELSE tab
  BY DEF StreamDone, y
<1> QED
  BY <1>1, <1>2, EndsKeeps

LEMMA AnswersKeeps ==
  ASSUME WebInv, NEW e \in Exchanges, PostAnswers(e)
  PROVE  WebInv'
<1> DEFINE s == IF Alive(e) THEN "accepted" ELSE "over"
<1>1. ex[e] \in Exchange /\ ex' = [ex EXCEPT ![e] = ex'[e]] /\ Moved(e, s)
  BY Moves DEF WebInv, Stages, PostAnswers
<1>2. ex[e].at = "stored" /\ s \in {"accepted", "over"} /\ (Alive(e) <=> s = "accepted")
  BY DEF PostAnswers
<1> HIDE DEF s
<1>3. ~(ex[e].chunks > 0)
  BY <1>2 DEF WebInv, OneAtATime
<1>4. Follows(e) /\ ~MaySpeak(e)'
  BY <1>1, <1>2, <1>3 DEF Moved, Follows, MaySpeak, Exchange, Unstored
<1>5. PageFollows(e) /\ saved' \in Nat
  <2>1. Waits(e)' <=> Waits(e)
    BY <1>1, <1>2 DEF Moved, Waits, Alive
  <2>2. CASE Alive(e)
    <3> DEFINE t == ex[e].tab
               y == [tab[t] EXCEPT !.conversation = ex[e].thread, !.known = @ + 1]
    <3>1. t \in Tabs /\ IsPage(tab[t]) /\ ex[e].thread \in Nat
      BY <1>1 DEF Exchange, WebInv, WebForms
    <3>2. IsPage(y) /\ y.busy = tab[t].busy
      BY <3>1 DEF IsPage, PageFields
    <3>3. tab' = [tab EXCEPT ![t] = y] /\ saved' = ex[e].thread
      BY <2>2 DEF PostAnswers
    <3> HIDE DEF y, t
    <3>4. /\ tab' = [u \in Tabs |-> tab'[u]] /\ \A u \in Tabs : IsPage(tab'[u])
          /\ \A u \in Tabs : tab'[u].busy = tab[u].busy
      BY <3>1, <3>2, <3>3, OnePageChanges DEF WebInv
    <3> QED
      BY <2>1, <3>1, <3>3, <3>4 DEF PageFollows, BusyKept
  <2>3. CASE ~Alive(e)
    BY <2>1, <2>3 DEF PageFollows, BusyKept, WebInv, WebForms, PostAnswers
  <2> QED
    BY <2>2, <2>3
<1> QED
  BY <1>1, <1>4, <1>5, OneGoesOn, SameLines DEF Moved, PostAnswers, threadVars, WebInv, WebForms

LEMMA AppendIs ==
  ASSUME NEW S, NEW q \in Seq(S), NEW x \in S
  PROVE  /\ Append(q, x) \in Seq(S) /\ Len(q) \in Nat /\ Len(Append(q, x)) = Len(q) + 1
         /\ \A i \in 1..Len(q) : Append(q, x)[i] = q[i]
         /\ Append(q, x)[Len(q) + 1] = x
OBVIOUS

\* The visitor's line is the last one: it is stored once, and what is being answered stands
\* before it.
LEMMA PostStoresKeeps ==
  ASSUME WebInv, NEW e \in Exchanges, PostStores(e)
  PROVE  WebInv'
<1> DEFINE c == IF ex[e].thread = 0 THEN Len(threads) + 1 ELSE ex[e].thread
           x == [ex[e] EXCEPT !.at = "stored", !.thread = c]
           n == Len(lines)
<1>1. ex[e] \in Exchange /\ Len(threads) \in Nat /\ e \in Nat
  <2>1. threads \in Seq(ThreadRow)
    BY DEF WebInv, WebForms
  <2>2. Len(threads) \in Nat
    BY <2>1
  <2>3. ex[e] \in Exchange /\ e \in Nat
    BY ExchangeIs DEF WebInv
  <2> QED
    BY <2>2, <2>3
<1>2. ex' = [ex EXCEPT ![e] = x] /\ ex[e].at = "matched" /\ lines' = Append(lines, Line(c, "caller", e))
  BY DEF PostStores
<1>3. /\ x \in Exchange /\ x.tab = ex[e].tab /\ x.thread = c /\ x.at = "stored" /\ c \in Nat
      /\ x.chunks = ex[e].chunks /\ x.alive = ex[e].alive
  <2>1. c \in Nat
    BY <1>1 DEF Exchange
  <2> HIDE DEF c
  <2> QED
    BY <1>1, <2>1 DEF Exchange, Stages
<1>4. threads' \in Seq(ThreadRow)
  <2>1. NewThread \in Seq(ThreadRow) /\ threads \in Seq(ThreadRow)
    BY AppendProperties DEF NewThread, ThreadRow, WebInv, WebForms
  <2> QED
    BY <2>1 DEF PostStores
<1> HIDE DEF x, c
<1>5. /\ ex' \in Seq(Exchange) /\ Len(ex') = Len(ex) /\ Exchanges' = Exchanges
      /\ ex'[e] = x /\ \A f \in Exchanges : f # e => ex'[f] = ex[f]
  BY <1>2, <1>3, OneExchangeChanges DEF WebInv
<1>6. /\ n \in Nat /\ lines' \in Seq(Row) /\ Len(lines') = n + 1 /\ lines'[n + 1] = Line(c, "caller", e)
      /\ \A i \in 1..n : lines'[i] = lines[i]
  BY <1>1, <1>2, <1>3, AppendIs DEF WebInv, WebForms, Row, Line, Speakers
<1> HIDE DEF n
<1>7. ~(ex[e].chunks > 0)
  BY <1>2 DEF WebInv, OneAtATime
<1>8. WebForms'
  BY <1>4, <1>5, <1>6 DEF PostStores, WebInv, WebForms
<1>9. OneAtATime'
  <2>1. ASSUME NEW f \in Exchanges, Waits(f)' PROVE f = Len(ex') /\ tab'[ex'[f].tab].busy = f
    <3>1. Waits(f) /\ ex'[f].tab = ex[f].tab
      BY <1>2, <1>3, <1>5, <2>1 DEF Waits
    <3> QED
      BY <1>5, <3>1 DEF WebInv, OneAtATime, PostStores
  <2>2. ASSUME NEW f \in Exchanges, ex'[f].chunks > 0 PROVE ex'[f].at \in {"streaming", "finishing", "over"}
    <3>1. f # e /\ ex'[f] = ex[f]
      BY <1>3, <1>5, <1>7, <2>2
    <3> QED
      BY <2>2, <3>1 DEF WebInv, OneAtATime
  <2> QED
    BY <1>5, <2>1, <2>2 DEF OneAtATime
<1>10. \A i \in 1..n : lines[i].who = "caller" => lines[i].text \in Exchanges /\ lines[i].text # e
  BY <1>2 DEF WebInv, PostedOnce, n, Unstored
<1>11. \A i \in 1..(n + 1) : i \in 1..n \/ i = n + 1
  BY <1>6
<1>12. PostedOnce'
  <2>1. ASSUME NEW i \in 1..Len(lines'), lines'[i].who = "caller"
        PROVE  lines'[i].text \in Exchanges' /\ ex'[lines'[i].text].at \notin Unstored
    BY <1>3, <1>5, <1>6, <1>10, <1>11, <2>1 DEF WebInv, PostedOnce, n, Line, Unstored
  <2>2. ASSUME NEW i \in 1..Len(lines'), NEW j \in 1..Len(lines'), lines'[i].who = "caller",
               lines'[j].who = "caller", lines'[i].text = lines'[j].text
        PROVE  i = j
    BY <1>6, <1>10, <1>11, <2>2 DEF WebInv, PostedOnce, n, Line
  <2>3. ASSUME NEW f \in Exchanges', ex'[f].at \in {"stored", "accepted"}
        PROVE  \E i \in 1..Len(lines') : lines'[i] = Line(ex'[f].thread, "caller", f)
    <3>1. CASE f = e
      BY <1>3, <1>5, <1>6, <3>1
    <3>2. CASE f # e
      <4>1. PICK i \in 1..n : lines[i] = Line(ex[f].thread, "caller", f)
        BY <1>5, <2>3, <3>2 DEF WebInv, PostedOnce, n
      <4> QED
        BY <1>5, <1>6, <3>2, <4>1
    <3> QED
      BY <3>1, <3>2
  <2> QED
    BY <2>1, <2>2, <2>3 DEF PostedOnce, Line
<1>13. AnswersTheLast'
  <2>1. ASSUME NEW f \in Exchanges, MaySpeak(f)' PROVE AnswersInPlace(f)'
    <3>1. f # e /\ ex'[f] = ex[f] /\ MaySpeak(f)
      BY <1>3, <1>5, <1>7, <2>1 DEF MaySpeak
    <3>2. PICK i, k \in 1..n :
            /\ k <= i /\ FromCaller(k, f) /\ FromCaller(i, ex[f].about)
            /\ \A j \in 1..n : lines[j].who = "caller" /\ lines[j].text > f => i < j
      BY <3>1 DEF WebInv, AnswersTheLast, AnswersInPlace, n
    <3>3. \A j \in 1..(n + 1) : lines'[j].who = "caller" /\ lines'[j].text > f => i < j
      BY <1>6, <1>11, <3>2
    <3>4. i \in 1..(n + 1) /\ k \in 1..(n + 1) /\ FromCaller(k, f)' /\ FromCaller(i, ex[f].about)'
      BY <1>6, <3>1, <3>2 DEF FromCaller
    <3> QED
      BY <1>6, <3>1, <3>2, <3>3, <3>4 DEF AnswersInPlace, FromCaller
  <2> QED
    BY <1>5, <2>1 DEF AnswersTheLast
<1>14. AnswersAreOf'
  <2>1. ASSUME NEW i \in 1..Len(lines'), lines'[i].who = "agent" PROVE AnswerIsOf(i)'
    <3>1. i \in 1..n /\ lines'[i] = lines[i]
      BY <1>6, <1>11, <2>1 DEF Line
    <3>2. AnswerIsOf(i)
      BY <2>1, <3>1 DEF WebInv, AnswersAreOf, n
    <3>3. lines[i].text # e /\ lines[i].text \in Exchanges
      BY <1>2, <3>2 DEF AnswerIsOf
    <3>4. ex'[lines[i].text] = ex[lines[i].text]
      BY <1>5, <3>3
    <3> QED
      BY <1>5, <3>1, <3>2, <3>4 DEF AnswerIsOf
  <2> QED
    BY <2>1 DEF AnswersAreOf
<1> QED
  BY <1>8, <1>9, <1>12, <1>13, <1>14 DEF WebInv

(***************************************************************************)
(* The reply stream.                                                       *)
(***************************************************************************)
LEMMA LastCallerIs ==
  ASSUME WebInv, NEW c, NEW k \in CallersIn(c)
  PROVE  /\ LastCaller(c) \in Nat
         /\ \E i \in CallersIn(c) : i >= k /\ LastCaller(c) = lines[i].text
<1>1. Len(lines) \in Nat /\ CallersIn(c) \in SUBSET (1..Len(lines)) /\ CallersIn(c) # {}
  BY DEF WebInv, WebForms, CallersIn
<1>2. \E i \in CallersIn(c) : \A j \in CallersIn(c) : i >= j
  BY <1>1, GreatestExists
<1> DEFINE i == CHOOSE m \in CallersIn(c) : \A j \in CallersIn(c) : j <= m
<1>3. i \in CallersIn(c) /\ \A j \in CallersIn(c) : j <= i
  <2>1. \E m \in CallersIn(c) : \A j \in CallersIn(c) : j <= m
    BY <1>1, <1>2
  <2> QED
    BY <2>1
<1>4. LastCaller(c) = lines[i].text
  BY DEF LastCaller
<1> HIDE DEF i
<1>5. lines[i].text \in Nat
  <2>1. lines[i] \in Row
    BY <1>1, <1>3, ElementOfSeq DEF WebInv, WebForms
  <2> QED
    BY <2>1 DEF Row
<1> QED
  BY <1>1, <1>3, <1>4, <1>5

\* The stream of a page that waits is of the last message: what it answers, in its thread,
\* is not before that message, and no later one is stored.
LEMMA OpensKeeps ==
  ASSUME WebInv, NEW e \in Exchanges, StreamOpens(e)
  PROVE  WebInv'
<1> DEFINE c == ex[e].thread
           b == LastCaller(c)
           x == [ex[e] EXCEPT !.at = "streaming", !.about = b]
<1>1. ex[e] \in Exchange /\ e \in Nat /\ Len(ex) \in Nat
  BY ExchangeIs DEF WebInv
<1>2. ex' = [ex EXCEPT ![e] = x] /\ ex[e].at = "accepted"
  BY DEF StreamOpens
<1>3. PICK k \in 1..Len(lines) : lines[k] = Line(c, "caller", e)
  BY <1>2 DEF WebInv, PostedOnce
<1>4. k \in CallersIn(c)
  BY <1>3 DEF CallersIn, Line
<1>5. b \in Nat
  BY <1>4, LastCallerIs
<1>6. PICK i \in CallersIn(c) : i >= k /\ b = lines[i].text
  BY <1>4, LastCallerIs
<1> HIDE DEF b
<1>7. /\ x \in Exchange /\ x.tab = ex[e].tab /\ x.thread = c /\ x.at = "streaming" /\ x.about = b
      /\ x.chunks = ex[e].chunks /\ x.alive = ex[e].alive
  BY <1>1, <1>5 DEF Exchange, Stages
<1> HIDE DEF x
<1>8. ex'[e] = x /\ ~(ex[e].chunks > 0)
  BY <1>2, <1>7, OneExchangeChanges DEF WebInv, OneAtATime
<1>9. Follows(e)
  BY <1>1, <1>2, <1>7, <1>8 DEF Follows, MaySpeak, Exchange, Unstored
<1>10. PageFollows(e) /\ UNCHANGED lines
  BY <1>2, <1>7, <1>8 DEF PageFollows, WebInv, WebForms, Waits, BusyKept, StreamOpens, threadVars
<1>11. ASSUME MaySpeak(e)' PROVE AnswersInPlace(e)'
  <2>1. e = Len(ex)
    BY <1>2, <1>7, <1>8, <1>11 DEF MaySpeak, WebInv, OneAtATime, Waits
  <2>2. \A j \in 1..Len(lines) : lines[j].who = "caller" => ~(lines[j].text > e)
    BY <1>1, <2>1 DEF WebInv, PostedOnce, Exchanges
  <2>3. i \in 1..Len(lines) /\ FromCaller(k, e) /\ FromCaller(i, b) /\ k <= i
    BY <1>3, <1>6 DEF CallersIn, FromCaller, Line
  <2> QED
    BY <1>7, <1>8, <1>10, <2>2, <2>3 DEF AnswersInPlace, FromCaller
<1> QED
  BY <1>2, <1>7, <1>9, <1>10, <1>11, OneGoesOn, SameLines DEF StreamOpens, threadVars, WebInv, WebForms

LEMMA ChunkKeeps ==
  ASSUME WebInv, NEW e \in Exchanges, StreamChunk(e)
  PROVE  WebInv'
<1> DEFINE x == [ex[e] EXCEPT !.chunks = @ + 1]
           t == ex[e].tab
           y == [tab[t] EXCEPT !.screen = Append(@, Shown("agent", e))]
<1>1. ex[e] \in Exchange
  BY ExchangeIs DEF WebInv
<1>2. ex' = [ex EXCEPT ![e] = x] /\ ex[e].at = "streaming" /\ ex[e].alive
  BY DEF StreamChunk, Alive
<1>3. /\ x \in Exchange /\ x.tab = ex[e].tab /\ x.thread = ex[e].thread /\ x.at = ex[e].at
      /\ x.about = ex[e].about /\ x.chunks = ex[e].chunks + 1 /\ x.alive = ex[e].alive
  BY <1>1 DEF Exchange, Stages
<1> HIDE DEF x
<1>4. ex'[e] = x
  BY <1>2, <1>3, OneExchangeChanges DEF WebInv
<1>5. Follows(e) /\ MaySpeak(e)
  BY <1>1, <1>2, <1>3, <1>4 DEF Follows, MaySpeak, Exchange, Unstored
<1>6. PageFollows(e)
  <2>1. Waits(e)' <=> Waits(e)
    BY <1>3, <1>4 DEF Waits
  <2>2. t \in Tabs /\ IsPage(tab[t])
    BY <1>1 DEF Exchange, WebInv, WebForms
  <2>3. IsPage(y) /\ y.busy = tab[t].busy
    BY <2>2 DEF IsPage, PageFields
  <2>4. tab' = tab \/ tab' = [tab EXCEPT ![t] = y]
    BY DEF StreamChunk
  <2> HIDE DEF y, t
  <2>5. CASE tab' = tab
    BY <2>1, <2>5 DEF PageFollows, BusyKept, WebInv, WebForms
  <2>6. CASE tab' = [tab EXCEPT ![t] = y]
    <3>1. /\ tab' = [u \in Tabs |-> tab'[u]] /\ \A u \in Tabs : IsPage(tab'[u])
          /\ \A u \in Tabs : tab'[u].busy = tab[u].busy
      BY <2>2, <2>3, <2>6, OnePageChanges DEF WebInv
    <3> QED
      BY <2>1, <3>1 DEF PageFollows, BusyKept
  <2> QED
    BY <2>4, <2>5, <2>6
<1> QED
  BY <1>2, <1>3, <1>5, <1>6, OneGoesOn, SameLines DEF StreamChunk, threadVars, WebInv, WebForms

\* The answer that is stored is of a stream that spoke.
LEMMA StoresAnswerKeeps ==
  ASSUME WebInv, NEW e \in Exchanges, StreamStores(e)
  PROVE  WebInv'
<1> DEFINE n == Len(lines)
           l == Line(ex[e].thread, "agent", e)
<1>1. ex[e] \in Exchange /\ ex' = [ex EXCEPT ![e] = ex'[e]] /\ Moved(e, "finishing")
  BY Moves DEF WebInv, Stages, StreamStores
<1>2. ex[e].at = "streaming" /\ ex[e].chunks > 0 /\ lines' = Append(lines, l) /\ tab' = tab
  BY DEF StreamStores
<1>3. l \in Row /\ l.who = "agent" /\ l.text = e /\ l.thread = ex[e].thread /\ e \in Nat
  BY <1>1, ExchangeIs DEF WebInv, Row, Line, Exchange, Speakers
<1> HIDE DEF l
<1>4. /\ n \in Nat /\ lines' \in Seq(Row) /\ Len(lines') = n + 1 /\ lines'[n + 1] = l
      /\ \A i \in 1..n : lines'[i] = lines[i]
  BY <1>2, <1>3, AppendIs DEF WebInv, WebForms
<1> HIDE DEF n
<1>5. \A i \in 1..(n + 1) : i \in 1..n \/ i = n + 1
  BY <1>4
<1>6. KeepsLines
  BY <1>3, <1>4, <1>5 DEF KeepsLines, n
<1>7. Exchanges' = Exchanges
  BY <1>1, OneExchangeChanges DEF Moved, WebInv
<1>8. AnswersAdded
  <2>1. ASSUME NEW i \in 1..Len(lines'), lines'[i] = l PROVE AnswerIsOf(i)'
    BY <1>1, <1>2, <1>3, <1>7, <2>1 DEF AnswerIsOf, Moved
  <2> QED
    BY <1>4, <1>5, <2>1 DEF AnswersAdded, n
<1>9. Follows(e) /\ MaySpeak(e)
  BY <1>1, <1>2 DEF Moved, Follows, MaySpeak, Exchange, Unstored
<1>10. PageFollows(e)
  BY <1>1, <1>2 DEF PageFollows, BusyKept, WebInv, WebForms, Moved, Waits
<1> QED
  BY <1>1, <1>6, <1>8, <1>9, <1>10, OneGoesOn DEF Moved, StreamStores, WebInv, WebForms

LEMMA LostKeeps ==
  ASSUME WebInv, NEW e \in Exchanges, ConnectionLost(e)
  PROVE  WebInv'
<1> DEFINE x == [ex[e] EXCEPT !.alive = FALSE]
           t == ex[e].tab
           y == IF ex[e].at \in {"posting", "matched", "stored"} THEN Failed(t, e) ELSE StreamError(t, e)
<1>1. ex[e] \in Exchange /\ t \in Tabs
  BY ExchangeIs DEF WebInv, Exchange
<1>2. ex' = [ex EXCEPT ![e] = x] /\ ex[e].alive /\ ex[e].at # "over" /\ tab' = [tab EXCEPT ![t] = y]
  BY DEF ConnectionLost, Alive
<1>3. /\ x \in Exchange /\ x.tab = ex[e].tab /\ x.thread = ex[e].thread /\ x.at = ex[e].at
      /\ x.about = ex[e].about /\ x.chunks = ex[e].chunks /\ ~x.alive
  BY <1>1 DEF Exchange
<1>4. IsPage(y)
  BY <1>1, FailedIs DEF WebInv
<1> HIDE DEF x, y
<1>5. ex'[e] = x
  BY <1>2, <1>3, OneExchangeChanges DEF WebInv
<1>6. Follows(e) /\ (MaySpeak(e)' => MaySpeak(e))
  BY <1>1, <1>3, <1>5 DEF Follows, MaySpeak, Exchange, Unstored, WebInv, OneAtATime
<1>7. PageFollows(e)
  <2>1. Waits(e) /\ ~Waits(e)'
    BY <1>2, <1>3, <1>5 DEF Waits
  <2>2. tab' = [u \in Tabs |-> tab'[u]] /\ \A u \in Tabs : IsPage(tab'[u])
    BY <1>1, <1>2, <1>4, OnePageChanges DEF WebInv
  <2> QED
    BY <2>1, <2>2 DEF PageFollows
<1> QED
  BY <1>2, <1>3, <1>6, <1>7, OneGoesOn, SameLines DEF ConnectionLost, threadVars, WebInv, WebForms

(***************************************************************************)
(* Steps that leave the exchanges and the visitor's lines alone.           *)
(***************************************************************************)
LEMMA ExchangesStay ==
  ASSUME WebInv, KeepsLines, AnswersAdded, WebForms', UNCHANGED ex, BusyKept
  PROVE  WebInv'
<1>1. \A e \in Exchanges : ex[e] \in Exchange
  BY ExchangeIs DEF WebInv
<1>2. \A e \in Exchanges : Follows(e)
  BY <1>1 DEF Follows, WebInv, OneAtATime, Exchange
<1>3. Exchanges' = Exchanges /\ Len(ex') >= Len(ex)
  BY DEF Exchanges, WebInv, WebForms
<1>4. \A e \in Exchanges : MaySpeak(e)' => MaySpeak(e)
  BY DEF MaySpeak
<1>5. \A e \in Exchanges' : Waits(e)' => e = Len(ex') /\ tab'[ex'[e].tab].busy = e
  BY <1>1, <1>3 DEF Waits, WebInv, OneAtATime, BusyKept, Exchange
<1> QED
  BY <1>2, <1>3, <1>4, <1>5, GoesOn

LEMMA OneThreadChanges ==
  ASSUME threads \in Seq(ThreadRow), NEW c \in Threads, NEW x \in ThreadRow
  PROVE  [threads EXCEPT ![c] = x] \in Seq(ThreadRow) /\ threads[c] \in ThreadRow
BY ExceptSeq, ElementOfSeq DEF Threads

LEMMA HandlingIs ==
  ASSUME threads \in Seq(ThreadRow), NEW c \in Threads
  PROVE  /\ \A h \in {"ai", "human"} : [threads EXCEPT ![c].handling = h] \in Seq(ThreadRow)
         /\ [threads EXCEPT ![c].status = "closed"] \in Seq(ThreadRow)
<1>1. threads[c] \in ThreadRow
  BY ElementOfSeq DEF Threads
<1>2. ASSUME NEW h \in {"ai", "human"} PROVE [threads EXCEPT ![c].handling = h] \in Seq(ThreadRow)
  <2>1. [threads[c] EXCEPT !.handling = h] \in ThreadRow
    BY <1>1 DEF ThreadRow
  <2> QED
    BY <2>1, OneThreadChanges
<1>3. [threads[c] EXCEPT !.status = "closed"] \in ThreadRow
  BY <1>1 DEF ThreadRow
<1> QED
  BY <1>2, <1>3, OneThreadChanges

LEMMA ToolKeeps ==
  ASSUME WebInv, NEW e \in Exchanges, StreamTool(e)
  PROVE  WebInv'
<1>1. threads' \in Seq(ThreadRow)
  BY HandlingIs DEF StreamTool, TransferCall, EndCall, IsOpen, WebInv, WebForms
<1>2. WebForms' /\ BusyKept
  BY <1>1 DEF StreamTool, webVars, WebInv, WebForms, BusyKept
<1> QED
  BY <1>2, ExchangesStay, SameLines DEF StreamTool, webVars, WebInv

\* The staff add whispers and replies.
LEMMA StaffKeeps ==
  ASSUME WebInv, Staff, UNCHANGED webVars
  PROVE  WebInv'
<1> USE DEF WebInv, WebForms
<1>1. ASSUME NEW c \in Threads, TakeOver(c) \/ Resume(c)
      PROVE  threads' \in Seq(ThreadRow) /\ UNCHANGED <<lines, person, typed>>
  BY <1>1, HandlingIs DEF TakeOver, Resume
<1>2. ASSUME NEW p \in People, NEW y,
             y = [f \in {"at", "thread", "text"} |-> y[f]], y.thread \in Nat, y.text \in Nat,
             person' = [person EXCEPT ![p] = y]
      PROVE  /\ person' = [q \in People |-> person'[q]]
             /\ \A q \in People : /\ person'[q] = [f \in {"at", "thread", "text"} |-> person'[q][f]]
                                  /\ person'[q].thread \in Nat /\ person'[q].text \in Nat
  <2>1. person' = [q \in People |-> person'[q]] /\ \A q \in People : person'[q] = IF q = p THEN y ELSE person[q]
    BY <1>2
  <2> QED
    BY <1>2, <2>1
<1>3. ASSUME NEW l \in Row, l.who \in {"human", "whisper"}, lines' = Append(lines, l)
      PROVE  KeepsLines /\ AnswersAdded
  <2>1. /\ Len(lines) \in Nat /\ lines' \in Seq(Row) /\ Len(lines') = Len(lines) + 1
        /\ lines'[Len(lines) + 1] = l /\ \A i \in 1..Len(lines) : lines'[i] = lines[i]
    BY <1>3, AppendIs
  <2>2. \A i \in 1..Len(lines') : i \in 1..Len(lines) \/ lines'[i] = l
    BY <2>1
  <2> QED
    BY <1>3, <2>1, <2>2 DEF KeepsLines, AnswersAdded
<1> DEFINE Fine ==
             /\ typed' \in Nat /\ threads' \in Seq(ThreadRow) /\ KeepsLines /\ AnswersAdded
             /\ person' = [q \in People |-> person'[q]]
             /\ \A q \in People : /\ person'[q] = [f \in {"at", "thread", "text"} |-> person'[q][f]]
                                  /\ person'[q].thread \in Nat /\ person'[q].text \in Nat
<1>4. Fine
  <2>1. ASSUME NEW c \in Threads, TakeOver(c) \/ Resume(c) PROVE Fine
    BY <1>1, <2>1, SameLines
  <2>2. ASSUME NEW c \in Threads, Whisper(c) PROVE Fine
    <3>1. c \in Nat /\ typed' \in Nat
      BY <2>2 DEF Threads, Whisper
    <3>2. Line(c, "whisper", typed') \in Row /\ Line(c, "whisper", typed').who = "whisper"
      BY <3>1 DEF Row, Line, Speakers
    <3> QED
      BY <1>3, <2>2, <3>1, <3>2 DEF Whisper
  <2>3. ASSUME NEW p \in People, NEW c \in Threads, ReplyChecks(p, c) PROVE Fine
    <3> DEFINE y == [at |-> "replying", thread |-> c, text |-> typed']
    <3>1. typed' \in Nat /\ y.thread \in Nat /\ y.text \in Nat /\ y = [f \in {"at", "thread", "text"} |-> y[f]]
      BY <2>3 DEF Threads, ReplyChecks
    <3>2. person' = [person EXCEPT ![p] = y] /\ UNCHANGED <<threads, lines>>
      BY <2>3 DEF ReplyChecks
    <3> HIDE DEF y
    <3> QED
      BY <1>2, <3>1, <3>2, SameLines
  <2>4. ASSUME NEW p \in People, ReplyDelivered(p) \/ ReplyRefused(p) PROVE Fine
    BY <2>4, WebChatAssumption DEF ReplyDelivered, ReplyRefused
  <2>5. ASSUME NEW p \in People, ReplyStores(p) PROVE Fine
    <3>1. person' = [person EXCEPT ![p] = Resting] /\ UNCHANGED <<threads, typed>>
      BY <2>5 DEF ReplyStores
    <3>2. Resting = [f \in {"at", "thread", "text"} |-> Resting[f]] /\ Resting.thread \in Nat /\ Resting.text \in Nat
      BY DEF Resting
    <3> DEFINE l == Line(person[p].thread, "human", person[p].text)
    <3>3. l \in Row /\ l.who = "human" /\ lines' = Append(lines, l)
      BY <2>5 DEF Row, Line, Speakers, ReplyStores
    <3> HIDE DEF l
    <3> QED
      BY <1>2, <1>3, <3>1, <3>2, <3>3
  <2> QED
    BY <2>1, <2>2, <2>3, <2>4, <2>5 DEF Staff
<1>5. WebForms' /\ BusyKept /\ UNCHANGED ex
  BY <1>4 DEF KeepsLines, webVars, BusyKept
<1> QED
  BY <1>4, <1>5, ExchangesStay

(***************************************************************************)
(* The page.                                                               *)
(***************************************************************************)
LEMMA BrowserKeeps ==
  ASSUME WebInv, NEW t \in Tabs, Browser(t)
  PROVE  WebInv'
<1> USE DEF WebInv, WebForms
<1>1. IsPage(tab[t]) /\ UNCHANGED <<threadVars, ex>>
  BY DEF Browser, PollAsks, ReadThread, PollShows, RestoreShows
<1>2. /\ \E y : tab' = [tab EXCEPT ![t] = y] /\ IsPage(y) /\ y.busy = tab[t].busy
      /\ saved' \in Nat
  <2>1. CASE PollAsks(t)
    <3> DEFINE y == [tab[t] EXCEPT !.ask = Asking("poll", tab[t].conversation)]
    <3>1. IsPage(y) /\ y.busy = tab[t].busy
      BY <1>1 DEF IsPage, PageFields
    <3> QED
      BY <2>1, <3>1 DEF PollAsks
  <2>2. CASE ReadThread(t)
    <3> DEFINE a == IF IsOpen(tab[t].ask.thread)
                    THEN [tab[t].ask EXCEPT !.at = "got", !.got = Drawn(Visible(tab[t].ask.thread))]
                    ELSE [tab[t].ask EXCEPT !.at = "refused"]
               y == [tab[t] EXCEPT !.ask = a]
    <3>1. tab' = [tab EXCEPT ![t] = y] /\ saved' = saved
      BY <2>2 DEF ReadThread
    <3> HIDE DEF a
    <3>2. IsPage(y) /\ y.busy = tab[t].busy
      BY <1>1 DEF IsPage, PageFields
    <3> HIDE DEF y
    <3> QED
      BY <3>1, <3>2
  <2>3. CASE PollShows(t)
    <3> DEFINE a == tab[t].ask
               n == tab[t].known
               r == tab[t].screen \o SubSeq(a.got, n + 1, Len(a.got))
               k == IF Len(a.got) > n THEN Len(a.got) ELSE n
               y == [tab[t] EXCEPT !.ask = NoAsk, !.screen = r, !.known = k]
    <3>1. tab' = [tab EXCEPT ![t] = y] /\ saved' = saved
      BY <2>3 DEF PollShows
    <3> HIDE DEF r, k
    <3>2. IsPage(y) /\ y.busy = tab[t].busy
      BY <1>1 DEF IsPage, PageFields
    <3> HIDE DEF y
    <3> QED
      BY <3>1, <3>2
  <2>4. CASE RestoreShows(t)
    <3> DEFINE a == tab[t].ask
               c == IF a.at = "refused" THEN 0 ELSE tab[t].conversation
               r == tab[t].screen \o a.got
               k == IF a.at = "refused" THEN tab[t].known ELSE Len(a.got)
               y == [tab[t] EXCEPT !.ask = NoAsk, !.conversation = c, !.screen = r, !.known = k]
    <3>1. tab' = [tab EXCEPT ![t] = y] /\ saved' \in Nat
      BY <2>4 DEF RestoreShows
    <3>2. c \in Nat
      BY <1>1 DEF IsPage
    <3> HIDE DEF r, k, c
    <3>3. IsPage(y) /\ y.busy = tab[t].busy
      BY <1>1, <3>2 DEF IsPage, PageFields
    <3> HIDE DEF y
    <3> QED
      BY <3>1, <3>3
  <2> QED
    BY <2>1, <2>2, <2>3, <2>4 DEF Browser
<1>3. PICK y : tab' = [tab EXCEPT ![t] = y] /\ IsPage(y) /\ y.busy = tab[t].busy
  BY <1>2
<1>4. /\ tab' = [u \in Tabs |-> tab'[u]] /\ \A u \in Tabs : IsPage(tab'[u])
      /\ \A u \in Tabs : tab'[u].busy = tab[u].busy
  BY <1>3, OnePageChanges
<1>5. WebForms' /\ BusyKept
  BY <1>1, <1>2, <1>4 DEF BusyKept, threadVars
<1> QED
  BY <1>1, <1>5, ExchangesStay, SameLines DEF threadVars

\* A page that is loaded again has given up its exchanges.
LEMMA ReloadKeeps ==
  ASSUME WebInv, NEW t \in Tabs, Reload(t)
  PROVE  WebInv'
<1>1. \A e \in Exchanges : ex[e] \in Exchange
  BY ExchangeIs DEF WebInv
<1> DEFINE x(e) == IF ex[e].tab = t THEN [ex[e] EXCEPT !.alive = FALSE] ELSE ex[e]
<1>2. ASSUME NEW e \in Exchanges
      PROVE  /\ x(e) \in Exchange /\ x(e).at = ex[e].at /\ x(e).tab = ex[e].tab
             /\ x(e).thread = ex[e].thread /\ x(e).about = ex[e].about /\ x(e).chunks = ex[e].chunks
             /\ x(e).alive = (ex[e].alive /\ ex[e].tab # t)
  <2>1. CASE ex[e].tab = t
    BY <1>1, <2>1 DEF Exchange
  <2>2. CASE ex[e].tab # t
    BY <1>1, <2>2 DEF Exchange
  <2> QED
    BY <2>1, <2>2
<1>3. ex' = [e \in 1..Len(ex) |-> x(e)] /\ Len(ex) \in Nat
  BY DEF Reload, Exchanges, WebInv, WebForms
<1> HIDE DEF x
<1>4. ex' \in Seq(Exchange) /\ Len(ex') = Len(ex) /\ Exchanges' = Exchanges /\ \A e \in Exchanges : ex'[e] = x(e)
  BY <1>2, <1>3 DEF Exchanges
<1>5. \A e \in Exchanges : Follows(e) /\ (MaySpeak(e)' => MaySpeak(e))
  BY <1>1, <1>2, <1>4 DEF Follows, MaySpeak, Exchange, WebInv, OneAtATime
<1>6. /\ tab' = [u \in Tabs |-> tab'[u]] /\ \A u \in Tabs : IsPage(tab'[u])
      /\ \A u \in Tabs : u # t => tab'[u] = tab[u]
  <2>1. IsPage(FreshTab(saved))
    BY DEF IsPage, PageFields, FreshTab, WebInv, WebForms
  <2> QED
    BY <2>1, OnePageChanges DEF Reload, WebInv
<1>7. WebForms' /\ UNCHANGED lines
  BY <1>4, <1>6 DEF Reload, threadVars, WebInv, WebForms
<1>8. \A e \in Exchanges' : Waits(e)' => e = Len(ex') /\ tab'[ex'[e].tab].busy = e
  BY <1>1, <1>2, <1>4, <1>6 DEF Waits, WebInv, OneAtATime, Exchange
<1> QED
  BY <1>4, <1>5, <1>7, <1>8, GoesOn, SameLines DEF WebInv, WebForms

\* The button is enabled: no exchange of this page is under way, and there is no other page.
LEMMA SubmitKeeps ==
  ASSUME OnePage, WebInv, NEW t \in Tabs, Submit(t)
  PROVE  WebInv'
<1> DEFINE n == Len(ex)
           x == [at |-> "posting", tab |-> t, thread |-> tab[t].conversation,
                 about |-> 0, chunks |-> 0, alive |-> TRUE]
           r == Append(tab[t].screen, Shown("caller", n + 1))
           y == [tab[t] EXCEPT !.screen = r, !.busy = n + 1]
<1>1. n \in Nat /\ IsPage(tab[t]) /\ tab[t].busy = 0 /\ \A e \in Exchanges : ex[e] \in Exchange
  <2>1. n \in Nat /\ IsPage(tab[t]) /\ tab[t].busy = 0
    BY DEF WebInv, WebForms, Submit
  <2> QED
    BY <2>1, ExchangeIs DEF WebInv
<1>2. x \in Exchange /\ x.at = "posting" /\ x.tab = t /\ x.chunks = 0
  BY <1>1 DEF Exchange, Stages, IsPage
<1>3. IsPage(y) /\ y.busy = n + 1
  <2>1. ASSUME NEW s, NEW k \in Nat
        PROVE  /\ IsPage([tab[t] EXCEPT !.screen = s, !.busy = k])
               /\ [tab[t] EXCEPT !.screen = s, !.busy = k].busy = k
    BY <1>1 DEF IsPage, PageFields
  <2> HIDE DEF r, n
  <2>2. n + 1 \in Nat
    BY <1>1
  <2> QED
    BY <2>1, <2>2
<1>4. ex' = Append(ex, x) /\ tab' = [tab EXCEPT ![t] = y]
  BY DEF Submit
<1> HIDE DEF x, y, r
<1>5. /\ ex' \in Seq(Exchange) /\ Len(ex') = n + 1 /\ ex'[n + 1] = x
      /\ \A e \in 1..n : ex'[e] = ex[e]
  BY <1>2, <1>4, AppendIs DEF WebInv, WebForms
<1>6. tab' = [u \in Tabs |-> tab'[u]] /\ (\A u \in Tabs : IsPage(tab'[u])) /\ tab'[t] = y
  BY <1>3, <1>4, OnePageChanges DEF WebInv
<1>7. WebForms' /\ UNCHANGED lines
  BY <1>5, <1>6 DEF Submit, threadVars, WebInv, WebForms
<1>8. ASSUME NEW e \in Exchanges', e \notin Exchanges PROVE e = n + 1
  BY <1>1, <1>5, <1>8 DEF Exchanges
<1>9. \A e \in Exchanges : Follows(e) /\ (MaySpeak(e)' => MaySpeak(e)) /\ ~Waits(e)'
  <2> TAKE e \in Exchanges
  <2>1. ex'[e] = ex[e] /\ ex[e] \in Exchange
    BY <1>1, <1>5 DEF Exchanges
  <2>2. ~Waits(e)
    <3>1. ex[e].tab = t /\ e # 0
      BY <2>1, ExchangeIs DEF OnePage, Exchange, WebInv
    <3> QED
      BY <1>1, <3>1 DEF WebInv, OneAtATime
  <2> QED
    BY <2>1, <2>2 DEF Follows, MaySpeak, Waits, Exchange, WebInv, OneAtATime
<1>10. \A e \in Exchanges' : e \in Exchanges \/ (ex'[e].at = "posting" /\ ex'[e].chunks = 0)
  BY <1>2, <1>5, <1>8
<1>11. \A e \in Exchanges' : Waits(e)' => e = Len(ex') /\ tab'[ex'[e].tab].busy = e
  BY <1>2, <1>3, <1>5, <1>6, <1>8, <1>9
<1> HIDE DEF n
<1>12. Len(ex') >= Len(ex)
  BY <1>1, <1>5 DEF n
<1> QED
  BY <1>7, <1>9, <1>10, <1>11, <1>12, GoesOn, SameLines DEF WebInv

LEMMA WebInitInv == Init => WebInv
<1> SUFFICES ASSUME Init PROVE WebInv
  OBVIOUS
<1>1. ex = <<>> /\ lines = <<>> /\ threads = <<>> /\ Exchanges = {} /\ 1..Len(lines) = {}
  BY DEF Init, ThreadInit, Exchanges
<1>2. ex \in Seq(Exchange) /\ lines \in Seq(Row) /\ threads \in Seq(ThreadRow)
  BY <1>1
<1>3. IsPage(FreshTab(0))
  BY DEF IsPage, PageFields, FreshTab
<1>4. WebForms
  BY <1>2, <1>3 DEF Init, ThreadInit, Resting, WebForms
<1> QED
  BY <1>1, <1>4 DEF WebInv, OneAtATime, PostedOnce, AnswersTheLast, AnswersAreOf

LEMMA WebNextInv ==
  ASSUME OnePage
  PROVE  WebInv /\ [Next]_vars => WebInv'
<1> SUFFICES ASSUME WebInv, [Next]_vars PROVE WebInv'
  OBVIOUS
<1>1. CASE UNCHANGED vars
  <2>1. WebForms' /\ BusyKept /\ UNCHANGED <<lines, ex>>
    BY <1>1 DEF vars, threadVars, webVars, WebInv, WebForms, BusyKept
  <2> QED
    BY <2>1, ExchangesStay, SameLines DEF WebInv
<1>2. ASSUME NEW t \in Tabs, Submit(t) \/ Reload(t) \/ Browser(t) PROVE WebInv'
  BY <1>2, SubmitKeeps, ReloadKeeps, BrowserKeeps
<1>3. ASSUME NEW e \in Exchanges, Server(e) PROVE WebInv'
  BY <1>3, MatchesKeeps, PostStoresKeeps, AnswersKeeps, SilentKeeps, OpensKeeps, ChunkKeeps,
     StoresAnswerKeeps, DoneKeeps DEF Server
<1>4. ASSUME NEW e \in Exchanges, PostRefused(e) \/ StreamTool(e) \/ StreamFails(e) \/ ConnectionLost(e)
      PROVE  WebInv'
  BY <1>4, RefusedKeeps, ToolKeeps, SilentKeeps, LostKeeps
<1>5. CASE Staff /\ UNCHANGED webVars
  BY <1>5, StaffKeeps
<1> QED
  BY <1>1, <1>2, <1>3, <1>4, <1>5 DEF Next

\* One page of the visitor, any number of messages, threads, reloads and faults.
THEOREM WebChatHolds ==
  ASSUME OnePage
  PROVE  Spec => []WebInv
<1>1. WebInv /\ [Next]_vars => WebInv'
  BY WebNextInv
<1> QED
  BY <1>1, WebInitInv, PTL DEF Spec

LEMMA OneAnswerEach == WebInv => AnsweredOnce
<1> SUFFICES ASSUME WebInv, NEW i \in 1..Len(lines), NEW j \in 1..Len(lines),
                    lines[i].who = "agent", lines[j].who = "agent", lines[i] # lines[j]
             PROVE  ex[lines[i].text].about # ex[lines[j].text].about
  BY DEF AnsweredOnce, AgentLines, Stored
<1>1. /\ AnswerIsOf(i) /\ AnswerIsOf(j) /\ lines[i] \in Row /\ lines[j] \in Row
  BY ElementOfSeq DEF WebInv, WebForms, AnswersAreOf
<1> DEFINE e == lines[i].text
           f == lines[j].text
<1>2. e \in Exchanges /\ f \in Exchanges /\ e # f /\ AnswersInPlace(e) /\ AnswersInPlace(f)
  <2>1. /\ e \in Exchanges /\ lines[i].thread = ex[e].thread /\ ex[e].chunks > 0
        /\ f \in Exchanges /\ lines[j].thread = ex[f].thread /\ ex[f].chunks > 0
    BY <1>1 DEF AnswerIsOf
  <2>2. e # f
    BY <1>1, <2>1 DEF Row
  <2> QED
    BY <2>1, <2>2 DEF WebInv, AnswersTheLast, MaySpeak
<1> HIDE DEF e, f
<1>3. ASSUME NEW g \in Exchanges, NEW h \in Exchanges, AnswersInPlace(g), AnswersInPlace(h), g < h
      PROVE  ex[g].about # ex[h].about
  <2>1. PICK m \in 1..Len(lines) :
          /\ FromCaller(m, ex[g].about)
          /\ \A k \in 1..Len(lines) : lines[k].who = "caller" /\ lines[k].text > g => m < k
    BY <1>3 DEF AnswersInPlace
  <2>2. PICK p, q \in 1..Len(lines) : q <= p /\ FromCaller(q, h) /\ FromCaller(p, ex[h].about)
    BY <1>3 DEF AnswersInPlace
  <2>3. m < q
    BY <1>3, <2>1, <2>2 DEF FromCaller
  <2>4. m # p
    BY <2>2, <2>3
  <2> QED
    BY <2>1, <2>2, <2>4 DEF WebInv, PostedOnce, FromCaller
<1>4. e \in Nat /\ f \in Nat
  BY <1>2, ExchangeIs DEF WebInv
<1> QED
  BY <1>2, <1>3, <1>4 DEF e, f

\* No message is answered twice on one page; of two pages with one handle that is false, since
\* each stream answers the message that came last.
THEOREM AnsweredByOne ==
  ASSUME OnePage
  PROVE  Spec => []AnsweredOnce
<1>1. Spec => []WebInv
  BY WebChatHolds
<1> QED
  BY <1>1, OneAnswerEach, PTL

(***************************************************************************)
(* What the visitor is shown.                                              *)
(***************************************************************************)
OfThread(c, n) == lines[n].thread = c /\ lines[n].who # "whisper"
Next1(c, q, n) == IF OfThread(c, n) THEN Append(q, lines[n]) ELSE q
IsUpTo(c, g, m) == g = [n \in 0..m |-> IF n = 0 THEN <<>> ELSE Next1(c, g[n - 1], n)]

\* What is so of 0, and of each number up to the bound if it is so of the one before, is so up to the bound.
LEMMA UpToTheBound ==
  ASSUME NEW N \in Nat, NEW S \in SUBSET (0..N), 0 \in S,
         \A n \in 1..N : n - 1 \in S => n \in S
  PROVE  N \in S
<1> DEFINE Less == {p \in Nat \X Nat : p[1] < p[2]}
           B    == (0..N) \ S
<1>1. IsWellFoundedOn(Less, Nat)
  BY NatLessThanWellFounded, Zenon DEF OpToRel
<1>2. \A x, y \in Nat : x < y => <<x, y>> \in Less
  OBVIOUS
<1> HIDE DEF Less
<1>3. CASE B # {}
  <2>1. B \subseteq Nat
    OBVIOUS
  <2> HIDE DEF B
  <2>2. PICK m \in B : \A k \in B : ~(<<k, m>> \in Less)
    BY <1>1, <1>3, <2>1, WFMin
  <2> USE DEF B
  <2>3. m \in 1..N
    BY <2>2
  <2>4. m - 1 \in S
    <3>1. m - 1 \in 0..N /\ m - 1 \in Nat /\ m \in Nat /\ m - 1 < m
      BY <2>3
    <3>2. m - 1 \notin B
      BY <1>2, <2>2, <3>1
    <3> QED
      BY <3>1, <3>2
  <2> QED
    BY <2>2, <2>3, <2>4
<1> QED
  BY <1>3

LEMMA UpToExists ==
  ASSUME NEW N \in Nat, NEW c
  PROVE  \E g : IsUpTo(c, g, N)
<1> DEFINE S == {n \in 0..N : \E g : IsUpTo(c, g, n)}
<1>1. 0 \in S
  <2>1. IsUpTo(c, [n \in 0..0 |-> <<>>], 0)
    BY DEF IsUpTo
  <2> QED
    BY <2>1
<1>2. ASSUME NEW m \in 1..N, m - 1 \in S PROVE m \in S
  <2>1. PICK g : IsUpTo(c, g, m - 1)
    BY <1>2
  <2> DEFINE h == [n \in 0..m |-> IF n = m THEN Next1(c, g[m - 1], m) ELSE g[n]]
  <2>2. \A n \in 0..m : h[n] = IF n = 0 THEN <<>> ELSE Next1(c, h[n - 1], n)
    <3> TAKE n \in 0..m
    <3>1. CASE n = m
      BY <3>1
    <3>2. CASE n # m
      <4>1. n \in 0..(m - 1) /\ h[n] = g[n] /\ (n # 0 => n - 1 \in 0..m /\ n - 1 # m /\ h[n - 1] = g[n - 1])
        BY <3>2
      <4>2. \A i \in 0..(m - 1) : g[i] = IF i = 0 THEN <<>> ELSE Next1(c, g[i - 1], i)
        BY <2>1 DEF IsUpTo
      <4> QED
        BY <4>1, <4>2
    <3> QED
      BY <3>1, <3>2
  <2>3. IsUpTo(c, h, m)
    <3>1. h = [n \in 0..m |-> h[n]]
      OBVIOUS
    <3> HIDE DEF h
    <3> QED
      BY <2>2, <3>1 DEF IsUpTo
  <2> HIDE DEF h
  <2> QED
    BY <2>3
<1> HIDE DEF S
<1>3. N \in S
  BY <1>1, <1>2, UpToTheBound DEF S
<1> QED
  BY <1>3 DEF S

\* A sequence of lines of the thread that are no whispers.
MadeOf(c, q) ==
  q \in Seq(Row) /\ \A k \in 1..Len(q) : \E j \in 1..Len(lines) : q[k] = lines[j] /\ OfThread(c, j)

LEMMA SpokenIs ==
  ASSUME WebForms, NEW c
  PROVE  MadeOf(c, Spoken(c))
<1> DEFINE N == Len(lines)
           f == CHOOSE g : IsUpTo(c, g, N)
           S == {n \in 0..N : MadeOf(c, f[n])}
<1>1. N \in Nat /\ \A n \in 1..N : lines[n] \in Row
  BY ElementOfSeq DEF WebForms
<1>2. IsUpTo(c, f, N)
  BY <1>1, UpToExists
<1>3. Spoken(c) = f[N]
  BY DEF Spoken, IsUpTo, Next1, OfThread
<1> HIDE DEF f
<1>4. f[0] = <<>> /\ \A n \in 1..N : f[n] = Next1(c, f[n - 1], n)
  BY <1>1, <1>2 DEF IsUpTo
<1>5. MadeOf(c, <<>>)
  BY DEF MadeOf
<1>6. ASSUME NEW n \in 1..N, NEW q, MadeOf(c, q) PROVE MadeOf(c, Next1(c, q, n))
  <2>1. CASE ~OfThread(c, n)
    BY <1>6, <2>1 DEF Next1
  <2>2. CASE OfThread(c, n)
    <3> DEFINE r == Append(q, lines[n])
    <3>1. /\ r \in Seq(Row) /\ Len(r) = Len(q) + 1 /\ Len(q) \in Nat
          /\ \A k \in 1..Len(q) : r[k] = q[k]
          /\ r[Len(q) + 1] = lines[n]
      BY <1>1, <1>6, AppendIs DEF MadeOf
    <3> HIDE DEF r
    <3>2. \A k \in 1..Len(r) : \E j \in 1..N : r[k] = lines[j] /\ OfThread(c, j)
      BY <1>6, <2>2, <3>1 DEF MadeOf
    <3>3. Next1(c, q, n) = r
      BY <2>2 DEF Next1, r
    <3> QED
      BY <3>1, <3>2, <3>3 DEF MadeOf
  <2> QED
    BY <2>1, <2>2
<1> HIDE DEF N
<1>7. S \in SUBSET (0..N) /\ 0 \in S /\ \A n \in 1..N : n - 1 \in S => n \in S
  BY <1>1, <1>4, <1>5, <1>6
<1>8. N \in S
  <2> HIDE DEF S
  <2> QED
    BY <1>1, <1>7, UpToTheBound
<1> QED
  BY <1>3, <1>8

\* And so are the last of them, which a request is answered with.
LEMMA VisibleIs ==
  ASSUME WebForms, NEW c
  PROVE  MadeOf(c, Visible(c))
<1> DEFINE all  == Spoken(c)
           n    == Len(all)
           from == IF n > ThreadMax THEN n - ThreadMax + 1 ELSE 1
           v    == SubSeq(all, from, n)
<1>1. MadeOf(c, all) /\ all \in Seq(Row) /\ ThreadMax \in Nat
  BY SpokenIs, WebChatAssumption DEF MadeOf
<1>2. Visible(c) = v
  BY DEF Visible
<1>3. n \in Nat
  BY <1>1
<1> HIDE DEF all, n
<1>4. from \in 1..(n + 1)
  BY <1>1, <1>3
<1> HIDE DEF from
<1>5. \A k \in 1..n : all[k] \in Row
  BY <1>1, ElementOfSeq DEF n
<1>6. /\ v \in Seq(Row) /\ Len(v) = (IF from <= n THEN n - from + 1 ELSE 0)
      /\ \A k \in 1..(n - from + 1) : v[k] = all[from + k - 1]
  BY <1>3, <1>4, <1>5, SubSeqProperties
<1> HIDE DEF v
<1>7. \A k \in 1..Len(v) : v[k] = all[from + k - 1] /\ from + k - 1 \in 1..n
  BY <1>3, <1>4, <1>6
<1> QED
  BY <1>1, <1>2, <1>6, <1>7 DEF MadeOf, n

ScreenLine == [who : Speakers, text : Nat, cut : BOOLEAN]

IsShown(x) ==
  /\ x.screen \in Seq(ScreenLine)
  /\ x.ask = [f \in AskFields |-> x.ask[f]] /\ x.ask.got \in Seq(ScreenLine)
  /\ x.known \in Nat

HasLine(q, who, e) == \E k \in 1..Len(q) : q[k].who = who /\ q[k].text = e

\* As long as the page is not loaded again, each message is on it, and each answer that began.
ScreenInv ==
  /\ reloads \in Nat
  /\ \A t \in Tabs : IsShown(tab[t])
  /\ reloads = 0 =>
       \A e \in Exchanges :
         /\ HasLine(tab[ex[e].tab].screen, "caller", e)
         /\ ex[e].chunks > 0 => HasLine(tab[ex[e].tab].screen, "agent", e)

\* Nothing goes from a screen; a line can be marked, and others follow.
Grows(q, r) ==
  /\ r \in Seq(ScreenLine) /\ Len(r) >= Len(q)
  /\ \A i \in 1..Len(q) : r[i].who = q[i].who /\ r[i].text = q[i].text

LEMMA LineStays ==
  ASSUME NEW q \in Seq(ScreenLine), NEW r, Grows(q, r), NEW who, NEW e, HasLine(q, who, e)
  PROVE  HasLine(r, who, e)
<1>1. Len(q) \in Nat /\ Len(r) \in Nat
  BY DEF Grows
<1> QED
  BY <1>1 DEF Grows, HasLine

LEMMA GrowsBy ==
  ASSUME NEW q \in Seq(ScreenLine)
  PROVE  /\ Grows(q, q)
         /\ \A x \in ScreenLine : Grows(q, Append(q, x)) /\ HasLine(Append(q, x), x.who, x.text)
         /\ \A r \in Seq(ScreenLine) : Grows(q, q \o r)
         /\ \A y : Grows(q, [i \in DOMAIN q |-> IF q[i] = y THEN Marked(q[i]) ELSE q[i]])
<1>1. Len(q) \in Nat /\ DOMAIN q = 1..Len(q) /\ \A i \in 1..Len(q) : q[i] \in ScreenLine
  BY ElementOfSeq
<1>2. Grows(q, q)
  BY <1>1 DEF Grows
<1>3. ASSUME NEW x \in ScreenLine PROVE Grows(q, Append(q, x)) /\ HasLine(Append(q, x), x.who, x.text)
  <2> DEFINE r == Append(q, x)
  <2>1. /\ r \in Seq(ScreenLine) /\ Len(r) = Len(q) + 1 /\ r[Len(q) + 1] = x
        /\ \A i \in 1..Len(q) : r[i] = q[i]
    BY AppendIs
  <2> HIDE DEF r
  <2>2. Len(q) + 1 \in 1..Len(r)
    BY <1>1, <2>1
  <2>3. Grows(q, r) /\ HasLine(r, x.who, x.text)
    BY <1>1, <2>1, <2>2 DEF Grows, HasLine
  <2> QED
    BY <2>3 DEF r
<1>4. ASSUME NEW r \in Seq(ScreenLine) PROVE Grows(q, q \o r)
  <2> DEFINE u == q \o r
  <2>1. /\ u \in Seq(ScreenLine) /\ Len(u) = Len(q) + Len(r) /\ Len(r) \in Nat
        /\ \A i \in 1..Len(q) : u[i] = q[i]
    BY <1>1
  <2> HIDE DEF u
  <2>2. Grows(q, u)
    BY <1>1, <2>1 DEF Grows
  <2> QED
    BY <2>2 DEF u
<1>5. ASSUME NEW y PROVE Grows(q, [i \in DOMAIN q |-> IF q[i] = y THEN Marked(q[i]) ELSE q[i]])
  <2> DEFINE h(i) == IF q[i] = y THEN Marked(q[i]) ELSE q[i]
             u    == [i \in 1..Len(q) |-> h(i)]
  <2>1. ASSUME NEW i \in 1..Len(q) PROVE h(i) \in ScreenLine /\ h(i).who = q[i].who /\ h(i).text = q[i].text
    BY <1>1 DEF ScreenLine, Marked
  <2>2. [i \in DOMAIN q |-> IF q[i] = y THEN Marked(q[i]) ELSE q[i]] = u
    BY <1>1
  <2> HIDE DEF h
  <2>3. u \in Seq(ScreenLine) /\ Len(u) = Len(q) /\ \A i \in 1..Len(q) : u[i] = h(i)
    BY <1>1, <2>1
  <2> HIDE DEF u
  <2>4. Grows(q, u)
    BY <1>1, <2>1, <2>3 DEF Grows
  <2> QED
    BY <2>2, <2>4
<1> QED
  BY <1>2, <1>3, <1>4, <1>5

\* What a step of the page or of the server does to the pages and to the exchanges.
ScreensGrow == \A t \in Tabs : IsShown(tab'[t]) /\ Grows(tab[t].screen, tab'[t].screen)
ChunksStay  == /\ Exchanges' = Exchanges
               /\ \A e \in Exchanges : ex'[e].tab = ex[e].tab /\ ex'[e].chunks = ex[e].chunks

LEMMA GrownIsKept ==
  ASSUME WebInv, ScreenInv, ScreensGrow, ChunksStay, reloads' = reloads
  PROVE  ScreenInv'
<1>1. \A e \in Exchanges : ex[e].tab \in Tabs
  BY ExchangeIs DEF WebInv, Exchange
<1>2. ASSUME reloads = 0, NEW e \in Exchanges
      PROVE  /\ HasLine(tab'[ex'[e].tab].screen, "caller", e)
             /\ ex'[e].chunks > 0 => HasLine(tab'[ex'[e].tab].screen, "agent", e)
  <2> DEFINE q == tab[ex[e].tab].screen
             r == tab'[ex[e].tab].screen
  <2>1. q \in Seq(ScreenLine) /\ Grows(q, r) /\ HasLine(q, "caller", e) /\ (ex[e].chunks > 0 => HasLine(q, "agent", e))
    BY <1>1, <1>2 DEF ScreenInv, ScreensGrow, IsShown
  <2>2. ex'[e].tab = ex[e].tab /\ ex'[e].chunks = ex[e].chunks
    BY DEF ChunksStay
  <2> HIDE DEF q, r
  <2>3. HasLine(r, "caller", e) /\ (ex[e].chunks > 0 => HasLine(r, "agent", e))
    BY <2>1, LineStays
  <2> QED
    BY <2>2, <2>3 DEF r
<1> QED
  BY <1>2 DEF ScreenInv, ScreensGrow, ChunksStay

LEMMA PageGrows ==
  ASSUME WebForms, ScreenInv, NEW t \in Tabs, NEW y, tab' = [tab EXCEPT ![t] = y],
         IsShown(y), Grows(tab[t].screen, y.screen)
  PROVE  ScreensGrow
<1>1. \A u \in Tabs : tab'[u] = IF u = t THEN y ELSE tab[u]
  BY DEF WebForms
<1>2. \A u \in Tabs : IsShown(tab[u]) /\ Grows(tab[u].screen, tab[u].screen)
  BY GrowsBy DEF ScreenInv, IsShown
<1> QED
  BY <1>1, <1>2 DEF ScreensGrow

LEMMA PagesStay ==
  ASSUME ScreenInv, tab' = tab
  PROVE  ScreensGrow
BY GrowsBy DEF ScreenInv, ScreensGrow, IsShown

LEMMA ChunksDoStay ==
  ASSUME WebForms, NEW e \in Exchanges, NEW x, ex' = [ex EXCEPT ![e] = x],
         x.tab = ex[e].tab, x.chunks = ex[e].chunks
  PROVE  ChunksStay
<1>1. DOMAIN ex = 1..Len(ex) /\ Len(ex) \in Nat
  BY DEF WebForms
<1>2. DOMAIN ex' = 1..Len(ex) /\ \A f \in 1..Len(ex) : ex'[f] = IF f = e THEN x ELSE ex[f]
  BY <1>1 DEF Exchanges
<1>3. ex' = [f \in 1..Len(ex) |-> ex'[f]]
  BY <1>1, <1>2
<1>4. Len(ex') = Len(ex)
  <2> DEFINE S == {ex'[f] : f \in 1..Len(ex)}
  <2>1. ex' \in Seq(S)
    <3>1. \A f \in 1..Len(ex) : ex'[f] \in S
      OBVIOUS
    <3> HIDE DEF S
    <3> DEFINE g == [f \in 1..Len(ex) |-> ex'[f]]
    <3>2. g \in Seq(S)
      BY <1>1, <3>1
    <3> QED
      BY <1>3, <3>2
  <2> QED
    BY <1>1, <1>2, <2>1
<1> QED
  BY <1>2, <1>4 DEF ChunksStay, Exchanges

LEMMA MarkedIsShown ==
  ASSUME WebForms, ScreenInv, NEW t \in Tabs, NEW e \in Exchanges
  PROVE  \A y \in {Failed(t, e), StreamError(t, e), Released(t)} :
           IsShown(y) /\ Grows(tab[t].screen, y.screen)
<1> DEFINE q == tab[t].screen
           m(who) == [i \in DOMAIN q |-> IF q[i] = Shown(who, e) THEN Marked(q[i]) ELSE q[i]]
<1>1. IsPage(tab[t]) /\ IsShown(tab[t]) /\ q \in Seq(ScreenLine)
  BY DEF WebForms, ScreenInv, IsShown
<1>2. Grows(q, q) /\ \A who : Grows(q, m(who))
  <2>1. ASSUME NEW y PROVE Grows(q, [i \in DOMAIN q |-> IF q[i] = y THEN Marked(q[i]) ELSE q[i]])
    BY <1>1, GrowsBy
  <2> QED
    BY <1>1, <2>1, GrowsBy
<1>3. ASSUME NEW u, Grows(q, u), NEW y, y.screen = u, y.ask = tab[t].ask, y.known = tab[t].known
      PROVE  IsShown(y) /\ Grows(q, y.screen)
  BY <1>1, <1>3 DEF IsShown, Grows
<1>4. /\ Released(t).screen = q /\ Failed(t, e).screen = m("caller") /\ StreamError(t, e).screen \in {q, m("agent")}
      /\ \A y \in {Failed(t, e), StreamError(t, e), Released(t)} : y.ask = tab[t].ask /\ y.known = tab[t].known
  BY <1>1 DEF IsPage, PageFields, Released, Failed, StreamError
<1> HIDE DEF q, m
<1>5. \A y \in {Failed(t, e), StreamError(t, e), Released(t)} : IsShown(y) /\ Grows(q, y.screen)
  BY <1>2, <1>3, <1>4
<1> QED
  BY <1>5 DEF q

\* The steps of an exchange that keep the number of pieces.
LEMMA ExchangeShows ==
  ASSUME WebInv, ScreenInv, NEW e \in Exchanges,
         \/ PostMatches(e) \/ PostStores(e) \/ StreamOpens(e) \/ StreamStores(e) \/ StreamTool(e)
         \/ PostRefused(e) \/ PostAnswers(e) \/ StreamSilent(e) \/ StreamCancelled(e)
         \/ StreamFails(e) \/ StreamEmpty(e) \/ StreamDone(e) \/ ConnectionLost(e)
  PROVE  ScreenInv'
<1>1. WebForms /\ ex[e] \in Exchange /\ ex[e].tab \in Tabs
  BY ExchangeIs DEF WebInv, Exchange
<1> DEFINE t == ex[e].tab
<1>2. ChunksStay
  <2>1. ASSUME NEW s, ex' = [ex EXCEPT ![e].at = s] PROVE ChunksStay
    BY <1>1, <2>1, ChunksDoStay DEF Exchange
  <2>2. CASE StreamTool(e)
    BY <2>2 DEF StreamTool, webVars, ChunksStay, Exchanges
  <2>3. CASE PostMatches(e)
    <3> DEFINE x == [ex[e] EXCEPT !.at = "matched", !.thread = IF IsOpen(@) THEN @ ELSE 0]
    <3>1. ex' = [ex EXCEPT ![e] = x] /\ x.tab = ex[e].tab /\ x.chunks = ex[e].chunks
      BY <1>1, <2>3 DEF PostMatches, Exchange
    <3> HIDE DEF x
    <3> QED
      BY <1>1, <3>1, ChunksDoStay
  <2>4. CASE PostStores(e)
    <3> DEFINE c == IF ex[e].thread = 0 THEN Len(threads) + 1 ELSE ex[e].thread
               x == [ex[e] EXCEPT !.at = "stored", !.thread = c]
    <3>1. ex' = [ex EXCEPT ![e] = x]
      BY <2>4 DEF PostStores
    <3> HIDE DEF c
    <3>2. x.tab = ex[e].tab /\ x.chunks = ex[e].chunks
      BY <1>1 DEF Exchange
    <3> HIDE DEF x
    <3> QED
      BY <1>1, <3>1, <3>2, ChunksDoStay
  <2>5. CASE StreamOpens(e)
    <3> DEFINE b == LastCaller(ex[e].thread)
               x == [ex[e] EXCEPT !.at = "streaming", !.about = b]
    <3>1. ex' = [ex EXCEPT ![e] = x]
      BY <2>5 DEF StreamOpens
    <3> HIDE DEF b
    <3>2. x.tab = ex[e].tab /\ x.chunks = ex[e].chunks
      BY <1>1 DEF Exchange
    <3> HIDE DEF x
    <3> QED
      BY <1>1, <3>1, <3>2, ChunksDoStay
  <2>6. CASE ConnectionLost(e)
    <3> DEFINE x == [ex[e] EXCEPT !.alive = FALSE]
    <3>1. ex' = [ex EXCEPT ![e] = x] /\ x.tab = ex[e].tab /\ x.chunks = ex[e].chunks
      BY <1>1, <2>6 DEF ConnectionLost, Exchange
    <3> HIDE DEF x
    <3> QED
      BY <1>1, <3>1, ChunksDoStay
  <2>7. CASE PostAnswers(e)
    <3> DEFINE s == IF Alive(e) THEN "accepted" ELSE "over"
    <3>1. ex' = [ex EXCEPT ![e].at = s]
      BY <2>7 DEF PostAnswers
    <3> HIDE DEF s
    <3> QED
      BY <2>1, <3>1
  <2> QED
    BY <2>1, <2>2, <2>3, <2>4, <2>5, <2>6, <2>7
       DEF StreamStores, PostRefused, StreamSilent, StreamCancelled, StreamFails, StreamEmpty, StreamDone
<1>3. ScreensGrow
  <2>1. ASSUME NEW y, IsShown(y), Grows(tab[t].screen, y.screen), tab' = tab \/ tab' = [tab EXCEPT ![t] = y]
        PROVE  ScreensGrow
    BY <1>1, <2>1, PageGrows, PagesStay
  <2>2. /\ IsShown(Failed(t, e)) /\ Grows(tab[t].screen, Failed(t, e).screen)
        /\ IsShown(StreamError(t, e)) /\ Grows(tab[t].screen, StreamError(t, e).screen)
        /\ IsShown(Released(t)) /\ Grows(tab[t].screen, Released(t).screen)
    BY <1>1, MarkedIsShown
  <2>3. CASE tab' = tab
    BY <2>3, PagesStay
  <2>4. CASE PostRefused(e) \/ ConnectionLost(e)
    <3>1. tab' = tab \/ tab' = [tab EXCEPT ![t] = Failed(t, e)] \/ tab' = [tab EXCEPT ![t] = StreamError(t, e)]
      BY <2>4 DEF PostRefused, ConnectionLost
    <3> QED
      BY <2>1, <2>2, <2>3, <3>1
  <2>5. CASE StreamSilent(e) \/ StreamFails(e) \/ StreamEmpty(e)
    <3>1. tab' = tab \/ tab' = [tab EXCEPT ![t] = StreamError(t, e)]
      BY <2>5 DEF StreamSilent, StreamFails, StreamEmpty
    <3> QED
      BY <2>1, <2>2, <3>1
  <2>6. CASE StreamDone(e)
    <3> DEFINE k == Released(t).known + 1
               y == [Released(t) EXCEPT !.known = k]
    <3>1. IsPage(Released(t)) /\ k \in Nat
      BY <1>1, <2>2, FailedIs DEF IsShown
    <3>2. tab' = tab \/ tab' = [tab EXCEPT ![t] = y]
      BY <2>6 DEF StreamDone
    <3> HIDE DEF k
    <3>3. y.screen = Released(t).screen /\ y.ask = Released(t).ask /\ y.known = k
      BY <3>1 DEF IsPage, PageFields
    <3> HIDE DEF y
    <3>4. IsShown(y) /\ Grows(tab[t].screen, y.screen)
      BY <2>2, <3>1, <3>3 DEF IsShown
    <3> QED
      BY <2>1, <3>2, <3>4
  <2>7. CASE PostAnswers(e)
    <3> DEFINE k == tab[t].known + 1
               y == [tab[t] EXCEPT !.conversation = ex[e].thread, !.known = k]
    <3>1. IsPage(tab[t]) /\ IsShown(tab[t]) /\ Grows(tab[t].screen, tab[t].screen) /\ k \in Nat
      <4>1. IsPage(tab[t]) /\ IsShown(tab[t])
        BY <1>1 DEF WebForms, ScreenInv
      <4> QED
        BY <4>1, GrowsBy DEF IsShown
    <3>2. tab' = tab \/ tab' = [tab EXCEPT ![t] = y]
      BY <2>7 DEF PostAnswers
    <3> HIDE DEF k
    <3>3. y.screen = tab[t].screen /\ y.ask = tab[t].ask /\ y.known = k
      BY <3>1 DEF IsPage, PageFields
    <3> HIDE DEF y
    <3>4. IsShown(y) /\ Grows(tab[t].screen, y.screen)
      BY <3>1, <3>3 DEF IsShown
    <3> QED
      BY <2>1, <3>2, <3>4
  <2> QED
    BY <2>3, <2>4, <2>5, <2>6, <2>7 DEF PostMatches, PostStores, StreamOpens, StreamStores, StreamTool, webVars, StreamCancelled
<1>4. reloads' = reloads
  BY DEF PostMatches, PostStores, StreamOpens, StreamStores, StreamTool, PostRefused, PostAnswers,
     StreamSilent, StreamCancelled, StreamFails, StreamEmpty, StreamDone, ConnectionLost, webVars
<1> QED
  BY <1>2, <1>3, <1>4, GrownIsKept

\* The first piece of an answer puts it on the screen.
LEMMA ChunkShows ==
  ASSUME WebInv, ScreenInv, NEW e \in Exchanges, StreamChunk(e)
  PROVE  ScreenInv'
<1> DEFINE x == [ex[e] EXCEPT !.chunks = @ + 1]
           t == ex[e].tab
           r == Append(tab[t].screen, Shown("agent", e))
           y == [tab[t] EXCEPT !.screen = r]
<1>1. /\ WebForms /\ ex[e] \in Exchange /\ t \in Tabs /\ e \in Nat
      /\ IsPage(tab[t]) /\ IsShown(tab[t]) /\ tab[t].screen \in Seq(ScreenLine)
  BY ExchangeIs DEF WebInv, WebForms, Exchange, ScreenInv, IsShown
<1>2. ex' = [ex EXCEPT ![e] = x] /\ x \in Exchange /\ x.tab = t
  BY <1>1 DEF StreamChunk, Exchange
<1>3. Exchanges' = Exchanges /\ ex'[e] = x /\ \A f \in Exchanges : f # e => ex'[f] = ex[f]
  BY <1>1, <1>2, OneExchangeChanges
<1>4. tab' = (IF ex[e].chunks = 0 THEN [tab EXCEPT ![t] = y] ELSE tab) /\ reloads' = reloads
  BY DEF StreamChunk
<1>5. Shown("agent", e) \in ScreenLine /\ Shown("agent", e).who = "agent" /\ Shown("agent", e).text = e
  BY <1>1 DEF Shown, ScreenLine, Speakers
<1>6. Grows(tab[t].screen, r) /\ HasLine(r, "agent", e) /\ r \in Seq(ScreenLine)
  BY <1>1, <1>5, GrowsBy DEF Grows
<1> HIDE DEF r
<1>7. y.screen = r /\ y.ask = tab[t].ask /\ y.known = tab[t].known
  BY <1>1 DEF IsPage, PageFields
<1> HIDE DEF x, y
<1>8. IsShown(y) /\ Grows(tab[t].screen, y.screen)
  BY <1>1, <1>6, <1>7 DEF IsShown
<1>9. ScreensGrow
  BY <1>1, <1>4, <1>8, PageGrows, PagesStay
<1>10. ASSUME reloads = 0, NEW f \in Exchanges
       PROVE  /\ HasLine(tab'[ex'[f].tab].screen, "caller", f)
              /\ ex'[f].chunks > 0 => HasLine(tab'[ex'[f].tab].screen, "agent", f)
  <2> DEFINE q == tab[ex[f].tab].screen
             s == tab'[ex[f].tab].screen
  <2>1. ex'[f].tab = ex[f].tab /\ ex[f].tab \in Tabs
    BY <1>2, <1>3, ExchangeIs DEF Exchange, WebInv
  <2>2. q \in Seq(ScreenLine) /\ Grows(q, s) /\ HasLine(q, "caller", f) /\ (ex[f].chunks > 0 => HasLine(q, "agent", f))
    BY <1>9, <1>10, <2>1 DEF ScreenInv, ScreensGrow, IsShown
  <2>3. f = e /\ ex[e].chunks = 0 => s = r
    BY <1>1, <1>4, <1>7 DEF WebForms
  <2>4. ex'[f].chunks > 0 => ex[f].chunks > 0 \/ (f = e /\ ex[e].chunks = 0)
    BY <1>1, <1>3 DEF Exchange
  <2> HIDE DEF q, s
  <2>5. HasLine(s, "caller", f) /\ (ex[f].chunks > 0 => HasLine(s, "agent", f))
    BY <2>2, LineStays
  <2> QED
    BY <1>6, <2>1, <2>3, <2>4, <2>5 DEF s
<1> QED
  BY <1>3, <1>4, <1>9, <1>10 DEF ScreenInv, ScreensGrow

LEMMA DrawnIs ==
  ASSUME WebForms, NEW c
  PROVE  Drawn(Visible(c)) \in Seq(ScreenLine)
<1> DEFINE v == Visible(c)
<1>1. v \in Seq(Row) /\ Len(v) \in Nat /\ \A i \in 1..Len(v) : v[i] \in Row
  BY VisibleIs, ElementOfSeq DEF MadeOf
<1> HIDE DEF v
<1> DEFINE h(i) == Shown(v[i].who, v[i].text)
<1>2. \A i \in 1..Len(v) : h(i) \in ScreenLine
  BY <1>1 DEF Row, Shown, ScreenLine
<1>3. Drawn(v) = [i \in 1..Len(v) |-> h(i)]
  BY DEF Drawn
<1> HIDE DEF h
<1>4. [i \in 1..Len(v) |-> h(i)] \in Seq(ScreenLine)
  BY <1>1, <1>2
<1> QED
  BY <1>3, <1>4 DEF v

LEMMA BrowserShows ==
  ASSUME WebInv, ScreenInv, NEW t \in Tabs, Browser(t)
  PROVE  ScreenInv'
<1> DEFINE a == tab[t].ask
<1>1. /\ WebForms /\ IsPage(tab[t]) /\ IsShown(tab[t])
      /\ tab[t].screen \in Seq(ScreenLine) /\ a.got \in Seq(ScreenLine)
  BY DEF WebInv, WebForms, ScreenInv, IsShown
<1>2. NoAsk = [f \in AskFields |-> NoAsk[f]] /\ NoAsk.got = <<>>
  BY DEF NoAsk, AskFields
<1>3. <<>> \in Seq(ScreenLine)
  OBVIOUS
<1>4. \E y : tab' = [tab EXCEPT ![t] = y] /\ IsShown(y) /\ Grows(tab[t].screen, y.screen)
  <2>1. CASE PollAsks(t)
    <3> DEFINE b == Asking("poll", tab[t].conversation)
               y == [tab[t] EXCEPT !.ask = b]
    <3>1. tab' = [tab EXCEPT ![t] = y]
      BY <2>1 DEF PollAsks
    <3>2. b = [f \in AskFields |-> b[f]] /\ b.got = <<>>
      BY DEF Asking, AskFields
    <3> HIDE DEF b
    <3>3. y.screen = tab[t].screen /\ y.ask = b /\ y.known = tab[t].known
      BY <1>1 DEF IsPage, PageFields
    <3> HIDE DEF y
    <3> QED
      BY <1>1, <1>3, <3>1, <3>2, <3>3, GrowsBy DEF IsShown
  <2>2. CASE ReadThread(t)
    <3> DEFINE d == Drawn(Visible(a.thread))
               b == IF IsOpen(a.thread) THEN [a EXCEPT !.at = "got", !.got = d] ELSE [a EXCEPT !.at = "refused"]
               y == [tab[t] EXCEPT !.ask = b]
    <3>1. tab' = [tab EXCEPT ![t] = y]
      BY <2>2 DEF ReadThread
    <3>2. d \in Seq(ScreenLine)
      BY <1>1, DrawnIs
    <3> HIDE DEF d
    <3>3. b = [f \in AskFields |-> b[f]] /\ b.got \in {d, a.got}
      BY <1>1 DEF IsShown, AskFields
    <3> HIDE DEF b
    <3>4. y.screen = tab[t].screen /\ y.ask = b /\ y.known = tab[t].known
      BY <1>1 DEF IsPage, PageFields
    <3> HIDE DEF y
    <3> QED
      BY <1>1, <3>1, <3>2, <3>3, <3>4, GrowsBy DEF IsShown
  <2>3. CASE PollShows(t)
    <3> DEFINE n == tab[t].known
               s == SubSeq(a.got, n + 1, Len(a.got))
               r == tab[t].screen \o s
               k == IF Len(a.got) > n THEN Len(a.got) ELSE n
               y == [tab[t] EXCEPT !.ask = NoAsk, !.screen = r, !.known = k]
    <3>1. tab' = [tab EXCEPT ![t] = y]
      BY <2>3 DEF PollShows
    <3>2. s \in Seq(ScreenLine) /\ k \in Nat
      <4>1. n \in Nat /\ Len(a.got) \in Nat /\ \A i \in 1..Len(a.got) : a.got[i] \in ScreenLine
        BY <1>1, ElementOfSeq DEF IsShown
      <4> HIDE DEF n, a
      <4>2. \A i \in (n + 1)..Len(a.got) : a.got[i] \in ScreenLine
        BY <4>1
      <4> QED
        BY <4>1, <4>2, SubSeqProperties
    <3> HIDE DEF s
    <3>3. Grows(tab[t].screen, r)
      BY <1>1, <3>2, GrowsBy
    <3> HIDE DEF r, k
    <3>4. y.screen = r /\ y.ask = NoAsk /\ y.known = k
      BY <1>1 DEF IsPage, PageFields
    <3> HIDE DEF y
    <3> QED
      BY <1>2, <1>3, <3>1, <3>2, <3>3, <3>4 DEF IsShown, Grows
  <2>4. CASE RestoreShows(t)
    <3> DEFINE c == IF a.at = "refused" THEN 0 ELSE tab[t].conversation
               r == tab[t].screen \o a.got
               k == IF a.at = "refused" THEN tab[t].known ELSE Len(a.got)
               y == [tab[t] EXCEPT !.ask = NoAsk, !.conversation = c, !.screen = r, !.known = k]
    <3>1. tab' = [tab EXCEPT ![t] = y]
      BY <2>4 DEF RestoreShows
    <3>2. Grows(tab[t].screen, r) /\ k \in Nat
      BY <1>1, GrowsBy DEF IsShown
    <3> HIDE DEF r, k, c
    <3>3. y.screen = r /\ y.ask = NoAsk /\ y.known = k
      BY <1>1 DEF IsPage, PageFields
    <3> HIDE DEF y
    <3> QED
      BY <1>2, <1>3, <3>1, <3>2, <3>3 DEF IsShown, Grows
  <2> QED
    BY <2>1, <2>2, <2>3, <2>4 DEF Browser
<1>5. ScreensGrow
  BY <1>1, <1>4, PageGrows
<1>6. ChunksStay /\ reloads' = reloads
  BY DEF Browser, PollAsks, ReadThread, PollShows, RestoreShows, ChunksStay, Exchanges
<1> QED
  BY <1>5, <1>6, GrownIsKept

LEMMA ReloadShows ==
  ASSUME WebInv, ScreenInv, NEW t \in Tabs, Reload(t)
  PROVE  ScreenInv'
<1>1. reloads' \in Nat /\ reloads' # 0
  BY DEF Reload, ScreenInv
<1>2. IsShown(FreshTab(saved))
  <2> DEFINE y == FreshTab(saved)
  <2>1. y.screen = <<>> /\ y.known = 0 /\ y.ask.got = <<>> /\ y.ask = [f \in AskFields |-> y.ask[f]]
    BY DEF FreshTab, NoAsk, Asking, AskFields
  <2> HIDE DEF y
  <2>2. IsShown(y)
    BY <2>1 DEF IsShown
  <2> QED
    BY <2>2 DEF y
<1>3. \A u \in Tabs : tab'[u] = IF u = t THEN FreshTab(saved) ELSE tab[u]
  BY DEF Reload, WebInv, WebForms
<1> QED
  BY <1>1, <1>2, <1>3 DEF ScreenInv

LEMMA SubmitShows ==
  ASSUME WebInv, ScreenInv, NEW t \in Tabs, Submit(t)
  PROVE  ScreenInv'
<1> DEFINE n == Len(ex)
           x == [at |-> "posting", tab |-> t, thread |-> tab[t].conversation,
                 about |-> 0, chunks |-> 0, alive |-> TRUE]
           l == Shown("caller", n + 1)
           r == Append(tab[t].screen, l)
           y == [tab[t] EXCEPT !.screen = r, !.busy = n + 1]
<1>1. /\ WebForms /\ n \in Nat /\ IsPage(tab[t]) /\ IsShown(tab[t]) /\ tab[t].screen \in Seq(ScreenLine)
      /\ ex \in Seq(Exchange)
  BY DEF WebInv, WebForms, ScreenInv, IsShown
<1>2. l \in ScreenLine /\ l.who = "caller" /\ l.text = n + 1
  <2> HIDE DEF n
  <2> QED
    BY <1>1 DEF Shown, ScreenLine, Speakers
<1>3. ex' = Append(ex, x) /\ tab' = [tab EXCEPT ![t] = y] /\ reloads' = reloads
  BY DEF Submit
<1>4. x \in Exchange /\ x.tab = t /\ x.chunks = 0
  BY <1>1 DEF Exchange, Stages, IsPage
<1> HIDE DEF l, x
<1>5. Grows(tab[t].screen, r) /\ HasLine(r, "caller", n + 1)
  BY <1>1, <1>2, GrowsBy
<1> HIDE DEF r
<1>6. y.screen = r /\ y.ask = tab[t].ask /\ y.known = tab[t].known
  BY <1>1 DEF IsPage, PageFields
<1> HIDE DEF y
<1>7. ScreensGrow
  <2>1. IsShown(y) /\ Grows(tab[t].screen, y.screen)
    BY <1>1, <1>5, <1>6 DEF IsShown, Grows
  <2> QED
    BY <1>1, <1>3, <2>1, PageGrows
<1>8. Len(ex') = n + 1 /\ ex'[n + 1] = x /\ \A e \in 1..n : ex'[e] = ex[e]
  BY <1>1, <1>3, <1>4, AppendIs
<1>9. tab'[t] = y
  BY <1>1, <1>3 DEF WebForms
<1>10. ASSUME reloads = 0, NEW e \in Exchanges'
       PROVE  /\ HasLine(tab'[ex'[e].tab].screen, "caller", e)
              /\ ex'[e].chunks > 0 => HasLine(tab'[ex'[e].tab].screen, "agent", e)
  <2>1. CASE e = n + 1
    BY <1>4, <1>5, <1>6, <1>8, <1>9, <2>1
  <2>2. CASE e # n + 1
    <3>1. e \in Exchanges /\ ex'[e] = ex[e]
      BY <1>1, <1>8, <2>2 DEF Exchanges
    <3>2. ex[e].tab \in Tabs
      BY <3>1, ExchangeIs DEF WebInv, Exchange
    <3> DEFINE q == tab[ex[e].tab].screen
               s == tab'[ex[e].tab].screen
    <3>3. q \in Seq(ScreenLine) /\ Grows(q, s) /\ HasLine(q, "caller", e) /\ (ex[e].chunks > 0 => HasLine(q, "agent", e))
      BY <1>7, <1>10, <3>1, <3>2 DEF ScreenInv, ScreensGrow, IsShown
    <3> HIDE DEF q, s
    <3>4. HasLine(s, "caller", e) /\ (ex[e].chunks > 0 => HasLine(s, "agent", e))
      BY <3>3, LineStays
    <3> QED
      BY <3>1, <3>4 DEF s
  <2> QED
    BY <2>1, <2>2
<1> QED
  BY <1>3, <1>7, <1>10 DEF ScreenInv, ScreensGrow

LEMMA ScreenInitInv == Init => ScreenInv
<1> SUFFICES ASSUME Init PROVE ScreenInv
  OBVIOUS
<1>1. Exchanges = {} /\ reloads = 0
  BY DEF Init, Exchanges
<1> DEFINE y == FreshTab(0)
<1>2. y.screen = <<>> /\ y.known = 0 /\ y.ask.got = <<>> /\ y.ask = [f \in AskFields |-> y.ask[f]]
  BY DEF FreshTab, NoAsk, AskFields
<1>3. \A t \in Tabs : tab[t] = y
  BY DEF Init
<1> HIDE DEF y
<1>4. IsShown(y)
  BY <1>2 DEF IsShown
<1> QED
  BY <1>1, <1>3, <1>4 DEF ScreenInv

LEMMA ScreenNextInv == WebInv /\ ScreenInv /\ [Next]_vars => ScreenInv'
<1> SUFFICES ASSUME WebInv, ScreenInv, [Next]_vars PROVE ScreenInv'
  OBVIOUS
<1>1. CASE UNCHANGED <<tab, ex, reloads>>
  <2>1. ScreensGrow /\ ChunksStay
    BY <1>1, PagesStay DEF ChunksStay, Exchanges
  <2> QED
    BY <1>1, <2>1, GrownIsKept
<1>2. ASSUME NEW t \in Tabs, Submit(t) \/ Reload(t) \/ Browser(t) PROVE ScreenInv'
  BY <1>2, SubmitShows, ReloadShows, BrowserShows
<1>3. ASSUME NEW e \in Exchanges,
             Server(e) \/ PostRefused(e) \/ StreamTool(e) \/ StreamFails(e) \/ ConnectionLost(e)
      PROVE  ScreenInv'
  BY <1>3, ExchangeShows, ChunkShows DEF Server
<1>4. UNCHANGED vars \/ UNCHANGED webVars => UNCHANGED <<tab, ex, reloads>>
  BY DEF vars, webVars
<1> QED
  BY <1>1, <1>2, <1>3, <1>4 DEF Next

LEMMA NothingIsMissed == OnePage /\ WebInv /\ ScreenInv => ScreenIsComplete
<1> SUFFICES ASSUME OnePage, WebInv, ScreenInv, reloads = 0, \A l \in Stored : l.who # "human",
                    NEW t \in Tabs, NEW c, NEW i \in 1..Len(Visible(c))
             PROVE  OnScreen(t, Visible(c)[i])
  BY DEF ScreenIsComplete
<1>1. PICK j \in 1..Len(lines) : Visible(c)[i] = lines[j] /\ OfThread(c, j)
  BY VisibleIs DEF MadeOf, WebInv
<1> DEFINE l == lines[j]
           e == lines[j].text
<1>2. l \in Row /\ l.who # "human" /\ l.who # "whisper"
  BY <1>1, ElementOfSeq DEF OfThread, Stored, WebInv, WebForms
<1>3. e \in Exchanges /\ (l.who = "agent" => ex[e].chunks > 0)
  BY <1>2 DEF Row, Speakers, WebInv, PostedOnce, AnswersAreOf, AnswerIsOf
<1>4. ex[e].tab = t
  BY <1>3, ExchangeIs DEF OnePage, WebInv, Exchange
<1>5. HasLine(tab[t].screen, l.who, e)
  BY <1>2, <1>3, <1>4 DEF ScreenInv, Row, Speakers
<1>6. DOMAIN tab[t].screen = 1..Len(tab[t].screen)
  BY DEF ScreenInv, IsShown
<1> QED
  BY <1>1, <1>5, <1>6 DEF HasLine, OnScreen

\* One page, while nobody but the agent writes: no reply is stored that the visitor was not
\* shown, whatever the network drops, a colleague withholds or the model closes.
THEOREM NoReplyIsMissed ==
  ASSUME OnePage
  PROVE  Spec => []ScreenIsComplete
<1>1. Spec => []WebInv
  BY WebChatHolds
<1>2. WebInv /\ ScreenInv => ScreenIsComplete
  BY NothingIsMissed
<1> QED
  BY <1>1, <1>2, ScreenInitInv, ScreenNextInv, PTL DEF Spec
=============================================================================
