------------------------ MODULE DeclaredChannelProofs ------------------------
(***************************************************************************)
(* What holds of a declared channel for any number of messages,            *)
(* deliveries, pieces, staff, restarts and faults: an answer in the        *)
(* transcript was delivered first, and a delivery that is dropped as       *)
(* repeated has its message in the transcript.                             *)
(***************************************************************************)
EXTENDS DeclaredChannel, SequenceTheorems, TLAPS

Places == {"unused", "blocked", "arrived", "found", "routed", "repeated", "announcing",
           "refused", "withheld", "scheduled", "generating", "failed", "sending",
           "undelivered", "answered", "lost"}

Ids  == Messages \cup {0}
Row  == [status : {"open", "closed"}, handling : {"ai", "human"}]
Text == [thread : Nat, who : Speakers, text : Nat]
Hand == [at : {"idle", "replying", "delivered"}, thread : Nat, text : Nat]
Case == [at : Places, msg : Ids, thread : Nat, ids : Seq(Ids),
         handling : {"ai", "human"}, rule : {"ai", "pass", "block"}, sent : Nat]

Types ==
  /\ threads \in Seq(Row)
  /\ lines \in Seq(Text)
  /\ person \in [People -> Hand]
  /\ typed \in 0..MaxTyped
  /\ flow \in [Deliveries -> Case]
  /\ recent \in Seq(Seq(Ids))
  /\ restarts \in 0..MaxRestarts
  /\ faults \in 0..MaxFaults

\* Every handle on a conversation names one that exists.
Handles ==
  /\ Len(recent) = Len(threads)
  /\ \A i \in 1..Len(lines) : lines[i].thread \in 1..Len(threads)
  /\ \A p \in People : person[p].at # "idle" => person[p].thread \in 1..Len(threads)
  /\ \A d \in Deliveries :
       /\ flow[d].thread \in 0..Len(threads)
       /\ flow[d].at \in {"announcing"} \cup InReply => flow[d].thread # 0
  /\ \A c \in 1..Len(recent) : Len(recent[c]) <= RecentKept

\* The platform has accepted what a delivery or a person counts as sent, and all of
\* what is stored.
Sent ==
  /\ \A i \in 1..Len(lines) :
       /\ lines[i].who = "agent" =>
            \A n \in 1..Pieces : <<"agent", lines[i].text, n>> \in outbox
       /\ lines[i].who = "human" => <<"human", lines[i].text, 1>> \in outbox
  /\ \A d \in Deliveries : \A n \in 1..flow[d].sent : <<"agent", d, n>> \in outbox
  /\ \A p \in People :
       person[p].at = "delivered" => <<"human", person[p].text, 1>> \in outbox

\* The messages that have a line in the transcript.
Heard == {flow[lines[i].text].msg : i \in {j \in 1..Len(lines) : lines[j].who = "caller"}}

\* A remembered id, in a row or in a process that read the row, is of a stored message.
Remembered ==
  /\ \A i \in 1..Len(lines) : lines[i].who = "caller" =>
       lines[i].text \in Deliveries /\ flow[lines[i].text].at # "unused"
  /\ \A c \in 1..Len(recent) : \A i \in 1..Len(recent[c]) : recent[c][i] \in Heard
  /\ \A d \in Deliveries :
       /\ \A i \in 1..Len(flow[d].ids) : flow[d].ids[i] \in Heard
       /\ flow[d].at = "repeated" => flow[d].msg \in Heard

IInv == Types /\ Handles /\ Sent /\ Remembered

LEMMA InitIInv == Init => IInv
<1> SUFFICES ASSUME Init PROVE IInv
  OBVIOUS
<1>1. threads = <<>> /\ lines = <<>> /\ recent = <<>>
      /\ person = [p \in People |-> Resting] /\ typed = 0
      /\ flow = [d \in Deliveries |-> Unused] /\ restarts = 0 /\ faults = 0
  BY DEF Init, ThreadInit
<1>2. Unused \in Case
  <2>1. <<>> \in Seq(Ids)
    BY EmptySeq
  <2> QED
    BY <2>1 DEF Unused, Case, Places, Ids
<1>3. Types
  BY <1>1, <1>2, EmptySeq, ThreadAssumption, DeclaredChannelAssumption DEF Types, Resting, Hand
<1>4. Handles
  BY <1>1, EmptySeq DEF Handles, Resting, Unused, InReply
<1>5. Sent
  BY <1>1, EmptySeq DEF Sent, Resting, Unused
<1>6. Remembered
  BY <1>1, EmptySeq DEF Remembered, Unused
<1> QED
  BY <1>3, <1>4, <1>5, <1>6 DEF IInv

(***************************************************************************)
(* Stored messages stay stored: lines are only appended, and a delivery    *)
(* that was used keeps its message.                                        *)
(***************************************************************************)
Grows ==
  /\ Len(lines') >= Len(lines)
  /\ \A i \in 1..Len(lines) : lines'[i] = lines[i]
  /\ \A d \in Deliveries : flow[d].at # "unused" => flow'[d].msg = flow[d].msg

LEMMA HeardStays ==
  ASSUME IInv, Grows
  PROVE  Heard \subseteq Heard'
<1> SUFFICES ASSUME NEW i \in 1..Len(lines), lines[i].who = "caller"
             PROVE  flow[lines[i].text].msg \in Heard'
  BY DEF Heard
<1>1. lines[i].text \in Deliveries /\ flow[lines[i].text].at # "unused"
  BY DEF IInv, Remembered
<1>2. i \in 1..Len(lines') /\ lines'[i] = lines[i]
  BY LenProperties DEF Grows, IInv, Types
<1> QED
  BY <1>1, <1>2 DEF Heard, Grows

LEMMA HeardSame ==
  ASSUME IInv, UNCHANGED lines,
         \A d \in Deliveries : flow[d].at # "unused" => flow'[d].msg = flow[d].msg
  PROVE  Heard \subseteq Heard'
<1>1. Len(lines) \in Nat
  BY LenProperties DEF IInv, Types
<1> QED
  BY <1>1, HeardStays DEF Grows

\* One more line in the transcript.
LEMMA LineAppended ==
  ASSUME IInv, NEW l \in Text, lines' = Append(lines, l)
  PROVE  /\ lines' \in Seq(Text)
         /\ Len(lines) \in Nat /\ Len(lines') = Len(lines) + 1
         /\ \A i \in 1..Len(lines) : lines'[i] = lines[i]
         /\ lines'[Len(lines')] = l
<1>1. Len(lines) \in Nat
  BY LenProperties DEF IInv, Types
<1> QED
  BY <1>1, AppendProperties DEF IInv, Types

\* The steps that only say where a delivery is now.
LEMMA Moves ==
  ASSUME IInv, NEW d \in Deliveries, NEW where \in Places \ {"unused"},
         flow[d].at # "unused",
         where \in {"announcing"} \cup InReply => flow[d].thread # 0,
         where = "repeated" => flow[d].msg \in Heard,
         flow' = Goto(d, where),
         UNCHANGED <<threadVars, recent, restarts>>,
         faults' \in 0..MaxFaults
  PROVE  IInv'
<1>1. /\ flow' \in [Deliveries -> Case]
      /\ \A e \in Deliveries : /\ flow'[e].msg = flow[e].msg
                               /\ flow'[e].thread = flow[e].thread
                               /\ flow'[e].ids = flow[e].ids
                               /\ flow'[e].sent = flow[e].sent
                               /\ e # d => flow'[e].at = flow[e].at
      /\ flow'[d].at = where
  BY DEF IInv, Types, Goto, Case
<1>2. Heard \subseteq Heard'
  BY <1>1, HeardSame DEF threadVars
<1>3. Types'
  BY <1>1 DEF IInv, Types, threadVars
<1>4. Handles'
  BY <1>1 DEF IInv, Handles, threadVars
<1>5. Sent'
  BY <1>1 DEF IInv, Sent, threadVars
<1>6. Remembered'
  BY <1>1, <1>2 DEF IInv, Remembered, threadVars
<1> QED
  BY <1>3, <1>4, <1>5, <1>6 DEF IInv

\* The steps that only change the row of a conversation.
LEMMA RowChanges ==
  ASSUME IInv, threads' \in Seq(Row), Len(threads') = Len(threads),
         UNCHANGED <<lines, outbox, person, typed, channelVars>>
  PROVE  IInv'
<1>1. Heard \subseteq Heard'
  BY DEF Heard, channelVars
<1>2. Types'
  BY DEF IInv, Types, channelVars
<1>3. Handles'
  BY DEF IInv, Handles, channelVars
<1>4. Sent'
  BY DEF IInv, Sent, channelVars
<1>5. Remembered'
  BY <1>1 DEF IInv, Remembered, channelVars
<1> QED
  BY <1>2, <1>3, <1>4, <1>5 DEF IInv

LEMMA RowTyped ==
  ASSUME IInv, NEW c \in Threads, NEW h \in {"ai", "human"}
  PROVE  /\ [threads EXCEPT ![c].handling = h] \in Seq(Row)
         /\ Len([threads EXCEPT ![c].handling = h]) = Len(threads)
         /\ [threads EXCEPT ![c].status = "closed"] \in Seq(Row)
         /\ Len([threads EXCEPT ![c].status = "closed"]) = Len(threads)
<1>1. threads \in Seq(Row) /\ c \in 1..Len(threads) /\ threads[c] \in Row
  BY ElementOfSeq DEF IInv, Types, Threads
<1>2. [threads[c] EXCEPT !.handling = h] \in Row
      /\ [threads[c] EXCEPT !.status = "closed"] \in Row
  BY <1>1 DEF Row
<1>3. /\ [threads EXCEPT ![c].handling = h]
           = [threads EXCEPT ![c] = [threads[c] EXCEPT !.handling = h]]
      /\ [threads EXCEPT ![c].status = "closed"]
           = [threads EXCEPT ![c] = [threads[c] EXCEPT !.status = "closed"]]
  OBVIOUS
<1> QED
  BY <1>1, <1>2, <1>3, ExceptSeq

(***************************************************************************)
(* The request.                                                            *)
(***************************************************************************)
LEMMA DeliverIInv ==
  ASSUME IInv, NEW d \in Deliveries, NEW m \in Messages, Deliver(d, m)
  PROVE  IInv'
<1> USE DEF Deliver
<1>1. PICK rule \in Rules :
        flow' = [flow EXCEPT ![d] = [Unused EXCEPT
                   !.at = IF rule = "block" THEN "blocked" ELSE "arrived",
                   !.msg = m, !.rule = rule]]
  OBVIOUS
<1>2. /\ flow' \in [Deliveries -> Case]
      /\ \A e \in Deliveries : e # d => flow'[e] = flow[e]
      /\ flow'[d].at \in {"blocked", "arrived"}
      /\ flow'[d].thread = 0 /\ flow'[d].ids = <<>> /\ flow'[d].sent = 0
  <2>1. [Unused EXCEPT !.at = IF rule = "block" THEN "blocked" ELSE "arrived",
                       !.msg = m, !.rule = rule] \in Case
    <3>1. <<>> \in Seq(Ids)
      BY EmptySeq
    <3> QED
      BY <3>1, DeclaredChannelAssumption DEF Unused, Case, Places, Ids
  <2> QED
    BY <1>1, <2>1 DEF IInv, Types, Unused
<1>3. Heard \subseteq Heard'
  BY <1>2, HeardSame DEF threadVars
<1>4. Types'
  BY <1>2 DEF IInv, Types, threadVars
<1>5. Handles'
  <2>1. Len(threads) \in Nat
    BY LenProperties DEF IInv, Types
  <2> QED
    BY <1>2, <2>1 DEF IInv, Handles, threadVars, InReply
<1>6. Sent'
  BY <1>2 DEF IInv, Sent, threadVars
<1>7. Remembered'
  BY <1>2, <1>3, EmptySeq DEF IInv, Remembered, threadVars
<1> QED
  BY <1>4, <1>5, <1>6, <1>7 DEF IInv

LEMMA FoundIInv ==
  ASSUME IInv, NEW d \in Deliveries, flow[d].at # "unused", NEW r \in Case,
         r.at = "found", r.thread \in 0..Len(threads),
         r.msg = flow[d].msg, r.sent = flow[d].sent,
         \A i \in 1..Len(r.ids) : r.ids[i] \in Heard,
         flow' = [flow EXCEPT ![d] = r],
         UNCHANGED <<threadVars, recent, restarts, faults>>
  PROVE  IInv'
<1>1. /\ flow' \in [Deliveries -> Case]
      /\ \A e \in Deliveries : e # d => flow'[e] = flow[e]
      /\ flow'[d] = r
  BY DEF IInv, Types
<1>2. Heard \subseteq Heard'
  BY <1>1, HeardSame DEF threadVars
<1>3. Types'
  BY <1>1 DEF IInv, Types, threadVars
<1>4. Handles'
  BY <1>1 DEF IInv, Handles, threadVars, InReply
<1>5. Sent'
  BY <1>1 DEF IInv, Sent, threadVars
<1>6. Remembered'
  BY <1>1, <1>2 DEF IInv, Remembered, threadVars
<1> QED
  BY <1>3, <1>4, <1>5, <1>6 DEF IInv

LEMMA FindsThreadIInv ==
  ASSUME IInv, NEW d \in Deliveries, FindsThread(d)
  PROVE  IInv'
<1> DEFINE found(c, ids, handling) ==
             [flow[d] EXCEPT !.at = "found", !.thread = c, !.ids = ids,
                             !.handling = handling]
<1>1. /\ flow[d] \in Case /\ flow[d].at = "arrived"
      /\ UNCHANGED <<threadVars, recent, restarts, faults>>
      /\ Len(threads) \in Nat
  BY LenProperties DEF IInv, Types, FindsThread
<1>2. ASSUME NEW c \in Nat, NEW ids \in Seq(Ids), NEW handling \in {"ai", "human"}
      PROVE  /\ found(c, ids, handling) \in Case
             /\ found(c, ids, handling).at = "found"
             /\ found(c, ids, handling).thread = c
             /\ found(c, ids, handling).ids = ids
             /\ found(c, ids, handling).msg = flow[d].msg
             /\ found(c, ids, handling).sent = flow[d].sent
  BY <1>1 DEF Case, Places
<1>3. CASE flow' = [flow EXCEPT ![d].at = "found", ![d].thread = 0, ![d].ids = <<>>]
  <2> DEFINE none == <<>>
             r    == found(0, none, flow[d].handling)
  <2>1. none \in Seq(Ids) /\ flow[d].handling \in {"ai", "human"} /\ 0 \in Nat
    BY <1>1, EmptySeq DEF Case
  <2>2. flow' = [flow EXCEPT ![d] = r]
    BY <1>1, <1>3 DEF Case, IInv, Types
  <2>3. /\ r \in Case /\ r.at = "found" /\ r.thread = 0 /\ r.ids = none
        /\ r.msg = flow[d].msg /\ r.sent = flow[d].sent
    <3> HIDE DEF found, none
    <3> QED
      BY <1>2, <2>1
  <2>4. 0 \in 0..Len(threads) /\ Len(<<>>) = 0
    BY <1>1, EmptySeq
  <2> HIDE DEF r
  <2>5. \A i \in 1..Len(r.ids) : r.ids[i] \in Heard
    BY <2>3, <2>4
  <2> QED
    BY <1>1, <2>2, <2>3, <2>4, <2>5, FoundIInv
<1>4. ASSUME NEW c \in 1..Len(threads),
             flow' = [flow EXCEPT ![d].at = "found", ![d].thread = c,
                                  ![d].ids = recent[c],
                                  ![d].handling = threads[c].handling]
      PROVE  IInv'
  <2>1. /\ recent[c] \in Seq(Ids)
        /\ \A i \in 1..Len(recent[c]) : recent[c][i] \in Heard
    <3>1. c \in 1..Len(recent)
      BY DEF IInv, Handles
    <3> QED
      BY <3>1, ElementOfSeq DEF IInv, Types, Remembered
  <2>2. threads[c].handling \in {"ai", "human"}
    <3>1. threads[c] \in Row
      BY ElementOfSeq DEF IInv, Types
    <3> QED
      BY <3>1 DEF Row
  <2>3. flow' = [flow EXCEPT ![d] = found(c, recent[c], threads[c].handling)]
    BY <1>4
  <2> DEFINE r == found(c, recent[c], threads[c].handling)
  <2>4. /\ r \in Case /\ r.at = "found" /\ r.thread = c /\ r.ids = recent[c]
        /\ r.msg = flow[d].msg /\ r.sent = flow[d].sent
    <3>1. c \in Nat
      BY <1>1
    <3> HIDE DEF found
    <3> QED
      BY <1>2, <2>1, <2>2, <3>1
  <2>5. c \in 0..Len(threads)
    BY <1>1
  <2> HIDE DEF r
  <2>6. flow' = [flow EXCEPT ![d] = r]
    BY <2>3 DEF r
  <2> QED
    BY <1>1, <2>1, <2>4, <2>5, <2>6, FoundIInv
<1>5. \/ flow' = [flow EXCEPT ![d].at = "found", ![d].thread = 0, ![d].ids = <<>>]
      \/ \E c \in 1..Len(threads) :
           flow' = [flow EXCEPT ![d].at = "found", ![d].thread = c, ![d].ids = recent[c],
                                ![d].handling = threads[c].handling]
  BY DEF FindsThread, OpenOnes, Threads
<1> HIDE DEF found
<1> QED
  BY <1>3, <1>4, <1>5

\* The conversation a delivery ends in, found or new.
LEMMA HomeExists ==
  ASSUME IInv, NEW d \in Deliveries
  PROVE  /\ Created(d) \in Seq(Row) /\ IdsOf(d) \in Seq(Seq(Ids))
         /\ Len(threads) \in Nat /\ Len(Created(d)) \in Nat
         /\ Len(threads) <= Len(Created(d)) /\ Len(IdsOf(d)) = Len(Created(d))
         /\ Home(d) \in 1..Len(Created(d))
         /\ \A c \in 1..Len(IdsOf(d)) : /\ Len(IdsOf(d)[c]) <= RecentKept
                                        /\ \A i \in 1..Len(IdsOf(d)[c]) :
                                             IdsOf(d)[c][i] \in Heard
<1>1. /\ Len(threads) \in Nat /\ Len(recent) = Len(threads)
      /\ threads \in Seq(Row) /\ recent \in Seq(Seq(Ids)) /\ <<>> \in Seq(Ids)
      /\ [status |-> "open", handling |-> "ai"] \in Row
      /\ flow[d].thread \in 0..Len(threads)
  BY LenProperties, EmptySeq DEF IInv, Types, Handles, Row
<1>2. CASE flow[d].thread = 0
  <2>1. /\ Created(d) \in Seq(Row) /\ Len(Created(d)) = Len(threads) + 1
    BY <1>1, <1>2, AppendProperties DEF Created, NewThread
  <2>2. /\ IdsOf(d) \in Seq(Seq(Ids)) /\ Len(IdsOf(d)) = Len(threads) + 1
        /\ \A c \in 1..Len(recent) : IdsOf(d)[c] = recent[c]
        /\ IdsOf(d)[Len(recent) + 1] = <<>>
    <3>1. IdsOf(d) = Append(recent, <<>>)
      BY <1>2 DEF IdsOf
    <3> QED
      BY <1>1, <3>1, AppendProperties
  <2>3. \A c \in 1..Len(IdsOf(d)) : c \in 1..Len(recent) \/ c = Len(recent) + 1
    BY <1>1, <2>2
  <2>4. Home(d) = Len(threads) + 1
    BY <1>2 DEF Home
  <2>5. \A c \in 1..Len(IdsOf(d)) : /\ Len(IdsOf(d)[c]) <= RecentKept
                                    /\ \A i \in 1..Len(IdsOf(d)[c]) :
                                         IdsOf(d)[c][i] \in Heard
    <3>1. \A c \in 1..Len(recent) : Len(recent[c]) <= RecentKept
                                    /\ \A i \in 1..Len(recent[c]) : recent[c][i] \in Heard
      BY DEF IInv, Handles, Remembered
    <3>2. Len(<<>>) = 0 /\ RecentKept \in Nat
      BY EmptySeq, DeclaredChannelAssumption
    <3>3. \A c \in 1..Len(recent) : Len(IdsOf(d)[c]) <= RecentKept
                                    /\ \A i \in 1..Len(IdsOf(d)[c]) : IdsOf(d)[c][i] \in Heard
      BY <2>2, <3>1
    <3>4. /\ Len(IdsOf(d)[Len(recent) + 1]) <= RecentKept
          /\ \A i \in 1..Len(IdsOf(d)[Len(recent) + 1]) : IdsOf(d)[Len(recent) + 1][i] \in Heard
      BY <2>2, <3>2
    <3> QED
      BY <2>3, <3>3, <3>4
  <2> QED
    BY <1>1, <2>1, <2>2, <2>4, <2>5
<1>3. CASE flow[d].thread # 0
  BY <1>1, <1>3 DEF Created, IdsOf, Home, IInv, Handles, Remembered
<1> QED
  BY <1>2, <1>3

LEMMA PassesIInv ==
  ASSUME IInv, NEW d \in Deliveries, Passes(d)
  PROVE  IInv'
<1> USE DEF Passes
<1>1. /\ threads' \in Seq(Row) /\ Len(threads') = Len(Created(d))
      /\ Len(threads) \in Nat /\ Len(threads') \in Nat /\ Len(threads) <= Len(threads')
      /\ Home(d) \in 1..Len(threads')
  <2> DEFINE rows == Created(d)
             row  == [rows[Home(d)] EXCEPT !.handling = "human"]
  <2>1. rows \in Seq(Row) /\ Home(d) \in 1..Len(rows)
    BY HomeExists
  <2>2. rows[Home(d)] \in Row
    <3> HIDE DEF rows
    <3> QED
      BY <2>1, ElementOfSeq
  <2>3. row \in Row
    BY <2>2 DEF Row
  <2>4. threads' = [rows EXCEPT ![Home(d)] = row]
    OBVIOUS
  <2>5. threads' \in Seq(Row) /\ Len(threads') = Len(rows)
    <3>1. /\ [rows EXCEPT ![Home(d)] = row] \in Seq(Row)
          /\ Len([rows EXCEPT ![Home(d)] = row]) = Len(rows)
      <4> HIDE DEF rows, row, Passes
      <4> QED
        BY <2>1, <2>3, ExceptSeq
    <3> HIDE DEF rows, row
    <3> QED
      BY <2>4, <3>1
  <2> QED
    BY <2>5, HomeExists
<1>2. /\ flow' \in [Deliveries -> Case]
      /\ \A e \in Deliveries : e # d => flow'[e] = flow[e]
      /\ flow'[d].at = "routed" /\ flow'[d].thread = Home(d)
      /\ flow'[d].msg = flow[d].msg /\ flow'[d].sent = flow[d].sent
      /\ flow'[d].ids = flow[d].ids
  BY <1>1 DEF IInv, Types, Case, Places
<1>3. Heard \subseteq Heard'
  BY <1>2, HeardSame
<1>4. Types'
  BY <1>1, <1>2, HomeExists DEF IInv, Types
<1>5. Handles'
  BY <1>1, <1>2, HomeExists DEF IInv, Handles, InReply
<1>6. Sent'
  BY <1>2 DEF IInv, Sent
<1>7. Remembered'
  <2>1. \A c \in 1..Len(recent') : \A i \in 1..Len(recent'[c]) : recent'[c][i] \in Heard
    BY HomeExists
  <2> QED
    BY <1>2, <1>3, <2>1 DEF IInv, Remembered
<1> QED
  BY <1>4, <1>5, <1>6, <1>7 DEF IInv

\* The remembered ids are among those there were, and never more than RecentKept.
LEMMA KeptProperties ==
  ASSUME NEW S, NEW ids \in Seq(S)
  PROVE  /\ Kept(ids) \in Seq(S) /\ Len(Kept(ids)) <= RecentKept
         /\ \A i \in 1..Len(Kept(ids)) : \E j \in 1..Len(ids) : Kept(ids)[i] = ids[j]
<1>1. Len(ids) \in Nat /\ RecentKept \in Nat \ {0}
  BY LenProperties, DeclaredChannelAssumption
<1>2. CASE Len(ids) > RecentKept
  <2> DEFINE m == Len(ids) - RecentKept + 1
  <2>1. /\ m \in Int /\ Len(ids) \in Int /\ m >= 1 /\ m <= Len(ids)
        /\ Len(ids) - m + 1 = RecentKept
    BY <1>1, <1>2
  <2>2. \A i \in m..Len(ids) : ids[i] \in S
    BY <1>1, <2>1, ElementOfSeq
  <2>3. Kept(ids) = SubSeq(ids, m, Len(ids))
    BY <1>2 DEF Kept
  <2> HIDE DEF m
  <2>4. /\ SubSeq(ids, m, Len(ids)) \in Seq(S)
        /\ Len(SubSeq(ids, m, Len(ids))) = Len(ids) - m + 1
        /\ \A i \in 1..(Len(ids) - m + 1) : SubSeq(ids, m, Len(ids))[i] = ids[m + i - 1]
    BY <2>1, <2>2, SubSeqProperties
  <2>5. \A i \in 1..RecentKept : m + i - 1 \in 1..Len(ids)
    BY <1>1, <2>1
  <2>6. \A i \in 1..RecentKept : Kept(ids)[i] = ids[m + i - 1]
    BY <2>1, <2>3, <2>4
  <2> QED
    BY <1>1, <2>1, <2>3, <2>4, <2>5, <2>6
<1>3. CASE ~(Len(ids) > RecentKept)
  BY <1>1, <1>3 DEF Kept
<1> QED
  BY <1>2, <1>3

LEMMA StoresLineIInv ==
  ASSUME IInv, NEW d \in Deliveries, StoresLine(d)
  PROVE  IInv'
<1> DEFINE seen == Append(flow[d].ids, flow[d].msg)
<1>1. /\ flow[d] \in Case /\ flow[d].at # "unused" /\ Home(d) \in Nat
      /\ Home(d) \in 1..Len(Created(d))
      /\ threads' = Created(d)
      /\ recent' = [IdsOf(d) EXCEPT ![Home(d)] = Kept(seen)]
      /\ lines' = Append(lines, Line(Home(d), "caller", d))
      /\ flow' = [flow EXCEPT ![d].at = "announcing", ![d].thread = Home(d)]
      /\ UNCHANGED <<outbox, person, typed, restarts, faults>>
  BY HomeExists DEF StoresLine, Routed, IInv, Types
<1>2. /\ flow' \in [Deliveries -> Case]
      /\ \A e \in Deliveries : e # d => flow'[e] = flow[e]
      /\ flow'[d].at = "announcing" /\ flow'[d].thread = Home(d)
      /\ flow'[d].msg = flow[d].msg /\ flow'[d].sent = flow[d].sent
      /\ flow'[d].ids = flow[d].ids
  BY <1>1 DEF IInv, Types, Case, Places
<1>3. /\ lines' \in Seq(Text)
      /\ Len(lines) \in Nat /\ Len(lines') = Len(lines) + 1
      /\ \A i \in 1..Len(lines) : lines'[i] = lines[i]
      /\ lines'[Len(lines')] = Line(Home(d), "caller", d)
  <2>1. Line(Home(d), "caller", d) \in Text
    BY <1>1 DEF Line, Text, Speakers, Deliveries
  <2> QED
    BY <1>1, <2>1, LineAppended
<1>4. Heard \subseteq Heard' /\ flow[d].msg \in Heard'
  <2>1. Grows
    BY <1>2, <1>3 DEF Grows
  <2>2. Len(lines') \in {j \in 1..Len(lines') : lines'[j].who = "caller"}
        /\ lines'[Len(lines')].text = d
    BY <1>3 DEF Line
  <2>3. flow'[lines'[Len(lines')].text].msg \in Heard'
    BY <2>2 DEF Heard
  <2> QED
    BY <1>2, <2>1, <2>2, <2>3, HeardStays
<1>5. /\ Kept(seen) \in Seq(Ids) /\ Len(Kept(seen)) <= RecentKept
      /\ \A i \in 1..Len(Kept(seen)) : Kept(seen)[i] \in Heard'
  <2>1. /\ seen \in Seq(Ids) /\ Len(flow[d].ids) \in Nat
        /\ Len(seen) = Len(flow[d].ids) + 1
        /\ \A i \in 1..Len(flow[d].ids) : seen[i] = flow[d].ids[i]
        /\ seen[Len(flow[d].ids) + 1] = flow[d].msg
    BY <1>1, AppendProperties, LenProperties DEF Case
  <2>2. \A i \in 1..Len(flow[d].ids) : flow[d].ids[i] \in Heard
    BY DEF IInv, Remembered
  <2>3. \A j \in 1..Len(seen) : seen[j] \in Heard'
    <3> HIDE DEF seen
    <3> QED
      BY <1>4, <2>1, <2>2
  <2> HIDE DEF seen
  <2>4. /\ Kept(seen) \in Seq(Ids) /\ Len(Kept(seen)) <= RecentKept
        /\ \A i \in 1..Len(Kept(seen)) : \E j \in 1..Len(seen) : Kept(seen)[i] = seen[j]
    BY <2>1, KeptProperties
  <2> QED
    BY <2>3, <2>4
<1>6. /\ recent' \in Seq(Seq(Ids)) /\ Len(recent') = Len(Created(d))
      /\ \A c \in 1..Len(recent') : /\ Len(recent'[c]) <= RecentKept
                                    /\ \A i \in 1..Len(recent'[c]) :
                                         recent'[c][i] \in Heard'
  <2> DEFINE kept == Kept(seen)
             rows == IdsOf(d)
  <2>1. /\ rows \in Seq(Seq(Ids)) /\ Home(d) \in 1..Len(rows) /\ kept \in Seq(Ids)
        /\ Len(rows) = Len(Created(d))
    BY <1>5, HomeExists
  <2>2. recent' = [rows EXCEPT ![Home(d)] = kept]
    BY <1>1
  <2>3. \A c \in 1..Len(rows) : Len(rows[c]) <= RecentKept
                                /\ \A i \in 1..Len(rows[c]) : rows[c][i] \in Heard
    BY HomeExists
  <2>4. Len(kept) <= RecentKept /\ \A i \in 1..Len(kept) : kept[i] \in Heard'
    BY <1>5
  <2> HIDE DEF kept, rows
  <2>5. /\ [rows EXCEPT ![Home(d)] = kept] \in Seq(Seq(Ids))
        /\ Len([rows EXCEPT ![Home(d)] = kept]) = Len(rows)
        /\ \A c \in 1..Len(rows) : [rows EXCEPT ![Home(d)] = kept][c]
                                     = IF c = Home(d) THEN kept ELSE rows[c]
    BY <2>1, ExceptSeq
  <2> QED
    BY <1>4, <2>1, <2>2, <2>3, <2>4, <2>5
<1> HIDE DEF seen
<1>7. Types'
  BY <1>1, <1>2, <1>3, <1>6, HomeExists DEF IInv, Types
<1>8. Handles'
  <2>1. /\ Len(threads) \in Nat /\ Len(threads') \in Nat
        /\ Len(threads) <= Len(threads') /\ Home(d) \in 1..Len(threads')
    BY <1>1, HomeExists
  <2>2. \A i \in 1..Len(lines') : lines'[i].thread \in 1..Len(threads')
    <3>1. \A i \in 1..Len(lines') : i \in 1..Len(lines) \/ i = Len(lines')
      BY <1>3
    <3>2. lines'[Len(lines')].thread = Home(d)
      BY <1>3 DEF Line
    <3>3. \A i \in 1..Len(lines) : lines'[i].thread \in 1..Len(threads)
      BY <1>3 DEF IInv, Handles
    <3> QED
      BY <2>1, <3>1, <3>2, <3>3
  <2>3. \A p \in People : person'[p].at # "idle" => person'[p].thread \in 1..Len(threads')
    BY <1>1, <2>1 DEF IInv, Handles
  <2>4. \A e \in Deliveries :
          /\ flow'[e].thread \in 0..Len(threads')
          /\ flow'[e].at \in {"announcing"} \cup InReply => flow'[e].thread # 0
    BY <1>2, <2>1 DEF IInv, Handles
  <2>5. Len(recent') = Len(threads')
    BY <1>1, <1>6
  <2> QED
    BY <1>6, <2>2, <2>3, <2>4, <2>5 DEF Handles
<1>9. Sent'
  BY <1>1, <1>2, <1>3 DEF IInv, Sent, Line
<1>10. Remembered'
  <2>1. \A i \in 1..Len(lines') : lines'[i].who = "caller" =>
          lines'[i].text \in Deliveries /\ flow'[lines'[i].text].at # "unused"
    <3>1. \A i \in 1..Len(lines') : i \in 1..Len(lines) \/ i = Len(lines')
      BY <1>3
    <3>2. lines'[Len(lines')].text = d
      BY <1>3 DEF Line
    <3>3. \A i \in 1..Len(lines) : lines'[i].who = "caller" =>
            lines'[i].text \in Deliveries /\ flow'[lines'[i].text].at # "unused"
      BY <1>2, <1>3 DEF IInv, Remembered
    <3> QED
      BY <1>2, <3>1, <3>2, <3>3
  <2> QED
    BY <1>2, <1>4, <1>6, <2>1 DEF IInv, Remembered
<1> QED
  BY <1>7, <1>8, <1>9, <1>10 DEF IInv

(***************************************************************************)
(* The reply and the staff.                                                *)
(***************************************************************************)
\* A line that is not the customer's is stored: an answer, a whisper, a person's reply.
LEMMA OtherLine ==
  ASSUME IInv, NEW l \in Text, l.who # "caller", l.thread \in 1..Len(threads),
         l.who = "agent" => \A n \in 1..Pieces : <<"agent", l.text, n>> \in outbox,
         l.who = "human" => <<"human", l.text, 1>> \in outbox,
         lines' = Append(lines, l), typed' \in 0..MaxTyped,
         person' \in [People -> Hand],
         \A p \in People : person'[p] = person[p] \/ person'[p].at = "idle",
         flow' \in [Deliveries -> Case],
         \A e \in Deliveries :
           \/ flow'[e] = flow[e]
           \/ /\ flow[e].at # "unused" /\ flow'[e].at = "answered"
              /\ flow'[e].msg = flow[e].msg /\ flow'[e].thread = flow[e].thread
              /\ flow'[e].ids = flow[e].ids /\ flow'[e].sent = flow[e].sent,
         UNCHANGED <<threads, outbox, recent, restarts, faults>>
  PROVE  IInv'
<1>1. /\ lines' \in Seq(Text)
      /\ Len(lines) \in Nat /\ Len(lines') = Len(lines) + 1
      /\ \A i \in 1..Len(lines) : lines'[i] = lines[i]
      /\ lines'[Len(lines')] = l
  BY LineAppended
<1>2. \A i \in 1..Len(lines') : i \in 1..Len(lines) \/ i = Len(lines')
  BY <1>1
<1>3. Heard \subseteq Heard'
  <2>1. Grows
    BY <1>1 DEF Grows
  <2> QED
    BY <2>1, HeardStays
<1>4. Types'
  BY <1>1 DEF IInv, Types
<1>5. Handles'
  <2>1. \A i \in 1..Len(lines') : lines'[i].thread \in 1..Len(threads)
    BY <1>1, <1>2 DEF IInv, Handles
  <2>2. \A e \in Deliveries :
          /\ flow'[e].thread \in 0..Len(threads)
          /\ flow'[e].at \in {"announcing"} \cup InReply => flow'[e].thread # 0
    BY DEF IInv, Handles, InReply
  <2> QED
    BY <2>1, <2>2 DEF IInv, Handles
<1>6. Sent'
  <2>1. \A i \in 1..Len(lines') :
          /\ lines'[i].who = "agent" =>
               \A n \in 1..Pieces : <<"agent", lines'[i].text, n>> \in outbox
          /\ lines'[i].who = "human" => <<"human", lines'[i].text, 1>> \in outbox
    <3> SUFFICES ASSUME NEW i \in 1..Len(lines')
                 PROVE  /\ lines'[i].who = "agent" =>
                             \A n \in 1..Pieces : <<"agent", lines'[i].text, n>> \in outbox
                        /\ lines'[i].who = "human" =>
                             <<"human", lines'[i].text, 1>> \in outbox
      OBVIOUS
    <3>1. CASE i \in 1..Len(lines)
      BY <1>1, <3>1 DEF IInv, Sent
    <3>2. CASE i = Len(lines')
      BY <1>1, <3>2
    <3> QED
      BY <1>2, <3>1, <3>2
  <2>2. \A e \in Deliveries : flow'[e].sent = flow[e].sent
    OBVIOUS
  <2> QED
    BY <2>1, <2>2 DEF IInv, Sent
<1>7. Remembered'
  <2>1. \A i \in 1..Len(lines') : lines'[i].who = "caller" =>
          lines'[i].text \in Deliveries /\ flow'[lines'[i].text].at # "unused"
    <3> SUFFICES ASSUME NEW i \in 1..Len(lines'), lines'[i].who = "caller"
                 PROVE  lines'[i].text \in Deliveries /\ flow'[lines'[i].text].at # "unused"
      OBVIOUS
    <3>1. i \in 1..Len(lines) /\ lines'[i] = lines[i]
      BY <1>1, <1>2
    <3>2. lines[i].text \in Deliveries /\ flow[lines[i].text].at # "unused"
      BY <3>1 DEF IInv, Remembered
    <3>3. \A e \in Deliveries : flow[e].at # "unused" => flow'[e].at # "unused"
      OBVIOUS
    <3> QED
      BY <3>1, <3>2, <3>3
  <2>2. \A e \in Deliveries :
          /\ flow'[e].ids = flow[e].ids
          /\ flow'[e].at = "repeated" => flow[e].at = "repeated" /\ flow'[e].msg = flow[e].msg
    OBVIOUS
  <2> QED
    BY <1>3, <2>1, <2>2 DEF IInv, Remembered
<1> QED
  BY <1>4, <1>5, <1>6, <1>7 DEF IInv

LEMMA RespondToolIInv ==
  ASSUME IInv, NEW d \in Deliveries, RespondTool(d)
  PROVE  IInv'
<1>1. threads' \in Seq(Row) /\ Len(threads') = Len(threads)
  <2>1. CASE threads' = threads
    BY <2>1 DEF IInv, Types
  <2>2. CASE threads' # threads
    <3> DEFINE c == flow[d].thread
    <3>1. /\ c \in Threads
          /\ \/ threads' = [threads EXCEPT ![c].handling = "human"]
             \/ threads' = [threads EXCEPT ![c].status = "closed"]
      BY <2>2 DEF RespondTool, TransferCall, EndCall, IsOpen
    <3> HIDE DEF c
    <3>2. /\ [threads EXCEPT ![c].handling = "human"] \in Seq(Row)
          /\ Len([threads EXCEPT ![c].handling = "human"]) = Len(threads)
          /\ [threads EXCEPT ![c].status = "closed"] \in Seq(Row)
          /\ Len([threads EXCEPT ![c].status = "closed"]) = Len(threads)
      <4>1. "human" \in {"ai", "human"}
        OBVIOUS
      <4> QED
        BY <3>1, <4>1, RowTyped, Zenon
    <3> QED
      BY <3>1, <3>2
  <2> QED
    BY <2>1, <2>2
<1> QED
  BY <1>1, RowChanges DEF RespondTool

LEMMA SendsPieceIInv ==
  ASSUME IInv, NEW d \in Deliveries, SendsPiece(d)
  PROVE  IInv'
<1> USE DEF SendsPiece
<1>1. /\ flow' \in [Deliveries -> Case]
      /\ \A e \in Deliveries : /\ flow'[e].msg = flow[e].msg /\ flow'[e].at = flow[e].at
                               /\ flow'[e].thread = flow[e].thread
                               /\ flow'[e].ids = flow[e].ids
                               /\ e # d => flow'[e].sent = flow[e].sent
      /\ flow[d].sent \in Nat /\ flow'[d].sent = flow[d].sent + 1
  <2> DEFINE r == [flow[d] EXCEPT !.sent = flow[d].sent + 1]
  <2>1. flow[d] \in Case /\ flow[d].sent \in Nat
    BY DEF IInv, Types, Case
  <2>2. /\ r \in Case /\ r.msg = flow[d].msg /\ r.at = flow[d].at
        /\ r.thread = flow[d].thread /\ r.ids = flow[d].ids /\ r.sent = flow[d].sent + 1
    BY <2>1 DEF Case
  <2>3. flow' = [flow EXCEPT ![d] = r]
    OBVIOUS
  <2> HIDE DEF r
  <2> QED
    BY <2>1, <2>2, <2>3 DEF IInv, Types
<1>2. Heard \subseteq Heard'
  BY <1>1, HeardSame
<1>3. Types'
  BY <1>1 DEF IInv, Types
<1>4. Handles'
  BY <1>1 DEF IInv, Handles
<1>5. Sent'
  <2>1. \A e \in Deliveries : \A n \in 1..flow'[e].sent : <<"agent", e, n>> \in outbox'
    <3> SUFFICES ASSUME NEW e \in Deliveries, NEW n \in 1..flow'[e].sent
                 PROVE  <<"agent", e, n>> \in outbox'
      OBVIOUS
    <3>1. CASE e = d
      <4>1. n \in 1..flow[d].sent \/ n = flow[d].sent + 1
        BY <1>1, <3>1
      <4> QED
        BY <3>1, <4>1 DEF IInv, Sent
    <3>2. CASE e # d
      BY <1>1, <3>2 DEF IInv, Sent
    <3> QED
      BY <3>1, <3>2
  <2> QED
    BY <2>1 DEF IInv, Sent
<1>6. Remembered'
  BY <1>1, <1>2 DEF IInv, Remembered
<1> QED
  BY <1>3, <1>4, <1>5, <1>6 DEF IInv

LEMMA StoresAnswerIInv ==
  ASSUME IInv, NEW d \in Deliveries, StoresAnswer(d)
  PROVE  IInv'
<1> DEFINE l == Line(flow[d].thread, "agent", d)
<1>1. /\ flow[d] \in Case /\ flow[d].at = "sending" /\ flow[d].sent = Pieces
      /\ flow[d].thread \in 1..Len(threads) /\ Len(threads) \in Nat
  BY LenProperties DEF StoresAnswer, IInv, Types, Handles, InReply
<1>2. /\ l \in Text /\ l.who = "agent" /\ l.text = d /\ l.thread \in 1..Len(threads)
  BY <1>1 DEF Line, Text, Speakers, Deliveries, Case
<1>3. \A n \in 1..Pieces : <<"agent", d, n>> \in outbox
  BY <1>1 DEF IInv, Sent
<1>4. /\ flow' \in [Deliveries -> Case]
      /\ \A e \in Deliveries : e # d => flow'[e] = flow[e]
      /\ flow'[d].at = "answered" /\ flow'[d].msg = flow[d].msg
      /\ flow'[d].thread = flow[d].thread /\ flow'[d].ids = flow[d].ids
      /\ flow'[d].sent = flow[d].sent
  BY <1>1 DEF StoresAnswer, Goto, IInv, Types, Case, Places
<1>5. /\ lines' = Append(lines, l) /\ typed' \in 0..MaxTyped
      /\ person' = person /\ person' \in [People -> Hand]
      /\ UNCHANGED <<threads, outbox, recent, restarts, faults>>
  BY DEF StoresAnswer, IInv, Types
<1> HIDE DEF l
<1> QED
  BY <1>1, <1>2, <1>3, <1>4, <1>5, OtherLine

LEMMA RestartIInv ==
  ASSUME IInv, Restart
  PROVE  IInv'
<1> USE DEF Restart
<1>1. /\ flow' \in [Deliveries -> Case]
      /\ \A e \in Deliveries : /\ flow'[e].msg = flow[e].msg
                               /\ flow'[e].thread = flow[e].thread
                               /\ flow'[e].ids = flow[e].ids
                               /\ flow'[e].sent = flow[e].sent
                               /\ \/ flow'[e].at = flow[e].at
                                  \/ flow[e].at # "unused" /\ flow'[e].at = "lost"
  <2>1. ASSUME NEW e \in Deliveries
        PROVE  /\ flow'[e] \in Case
               /\ flow'[e].msg = flow[e].msg /\ flow'[e].thread = flow[e].thread
               /\ flow'[e].ids = flow[e].ids /\ flow'[e].sent = flow[e].sent
               /\ \/ flow'[e].at = flow[e].at
                  \/ flow[e].at # "unused" /\ flow'[e].at = "lost"
    <3>1. flow[e] \in Case
      BY DEF IInv, Types
    <3>2. CASE flow[e].at \in InRequest \cup InReply
      <4>1. flow'[e] = [flow[e] EXCEPT !.at = "lost"]
        BY <3>2
      <4> QED
        BY <3>1, <3>2, <4>1 DEF Case, Places, InRequest, InReply
    <3>3. CASE flow[e].at \notin InRequest \cup InReply
      BY <3>1, <3>3
    <3> QED
      BY <3>2, <3>3
  <2>2. flow' = [e \in Deliveries |-> flow'[e]]
    OBVIOUS
  <2> QED
    BY <2>1, <2>2
<1>2. Heard \subseteq Heard'
  BY <1>1, HeardSame DEF threadVars
<1>3. Types'
  BY <1>1, DeclaredChannelAssumption DEF IInv, Types, threadVars
<1>4. Handles'
  BY <1>1 DEF IInv, Handles, threadVars, InReply
<1>5. Sent'
  BY <1>1 DEF IInv, Sent, threadVars
<1>6. Remembered'
  <2>1. \A e \in Deliveries : flow[e].at # "unused" => flow'[e].at # "unused"
    BY <1>1
  <2> QED
    BY <1>1, <1>2, <2>1 DEF IInv, Remembered, threadVars
<1> QED
  BY <1>3, <1>4, <1>5, <1>6 DEF IInv

\* The steps of a person who is writing, while nothing is stored.
LEMMA PersonMoves ==
  ASSUME IInv, person' \in [People -> Hand], typed' \in 0..MaxTyped,
         outbox \subseteq outbox',
         \A p \in People : /\ person'[p].at # "idle" => person'[p].thread \in 1..Len(threads)
                           /\ person'[p].at = "delivered" =>
                                <<"human", person'[p].text, 1>> \in outbox',
         UNCHANGED <<threads, lines, channelVars>>
  PROVE  IInv'
<1>1. Heard' = Heard
  BY DEF Heard, channelVars
<1>2. Types'
  BY DEF IInv, Types, channelVars
<1>3. Handles'
  BY DEF IInv, Handles, channelVars
<1>4. Sent'
  BY DEF IInv, Sent, channelVars
<1>5. Remembered'
  BY <1>1 DEF IInv, Remembered, channelVars
<1> QED
  BY <1>2, <1>3, <1>4, <1>5 DEF IInv

LEMMA StaffIInv ==
  ASSUME IInv, Staff, UNCHANGED channelVars
  PROVE  IInv'
<1>0. /\ Len(threads) \in Nat /\ typed \in Nat /\ MaxTyped \in Nat /\ Push = TRUE
      /\ person \in [People -> Hand]
  BY LenProperties, ThreadAssumption, DeclaredChannelAssumption DEF IInv, Types
<1>1. ASSUME NEW c \in Threads, TakeOver(c) \/ Resume(c) PROVE IInv'
  <2>1. /\ [threads EXCEPT ![c].handling = "human"] \in Seq(Row)
        /\ Len([threads EXCEPT ![c].handling = "human"]) = Len(threads)
    <3>1. "human" \in {"ai", "human"}
      OBVIOUS
    <3> QED
      BY <1>1, <3>1, RowTyped, Zenon
  <2>2. /\ [threads EXCEPT ![c].handling = "ai"] \in Seq(Row)
        /\ Len([threads EXCEPT ![c].handling = "ai"]) = Len(threads)
    <3>1. "ai" \in {"ai", "human"}
      OBVIOUS
    <3> QED
      BY <1>1, <3>1, RowTyped, Zenon
  <2> QED
    BY <1>1, <2>1, <2>2, RowChanges DEF TakeOver, Resume
<1>2. ASSUME NEW c \in Threads, Whisper(c) PROVE IInv'
  <2> DEFINE l == Line(c, "whisper", typed')
  <2>1. typed' \in 0..MaxTyped /\ typed' \in Nat
    BY <1>0, <1>2 DEF Whisper
  <2>2. /\ l \in Text /\ l.who = "whisper" /\ l.thread \in 1..Len(threads)
    BY <1>0, <2>1 DEF Line, Text, Speakers, Threads
  <2>3. /\ lines' = Append(lines, l)
        /\ flow' = flow /\ person' = person /\ flow \in [Deliveries -> Case]
        /\ UNCHANGED <<threads, outbox, recent, restarts, faults>>
    BY <1>2 DEF Whisper, channelVars, IInv, Types
  <2> HIDE DEF l
  <2> QED
    BY <1>0, <2>1, <2>2, <2>3, OtherLine
<1>3. ASSUME NEW p \in People, NEW c \in Threads, ReplyChecks(p, c) PROVE IInv'
  <2>1. typed' \in 0..MaxTyped /\ typed' \in Nat /\ c \in 1..Len(threads)
    BY <1>0, <1>3 DEF ReplyChecks, Threads
  <2>2. [at |-> "replying", thread |-> c, text |-> typed'] \in Hand
    BY <1>0, <2>1 DEF Hand
  <2>3. /\ person' \in [People -> Hand]
        /\ person'[p].at = "replying" /\ person'[p].thread = c
        /\ \A q \in People : q # p => person'[q] = person[q]
    BY <1>0, <1>3, <2>2 DEF ReplyChecks
  <2> QED
    BY <1>3, <2>1, <2>3, PersonMoves DEF ReplyChecks, IInv, Handles, Sent
<1>4. ASSUME NEW p \in People, ReplyDelivered(p) PROVE IInv'
  <2>1. /\ person' \in [People -> Hand]
        /\ person'[p].at = "delivered" /\ person'[p].thread = person[p].thread
        /\ person'[p].text = person[p].text
        /\ \A q \in People : q # p => person'[q] = person[q]
    BY <1>0, <1>4 DEF ReplyDelivered, Hand
  <2>2. /\ <<"human", person[p].text, 1>> \in outbox' /\ outbox \subseteq outbox'
        /\ person[p].at # "idle"
    BY <1>4 DEF ReplyDelivered
  <2>3. typed' \in 0..MaxTyped /\ UNCHANGED <<threads, lines, channelVars>>
    BY <1>4 DEF ReplyDelivered, IInv, Types
  <2> QED
    BY <2>1, <2>2, <2>3, PersonMoves DEF IInv, Handles, Sent
<1>5. ASSUME NEW p \in People, ReplyRefused(p) PROVE IInv'
  <2>1. /\ person' \in [People -> Hand] /\ person'[p].at = "idle"
        /\ \A q \in People : q # p => person'[q] = person[q]
    BY <1>0, <1>5 DEF ReplyRefused, Hand, Resting
  <2>2. typed' \in 0..MaxTyped /\ UNCHANGED <<threads, lines, outbox, channelVars>>
    BY <1>5 DEF ReplyRefused, IInv, Types
  <2> QED
    BY <2>1, <2>2, PersonMoves DEF IInv, Handles, Sent
<1>6. ASSUME NEW p \in People, ReplyStores(p) PROVE IInv'
  <2> DEFINE l == Line(person[p].thread, "human", person[p].text)
  <2>1. person[p].at = "delivered" /\ person[p] \in Hand
    BY <1>0, <1>6 DEF ReplyStores
  <2>2. /\ l \in Text /\ l.who = "human" /\ l.thread \in 1..Len(threads)
        /\ <<"human", l.text, 1>> \in outbox
    BY <2>1 DEF Line, Text, Speakers, Hand, IInv, Handles, Sent
  <2>3. /\ person' \in [People -> Hand]
        /\ \A q \in People : person'[q] = person[q] \/ person'[q].at = "idle"
    BY <1>0, <1>6 DEF ReplyStores, Hand, Resting
  <2>4. /\ lines' = Append(lines, l) /\ typed' \in 0..MaxTyped
        /\ flow' = flow /\ flow \in [Deliveries -> Case]
        /\ UNCHANGED <<threads, outbox, recent, restarts, faults>>
    BY <1>6 DEF ReplyStores, channelVars, IInv, Types
  <2> HIDE DEF l
  <2> QED
    BY <2>2, <2>3, <2>4, OtherLine
<1> QED
  BY <1>1, <1>2, <1>3, <1>4, <1>5, <1>6 DEF Staff

LEMMA StepIInv == IInv /\ [Next]_vars => IInv'
<1> SUFFICES ASSUME IInv, [Next]_vars PROVE IInv'
  OBVIOUS
<1>0. faults \in 0..MaxFaults /\ MaxFaults \in Nat
  BY DeclaredChannelAssumption DEF IInv, Types
<1>1. CASE UNCHANGED vars
  BY <1>1 DEF IInv, Types, Handles, Sent, Remembered, Heard, vars, threadVars, channelVars
<1>2. ASSUME NEW d \in Deliveries, NEW m \in Messages, Deliver(d, m) PROVE IInv'
  BY <1>2, DeliverIInv
<1>3. ASSUME NEW d \in Deliveries, Request(d) PROVE IInv'
  <2>1. CASE FindsThread(d)
    BY <2>1, FindsThreadIInv
  <2>2. CASE Passes(d)
    BY <2>2, PassesIInv
  <2>3. CASE Repeated(d)
    <3>1. flow[d].msg \in Heard
      BY <2>3 DEF Repeated, SeenBefore, IInv, Remembered
    <3>2. "repeated" \in Places \ {"unused"} /\ "repeated" \notin {"announcing"} \cup InReply
      BY DEF Places, InReply
    <3> QED
      BY <1>0, <2>3, <3>1, <3>2, Moves DEF Repeated, Routed
  <2>4. CASE StoresLine(d)
    BY <2>4, StoresLineIInv
  <2>5. CASE Acknowledges(d)
    <3> DEFINE where == IF flow[d].handling = "human" THEN "withheld" ELSE "scheduled"
    <3>1. where \in Places \ {"unused"} /\ where # "repeated"
      BY DEF Places
    <3>2. flow[d].at = "announcing" /\ flow[d].thread # 0
      BY <2>5 DEF Acknowledges, IInv, Handles
    <3>3. /\ flow' = Goto(d, where) /\ faults' = faults
          /\ UNCHANGED <<threadVars, recent, restarts>>
      BY <2>5 DEF Acknowledges
    <3> HIDE DEF where
    <3> QED
      BY <1>0, <3>1, <3>2, <3>3, Moves
  <2> QED
    BY <1>3, <2>1, <2>2, <2>3, <2>4, <2>5 DEF Request
<1>4. ASSUME NEW d \in Deliveries, AnnounceFails(d) \/ RespondFails(d) PROVE IInv'
  <2>1. {"refused", "failed"} \subseteq Places \ ({"unused", "announcing", "repeated"} \cup InReply)
    BY DEF Places, InReply
  <2>2. faults' \in 0..MaxFaults
    BY <1>0, <1>4 DEF AnnounceFails, RespondFails
  <2> QED
    BY <1>4, <2>1, <2>2, Moves DEF AnnounceFails, RespondFails
<1>5. ASSUME NEW d \in Deliveries, SendRefused(d) PROVE IInv'
  <2>1. "undelivered" \in Places \ ({"unused", "announcing", "repeated"} \cup InReply)
    BY DEF Places, InReply
  <2> QED
    BY <1>0, <1>5, <2>1, Moves DEF SendRefused
<1>6. ASSUME NEW d \in Deliveries, Respond(d) PROVE IInv'
  <2>0. flow[d].at \in InReply => flow[d].thread # 0
    BY DEF IInv, Handles
  <2>1. CASE RespondWithheld(d)
    <3>1. "withheld" \in Places \ ({"unused", "announcing", "repeated"} \cup InReply)
      BY DEF Places, InReply
    <3> QED
      BY <1>0, <2>1, <3>1, Moves DEF RespondWithheld
  <2>2. CASE RespondBegins(d)
    <3>1. "generating" \in Places \ {"unused", "repeated"}
      BY DEF Places
    <3> QED
      BY <1>0, <2>0, <2>2, <3>1, Moves DEF RespondBegins, InReply
  <2>3. CASE RespondChecks(d)
    <3> DEFINE where == IF Taken(flow[d].thread) THEN "withheld" ELSE "sending"
    <3>1. where \in Places \ {"unused"} /\ where # "repeated"
      BY DEF Places
    <3>2. flow[d].at = "generating" /\ flow[d].thread # 0
      BY <2>0, <2>3 DEF RespondChecks, InReply
    <3>3. /\ flow' = Goto(d, where) /\ faults' = faults
          /\ UNCHANGED <<threadVars, recent, restarts>>
      BY <2>3 DEF RespondChecks
    <3> HIDE DEF where
    <3> QED
      BY <1>0, <3>1, <3>2, <3>3, Moves
  <2>4. CASE SendsPiece(d)
    BY <2>4, SendsPieceIInv
  <2>5. CASE StoresAnswer(d)
    BY <2>5, StoresAnswerIInv
  <2> QED
    BY <1>6, <2>1, <2>2, <2>3, <2>4, <2>5 DEF Respond
<1>7. ASSUME NEW d \in Deliveries, RespondTool(d) PROVE IInv'
  BY <1>7, RespondToolIInv
<1>8. CASE Restart
  BY <1>8, RestartIInv
<1>9. CASE Staff /\ UNCHANGED channelVars
  BY <1>9, StaffIInv
<1> QED
  BY <1>1, <1>2, <1>3, <1>4, <1>5, <1>6, <1>7, <1>8, <1>9 DEF Next

LEMMA Invariant == Spec => []IInv
  BY InitIInv, StepIInv, PTL DEF Spec

\* The shape of the state: a line belongs to a conversation that exists, and no more ids
\* are remembered than RECENT_IDS_KEPT.
THEOREM TypeCorrect == Spec => []TypeOK
<1>1. IInv => TypeOK
  <2> SUFFICES ASSUME IInv PROVE TypeOK
    OBVIOUS
  <2>1. \A c \in Threads : threads[c] \in Row
    BY ElementOfSeq DEF IInv, Types, Threads
  <2>2. \A i \in 1..Len(lines) : lines[i] \in Text
    BY ElementOfSeq DEF IInv, Types
  <2>3. ThreadTypeOK
    BY <2>1, <2>2 DEF ThreadTypeOK, IInv, Types, Handles, Row, Text, Hand, Threads
  <2> QED
    BY <2>3 DEF TypeOK, IInv, Types, Handles, Threads
<1> QED
  BY Invariant, <1>1, PTL

\* Nothing is in the transcript as an answer that the platform did not accept, for any
\* number of deliveries, pieces, people and restarts.
THEOREM Delivered == Spec => []DeliveredBeforeStored
<1>1. IInv => DeliveredBeforeStored
  BY DEF IInv, Sent, DeliveredBeforeStored, AgentLines, HumanLines, Stored
<1> QED
  BY Invariant, <1>1, PTL

\* A delivery dropped as repeated has its message in the transcript, whatever overlaps,
\* fails or restarts in between.
THEOREM NothingIsLostToTheGuard == Spec => []RepeatedIsStored
<1>1. IInv => RepeatedIsStored
  <2> SUFFICES ASSUME IInv, NEW d \in Deliveries, flow[d].at = "repeated"
               PROVE  \E l \in CallerLines : flow[l.text].msg = flow[d].msg
    BY DEF RepeatedIsStored
  <2>1. flow[d].msg \in Heard
    BY DEF IInv, Remembered
  <2>2. PICK i \in 1..Len(lines) : lines[i].who = "caller"
                                   /\ flow[lines[i].text].msg = flow[d].msg
    BY <2>1 DEF Heard
  <2> QED
    BY <2>2 DEF CallerLines, Stored
<1> QED
  BY Invariant, <1>1, PTL
=============================================================================
