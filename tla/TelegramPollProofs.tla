------------------------- MODULE TelegramPollProofs -------------------------
(***************************************************************************)
(* What holds of the Telegram loop for any number of updates, crashes and  *)
(* failures: no update is handled twice and a transcript is in the order   *)
(* its lines were written. The invariant says that the batch in memory is  *)
(* a run of consecutive updates that ends at the offset, so that all that  *)
(* is stored or sent lies before what is still to be handled.              *)
(***************************************************************************)
EXTENDS TelegramPoll, SequenceTheorems, TLAPS

Places  == {"idle", "fetched", "batch", "update", "routed", "stored", "sending", "sent"}
Owners  == {"none", "ai", "human", "taken"}
Entries == Nat \X {"caller", "agent"}

Types ==
  /\ updates \in Seq(Chats) /\ fate \in Seq(Fates) /\ Len(fate) = Len(updates)
  /\ offset \in 1..(Len(updates) + 1)
  /\ batch \in Seq(Nat) /\ now \in Nat /\ at \in Places
  /\ conv \in [Chats -> Owners] /\ seen \in Owners
  /\ lines \in Seq(Entries) /\ sent \in Seq(Nat)

\* The first update the pass has not begun.
Todo == IF at = "fetched" THEN offset ELSE offset - Len(batch)

\* The batch is the updates from Todo on, and ends before the offset once it is confirmed.
InBatch ==
  /\ at = "idle" => batch = <<>>
  /\ at = "fetched" => Len(batch) > 0 /\ offset + Len(batch) <= Len(updates) + 1
  /\ Todo >= 1
  /\ \A i \in 1..Len(batch) : batch[i] = Todo + i - 1
  /\ InUpdate => now >= 1 /\ now + 1 = Todo /\ fate[now] = "waiting"
  /\ \A u \in Todo..Len(updates) : fate[u] = "waiting"

\* The transcript is increasing, and what is in it has been begun.
Stores ==
  /\ InOrder
  /\ \A i \in Stored("caller") :
       lines[i][1] < IF at \in {"update", "routed"} THEN now ELSE Todo

\* So are the answers.
Sending ==
  /\ \A i, j \in 1..Len(sent) : i < j => sent[i] < sent[j]
  /\ \A i \in 1..Len(sent) :
       sent[i] < IF at \in {"update", "routed", "stored", "sending"} THEN now ELSE Todo

IInv == Types /\ InBatch /\ Stores /\ Sending

LEMMA InitIInv == Init => IInv
<1> SUFFICES ASSUME Init PROVE IInv
  OBVIOUS
<1> USE DEF Init
<1>1. Types
  BY EmptySeq DEF Types, Places, Owners
<1>2. InBatch
  BY EmptySeq DEF InBatch, Todo, InUpdate
<1>3. Stores
  BY EmptySeq DEF Stores, InOrder, Stored
<1>4. Sending
  BY EmptySeq DEF Sending
<1> QED
  BY <1>1, <1>2, <1>3, <1>4 DEF IInv

\* The numbers the invariant speaks of.
LEMMA Numbers ==
  ASSUME IInv
  PROVE  /\ Len(updates) \in Nat /\ Len(fate) = Len(updates) /\ Len(batch) \in Nat
         /\ Len(lines) \in Nat /\ Len(sent) \in Nat /\ offset \in Nat /\ now \in Nat
         /\ Todo \in Nat /\ Todo <= Len(updates) + 1 /\ Todo >= 1
         /\ at # "fetched" => Todo <= offset
<1>1. /\ Len(updates) \in Nat /\ Len(batch) \in Nat /\ Len(lines) \in Nat /\ Len(sent) \in Nat
      /\ Len(fate) = Len(updates)
  BY LenProperties DEF IInv, Types
<1> QED
  BY <1>1 DEF IInv, Types, InBatch, Todo

\* Whatever is stored or sent lies before the updates that have not been begun.
LEMMA AllBegun ==
  ASSUME IInv
  PROVE  /\ \A i \in Stored("caller") : lines[i][1] < Todo
         /\ \A i \in 1..Len(sent) : sent[i] < Todo
<1>0. at \in {"update", "routed", "stored", "sending"} => now + 1 = Todo
  BY DEF IInv, InBatch, InUpdate
<1>1. ASSUME NEW i \in Stored("caller") PROVE lines[i][1] < Todo
  <2>1. lines[i] \in Entries
    BY ElementOfSeq DEF Stored, IInv, Types
  <2>2. lines[i][1] \in Nat
    BY <2>1 DEF Entries
  <2>3. lines[i][1] < IF at \in {"update", "routed"} THEN now ELSE Todo
    BY DEF IInv, Stores
  <2> QED
    BY <1>0, <2>2, <2>3, Numbers
<1>2. ASSUME NEW i \in 1..Len(sent) PROVE sent[i] < Todo
  <2>1. sent[i] \in Nat
    BY ElementOfSeq DEF IInv, Types
  <2>2. sent[i] < IF at \in {"update", "routed", "stored", "sending"} THEN now ELSE Todo
    BY DEF IInv, Sending
  <2> QED
    BY <1>0, <2>1, <2>2, Numbers
<1> QED
  BY <1>1, <1>2

\* A customer writes.
LEMMA WriteIInv ==
  ASSUME IInv, NEW c \in Chats, Write(c)
  PROVE  IInv'
<1> USE DEF Write
<1>1. /\ updates' \in Seq(Chats) /\ Len(updates') = Len(updates) + 1
      /\ fate' \in Seq(Fates) /\ Len(fate') = Len(updates')
      /\ \A u \in 1..Len(fate) : fate'[u] = fate[u]
      /\ fate'[Len(updates')] = "waiting"
  <2>1. "waiting" \in Fates /\ Len(fate) = Len(updates)
    BY DEF Fates, IInv, Types
  <2> QED
    BY <2>1, AppendProperties DEF IInv, Types
<1>2. Todo' = Todo
  BY DEF Todo
<1>3. Types'
  BY <1>1, Numbers DEF IInv, Types
<1>4. InBatch'
  <2>1. \A u \in Todo..Len(updates') : fate'[u] = "waiting"
    <3> SUFFICES ASSUME NEW u \in Todo..Len(updates') PROVE fate'[u] = "waiting"
      OBVIOUS
    <3>1. u \in Todo..Len(updates) \/ u = Len(updates')
      BY <1>1, Numbers
    <3>2. u \in Todo..Len(updates) => u \in 1..Len(fate)
      BY Numbers
    <3> QED
      BY <1>1, <3>1, <3>2 DEF IInv, InBatch
  <2>2. InUpdate => fate'[now] = fate[now]
    BY <1>1, Numbers DEF IInv, InBatch
  <2> QED
    BY <1>1, <1>2, <2>1, <2>2, Numbers DEF IInv, InBatch, InUpdate
<1>5. Stores'
  BY <1>2 DEF IInv, Stores, InOrder, Stored
<1>6. Sending'
  BY <1>2 DEF IInv, Sending
<1> QED
  BY <1>3, <1>4, <1>5, <1>6 DEF IInv

\* The steps that change neither the loop nor what it left behind.
LEMMA OutsideIInv ==
  ASSUME IInv, UNCHANGED <<updates, loop, outcome>>, conv' \in [Chats -> Owners]
  PROVE  IInv'
<1>1. Types'
  BY DEF IInv, Types, loop, outcome
<1>2. InBatch'
  BY DEF IInv, InBatch, Todo, InUpdate, loop, outcome
<1>3. Stores'
  BY DEF IInv, Stores, InOrder, Stored, Todo, loop, outcome
<1>4. Sending'
  BY DEF IInv, Sending, Todo, loop, outcome
<1> QED
  BY <1>1, <1>2, <1>3, <1>4 DEF IInv

LEMMA GetUpdatesIInv ==
  ASSUME IInv, GetUpdates
  PROVE  IInv'
<1> USE DEF GetUpdates
<1>1. /\ batch' \in Seq(Nat) /\ Len(batch') = Len(updates) + 1 - offset
      /\ \A i \in 1..Len(batch') : batch'[i] = offset + i - 1
  <2> DEFINE n == Len(updates) + 1 - offset
  <2>1. n \in Nat /\ \A i \in 1..n : offset + i - 1 \in Nat
    BY Numbers
  <2>2. [i \in 1..n |-> offset + i - 1] \in Seq(Nat)
    BY <2>1, IsASeq
  <2> QED
    BY <2>1, <2>2 DEF From
<1>2. Todo = offset /\ Todo' = offset
  <2>1. Len(batch) = 0
    BY EmptySeq DEF IInv, InBatch
  <2> QED
    BY <2>1, Numbers DEF Todo
<1>3. Types'
  BY <1>1 DEF IInv, Types, Places
<1>4. InBatch'
  BY <1>1, <1>2, Numbers DEF IInv, InBatch, InUpdate
<1>5. Stores'
  BY <1>2 DEF IInv, Stores, InOrder, Stored
<1>6. Sending'
  BY <1>2 DEF IInv, Sending
<1> QED
  BY <1>3, <1>4, <1>5, <1>6 DEF IInv

LEMMA ConfirmsIInv ==
  ASSUME IInv, Confirms
  PROVE  IInv'
<1> USE DEF Confirms
<1>1. /\ Len(batch) > 0 /\ batch[Len(batch)] = offset + Len(batch) - 1
      /\ offset + Len(batch) <= Len(updates) + 1 /\ Todo = offset
  BY Numbers DEF IInv, InBatch, Todo
<1>2. offset' = offset + Len(batch) /\ Todo' = Todo
  BY <1>1, Numbers DEF Todo
<1>3. Types'
  BY <1>1, <1>2, Numbers DEF IInv, Types, Places
<1>4. InBatch'
  BY <1>2 DEF IInv, InBatch, InUpdate
<1>5. Stores'
  BY <1>2 DEF IInv, Stores, InOrder, Stored
<1>6. Sending'
  BY <1>2 DEF IInv, Sending
<1> QED
  BY <1>3, <1>4, <1>5, <1>6 DEF IInv

LEMMA NextUpdateIInv ==
  ASSUME IInv, NextUpdate
  PROVE  IInv'
<1> USE DEF NextUpdate
<1>1. CASE batch = <<>>
  <2>1. Todo' = Todo
    BY <1>1 DEF Todo
  <2>2. Types'
    BY <1>1 DEF IInv, Types, Places
  <2>3. InBatch'
    BY <1>1, <2>1 DEF IInv, InBatch, InUpdate
  <2>4. Stores'
    BY <1>1, <2>1 DEF IInv, Stores, InOrder, Stored
  <2>5. Sending'
    BY <1>1, <2>1 DEF IInv, Sending
  <2> QED
    BY <2>2, <2>3, <2>4, <2>5 DEF IInv
<1>2. CASE batch # <<>>
  <2>1. /\ Len(batch) > 0 /\ Len(batch) \in Nat
        /\ Tail(batch) \in Seq(Nat) /\ Len(Tail(batch)) = Len(batch) - 1
        /\ \A i \in 1..Len(Tail(batch)) : Tail(batch)[i] = batch[i + 1]
        /\ Head(batch) = batch[1]
    <3>1. batch \in Seq(Nat)
      BY DEF IInv, Types
    <3> QED
      BY <1>2, <3>1, HeadTailProperties, EmptySeq, LenProperties
  <2>2. Todo = offset - Len(batch) /\ now' = Todo /\ Todo' = Todo + 1
    BY <1>2, <2>1, Numbers DEF IInv, InBatch, Todo
  <2>3. Todo <= Len(updates) /\ fate[Todo] = "waiting"
    BY <2>1, <2>2, Numbers DEF IInv, InBatch, Types
  <2>4. Types'
    BY <1>2, <2>1, <2>2, Numbers DEF IInv, Types, Places
  <2>5. InBatch'
    <3>1. \A i \in 1..Len(batch') : batch'[i] = Todo' + i - 1
      <4> SUFFICES ASSUME NEW i \in 1..Len(batch') PROVE batch'[i] = Todo' + i - 1
        OBVIOUS
      <4>1. batch' = Tail(batch) /\ i + 1 \in 1..Len(batch) /\ i \in Nat /\ Todo \in Nat
        BY <1>2, <2>1, Numbers
      <4>2. batch[i + 1] = Todo + (i + 1) - 1
        BY <4>1 DEF IInv, InBatch
      <4> QED
        BY <2>1, <2>2, <4>1, <4>2
    <3>2. \A u \in Todo'..Len(updates) : fate[u] = "waiting"
      BY <2>2, Numbers DEF IInv, InBatch
    <3> QED
      BY <1>2, <2>2, <2>3, <3>1, <3>2, Numbers DEF InBatch, InUpdate
  <2>6. Stores'
    BY <1>2, <2>2 DEF IInv, Stores, InOrder, Stored
  <2>7. Sending'
    BY <1>2, <2>2 DEF IInv, Sending
  <2> QED
    BY <2>4, <2>5, <2>6, <2>7 DEF IInv
<1> QED
  BY <1>1, <1>2

\* An update ends without a line: it is blocked, withheld, silent or failed.
LEMMA UpdateEnds ==
  ASSUME IInv, InUpdate, NEW how \in Fates, Ended(now, how), at' = "batch",
         UNCHANGED <<updates, offset, batch, now, conv, seen, lines, sent>>
  PROVE  IInv'
<1>1. Todo' = Todo /\ now + 1 = Todo /\ now \in 1..Len(fate)
  BY Numbers DEF Todo, InUpdate, IInv, InBatch
<1>2. /\ fate' \in Seq(Fates) /\ Len(fate') = Len(fate)
      /\ \A u \in 1..Len(fate) : u # now => fate'[u] = fate[u]
  BY <1>1, ExceptSeq DEF Ended, IInv, Types
<1>3. Types'
  BY <1>2 DEF IInv, Types, Places
<1>4. InBatch'
  <2>1. \A u \in Todo..Len(updates) : fate'[u] = "waiting"
    <3> SUFFICES ASSUME NEW u \in Todo..Len(updates) PROVE fate'[u] = "waiting"
      OBVIOUS
    <3>1. u \in 1..Len(fate) /\ u # now
      BY <1>1, Numbers
    <3> QED
      BY <1>2, <3>1 DEF IInv, InBatch
  <2> QED
    BY <1>1, <2>1 DEF IInv, InBatch, InUpdate
<1>5. Stores'
  BY <1>1, AllBegun DEF IInv, Stores, InOrder, Stored
<1>6. Sending'
  BY <1>1, AllBegun DEF IInv, Sending
<1> QED
  BY <1>3, <1>4, <1>5, <1>6 DEF IInv

\* A step inside an update that changes nothing the invariant counts.
LEMMA UpdateGoesOn ==
  ASSUME IInv, InUpdate, InUpdate',
         at \in {"update", "routed"} <=> at' \in {"update", "routed"},
         at \in {"update", "routed", "stored", "sending"},
         at' \in {"update", "routed", "stored", "sending"},
         conv' \in [Chats -> Owners], seen' \in Owners,
         UNCHANGED <<updates, offset, batch, now, lines, sent, fate>>
  PROVE  IInv'
<1>1. Todo' = Todo
  BY DEF Todo, InUpdate
<1>2. Types'
  BY DEF IInv, Types, Places, InUpdate
<1>3. InBatch'
  BY <1>1 DEF IInv, InBatch, InUpdate
<1>4. Stores'
  BY <1>1 DEF IInv, Stores, InOrder, Stored
<1>5. Sending'
  BY <1>1 DEF IInv, Sending, InUpdate
<1> QED
  BY <1>2, <1>3, <1>4, <1>5 DEF IInv

\* One more line: what a customer wrote, which is after all that is stored.
LEMMA StoresLineIInv ==
  ASSUME IInv, StoresLine
  PROVE  IInv'
<1> USE DEF StoresLine
<1>1. Todo' = Todo /\ now + 1 = Todo /\ now \in Nat /\ Todo \in Nat
  BY Numbers DEF Todo, InUpdate, IInv, InBatch
<1>2. /\ lines' \in Seq(Entries) /\ Len(lines') = Len(lines) + 1 /\ Len(lines) \in Nat
      /\ \A i \in 1..Len(lines) : lines'[i] = lines[i]
      /\ lines'[Len(lines')] = <<now, "caller">>
  <2>1. <<now, "caller">> \in Entries /\ lines \in Seq(Entries)
    BY <1>1 DEF Entries, IInv, Types
  <2> QED
    BY <2>1, AppendProperties, LenProperties
<1>3. /\ \A i \in Stored("caller") : lines[i][1] < now
      /\ \A i \in Stored("caller")' : i \in Stored("caller") \/ i = Len(lines')
  BY <1>2 DEF IInv, Stores, Stored
<1>4. Types'
  BY <1>2 DEF IInv, Types, Places
<1>5. InBatch'
  BY <1>1 DEF IInv, InBatch, InUpdate
<1>6. Stores'
  <2>1. InOrder'
    <3> SUFFICES ASSUME NEW i \in Stored("caller")', NEW j \in Stored("caller")', i < j
                 PROVE  lines'[i][1] < lines'[j][1]
      BY DEF InOrder
    <3>1. i \in Stored("caller") /\ i \in 1..Len(lines) /\ lines'[i] = lines[i]
      BY <1>2, <1>3 DEF Stored
    <3>2. CASE j \in Stored("caller")
      BY <1>2, <3>1, <3>2 DEF IInv, Stores, InOrder, Stored
    <3>3. CASE j = Len(lines')
      BY <1>2, <1>3, <3>1, <3>3
    <3> QED
      BY <1>3, <3>2, <3>3
  <2>2. \A i \in Stored("caller")' : lines'[i][1] < Todo
    <3> SUFFICES ASSUME NEW i \in Stored("caller")' PROVE lines'[i][1] < Todo
      OBVIOUS
    <3>1. CASE i \in Stored("caller")
      <4>1. i \in 1..Len(lines) /\ lines[i] \in Entries
        BY <3>1, ElementOfSeq DEF Stored, IInv, Types
      <4>2. lines[i][1] < now /\ lines[i][1] \in Nat
        BY <1>3, <3>1, <4>1 DEF Entries
      <4> QED
        BY <1>1, <1>2, <4>1, <4>2
    <3>2. CASE i = Len(lines')
      BY <1>1, <1>2, <3>2
    <3> QED
      BY <1>3, <3>1, <3>2
  <2> QED
    BY <1>1, <2>1, <2>2 DEF Stores
<1>7. Sending'
  BY <1>1 DEF IInv, Sending
<1> QED
  BY <1>4, <1>5, <1>6, <1>7 DEF IInv

\* An answer is sent, which is after all that were.
LEMMA SendsIInv ==
  ASSUME IInv, Sends
  PROVE  IInv'
<1> USE DEF Sends
<1>1. Todo' = Todo /\ now + 1 = Todo /\ now \in Nat /\ Todo \in Nat
  BY Numbers DEF Todo, InUpdate, IInv, InBatch
<1>2. /\ sent' \in Seq(Nat) /\ Len(sent') = Len(sent) + 1 /\ Len(sent) \in Nat
      /\ \A i \in 1..Len(sent) : sent'[i] = sent[i] /\ sent[i] \in Nat
      /\ sent'[Len(sent')] = now
  <2>1. sent \in Seq(Nat)
    BY DEF IInv, Types
  <2> QED
    BY <1>1, <2>1, AppendProperties, LenProperties, ElementOfSeq
<1>3. /\ \A i \in 1..Len(sent) : sent[i] < now
      /\ \A i \in 1..Len(sent') : i \in 1..Len(sent) \/ i = Len(sent')
  BY <1>2 DEF IInv, Sending
<1>4. Types'
  BY <1>2 DEF IInv, Types, Places
<1>5. InBatch'
  BY <1>1 DEF IInv, InBatch, InUpdate
<1>6. Stores'
  BY <1>1 DEF IInv, Stores, InOrder, Stored
<1>7. Sending'
  <2>1. ASSUME NEW i \in 1..Len(sent'), NEW j \in 1..Len(sent'), i < j
        PROVE  sent'[i] < sent'[j]
    <3>1. i \in 1..Len(sent)
      BY <1>2, <2>1
    <3>2. CASE j \in 1..Len(sent)
      BY <1>2, <2>1, <3>1, <3>2 DEF IInv, Sending
    <3>3. CASE j = Len(sent')
      BY <1>2, <1>3, <3>1, <3>3
    <3> QED
      BY <1>3, <3>2, <3>3
  <2>2. \A i \in 1..Len(sent') : sent'[i] < Todo
    BY <1>1, <1>2, <1>3
  <2> QED
    BY <1>1, <2>1, <2>2 DEF Sending
<1> QED
  BY <1>4, <1>5, <1>6, <1>7 DEF IInv

\* An answer is stored: no line of a customer.
LEMMA StoresAnswerIInv ==
  ASSUME IInv, StoresAnswer
  PROVE  IInv'
<1> DEFINE l == <<now, "agent">>
<1>1. /\ lines' \in Seq(Entries) /\ Len(lines') = Len(lines) + 1 /\ Len(lines) \in Nat
      /\ \A i \in 1..Len(lines) : lines'[i] = lines[i]
      /\ lines'[Len(lines')][2] = "agent"
  <2>1. l \in Entries /\ lines \in Seq(Entries) /\ l[2] = "agent"
    BY Numbers DEF Entries, IInv, Types
  <2>2. lines' = Append(lines, l)
    BY DEF StoresAnswer
  <2> HIDE DEF l
  <2> QED
    BY <2>1, <2>2, AppendProperties, LenProperties
<1>2. Todo' = Todo /\ now + 1 = Todo /\ now \in 1..Len(fate)
  BY Numbers DEF StoresAnswer, Todo, InUpdate, IInv, InBatch
<1>3. /\ fate' \in Seq(Fates) /\ Len(fate') = Len(fate)
      /\ \A u \in 1..Len(fate) : u # now => fate'[u] = fate[u]
  <2>1. "answered" \in Fates
    BY DEF Fates
  <2> QED
    BY <1>2, <2>1, ExceptSeq DEF StoresAnswer, Ended, IInv, Types
<1>4. Stored("caller")' = Stored("caller")
      /\ \A i \in Stored("caller") : lines'[i] = lines[i]
  BY <1>1 DEF Stored
<1>5. Types'
  BY <1>1, <1>3 DEF StoresAnswer, IInv, Types, Places
<1>6. InBatch'
  <2>1. \A u \in Todo..Len(updates) : fate'[u] = "waiting"
    <3> SUFFICES ASSUME NEW u \in Todo..Len(updates) PROVE fate'[u] = "waiting"
      OBVIOUS
    <3>1. u \in 1..Len(fate) /\ u # now
      BY <1>2, Numbers
    <3> QED
      BY <1>3, <3>1 DEF IInv, InBatch
  <2> QED
    BY <1>2, <2>1 DEF StoresAnswer, IInv, InBatch, InUpdate
<1>7. Stores'
  BY <1>2, <1>4 DEF StoresAnswer, IInv, Stores, InOrder
<1>8. Sending'
  BY <1>2 DEF StoresAnswer, IInv, Sending
<1> QED
  BY <1>5, <1>6, <1>7, <1>8 DEF IInv

\* The batch is forgotten: what was confirmed and waits is given up.
LEMMA StopsIInv ==
  ASSUME IInv, NEW how \in Fates, fate' = Abandoned(how), Stops,
         UNCHANGED <<chat, offset, lines, sent>>
  PROVE  IInv'
<1>1. /\ fate' \in Seq(Fates) /\ Len(fate') = Len(updates)
      /\ \A u \in offset..Len(updates) : fate'[u] = fate[u]
  <2>1. \A u \in 1..Len(updates) :
          (IF fate[u] = "waiting" /\ u < offset THEN how ELSE fate[u]) \in Fates
    BY Numbers, ElementOfSeq DEF IInv, Types
  <2>2. Abandoned(how) \in Seq(Fates)
    BY <2>1, Numbers, IsASeq DEF Abandoned
  <2>3. /\ DOMAIN Abandoned(how) = 1..Len(updates)
        /\ \A u \in 1..Len(updates) : u >= offset => Abandoned(how)[u] = fate[u]
    BY Numbers DEF Abandoned
  <2>4. DOMAIN Abandoned(how) = 1..Len(Abandoned(how)) /\ Len(Abandoned(how)) \in Nat
    BY <2>2, LenProperties
  <2>5. Len(Abandoned(how)) = Len(updates)
    BY <2>3, <2>4, Numbers
  <2>6. \A u \in offset..Len(updates) : u \in 1..Len(updates) /\ u >= offset
    BY Numbers DEF IInv, Types
  <2> QED
    BY <2>2, <2>3, <2>5, <2>6
<1>2. Todo' = offset /\ Todo <= offset
  BY EmptySeq, Numbers DEF Stops, Todo
<1>3. Types'
  BY <1>1, EmptySeq, Numbers DEF Stops, chat, IInv, Types, Places, Owners
<1>4. InBatch'
  <2>1. \A u \in offset..Len(updates) : fate'[u] = "waiting"
    BY <1>1, <1>2, Numbers DEF IInv, InBatch
  <2> QED
    BY <1>2, <2>1, EmptySeq, Numbers DEF Stops, chat, InBatch, InUpdate
<1>5. Stores'
  <2>1. ASSUME NEW i \in Stored("caller") PROVE lines[i][1] < offset
    <3>1. lines[i] \in Entries /\ lines[i][1] < Todo
      BY ElementOfSeq, AllBegun DEF Stored, IInv, Types
    <3>2. lines[i][1] \in Nat
      BY <3>1 DEF Entries
    <3> QED
      BY <1>2, <3>1, <3>2, Numbers
  <2> QED
    BY <1>2, <2>1 DEF Stops, IInv, Stores, InOrder, Stored
<1>6. Sending'
  <2>1. ASSUME NEW i \in 1..Len(sent) PROVE sent[i] < offset
    <3>1. sent[i] \in Nat /\ sent[i] < Todo
      BY ElementOfSeq, AllBegun DEF IInv, Types
    <3> QED
      BY <1>2, <3>1, Numbers
  <2> QED
    BY <1>2, <2>1 DEF Stops, IInv, Sending
<1> QED
  BY <1>3, <1>4, <1>5, <1>6 DEF IInv

LEMMA StepIInv == IInv /\ [Next]_vars => IInv'
<1> SUFFICES ASSUME IInv, [Next]_vars PROVE IInv'
  OBVIOUS
<1>0. /\ conv \in [Chats -> Owners] /\ seen \in Owners
      /\ {"blocked", "withheld", "silent", "failed", "lost", "dropped"} \subseteq Fates
  BY DEF IInv, Types, Fates
<1>1. CASE UNCHANGED vars
  BY <1>0, <1>1, OutsideIInv DEF vars, chat
<1>2. ASSUME NEW c \in Chats, Write(c) PROVE IInv'
  BY <1>2, WriteIInv
<1>3. ASSUME NEW c \in Chats, TakeOver(c) \/ Resume(c) PROVE IInv'
  <2>1. conv' \in [Chats -> Owners]
    BY <1>0, <1>3 DEF TakeOver, Resume, Owners
  <2> QED
    BY <1>3, <2>1, OutsideIInv DEF TakeOver, Resume, loop, outcome
<1>4. CASE PollFails
  BY <1>0, <1>4, OutsideIInv DEF PollFails, chat
<1>5. CASE GetUpdates
  BY <1>5, GetUpdatesIInv
<1>6. CASE Confirms
  BY <1>6, ConfirmsIInv
<1>7. CASE NextUpdate
  BY <1>7, NextUpdateIInv
<1>8. CASE Blocks
  BY <1>0, <1>8, UpdateEnds DEF Blocks, InUpdate
<1>9. CASE Routes
  <2>1. UNCHANGED <<updates, offset, batch, now, lines, sent, fate>>
        /\ at = "update" /\ at' = "routed"
    BY <1>9 DEF Routes
  <2>2. conv' \in [Chats -> Owners] /\ seen' \in Owners
    <3>1. now \in 1..Len(updates)
      BY <2>1, Numbers DEF IInv, InBatch, InUpdate
    <3>2. updates[now] \in Chats
      BY <3>1, ElementOfSeq DEF IInv, Types
    <3> QED
      BY <1>0, <1>9, <3>2 DEF Routes, Owners, Human
  <2> QED
    BY <2>1, <2>2, UpdateGoesOn DEF InUpdate
<1>10. CASE StoresLine
  BY <1>10, StoresLineIInv
<1>11. CASE Withholds
  BY <1>0, <1>11, UpdateEnds DEF Withholds, InUpdate
<1>12. CASE Generates
  <2>1. conv' \in [Chats -> Owners]
    BY <1>0, <1>12 DEF Generates, Owners
  <2> QED
    BY <1>0, <1>12, <2>1, UpdateGoesOn DEF Generates, InUpdate
<1>13. CASE SaysNothing
  BY <1>0, <1>13, UpdateEnds DEF SaysNothing, InUpdate
<1>14. CASE Sends
  BY <1>14, SendsIInv
<1>15. CASE StoresAnswer
  BY <1>15, StoresAnswerIInv
<1>16. CASE Fails
  BY <1>0, <1>16, UpdateEnds DEF Fails, InUpdate
<1>17. CASE Escapes
  BY <1>0, <1>17, StopsIInv DEF Escapes
<1>18. CASE Crash
  BY <1>0, <1>18, StopsIInv DEF Crash
<1> QED
  BY <1>1, <1>2, <1>3, <1>4, <1>5, <1>6, <1>7, <1>8, <1>9, <1>10, <1>11, <1>12, <1>13,
     <1>14, <1>15, <1>16, <1>17, <1>18 DEF Next, Pass

LEMMA Invariant == Spec => []IInv
  BY InitIInv, StepIInv, PTL DEF Spec

\* The shape of the state; the offset never runs ahead of Telegram and what is being
\* handled is confirmed (poll_once).
THEOREM TypeCorrect == Spec => []TypeOK
<1>1. IInv => TypeOK
  <2> SUFFICES ASSUME IInv PROVE TypeOK
    OBVIOUS
  <2>1. \A u \in 1..Len(updates) : fate[u] \in Fates
    BY Numbers, ElementOfSeq DEF IInv, Types
  <2>2. InUpdate => now < offset /\ fate[now] = "waiting"
    BY Numbers DEF IInv, InBatch, InUpdate
  <2> QED
    BY <2>1, <2>2 DEF TypeOK, IInv, Types, Places, Owners
<1> QED
  BY Invariant, <1>1, PTL

\* A transcript is in the order its lines were written, through any number of crashes
\* and failures.
THEOREM Ordered == Spec => []InOrder
<1>1. IInv => InOrder
  BY DEF IInv, Stores
<1> QED
  BY Invariant, <1>1, PTL

\* No update is stored or answered twice, wherever the process stops.
THEOREM Once == Spec => []HandledOnce
<1>1. IInv => HandledOnce
  <2> SUFFICES ASSUME IInv PROVE HandledOnce
    OBVIOUS
  <2>1. ASSUME NEW i \in Stored("caller"), NEW j \in Stored("caller"),
               lines[i] = lines[j], i # j
        PROVE  FALSE
    <3>1. i \in Nat /\ j \in Nat /\ lines[i] \in Entries
      BY Numbers, ElementOfSeq DEF Stored, IInv, Types
    <3>2. lines[i][1] \in Nat /\ lines[i][1] = lines[j][1]
      BY <2>1, <3>1 DEF Entries
    <3>3. i < j => lines[i][1] < lines[j][1]
      BY DEF IInv, Stores, InOrder
    <3>4. j < i => lines[j][1] < lines[i][1]
      BY DEF IInv, Stores, InOrder
    <3> QED
      BY <2>1, <3>1, <3>2, <3>3, <3>4
  <2>2. ASSUME NEW i \in 1..Len(sent), NEW j \in 1..Len(sent), sent[i] = sent[j], i # j
        PROVE  FALSE
    <3>1. sent[i] \in Nat /\ i \in Nat /\ j \in Nat
      BY Numbers, ElementOfSeq DEF IInv, Types
    <3>2. (i < j => sent[i] < sent[j]) /\ (j < i => sent[j] < sent[i])
      BY DEF IInv, Sending
    <3> QED
      BY <2>2, <3>1, <3>2
  <2> QED
    BY <2>1, <2>2 DEF HandledOnce
<1> QED
  BY Invariant, <1>1, PTL
=============================================================================
