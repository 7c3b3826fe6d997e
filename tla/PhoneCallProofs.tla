-------------------------- MODULE PhoneCallProofs ---------------------------
(* Proofs about PhoneCall and the answer it speaks, for any number of utterances, phrases
   and faults. *)
EXTENDS PhoneCall, SequenceTheorems, TLAPS

Speaks == {"race", "stopping", "finishing"}
Quiet  == {"start", "refused", "read", "store", "answer", "close", "ended"}

\* The phrases of the answer being spoken.
Uttered == {<<turn, k>> : k \in 1..said}

CallShape ==
  /\ task = "emit" => said \in 1..MaxPhrases
  /\ task # "none" => turn \in Finals
  /\ pc \in Quiet => task \in {"none", "done"}
  /\ pc = "stopping" => barge
  /\ pc \in Speaks \cup {"store", "answer"} => inhand \in Finals
  /\ pc \in Speaks => turn = inhand
  /\ pc \in Speaks \cup {"answer"} => Len(lines) # 0 /\ lines[Len(lines)] = <<"caller", inhand>>
  /\ pc \notin {"read", "stopping", "raised"} => carried = Nobody

\* What was heard or waits to be played is stored, or is of the answer being spoken.
HeardIsKept ==
  /\ pc \in Quiet => heard \cup Queued \subseteq stored
  /\ pc \in Speaks => heard \cup Queued \subseteq stored \cup Uttered

\* The caller's lines are 1, 2, ... r; then come the Final being handled, the one that
\* interrupted, the one read ahead and those on the wire.
StoredTo(r) ==
  /\ \A n \in 1..r : \E i \in 1..Len(lines) : lines[i] = <<"caller", n>>
  /\ \A i \in 1..Len(lines) : lines[i][1] = "caller" => lines[i][2] <= r
  /\ \A i, j \in 1..Len(lines) :
       i < j /\ lines[i][1] = "caller" /\ lines[j][1] = "caller" => lines[i][2] < lines[j][2]

OnWire(c) ==
  /\ \A n \in (c + 1)..spoken : \E i \in 1..Len(wire) : wire[i] = n
  /\ \A i \in 1..Len(wire) : wire[i] \in Finals => wire[i] \in (c + 1)..spoken
  /\ \A i, j \in 1..Len(wire) :
       i < j /\ wire[i] \in Finals /\ wire[j] \in Finals => wire[i] < wire[j]

Chain(r, a, b, c) ==
  /\ StoredTo(r)
  /\ IF pc = "store" THEN a = r + 1 /\ inhand = a ELSE a = r
  /\ IF carried # Nobody THEN b = a + 1 /\ carried = b ELSE b = a
  /\ IF pending \in Finals THEN c = b + 1 /\ pending = c ELSE c = b
  /\ c <= spoken
  /\ OnWire(c)

InOrder == \E r, a, b, c \in 0..MaxFinals : Chain(r, a, b, c)

CallInv == TypeOK /\ CallShape /\ HeardIsKept /\ AnswersFollowTheirQuestion /\ InOrder

(***************************************************************************)
(* Types.                                                                  *)
(***************************************************************************)
TranscriptVars == <<wire, spoken, pending, carried, pc, inhand, lines>>

SpeechTypes ==
  /\ task \in {"none", "piece", "emit", "flush", "done", "failed"}
  /\ turn \in 0..MaxFinals
  /\ barge \in BOOLEAN /\ cut \in BOOLEAN
  /\ said \in 0..MaxPhrases /\ chunks \in 0..MaxChunks
  /\ buffer \in Seq(Finals \X (1..MaxPhrases)) /\ Len(buffer) <= Capacity
  /\ heard \subseteq Finals \X (1..MaxPhrases)

LEMMA AppendsTo ==
  ASSUME NEW S, NEW s \in Seq(S), NEW x \in S
  PROVE  /\ Append(s, x) \in Seq(S) /\ Len(Append(s, x)) = Len(s) + 1 /\ Len(s) \in Nat
         /\ \A i \in 1..Len(s) : Append(s, x)[i] = s[i]
         /\ Append(s, x)[Len(s) + 1] = x
         /\ \A i \in 1..(Len(s) + 1) : i \in 1..Len(s) \/ i = Len(s) + 1
OBVIOUS

LEMMA TailOf ==
  ASSUME NEW S, NEW s \in Seq(S), s # <<>>
  PROVE  /\ Head(s) = s[1] /\ Head(s) \in S /\ Tail(s) \in Seq(S)
         /\ Len(s) \in Nat \ {0} /\ Len(Tail(s)) = Len(s) - 1
         /\ \A i \in 1..(Len(s) - 1) : Tail(s)[i] = s[i + 1] /\ i + 1 \in 1..Len(s)
OBVIOUS

\* Three sequences one after the other, the middle one of three elements.
AllThree(t, s, m, w) ==
  /\ Len(t) = Len(s) + 3 + Len(w)
  /\ \A i \in 1..Len(s) : t[i] = s[i]
  /\ \A i \in 1..3 : t[Len(s) + i] = m[i]
  /\ \A i \in 1..Len(w) : t[Len(s) + 3 + i] = w[i]

LEMMA InThreeParts ==
  ASSUME NEW S, NEW s \in Seq(S), NEW m \in Seq(S), NEW w \in Seq(S), Len(m) = 3
  PROVE  AllThree((s \o m) \o w, s, m, w)
<1>1. Len(s) \in Nat /\ Len(w) \in Nat
  OBVIOUS
<1>2. /\ s \o m \in Seq(S) /\ Len(s \o m) = Len(s) + 3
      /\ \A i \in 1..(Len(s) + 3) : (s \o m)[i] = IF i <= Len(s) THEN s[i] ELSE m[i - Len(s)]
  <2>1. /\ s \o m \in Seq(S) /\ Len(s \o m) = Len(s) + Len(m)
        /\ \A i \in 1..(Len(s) + Len(m)) : (s \o m)[i] = IF i <= Len(s) THEN s[i] ELSE m[i - Len(s)]
    BY ConcatProperties, Zenon
  <2> QED
    BY <2>1
<1> DEFINE t == s \o m
<1>3. t \in Seq(S) /\ Len(t) = Len(s) + 3
  BY <1>2
<1> HIDE DEF t
<1>4. /\ Len(t \o w) = Len(t) + Len(w)
      /\ \A i \in 1..(Len(t) + Len(w)) : (t \o w)[i] = IF i <= Len(t) THEN t[i] ELSE w[i - Len(t)]
  BY <1>3, ConcatProperties
<1>5. /\ Len(t \o w) = Len(s) + 3 + Len(w)
      /\ \A i \in 1..(Len(s) + 3) : (t \o w)[i] = t[i]
  BY <1>1, <1>3, <1>4
<1>6. ASSUME NEW i \in 1..Len(w) PROVE (t \o w)[Len(s) + 3 + i] = w[i]
  <2> DEFINE j == Len(s) + 3 + i
  <2>1. j \in 1..(Len(t) + Len(w)) /\ ~(j <= Len(t)) /\ j - Len(t) = i
    BY <1>1, <1>3
  <2> HIDE DEF j
  <2>2. (t \o w)[j] = w[i]
    BY <2>1, <1>4
  <2> QED
    BY <2>2 DEF j
<1>7. ASSUME NEW i \in 1..Len(s) PROVE (t \o w)[i] = s[i]
  BY <1>1, <1>2, <1>5 DEF t
<1>8. ASSUME NEW i \in 1..3 PROVE (t \o w)[Len(s) + i] = m[i]
  <2> DEFINE j == Len(s) + i
  <2>1. j \in 1..(Len(s) + 3) /\ ~(j <= Len(s)) /\ j - Len(s) = i
    BY <1>1
  <2> HIDE DEF j
  <2>2. (t \o w)[j] = m[i]
    BY <2>1, <1>2, <1>5 DEF t
  <2> QED
    BY <2>2 DEF j
<1> QED
  BY <1>5, <1>6, <1>7, <1>8 DEF t, AllThree

LEMMA SpeaksTyped ==
  ASSUME SpeechTypes, task # "none" => turn \in Finals, task = "emit" => said \in 1..MaxPhrases,
         Speak
  PROVE  SpeechTypes' /\ (task' = "emit" => said' \in 1..MaxPhrases) /\ task' # "none"
<1> USE SpokenTurnAssumption, PhoneCallAssumption
<1>1. CASE PieceSpoken
  BY <1>1 DEF SpeechTypes, PieceSpoken, BeginPhrase
<1>2. CASE PieceStopped
  BY <1>2 DEF SpeechTypes, PieceStopped
<1>3. CASE ReplyEnds
  BY <1>3 DEF SpeechTypes, ReplyEnds
<1>4. CASE ChunkQueued
  <2>1. <<turn, said>> \in Finals \X (1..MaxPhrases)
    BY <1>4 DEF ChunkQueued, Speaking
  <2>2. buffer' \in Seq(Finals \X (1..MaxPhrases)) /\ Len(buffer') = Len(buffer) + 1 /\ Len(buffer) \in Nat
    BY <1>4, <2>1, AppendsTo DEF ChunkQueued, SpeechTypes
  <2>3. chunks' \in 0..MaxChunks
    BY <1>4 DEF SpeechTypes, ChunkQueued
  <2>4. UNCHANGED <<task, turn, barge, said, cut, heard>> /\ Len(buffer) < Capacity
    BY <1>4 DEF ChunkQueued
  <2>5. Len(buffer') <= Capacity
    BY <2>2, <2>4
  <2> QED
    BY <1>4, <2>2, <2>3, <2>4, <2>5 DEF SpeechTypes, ChunkQueued
<1>5. CASE ChunkStopped
  BY <1>5 DEF SpeechTypes, ChunkStopped
<1>6. CASE PhraseEnds
  BY <1>6 DEF SpeechTypes, PhraseEnds, BeginPhrase
<1>7. CASE Flush
  BY <1>7 DEF SpeechTypes, Flush
<1> QED
  BY <1>1, <1>2, <1>3, <1>4, <1>5, <1>6, <1>7 DEF Speak

LEMMA PlaysTyped ==
  ASSUME SpeechTypes, Play
  PROVE  /\ SpeechTypes' /\ UNCHANGED <<task, turn, barge, said, cut>>
         /\ heard' = heard \cup {Head(buffer)} /\ heard' \cup Queued' \subseteq heard \cup Queued
         /\ Len(buffer') <= Len(buffer)
<1> DEFINE P == Finals \X (1..MaxPhrases)
<1>1. /\ buffer \in Seq(P) /\ buffer # <<>> /\ buffer' = Tail(buffer)
      /\ heard' = heard \cup {Head(buffer)} /\ UNCHANGED <<task, turn, barge, said, chunks, cut>>
  BY DEF SpeechTypes, Play
<1> HIDE DEF P
<1>2. /\ Head(buffer) = buffer[1] /\ Head(buffer) \in P /\ Tail(buffer) \in Seq(P)
      /\ Len(buffer) \in Nat \ {0} /\ Len(Tail(buffer)) = Len(buffer) - 1
      /\ \A i \in 1..(Len(buffer) - 1) : Tail(buffer)[i] = buffer[i + 1] /\ i + 1 \in 1..Len(buffer)
  BY <1>1, TailOf
<1>3. Head(buffer) \in Queued /\ Queued' \subseteq Queued
  BY <1>1, <1>2 DEF Queued
<1>4. Len(buffer') <= Len(buffer) /\ (Len(buffer) <= Capacity => Len(buffer') <= Capacity)
  BY <1>1, <1>2, SpokenTurnAssumption
<1>5. SpeechTypes'
  BY <1>1, <1>2, <1>4 DEF SpeechTypes, P
<1> QED
  BY <1>1, <1>3, <1>4, <1>5

LEMMA SpeechTypesAre == TypeOK => SpeechTypes
BY DEF TypeOK, SpeechTypes

CallTypes ==
  /\ wire \in Seq(Transcripts)
  /\ spoken \in 0..MaxFinals /\ partials \in 0..MaxPartials /\ hungUp \in BOOLEAN
  /\ pending \in Transcripts \cup {Waiting}
  /\ carried \in 0..MaxFinals
  /\ inhand \in Transcripts \cup {Nobody}
  /\ pc \in {"start", "refused", "read", "store", "answer", "race", "stopping",
             "finishing", "close", "ended", "raised"}
  /\ answering \in BOOLEAN /\ handling \in {"ai", "human"}
  /\ closed \in BOOLEAN /\ billed \in BOOLEAN
  /\ lines \in Seq({"caller", "agent"} \X Finals)
  /\ stored \subseteq Finals \X (1..MaxPhrases)
  /\ faults \in 0..MaxFaults

LEMMA TypesAre == TypeOK <=> SpeechTypes /\ CallTypes
BY DEF TypeOK, SpeechTypes, CallTypes

\* What depends on the transcripts alone, and on the transcript alone.
LEMMA OrderStays ==
  ASSUME UNCHANGED <<wire, spoken, pending, carried, inhand, lines>>, (pc' = "store") <=> (pc = "store")
  PROVE  InOrder' <=> InOrder
<1>1. (\A c : OnWire(c)' <=> OnWire(c)) /\ (\A r : StoredTo(r)' <=> StoredTo(r))
  BY DEF OnWire, StoredTo
<1>2. ASSUME NEW r, NEW a, NEW b, NEW c PROVE Chain(r, a, b, c)' <=> Chain(r, a, b, c)
  BY <1>1 DEF Chain
<1> QED
  BY <1>2 DEF InOrder

LEMMA AnswersStay ==
  ASSUME UNCHANGED lines
  PROVE  AnswersFollowTheirQuestion' <=> AnswersFollowTheirQuestion
BY DEF AnswersFollowTheirQuestion

(***************************************************************************)
(* The answer is spoken and heard.                                         *)
(***************************************************************************)
LEMMA SpeakAdds ==
  ASSUME SpeechTypes, Speak, task = "emit" => said \in 1..MaxPhrases
  PROVE  /\ UNCHANGED <<turn, barge, heard>> /\ Speaking
         /\ Uttered \subseteq Uttered' /\ Queued' \subseteq Queued \cup Uttered
         /\ barge => Len(buffer') <= Len(buffer)
<1> USE SpokenTurnAssumption
<1>1. CASE PieceSpoken
  BY <1>1 DEF SpeechTypes, PieceSpoken, BeginPhrase, Uttered, Queued, Speaking
<1>2. CASE PieceStopped
  BY <1>2 DEF SpeechTypes, PieceStopped, Uttered, Queued, Speaking
<1>3. CASE ReplyEnds
  BY <1>3 DEF SpeechTypes, ReplyEnds, Uttered, Queued, Speaking
<1>4. CASE ChunkQueued
  <2> DEFINE x == <<turn, said>>
  <2>1. /\ UNCHANGED <<task, turn, barge, said, cut, heard>> /\ ~barge /\ task = "emit"
        /\ buffer' = Append(buffer, x)
    BY <1>4 DEF ChunkQueued
  <2>2. x \in Uttered
    BY <2>1 DEF Uttered
  <2>3. buffer \in Seq(Queued \cup {x})
    <3>1. buffer \in Seq({buffer[i] : i \in 1..Len(buffer)})
      BY DEF SpeechTypes
    <3> QED
      BY <3>1, SeqMonotonic DEF Queued
  <2> HIDE DEF x
  <2>4. Queued' \subseteq Queued \cup {x}
    BY <2>1, <2>3, AppendsTo DEF Queued
  <2> QED
    BY <2>1, <2>2, <2>4 DEF Uttered, Speaking
<1>5. CASE ChunkStopped
  BY <1>5 DEF SpeechTypes, ChunkStopped, Uttered, Queued, Speaking
<1>6. CASE PhraseEnds
  BY <1>6 DEF SpeechTypes, PhraseEnds, BeginPhrase, Uttered, Queued, Speaking
<1>7. CASE Flush
  <2>1. buffer' = <<>> /\ UNCHANGED <<turn, barge, said, heard>> /\ task = "flush"
    BY <1>7 DEF Flush
  <2>2. Queued' = {} /\ Len(buffer') = 0 /\ Len(buffer) \in Nat
    BY <2>1 DEF Queued, SpeechTypes
  <2> QED
    BY <2>1, <2>2 DEF Uttered, Speaking
<1> QED
  BY <1>1, <1>2, <1>3, <1>4, <1>5, <1>6, <1>7 DEF Speak

LEMMA VoiceKeeps ==
  ASSUME CallInv, Voice
  PROVE  CallInv'
<1>1. UNCHANGED <<caller, driver, rows, archive, faults>> /\ Speak
  BY DEF Voice
<1>2. SpeechTypes /\ CallTypes /\ (task = "emit" => said \in 1..MaxPhrases)
  BY TypesAre DEF CallInv, CallShape
<1>3. UNCHANGED <<turn, barge, heard>> /\ Speaking /\ Uttered \subseteq Uttered' /\ Queued' \subseteq Queued \cup Uttered
  BY <1>1, <1>2, SpeakAdds
<1>4. pc \in Speaks \cup {"raised"}
  BY <1>2, <1>3 DEF Speaking, CallInv, CallShape, CallTypes, Speaks, Quiet
<1>5. UNCHANGED <<wire, spoken, partials, hungUp, pending, carried, pc, inhand, answering,
                  handling, closed, billed, lines, stored, faults>>
  BY <1>1 DEF caller, driver, rows, archive
<1>6. SpeechTypes' /\ (task' = "emit" => said' \in 1..MaxPhrases)
  BY <1>1, <1>2, SpeaksTyped DEF CallInv, CallShape
<1>7. TypeOK'
  BY <1>2, <1>5, <1>6 DEF TypeOK, SpeechTypes, CallTypes
<1>8. CallShape'
  BY <1>3, <1>4, <1>5, <1>6 DEF CallInv, CallShape, Speaks, Quiet, Speaking
<1>9. HeardIsKept'
  BY <1>3, <1>4, <1>5 DEF CallInv, HeardIsKept, Speaks, Quiet
<1> QED
  BY <1>5, <1>7, <1>8, <1>9, OrderStays, AnswersStay DEF CallInv

LEMMA VoiceFailsKeeps ==
  ASSUME CallInv, VoiceFails
  PROVE  CallInv'
<1>1. UNCHANGED <<caller, driver, rows, archive>> /\ SpeechFails /\ faults' \in 0..MaxFaults
  BY PhoneCallAssumption DEF VoiceFails, CallInv, TypeOK
<1>2. /\ UNCHANGED <<turn, barge, said, cut, buffer, heard>> /\ chunks' = 0 /\ task' = "failed"
      /\ task \in {"piece", "emit"}
  BY <1>1 DEF SpeechFails
<1>3. UNCHANGED <<wire, spoken, partials, hungUp, pending, carried, pc, inhand, answering,
                  handling, closed, billed, lines, stored>>
  BY <1>1 DEF caller, driver, rows, archive
<1>4. TypeOK'
  BY <1>1, <1>2, <1>3, SpokenTurnAssumption DEF CallInv, TypeOK
<1>5. CallShape'
  BY <1>2, <1>3 DEF CallInv, CallShape
<1>6. HeardIsKept'
  BY <1>2, <1>3 DEF CallInv, HeardIsKept, Queued, Uttered
<1> QED
  BY <1>3, <1>4, <1>5, <1>6, OrderStays, AnswersStay DEF CallInv

LEMMA PlaybackKeeps ==
  ASSUME CallInv, Playback
  PROVE  CallInv'
<1>1. UNCHANGED <<caller, driver, rows, archive, faults>> /\ Play
  BY DEF Playback
<1>2. SpeechTypes /\ CallTypes
  BY TypesAre DEF CallInv
<1>3. SpeechTypes' /\ UNCHANGED <<task, turn, barge, said, cut>> /\ heard' \cup Queued' \subseteq heard \cup Queued
  BY <1>1, <1>2, PlaysTyped
<1>4. UNCHANGED <<wire, spoken, partials, hungUp, pending, carried, pc, inhand, answering,
                  handling, closed, billed, lines, stored, faults>>
  BY <1>1 DEF caller, driver, rows, archive
<1>5. TypeOK'
  BY <1>2, <1>3, <1>4 DEF TypeOK, SpeechTypes, CallTypes
<1>6. CallShape'
  BY <1>3, <1>4 DEF CallInv, CallShape
<1>7. HeardIsKept'
  BY <1>3, <1>4 DEF CallInv, HeardIsKept, Uttered
<1> QED
  BY <1>4, <1>5, <1>6, <1>7, OrderStays, AnswersStay DEF CallInv

(***************************************************************************)
(* The caller speaks and the transcripts are read.                         *)
(***************************************************************************)
LEMMA PersonKeeps ==
  ASSUME CallInv, Person \/ TransferCall \/ EndCall
  PROVE  CallInv'
<1>1. UNCHANGED <<speech, caller, driver, archive, faults>> /\ handling' \in {"ai", "human"}
      /\ closed' \in BOOLEAN /\ billed' \in BOOLEAN
  BY DEF Person, TakeOver, Resume, TransferCall, EndCall, CallInv, TypeOK
<1>2. UNCHANGED <<wire, spoken, partials, hungUp, pending, carried, pc, inhand, answering,
                  lines, stored, faults, task, turn, barge, said, chunks, cut, buffer, heard>>
  BY <1>1 DEF speech, caller, driver, archive
<1>3. TypeOK'
  BY <1>1, <1>2 DEF CallInv, TypeOK
<1>4. CallShape' /\ HeardIsKept'
  BY <1>2 DEF CallInv, CallShape, HeardIsKept, Queued, Uttered
<1> QED
  BY <1>2, <1>3, <1>4, OrderStays, AnswersStay DEF CallInv

\* Only the wire grows.
LEMMA CallerKeeps ==
  ASSUME CallInv, Caller
  PROVE  CallInv'
<1> USE PhoneCallAssumption
<1>1. /\ UNCHANGED <<speech, driver, rows, archive>>
      /\ spoken' \in 0..MaxFinals /\ partials' \in 0..MaxPartials /\ hungUp' \in BOOLEAN
      /\ faults' \in 0..MaxFaults
  <2> USE DEF CallInv, TypeOK
  <2>1. CASE SayPartial
    BY <2>1 DEF SayPartial
  <2>2. CASE SayFinal
    BY <2>2 DEF SayFinal
  <2>3. CASE HangUp
    BY <2>3 DEF HangUp
  <2>4. CASE RecogniserBreaks
    BY <2>4 DEF RecogniserBreaks
  <2> QED
    BY <2>1, <2>2, <2>3, <2>4 DEF Caller
<1>2. PICK t \in Transcripts : /\ wire' = Append(wire, t)
                               /\ \/ t \in Finals /\ t = spoken + 1 /\ spoken' = spoken + 1
                                  \/ t \notin Finals /\ spoken' = spoken
  <2>1. Partial \notin Finals /\ End \notin Finals /\ Broken \notin Finals
    BY DEF Partial, End, Broken, Finals
  <2>2. SayFinal => spoken + 1 \in Finals
    BY DEF SayFinal, Finals, CallInv, TypeOK
  <2> QED
    BY <2>1, <2>2 DEF Caller, SayPartial, SayFinal, HangUp, RecogniserBreaks, Recognise, Transcripts
<1>3. UNCHANGED <<pending, carried, pc, inhand, answering, handling, closed, billed,
                  lines, stored, task, turn, barge, said, chunks, cut, buffer, heard>>
  BY <1>1 DEF speech, driver, rows, archive
<1>4. /\ wire' \in Seq(Transcripts) /\ Len(wire') = Len(wire) + 1 /\ Len(wire) \in Nat
      /\ \A i \in 1..Len(wire) : wire'[i] = wire[i]
      /\ wire'[Len(wire) + 1] = t
      /\ \A i \in 1..(Len(wire) + 1) : i \in 1..Len(wire) \/ i = Len(wire) + 1
  BY <1>2, AppendsTo DEF CallInv, TypeOK
<1>5. TypeOK'
  BY <1>1, <1>3, <1>4 DEF CallInv, TypeOK
<1>6. CallShape' /\ HeardIsKept'
  BY <1>3 DEF CallInv, CallShape, HeardIsKept, Queued, Uttered
<1>7. InOrder'
  <2>1. PICK r \in 0..MaxFinals, a \in 0..MaxFinals, b \in 0..MaxFinals, c \in 0..MaxFinals :
                 Chain(r, a, b, c)
    BY DEF CallInv, InOrder
  <2> USE <2>1 DEF Chain
  <2>2. spoken \in Nat /\ c <= spoken'
    BY <1>2, <2>1 DEF CallInv, TypeOK
  <2>3. OnWire(c)'
    <3>1. ASSUME NEW n \in (c + 1)..spoken' PROVE \E i \in 1..Len(wire') : wire'[i] = n
      <4>1. n \in (c + 1)..spoken \/ (n = t /\ t = spoken + 1)
        BY <1>2, <2>2
      <4> QED
        BY <1>4, <2>1, <4>1 DEF OnWire
    <3>2. ASSUME NEW i \in 1..Len(wire'), wire'[i] \in Finals PROVE wire'[i] \in (c + 1)..spoken'
      BY <1>2, <1>4, <2>1, <2>2, <3>2 DEF OnWire
    <3>3. ASSUME NEW i \in 1..Len(wire'), NEW j \in 1..Len(wire'), i < j,
                 wire'[i] \in Finals, wire'[j] \in Finals
          PROVE  wire'[i] < wire'[j]
      <4>1. i \in 1..Len(wire) /\ wire[i] \in Finals /\ wire'[i] = wire[i]
        BY <1>4, <3>3
      <4>2. CASE j \in 1..Len(wire)
        BY <1>4, <2>1, <3>3, <4>1, <4>2 DEF OnWire
      <4>3. CASE j = Len(wire) + 1
        BY <1>2, <1>4, <2>1, <2>2, <3>3, <4>1, <4>3 DEF OnWire
      <4> QED
        BY <1>4, <4>2, <4>3
    <3> QED
      BY <3>1, <3>2, <3>3 DEF OnWire
  <2> QED
    <3>1. StoredTo(r)'
      BY <1>3 DEF StoredTo
    <3>2. Chain(r, a, b, c)'
      BY <1>3, <2>2, <2>3, <3>1
    <3> QED
      BY <3>2 DEF InOrder
<1> QED
  BY <1>3, <1>5, <1>6, <1>7, AnswersStay DEF CallInv

LEMMA PullKeeps ==
  ASSUME CallInv, Pull
  PROVE  CallInv'
<1> USE PhoneCallAssumption
<1>1. /\ pending = Waiting /\ wire # <<>> /\ pending' = Head(wire) /\ wire' = Tail(wire)
      /\ UNCHANGED <<spoken, partials, hungUp, carried, pc, inhand, answering, handling, closed,
                     billed, lines, stored, faults, task, turn, barge, said, chunks, cut, buffer, heard>>
  BY DEF Pull, speech, rows, archive
<1>2. /\ Head(wire) = wire[1] /\ Head(wire) \in Transcripts /\ Tail(wire) \in Seq(Transcripts)
      /\ Len(wire) \in Nat \ {0} /\ Len(Tail(wire)) = Len(wire) - 1
      /\ \A i \in 1..(Len(wire) - 1) : Tail(wire)[i] = wire[i + 1] /\ i + 1 \in 1..Len(wire)
  BY <1>1, TailOf DEF CallInv, TypeOK
<1>3. TypeOK'
  BY <1>1, <1>2 DEF CallInv, TypeOK
<1>4. CallShape' /\ HeardIsKept'
  BY <1>1 DEF CallInv, CallShape, HeardIsKept, Queued, Uttered
<1>5. InOrder'
  <2>1. PICK r \in 0..MaxFinals, a \in 0..MaxFinals, b \in 0..MaxFinals, c \in 0..MaxFinals :
                 Chain(r, a, b, c)
    BY DEF CallInv, InOrder
  <2> USE <2>1 DEF Chain
  <2>2. Waiting \notin Finals /\ c = b /\ spoken \in 0..MaxFinals
    BY <1>1, <2>1 DEF Waiting, Finals, CallInv, TypeOK
  <2>3. CASE wire[1] \in Finals
    <3>1. wire[1] \in (c + 1)..spoken /\ c + 1 \in (c + 1)..spoken /\ c + 1 \in 0..MaxFinals
      BY <1>2, <2>1, <2>2, <2>3 DEF OnWire
    <3>2. PICK k \in 1..Len(wire) : wire[k] = c + 1
      BY <2>1, <3>1 DEF OnWire
    <3>3. wire[1] = c + 1
      <4>1. c + 1 \in Finals
        BY <2>1, <2>2, <3>1 DEF Finals
      <4>2. k > 1 => wire[1] < wire[k]
        BY <1>2, <2>1, <2>3, <3>2, <4>1 DEF OnWire
      <4> QED
        BY <1>2, <2>1, <3>1, <3>2, <4>2
    <3>4. OnWire(c + 1)'
      <4>1. ASSUME NEW n \in (c + 2)..spoken PROVE \E i \in 1..(Len(wire) - 1) : Tail(wire)[i] = n
        <5>1. n \in (c + 1)..spoken
          BY <2>1, <2>2
        <5>2. PICK i \in 1..Len(wire) : wire[i] = n
          BY <2>1, <5>1 DEF OnWire
        <5>3. i # 1
          BY <2>1, <2>2, <3>3, <5>2
        <5>4. i - 1 \in 1..(Len(wire) - 1) /\ (i - 1) + 1 = i
          BY <1>2, <5>3
        <5> QED
          BY <1>2, <5>2, <5>4
      <4>2. ASSUME NEW i \in 1..(Len(wire) - 1), Tail(wire)[i] \in Finals
            PROVE  Tail(wire)[i] \in (c + 2)..spoken
        <5>1. Tail(wire)[i] = wire[i + 1] /\ i + 1 \in 1..Len(wire) /\ i + 1 > 1
          BY <1>2
        <5>2. wire[i + 1] \in (c + 1)..spoken /\ wire[1] < wire[i + 1]
          BY <1>2, <2>1, <2>3, <4>2, <5>1 DEF OnWire
        <5> QED
          BY <2>1, <2>2, <3>3, <5>1, <5>2
      <4>3. ASSUME NEW i \in 1..(Len(wire) - 1), NEW j \in 1..(Len(wire) - 1), i < j,
                   Tail(wire)[i] \in Finals, Tail(wire)[j] \in Finals
            PROVE  Tail(wire)[i] < Tail(wire)[j]
        <5>1. /\ Tail(wire)[i] = wire[i + 1] /\ i + 1 \in 1..Len(wire)
              /\ Tail(wire)[j] = wire[j + 1] /\ j + 1 \in 1..Len(wire) /\ i + 1 < j + 1
          BY <1>2, <4>3
        <5> QED
          BY <2>1, <4>3, <5>1 DEF OnWire
      <4>4. (c + 1) + 1 = c + 2
        BY <2>1
      <4> QED
        BY <1>1, <1>2, <4>1, <4>2, <4>3, <4>4 DEF OnWire
    <3>5. pending' = c + 1 /\ c + 1 = b + 1 /\ c + 1 <= spoken'
      BY <1>1, <1>2, <2>1, <2>2, <3>1, <3>3
    <3> QED
      <4>1. StoredTo(r)'
        BY <1>1 DEF StoredTo
      <4>2. pending' \in Finals /\ UNCHANGED <<pc, inhand, carried, spoken>>
        BY <1>1, <1>2, <2>3
      <4>3. Chain(r, a, b, c + 1)'
        BY <3>4, <3>5, <4>1, <4>2
      <4> QED
        BY <3>1, <4>3 DEF InOrder
  <2>4. CASE wire[1] \notin Finals
    <3>1. OnWire(c)'
      <4>1. ASSUME NEW n \in (c + 1)..spoken PROVE \E i \in 1..(Len(wire) - 1) : Tail(wire)[i] = n
        <5>1. PICK i \in 1..Len(wire) : wire[i] = n
          BY <2>1 DEF OnWire
        <5>2. i # 1
          BY <2>1, <2>2, <2>4, <5>1 DEF Finals
        <5>3. i - 1 \in 1..(Len(wire) - 1) /\ (i - 1) + 1 = i
          BY <1>2, <5>2
        <5> QED
          BY <1>2, <5>1, <5>3
      <4>2. ASSUME NEW i \in 1..(Len(wire) - 1), Tail(wire)[i] \in Finals
            PROVE  Tail(wire)[i] \in (c + 1)..spoken
        BY <1>2, <2>1, <4>2 DEF OnWire
      <4>3. ASSUME NEW i \in 1..(Len(wire) - 1), NEW j \in 1..(Len(wire) - 1), i < j,
                   Tail(wire)[i] \in Finals, Tail(wire)[j] \in Finals
            PROVE  Tail(wire)[i] < Tail(wire)[j]
        <5>1. /\ Tail(wire)[i] = wire[i + 1] /\ i + 1 \in 1..Len(wire)
              /\ Tail(wire)[j] = wire[j + 1] /\ j + 1 \in 1..Len(wire) /\ i + 1 < j + 1
          BY <1>2, <4>3
        <5> QED
          BY <2>1, <4>3, <5>1 DEF OnWire
      <4> QED
        BY <1>1, <1>2, <4>1, <4>2, <4>3 DEF OnWire
    <3> QED
      <4>1. StoredTo(r)'
        BY <1>1 DEF StoredTo
      <4>2. pending' \notin Finals /\ UNCHANGED <<pc, inhand, carried, spoken>>
        BY <1>1, <1>2, <2>4
      <4>3. Chain(r, a, b, c)'
        BY <2>2, <3>1, <4>1, <4>2
      <4> QED
        BY <4>3 DEF InOrder
  <2> QED
    BY <2>3, <2>4
<1> QED
  BY <1>1, <1>3, <1>4, <1>5, AnswersStay DEF CallInv

(***************************************************************************)
(* run_call.                                                               *)
(***************************************************************************)
\* The driver goes on, and nothing it holds or has written changes.
LEMMA DriverMoves ==
  ASSUME CallInv, UNCHANGED <<caller, pending, carried, inhand, archive, heard, buffer, faults>>,
         pc # "store", pc' # "store",
         TypeOK', CallShape', pc' \in Quiet => pc \in Quiet,
         pc' \in Speaks => pc \in Quiet \/ (pc \in Speaks /\ UNCHANGED <<turn, said>>)
  PROVE  CallInv'
<1>1. UNCHANGED <<wire, spoken, pending, carried, inhand, lines, stored, heard, buffer>>
  BY DEF caller, archive
<1>2. HeardIsKept'
  BY <1>1 DEF CallInv, HeardIsKept, Queued, Uttered
<1> QED
  BY <1>1, <1>2, OrderStays, AnswersStay DEF CallInv

LEMMA DecideKeeps ==
  ASSUME CallInv, NEW action \in {"ai", "pass", "block"}, Decide(action)
  PROVE  CallInv'
<1>1. /\ pc = "start" /\ pc' \in {"refused", "read"}
      /\ UNCHANGED <<speech, caller, pending, carried, inhand, closed, billed, archive, faults>>
      /\ answering' \in BOOLEAN /\ handling' \in {"ai", "human"}
  BY DEF Decide, CallInv, TypeOK
<1>2. TypeOK'
  BY <1>1 DEF CallInv, TypeOK, speech, caller, archive
<1>3. CallShape'
  BY <1>1 DEF CallInv, CallShape, speech, archive, Quiet, Speaks
<1> QED
  BY <1>1, <1>2, <1>3, DriverMoves DEF Quiet, Speaks, speech

LEMMA AnswerKeeps ==
  ASSUME CallInv, Answer
  PROVE  CallInv'
<1>1. /\ pc = "answer" /\ pc' = "race" /\ inhand \in Finals
      /\ task' = "piece" /\ turn' = inhand /\ barge' = FALSE /\ said' = 0 /\ cut' = FALSE
      /\ UNCHANGED <<chunks, buffer, heard, caller, pending, carried, inhand, answering, rows, archive, faults>>
  BY DEF Answer, BeginTurn, CallInv, CallShape
<1>2. TypeOK'
  <2>1. turn' \in 0..MaxFinals /\ said' \in 0..MaxPhrases
    BY <1>1, SpokenTurnAssumption DEF Finals
  <2> QED
    BY <1>1, <2>1 DEF CallInv, TypeOK, caller, rows, archive
<1>3. CallShape'
  BY <1>1 DEF CallInv, CallShape, archive, Quiet, Speaks
<1> QED
  BY <1>1, <1>2, <1>3, DriverMoves DEF Quiet, Speaks

LEMMA RaceKeeps ==
  ASSUME CallInv, LetFinish \/ RaceBroken \/ AnswerRaises
  PROVE  CallInv'
<1>1. /\ pc \in Speaks /\ pc' \in {"finishing", "raised"}
      /\ pc' = "finishing" => pc = "race"
      /\ UNCHANGED <<speech, caller, pending, carried, inhand, answering, rows, archive, faults>>
  BY DEF LetFinish, RaceBroken, AnswerRaises, Speaks
<1>2. TypeOK'
  BY <1>1 DEF CallInv, TypeOK, speech, caller, rows, archive
<1>3. CallShape'
  BY <1>1 DEF CallInv, CallShape, speech, archive, Quiet, Speaks
<1> QED
  BY <1>1, <1>2, <1>3, DriverMoves DEF Quiet, Speaks, speech

LEMMA CloseKeeps ==
  ASSUME CallInv, Close
  PROVE  CallInv'
<1>1. /\ pc = "close" /\ pc' = "ended" /\ closed' = TRUE /\ billed' = TRUE
      /\ UNCHANGED <<speech, caller, pending, carried, inhand, answering, handling, archive, faults>>
  BY DEF Close
<1>2. TypeOK'
  BY <1>1 DEF CallInv, TypeOK, speech, caller, archive
<1>3. CallShape'
  BY <1>1 DEF CallInv, CallShape, speech, archive, Quiet, Speaks
<1> QED
  BY <1>1, <1>2, <1>3, DriverMoves DEF Quiet, Speaks, speech

LEMMA Codes ==
  /\ Nobody \notin Finals /\ Partial \notin Finals /\ End \notin Finals /\ Broken \notin Finals
  /\ Waiting \notin Finals /\ Waiting \notin Transcripts /\ Nobody \notin Transcripts
  /\ Partial # End /\ Partial # Broken /\ End # Broken
BY DEF Nobody, Partial, End, Broken, Waiting, Finals, Transcripts

LEMMA ReadKeeps ==
  ASSUME CallInv, Read
  PROVE  CallInv'
<1>1. /\ pc = "read" /\ UNCHANGED <<speech, caller, answering, rows, archive, faults>>
      /\ carried' = Nobody /\ inhand' = IF carried # Nobody THEN carried ELSE pending
      /\ IF carried # Nobody THEN pending' = pending ELSE pending # Waiting /\ pending' = Waiting
  BY DEF Read, NextTranscript
<1>2. UNCHANGED <<wire, spoken, partials, hungUp, handling, closed, billed, lines, stored,
                  task, turn, barge, said, chunks, cut, buffer, heard>>
  BY <1>1 DEF speech, caller, rows, archive
<1>3. carried # Nobody => carried \in Finals
  BY DEF CallInv, TypeOK, Finals, Nobody
<1>4. inhand' \in Transcripts /\ pending' \in Transcripts \cup {Waiting} /\ carried' \in 0..MaxFinals
  BY <1>1, <1>3, PhoneCallAssumption DEF CallInv, TypeOK, Transcripts, Nobody
<1>5. /\ pc' \in {"close", "read", "raised", "store"}
      /\ pc' = "store" <=> inhand' \in Finals
  <2>1. inhand' = End => pc' = "close"
    BY Codes DEF Read
  <2>2. inhand' = Partial => pc' = "read"
    BY Codes DEF Read
  <2>3. inhand' = Broken => pc' = "raised"
    BY Codes DEF Read
  <2>4. inhand' \in Finals => pc' = "store"
    BY Codes DEF Read
  <2> QED
    BY <1>4, <2>1, <2>2, <2>3, <2>4, Codes DEF Transcripts
<1>6. TypeOK'
  BY <1>1, <1>2, <1>4, <1>5 DEF CallInv, TypeOK
<1>7. CallShape'
  BY <1>1, <1>2, <1>5 DEF CallInv, CallShape, Quiet, Speaks
<1>8. HeardIsKept'
  BY <1>1, <1>2, <1>5 DEF CallInv, HeardIsKept, Quiet, Speaks, Queued
<1>9. InOrder'
  <2>1. PICK r \in 0..MaxFinals, a \in 0..MaxFinals, b \in 0..MaxFinals, c \in 0..MaxFinals :
                 Chain(r, a, b, c)
    BY DEF CallInv, InOrder
  <2>2. /\ StoredTo(r)' /\ OnWire(c)' /\ c <= spoken' /\ a = r
        /\ IF carried # Nobody THEN b = a + 1 /\ carried = b ELSE b = a
        /\ IF pending \in Finals THEN c = b + 1 /\ pending = c ELSE c = b
    BY <1>1, <1>2, <2>1 DEF Chain, StoredTo, OnWire
  <2>3. CASE carried # Nobody
    <3>1. Chain(r, b, b, c)'
      BY <1>1, <1>2, <1>3, <1>5, <2>2, <2>3 DEF Chain
    <3> QED
      BY <3>1 DEF InOrder
  <2>4. CASE carried = Nobody
    <3>1. Chain(r, c, c, c)'
      BY <1>1, <1>2, <1>5, <2>2, <2>4, Codes DEF Chain
    <3> QED
      BY <3>1 DEF InOrder
  <2> QED
    BY <2>3, <2>4
<1> QED
  BY <1>2, <1>6, <1>7, <1>8, <1>9, AnswersStay DEF CallInv

LEMMA BargeInKeeps ==
  ASSUME CallInv, BargeIn
  PROVE  CallInv'
<1>1. /\ pc = "race" /\ pc' = "stopping" /\ barge' = TRUE /\ pending' = Waiting
      /\ pending \in Finals \cup {Partial} /\ carried = Nobody
      /\ carried' = IF pending \in Finals THEN pending ELSE Nobody
      /\ UNCHANGED <<task, turn, said, chunks, cut, buffer, heard, caller, inhand, answering,
                     rows, archive, faults>>
  BY DEF BargeIn, CallInv, CallShape
<1>2. UNCHANGED <<wire, spoken, partials, hungUp, handling, closed, billed, lines, stored,
                  task, turn, said, chunks, cut, buffer, heard>>
  BY <1>1 DEF caller, rows, archive
<1>3. carried' \in 0..MaxFinals
  BY <1>1, PhoneCallAssumption DEF Finals, Nobody
<1>4. TypeOK'
  BY <1>1, <1>2, <1>3 DEF CallInv, TypeOK
<1>5. CallShape'
  BY <1>1, <1>2 DEF CallInv, CallShape, Quiet, Speaks
<1>6. HeardIsKept'
  BY <1>1, <1>2 DEF CallInv, HeardIsKept, Quiet, Speaks, Queued, Uttered
<1>7. InOrder'
  <2>1. PICK r \in 0..MaxFinals, a \in 0..MaxFinals, b \in 0..MaxFinals, c \in 0..MaxFinals :
                 Chain(r, a, b, c)
    BY DEF CallInv, InOrder
  <2>2. /\ StoredTo(r)' /\ OnWire(c)' /\ c <= spoken' /\ a = r /\ b = a
        /\ IF pending \in Finals THEN c = b + 1 /\ pending = c ELSE c = b
    BY <1>1, <1>2, <2>1 DEF Chain, StoredTo, OnWire
  <2>3. Chain(r, a, c, c)'
    BY <1>1, <1>2, <2>2, Codes DEF Chain
  <2> QED
    BY <2>3 DEF InOrder
<1> QED
  BY <1>2, <1>4, <1>5, <1>6, <1>7, AnswersStay DEF CallInv

LEMMA StoreCallerKeeps ==
  ASSUME CallInv, StoreCaller
  PROVE  CallInv'
<1> DEFINE x == <<"caller", inhand>>
<1>1. /\ pc = "store" /\ pc' \in {"answer", "read"} /\ inhand \in Finals
      /\ lines' = Append(lines, x)
      /\ UNCHANGED <<speech, caller, pending, carried, inhand, answering, rows, stored, faults>>
  BY DEF StoreCaller, CallInv, CallShape
<1>2. UNCHANGED <<wire, spoken, partials, hungUp, handling, closed, billed,
                  task, turn, barge, said, chunks, cut, buffer, heard>>
  BY <1>1 DEF speech, caller, rows
<1>3. x \in {"caller", "agent"} \X Finals /\ x[1] = "caller" /\ x[2] = inhand
  BY <1>1
<1> HIDE DEF x
<1>4. /\ lines' \in Seq({"caller", "agent"} \X Finals) /\ Len(lines') = Len(lines) + 1 /\ Len(lines) \in Nat
      /\ \A i \in 1..Len(lines) : lines'[i] = lines[i]
      /\ lines'[Len(lines) + 1] = x
      /\ \A i \in 1..(Len(lines) + 1) : i \in 1..Len(lines) \/ i = Len(lines) + 1
  BY <1>1, <1>3, AppendsTo DEF CallInv, TypeOK
<1>5. TypeOK'
  BY <1>1, <1>2, <1>4 DEF CallInv, TypeOK
<1>6. CallShape'
  BY <1>1, <1>2, <1>4 DEF CallInv, CallShape, Quiet, Speaks, x
<1>7. HeardIsKept'
  BY <1>1, <1>2 DEF CallInv, HeardIsKept, Quiet, Speaks, Queued
<1>8. AnswersFollowTheirQuestion'
  <2> SUFFICES ASSUME NEW i \in 1..Len(lines'), lines'[i][1] = "agent"
               PROVE  i > 1 /\ lines'[i - 1] = <<"caller", lines'[i][2]>>
    BY DEF AnswersFollowTheirQuestion
  <2>1. i \in 1..Len(lines) /\ lines'[i] = lines[i]
    BY <1>3, <1>4
  <2>2. i > 1 /\ lines[i - 1] = <<"caller", lines[i][2]>>
    BY <2>1 DEF CallInv, AnswersFollowTheirQuestion
  <2>3. i - 1 \in 1..Len(lines)
    BY <1>4, <2>1, <2>2
  <2> QED
    BY <1>4, <2>1, <2>2, <2>3
<1>9. InOrder'
  <2>1. PICK r \in 0..MaxFinals, a \in 0..MaxFinals, b \in 0..MaxFinals, c \in 0..MaxFinals :
                 Chain(r, a, b, c)
    BY DEF CallInv, InOrder
  <2>2. /\ StoredTo(r) /\ OnWire(c)' /\ c <= spoken' /\ a = r + 1 /\ inhand = a
        /\ IF carried # Nobody THEN b = a + 1 /\ carried = b ELSE b = a
        /\ IF pending \in Finals THEN c = b + 1 /\ pending = c ELSE c = b
    BY <1>1, <1>2, <2>1 DEF Chain, OnWire
  <2>3. StoredTo(a)'
    <3>1. ASSUME NEW n \in 1..a PROVE \E i \in 1..Len(lines') : lines'[i] = <<"caller", n>>
      <4>1. CASE n \in 1..r
        <5>1. PICK i \in 1..Len(lines) : lines[i] = <<"caller", n>>
          BY <2>2, <4>1 DEF StoredTo
        <5> QED
          BY <1>4, <5>1
      <4>2. CASE n = a
        BY <1>4, <2>2, <4>2 DEF x
      <4> QED
        BY <2>2, <4>1, <4>2
    <3>2. ASSUME NEW i \in 1..Len(lines'), lines'[i][1] = "caller" PROVE lines'[i][2] <= a
      <4>1. CASE i \in 1..Len(lines)
        <5>1. lines[i][2] <= r /\ lines[i][2] \in Finals
          BY <1>4, <2>2, <3>2, <4>1 DEF StoredTo, CallInv, TypeOK
        <5> QED
          BY <1>4, <2>2, <4>1, <5>1 DEF Finals
      <4>2. CASE i = Len(lines) + 1
        BY <1>3, <1>4, <2>2, <4>2
      <4> QED
        BY <1>4, <4>1, <4>2
    <3>3. ASSUME NEW i \in 1..Len(lines'), NEW j \in 1..Len(lines'), i < j,
                 lines'[i][1] = "caller", lines'[j][1] = "caller"
          PROVE  lines'[i][2] < lines'[j][2]
      <4>1. i \in 1..Len(lines) /\ lines'[i] = lines[i]
        BY <1>4, <3>3
      <4>2. CASE j \in 1..Len(lines)
        BY <1>4, <2>2, <3>3, <4>1, <4>2 DEF StoredTo
      <4>3. CASE j = Len(lines) + 1
        <5>1. lines[i][2] <= r /\ lines[i][2] \in Finals
          BY <2>2, <3>3, <4>1 DEF StoredTo, CallInv, TypeOK
        <5> QED
          BY <1>3, <1>4, <2>2, <4>1, <4>3, <5>1 DEF Finals
      <4> QED
        BY <1>4, <4>2, <4>3
    <3> QED
      BY <3>1, <3>2, <3>3 DEF StoredTo
  <2>4. Chain(a, a, b, c)'
    BY <1>1, <1>2, <2>2, <2>3 DEF Chain
  <2> QED
    BY <2>4 DEF InOrder
<1> QED
  BY <1>5, <1>6, <1>7, <1>8, <1>9 DEF CallInv

LEMMA StoreAnswerKeeps ==
  ASSUME CallInv, StoreAnswer, pc \in Speaks,
         UNCHANGED <<speech, caller, pending, carried, inhand, answering, rows, faults>>,
         task = "done", pc' \in {"read", "close", "raised"},
         pc' = "close" => carried = Nobody
  PROVE  CallInv'
<1>1. UNCHANGED <<wire, spoken, partials, hungUp, handling, closed, billed,
                  task, turn, barge, said, chunks, cut, buffer, heard>>
  BY DEF speech, caller, rows
<1>2. /\ turn \in Finals /\ Len(lines) # 0 /\ lines[Len(lines)] = <<"caller", turn>>
      /\ heard \cup Queued \subseteq stored \cup Uttered
      /\ said \in 0..MaxPhrases /\ stored \subseteq Finals \X (1..MaxPhrases)
      /\ lines \in Seq({"caller", "agent"} \X Finals)
  BY DEF CallInv, CallShape, HeardIsKept, TypeOK, Speaks
<1>3. Uttered \subseteq Finals \X (1..MaxPhrases) /\ (said = 0 => Uttered = {})
  BY <1>2, SpokenTurnAssumption DEF Uttered
<1>4. stored' \subseteq Finals \X (1..MaxPhrases) /\ stored \cup Uttered \subseteq stored'
  BY <1>2, <1>3 DEF StoreAnswer, archive, Uttered
<1>5. CASE lines' = lines
  <2>1. TypeOK'
    BY <1>1, <1>4, <1>5 DEF CallInv, TypeOK
  <2>2. CallShape'
    BY <1>1 DEF CallInv, CallShape, Quiet, Speaks
  <2>3. HeardIsKept'
    BY <1>1, <1>2, <1>4 DEF HeardIsKept, Quiet, Speaks, Queued
  <2> QED
    BY <1>1, <1>5, <2>1, <2>2, <2>3, OrderStays, AnswersStay DEF CallInv, Speaks
<1>6. CASE lines' = Append(lines, <<"agent", turn>>)
  <2> DEFINE x == <<"agent", turn>>
  <2>1. x \in {"caller", "agent"} \X Finals /\ x[1] = "agent" /\ x[2] = turn
    BY <1>2
  <2> HIDE DEF x
  <2>2. /\ lines' \in Seq({"caller", "agent"} \X Finals) /\ Len(lines') = Len(lines) + 1 /\ Len(lines) \in Nat
        /\ \A i \in 1..Len(lines) : lines'[i] = lines[i]
        /\ lines'[Len(lines) + 1] = x
        /\ \A i \in 1..(Len(lines) + 1) : i \in 1..Len(lines) \/ i = Len(lines) + 1
    BY <1>2, <1>6, <2>1, AppendsTo DEF x
  <2>3. TypeOK'
    BY <1>1, <1>4, <2>2 DEF CallInv, TypeOK
  <2>4. CallShape'
    BY <1>1 DEF CallInv, CallShape, Quiet, Speaks
  <2>5. HeardIsKept'
    BY <1>1, <1>2, <1>4 DEF HeardIsKept, Quiet, Speaks, Queued
  <2>6. AnswersFollowTheirQuestion'
    <3> SUFFICES ASSUME NEW i \in 1..Len(lines'), lines'[i][1] = "agent"
                 PROVE  i > 1 /\ lines'[i - 1] = <<"caller", lines'[i][2]>>
      BY DEF AnswersFollowTheirQuestion
    <3>1. CASE i \in 1..Len(lines)
      <4>1. i > 1 /\ lines[i - 1] = <<"caller", lines[i][2]>> /\ lines'[i] = lines[i]
        BY <2>2, <3>1 DEF CallInv, AnswersFollowTheirQuestion
      <4>2. i - 1 \in 1..Len(lines)
        BY <2>2, <3>1, <4>1
      <4> QED
        BY <2>2, <4>1, <4>2
    <3>2. CASE i = Len(lines) + 1
      <4>1. i - 1 \in 1..Len(lines) /\ i - 1 = Len(lines) /\ i > 1
        BY <1>2, <2>2, <3>2
      <4>2. lines'[i - 1] = <<"caller", turn>>
        BY <1>2, <2>2, <4>1
      <4> QED
        BY <2>1, <2>2, <3>2, <4>1, <4>2
    <3> QED
      BY <2>2, <3>1, <3>2
  <2>7. InOrder'
    <3>1. PICK r \in 0..MaxFinals, a \in 0..MaxFinals, b \in 0..MaxFinals, c \in 0..MaxFinals :
                   Chain(r, a, b, c)
      BY DEF CallInv, InOrder
    <3>2. /\ StoredTo(r) /\ OnWire(c)' /\ c <= spoken' /\ a = r
          /\ IF carried # Nobody THEN b = a + 1 /\ carried = b ELSE b = a
          /\ IF pending \in Finals THEN c = b + 1 /\ pending = c ELSE c = b
      BY <1>1, <3>1 DEF Chain, OnWire, Speaks
    <3>3. StoredTo(r)'
      <4>1. \A n \in 1..r : \E i \in 1..Len(lines') : lines'[i] = <<"caller", n>>
        <5> SUFFICES ASSUME NEW n \in 1..r PROVE \E i \in 1..Len(lines') : lines'[i] = <<"caller", n>>
          OBVIOUS
        <5>1. PICK i \in 1..Len(lines) : lines[i] = <<"caller", n>>
          BY <3>2 DEF StoredTo
        <5> QED
          BY <2>2, <5>1
      <4>2. \A i \in 1..Len(lines') : lines'[i][1] = "caller" => i \in 1..Len(lines) /\ lines'[i] = lines[i]
        BY <2>1, <2>2
      <4> QED
        BY <3>2, <4>1, <4>2 DEF StoredTo
    <3>4. Chain(r, a, b, c)'
      BY <1>1, <3>2, <3>3 DEF Chain
    <3> QED
      BY <3>4 DEF InOrder
  <2> QED
    BY <2>3, <2>4, <2>5, <2>6, <2>7 DEF CallInv
<1> QED
  BY <1>5, <1>6 DEF StoreAnswer, archive

LEMMA AfterKeeps ==
  ASSUME CallInv, AfterBargeIn \/ AfterAnswer
  PROVE  CallInv'
<1>1. CASE AfterBargeIn
  BY <1>1, StoreAnswerKeeps DEF AfterBargeIn, Speaks
<1>2. CASE AfterAnswer
  <2>1. pc' \in {"read", "close", "raised"}
    <3>1. pending = End => pc' = "close"
      BY <1>2, Codes DEF AfterAnswer
    <3>2. pending = Broken => pc' = "raised"
      BY <1>2, Codes DEF AfterAnswer
    <3>3. pending # End /\ pending # Broken => pc' = "read"
      BY <1>2 DEF AfterAnswer
    <3> QED
      BY <3>1, <3>2, <3>3
  <2>2. carried = Nobody /\ pc \in Speaks
    BY <1>2 DEF AfterAnswer, CallInv, CallShape, Speaks
  <2> QED
    BY <1>2, <2>1, <2>2, StoreAnswerKeeps DEF AfterAnswer
<1> QED
  BY <1>1, <1>2

(***************************************************************************)
(* Every step, and the theorems.                                           *)
(***************************************************************************)
LEMMA CallInitInv == Init => CallInv
<1> SUFFICES ASSUME Init PROVE CallInv
  OBVIOUS
<1> USE PhoneCallAssumption, SpokenTurnAssumption DEF Init, SpeechInit
<1>1. TypeOK
  <2>1. /\ Waiting \in Transcripts \cup {Waiting} /\ Nobody \in 0..MaxFinals
        /\ \A S : <<>> \in Seq(S) /\ Len(<<>>) = 0
    BY DEF Nobody
  <2>2. 0 \in 0..MaxFinals /\ 0 \in 0..MaxPhrases /\ 0 \in 0..MaxChunks /\ 0 \in 0..MaxPartials
        /\ 0 \in 0..MaxFaults /\ 0 <= Capacity
    OBVIOUS
  <2> QED
    BY <2>1, <2>2 DEF TypeOK
<1>2. CallShape
  BY DEF CallShape, Speaks, Quiet
<1>3. HeardIsKept /\ AnswersFollowTheirQuestion
  BY DEF HeardIsKept, Queued, Speaks, Quiet, AnswersFollowTheirQuestion
<1>4. StoredTo(0) /\ OnWire(0)
  BY DEF StoredTo, OnWire
<1>5. Chain(0, 0, 0, 0)
  BY <1>4, Codes DEF Chain
<1>6. InOrder
  BY <1>5 DEF InOrder
<1> QED
  BY <1>1, <1>2, <1>3, <1>6 DEF CallInv

LEMMA CallNextInv == CallInv /\ [Next]_vars => CallInv'
<1> SUFFICES ASSUME CallInv, [Next]_vars PROVE CallInv'
  OBVIOUS
<1>1. CASE Driver
  BY <1>1, DecideKeeps, ReadKeeps, StoreCallerKeeps, AnswerKeeps, BargeInKeeps, RaceKeeps, AfterKeeps,
     CloseKeeps DEF Driver
<1>2. CASE UNCHANGED vars
  <2>1. UNCHANGED <<wire, spoken, partials, hungUp, pending, carried, pc, inhand, answering, handling, closed,
                    billed, lines, stored, faults, task, turn, barge, said, chunks, cut, buffer, heard>>
    BY <1>2 DEF vars, speech, caller, driver, rows, archive
  <2>2. TypeOK' /\ CallShape' /\ HeardIsKept'
    BY <2>1 DEF CallInv, TypeOK, CallShape, HeardIsKept, Queued, Uttered
  <2> QED
    BY <2>1, <2>2, OrderStays, AnswersStay DEF CallInv
<1> QED
  BY <1>1, <1>2, CallerKeeps, PullKeeps, PersonKeeps, VoiceKeeps, VoiceFailsKeeps, PlaybackKeeps DEF Next

\* The invariant of a call.
THEOREM CallHolds == Spec => []CallInv
<1>1. Init => CallInv
  BY CallInitInv
<1>2. CallInv /\ [Next]_vars => CallInv'
  BY CallNextInv
<1> QED
  BY <1>1, <1>2, PTL DEF Spec

\* The state of a call keeps its types.
THEOREM CallIsTyped == Spec => []TypeOK
<1>1. CallInv => TypeOK
  BY DEF CallInv
<1> QED
  BY <1>1, CallHolds, PTL

\* Whatever the race between the transcripts and the answer, no utterance of the caller
\* is lost, doubled or reordered.
THEOREM NoWordIsLost == Spec => []EveryWordRecorded
<1>1. CallInv => EveryWordRecorded
  <2> SUFFICES ASSUME CallInv PROVE EveryWordRecorded
    OBVIOUS
  <2> DEFINE s == [i \in 1..Len(lines) |-> IF lines[i][1] = "caller" THEN lines[i][2] ELSE Nobody]
             x == IF pc = "store" THEN inhand ELSE Nobody
             k == Len(lines)
  <2>1. PICK r \in 0..MaxFinals, a \in 0..MaxFinals, b \in 0..MaxFinals, c \in 0..MaxFinals :
                 Chain(r, a, b, c)
    BY DEF CallInv, InOrder
  <2>2. /\ StoredTo(r) /\ OnWire(c) /\ c <= spoken
        /\ IF x # Nobody THEN a = r + 1 /\ x = a ELSE a = r
        /\ IF carried # Nobody THEN b = a + 1 /\ carried = b ELSE b = a
        /\ IF pending \in Finals THEN c = b + 1 /\ pending = c ELSE c = b
        /\ r \in Nat /\ a \in Nat /\ b \in Nat /\ c \in Nat /\ spoken \in Nat
    BY <2>1, Codes DEF Chain, CallInv, CallShape, TypeOK
  <2>3. /\ lines \in Seq({"caller", "agent"} \X Finals) /\ wire \in Seq(Transcripts)
        /\ k \in Nat /\ Len(wire) \in Nat
    BY DEF CallInv, TypeOK
  <2>4. /\ s = [i \in 1..k |-> s[i]] /\ \A i \in 1..k : s[i] = IF lines[i][1] = "caller" THEN lines[i][2] ELSE Nobody
    OBVIOUS
  <2> HIDE DEF s, x, k
  <2>5. /\ Len(Journey) = k + 3 + Len(wire)
        /\ \A i \in 1..k : Journey[i] = s[i]
        /\ Journey[k + 1] = x /\ Journey[k + 2] = carried /\ Journey[k + 3] = pending
        /\ \A i \in 1..Len(wire) : Journey[k + 3 + i] = wire[i]
    <3> DEFINE S == {s[i] : i \in 1..k} \cup {x, carried, pending} \cup Transcripts
               mid == <<x, carried, pending>>
    <3>1. s \in Seq(S) /\ Len(s) = k
      <4>1. s \in [1..k -> S]
        BY <2>4
      <4> QED
        BY <2>3, <4>1, IsASeq, LenProperties
    <3>2. mid \in Seq(S) /\ Len(mid) = 3 /\ mid[1] = x /\ mid[2] = carried /\ mid[3] = pending
      OBVIOUS
    <3>3. wire \in Seq(S)
      <4>1. Transcripts \subseteq S
        OBVIOUS
      <4> HIDE DEF S
      <4> QED
        BY <2>3, <4>1, SeqMonotonic
    <3>4. Journey = (s \o mid) \o wire
      BY DEF Journey, s, x
    <3> HIDE DEF S, mid
    <3>5. /\ Len(Journey) = Len(s) + 3 + Len(wire)
          /\ \A i \in 1..Len(s) : Journey[i] = s[i]
          /\ \A i \in 1..3 : Journey[Len(s) + i] = mid[i]
          /\ \A i \in 1..Len(wire) : Journey[Len(s) + 3 + i] = wire[i]
      <4>1. s \in Seq(S) /\ mid \in Seq(S) /\ wire \in Seq(S) /\ Len(mid) = 3
        BY <3>1, <3>2, <3>3
      <4>2. AllThree((s \o mid) \o wire, s, mid, wire)
        BY <4>1, InThreeParts, Zenon
      <4>3. AllThree(Journey, s, mid, wire)
        BY <3>4, <4>2
      <4> QED
        BY <4>3 DEF AllThree
    <3>6. 1 \in 1..3 /\ 2 \in 1..3 /\ 3 \in 1..3
      OBVIOUS
    <3> QED
      BY <3>1, <3>2, <3>5, <3>6
  <2>6. ASSUME NEW n \in 1..spoken PROVE \E i \in 1..Len(Journey) : Journey[i] = n
    <3>1. CASE n \in 1..r
      <4>1. PICK i \in 1..k : lines[i] = <<"caller", n>>
        BY <2>2, <3>1 DEF StoredTo, k
      <4>2. s[i] = n
        BY <2>4, <4>1
      <4> QED
        BY <2>3, <2>5, <4>1, <4>2
    <3>2. CASE n = a /\ a # r
      <4>1. Journey[k + 1] = n /\ k + 1 \in 1..Len(Journey)
        BY <2>2, <2>3, <2>5, <3>2
      <4> QED
        BY <4>1
    <3>3. CASE n = b /\ b # a
      <4>1. Journey[k + 2] = n /\ k + 2 \in 1..Len(Journey)
        BY <2>2, <2>3, <2>5, <3>3
      <4> QED
        BY <4>1
    <3>4. CASE n = c /\ c # b
      <4>1. Journey[k + 3] = n /\ k + 3 \in 1..Len(Journey)
        BY <2>2, <2>3, <2>5, <3>4
      <4> QED
        BY <4>1
    <3>5. CASE n \in (c + 1)..spoken
      <4>1. PICK i \in 1..Len(wire) : wire[i] = n
        BY <2>2, <3>5 DEF OnWire
      <4>2. Journey[k + 3 + i] = n /\ k + 3 + i \in 1..Len(Journey)
        BY <2>3, <2>5, <4>1
      <4> QED
        BY <4>2
    <3> QED
      BY <2>2, <3>1, <3>2, <3>3, <3>4, <3>5
  <2>7. ASSUME NEW i \in 1..Len(Journey), Journey[i] \in Finals
        PROVE  \/ i \in 1..k /\ lines[i][1] = "caller" /\ Journey[i] = lines[i][2] /\ Journey[i] <= r
               \/ i = k + 1 /\ r < Journey[i] /\ Journey[i] <= a
               \/ i = k + 2 /\ a < Journey[i] /\ Journey[i] <= b
               \/ i = k + 3 /\ b < Journey[i] /\ Journey[i] <= c
               \/ \E q \in 1..Len(wire) : i = k + 3 + q /\ Journey[i] = wire[q] /\ c < Journey[i]
    <3>1. CASE i \in 1..k
      <4>1. lines[i][1] = "caller" /\ Journey[i] = lines[i][2]
        BY <2>4, <2>5, <2>7, <3>1, Codes
      <4>2. lines[i][2] <= r
        BY <2>2, <3>1, <4>1 DEF StoredTo, k
      <4> QED
        BY <3>1, <4>1, <4>2
    <3>2. CASE i = k + 1
      BY <2>2, <2>5, <2>7, <3>2, Codes
    <3>3. CASE i = k + 2
      BY <2>2, <2>5, <2>7, <3>3, Codes
    <3>4. CASE i = k + 3
      BY <2>2, <2>5, <2>7, <3>4, Codes
    <3>5. CASE i > k + 3
      <4>1. PICK q \in 1..Len(wire) : i = k + 3 + q
        <5>1. Len(Journey) = k + 3 + Len(wire) /\ i \in Nat /\ i <= Len(Journey)
          BY <2>3, <2>5
        <5>2. i - (k + 3) \in 1..Len(wire) /\ i = k + 3 + (i - (k + 3))
          BY <2>3, <5>1, <3>5
        <5> QED
          BY <5>2
      <4>2. Journey[i] = wire[q]
        BY <2>5, <4>1
      <4>3. c < wire[q]
        BY <2>2, <2>7, <4>2 DEF OnWire
      <4> QED
        BY <4>1, <4>2, <4>3
    <3> QED
      BY <2>3, <2>5, <3>1, <3>2, <3>3, <3>4, <3>5
  <2>8. ASSUME NEW i \in 1..Len(Journey), NEW j \in 1..Len(Journey), i < j,
               Journey[i] \in Finals, Journey[j] \in Finals
        PROVE  Journey[i] < Journey[j]
    <3>1. Journey[i] \in Nat /\ Journey[j] \in Nat /\ i \in Nat /\ j \in Nat
      BY <2>8 DEF Finals
    <3>2. r <= a /\ a <= b /\ b <= c
      BY <2>2
    <3>3. CASE i \in 1..k /\ j \in 1..k
      <4>1. lines[i][1] = "caller" /\ Journey[i] = lines[i][2]
        BY <2>3, <2>7, <2>8, <3>3
      <4>2. lines[j][1] = "caller" /\ Journey[j] = lines[j][2]
        BY <2>3, <2>7, <2>8, <3>3
      <4>3. i \in 1..Len(lines) /\ j \in 1..Len(lines)
        BY <3>3 DEF k
      <4> QED
        BY <2>2, <2>8, <4>1, <4>2, <4>3 DEF StoredTo
    <3>4. CASE i > k + 3 /\ j > k + 3
      <4>1. PICK q \in 1..Len(wire) : i = k + 3 + q /\ Journey[i] = wire[q]
        <5>1. ~(i \in 1..k) /\ i # k + 1 /\ i # k + 2 /\ i # k + 3
          BY <2>3, <3>1, <3>4
        <5> QED
          BY <2>7, <2>8, <5>1
      <4>2. PICK p \in 1..Len(wire) : j = k + 3 + p /\ Journey[j] = wire[p]
        <5>1. ~(j \in 1..k) /\ j # k + 1 /\ j # k + 2 /\ j # k + 3
          BY <2>3, <3>1, <3>4
        <5> QED
          BY <2>7, <2>8, <5>1
      <4>3. q < p
        BY <2>3, <2>8, <4>1, <4>2
      <4> QED
        BY <2>2, <2>8, <4>1, <4>2, <4>3 DEF OnWire
    <3>5. CASE i \in 1..k /\ j > k
      BY <2>2, <2>3, <2>7, <2>8, <3>1, <3>2, <3>5
    <3>6. CASE i > k /\ i <= k + 3
      BY <2>2, <2>3, <2>7, <2>8, <3>1, <3>2, <3>6
    <3> QED
      BY <2>3, <2>8, <3>1, <3>3, <3>4, <3>5, <3>6
  <2> QED
    BY <2>6, <2>8 DEF EveryWordRecorded
<1> QED
  BY <1>1, CallHolds, PTL

\* An answer is stored right after the line it answers: no question is answered twice, nor
\* after the next one.
THEOREM AnswersAreInPlace == Spec => []AnswersFollowTheirQuestion
<1>1. CallInv => AnswersFollowTheirQuestion
  BY DEF CallInv
<1> QED
  BY <1>1, CallHolds, PTL

\* What the caller heard of an answer, cut short or not, is in the transcript before
\* anything else is said.
THEOREM TheTranscriptKnows == Spec => []HeardIsStored
<1>1. CallInv => HeardIsStored
  BY DEF CallInv, HeardIsKept, HeardIsStored, Quiet
<1> QED
  BY <1>1, CallHolds, PTL

\* Once the driver has seen the caller cut in, no more of the answer is queued.
THEOREM BargeInStops == Spec => NothingQueuedAfterBargeIn
<1>1. ASSUME CallInv, [Next]_vars, pc = "stopping" PROVE Len(buffer') <= Len(buffer)
  <2>1. SpeechTypes /\ barge /\ (task = "emit" => said \in 1..MaxPhrases) /\ Len(buffer) \in Nat
    BY <1>1, SpeechTypesAre DEF CallInv, CallShape, SpeechTypes
  <2>2. CASE Voice
    BY <2>1, <2>2, SpeakAdds DEF Voice
  <2>3. CASE Playback
    BY <2>1, <2>3, PlaysTyped DEF Playback
  <2>4. CASE buffer' = buffer
    BY <2>1, <2>4
  <2>5. ~Answer
    BY <1>1 DEF Answer
  <2>6. VoiceFails => buffer' = buffer
    BY DEF VoiceFails, SpeechFails
  <2>7. Driver /\ ~Answer => buffer' = buffer
    BY DEF Driver, Decide, Read, StoreCaller, BargeIn, LetFinish, RaceBroken, AfterBargeIn, AfterAnswer,
           AnswerRaises, Close, speech
  <2>8. Caller \/ Pull \/ Person \/ TransferCall \/ EndCall \/ UNCHANGED vars => buffer' = buffer
    BY DEF Caller, SayPartial, SayFinal, HangUp, RecogniserBreaks, Pull, Person, TakeOver, Resume, TransferCall,
           EndCall, vars, speech
  <2> QED
    BY <1>1, <2>2, <2>3, <2>4, <2>5, <2>6, <2>7, <2>8 DEF Next
<1>2. CallInv /\ [Next]_vars => [pc = "stopping" => Len(buffer') <= Len(buffer)]_vars
  BY <1>1
<1> QED
  BY <1>2, CallHolds, PTL DEF Spec, NothingQueuedAfterBargeIn
=============================================================================
