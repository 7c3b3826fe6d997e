----------------------------- MODULE PhoneCall -----------------------------
(***************************************************************************)
(* One telephone call: run_call of api/channels/phone.py, with the answer  *)
(* it speaks (SpokenTurn), the caller, the recogniser's stream, the tools  *)
(* the model may call while it answers, and the people on the live screen  *)
(* who may take the conversation over.                                     *)
(*                                                                         *)
(* The driver keeps one read of the transcript stream in flight (pending)  *)
(* and races it against the answer being spoken. A transcript is a Final,  *)
(* numbered from 1 in the order it was spoken, or one of Partial, End (the *)
(* caller hung up) and Broken (the recogniser raised).                     *)
(***************************************************************************)
EXTENDS SpokenTurn, Integers

CONSTANTS MaxFinals,    \* bound: utterances of the caller
          MaxPartials,  \* bound: partial transcripts
          MaxFaults     \* bound: providers that raise

ASSUME PhoneCallAssumption ==
  MaxFinals \in Nat /\ MaxPartials \in Nat /\ MaxFaults \in Nat

Nobody == 0
Partial == -1
End == -2
Broken == -3
Waiting == -4

VARIABLES
  wire,      \* transcripts recognised and not yet read
  spoken,    \* Finals the caller has produced
  partials,
  hungUp,
  pending,   \* the read in flight: Waiting, or the transcript it returned
  carried,   \* a Final that interrupted, to be handled next (Nobody: none)
  pc,        \* where run_call is
  inhand,    \* the Final being handled
  answering, \* decided once, from the routing rule
  handling,  \* Conversation.handling
  closed,    \* Conversation.status = "closed"
  billed,    \* Call.billable_seconds is set
  lines,     \* the stored transcript: <<speaker, turn>>
  stored,    \* phrases inside stored agent lines
  faults

caller   == <<wire, spoken, partials, hungUp>>
driver   == <<pending, carried, pc, inhand, answering>>
rows     == <<handling, closed, billed>>
archive  == <<lines, stored>>
vars     == <<speech, caller, driver, rows, archive, faults>>

Finals == 1..MaxFinals
Transcripts == Finals \cup {Partial, End, Broken}

Init ==
  /\ SpeechInit
  /\ wire = <<>> /\ spoken = 0 /\ partials = 0 /\ hungUp = FALSE
  /\ pending = Waiting /\ carried = Nobody /\ inhand = Nobody
  /\ pc = "start" /\ answering = FALSE
  /\ handling = "ai" /\ closed = FALSE /\ billed = FALSE
  /\ lines = <<>> /\ stored = {} /\ faults = 0

----------------------------------------------------------------------------
\* The caller and the recogniser

Recognise(t) ==
  /\ ~hungUp
  /\ wire' = Append(wire, t)

SayPartial ==
  /\ Recognise(Partial)
  /\ partials < MaxPartials
  /\ partials' = partials + 1
  /\ UNCHANGED <<speech, spoken, hungUp, driver, rows, archive, faults>>

SayFinal ==
  /\ Recognise(spoken + 1)
  /\ spoken < MaxFinals
  /\ spoken' = spoken + 1
  /\ UNCHANGED <<speech, partials, hungUp, driver, rows, archive, faults>>

HangUp ==
  /\ Recognise(End)
  /\ hungUp' = TRUE
  /\ UNCHANGED <<speech, spoken, partials, driver, rows, archive, faults>>

RecogniserBreaks ==
  /\ Recognise(Broken)
  /\ faults < MaxFaults
  /\ faults' = faults + 1
  /\ hungUp' = TRUE
  /\ UNCHANGED <<speech, spoken, partials, driver, rows, archive>>

\* _next: the read in flight returns. An exhausted stream keeps returning the
\* end, which the driver never reads twice.
Pull ==
  /\ pc \notin {"start", "refused", "ended", "raised"}
  /\ pending = Waiting
  /\ wire # <<>>
  /\ pending' = Head(wire)
  /\ wire' = Tail(wire)
  /\ UNCHANGED <<speech, spoken, partials, hungUp, carried, pc, inhand, answering,
                 rows, archive, faults>>

----------------------------------------------------------------------------
\* People and tools

Live == pc \notin {"start", "refused"} /\ ~closed

\* POST takeover / resume from the live screen, on an open thread.
TakeOver ==
  /\ Live
  /\ handling' = "human"
  /\ UNCHANGED <<speech, caller, driver, closed, billed, archive, faults>>

Resume ==
  /\ Live
  /\ handling' = "ai"
  /\ UNCHANGED <<speech, caller, driver, closed, billed, archive, faults>>

\* The model calls a tool between two pieces of its answer.
TransferCall ==
  /\ task = "piece"
  /\ ~closed
  /\ handling' = "human"
  /\ UNCHANGED <<speech, caller, driver, closed, billed, archive, faults>>

EndCall ==
  /\ task = "piece"
  /\ ~closed
  /\ closed' = TRUE
  /\ UNCHANGED <<speech, caller, driver, handling, billed, archive, faults>>

----------------------------------------------------------------------------
\* run_call

\* routing.decide: block leaves no conversation, pass hands it to a person.
Decide(action) ==
  /\ pc = "start"
  /\ pc' = IF action = "block" THEN "refused" ELSE "read"
  /\ answering' = (action = "ai")
  /\ handling' = IF action = "pass" THEN "human" ELSE handling
  /\ UNCHANGED <<speech, caller, pending, carried, inhand, closed, billed, archive, faults>>

\* Mutant: the interrupting Final is read past.
NextTranscriptNoCarry ==
  /\ pending # Waiting
  /\ inhand' = pending
  /\ pending' = Waiting
  /\ carried' = Nobody

\* The next transcript: the one that interrupted, or the read in flight.
NextTranscript ==
  \/ carried # Nobody /\ inhand' = carried /\ carried' = Nobody /\ UNCHANGED pending
  \/ /\ carried = Nobody
     /\ pending # Waiting
     /\ inhand' = pending
     /\ pending' = Waiting
     /\ UNCHANGED carried

Read ==
  /\ pc = "read"
  /\ NextTranscript
  /\ pc' = CASE inhand' = End -> "close"
             [] inhand' = Partial -> "read"
             [] inhand' = Broken -> "raised"
             [] OTHER -> "store"
  /\ UNCHANGED <<speech, caller, answering, rows, archive, faults>>

\* The caller's line is stored; then it is answered, unless a rule gave the
\* call to a person.
StoreCaller ==
  /\ pc = "store"
  /\ lines' = Append(lines, <<"caller", inhand>>)
  /\ pc' = IF answering THEN "answer" ELSE "read"
  /\ UNCHANGED <<speech, caller, pending, carried, inhand, answering, rows, stored, faults>>

Answer ==
  /\ pc = "answer"
  /\ BeginTurn(inhand)
  /\ pc' = "race"
  /\ UNCHANGED <<caller, pending, carried, inhand, answering, rows, archive, faults>>

\* A mutant: the stop event is not set.
BargeInUnset ==
  /\ pc = "race"
  /\ pending \in Finals \cup {Partial}
  /\ carried' = IF pending \in Finals THEN pending ELSE Nobody
  /\ pending' = Waiting
  /\ pc' = "stopping"
  /\ UNCHANGED <<speech, caller, inhand, answering, rows, archive, faults>>

\* asyncio.wait: the caller spoke first (or at the same moment).
BargeIn ==
  /\ pc = "race"
  /\ pending \in Finals \cup {Partial}
  /\ barge' = TRUE
  /\ carried' = IF pending \in Finals THEN pending ELSE Nobody
  /\ pending' = Waiting
  /\ pc' = "stopping"
  /\ UNCHANGED <<task, turn, said, chunks, cut, buffer, heard, caller, inhand, answering,
                 rows, archive, faults>>

\* Mutant: the end of the stream is not waited for.
LetFinishDeaf ==
  /\ pc = "race"
  /\ ~Speaking /\ pending = Waiting
  /\ pc' = "finishing"
  /\ UNCHANGED <<speech, caller, pending, carried, inhand, answering, rows, archive, faults>>

\* asyncio.wait: the answer ended, or the stream did, which is no barge-in.
LetFinish ==
  /\ pc = "race"
  /\ pending = End \/ (~Speaking /\ pending = Waiting)
  /\ pc' = "finishing"
  /\ UNCHANGED <<speech, caller, pending, carried, inhand, answering, rows, archive, faults>>

\* pending.result() raises: run_call unwinds and nobody awaits the answer.
RaceBroken ==
  /\ pc = "race"
  /\ pending = Broken
  /\ pc' = "raised"
  /\ UNCHANGED <<speech, caller, pending, carried, inhand, answering, rows, archive, faults>>

\* Mutant: every phrase becomes a line of its own.
StoreAnswerByPhrase ==
  /\ lines' = lines \o [k \in 1..said |-> <<"agent", turn>>]
  /\ stored' = stored \cup {<<turn, k>> : k \in 1..said}

\* Mutant: an answer that was cut short is not stored.
StoreAnswerUncut ==
  IF said > 0 /\ ~cut
  THEN /\ lines' = Append(lines, <<"agent", turn>>)
       /\ stored' = stored \cup {<<turn, k>> : k \in 1..said}
  ELSE UNCHANGED archive

\* What the finished turn leaves in the archive: its phrases as one line.
StoreAnswer ==
  IF said > 0
  THEN /\ lines' = Append(lines, <<"agent", turn>>)
       /\ stored' = stored \cup {<<turn, k>> : k \in 1..said}
  ELSE UNCHANGED archive

AfterBargeIn ==
  /\ pc = "stopping"
  /\ task = "done"
  /\ StoreAnswer
  /\ pc' = "read"
  /\ UNCHANGED <<speech, caller, pending, carried, inhand, answering, rows, faults>>

AfterAnswer ==
  /\ pc = "finishing"
  /\ task = "done"
  /\ StoreAnswer
  /\ pc' = CASE pending = End -> "close"
             [] pending = Broken -> "raised"
             [] OTHER -> "read"
  /\ UNCHANGED <<speech, caller, pending, carried, inhand, answering, rows, faults>>

\* await task raises what the answer raised.
AnswerRaises ==
  /\ pc \in {"stopping", "finishing"}
  /\ task = "failed"
  /\ pc' = "raised"
  /\ UNCHANGED <<speech, caller, pending, carried, inhand, answering, rows, archive, faults>>

\* The stream ended: the conversation is closed and the call is billed.
Close ==
  /\ pc = "close"
  /\ closed' = TRUE
  /\ billed' = TRUE
  /\ pc' = "ended"
  /\ UNCHANGED <<speech, caller, pending, carried, inhand, answering, handling, archive, faults>>

----------------------------------------------------------------------------
Caller == SayPartial \/ SayFinal \/ HangUp \/ RecogniserBreaks

Person == TakeOver \/ Resume

Driver ==
  \/ \E action \in {"ai", "pass", "block"} : Decide(action)
  \/ Read \/ StoreCaller \/ Answer \/ BargeIn \/ LetFinish \/ RaceBroken
  \/ AfterBargeIn \/ AfterAnswer \/ AnswerRaises \/ Close

Voice ==
  /\ Speak
  /\ UNCHANGED <<caller, driver, rows, archive, faults>>

VoiceFails ==
  /\ SpeechFails
  /\ faults < MaxFaults
  /\ faults' = faults + 1
  /\ UNCHANGED <<caller, driver, rows, archive>>

Playback ==
  /\ Play
  /\ UNCHANGED <<caller, driver, rows, archive, faults>>

Next ==
  \/ Caller \/ Pull \/ Person \/ TransferCall \/ EndCall
  \/ Driver \/ Voice \/ VoiceFails \/ Playback

Spec == Init /\ [][Next]_vars

\* The event loop schedules the driver, the read in flight and the answer, and
\* the room plays what it was given. The caller, the people and the tools owe
\* nothing, except that every caller hangs up in the end.
Fairness ==
  /\ WF_vars(Pull) /\ WF_vars(Driver) /\ WF_vars(Voice) /\ WF_vars(Playback)
  /\ WF_vars(HangUp)

FairSpec == Spec /\ Fairness

----------------------------------------------------------------------------
\* Properties

TypeOK ==
  /\ task \in {"none", "piece", "emit", "flush", "done", "failed"}
  /\ turn \in 0..MaxFinals
  /\ barge \in BOOLEAN /\ cut \in BOOLEAN
  /\ said \in 0..MaxPhrases /\ chunks \in 0..MaxChunks
  /\ buffer \in Seq(Finals \X (1..MaxPhrases)) /\ Len(buffer) <= Capacity
  /\ heard \subseteq Finals \X (1..MaxPhrases)
  /\ wire \in Seq(Transcripts)
  /\ spoken \in 0..MaxFinals /\ partials \in 0..MaxPartials /\ hungUp \in BOOLEAN
  /\ pending \in Transcripts \cup {Waiting}
  /\ carried \in 0..MaxFinals
  /\ inhand \in Transcripts \cup {Nobody}
  /\ pc \in {"start", "refused", "read", "store", "answer", "race", "stopping",
             "finishing", "close", "ended", "raised"}
  /\ answering \in BOOLEAN /\ handling \in {"ai", "human"}
  /\ closed \in BOOLEAN /\ billed \in BOOLEAN
  /\ lines \in Seq({"caller", "agent"} \X Finals)
  /\ stored \subseteq Finals \X (1..MaxPhrases)
  /\ faults \in 0..MaxFaults

\* Where a transcript may be: stored (an agent's line counts for nobody's), being handled,
\* interrupting, read ahead, on the wire.
Journey ==
  [i \in 1..Len(lines) |-> IF lines[i][1] = "caller" THEN lines[i][2] ELSE Nobody]
    \o <<IF pc = "store" THEN inhand ELSE Nobody, carried, pending>> \o wire

\* No utterance of the caller is lost, doubled or reordered by the race: the
\* stored lines, the one being handled, the one that interrupted, the one read
\* ahead and those still on the wire are all the caller said, in order.
EveryWordRecorded ==
  /\ \A n \in 1..spoken : \E i \in 1..Len(Journey) : Journey[i] = n
  /\ \A i, j \in 1..Len(Journey) :
       i < j /\ Journey[i] \in Finals /\ Journey[j] \in Finals => Journey[i] < Journey[j]

\* An agent line stands right after the caller line it answers, so a question
\* is never answered twice nor answered after the next one was stored.
AnswersFollowTheirQuestion ==
  \A i \in 1..Len(lines) :
    lines[i][1] = "agent" => i > 1 /\ lines[i - 1] = <<"caller", lines[i][2]>>

\* Whatever the caller heard of an answer, be it one chunk of a phrase that was cut, is in
\* the transcript before anything else is said: the colleague who reads the call knows
\* what the caller knows (run_call stores turn.said after a barge-in too).
HeardIsStored == pc \in {"read", "store", "answer", "close", "ended"} => heard \subseteq stored

\* The caller hangs up: the call is closed and billed (or was never opened), unless a
\* provider raises out of run_call.
CallCloses == hungUp ~> (pc \in {"ended", "refused"} \/ faults > 0)

\* From the moment the driver has seen the caller cut in, not one more chunk of
\* the answer is queued, however much of it is still being generated.
NothingQueuedAfterBargeIn ==
  [][pc = "stopping" => Len(buffer') <= Len(buffer)]_vars

=============================================================================
