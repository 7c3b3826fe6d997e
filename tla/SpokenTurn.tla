----------------------------- MODULE SpokenTurn -----------------------------
(***************************************************************************)
(* Speaking one answer: speak() of agent/session/turn.py over the sink of  *)
(* agent/session/audio.py and livekit_room.py.                             *)
(*                                                                         *)
(* The reply's text arrives in pieces; a piece completes zero or more      *)
(* phrases, and every phrase becomes one or more chunks of audio that are  *)
(* queued for playback while the rest is still being generated. should_stop*)
(* is polled before a piece is used and before a chunk is queued, nowhere  *)
(* else. A phrase is <<turn, n>>; what it says is left out.                *)
(***************************************************************************)
EXTENDS Naturals, Sequences

CONSTANTS MaxPhrases,  \* bound: phrases of one answer
          MaxChunks,   \* bound: audio chunks of one phrase
          Capacity     \* the playback queue's length (AudioSource paces writes)

ASSUME SpokenTurnAssumption ==
  /\ MaxPhrases \in Nat
  /\ MaxChunks \in Nat \ {0}
  /\ Capacity \in Nat \ {0}

VARIABLES
  task,     \* none, piece, emit, flush, done or failed: where speak() is
  turn,     \* which caller line is being answered
  barge,    \* the stop event
  said,     \* how many phrases speak() has appended to `said`
  chunks,   \* chunks of the current phrase still to be queued
  cut,      \* TurnResult.interrupted
  buffer,   \* queued and not yet heard: a sequence of phrases, one per chunk
  heard     \* phrases of which the caller heard something

speech == <<task, turn, barge, said, chunks, cut, buffer, heard>>

Speaking == task \in {"piece", "emit", "flush"}

SpeechInit ==
  /\ task = "none" /\ turn = 0 /\ barge = FALSE /\ said = 0
  /\ chunks = 0 /\ cut = FALSE /\ buffer = <<>> /\ heard = {}

\* _answer creates the task with a fresh stop event.
BeginTurn(n) ==
  /\ task' = "piece"
  /\ turn' = n
  /\ barge' = FALSE
  /\ said' = 0
  /\ cut' = FALSE
  /\ UNCHANGED <<chunks, buffer, heard>>

\* The next phrase goes into `said` and then to the synthesiser.
BeginPhrase ==
  /\ said < MaxPhrases
  /\ said' = said + 1
  /\ chunks' \in 1..MaxChunks
  /\ task' = "emit"
  /\ UNCHANGED <<turn, barge, cut, buffer, heard>>

\* A piece (or the tail) completes a phrase, and nobody has cut in.
PieceSpoken == task = "piece" /\ ~barge /\ BeginPhrase

\* A piece arrives after the caller cut in: generation is closed.
PieceStopped ==
  /\ task = "piece"
  /\ barge
  /\ task' = "flush"
  /\ cut' = TRUE
  /\ UNCHANGED <<turn, barge, said, chunks, buffer, heard>>

\* The reply ended on its own; nothing is polled any more.
ReplyEnds ==
  /\ task = "piece"
  /\ task' = "done"
  /\ UNCHANGED <<turn, barge, said, chunks, cut, buffer, heard>>

ChunkQueued ==
  /\ task = "emit"
  /\ chunks > 0
  /\ ~barge
  /\ Len(buffer) < Capacity
  /\ buffer' = Append(buffer, <<turn, said>>)
  /\ chunks' = chunks - 1
  /\ UNCHANGED <<task, turn, barge, said, cut, heard>>

ChunkStopped ==
  /\ task = "emit"
  /\ chunks > 0
  /\ barge
  /\ task' = "flush"
  /\ cut' = TRUE
  /\ chunks' = 0
  /\ UNCHANGED <<turn, barge, said, buffer, heard>>

\* The phrase was queued whole: the same piece may hold another phrase, which
\* is begun without polling, or the next piece is awaited.
PhraseEnds ==
  /\ task = "emit"
  /\ chunks = 0
  /\ \/ BeginPhrase
     \/ task' = "piece" /\ UNCHANGED <<turn, barge, said, chunks, cut, buffer, heard>>

\* sink.flush(): what was queued and not heard is discarded.
Flush ==
  /\ task = "flush"
  /\ buffer' = <<>>
  /\ task' = "done"
  /\ UNCHANGED <<turn, barge, said, chunks, cut, heard>>

\* The model or the synthesiser raises.
SpeechFails ==
  /\ task \in {"piece", "emit"}
  /\ task' = "failed"
  /\ chunks' = 0
  /\ UNCHANGED <<turn, barge, said, cut, buffer, heard>>

\* The room plays the oldest queued chunk.
Play ==
  /\ buffer # <<>>
  /\ heard' = heard \cup {Head(buffer)}
  /\ buffer' = Tail(buffer)
  /\ UNCHANGED <<task, turn, barge, said, chunks, cut>>

Speak ==
  \/ PieceSpoken \/ PieceStopped \/ ReplyEnds
  \/ ChunkQueued \/ ChunkStopped \/ PhraseEnds \/ Flush

Queued == {buffer[i] : i \in 1..Len(buffer)}
=============================================================================
