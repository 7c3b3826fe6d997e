------------------------------ MODULE ToolTurn ------------------------------
(***************************************************************************)
(* One answer of the agent: reply() and _run() of agent/reply.py, with the *)
(* channels' on_message_taken behind them.                                 *)
(*                                                                         *)
(* A round is one generation: pieces of text and tool calls in any order.  *)
(* When it asked for tools, each call is run in turn and the model is given*)
(* every answer before the next round; after MaxRounds rounds the turn     *)
(* ends. A call is reduced to what _run() tells apart.                     *)
(***************************************************************************)
EXTENDS Naturals, Sequences

CONSTANTS MaxRounds,  \* MAX_TOOL_ROUNDS
          MaxCalls,   \* bound: calls of one round
          MaxSaid     \* bound: pieces of text of one turn

ASSUME ToolTurnAssumption ==
  MaxRounds \in Nat \ {0} /\ MaxCalls \in Nat \ {0} /\ MaxSaid \in Nat

\* no such tool; arguments that are not an object; a ToolError; a tool that answered;
\* take_message with valid arguments.
Kinds == {"unknown", "malformed", "refused", "answered", "take_message"}

\* What the tray can show: MESSAGES of api/notifications.py.
MESSAGES == {"backup_failed", "backup_unverified", "backup_no_target", "restore_staged",
             "task_failed", "mail_failed", "web_chat_started", "channel_down",
             "channel_recovered", "agent_notification", "transfer_requested",
             "routed_to_person"}

VARIABLES
  at,        \* streaming, running, done, provider_raised or tool_raised
  round,     \* rounds begun
  calls,     \* the calls of this round that have not run
  asked,     \* every call the model was recorded as asking, as <<round, n>>
  told,      \* every call whose answer was put into `messages`
  said,      \* pieces of text yielded
  taken      \* messages the tool said were taken

vars == <<at, round, calls, asked, told, said, taken>>

Init ==
  /\ at = "streaming" /\ round = 1 /\ calls = <<>>
  /\ asked = <<>> /\ told = <<>> /\ said = 0 /\ taken = 0

\* A TextDelta is yielded as it comes.
Speak ==
  /\ at = "streaming" /\ said < MaxSaid
  /\ said' = said + 1
  /\ UNCHANGED <<at, round, calls, asked, told, taken>>

AsksFor(kind) ==
  /\ at = "streaming" /\ Len(calls) < MaxCalls
  /\ calls' = Append(calls, kind)
  /\ UNCHANGED <<at, round, asked, told, said, taken>>

\* The generation ends: without calls the turn is over, otherwise the asking turn is
\* recorded whole before any of its calls runs.
StreamEnds ==
  /\ at = "streaming"
  /\ IF calls = <<>>
     THEN at' = "done" /\ UNCHANGED asked
     ELSE /\ at' = "running"
          /\ asked' = asked \o [n \in 1..Len(calls) |-> <<round, n>>]
  /\ UNCHANGED <<round, calls, told, said, taken>>

\* A model that fails in mid-sentence is deliberately not caught.
ProviderRaises ==
  /\ at = "streaming"
  /\ at' = "provider_raised"
  /\ UNCHANGED <<round, calls, asked, told, said, taken>>

\* The channels' on_message_taken raises when the tray does not know the message:
\* check_message runs before raise_notification's own try.
TrayRefuses == "message_taken" \notin MESSAGES

\* The last call of the round has run: the next round, or the ceiling.
AfterRun(rest) ==
  IF rest # <<>> THEN at' = "running" /\ UNCHANGED round
  ELSE IF round = MaxRounds THEN at' = "done" /\ UNCHANGED round
  ELSE at' = "streaming" /\ round' = round + 1

\* The first call that has not run; the id is its place in the round's record.
Current == asked[Len(told) + 1]

\* A mutant: a call nobody can run is skipped instead of answered.
RunCallSkips ==
  /\ at = "running"
  /\ Head(calls) # "take_message"
  /\ told' = IF Head(calls) = "unknown" THEN told
             ELSE Append(told, Current)
  /\ calls' = Tail(calls)
  /\ AfterRun(Tail(calls))
  /\ UNCHANGED <<asked, said, taken>>

\* A mutant: a call the tool refused is made again.
RunCallRetries ==
  /\ at = "running"
  /\ Head(calls) # "take_message"
  /\ IF Head(calls) = "refused"
     THEN UNCHANGED <<at, round, calls, told>>
     ELSE /\ told' = Append(told, Current)
          /\ calls' = Tail(calls)
          /\ AfterRun(Tail(calls))
  /\ UNCHANGED <<asked, said, taken>>

RunCall ==
  /\ at = "running"
  /\ Head(calls) # "take_message"
  /\ told' = Append(told, Current)
  /\ calls' = Tail(calls)
  /\ AfterRun(Tail(calls))
  /\ UNCHANGED <<asked, said, taken>>

\* The tool has answered; the channel is told of the message before the model is.
TakeMessage ==
  /\ at = "running"
  /\ Head(calls) = "take_message"
  /\ taken' = taken + 1
  /\ IF TrayRefuses
     THEN at' = "tool_raised" /\ UNCHANGED <<round, calls, told>>
     ELSE /\ told' = Append(told, Current)
          /\ calls' = Tail(calls)
          /\ AfterRun(Tail(calls))
  /\ UNCHANGED <<asked, said>>

Next ==
  \/ Speak \/ \E kind \in Kinds : AsksFor(kind)
  \/ StreamEnds \/ ProviderRaises \/ RunCall \/ TakeMessage

Spec == Init /\ [][Next]_vars

\* The provider ends its stream, and the process runs what was asked.
FairSpec == Spec /\ WF_vars(StreamEnds) /\ WF_vars(RunCall \/ TakeMessage)

(***************************************************************************)
(* Properties.                                                             *)
(***************************************************************************)
\* The shape of the state, and never more rounds than the ceiling.
TypeOK ==
  /\ at \in {"streaming", "running", "done", "provider_raised", "tool_raised"}
  /\ round \in 1..MaxRounds
  /\ Len(calls) <= MaxCalls
  /\ said \in 0..MaxSaid

\* Whenever the model is asked again it has been given the answer of every call it
\* made, each once and in the order it made them: a conversation in which a call has
\* no answer is refused by the provider (reply, the loop over calls).
ModelIsTold == at = "streaming" => told = asked

\* A model that only calls tools is stopped: every turn ends (MAX_TOOL_ROUNDS).
TurnEnds == <>(at \in {"done", "provider_raised", "tool_raised"})

=============================================================================
