------------------------------- MODULE Thread -------------------------------
(***************************************************************************)
(* One customer's conversations and what the staff may do in them:         *)
(* api/routes/conversations.py, and the tools of api/agent_tools.py that   *)
(* change a conversation.                                                  *)
(*                                                                         *)
(* A line of the transcript is [thread, who, text]. What it says is left   *)
(* out: `text` only tells lines of one speaker apart. The customer's texts *)
(* are numbered by the customer, an agent's text carries the number of the *)
(* exchange it answers, a person's text is numbered as it is typed. On a   *)
(* channel with a push transport (Push) a person's reply is handed to the  *)
(* platform before it is stored; on the web storing it is delivering it.   *)
(***************************************************************************)
EXTENDS Naturals, Sequences

CONSTANTS People,      \* the staff who may intervene
          Push,        \* TRUE on a channel with a push transport
          MaxThreads,  \* bound: conversations of this customer
          MaxTyped     \* bound: whispers and replies typed by the staff

ASSUME ThreadAssumption ==
  /\ Push \in BOOLEAN
  /\ MaxThreads \in Nat \ {0}
  /\ MaxTyped \in Nat

Speakers == {"caller", "agent", "human", "whisper"}

VARIABLES
  threads,  \* rows of conversations, in the order they were created
  lines,    \* rows of messages, in the order they were stored
  outbox,   \* what the platform accepted: <<who, text, piece>>
  person,   \* what each member of staff is in the middle of
  typed     \* how many texts the staff have typed

threadVars == <<threads, lines, outbox, person, typed>>

Threads   == 1..Len(threads)
IsOpen(c) == c \in Threads /\ threads[c].status = "open"
OpenOnes  == {c \in Threads : IsOpen(c)}
Taken(c)  == c \in Threads /\ threads[c].handling = "human"

Line(c, who, text) == [thread |-> c, who |-> who, text |-> text]
Stored == {lines[i] : i \in 1..Len(lines)}

Resting == [at |-> "idle", thread |-> 0, text |-> 0]

ThreadInit ==
  /\ threads = <<>>
  /\ lines = <<>>
  /\ outbox = {}
  /\ person = [p \in People |-> Resting]
  /\ typed = 0

ThreadTypeOK ==
  /\ \A c \in Threads : threads[c].status \in {"open", "closed"}
                        /\ threads[c].handling \in {"ai", "human"}
  /\ \A i \in 1..Len(lines) : lines[i].thread \in Threads
                              /\ lines[i].who \in Speakers
  /\ \A p \in People : person[p].at \in {"idle", "replying", "delivered"}
  /\ typed \in 0..MaxTyped

(***************************************************************************)
(* The two switches. Pressing one twice changes nothing the second time.   *)
(***************************************************************************)
TakeOver(c) ==
  /\ IsOpen(c)
  /\ threads' = [threads EXCEPT ![c].handling = "human"]
  /\ UNCHANGED <<lines, outbox, person, typed>>

Resume(c) ==
  /\ IsOpen(c)
  /\ threads' = [threads EXCEPT ![c].handling = "ai"]
  /\ UNCHANGED <<lines, outbox, person, typed>>

\* Coaching the customer does not see; a closed thread refuses it.
Whisper(c) ==
  /\ IsOpen(c)
  /\ typed < MaxTyped
  /\ typed' = typed + 1
  /\ lines' = Append(lines, Line(c, "whisper", typed'))
  /\ UNCHANGED <<threads, outbox, person>>

(***************************************************************************)
(* reply_as_business: the row is read and both refusals are decided, the   *)
(* platform is waited for, and only then is the line written. Nothing is   *)
(* read again in between.                                                  *)
(***************************************************************************)
ReplyChecks(p, c) ==
  /\ person[p].at = "idle"
  /\ IsOpen(c) /\ Taken(c)
  /\ typed < MaxTyped
  /\ typed' = typed + 1
  /\ person' = [person EXCEPT ![p] =
                  [at |-> "replying", thread |-> c, text |-> typed']]
  /\ UNCHANGED <<threads, lines, outbox>>

ReplyDelivered(p) ==
  /\ Push /\ person[p].at = "replying"
  /\ outbox' = outbox \cup {<<"human", person[p].text, 1>>}
  /\ person' = [person EXCEPT ![p].at = "delivered"]
  /\ UNCHANGED <<threads, lines, typed>>

\* 502 not_delivered: nothing is written.
ReplyRefused(p) ==
  /\ Push /\ person[p].at = "replying"
  /\ person' = [person EXCEPT ![p] = Resting]
  /\ UNCHANGED <<threads, lines, outbox, typed>>

ReplyStores(p) ==
  /\ person[p].at = IF Push THEN "delivered" ELSE "replying"
  /\ lines' = Append(lines, Line(person[p].thread, "human", person[p].text))
  /\ person' = [person EXCEPT ![p] = Resting]
  /\ UNCHANGED <<threads, outbox, typed>>

Staff ==
  \/ \E c \in Threads : TakeOver(c) \/ Resume(c) \/ Whisper(c)
  \/ \E p \in People, c \in Threads : ReplyChecks(p, c)
  \/ \E p \in People : ReplyDelivered(p) \/ ReplyRefused(p) \/ ReplyStores(p)

(***************************************************************************)
(* What the agent may do to the conversation it is answering. Each tool    *)
(* reads the row itself and does nothing to a conversation that has ended. *)
(* (transfer_call and end_call leave everything but the row alone.)        *)
(***************************************************************************)
TransferCall(c) ==
  threads' = IF IsOpen(c) THEN [threads EXCEPT ![c].handling = "human"] ELSE threads

EndCall(c) ==
  threads' = IF IsOpen(c) THEN [threads EXCEPT ![c].status = "closed"] ELSE threads

\* A new conversation: inbound, open, answered by the agent.
NewThread == Append(threads, [status |-> "open", handling |-> "ai"])
=============================================================================
