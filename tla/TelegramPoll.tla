---------------------------- MODULE TelegramPoll ----------------------------
(***************************************************************************)
(* The Telegram transport: loop, poll_once, _handle_update and             *)
(* _reply_and_send of api/channels/telegram.py.                            *)
(*                                                                         *)
(* One process polls, one update at a time. Telegram keeps an update until *)
(* a getUpdates call carries a higher offset; the offset is committed      *)
(* before the batch is handled. Updates are numbered in the order the      *)
(* customers wrote them; each is one text of one chat. A crash forgets the *)
(* batch in memory; the offset and the transcript survive.                 *)
(***************************************************************************)
EXTENDS Naturals, Sequences

CONSTANTS Chats,       \* customers who write to the bot
          MaxUpdates,  \* bound: updates
          Rules,       \* what routing.decide may answer
          MaxCrashes,  \* bound: stops of the process
          MaxFaults,   \* bound: calls that fail with an error the pass catches
          MaxEscapes   \* bound: failures it does not catch

ASSUME TelegramAssumption ==
  /\ MaxUpdates \in Nat
  /\ Rules \subseteq {"ai", "pass", "block"}
  /\ MaxCrashes \in Nat /\ MaxFaults \in Nat /\ MaxEscapes \in Nat

VARIABLES
  updates,  \* the chat of every update Telegram has been given, by update_id
  offset,   \* settings_json.poll_offset: the first update not yet confirmed
  batch,    \* updates of this pass that are still to be handled
  at,       \* where the loop is
  now,      \* the update being handled
  conv,     \* [Chats -> whose the chat's open conversation is]: none, ai,
            \* human (a rule or a tool handed it over) or taken (a colleague did)
  seen,     \* the handling the loop read for the update being handled
  lines,    \* the transcript: <<update, speaker>> in the order they were stored
  sent,     \* answers Telegram accepted, by the update they answer
  fate,     \* what became of every update
  crashes, faults, escapes

chat     == <<updates, conv>>
loop     == <<offset, batch, at, now, seen>>
outcome  == <<lines, sent, fate>>
bounds   == <<crashes, faults, escapes>>
vars     == <<chat, loop, outcome, bounds>>

Fates == {"waiting", "blocked", "withheld", "answered", "silent", "failed", "lost", "dropped"}

Init ==
  /\ updates = <<>> /\ offset = 1 /\ batch = <<>> /\ at = "idle" /\ now = 0
  /\ conv = [c \in Chats |-> "none"] /\ seen = "none"
  /\ lines = <<>> /\ sent = <<>> /\ fate = <<>>
  /\ crashes = 0 /\ faults = 0 /\ escapes = 0

Human(whose) == whose \in {"human", "taken"}

Ended(u, how) == fate' = [fate EXCEPT ![u] = how]

(***************************************************************************)
(* The customers and the staff.                                            *)
(***************************************************************************)
Write(c) ==
  /\ Len(updates) < MaxUpdates
  /\ updates' = Append(updates, c)
  /\ fate' = Append(fate, "waiting")
  /\ UNCHANGED <<offset, batch, at, now, conv, seen, lines, sent, bounds>>

TakeOver(c) ==
  /\ conv[c] = "ai"
  /\ conv' = [conv EXCEPT ![c] = "taken"]
  /\ UNCHANGED <<updates, offset, batch, at, now, seen, lines, sent, fate, bounds>>

Resume(c) ==
  /\ Human(conv[c])
  /\ conv' = [conv EXCEPT ![c] = "ai"]
  /\ UNCHANGED <<updates, offset, batch, at, now, seen, lines, sent, fate, bounds>>

(***************************************************************************)
(* poll_once.                                                              *)
(***************************************************************************)
\* A mutant: the newest update comes first.
FromNewest(n) == [i \in 1..(Len(updates) + 1 - n) |-> Len(updates) + 1 - i]

From(n) == [i \in 1..(Len(updates) + 1 - n) |-> n + i - 1]

\* getUpdates, without confirming anything yet.
GetUpdates ==
  /\ at = "idle" /\ offset <= Len(updates)
  /\ batch' = From(offset)
  /\ at' = "fetched"
  /\ UNCHANGED <<updates, offset, now, conv, seen, lines, sent, fate, bounds>>

\* A mutant: the offset is taken from the last update, not past it.
ConfirmsShort ==
  /\ at = "fetched"
  /\ offset' = batch[Len(batch)]
  /\ at' = "batch"
  /\ UNCHANGED <<updates, batch, now, conv, seen, lines, sent, fate, bounds>>

\* The offset is advanced past the whole batch and committed before any of it.
Confirms ==
  /\ at = "fetched"
  /\ offset' = batch[Len(batch)] + 1
  /\ at' = "batch"
  /\ UNCHANGED <<updates, batch, now, conv, seen, lines, sent, fate, bounds>>

\* getUpdates fails: the channel is reported down and left for the next pass.
PollFails ==
  /\ at = "idle" /\ faults < MaxFaults
  /\ faults' = faults + 1
  /\ UNCHANGED <<chat, loop, outcome, crashes, escapes>>

\* A mutant: the pass ends one update early.
NextUpdateShort ==
  /\ at = "batch"
  /\ IF Len(batch) < 2
     THEN at' = "idle" /\ batch' = <<>> /\ UNCHANGED now
     ELSE at' = "update" /\ now' = Head(batch) /\ batch' = Tail(batch)
  /\ UNCHANGED <<updates, offset, conv, seen, lines, sent, fate, bounds>>

NextUpdate ==
  /\ at = "batch"
  /\ IF batch = <<>>
     THEN at' = "idle" /\ UNCHANGED <<now, batch>>
     ELSE at' = "update" /\ now' = Head(batch) /\ batch' = Tail(batch)
  /\ UNCHANGED <<updates, offset, conv, seen, lines, sent, fate, bounds>>

(***************************************************************************)
(* _handle_update.                                                         *)
(***************************************************************************)
Blocks ==
  /\ at = "update" /\ "block" \in Rules
  /\ Ended(now, "blocked")
  /\ at' = "batch"
  /\ UNCHANGED <<updates, offset, batch, now, conv, seen, lines, sent, bounds>>

\* The open thread, or a new one; apply_pass hands it to a person.
Routes ==
  /\ at = "update"
  /\ \E rule \in Rules \ {"block"} :
       LET mine   == conv[updates[now]]
           handed == IF rule = "pass" /\ ~Human(mine) THEN "human"
                     ELSE IF mine = "none" THEN "ai" ELSE mine
       IN  /\ conv' = [conv EXCEPT ![updates[now]] = handed]
           /\ seen' = handed
  /\ at' = "routed"
  /\ UNCHANGED <<updates, offset, batch, now, lines, sent, fate, bounds>>

StoresLine ==
  /\ at = "routed"
  /\ lines' = Append(lines, <<now, "caller">>)
  /\ at' = "stored"
  /\ UNCHANGED <<updates, offset, batch, now, conv, seen, sent, fate, bounds>>

\* Whose thread it was when it was read decides.
Withholds ==
  /\ at = "stored" /\ Human(seen)
  /\ Ended(now, "withheld")
  /\ at' = "batch"
  /\ UNCHANGED <<updates, offset, batch, now, conv, seen, lines, sent, bounds>>

\* The model writes; the tools may take the thread away or end it meanwhile.
Generates ==
  /\ at = "stored" /\ ~Human(seen)
  /\ at' = "sending"
  /\ \/ UNCHANGED conv
     \/ conv' = [conv EXCEPT ![updates[now]] = IF @ = "ai" THEN "human" ELSE @]
     \/ conv' = [conv EXCEPT ![updates[now]] = "none"]
  /\ UNCHANGED <<updates, offset, batch, now, seen, lines, sent, fate, bounds>>

\* sendMessage is accepted: the answer may be stored now, not before.
Sends ==
  /\ at = "sending"
  /\ sent' = Append(sent, now)
  /\ at' = "sent"
  /\ UNCHANGED <<updates, offset, batch, now, conv, seen, lines, fate, bounds>>

StoresAnswer ==
  /\ at = "sent"
  /\ lines' = Append(lines, <<now, "agent">>)
  /\ Ended(now, "answered")
  /\ at' = "batch"
  /\ UNCHANGED <<updates, offset, batch, now, conv, seen, sent, bounds>>

\* The generation says nothing.
SaysNothing ==
  /\ at = "stored" /\ ~Human(seen)
  /\ Ended(now, "silent")
  /\ at' = "batch"
  /\ UNCHANGED <<updates, offset, batch, now, conv, seen, lines, sent, bounds>>

(***************************************************************************)
(* Failures. TelegramError and httpx errors end the update and the batch   *)
(* goes on; any other exception leaves poll_once and takes the rest of the *)
(* batch with it; so does the end of the process. Nothing is asked for     *)
(* again: the offset is past all of them.                                  *)
(***************************************************************************)
InUpdate == at \in {"update", "routed", "stored", "sending", "sent"}

Fails ==
  /\ at \in {"stored", "sending"} /\ ~Human(seen)
  /\ faults < MaxFaults
  /\ faults' = faults + 1
  /\ Ended(now, "failed")
  /\ at' = "batch"
  /\ UNCHANGED <<updates, offset, batch, now, conv, seen, lines, sent, crashes, escapes>>

\* Whatever was confirmed and has no fate yet will never be handled.
Abandoned(how) ==
  [u \in 1..Len(updates) |->
     IF fate[u] = "waiting" /\ u < offset THEN how ELSE fate[u]]

Stops == batch' = <<>> /\ at' = "idle" /\ now' = 0 /\ seen' = "none"

Escapes ==
  /\ InUpdate
  /\ escapes < MaxEscapes
  /\ escapes' = escapes + 1
  /\ fate' = Abandoned("dropped")
  /\ Stops
  /\ UNCHANGED <<chat, offset, lines, sent, crashes, faults>>

Crash ==
  /\ crashes < MaxCrashes
  /\ crashes' = crashes + 1
  /\ fate' = Abandoned("lost")
  /\ Stops
  /\ UNCHANGED <<chat, offset, lines, sent, faults, escapes>>

Pass ==
  \/ GetUpdates \/ Confirms \/ NextUpdate \/ Blocks \/ Routes \/ StoresLine
  \/ Withholds \/ Generates \/ SaysNothing \/ Sends \/ StoresAnswer

Next ==
  \/ \E c \in Chats : Write(c) \/ TakeOver(c) \/ Resume(c)
  \/ Pass \/ PollFails \/ Fails \/ Escapes \/ Crash

Spec == Init /\ [][Next]_vars

\* The loop runs as long as the process does (loop catches what poll_once raises).
FairSpec == Spec /\ WF_vars(Pass)

(***************************************************************************)
(* Properties.                                                             *)
(***************************************************************************)
Stored(speaker) == {i \in 1..Len(lines) : lines[i][2] = speaker}

\* The shape of the state, and the offset never runs ahead of Telegram.
TypeOK ==
  /\ offset \in 1..(Len(updates) + 1)
  /\ \A u \in 1..Len(updates) : fate[u] \in Fates
  /\ at \in {"idle", "fetched", "batch", "update", "routed", "stored", "sending", "sent"}
  /\ \A c \in Chats : conv[c] \in {"none", "ai", "human", "taken"}
  /\ InUpdate => now < offset /\ fate[now] = "waiting"

\* No update is stored or answered twice, whenever the process stops: the offset is
\* committed before the batch is handled, so a redelivery cannot meet work already
\* done (poll_once).
HandledOnce ==
  /\ \A i, j \in Stored("caller") : lines[i] = lines[j] => i = j
  /\ \A i, j \in 1..Len(sent) : sent[i] = sent[j] => i = j

\* A chat's lines are in the order they were written, through crashes and failures
\* (getUpdates answers in order and the batch is handled in order).
InOrder ==
  \A i, j \in Stored("caller") : i < j => lines[i][1] < lines[j][1]

\* Every update is handled while the process runs, whatever Telegram refuses.
Waiting(u) == u \in DOMAIN fate /\ fate[u] = "waiting"
EveryUpdateHandled == \A u \in 1..MaxUpdates : Waiting(u) ~> ~Waiting(u)

=============================================================================
