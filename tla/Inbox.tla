------------------------------- MODULE Inbox -------------------------------
(***************************************************************************)
(* What every messaging channel does between a platform's event and its    *)
(* answer; Messengers gives each channel's own order of these steps.       *)
(*                                                                         *)
(* The platform hands over batches of events of one customer. Batches may  *)
(* be repeated and, on the channels with a public door, handled at the     *)
(* same time. An occurrence <<d, m>> is message m as delivery d brings it; *)
(* `fate` is where it has got to, from the door to the end of the reply    *)
(* task. What a request read stays in `flow[d]` and is not refreshed.      *)
(***************************************************************************)
EXTENDS Thread

CONSTANTS Kinds,          \* the channels examined
          Messages,       \* ids of this customer's messages
          Events,         \* what a message may look like
          Batches(_),     \* what one delivery of a channel may hold
          MaxDeliveries,  \* bound: deliveries, repeats included
          Pieces,         \* platform messages one answer is split into
          RecentKept,     \* RECENT_IDS_KEPT
          MaxTroubles     \* bound: restarts, handlers and providers that raise

ASSUME InboxAssumption ==
  /\ Push
  /\ MaxDeliveries \in Nat
  /\ Pieces \in Nat \ {0} /\ RecentKept \in Nat \ {0}
  /\ MaxTroubles \in Nat
  /\ \A k \in Kinds : Batches(k) \subseteq Seq(Messages)
  /\ \A e \in Events : e.from \in {"customer", "own", "bot"}

VARIABLES
  kind,   \* the channel of this behaviour
  event,  \* what each message looks like
  flow,   \* the deliveries being handled
  fate,   \* where each occurrence is
  mark,   \* the ids each conversation remembers, oldest first
  troubles  \* how much has gone wrong

inboxVars == <<kind, event, flow, fate, mark, troubles>>

Deliveries  == 1..MaxDeliveries
Occurrences == Deliveries \X Messages

InRequest == {"next", "arrived", "found", "routed", "announcing", "replying"}
InReply   == {"due", "scheduled", "generating", "sending"}

Untouched == [at |-> "unused", todo |-> <<>>, thread |-> 0, seen |-> <<>>,
              handling |-> "ai", rule |-> "ai"]

InboxInit ==
  /\ ThreadInit
  /\ kind \in Kinds
  /\ event \in [Messages -> Events]
  /\ flow = [d \in Deliveries |-> Untouched]
  /\ fate = [o \in Occurrences |-> "none"]
  /\ mark = <<>>
  /\ troubles = 0

InboxTypeOK ==
  /\ ThreadTypeOK
  /\ kind \in Kinds
  /\ Len(mark) = Len(threads)
  /\ \A c \in Threads : Len(mark[c]) <= RecentKept
  /\ \A d \in Deliveries : flow[d].thread \in 0..Len(threads)

Msg(d)     == flow[d].todo[1]
EventOf(d) == event[Msg(d)]
This(d)    == <<d, Msg(d)>>
Trouble    == troubles < MaxTroubles /\ troubles' = troubles + 1
Busy       == {d \in Deliveries : flow[d].at \in InRequest}

\* The delivery is done with its first event.
Past(d)        == [flow EXCEPT ![d] = [Untouched EXCEPT !.at = "next", !.todo = Tail(flow[d].todo)]]
Becomes(o, to) == [fate EXCEPT ![o] = to]

(***************************************************************************)
(* From the platform to the transcript.                                    *)
(***************************************************************************)
\* One connection or one pass reads its batches in turn; a door's requests overlap.
Hands(d, batch, inTurn) ==
  /\ flow[d].at = "unused"
  /\ \A o \in 1..(d - 1) : flow[o].at # "unused"
  /\ inTurn => Busy = {}
  /\ flow' = [flow EXCEPT ![d] = [Untouched EXCEPT !.at = "next", !.todo = batch]]
  /\ UNCHANGED <<threadVars, kind, event, fate, mark, troubles>>

\* message_text finds nothing a customer said to the agent.
Skips(d, isText) ==
  /\ flow[d].at = "next" /\ flow[d].todo # <<>>
  /\ ~isText
  /\ flow' = Past(d)
  /\ fate' = Becomes(This(d), "dropped")
  /\ UNCHANGED <<threadVars, kind, event, mark, troubles>>

\* The routing rules, before anything is stored.
Decides(d, isText, rules) ==
  /\ flow[d].at = "next" /\ flow[d].todo # <<>>
  /\ isText
  /\ \E rule \in rules :
       IF rule = "block"
       THEN flow' = Past(d) /\ fate' = Becomes(This(d), "dropped")
       ELSE flow' = [flow EXCEPT ![d].at = "arrived", ![d].rule = rule] /\ UNCHANGED fate
  /\ UNCHANGED <<threadVars, kind, event, mark, troubles>>

\* The open thread of this customer as the row says now, or a new one.
Finds(d) ==
  /\ flow[d].at = "arrived"
  /\ IF OpenOnes = {}
     THEN /\ Len(threads) < MaxThreads
          /\ flow' = [flow EXCEPT ![d].at = "found"]
     ELSE \E c \in OpenOnes :
            flow' = [flow EXCEPT ![d].at = "found", ![d].thread = c, ![d].seen = mark[c],
                                 ![d].handling = threads[c].handling]
  /\ UNCHANGED <<threadVars, kind, event, fate, mark, troubles>>

Home(d)    == IF flow[d].thread = 0 THEN Len(threads) + 1 ELSE flow[d].thread
Created(d) == IF flow[d].thread = 0 THEN NewThread ELSE threads
MarksOf(d) == IF flow[d].thread = 0 THEN Append(mark, <<>>) ELSE mark

\* What the code may keep of the ids it has seen: the last one, or the last few.
OnlyLast(d) == <<Msg(d)>>
Kept(ids)   == IF Len(ids) > RecentKept THEN SubSeq(ids, Len(ids) - RecentKept + 1, Len(ids))
               ELSE ids
LastFew(d)  == Kept(Append(flow[d].seen, Msg(d)))
Seen(d)     == \E i \in 1..Len(flow[d].seen) : flow[d].seen[i] = Msg(d)

\* apply_pass commits the handover, and with it whatever the session has written to
\* the row by then: nothing, or the id of this message.
HandsOver(d, writesMark) ==
  /\ flow[d].at = "found" /\ flow[d].rule = "pass" /\ flow[d].handling # "human"
  /\ Home(d) <= MaxThreads
  /\ threads' = [Created(d) EXCEPT ![Home(d)].handling = "human"]
  /\ mark' = IF writesMark THEN [MarksOf(d) EXCEPT ![Home(d)] = LastFew(d)] ELSE MarksOf(d)
  /\ flow' = [flow EXCEPT ![d].at = "routed", ![d].thread = Home(d),
                          ![d].handling = "human"]
  /\ UNCHANGED <<lines, outbox, person, typed, kind, event, fate, troubles>>

Routed(d) ==
  \/ flow[d].at = "routed"
  \/ flow[d].at = "found" /\ (flow[d].rule = "ai" \/ flow[d].handling = "human")

Repeats(d) ==
  /\ Seen(d)
  /\ flow' = Past(d)
  /\ fate' = Becomes(This(d), "repeated")
  /\ UNCHANGED <<threadVars, kind, event, mark, troubles>>

\* One commit: the line, a new conversation, and the ids the row remembers from now on.
Stores(d, remembered) ==
  /\ Routed(d)
  /\ Home(d) <= MaxThreads
  /\ threads' = Created(d)
  /\ mark' = [MarksOf(d) EXCEPT ![Home(d)] = remembered]
  /\ lines' = Append(lines, Line(Home(d), "caller", This(d)))
  /\ flow' = [flow EXCEPT ![d].at = "announcing", ![d].thread = Home(d)]
  /\ fate' = Becomes(This(d), "stored")
  /\ UNCHANGED <<outbox, person, typed, kind, event, troubles>>

\* The extensions are told. A person's thread is not answered; the others wait for the
\* end of the batch.
Tells(d) ==
  /\ flow[d].at = "announcing"
  /\ flow' = Past(d)
  /\ fate' = Becomes(This(d), IF flow[d].handling = "human" THEN "silent" ELSE "due")
  /\ UNCHANGED <<threadVars, kind, event, mark, troubles>>

\* A mutant: only the last reply of a batch is scheduled.
SchedulesLast(d) ==
  /\ flow[d].at = "next" /\ flow[d].todo = <<>>
  /\ flow' = [flow EXCEPT ![d].at = "over"]
  /\ fate' = [o \in Occurrences |->
       IF o[1] = d /\ fate[o] = "due" /\ \A p \in Occurrences :
            p[1] = d /\ fate[p] = "due" => p[2] <= o[2]
       THEN "scheduled" ELSE fate[o]]
  /\ UNCHANGED <<threadVars, kind, event, mark, troubles>>

\* The batch is through; its replies become tasks.
Schedules(d) ==
  /\ flow[d].at = "next" /\ flow[d].todo = <<>>
  /\ flow' = [flow EXCEPT ![d].at = "over"]
  /\ fate' = [o \in Occurrences |-> IF o[1] = d /\ fate[o] = "due" THEN "scheduled" ELSE fate[o]]
  /\ UNCHANGED <<threadVars, kind, event, mark, troubles>>

\* What a stop in the middle of these deliveries leaves without an answer.
Unread(o)     == fate[o] = "none" /\ \E i \in 1..Len(flow[o[1]].todo) : flow[o[1]].todo[i] = o[2]
Inline(o)     == flow[o[1]].at = "replying" /\ fate[o] \in InReply
Abandoned(ds) ==
  [o \in Occurrences |->
     IF o[1] \in ds /\ (fate[o] \in {"stored", "due"} \/ Unread(o) \/ Inline(o))
     THEN "silent" ELSE fate[o]]

\* A statement or a webhook fails (after the rollback the log line reads an expired
\* object, so announce raises too): the rest of the batch goes unread and what it was
\* about to schedule is forgotten.
Raises(d) ==
  /\ d \in Busy
  /\ Trouble
  /\ flow' = [flow EXCEPT ![d].at = "failed"]
  /\ fate' = Abandoned({d})
  /\ UNCHANGED <<threadVars, kind, event, mark>>

(***************************************************************************)
(* The reply task.                                                         *)
(***************************************************************************)
Conversation(o) == (CHOOSE l \in Stored : l.who = "caller" /\ l.text = o).thread

\* The row is read: a person's thread is left alone.
Looks(o) ==
  /\ fate[o] = "scheduled"
  /\ fate' = Becomes(o, IF Taken(Conversation(o)) THEN "silent" ELSE "generating")
  /\ UNCHANGED <<threadVars, kind, event, flow, mark, troubles>>

\* The provider raises, or says nothing.
Fails(o) ==
  /\ fate[o] = "generating"
  /\ Trouble
  /\ fate' = Becomes(o, "silent")
  /\ UNCHANGED <<threadVars, kind, event, flow, mark>>

\* The model has finished; the code looks at the thread again, or does not.
Finishes(o, looksAgain) ==
  /\ fate[o] = "generating"
  /\ fate' = Becomes(o, IF looksAgain /\ Taken(Conversation(o)) THEN "silent" ELSE "sending")
  /\ UNCHANGED <<threadVars, kind, event, flow, mark, troubles>>

Sent(o) == {n \in 1..Pieces : <<"agent", o, n>> \in outbox}

Sends(o) ==
  /\ fate[o] = "sending"
  /\ \E n \in (1..Pieces) \ Sent(o) :
       /\ 1..(n - 1) \subseteq Sent(o)
       /\ outbox' = outbox \cup {<<"agent", o, n>>}
  /\ UNCHANGED <<threads, lines, person, typed, inboxVars>>

\* The platform refuses a piece: nothing is stored, whatever went out before.
Refused(o) ==
  /\ fate[o] = "sending" /\ Sent(o) # 1..Pieces
  /\ fate' = Becomes(o, "silent")
  /\ UNCHANGED <<threadVars, kind, event, flow, mark, troubles>>

\* A mutant: the answer is stored before the last piece is out.
StoresReplyEarly(o) ==
  /\ fate[o] = "sending"
  /\ lines' = Append(lines, Line(Conversation(o), "agent", o))
  /\ fate' = Becomes(o, "answered")
  /\ UNCHANGED <<threads, outbox, person, typed, kind, event, flow, mark, troubles>>

StoresReply(o) ==
  /\ fate[o] = "sending" /\ Sent(o) = 1..Pieces
  /\ lines' = Append(lines, Line(Conversation(o), "agent", o))
  /\ fate' = Becomes(o, "answered")
  /\ UNCHANGED <<threads, outbox, person, typed, kind, event, flow, mark, troubles>>

\* The process stops and starts again: requests and reply tasks are gone.
Restarts ==
  /\ Trouble
  /\ flow' = [d \in Deliveries |-> IF d \in Busy THEN [flow[d] EXCEPT !.at = "failed"] ELSE flow[d]]
  /\ fate' = [o \in Occurrences |-> IF fate[o] \in InReply THEN "silent" ELSE Abandoned(Busy)[o]]
  /\ UNCHANGED <<threadVars, kind, event, mark>>
=============================================================================
