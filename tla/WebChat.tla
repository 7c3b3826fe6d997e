------------------------------ MODULE WebChat ------------------------------
(***************************************************************************)
(* The web chat: the endpoints of api/routes/public_chat.py and the widget *)
(* of api/routes/widget.py, which is the only client they have.            *)
(*                                                                         *)
(* One visitor, one browser storage, one or more open pages (Tabs). An     *)
(* exchange is one submitted message: the POST that stores it and the      *)
(* reply stream the widget then opens. The server's half of an exchange    *)
(* runs on after the page is gone, until it notices. A tab counts the      *)
(* server's lines it has on the screen (`known`) and, once a message went  *)
(* unanswered, polls the thread for the lines after that count.            *)
(***************************************************************************)
EXTENDS Thread

CONSTANTS Tabs,          \* pages of this visitor
          MaxExchanges,  \* bound: messages the visitor submits
          MaxChunks,     \* bound: pieces of one answer
          ThreadMax,     \* THREAD_MAX, the lines read_thread returns
          MaxFaults,     \* bound: connections that drop, providers that raise, requests
                         \* that are refused
          MaxReloads,    \* bound: page reloads
          Ends           \* the model may call end_call

ASSUME WebChatAssumption ==
  /\ ~Push
  /\ MaxExchanges \in Nat /\ MaxChunks \in Nat \ {0} /\ ThreadMax \in Nat \ {0}
  /\ MaxFaults \in Nat /\ MaxReloads \in Nat
  /\ Ends \in BOOLEAN

VARIABLES
  tab,    \* the state of the widget in each page
  saved,  \* the handle in localStorage, 0 for none
  ex,     \* the exchanges, in the order they were submitted
  faults, reloads

webVars == <<tab, saved, ex, faults, reloads>>
vars    == <<threadVars, webVars>>

Exchanges == 1..Len(ex)

\* What a page shows: whose text, and whether it is marked as unsent or cut off.
Shown(who, text) == [who |-> who, text |-> text, cut |-> FALSE]
Marked(s)        == [s EXCEPT !.cut = TRUE]

NoAsk == [kind |-> "none", at |-> "rest", thread |-> 0, got |-> <<>>]
Asking(kind, c) == [kind |-> kind, at |-> "asked", thread |-> c, got |-> <<>>]

FreshTab(c) ==
  [conversation |-> c, screen |-> <<>>, known |-> 0, busy |-> 0, watching |-> FALSE,
   ask |-> IF c = 0 THEN NoAsk ELSE Asking("restore", c)]

Init ==
  /\ ThreadInit
  /\ tab = [t \in Tabs |-> FreshTab(0)]
  /\ saved = 0
  /\ ex = <<>>
  /\ faults = 0 /\ reloads = 0

Alive(e) == ex[e].alive

\* The lines of a thread but for the whispers, oldest first.
Spoken(c) ==
  LET upto[n \in 0..Len(lines)] ==
        IF n = 0 THEN <<>>
        ELSE IF lines[n].thread = c /\ lines[n].who # "whisper" THEN Append(upto[n - 1], lines[n])
        ELSE upto[n - 1]
  IN  upto[Len(lines)]

\* What read_thread hands back: at most ThreadMax of them, the newest.
Visible(c) ==
  LET all  == Spoken(c)
      from == IF Len(all) > ThreadMax THEN Len(all) - ThreadMax + 1 ELSE 1
  IN  SubSeq(all, from, Len(all))

Drawn(seq) == [i \in 1..Len(seq) |-> Shown(seq[i].who, seq[i].text)]

\* The exchange is over for the page: the button is enabled again.
Released(t) == [tab[t] EXCEPT !.busy = 0]

\* failed(line): the visitor's own words are marked as not sent.
Failed(t, e) ==
  [Released(t) EXCEPT !.screen =
     [i \in DOMAIN @ |-> IF @[i] = Shown("caller", e) THEN Marked(@[i]) ELSE @[i]]]

\* source.onerror: nothing was said, so watch the thread; or an answer was cut off.
StreamError(t, e) ==
  IF ex[e].chunks = 0
  THEN [Released(t) EXCEPT !.watching = TRUE]
  ELSE [Released(t) EXCEPT !.screen =
          [i \in DOMAIN @ |-> IF @[i] = Shown("agent", e) THEN Marked(@[i]) ELSE @[i]]]

(***************************************************************************)
(* The widget submits. The button is disabled until the exchange is over.  *)
(***************************************************************************)
Submit(t) ==
  /\ tab[t].busy = 0
  /\ Len(ex) < MaxExchanges
  /\ ex' = Append(ex, [at |-> "posting", tab |-> t, thread |-> tab[t].conversation,
                       about |-> 0, chunks |-> 0, alive |-> TRUE])
  /\ tab' = [tab EXCEPT ![t].screen = Append(@, Shown("caller", Len(ex) + 1)),
                        ![t].busy = Len(ex) + 1]
  /\ UNCHANGED <<threadVars, saved, faults, reloads>>

\* post_message finds the thread of the handle: this channel's, and still open.
PostMatches(e) ==
  /\ ex[e].at = "posting"
  /\ ex' = [ex EXCEPT ![e].at = "matched",
                      ![e].thread = IF IsOpen(@) THEN @ ELSE 0]
  /\ UNCHANGED <<threadVars, tab, saved, faults, reloads>>

\* Origin, quota or captcha: one refusal, and nothing is written.
PostRefused(e) ==
  /\ ex[e].at = "posting"
  /\ faults < MaxFaults
  /\ faults' = faults + 1
  /\ ex' = [ex EXCEPT ![e].at = "over"]
  /\ tab' = IF Alive(e) THEN [tab EXCEPT ![ex[e].tab] = Failed(ex[e].tab, e)] ELSE tab
  /\ UNCHANGED <<threadVars, saved, reloads>>

\* No thread was found: a new one is created. The visitor's line is committed.
PostStores(e) ==
  LET new == ex[e].thread = 0
      c   == IF new THEN Len(threads) + 1 ELSE ex[e].thread
  IN  /\ ex[e].at = "matched"
      /\ c <= MaxThreads
      /\ threads' = IF new THEN NewThread ELSE threads
      /\ lines' = Append(lines, Line(c, "caller", e))
      /\ ex' = [ex EXCEPT ![e].at = "stored", ![e].thread = c]
      /\ UNCHANGED <<outbox, person, typed, tab, saved, faults, reloads>>

\* The tray and the webhooks have been told; the page remembers the handle and,
\* its own line being on the screen already, counts it.
PostAnswers(e) ==
  LET t == ex[e].tab
  IN  /\ ex[e].at = "stored"
      /\ ex' = [ex EXCEPT ![e].at = IF Alive(e) THEN "accepted" ELSE "over"]
      /\ IF Alive(e)
         THEN /\ tab' = [tab EXCEPT ![t].conversation = ex[e].thread, ![t].known = @ + 1]
              /\ saved' = ex[e].thread
         ELSE UNCHANGED <<tab, saved>>
      /\ UNCHANGED <<threadVars, faults, reloads>>

(***************************************************************************)
(* The reply stream.                                                       *)
(***************************************************************************)
CallersIn(c) == {i \in 1..Len(lines) : lines[i].thread = c /\ lines[i].who = "caller"}
LastCaller(c) == lines[CHOOSE i \in CallersIn(c) : \A j \in CallersIn(c) : j <= i].text

\* A mutant: the stream that ends without a word does not release the page.
StreamSilentStays(e) ==
  LET t == ex[e].tab
  IN  /\ ex[e].at = "accepted"
      /\ ~IsOpen(ex[e].thread) \/ Taken(ex[e].thread)
      /\ ex' = [ex EXCEPT ![e].at = "over"]
      /\ tab' = IF Alive(e) THEN [tab EXCEPT ![t].watching = TRUE] ELSE tab
      /\ UNCHANGED <<threadVars, saved, faults, reloads>>

\* A closed thread is refused, a taken one opens and ends without a word.
StreamSilent(e) ==
  LET t == ex[e].tab
  IN  /\ ex[e].at = "accepted"
      /\ ~IsOpen(ex[e].thread) \/ Taken(ex[e].thread)
      /\ ex' = [ex EXCEPT ![e].at = "over"]
      /\ tab' = IF Alive(e) THEN [tab EXCEPT ![t] = StreamError(t, e)] ELSE tab
      /\ UNCHANGED <<threadVars, saved, faults, reloads>>

\* A mutant: the oldest message is answered instead of the last one.
StreamOpensOldest(e) ==
  /\ ex[e].at = "accepted"
  /\ IsOpen(ex[e].thread) /\ ~Taken(ex[e].thread)
  /\ ex' = [ex EXCEPT ![e].at = "streaming",
       ![e].about = lines[CHOOSE i \in CallersIn(ex[e].thread) :
                            \A j \in CallersIn(ex[e].thread) : i <= j].text]
  /\ UNCHANGED <<threadVars, tab, saved, faults, reloads>>

\* The visitor's last message is what the agent is answering.
StreamOpens(e) ==
  /\ ex[e].at = "accepted"
  /\ IsOpen(ex[e].thread) /\ ~Taken(ex[e].thread)
  /\ ex' = [ex EXCEPT ![e].at = "streaming", ![e].about = LastCaller(ex[e].thread)]
  /\ UNCHANGED <<threadVars, tab, saved, faults, reloads>>

\* A mutant: whether the page is still there is not asked.
StreamChunkDeaf(e) ==
  /\ ex[e].at = "streaming"
  /\ ex[e].chunks < MaxChunks
  /\ ex' = [ex EXCEPT ![e].chunks = @ + 1]
  /\ tab' = IF ex[e].chunks = 0 /\ Alive(e)
            THEN [tab EXCEPT ![ex[e].tab].screen = Append(@, Shown("agent", e))]
            ELSE tab
  /\ UNCHANGED <<threadVars, saved, faults, reloads>>

\* One piece, forwarded as it is produced; a page that has gone ends the stream.
StreamChunk(e) ==
  /\ ex[e].at = "streaming" /\ Alive(e)
  /\ ex[e].chunks < MaxChunks
  /\ ex' = [ex EXCEPT ![e].chunks = @ + 1]
  /\ tab' = IF ex[e].chunks = 0
            THEN [tab EXCEPT ![ex[e].tab].screen = Append(@, Shown("agent", e))]
            ELSE tab
  /\ UNCHANGED <<threadVars, saved, faults, reloads>>

StreamCancelled(e) ==
  /\ ex[e].at = "streaming" /\ ~Alive(e)
  /\ ex' = [ex EXCEPT ![e].at = "over"]
  /\ UNCHANGED <<threadVars, tab, saved, faults, reloads>>

StreamTool(e) ==
  /\ ex[e].at = "streaming"
  /\ \/ TransferCall(ex[e].thread)
     \/ Ends /\ EndCall(ex[e].thread)
  /\ UNCHANGED <<lines, outbox, person, typed, webVars>>

\* The generation raises (a provider that fails, or the model takes a message:
\* `message_taken` is not in the tray's catalogue and on_message_taken raises).
StreamFails(e) ==
  LET t == ex[e].tab
  IN  /\ ex[e].at = "streaming"
      /\ faults < MaxFaults
      /\ faults' = faults + 1
      /\ ex' = [ex EXCEPT ![e].at = "over"]
      /\ tab' = IF Alive(e) THEN [tab EXCEPT ![t] = StreamError(t, e)] ELSE tab
      /\ UNCHANGED <<threadVars, saved, reloads>>

\* Nothing was said: the stream ends without `done`.
StreamEmpty(e) ==
  LET t == ex[e].tab
  IN  /\ ex[e].at = "streaming" /\ ex[e].chunks = 0
      /\ ex' = [ex EXCEPT ![e].at = "over"]
      /\ tab' = IF Alive(e) THEN [tab EXCEPT ![t] = StreamError(t, e)] ELSE tab
      /\ UNCHANGED <<threadVars, saved, faults, reloads>>

\* The answer is whole: it is stored. (Nobody asks again who has the thread.)
StreamStores(e) ==
  /\ ex[e].at = "streaming" /\ ex[e].chunks > 0
  /\ lines' = Append(lines, Line(ex[e].thread, "agent", e))
  /\ ex' = [ex EXCEPT ![e].at = "finishing"]
  /\ UNCHANGED <<threads, outbox, person, typed, tab, saved, faults, reloads>>

\* `done` reaches the page, which counts the stored line.
StreamDone(e) ==
  LET t == ex[e].tab
  IN  /\ ex[e].at = "finishing"
      /\ ex' = [ex EXCEPT ![e].at = "over"]
      /\ tab' = IF Alive(e)
                THEN [tab EXCEPT ![t] = [Released(t) EXCEPT !.known = @ + 1]]
                ELSE tab
      /\ UNCHANGED <<threadVars, saved, faults, reloads>>

(***************************************************************************)
(* The network drops one request, and the page reloads. The server's half  *)
(* of the exchange learns of neither until it next looks.                  *)
(***************************************************************************)
ConnectionLost(e) ==
  LET t == ex[e].tab
  IN  /\ Alive(e) /\ ex[e].at # "over"
      /\ faults < MaxFaults
      /\ faults' = faults + 1
      /\ ex' = [ex EXCEPT ![e].alive = FALSE]
      /\ tab' = [tab EXCEPT ![t] = IF ex[e].at \in {"posting", "matched", "stored"}
                                   THEN Failed(t, e) ELSE StreamError(t, e)]
      /\ UNCHANGED <<threadVars, saved, reloads>>

Reload(t) ==
  /\ reloads < MaxReloads
  /\ reloads' = reloads + 1
  /\ tab' = [tab EXCEPT ![t] = FreshTab(saved)]
  /\ ex' = [e \in Exchanges |-> IF ex[e].tab = t THEN [ex[e] EXCEPT !.alive = FALSE]
                                               ELSE ex[e]]
  /\ UNCHANGED <<threadVars, saved, faults>>

(***************************************************************************)
(* Reading the thread back: once after a reload, then every few seconds.   *)
(***************************************************************************)
PollAsks(t) ==
  /\ tab[t].watching /\ tab[t].busy = 0 /\ tab[t].conversation # 0
  /\ tab[t].ask.kind = "none"
  /\ tab' = [tab EXCEPT ![t].ask = Asking("poll", tab[t].conversation)]
  /\ UNCHANGED <<threadVars, saved, ex, faults, reloads>>

\* read_thread; a handle that has been closed is refused.
ReadThread(t) ==
  LET a == tab[t].ask
  IN  /\ a.at = "asked"
      /\ tab' = [tab EXCEPT ![t].ask =
           IF IsOpen(a.thread) THEN [a EXCEPT !.at = "got", !.got = Drawn(Visible(a.thread))]
           ELSE [a EXCEPT !.at = "refused"]]
      /\ UNCHANGED <<threadVars, saved, ex, faults, reloads>>

\* The answer is appended from `known` on; `known` is what it is now, not what it
\* was when the question was asked.
PollShows(t) ==
  LET a == tab[t].ask
      n == tab[t].known
  IN  /\ a.kind = "poll" /\ a.at \in {"got", "refused"}
      /\ tab' = [tab EXCEPT ![t].ask = NoAsk,
           ![t].screen = @ \o SubSeq(a.got, n + 1, Len(a.got)),
           ![t].known = IF Len(a.got) > n THEN Len(a.got) ELSE n]
      /\ UNCHANGED <<threadVars, saved, ex, faults, reloads>>

RestoreShows(t) ==
  LET a == tab[t].ask
  IN  /\ a.kind = "restore" /\ a.at \in {"got", "refused"}
      /\ tab' = [tab EXCEPT ![t].ask = NoAsk,
           ![t].conversation = IF a.at = "refused" THEN 0 ELSE @,
           ![t].screen = @ \o a.got,
           ![t].known = IF a.at = "refused" THEN @ ELSE Len(a.got)]
      /\ saved' = IF a.at = "refused" THEN 0 ELSE saved
      /\ UNCHANGED <<threadVars, ex, faults, reloads>>

Server(e) ==
  \/ PostMatches(e) \/ PostStores(e) \/ PostAnswers(e)
  \/ StreamSilent(e) \/ StreamOpens(e) \/ StreamChunk(e) \/ StreamCancelled(e)
  \/ StreamEmpty(e) \/ StreamStores(e) \/ StreamDone(e)

Browser(t) == PollAsks(t) \/ ReadThread(t) \/ PollShows(t) \/ RestoreShows(t)

Next ==
  \/ \E t \in Tabs : Submit(t) \/ Reload(t) \/ Browser(t)
  \/ \E e \in Exchanges :
       Server(e) \/ PostRefused(e) \/ StreamTool(e) \/ StreamFails(e) \/ ConnectionLost(e)
  \/ Staff /\ UNCHANGED webVars

Spec == Init /\ [][Next]_vars

\* The server and the browser keep running; the model eventually stops talking.
Ending(e) == StreamStores(e) \/ StreamEmpty(e)
FairSpec ==
  /\ Spec
  /\ \A e \in 1..MaxExchanges : WF_vars(e \in Exchanges /\ Server(e))
  /\ \A e \in 1..MaxExchanges : WF_vars(e \in Exchanges /\ Ending(e))
  /\ \A t \in Tabs : WF_vars(Browser(t))

(***************************************************************************)
(* Properties.                                                             *)
(***************************************************************************)
\* The shape of the state, and that a handle always names a thread that exists.
TypeOK ==
  /\ ThreadTypeOK
  /\ \A t \in Tabs : /\ tab[t].conversation \in 0..Len(threads)
                     /\ tab[t].busy \in 0..Len(ex)
                     /\ tab[t].known \in Nat
                     /\ tab[t].busy # 0 => /\ ex[tab[t].busy].tab = t
                                           /\ Alive(tab[t].busy)
                                           /\ ex[tab[t].busy].at # "over"
  /\ saved \in 0..Len(threads)

AgentLines == {l \in Stored : l.who = "agent"}

\* No message of the visitor is answered twice while one page is open, whatever is
\* reloaded, refused or cancelled on the way: the stream of an exchange answers the last
\* line there is (stream_reply), and a page has one exchange at a time (button.disabled).
AnsweredOnce ==
  \A l, m \in AgentLines : l # m => ex[l.text].about # ex[m.text].about

OnScreen(t, l) == \E k \in DOMAIN tab[t].screen :
  tab[t].screen[k].who = l.who /\ tab[t].screen[k].text = l.text

AtRest(t) == tab[t].busy = 0 /\ tab[t].ask = NoAsk /\ tab[t].conversation # 0

\* The only page, at rest, shows every line of its thread while nobody but the agent writes
\* in it and the page has not been loaded again: no reply is stored that the visitor did not
\* see begin, whatever the network drops, a colleague withholds or the model closes
\* (listen, poll, _reply_stream).
ScreenIsComplete ==
  (reloads = 0 /\ \A l \in Stored : l.who # "human") =>
    \A t \in Tabs : AtRest(t) =>
      LET all == Visible(tab[t].conversation)
      IN  \A i \in 1..Len(all) : OnScreen(t, all[i])

\* `known` is "how many of the server's lines are already on the screen": the lines
\* it counts, which the poll will skip, are on the screen (widget.py).
KnownAreShown ==
  \A t \in Tabs : AtRest(t) =>
    LET all == Visible(tab[t].conversation)
    IN  \A i \in 1..Len(all) : i <= tab[t].known => OnScreen(t, all[i])

\* A page is never stuck with its button disabled: every exchange ends, answered,
\* refused, silent or cut off (the finally of the submit handler).
ExchangesEnd == \A t \in Tabs : tab[t].busy # 0 ~> tab[t].busy = 0
=============================================================================
