------------------------------- MODULE Access -------------------------------
(***************************************************************************)
(* What a request passes before its handler runs: api/middleware/*, the    *)
(* machine tokens of api/security/machine_tokens.py and their page, the    *)
(* windows of api/security/quota.py, and the watchdog of a websocket in    *)
(* api/security/websocket.py.                                              *)
(***************************************************************************)
EXTENDS Naturals

CONSTANTS Callers,      \* requests on their way
          Ways,         \* sets of kinds of path examined together
          Ceiling,      \* Limit.count of a window
          MaxSessions,  \* bound: sessions that begin
          MaxTokens     \* bound: values the machine token has had

ASSUME AccessAssumption == Ceiling \in Nat \ {0} /\ MaxSessions \in Nat /\ MaxTokens \in Nat

VARIABLES
  ways,      \* the paths this behaviour is about: "public", "dashboard", "machine"
  session,   \* the session row the browser's cookie names; 0 is gone
  begun,     \* sessions so far
  socket,    \* the session an open websocket is for; 0 is closed
  token,     \* machine_tokens: the value whose hash is stored; 0 is removed
  minted,    \* values so far
  window,    \* rate_counters, of callers with the token and of others
  admitted,  \* how many were let through in the window that stands
  lapped,    \* two requests have counted from the same reading
  call       \* the requests

accessVars == <<ways, session, begun, socket, token, minted, window, admitted, lapped, call>>
rows       == <<ways, session, begun, socket, token, minted>>
counters   == <<window, admitted, lapped>>

Buckets == {"token", "client"}
NoWindow  == [count |-> 0, ended |-> FALSE]
Quiet   == [at |-> "idle", path |-> "none", bucket |-> "none", saw |-> NoWindow, lap |-> 0]

AccessInit ==
  /\ ways \in Ways
  /\ session = 0 /\ begun = 0 /\ socket = 0
  /\ token = 0 /\ minted = 0
  /\ window = [b \in Buckets |-> NoWindow]
  /\ admitted = [b \in Buckets |-> 0]
  /\ lapped = FALSE
  /\ call = [r \in Callers |-> Quiet]

AccessTypeOK ==
  /\ session \in 0..MaxSessions /\ socket \in 0..MaxSessions /\ token \in 0..MaxTokens
  /\ \A b \in Buckets : window[b].count \in 0..Ceiling
  /\ \A r \in Callers : call[r].at \in {"idle", "gate", "counting", "counted", "inside"}

Leaves(r) == call' = [call EXCEPT ![r] = Quiet]

(***************************************************************************)
(* The layers, outermost first.                                            *)
(***************************************************************************)
\* RequestLimitsMiddleware reads the body before anything else runs; one that is too
\* long, or a caller who hangs up, goes no further.
Reads(r) ==
  /\ call[r].at = "idle"
  /\ \E path \in ways :
       call' = [call EXCEPT ![r] = [Quiet EXCEPT !.at = "gate", !.path = path]]
  /\ UNCHANGED <<rows, counters>>

\* The deadline stands until the answer has begun; what was committed stays.
Overruns(r) ==
  /\ call[r].at # "idle"
  /\ Leaves(r)
  /\ UNCHANGED <<rows, counters>>

\* CsrfMiddleware: another site's page may only use the public paths.
ForeignPage(r) ==
  /\ call[r].at = "gate" /\ call[r].path # "public"
  /\ Leaves(r)
  /\ UNCHANGED <<rows, counters>>

\* AuthenticationMiddleware: a session for everything that is neither public nor a
\* machine's.
Authenticates(r) ==
  /\ call[r].at = "gate" /\ call[r].path # "machine"
  /\ IF call[r].path = "public" \/ session # 0
     THEN call' = [call EXCEPT ![r].at = "inside"]
     ELSE Leaves(r)
  /\ UNCHANGED <<rows, counters>>

Answers(r) ==
  /\ call[r].at = "inside"
  /\ Leaves(r)
  /\ UNCHANGED <<rows, counters>>

(***************************************************************************)
(* machine_tokens.guard                                                    *)
(***************************************************************************)
\* resolve, and the window that belongs to who is calling.
Resolves(r) ==
  /\ call[r].at = "gate" /\ call[r].path = "machine"
  /\ \E presented \in 1..minted :
       LET b == IF presented = token THEN "token" ELSE "client"
       IN call' = [call EXCEPT ![r] = [@ EXCEPT !.at = "counting", !.bucket = b, !.saw = window[b],
                                                !.lap = admitted[b]]]
  /\ UNCHANGED <<rows, counters>>

\* A mutant: a full window is written back as if it had one place.
WrittenAway(saw) ==
  IF saw.ended \/ saw.count = 0 THEN [count |-> 1, ended |-> FALSE]
  ELSE IF saw.count >= Ceiling THEN [count |-> Ceiling - 1, ended |-> FALSE]
  ELSE [saw EXCEPT !.count = @ + 1]

\* consume: what a window becomes. A window that has ended starts again; a full one is
\* not written.
Written(saw) ==
  IF saw.ended \/ saw.count = 0 THEN [count |-> 1, ended |-> FALSE]
  ELSE IF saw.count >= Ceiling THEN saw
  ELSE [saw EXCEPT !.count = @ + 1]

Full(saw) == ~saw.ended /\ saw.count >= Ceiling

\* The count and the commit. Two first requests of a bucket insert it twice, and the
\* second raises; two others that read the same count are counted once.
Consumes(r) ==
  LET b == call[r].bucket  saw == call[r].saw
      raised == saw.count = 0 /\ window[b].count # 0
  IN /\ call[r].at = "counting"
     /\ IF raised THEN UNCHANGED counters
        ELSE /\ window' = [window EXCEPT ![b] = IF Written(saw) = saw THEN @ ELSE Written(saw)]
             /\ admitted' = [admitted EXCEPT ![b] = IF Full(saw) THEN @
                                                    ELSE IF saw.ended THEN 1 ELSE @ + 1]
             /\ lapped' = (lapped \/ call[r].lap # admitted[b] \/ window[b] # saw)
     /\ IF raised \/ Full(saw) \/ b = "client" THEN Leaves(r)
        ELSE call' = [call EXCEPT ![r].at = "counted"]
     /\ UNCHANGED rows

\* last_used_at is written; where the token was removed meanwhile, that raises.
Touches(r) ==
  /\ call[r].at = "counted"
  /\ \/ token = 0 /\ Leaves(r)
     \/ call' = [call EXCEPT ![r].at = "inside"]
  /\ UNCHANGED <<rows, counters>>

WindowEnds(b) ==
  /\ window[b].count > 0 /\ ~window[b].ended
  /\ window' = [window EXCEPT ![b].ended = TRUE]
  /\ UNCHANGED <<rows, admitted, lapped, call>>

\* The page of a token: adding it, rotating it and removing it.
AddToken ==
  /\ "machine" \in ways /\ token = 0 /\ minted < MaxTokens
  /\ minted' = minted + 1 /\ token' = minted'
  /\ UNCHANGED <<ways, session, begun, socket, counters, call>>

RotateToken ==
  /\ token # 0 /\ minted < MaxTokens
  /\ minted' = minted + 1 /\ token' = minted'
  /\ UNCHANGED <<ways, session, begun, socket, counters, call>>

RemoveToken ==
  /\ token # 0
  /\ token' = 0
  /\ UNCHANGED <<ways, session, begun, socket, minted, counters, call>>

(***************************************************************************)
(* Websockets                                                              *)
(***************************************************************************)
Begins ==
  /\ "dashboard" \in ways /\ session = 0 /\ begun < MaxSessions
  /\ begun' = begun + 1 /\ session' = begun'
  /\ UNCHANGED <<ways, socket, token, minted, counters, call>>

\* Signed out, ended from elsewhere, or expired and cleaned up.
Revoked ==
  /\ session # 0
  /\ session' = 0
  /\ UNCHANGED <<ways, begun, socket, token, minted, counters, call>>

\* WebSocketAuthMiddleware: the handshake needs a session.
Connects ==
  /\ socket = 0 /\ session # 0
  /\ socket' = session
  /\ UNCHANGED <<ways, session, begun, token, minted, counters, call>>

\* watch_session looks again every few seconds for the session the socket was opened with.
Watches ==
  /\ socket # 0 /\ session # socket
  /\ socket' = 0
  /\ UNCHANGED <<ways, session, begun, token, minted, counters, call>>

AccessNext ==
  \/ \E r \in Callers :
       \/ Reads(r) \/ Overruns(r) \/ ForeignPage(r) \/ Authenticates(r) \/ Answers(r)
       \/ Resolves(r) \/ Consumes(r) \/ Touches(r)
  \/ \E b \in Buckets : WindowEnds(b)
  \/ AddToken \/ RotateToken \/ RemoveToken
  \/ Begins \/ Revoked \/ Connects \/ Watches

AccessSpec == AccessInit /\ [][AccessNext]_accessVars

(***************************************************************************)
(* Properties.                                                             *)
(***************************************************************************)
\* No more callers are let through in a window than its ceiling, as long as none counts
\* from a reading that another has already counted from.
CeilingHolds == ~lapped => \A b \in Buckets : admitted[b] <= Ceiling

=============================================================================
