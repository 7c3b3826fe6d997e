------------------------------- MODULE Cards -------------------------------
(***************************************************************************)
(* The settings card of one channel: api/routes/*_channel.py, the switch   *)
(* under Apps, and what Teams keeps of a credential.                       *)
(*                                                                         *)
(* A request reads the row once, works on what it read, and commits the    *)
(* columns it changed. Between the two it waits for the database or for    *)
(* the platform, and other requests commit. `ask[r]` is request r with the *)
(* row it saw and the row it wants; a credential is named for the request  *)
(* that saved it.                                                          *)
(***************************************************************************)
EXTENDS Naturals, FiniteSets

CONSTANTS CardKinds,    \* the channels examined
          Requests,     \* requests to the card
          Payloads(_),  \* what may be sent to a channel's card
          HasKey,       \* TRUE where ENCRYPTION_KEY is set
          MaxSwitches   \* bound: switches under Apps

ASSUME CardsAssumption ==
  /\ HasKey \in BOOLEAN
  /\ MaxSwitches \in Nat
  /\ {"none", "old", "lost"} \cap Requests = {}

VARIABLES
  card,      \* the kind of this channel
  row,       \* its row
  copies,    \* how many rows of this kind the workspace has
  ask,       \* the requests to the card
  app,       \* the channel's app is switched on
  switches,  \* how often it has been switched
  token,     \* Teams: the credential the cached access token was bought with
  buyer,     \* Teams: a reply that buys one
  crossed    \* a request has committed over a change it had not seen

cardVars == <<card, row, copies, ask, app, switches, token, buyer, crossed>>

Declared == {"irc", "matrix", "signal", "mattermost", "sms", "line", "viber", "teams"}

\* Columns: status, credentials_encrypted, settings_json (whether the other required
\* fields are filled, and the credential the last test named). A single token or a pair
\* needs no further field.
Fresh(k) ==
  [active |-> FALSE, secret |-> "none",
   settings |-> [fields |-> k \in {"discord", "telegram", "slack"}, identity |-> "none"]]

Idle == [at |-> "idle", made |-> FALSE, saw |-> Fresh("web"), want |-> Fresh("web"),
         on |-> "keep", secret |-> "keep", edits |-> FALSE]

Over(at) == [Idle EXCEPT !.at = at]

CardsInit ==
  /\ card \in CardKinds
  /\ \/ copies = 0 /\ row = Fresh(card)
     \/ copies = 1 /\ \E s \in {"old", "lost"}, on \in BOOLEAN :
          row = [Fresh(card) EXCEPT !.active = on, !.secret = s, !.settings.fields = TRUE]
  /\ ask = [r \in Requests |-> Idle]
  /\ app = TRUE
  /\ switches = 0
  /\ token = "none"
  /\ buyer = [at |-> "idle", with |-> "none"]
  /\ crossed = FALSE

CardsTypeOK ==
  /\ card \in CardKinds
  /\ row.secret \in {"none", "old", "lost"} \cup Requests
  /\ copies \in 0..2
  /\ \A r \in Requests : ask[r].at \in {"idle", "staged", "admitted", "activating", "probing",
                                        "saved", "refused", "raised", "tested"}
  /\ token \in {"none", "old", "lost"} \cup Requests

Unreadable(there) == there.secret = "lost"
Complete(there)   == there.secret # "none" /\ there.settings.fields

(***************************************************************************)
(* What a payload makes of the row that was read: [row, refused].          *)
(***************************************************************************)
Unnamed(there) == [there EXCEPT !.settings.identity = "none"]
Removed(there) == [Unnamed(there) EXCEPT !.secret = "none", !.active = FALSE]
Result(there)  == [row |-> there, refused |-> FALSE]
Refusal(there) == [row |-> there, refused |-> TRUE]

\* Storing asks for the key; an echoed mask is no edit.
Secret(there, p, r, removed, stored) ==
  CASE p.secret = "clear" -> Result(removed)
    [] p.secret = "new"   -> IF HasKey THEN Result([stored EXCEPT !.secret = r]) ELSE Refusal(there)
    [] p.secret = "half"  -> Refusal(there)
    [] OTHER              -> Result(there)

DiscordEdit(there, p, r)  == Secret(there, p, r, Removed(there), Unnamed(there))
TelegramEdit(there, p, r) == Secret(there, p, r, Removed(there), Unnamed(there))
SlackEdit(there, p, r)    == Secret(there, p, r, Removed(there), Unnamed(there))

Filled(there, p) ==
  IF p.fields = "keep" THEN there ELSE [there EXCEPT !.settings.fields = (p.fields = "fill")]

\* A removed password switches off; an emptied host does not.
EmailEdit(there, p, r) ==
  LET now == Filled(there, p)
  IN Secret(now, p, r, [now EXCEPT !.secret = "none", !.active = FALSE], now)

\* The id is edited first and forgets the name the last test found.
MetaEdit(there, p, r) ==
  LET now == IF p.fields = "keep" THEN there ELSE Unnamed(Filled(there, p))
  IN Secret(now, p, r, [now EXCEPT !.secret = "none", !.active = FALSE], now)
WhatsAppEdit(there, p, r) == MetaEdit(there, p, r)

\* A web channel works without its reCAPTCHA secret.
WebEdit(there, p, r) ==
  LET now == Filled(there, p) IN Secret(now, p, r, [now EXCEPT !.secret = "none"], now)

Written(p) == p.secret # "keep" \/ p.fields # "keep"

\* A mutant: a removed credential leaves the channel on.
DeclaredEditOn(there, p, r) ==
  LET now == Unnamed(Filled(there, p))
  IN IF ~Written(p) THEN Result(there) ELSE Secret(now, p, r, [now EXCEPT !.secret = "none"], now)

\* Everything written is merged, and a channel that now lacks something is switched off.
DeclaredEdit(there, p, r) ==
  LET now   == Unnamed(Filled(there, p))
      taken == Secret(now, p, r, [now EXCEPT !.secret = "none"], now)
  IN IF ~Written(p) THEN Result(there) ELSE IF taken.refused \/ Complete(taken.row) THEN taken
     ELSE Result([taken.row EXCEPT !.active = FALSE])

\* What a look at the card sends.
Nothing == [secret |-> "keep", fields |-> "keep", enabled |-> "keep"]

(***************************************************************************)
(* The steps of a request.                                                 *)
(***************************************************************************)
\* The handler finds the row or makes one. A credential that cannot be decrypted raises
\* on the read. Bound: one row too many ends the run.
Opens(r, p, edit) ==
  /\ ask[r].at = "idle" /\ copies < 2
  /\ ask' = [ask EXCEPT ![r] =
       IF Unreadable(row) THEN [Over("raised") EXCEPT !.secret = p.secret]
       ELSE IF edit.refused THEN Over("refused")
       ELSE [at |-> "staged", made |-> copies = 0, saw |-> row, want |-> edit.row,
             on |-> p.enabled, secret |-> p.secret, edits |-> p # Nothing]]
  /\ UNCHANGED <<card, row, copies, app, switches, buyer, crossed>>

\* installs.admit_channel: off under Apps means off.
Admits(r) ==
  /\ ask[r].at = "staged" /\ ask[r].on = "on"
  /\ ask' = [ask EXCEPT ![r] = IF app THEN [@ EXCEPT !.at = "admitted"] ELSE Over("refused")]
  /\ UNCHANGED <<card, row, copies, app, switches, token, buyer, crossed>>

\* The session writes the columns that differ from what it read; a row it made it
\* inserts, beside the one that another request has made meanwhile.
Merged(r, want) == [c \in DOMAIN row |-> IF want[c] = ask[r].saw[c] THEN row[c] ELSE want[c]]

Commits(r, want, at) ==
  /\ IF ask[r].made
     THEN copies' = copies + 1 /\ row' = IF copies = 0 THEN want ELSE row
     ELSE row' = Merged(r, want) /\ UNCHANGED copies
  /\ ask' = [ask EXCEPT ![r] = IF at = "activating"
                               THEN [@ EXCEPT !.at = at, !.made = FALSE, !.saw = row']
                               ELSE Over(at)]
  /\ crossed' = (crossed \/ row # ask[r].saw \/ (ask[r].on = "on" /\ ~app))
  /\ UNCHANGED <<card, app, switches, token, buyer>>

\* Switching on asks for everything the channel needs; refused, nothing is committed.
Saves(r, complete, activates) ==
  LET want == [ask[r].want EXCEPT !.active = CASE ask[r].on = "on"  -> TRUE
                                               [] ask[r].on = "off" -> FALSE
                                               [] OTHER             -> ask[r].want.active]
  IN /\ ask[r].at = IF ask[r].on = "on" THEN "admitted" ELSE "staged"
     /\ IF ask[r].on = "on" /\ ~complete
        THEN ask' = [ask EXCEPT ![r] = Over("refused")]
             /\ UNCHANGED <<card, row, copies, app, switches, token, buyer, crossed>>
        ELSE Commits(r, want, IF activates /\ ask[r].edits /\ want.active THEN "activating" ELSE "saved")

\* A test asks the platform with the credentials it read and notes the name it was told.
Probes(r, complete) ==
  /\ ask[r].at = "idle" /\ copies = 1
  /\ ask' = [ask EXCEPT ![r] =
       IF Unreadable(row) THEN Over("raised")
       ELSE IF complete THEN [Idle EXCEPT !.at = "probing", !.saw = row]
       ELSE Over("refused")]
  /\ UNCHANGED <<card, row, copies, app, switches, token, buyer, crossed>>

Named(r, notes) ==
  /\ ask[r].at = "probing"
  /\ IF notes
     THEN Commits(r, [ask[r].saw EXCEPT !.settings.identity = ask[r].saw.secret], "tested")
     ELSE ask' = [ask EXCEPT ![r] = Over("tested")]
          /\ UNCHANGED <<card, row, copies, app, switches, token, buyer, crossed>>

PlatformRefuses(r) ==
  /\ ask[r].at = "probing"
  /\ ask' = [ask EXCEPT ![r] = Over("refused")]
  /\ UNCHANGED <<card, row, copies, app, switches, token, buyer, crossed>>

(***************************************************************************)
(* The cards. Each writes as above from its own edit and its own idea of   *)
(* complete.                                                               *)
(***************************************************************************)
HasSecret(there)  == there.secret # "none"
HasOrigins(there) == there.settings.fields

Discord(r) ==
  \/ \E p \in Payloads(card) : Opens(r, p, DiscordEdit(row, p, r)) /\ UNCHANGED token
  \/ Admits(r) \/ Saves(r, HasSecret(ask[r].want), FALSE)
DiscordTest(r) == Probes(r, HasSecret(row)) \/ Named(r, TRUE)

Telegram(r) ==
  \/ \E p \in Payloads(card) : Opens(r, p, TelegramEdit(row, p, r)) /\ UNCHANGED token
  \/ Admits(r) \/ Saves(r, HasSecret(ask[r].want), FALSE)
TelegramTest(r) == Probes(r, HasSecret(row)) \/ Named(r, TRUE)

Slack(r) ==
  \/ \E p \in Payloads(card) : Opens(r, p, SlackEdit(row, p, r)) /\ UNCHANGED token
  \/ Admits(r) \/ Saves(r, HasSecret(ask[r].want), FALSE)
SlackTest(r) == Probes(r, HasSecret(row)) \/ Named(r, TRUE)

Email(r) ==
  \/ \E p \in Payloads(card) : Opens(r, p, EmailEdit(row, p, r)) /\ UNCHANGED token
  \/ Admits(r) \/ Saves(r, Complete(ask[r].want), FALSE)
EmailTest(r) == Probes(r, Complete(row)) \/ Named(r, FALSE)

WhatsApp(r) ==
  \/ \E p \in Payloads(card) : Opens(r, p, WhatsAppEdit(row, p, r)) /\ UNCHANGED token
  \/ Admits(r) \/ Saves(r, Complete(ask[r].want), FALSE)
WhatsAppTest(r) == Probes(r, Complete(row)) \/ Named(r, TRUE)

Meta(r) ==
  \/ \E p \in Payloads(card) : Opens(r, p, MetaEdit(row, p, r)) /\ UNCHANGED token
  \/ Admits(r) \/ Saves(r, Complete(ask[r].want), FALSE)
MetaTest(r) == Probes(r, Complete(row)) \/ Named(r, TRUE)

Web(r) ==
  \/ \E p \in Payloads(card) : Opens(r, p, WebEdit(row, p, r)) /\ UNCHANGED token
  \/ Admits(r) \/ Saves(r, HasOrigins(ask[r].want), FALSE)

\* credentials_changed: Teams forgets its token when the fields arrive.
Forgets(p, edit) ==
  token' = IF card = "teams" /\ Written(p) /\ ~Unreadable(row) /\ ~edit.refused
           THEN "none" ELSE token

Activates == card \in {"viber", "signal"}

DeclaredCard(r) ==
  \/ \E p \in Payloads(card) : LET edit == DeclaredEdit(row, p, r)
                               IN Opens(r, p, edit) /\ Forgets(p, edit)
  \/ Admits(r) \/ Saves(r, Complete(ask[r].want), Activates)
DeclaredTest(r) == Probes(r, Complete(row)) \/ Named(r, TRUE)

\* The platform is told of a channel that is on; what it refuses is switched off again.
Activated(r) ==
  /\ ask[r].at = "activating"
  /\ \/ /\ ask' = [ask EXCEPT ![r] = Over("saved")]
        /\ UNCHANGED <<card, row, copies, app, switches, token, buyer, crossed>>
     \/ Commits(r, [ask[r].saw EXCEPT !.active = FALSE], "refused")

\* The switch under Apps: the installation and the channel in one commit.
Switches ==
  /\ switches < MaxSwitches /\ copies < 2
  /\ switches' = switches + 1
  /\ app' = ~app
  /\ row' = IF app THEN [row EXCEPT !.active = FALSE] ELSE row
  /\ UNCHANGED <<card, copies, ask, token, buyer, crossed>>

(***************************************************************************)
(* Teams: a reply sends with a token bought with the row's credentials.    *)
(***************************************************************************)
LooksForToken ==
  /\ card = "teams" /\ buyer.at = "idle"
  /\ row.active /\ Complete(row) /\ ~Unreadable(row)
  /\ token = "none"
  /\ buyer' = [at |-> "buying", with |-> row.secret]
  /\ UNCHANGED <<card, row, copies, ask, app, switches, token, crossed>>

KeepsToken ==
  /\ buyer.at = "buying"
  /\ token' = buyer.with
  /\ buyer' = [buyer EXCEPT !.at = "idle"]
  /\ UNCHANGED <<card, row, copies, ask, app, switches, crossed>>

TokenExpires ==
  /\ token # "none"
  /\ token' = "none"
  /\ UNCHANGED <<card, row, copies, ask, app, switches, buyer, crossed>>

(***************************************************************************)
(* One step of the card this behaviour is about.                           *)
(***************************************************************************)
Card(r) ==
  \/ card = "discord" /\ (Discord(r) \/ DiscordTest(r))
  \/ card = "telegram" /\ (Telegram(r) \/ TelegramTest(r))
  \/ card = "slack" /\ (Slack(r) \/ SlackTest(r))
  \/ card = "email" /\ (Email(r) \/ EmailTest(r))
  \/ card = "whatsapp" /\ (WhatsApp(r) \/ WhatsAppTest(r))
  \/ card = "meta" /\ (Meta(r) \/ MetaTest(r))
  \/ card = "web" /\ Web(r)
  \/ card \in Declared /\ (DeclaredCard(r) \/ DeclaredTest(r) \/ Activated(r))

CardsNext ==
  \/ \E r \in Requests : Card(r) \/ PlatformRefuses(r)
  \/ Switches
  \/ LooksForToken \/ KeepsToken \/ TokenExpires

(***************************************************************************)
(* Properties.                                                             *)
(***************************************************************************)
\* As long as no request commits over a change it has not seen, what the card says is
\* so: an active channel has what it needs and its app is on, and the name shown was
\* told for the credential that is stored. (The cards of e-mail, WhatsApp, Meta and web
\* chat let a field be emptied under an active channel; WhatsApp's and Meta's keep the
\* name when the pair of tokens changes.)
CardIsConsistent ==
  ~crossed /\ copies = 1 /\ ~Unreadable(row) =>
    /\ row.active => app
    /\ row.active /\ card \notin {"email", "whatsapp", "meta", "web"} => Complete(row)
    /\ card \notin {"whatsapp", "meta"} => row.settings.identity \in {"none", row.secret}
=============================================================================
