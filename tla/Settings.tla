------------------------------ MODULE Settings ------------------------------
(***************************************************************************)
(* Declared settings: the store (api/settings/store.py), the form that     *)
(* reads and writes it (api/routes/settings.py), and whoever uses what it  *)
(* holds: mail, the language model, the calendar.                          *)
(*                                                                         *)
(* One connection is modelled: an address and the credential that belongs  *)
(* to it. A value is named for the server it belongs to.                   *)
(***************************************************************************)
EXTENDS Naturals, FiniteSets

CONSTANTS Saves,    \* submissions of the form
          Servers,
          Uses,     \* tests, mails and look-ups
          Crews,    \* sets of the two that are examined together
          Scopes,   \* "installation" or "workspace": where the two keys live
          HasKey    \* the installation has an ENCRYPTION_KEY

ASSUME SettingsAssumption == HasKey \in BOOLEAN /\ Scopes \subseteq {"installation", "workspace"}

VARIABLES
  scope,     \* of the keys in this behaviour
  crew,      \* whoever takes part in it
  settings,  \* the rows of each key
  saves,
  uses

settingVars == <<scope, crew, settings, saves, uses>>

Keys == {"address", "credential"}
Sent == Servers \cup {"absent", "empty", "mask"}
NoSetting == [by |-> "none", value |-> "none"]
Blank == [at |-> "idle", sent |-> [k \in Keys |-> "absent"], found |-> [k \in Keys |-> NoSetting],
          left |-> {}]
Unused == [at |-> "idle", got |-> [k \in Keys |-> "none"], answer |-> "none"]

SettingsInit ==
  /\ scope \in Scopes /\ crew \in Crews
  /\ \E rows \in {{}, {[by |-> "first", value |-> CHOOSE s \in Servers : TRUE]}} :
       settings = [k \in Keys |-> rows]
  /\ saves = [w \in Saves |-> Blank]
  /\ uses = [u \in Uses |-> Unused]

(***************************************************************************)
(* Writing.                                                                *)
(***************************************************************************)
\* A mutant: the mask a screen echoes is taken for a credential.
KeepsNothing(sent) == {k \in Keys : sent[k] # "absent"}

\* The keys write_settings works on: an echoed mask is not a new credential.
WorkedOn(sent) == {k \in Keys : sent[k] # "absent" /\ ~(k = "credential" /\ sent[k] = "mask")}

\* write_settings. Without a key to encrypt with, or with a key nobody declared, nothing
\* of the request is written.
Submits(w) ==
  /\ w \in crew /\ saves[w].at = "idle"
  /\ \E a \in Sent \ {"mask"}, c \in Sent, declared \in BOOLEAN :
       LET sent == [k \in Keys |-> IF k = "address" THEN a ELSE c] IN
       saves' = [saves EXCEPT ![w] =
         IF ~declared \/ (c # "absent" /\ ~HasKey)
         THEN [Blank EXCEPT !.at = "refused"]
         ELSE [Blank EXCEPT !.at = "reads", !.sent = sent, !.left = WorkedOn(sent)]]
  /\ UNCHANGED <<scope, crew, settings, uses>>

\* _row, one key after the other; of two rows either may be found.
Finds(w, k) ==
  /\ saves[w].at = "reads" /\ k \in saves[w].left
  /\ \E row \in IF settings[k] = {} THEN {NoSetting} ELSE settings[k] :
       saves' = [saves EXCEPT ![w].left = @ \ {k}, ![w].found[k] = row]
  /\ UNCHANGED <<scope, crew, settings, uses>>

\* set_value and clear, as the commit carries them out: a row that was not there is
\* inserted, one that was is updated if its value changes, and an emptied field is the
\* absence of a row.
Becomes(k, row, value, w) ==
  CASE value = "empty"  -> settings[k] \ {row}
    [] row = NoSetting     -> settings[k] \cup {[by |-> w, value |-> value]}
    [] row.value = value -> settings[k]
    [] OTHER -> {IF r.by = row.by THEN [r EXCEPT !.value = value] ELSE r : r \in settings[k]}

\* What makes the whole commit fail: a second row of a workspace's key, which is unique
\* only where there is a workspace, or the update of a row that has gone.
Fails(k, row, value) ==
  IF row = NoSetting THEN value # "empty" /\ scope = "workspace" /\ settings[k] # {}
                  ELSE value # "empty" /\ \A r \in settings[k] : r.by # row.by

SavesAll(w) ==
  LET s == saves[w]
      touched == WorkedOn(s.sent)
  IN
  /\ s.at = "reads" /\ s.left = {}
  /\ IF \E k \in touched : Fails(k, s.found[k], s.sent[k])
     THEN saves' = [saves EXCEPT ![w].at = "refused"] /\ UNCHANGED settings
     ELSE /\ saves' = [saves EXCEPT ![w].at = "saved"]
          /\ settings' = [k \in Keys |-> IF k \in touched THEN Becomes(k, s.found[k], s.sent[k], w)
                                         ELSE settings[k]]
  /\ UNCHANGED <<scope, crew, uses>>

(***************************************************************************)
(* Using.                                                                  *)
(***************************************************************************)
\* get: the row, or the default, or what the environment says.
Value(k) == IF settings[k] = {} THEN {"none", "environment"} ELSE {r.value : r \in settings[k]}

\* The address is read first, the credential in a statement of its own.
UsesAddress(u) ==
  /\ u \in crew /\ uses[u].at = "idle"
  /\ \E v \in Value("address") : uses' = [uses EXCEPT ![u].at = "credential", ![u].got["address"] = v]
  /\ UNCHANGED <<scope, crew, settings, saves>>

UsesCredential(u) ==
  /\ uses[u].at = "credential"
  /\ \E v \in Value("credential") :
       uses' = [uses EXCEPT ![u].at = "asks", ![u].got["credential"] = v]
  /\ UNCHANGED <<scope, crew, settings, saves>>

\* A credential that was encrypted with another key cannot be read.
Unreadable(got) == IF got["credential"] \in Servers THEN {"unreadable"} ELSE {}

Asked(got, without, answers) ==
  IF got["address"] = "none" THEN {without} ELSE answers \cup Unreadable(got)

\* What each of them makes of what it has read. A queued mail is tried in any case.
TestsMail(got)  == Asked(got, "not_configured", {"reached", "refused"})
SendsMail(got)  == Asked(got, "refused", {"reached", "refused"})
ProbesMail(got) == Asked(got, "unreachable", {"reached", "unreachable"})

\* A provider without a key is half a configuration.
WithKey(got, answers) == IF got["credential"] = "none" THEN {"incomplete"} ELSE answers
TestsModel(got)     == Asked(got, "not_configured", WithKey(got, {"reached", "refused", "unreachable"}))
DescribesModel(got) == Asked(got, "not_configured", WithKey(got, {"reached"}))

TestsCalendar(got)  == Asked(got, "not_configured", {"reached", "refused", "unreachable"})
ChecksCalendar(got) == Asked(got, "not_configured", {"reached", "unreachable"})

IsAnswered(u) ==
  LET got == uses[u].got IN
  /\ uses[u].at = "asks"
  /\ \E answer \in TestsMail(got) \cup SendsMail(got) \cup ProbesMail(got) \cup TestsModel(got)
                     \cup DescribesModel(got) \cup TestsCalendar(got) \cup ChecksCalendar(got) :
       uses' = [uses EXCEPT ![u] = [Unused EXCEPT !.at = "done", !.answer = answer]]
  /\ UNCHANGED <<scope, crew, settings, saves>>

SettingsNext ==
  \/ \E w \in Saves : Submits(w) \/ SavesAll(w) \/ \E k \in Keys : Finds(w, k)
  \/ \E u \in Uses : UsesAddress(u) \/ UsesCredential(u) \/ IsAnswered(u)

SettingsSpec == SettingsInit /\ [][SettingsNext]_settingVars

(***************************************************************************)
(* Properties.                                                             *)
(***************************************************************************)
\* "A secret sent back as its mask is ignored, so saving an unrelated tab cannot
\* overwrite a stored credential" (routes/settings.py, SettingsWrite): whatever was saved
\* between the screen being opened and the form being sent is still there.
EchoKeepsTheCredential ==
  [][\A w \in Saves :
       saves[w].at = "reads" /\ saves'[w].at = "saved" /\ saves[w].sent["credential"] = "mask"
         => settings'["credential"] = settings["credential"]]_settingVars
=============================================================================
