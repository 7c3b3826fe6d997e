------------------------------- MODULE SignIn -------------------------------
(***************************************************************************)
(* Signing in and getting back in: api/security/{lockout,codes,session,    *)
(* passwords_policy,ssh_keys}.py with api/routes/{auth,recovery}.py.       *)
(*                                                                         *)
(* One account, reached from one address: the counters lockout keeps for   *)
(* either of the two are read and written together, so one stands for      *)
(* both. A request is a few reads and commits, and others run in between;  *)
(* `ask[r]` is request r with what it has read. A row that is updated      *)
(* after another request deleted it, or inserted beside one that another   *)
(* request inserted, raises and the request answers 500.                   *)
(***************************************************************************)
EXTENDS Naturals, Sequences, FiniteSets

CONSTANTS Requests,      \* requests in hand
          Stories,       \* sets of kinds of request, and mistyping, examined together
          FreeAttempts,  \* FREE_ATTEMPTS
          MaxLock,       \* MAX_LOCK, where FIRST_LOCK is one minute
          MaxTries,      \* MAX_ATTEMPTS of a code
          HistoryDepth,  \* HISTORY_DEPTH
          Passwords,     \* the passwords people choose
          MaxFailures,   \* bound: failures counted; the lock is MaxLock by then
          MaxCodes,      \* bound: codes issued and proved
          MaxChanges     \* bound: passwords set

ASSUME SignInAssumption ==
  /\ FreeAttempts \in Nat /\ MaxLock \in Nat \ {0} /\ MaxTries \in Nat \ {0}
  /\ HistoryDepth \in Nat \ {0}
  /\ MaxFailures \in Nat /\ MaxCodes \in Nat /\ MaxChanges \in Nat
  /\ MaxFailures > FreeAttempts /\ 2 ^ (MaxFailures - FreeAttempts - 1) >= MaxLock

VARIABLES
  kinds,      \* the requests this behaviour is about
  attempt,    \* the counter of each action; no failures is no row
  password,   \* user.password_hash: what it is of, whether its cost is out of date
  history,    \* password_history: [id, of]
  sessions,   \* [of, checked, kept]: the browser, the password in force at the check
  code,       \* auth_codes: the row of the account
  issued,     \* how many codes have been issued
  mail,       \* those that are in a queued message
  challenge,  \* key_challenges: there is a live one
  tickets,    \* _reset_tickets, in memory
  ask,        \* the requests
  version,    \* how many passwords have been set
  past,       \* the passwords that were set, in order
  proofs,     \* codes that were accepted
  resets,     \* passwords set with a ticket
  crossed     \* requests that touch the password have overlapped

signInVars == <<kinds, attempt, password, history, sessions, code, issued, mail, challenge,
                tickets, ask, version, past, proofs, resets, crossed>>
accounts   == <<password, history, sessions, version, past, crossed>>
proving    == <<code, issued, mail, challenge, tickets, proofs, resets>>

Actions == {"login", "key", "forgot", "code", "password"}
Guarded == {"login", "key", "forgot"}
NoRow   == [failures |-> 0, lock |-> 0, quiet |-> FALSE]
NoCode  == [is |-> 0, left |-> 0]
Idle    == [at |-> "idle", kind |-> "none", row |-> NoRow, code |-> NoCode, right |-> FALSE,
            saw |-> 0, of |-> "none", stale |-> FALSE, want |-> "none", keep |-> {},
            ticket |-> FALSE]

First == CHOOSE p \in Passwords : TRUE

\* A first-run administrator: the first password never went through set_password.
SignInInit ==
  /\ kinds \in Stories
  /\ attempt = [a \in Actions |-> NoRow]
  /\ \E stale \in BOOLEAN : password = [of |-> First, stale |-> stale]
  /\ history = {}
  /\ sessions \in {{}, [of : Requests, checked : {0}, kept : {FALSE}]}
  /\ \/ code = NoCode /\ issued = 0 /\ mail = {}
     \/ "code" \in kinds /\ code = [is |-> 1, left |-> MaxTries] /\ issued = 1 /\ mail = {1}
  /\ challenge = FALSE
  /\ tickets = IF "reset" \in kinds /\ "code" \notin kinds THEN {1} ELSE {}
  /\ ask = [r \in Requests |-> Idle]
  /\ version = 0 /\ past = <<>>
  /\ proofs = Cardinality(tickets) /\ resets = 0
  /\ crossed = FALSE

SignInTypeOK ==
  /\ \A a \in Actions : attempt[a].failures \in 0..MaxFailures /\ attempt[a].lock \in 0..MaxLock
  /\ password.of \in Passwords
  /\ code.is \in 0..MaxCodes /\ code.left \in 0..MaxTries
  /\ \A r \in Requests : ask[r].at \in
       {"idle", "checked", "wrong", "right", "proved", "counted", "issued", "trying", "offering",
        "matching", "setting"}

(***************************************************************************)
(* lockout                                                                 *)
(***************************************************************************)
LockFor(failures) ==
  IF failures <= FreeAttempts THEN 0
  ELSE LET doubled == 2 ^ (failures - FreeAttempts - 1)
       IN IF doubled < MaxLock THEN doubled ELSE MaxLock

Arrives(r, kind) == kind \in kinds /\ ask[r].at = "idle"

\* check: before anything else, and what is locked is refused without being counted.
Checks(r, kind) ==
  /\ Arrives(r, kind) /\ attempt[kind].lock = 0
  /\ ask' = [ask EXCEPT ![r] = [Idle EXCEPT !.at = "checked", !.kind = kind]]
  /\ UNCHANGED <<kinds, attempt, accounts, proving>>

\* record_failure reads the row...
Counting(r) == [ask[r] EXCEPT !.at = "wrong", !.row = attempt[ask[r].kind]]

Counted(row, now) ==
  LET so_far == IF row.quiet THEN 0 ELSE row.failures
      failures == IF so_far < MaxFailures THEN so_far + 1 ELSE so_far
  IN [failures |-> failures, quiet |-> FALSE,
      lock |-> IF LockFor(failures) > 0 THEN LockFor(failures)
               ELSE IF row.quiet THEN 0 ELSE now.lock]

\* ...and writes what follows from it.
RecordsFailure(r) ==
  LET a == ask[r].kind  now == attempt[a]
      raised == (ask[r].row.failures = 0) # (now.failures = 0)
  IN /\ ask[r].at = "wrong"
     /\ attempt' = IF raised THEN attempt ELSE [attempt EXCEPT ![a] = Counted(ask[r].row, now)]
     /\ ask' = [ask EXCEPT ![r] = IF a = "forgot" /\ ~raised THEN [@ EXCEPT !.at = "counted"]
                                  ELSE Idle]
     /\ UNCHANGED <<kinds, accounts, proving>>

\* clear, on success.
Clears(r) ==
  /\ ask[r].at = "right"
  /\ attempt' = [attempt EXCEPT ![ask[r].kind] = NoRow]
  /\ ask' = [ask EXCEPT ![r].at = "proved"]
  /\ UNCHANGED <<kinds, accounts, proving>>

\* COUNTER_TTL is longer than the longest lock.
LongQuiet(a) ==
  /\ attempt[a].failures > 0 /\ attempt[a].lock = 0 /\ ~attempt[a].quiet
  /\ attempt' = [attempt EXCEPT ![a].quiet = TRUE]
  /\ UNCHANGED <<kinds, accounts, proving, ask>>

\* delete_stale_counters, from the housekeeping job.
DeletesStaleCounters ==
  /\ \E a \in Actions : attempt[a].quiet
  /\ attempt' = [a \in Actions |-> IF attempt[a].quiet THEN NoRow ELSE attempt[a]]
  /\ UNCHANGED <<kinds, accounts, proving, ask>>

Minute ==
  /\ \E a \in Actions : attempt[a].lock > 0
  /\ attempt' = [a \in Actions |->
                   [attempt[a] EXCEPT !.lock = IF @ > 0 THEN @ - 1 ELSE 0]]
  /\ UNCHANGED <<kinds, accounts, proving, ask>>

(***************************************************************************)
(* Signing in                                                              *)
(***************************************************************************)
\* The account is read and the password compared with what was read.
Verifies(r) ==
  /\ ask[r].at = "checked" /\ ask[r].kind = "login"
  /\ \/ "typo" \in kinds /\ ask' = [ask EXCEPT ![r] = Counting(r)]
     \/ ask' = [ask EXCEPT ![r] = [@ EXCEPT !.at = "right", !.saw = version,
                                            !.of = password.of, !.stale = password.stale]]
  /\ UNCHANGED <<kinds, attempt, accounts, proving>>

\* create_session. A hash whose cost is out of date is replaced in the same commit, by
\* one of the password that was compared.
SignsIn(r) ==
  /\ ask[r].at = "proved" /\ ask[r].kind \in {"login", "key"}
  /\ sessions' = sessions \cup
       {[of |-> r, checked |-> IF ask[r].kind = "key" THEN version ELSE ask[r].saw, kept |-> FALSE]}
  /\ password' = IF ask[r].stale THEN [of |-> ask[r].of, stale |-> FALSE] ELSE password
  /\ crossed' = (crossed \/ (ask[r].kind = "login" /\ ask[r].saw # version))
  /\ ask' = [ask EXCEPT ![r] = Idle]
  /\ UNCHANGED <<kinds, attempt, history, version, past, proving>>

Login(r) == Checks(r, "login") \/ Verifies(r)

\* A challenge replaces the one before it.
Mints ==
  /\ "key" \in kinds
  /\ challenge' = TRUE
  /\ UNCHANGED <<kinds, attempt, accounts, code, issued, mail, tickets, proofs, resets, ask>>

ChallengeExpires ==
  /\ challenge
  /\ challenge' = FALSE
  /\ UNCHANGED <<kinds, attempt, accounts, code, issued, mail, tickets, proofs, resets, ask>>

\* take_challenge reads the row and deletes it whatever comes of it.
Offers(r) ==
  /\ ask[r].at = "checked" /\ ask[r].kind = "key"
  /\ ask' = [ask EXCEPT ![r] = [@ EXCEPT !.at = "offering", !.right = challenge]]
  /\ UNCHANGED <<kinds, attempt, accounts, proving>>

Takes(r) ==
  /\ ask[r].at = "offering"
  /\ challenge' = IF ask[r].right THEN FALSE ELSE challenge
  /\ ask' = [ask EXCEPT ![r].at = "matching"]
  /\ UNCHANGED <<kinds, attempt, accounts, code, issued, mail, tickets, proofs, resets>>

\* find_matching_key: one of the account's keys made the signature, or none did.
Matches(r) ==
  /\ ask[r].at = "matching"
  /\ \/ ask[r].right /\ ask' = [ask EXCEPT ![r].at = "right"]
     \/ (ask[r].right => "typo" \in kinds) /\ ask' = [ask EXCEPT ![r] = Counting(r)]
  /\ UNCHANGED <<kinds, attempt, accounts, proving>>

KeyVerify(r) == Checks(r, "key") \/ Offers(r) \/ Takes(r) \/ Matches(r)

Ends(there) ==
  /\ sessions' = there
  /\ UNCHANGED <<kinds, attempt, password, history, version, past, crossed, proving, ask>>

SignedIn(r) == \E s \in sessions : s.of = r

Logout(r) ==
  /\ Arrives(r, "logout") /\ SignedIn(r)
  /\ Ends({s \in sessions : s.of # r})

LogoutEverywhere(r) ==
  /\ Arrives(r, "logout") /\ SignedIn(r)
  /\ Ends({s \in sessions : s.of = r})

SessionExpires == "logout" \in kinds /\ \E s \in sessions : Ends(sessions \ {s})

(***************************************************************************)
(* A code by mail, and the ticket it earns                                 *)
(***************************************************************************)
\* Every request for a code is counted, whether or not there is such an account.
AsksForCode(r) ==
  /\ ask[r].at = "checked" /\ ask[r].kind = "forgot"
  /\ ask' = [ask EXCEPT ![r] = Counting(r)]
  /\ UNCHANGED <<kinds, attempt, accounts, proving>>

\* issue: the codes before it are deleted in the same commit. Bound: MaxCodes.
Issues(r) ==
  /\ ask[r].at = "counted" /\ issued < MaxCodes
  /\ issued' = issued + 1
  /\ code' = [is |-> issued', left |-> MaxTries]
  /\ ask' = [ask EXCEPT ![r] = [@ EXCEPT !.at = "issued", !.code = code']]
  /\ UNCHANGED <<kinds, attempt, accounts, mail, challenge, tickets, proofs, resets>>

\* The message is queued and committed afterwards.
Mails(r) ==
  /\ ask[r].at = "issued"
  /\ mail' = mail \cup {ask[r].code.is}
  /\ ask' = [ask EXCEPT ![r] = Idle]
  /\ UNCHANGED <<kinds, attempt, accounts, code, issued, challenge, tickets, proofs, resets>>

Forgot(r) == Checks(r, "forgot") \/ AsksForCode(r) \/ Issues(r) \/ Mails(r)

CodeExpires ==
  /\ code.is # 0
  /\ code' = NoCode
  /\ UNCHANGED <<kinds, attempt, accounts, issued, mail, challenge, tickets, proofs, resets, ask>>

\* verify reads the row; what was sent matches it or does not.
Tries(r) ==
  /\ Arrives(r, "code")
  /\ \E right \in BOOLEAN :
       /\ IF right THEN code.is \in mail ELSE "typo" \in kinds
       /\ ask' = [ask EXCEPT ![r] = [Idle EXCEPT !.at = "trying", !.kind = "code",
                                                 !.code = code, !.right = right]]
  /\ UNCHANGED <<kinds, attempt, accounts, proving>>

\* No row, a wrong code, or the last wrong code: the row goes when nothing is left.
\* Deleting what is gone does not raise; changing it does.
Judges(r) ==
  LET saw   == ask[r].code
      there == code.is = saw.is
      left  == saw.left - 1
  IN /\ ask[r].at = "trying" /\ proofs < MaxCodes
     /\ code' = IF saw.is = 0 \/ ~there THEN code
                ELSE IF ask[r].right \/ left = 0 THEN NoCode
                ELSE [code EXCEPT !.left = left]
     /\ ask' = [ask EXCEPT ![r] =
          IF saw.is # 0 /\ ask[r].right THEN [@ EXCEPT !.at = "right"]
          ELSE IF saw.is # 0 /\ ~there /\ left > 0 THEN Idle
          ELSE Counting(r)]
     /\ UNCHANGED <<kinds, attempt, accounts, issued, mail, challenge, tickets, proofs, resets>>

\* A ticket that authorises one change of the password.
IssuesTicket(r) ==
  /\ ask[r].at = "proved" /\ ask[r].kind = "code"
  /\ proofs' = proofs + 1
  /\ tickets' = tickets \cup {proofs'}
  /\ ask' = [ask EXCEPT ![r] = Idle]
  /\ UNCHANGED <<kinds, attempt, accounts, code, issued, mail, challenge, resets>>

VerifyCode(r) == Tries(r) \/ Judges(r) \/ IssuesTicket(r)

(***************************************************************************)
(* set_password                                                            *)
(***************************************************************************)
Newer(e) == {f.id : f \in {g \in history : g.id > e.id}}

\* A mutant: one fingerprint too few.
RecentShort == {e \in history : Cardinality(Newer(e)) < HistoryDepth - 1}

\* _recent: by id, the newest HistoryDepth.
Recent == {e \in history : Cardinality(Newer(e)) < HistoryDepth}

Reused(want) == want = password.of \/ \E e \in Recent : e.of = want

\* The password and the fingerprints are read, and the new one compared with them.
Chooses(r, kind, ticket) ==
  /\ version < MaxChanges
  /\ \E want \in Passwords :
       ask' = [ask EXCEPT ![r] =
         IF Reused(want) THEN Idle
         ELSE [Idle EXCEPT !.at = "setting", !.kind = kind, !.want = want, !.saw = version,
                           !.keep = Recent, !.ticket = ticket]]

\* A mutant: a reset keeps what its browser had.
RemainingAlso(r) ==
  {[s EXCEPT !.kept = ask[r].kind = "change"] : s \in {t \in sessions : t.of = r}}

\* Only the browser that changes the password stays signed in; a reset keeps none.
Remaining(r) ==
  {[s EXCEPT !.kept = TRUE] : s \in {t \in sessions : ask[r].kind = "change" /\ t.of = r}}

\* One commit: the hash, its fingerprint beside those that were read, the other
\* sessions ended.
SetsPassword(r) ==
  LET one == ask[r] IN
  /\ one.at = "setting"
  /\ password' = [of |-> one.want, stale |-> FALSE]
  /\ version' = version + 1
  /\ history' = (history \cap one.keep) \cup {[id |-> version', of |-> one.want]}
  /\ past' = Append(past, one.want)
  /\ sessions' = Remaining(r)
  /\ crossed' = (crossed \/ one.saw # version)
  /\ resets' = IF one.ticket THEN resets + 1 ELSE resets
  /\ ask' = [ask EXCEPT ![r] = Idle]
  /\ UNCHANGED <<kinds, attempt, code, issued, mail, challenge, tickets, proofs>>

\* A wrong current password is counted, and the count is never looked at.
ChangePassword(r) ==
  /\ Arrives(r, "change") /\ SignedIn(r)
  /\ \/ "typo" \in kinds
        /\ ask' = [ask EXCEPT ![r] = [Idle EXCEPT !.at = "wrong", !.kind = "password",
                                                  !.row = attempt["password"]]]
     \/ Chooses(r, "change", FALSE)
  /\ UNCHANGED <<kinds, attempt, accounts, proving>>

\* A mutant: the ticket is only looked at, and dropped elsewhere.
ResetPasswordPeeks(r) ==
  /\ Arrives(r, "reset")
  /\ \E t \in tickets : Chooses(r, "reset", TRUE) /\ UNCHANGED tickets
  /\ UNCHANGED <<kinds, attempt, accounts, code, issued, mail, challenge, proofs, resets>>

\* The ticket is spent before anything is read, and also by a password that is refused.
ResetPassword(r) ==
  /\ Arrives(r, "reset")
  /\ \E t \in tickets : Chooses(r, "reset", TRUE) /\ tickets' = tickets \ {t}
  /\ UNCHANGED <<kinds, attempt, accounts, code, issued, mail, challenge, proofs, resets>>

\* Tickets are in memory, and so are the requests.
Stops ==
  /\ \E r \in Requests : ask[r].at # "idle"
  /\ ask' = [r \in Requests |-> Idle]
  /\ tickets' = {}
  /\ UNCHANGED <<kinds, attempt, accounts, code, issued, mail, challenge, proofs, resets>>

SignInNext ==
  \/ \E r \in Requests :
       \/ Login(r) \/ KeyVerify(r) \/ Forgot(r) \/ VerifyCode(r)
       \/ RecordsFailure(r) \/ Clears(r) \/ SignsIn(r)
       \/ Logout(r) \/ LogoutEverywhere(r)
       \/ ChangePassword(r) \/ ResetPassword(r) \/ SetsPassword(r)
  \/ Mints \/ ChallengeExpires \/ CodeExpires \/ SessionExpires
  \/ \E a \in Actions : LongQuiet(a)
  \/ DeletesStaleCounters \/ Minute \/ Stops

SignInSpec == SignInInit /\ [][SignInNext]_signInVars

(***************************************************************************)
(* Properties.                                                             *)
(***************************************************************************)
\* While nothing overlaps on the password, none that is set is one of the HistoryDepth
\* set before it. (A first-run administrator's first password has no fingerprint and may
\* come back.)
RecentPasswordsStayRefused ==
  ~crossed => \A i, j \in DOMAIN past : i < j /\ j - i <= HistoryDepth => past[i] # past[j]

\* A code that was accepted changes at most one password: a ticket that two requests
\* present is good for one of them.
OneTicketOneChange == resets + Cardinality(tickets) <= proofs

\* After a password is set, every session was begun with it or by a key, or is the one
\* that set it; sign-ins that had compared an earlier one are the exception.
OtherSessionsEnd == ~crossed => \A s \in sessions : s.checked = version \/ s.kept
=============================================================================
