--------------------------- MODULE AccountsProofs ---------------------------
(* Proofs about SignIn, Members and Access, for any number of people, workspaces and
   requests, any passwords and any ceiling. *)
EXTENDS SignIn, Members, Access, FiniteSetTheorems, TLAPS

(***************************************************************************)
(* The account: passwords, tickets and sessions.                           *)
(***************************************************************************)
\* A request has its eleven fields, whatever they hold; a session has three.
Fields   == {"at", "kind", "row", "code", "right", "saw", "of", "stale", "want", "keep", "ticket"}
Asked(a) == a = [f \in Fields |-> a[f]]

SignInForms ==
  /\ ask = [r \in Requests |-> ask[r]]
  /\ \A r \in Requests : Asked(ask[r])
  /\ \A s \in sessions : s = [of |-> s.of, checked |-> s.checked, kept |-> s.kept]
  /\ version \in Nat /\ past \in Seq(Passwords) /\ Len(past) = version
  /\ proofs \in Nat /\ resets \in Nat
  /\ \A r \in Requests : ask[r].at = "setting" => /\ ask[r].want \in Passwords
                                                  /\ ask[r].saw \in 0..version
                                                  /\ ask[r].ticket \in BOOLEAN

\* Every ticket was earned by a code of its own, and is in the register, in the hands of
\* one request, or spent.
Spending == {r \in Requests : ask[r].at = "setting" /\ ask[r].ticket = TRUE}

TicketsSpent ==
  /\ tickets \subseteq 1..proofs
  /\ IsFiniteSet(Spending)
  /\ resets + Cardinality(tickets) + Cardinality(Spending) <= proofs

\* While nothing has overlapped, the history is the end of the past, one longer than is
\* looked at, and who is about to set a password has looked at all of it.
Entry(i)   == [id |-> i, of |-> past[i]]
HistoryIs  == history = {Entry(i) : i \in {k \in 1..version : version - k <= HistoryDepth}}
Chosen(r)  == ask[r].keep = Recent /\ \A e \in Recent : e.of # ask[r].want
Histories  ==
  ~crossed => /\ HistoryIs
              /\ \A r \in Requests : ask[r].at = "setting" /\ ask[r].saw = version => Chosen(r)

SignInInv ==
  /\ SignInForms /\ TicketsSpent /\ Histories
  /\ OtherSessionsEnd /\ RecentPasswordsStayRefused

LEMMA IdleAsk == Asked(Idle) /\ Idle.at = "idle" /\ Idle.ticket = FALSE
BY DEF Asked, Fields, Idle

\* What _recent reads of such a history: the entries of the last HistoryDepth passwords.
LEMMA RecentIs ==
  ASSUME version \in Nat, HistoryIs
  PROVE  Recent = {Entry(i) : i \in {k \in 1..version : version - k < HistoryDepth}}
<1>1. ASSUME NEW i \in 1..version, version - i <= HistoryDepth
      PROVE  Cardinality(Newer(Entry(i))) = version - i
  <2>1. Newer(Entry(i)) = (i + 1)..version
    <3>1. ASSUME NEW k \in (i + 1)..version PROVE k \in Newer(Entry(i))
      <4>1. Entry(k) \in history /\ Entry(k).id = k /\ k > i /\ Entry(i).id = i
        BY <1>1, SignInAssumption DEF HistoryIs, Entry
      <4> QED
        BY <4>1 DEF Newer
    <3>2. ASSUME NEW k \in Newer(Entry(i)) PROVE k \in (i + 1)..version
      BY <1>1, <3>2 DEF Newer, HistoryIs, Entry
    <3> QED
      BY <3>1, <3>2
  <2> QED
    BY <1>1, <2>1, FS_Interval
<1>2. ASSUME NEW i \in 1..version, version - i <= HistoryDepth
      PROVE  Entry(i) \in Recent <=> version - i < HistoryDepth
  <2>1. Entry(i) \in history
    BY <1>2 DEF HistoryIs
  <2> QED
    BY <1>1, <1>2, <2>1 DEF Recent
<1>3. ASSUME NEW e \in Recent
      PROVE  e \in {Entry(i) : i \in {k \in 1..version : version - k < HistoryDepth}}
  <2>1. PICK i \in 1..version : version - i <= HistoryDepth /\ e = Entry(i)
    BY <1>3 DEF Recent, HistoryIs
  <2> QED
    BY <1>2, <1>3, <2>1
<1>4. ASSUME NEW i \in 1..version, version - i < HistoryDepth
      PROVE  Entry(i) \in Recent
  BY <1>2, <1>4, SignInAssumption
<1> QED
  BY <1>3, <1>4

LEMMA TicketsFinite ==
  ASSUME SignInForms, TicketsSpent
  PROVE  IsFiniteSet(tickets) /\ Cardinality(tickets) \in Nat /\ Cardinality(Spending) \in Nat
<1>1. IsFiniteSet(1..proofs)
  BY FS_Interval DEF SignInForms
<1>2. IsFiniteSet(tickets)
  BY <1>1, FS_Subset DEF TicketsSpent
<1> QED
  BY <1>2, FS_CardinalityType DEF TicketsSpent

LEMMA SignInInitInv == SignInInit => SignInInv
<1> SUFFICES ASSUME SignInInit PROVE SignInInv
  OBVIOUS
<1>0. \/ tickets = {} /\ Cardinality(tickets) = 0 /\ proofs = 0
      \/ tickets = {1} /\ Cardinality(tickets) = 1 /\ proofs = 1
  <2>1. CASE tickets = {}
    BY <2>1, FS_EmptySet DEF SignInInit
  <2>2. CASE tickets = {1}
    <3>1. Cardinality({1}) = 1
      BY FS_Singleton
    <3> QED
      BY <2>2, <3>1 DEF SignInInit
  <2> QED
    BY <2>1, <2>2 DEF SignInInit
<1>1. SignInForms
  <2>1. sessions = {} \/ sessions = [of : Requests, checked : {0}, kept : {FALSE}]
    BY DEF SignInInit
  <2>2. \A s \in sessions : s = [of |-> s.of, checked |-> s.checked, kept |-> s.kept]
    <3>1. ASSUME NEW s \in [of : Requests, checked : {0}, kept : {FALSE}]
          PROVE  s = [of |-> s.of, checked |-> s.checked, kept |-> s.kept]
      OBVIOUS
    <3> QED
      BY <2>1, <3>1
  <2> QED
    BY <1>0, <2>2, IdleAsk DEF SignInInit, SignInForms
<1>2. TicketsSpent
  <2>1. Spending = {}
    BY IdleAsk DEF SignInInit, Spending
  <2>2. resets = 0 /\ IsFiniteSet(Spending) /\ Cardinality(Spending) = 0
    BY <2>1, FS_EmptySet DEF SignInInit
  <2> QED
    BY <1>0, <2>2 DEF TicketsSpent
<1>3. Histories
  <2>1. history = {} /\ version = 0
    BY DEF SignInInit
  <2> QED
    BY <2>1, IdleAsk DEF SignInInit, Histories, HistoryIs
<1>4. OtherSessionsEnd
  BY DEF SignInInit, OtherSessionsEnd
<1>5. RecentPasswordsStayRefused
  BY DEF SignInInit, RecentPasswordsStayRefused
<1> QED
  BY <1>1, <1>2, <1>3, <1>4, <1>5 DEF SignInInv

\* The account stays as it was: so does what depends on it alone.
LEMMA AccountStays ==
  ASSUME SignInInv, UNCHANGED accounts,
         \A r \in Requests : ask'[r] = ask[r] \/ ask'[r].at # "setting"
                             \/ (ask'[r].keep = Recent /\ \A e \in Recent : e.of # ask'[r].want)
  PROVE  Histories' /\ OtherSessionsEnd' /\ RecentPasswordsStayRefused'
<1>1. Recent' = Recent /\ (HistoryIs => HistoryIs')
  BY DEF HistoryIs, Recent, Newer, Entry, accounts
<1>2. Histories'
  BY <1>1 DEF SignInInv, Histories, Chosen, accounts
<1> QED
  BY <1>2 DEF SignInInv, OtherSessionsEnd, RecentPasswordsStayRefused, accounts

\* So many fewer are in the register, and so many more at hand or spent.
LEMMA TicketsMove ==
  ASSUME SignInInv, UNCHANGED <<proofs, resets>>, tickets' \subseteq tickets,
         \/ Spending' \subseteq Spending
         \/ \E t \in tickets, r \in Requests :
              tickets' = tickets \ {t} /\ Spending' \subseteq Spending \cup {r}
  PROVE  TicketsSpent'
<1>1. IsFiniteSet(tickets) /\ Cardinality(tickets) \in Nat /\ Cardinality(Spending) \in Nat
  BY TicketsFinite DEF SignInInv
<1>2. Cardinality(tickets') \in Nat /\ Cardinality(tickets') <= Cardinality(tickets)
  BY <1>1, FS_Subset, FS_CardinalityType
<1>3. CASE Spending' \subseteq Spending
  <2>1. IsFiniteSet(Spending') /\ Cardinality(Spending') <= Cardinality(Spending)
    BY <1>3, FS_Subset DEF SignInInv, TicketsSpent
  <2>2. Cardinality(Spending') \in Nat
    BY <2>1, FS_CardinalityType
  <2> QED
    <3> DEFINE a == Cardinality(tickets)  b == Cardinality(Spending)
               c == Cardinality(tickets')  d == Cardinality(Spending')
    <3>1. /\ a \in Nat /\ b \in Nat /\ c \in Nat /\ d \in Nat /\ c <= a /\ d <= b
          /\ resets + a + b <= proofs /\ resets \in Nat /\ proofs \in Nat
      BY <1>1, <1>2, <2>1, <2>2 DEF SignInInv, SignInForms, TicketsSpent
    <3>2. resets + c + d <= proofs
      <4> HIDE DEF a, b, c, d
      <4> QED
        BY <3>1
    <3> QED
      BY <2>1, <3>2 DEF SignInInv, TicketsSpent
<1>4. ASSUME NEW t \in tickets, NEW r \in Requests, tickets' = tickets \ {t},
             Spending' \subseteq Spending \cup {r}
      PROVE  TicketsSpent'
  <2>1. Cardinality(tickets') = Cardinality(tickets) - 1
    BY <1>1, <1>4, FS_RemoveElement
  <2>2. IsFiniteSet(Spending \cup {r}) /\ Cardinality(Spending \cup {r}) <= Cardinality(Spending) + 1
    <3>1. IsFiniteSet(Spending)
      BY DEF SignInInv, TicketsSpent
    <3>2. /\ IsFiniteSet(Spending \cup {r})
          /\ Cardinality(Spending \cup {r}) = IF r \in Spending THEN Cardinality(Spending)
                                             ELSE Cardinality(Spending) + 1
      BY <3>1, FS_AddElement
    <3> QED
      BY <1>1, <3>2
  <2>3. IsFiniteSet(Spending') /\ Cardinality(Spending') <= Cardinality(Spending \cup {r})
    BY <1>4, <2>2, FS_Subset
  <2>4. Cardinality(Spending') \in Nat /\ Cardinality(Spending \cup {r}) \in Nat
    BY <2>2, <2>3, FS_CardinalityType
  <2> QED
    BY <1>1, <1>2, <1>4, <2>1, <2>2, <2>3, <2>4 DEF SignInInv, SignInForms, TicketsSpent
<1> QED
  BY <1>3, <1>4

\* A request that is not about to set a password goes on, and leaves the account alone.
LEMMA SignInMoves ==
  ASSUME SignInInv, NEW r \in Requests, NEW q, Asked(q), q.at # "setting",
         ask' = [ask EXCEPT ![r] = q], UNCHANGED <<accounts, proofs, resets>>,
         tickets' \subseteq tickets
  PROVE  SignInInv'
<1>1. SignInForms'
  BY DEF SignInInv, SignInForms, accounts, Asked, Fields
<1>2. Spending' \subseteq Spending
  BY DEF SignInInv, SignInForms, Spending
<1>3. \A p \in Requests : ask'[p] = ask[p] \/ ask'[p].at # "setting"
  BY DEF SignInInv, SignInForms
<1> QED
  BY <1>1, <1>2, <1>3, AccountStays, TicketsMove DEF SignInInv

\* One that was, but for one field of its record.
LEMMA FieldMoves ==
  ASSUME SignInInv, NEW r \in Requests, NEW at, at # "setting",
         ask' = [ask EXCEPT ![r].at = at], UNCHANGED <<accounts, tickets, proofs, resets>>
  PROVE  SignInInv'
<1> DEFINE q == [ask[r] EXCEPT !.at = at]
<1>1. ask' = [ask EXCEPT ![r] = q]
  OBVIOUS
<1>2. Asked(q) /\ q.at = at
  BY DEF SignInInv, SignInForms, Asked, Fields
<1> QED
  BY <1>1, <1>2, SignInMoves

LEMMA SignInStays ==
  ASSUME SignInInv, UNCHANGED <<ask, accounts, tickets, proofs, resets>>
  PROVE  SignInInv'
<1>1. SignInForms' /\ TicketsSpent'
  BY DEF SignInInv, SignInForms, TicketsSpent, Spending, accounts, Asked, Fields
<1>2. Histories'
  BY DEF SignInInv, Histories, HistoryIs, Chosen, Recent, Newer, Entry, accounts
<1>3. OtherSessionsEnd' /\ RecentPasswordsStayRefused'
  BY DEF SignInInv, OtherSessionsEnd, RecentPasswordsStayRefused, accounts
<1> QED
  BY <1>1, <1>2, <1>3 DEF SignInInv

LEMMA ChoosesWhat ==
  ASSUME SignInForms, NEW r \in Requests, NEW kind, NEW ticket \in BOOLEAN,
         Chooses(r, kind, ticket)
  PROVE  \E q : /\ ask' = [ask EXCEPT ![r] = q] /\ Asked(q)
                /\ q.at = "setting" =>
                     /\ q.ticket = ticket /\ q.saw = version /\ q.want \in Passwords
                     /\ q.keep = Recent /\ \A e \in Recent : e.of # q.want
<1>1. PICK want \in Passwords :
        ask' = [ask EXCEPT ![r] =
          IF Reused(want) THEN Idle
          ELSE [Idle EXCEPT !.at = "setting", !.kind = kind, !.want = want, !.saw = version,
                            !.keep = Recent, !.ticket = ticket]]
  BY DEF Chooses
<1> DEFINE q == [Idle EXCEPT !.at = "setting", !.kind = kind, !.want = want, !.saw = version,
                             !.keep = Recent, !.ticket = ticket]
<1>2. /\ Asked(q) /\ q.ticket = ticket /\ q.saw = version /\ q.want = want /\ q.keep = Recent
      /\ q.at = "setting"
  BY IdleAsk DEF Asked, Fields
<1>3. CASE Reused(want)
  BY <1>1, <1>3, IdleAsk
<1>4. CASE ~Reused(want)
  BY <1>1, <1>2, <1>4 DEF Reused
<1> QED
  BY <1>3, <1>4

\* Whoever chooses a password goes on as the property asks, with or without a ticket.
LEMMA ChoosesKeeps ==
  ASSUME SignInInv, NEW r \in Requests, NEW kind, NEW ticket \in BOOLEAN,
         Chooses(r, kind, ticket), UNCHANGED <<accounts, proofs, resets>>,
         IF ticket THEN \E t \in tickets : tickets' = tickets \ {t} ELSE UNCHANGED tickets
  PROVE  SignInInv'
<1>1. PICK q : /\ ask' = [ask EXCEPT ![r] = q] /\ Asked(q)
               /\ q.at = "setting" =>
                    /\ q.ticket = ticket /\ q.saw = version /\ q.want \in Passwords
                    /\ q.keep = Recent /\ \A e \in Recent : e.of # q.want
  BY ChoosesWhat DEF SignInInv
<1>2. ask'[r] = q /\ \A p \in Requests \ {r} : ask'[p] = ask[p]
  BY <1>1 DEF SignInInv, SignInForms
<1>3. SignInForms'
  <2>1. UNCHANGED <<sessions, version, past, proofs, resets>>
    BY DEF accounts
  <2>2. \A p \in Requests : Asked(ask'[p]) /\ (ask'[p].at = "setting" =>
          ask'[p].want \in Passwords /\ ask'[p].saw \in 0..version /\ ask'[p].ticket \in BOOLEAN)
    BY <1>1, <1>2 DEF SignInInv, SignInForms
  <2>3. ask' = [p \in Requests |-> ask'[p]]
    BY <1>1 DEF SignInInv, SignInForms
  <2> QED
    BY <2>1, <2>2, <2>3 DEF SignInInv, SignInForms, Asked
<1>4. TicketsSpent'
  <2>1. Spending' \subseteq Spending \cup {r}
    BY <1>2 DEF Spending
  <2>2. ~ticket => Spending' \subseteq Spending
    BY <1>1, <1>2 DEF Spending
  <2> QED
    BY <2>1, <2>2, TicketsMove
<1> QED
  BY <1>1, <1>2, <1>3, <1>4, AccountStays DEF SignInInv

\* One commit sets the password: the ticket is spent, the history grows by one, and the
\* sessions that stay are kept on purpose.
LEMMA SetsPasswordKeeps ==
  ASSUME SignInInv, NEW r \in Requests, SetsPassword(r)
  PROVE  SignInInv'
<1> DEFINE want == ask[r].want
           fresh == [id |-> version + 1, of |-> want]
<1>1. /\ version \in Nat /\ version' = version + 1 /\ past \in Seq(Passwords) /\ Len(past) = version
      /\ want \in Passwords /\ past' = Append(past, want) /\ ask[r].at = "setting"
      /\ ask' = [ask EXCEPT ![r] = Idle] /\ UNCHANGED <<tickets, proofs>>
  BY DEF SignInInv, SignInForms, SetsPassword
<1>2. ask'[r] = Idle /\ \A p \in Requests \ {r} : ask'[p] = ask[p]
  BY <1>1 DEF SignInInv, SignInForms
<1>3. SignInForms'
  <2>1. resets' \in Nat
    BY DEF SignInInv, SignInForms, SetsPassword
  <2>2. \A s \in sessions' : s = [of |-> s.of, checked |-> s.checked, kept |-> s.kept]
    BY DEF SignInInv, SignInForms, SetsPassword, Remaining
  <2>3. \A p \in Requests : ask'[p].at = "setting" => ask'[p].want \in Passwords /\ ask'[p].saw \in 0..version'
                                                     /\ ask'[p].ticket \in BOOLEAN
    BY <1>1, <1>2, IdleAsk DEF SignInInv, SignInForms
  <2>4. ask' = [p \in Requests |-> ask'[p]] /\ \A p \in Requests : Asked(ask'[p])
    BY <1>1, <1>2, IdleAsk DEF SignInInv, SignInForms
  <2>5. past' \in Seq(Passwords) /\ Len(past') = version' /\ version' \in Nat
    BY <1>1
  <2> QED
    BY <1>1, <2>1, <2>2, <2>3, <2>4, <2>5 DEF SignInInv, SignInForms, Asked, Fields
<1>4. TicketsSpent'
  <2>1. Spending' = Spending \ {r}
    BY <1>2, IdleAsk DEF Spending
  <2>2. /\ IsFiniteSet(Spending')
        /\ Cardinality(Spending') = IF r \in Spending THEN Cardinality(Spending) - 1
                                    ELSE Cardinality(Spending)
    BY <2>1, FS_RemoveElement DEF SignInInv, TicketsSpent
  <2>3. Cardinality(tickets) \in Nat /\ Cardinality(Spending) \in Nat
    BY TicketsFinite DEF SignInInv
  <2>4. r \in Spending <=> ask[r].ticket = TRUE
    BY <1>1 DEF Spending
  <2>5. resets' = IF ask[r].ticket THEN resets + 1 ELSE resets
    BY DEF SetsPassword
  <2>6. CASE ask[r].ticket = TRUE
    BY <1>1, <2>2, <2>3, <2>4, <2>5, <2>6 DEF SignInInv, SignInForms, TicketsSpent
  <2>7. CASE ask[r].ticket = FALSE
    BY <1>1, <2>2, <2>3, <2>4, <2>5, <2>7 DEF SignInInv, SignInForms, TicketsSpent
  <2> QED
    BY <1>1, <2>6, <2>7 DEF SignInInv, SignInForms
<1>5. ASSUME ~crossed'
      PROVE  /\ ~crossed /\ ask[r].saw = version /\ HistoryIs
             /\ Recent = {Entry(i) : i \in {k \in 1..version : version - k < HistoryDepth}}
             /\ ask[r].keep = Recent /\ \A e \in Recent : e.of # want
  <2>1. ~crossed /\ ask[r].saw = version
    BY <1>5 DEF SetsPassword
  <2>2. HistoryIs /\ Chosen(r)
    BY <1>1, <2>1 DEF SignInInv, Histories
  <2> QED
    BY <1>1, <2>1, <2>2, RecentIs DEF Chosen
<1>6. \A i \in 1..version : past'[i] = past[i]
  BY <1>1
<1>7. past'[version'] = want
  BY <1>1
<1>8. Histories'
  <2> SUFFICES ASSUME ~crossed' PROVE HistoryIs' /\ \A p \in Requests :
                 ask'[p].at = "setting" /\ ask'[p].saw = version' => Chosen(p)'
    BY DEF Histories
  <2>1. history' = Recent \cup {[id |-> version', of |-> want]}
    BY <1>5 DEF SetsPassword, Recent
  <2>2. ASSUME NEW e \in history'
        PROVE  \E i \in 1..version' : version' - i <= HistoryDepth /\ e = [id |-> i, of |-> past'[i]]
    <3>1. CASE e = [id |-> version', of |-> want]
      BY <1>1, <1>7, <3>1, SignInAssumption
    <3>2. CASE e \in Recent
      <4>1. PICK i \in 1..version : version - i < HistoryDepth /\ e = Entry(i)
        BY <1>5, <3>2
      <4> QED
        BY <1>1, <1>6, <4>1, SignInAssumption DEF Entry
    <3> QED
      BY <2>1, <2>2, <3>1, <3>2
  <2>3. ASSUME NEW i \in 1..version', version' - i <= HistoryDepth
        PROVE  [id |-> i, of |-> past'[i]] \in history'
    <3>1. CASE i = version'
      BY <1>7, <2>1, <3>1
    <3>2. CASE i \in 1..version
      <4>1. Entry(i) \in Recent
        <5>1. version - i < HistoryDepth
          BY <1>1, <2>3, <3>2, SignInAssumption
        <5> QED
          BY <1>5, <3>2, <5>1
      <4> QED
        BY <1>6, <2>1, <3>2, <4>1 DEF Entry
    <3> QED
      BY <1>1, <3>1, <3>2
  <2>4. HistoryIs'
    BY <2>2, <2>3 DEF HistoryIs, Entry
  <2>5. ASSUME NEW p \in Requests PROVE ~(ask'[p].at = "setting" /\ ask'[p].saw = version')
    <3>1. CASE p = r
      BY <1>2, <3>1, IdleAsk
    <3>2. CASE p # r
      <4>1. ask[p].at = "setting" => ask[p].saw \in 0..version
        BY DEF SignInInv, SignInForms
      <4> QED
        BY <1>1, <1>2, <3>2, <4>1
    <3> QED
      BY <3>1, <3>2
  <2> QED
    BY <2>4, <2>5
<1>9. OtherSessionsEnd'
  BY DEF SetsPassword, Remaining, OtherSessionsEnd, SignInInv, SignInForms
<1>10. RecentPasswordsStayRefused'
  <2> SUFFICES ASSUME ~crossed', NEW i \in 1..version', NEW j \in 1..version',
                      i < j, j - i <= HistoryDepth
               PROVE  past'[i] # past'[j]
    BY <1>1, <1>3 DEF RecentPasswordsStayRefused, SignInForms
  <2>1. CASE j = version'
    <3>1. i \in 1..version /\ version - i < HistoryDepth
      BY <1>1, <2>1, SignInAssumption
    <3>2. Entry(i) \in Recent
      BY <1>5, <3>1
    <3>3. past[i] # want
      BY <1>5, <3>2 DEF Entry
    <3> QED
      BY <1>6, <1>7, <2>1, <3>1, <3>3
  <2>2. CASE j # version'
    <3>1. i \in DOMAIN past /\ j \in DOMAIN past
      BY <1>1, <2>2
    <3>2. past[i] # past[j]
      BY <1>5, <3>1 DEF SignInInv, RecentPasswordsStayRefused
    <3> QED
      BY <1>1, <1>6, <3>1, <3>2
  <2> QED
    BY <2>1, <2>2
<1> QED
  BY <1>3, <1>4, <1>8, <1>9, <1>10 DEF SignInInv

\* A session that begins was checked against the password in force, or says so.
LEMMA SignsInKeeps ==
  ASSUME SignInInv, NEW r \in Requests, SignsIn(r)
  PROVE  SignInInv'
<1>1. /\ ask' = [ask EXCEPT ![r] = Idle]
      /\ UNCHANGED <<history, version, past, tickets, proofs, resets>>
  BY DEF SignsIn, proving
<1>2. ask'[r] = Idle /\ \A p \in Requests \ {r} : ask'[p] = ask[p]
  BY <1>1 DEF SignInInv, SignInForms
<1>3. SignInForms'
  BY <1>1, <1>2, IdleAsk DEF SignsIn, SignInInv, SignInForms, Asked
<1>4. TicketsSpent'
  <2>1. Spending' \subseteq Spending
    BY <1>2, IdleAsk DEF Spending
  <2> QED
    BY <1>1, <2>1, TicketsMove
<1>5. crossed => crossed'
  BY DEF SignsIn
<1>6. Histories'
  <2>1. Recent' = Recent /\ (HistoryIs => HistoryIs')
    BY <1>1 DEF HistoryIs, Recent, Newer, Entry
  <2> QED
    BY <1>1, <1>2, <1>5, <2>1, IdleAsk DEF SignInInv, Histories, Chosen
<1>7. OtherSessionsEnd'
  <2> DEFINE new == [of |-> r, kept |-> FALSE, checked |-> IF ask[r].kind = "key" THEN version
                                                           ELSE ask[r].saw]
  <2>1. sessions' = sessions \cup {new}
    BY DEF SignsIn
  <2>2. ~crossed' => ~crossed /\ new.checked = version
    BY DEF SignsIn
  <2> QED
    BY <1>1, <2>1, <2>2 DEF SignInInv, OtherSessionsEnd
<1>8. RecentPasswordsStayRefused'
  BY <1>1, <1>5 DEF SignInInv, RecentPasswordsStayRefused
<1> QED
  BY <1>3, <1>4, <1>6, <1>7, <1>8 DEF SignInInv

\* A code that is accepted earns one more ticket.
LEMMA IssuesTicketKeeps ==
  ASSUME SignInInv, NEW r \in Requests, IssuesTicket(r)
  PROVE  SignInInv'
<1>1. /\ ask' = [ask EXCEPT ![r] = Idle] /\ UNCHANGED <<accounts, resets>>
      /\ proofs \in Nat /\ proofs' = proofs + 1 /\ tickets' = tickets \cup {proofs + 1}
  BY DEF IssuesTicket, SignInInv, SignInForms
<1>2. ask'[r] = Idle /\ \A p \in Requests \ {r} : ask'[p] = ask[p]
  BY <1>1 DEF SignInInv, SignInForms
<1>3. SignInForms'
  <2>1. UNCHANGED <<sessions, version, past, resets>>
    BY <1>1 DEF accounts
  <2> QED
    BY <1>1, <1>2, <2>1, IdleAsk DEF SignInInv, SignInForms, Asked
<1>4. TicketsSpent'
  <2>1. IsFiniteSet(Spending') /\ Cardinality(Spending') \in Nat
        /\ Cardinality(Spending') <= Cardinality(Spending)
    <3>1. Spending' \subseteq Spending
      BY <1>2, IdleAsk DEF Spending
    <3>2. IsFiniteSet(Spending)
      BY DEF SignInInv, TicketsSpent
    <3>3. IsFiniteSet(Spending') /\ Cardinality(Spending') <= Cardinality(Spending)
      BY <3>1, <3>2, FS_Subset
    <3> QED
      BY <3>3, FS_CardinalityType
  <2>2. IsFiniteSet(tickets) /\ Cardinality(tickets) \in Nat /\ Cardinality(Spending) \in Nat
    BY TicketsFinite DEF SignInInv
  <2>3. proofs + 1 \notin tickets /\ tickets' \subseteq 1..proofs'
    BY <1>1 DEF SignInInv, TicketsSpent
  <2>4. Cardinality(tickets') = Cardinality(tickets) + 1
    BY <1>1, <2>2, <2>3, FS_AddElement
  <2>5. resets + Cardinality(tickets) + Cardinality(Spending) <= proofs /\ resets \in Nat
    BY DEF SignInInv, TicketsSpent, SignInForms
  <2>6. resets' + Cardinality(tickets') + Cardinality(Spending') <= proofs'
    BY <1>1, <2>1, <2>2, <2>4, <2>5
  <2> QED
    BY <2>1, <2>3, <2>6 DEF TicketsSpent
<1> QED
  BY <1>1, <1>2, <1>3, <1>4, IdleAsk, AccountStays DEF SignInInv

\* Sessions that end take nothing else with them.
LEMMA EndsKeeps ==
  ASSUME SignInInv, NEW there, there \subseteq sessions, Ends(there)
  PROVE  SignInInv'
<1>1. UNCHANGED <<history, version, past, crossed, tickets, proofs, resets, ask>>
  BY DEF Ends, proving
<1>2. SignInForms' /\ TicketsSpent'
  BY <1>1 DEF Ends, SignInInv, SignInForms, TicketsSpent, Spending, Asked
<1>3. Histories'
  BY <1>1 DEF SignInInv, Histories, HistoryIs, Chosen, Recent, Newer, Entry
<1>4. OtherSessionsEnd' /\ RecentPasswordsStayRefused'
  BY <1>1 DEF Ends, SignInInv, OtherSessionsEnd, RecentPasswordsStayRefused
<1> QED
  BY <1>2, <1>3, <1>4 DEF SignInInv

\* A restart: the requests and the tickets are gone, the account is not.
LEMMA StopsKeeps ==
  ASSUME SignInInv, Stops
  PROVE  SignInInv'
<1>1. /\ ask' = [r \in Requests |-> Idle] /\ tickets' = {}
      /\ UNCHANGED <<accounts, proofs, resets>>
  BY DEF Stops
<1>2. SignInForms'
  <2>1. UNCHANGED <<sessions, version, past>>
    BY <1>1 DEF accounts
  <2> QED
    BY <1>1, <2>1, IdleAsk DEF SignInInv, SignInForms, Asked
<1>3. Spending' \subseteq Spending
  BY <1>1, IdleAsk DEF Spending
<1> QED
  BY <1>1, <1>2, <1>3, IdleAsk, AccountStays, TicketsMove DEF SignInInv

\* Whoever was counted goes on as an idle request, or waits for its code.
LEMMA CountingAsks ==
  ASSUME SignInForms, NEW r \in Requests
  PROVE  Asked(Counting(r)) /\ Counting(r).at = "wrong"
BY DEF SignInForms, Counting, Asked, Fields

LEMMA SignInNextInv == SignInInv /\ [SignInNext]_signInVars => SignInInv'
<1> SUFFICES ASSUME SignInInv, [SignInNext]_signInVars PROVE SignInInv'
  OBVIOUS
<1>0. SignInForms
  BY DEF SignInInv
<1>1. ASSUME NEW r \in Requests, NEW kind, Checks(r, kind) PROVE SignInInv'
  <2>1. Asked([Idle EXCEPT !.at = "checked", !.kind = kind])
        /\ [Idle EXCEPT !.at = "checked", !.kind = kind].at = "checked"
    BY IdleAsk DEF Asked, Fields
  <2> QED
    BY <1>1, <2>1, SignInMoves DEF Checks, proving
<1>2. ASSUME NEW r \in Requests, Login(r) \/ KeyVerify(r) \/ Forgot(r) \/ VerifyCode(r)
      PROVE  SignInInv'
  <2>1. CASE Verifies(r)
    <3> DEFINE q == [ask[r] EXCEPT !.at = "right", !.saw = version, !.of = password.of,
                                   !.stale = password.stale]
    <3>1. Asked(q) /\ q.at = "right"
      BY <1>0 DEF SignInForms, Asked, Fields
    <3>2. ask' = [ask EXCEPT ![r] = q] \/ ask' = [ask EXCEPT ![r] = Counting(r)]
      BY <2>1 DEF Verifies
    <3> QED
      BY <1>0, <2>1, <3>1, <3>2, CountingAsks, SignInMoves DEF Verifies, proving
  <2>2. CASE Offers(r)
    <3> DEFINE q == [ask[r] EXCEPT !.at = "offering", !.right = challenge]
    <3>1. Asked(q) /\ q.at = "offering"
      BY <1>0 DEF SignInForms, Asked, Fields
    <3> QED
      BY <2>2, <3>1, SignInMoves DEF Offers, proving
  <2>3. CASE Takes(r)
    BY <2>3, FieldMoves DEF Takes
  <2>4. CASE Matches(r)
    <3>1. CASE ask' = [ask EXCEPT ![r].at = "right"]
      BY <2>4, <3>1, FieldMoves DEF Matches, proving
    <3>2. CASE ask' = [ask EXCEPT ![r] = Counting(r)]
      BY <1>0, <2>4, <3>2, CountingAsks, SignInMoves DEF Matches, proving
    <3> QED
      BY <2>4, <3>1, <3>2 DEF Matches
  <2>5. CASE AsksForCode(r)
    BY <1>0, <2>5, CountingAsks, SignInMoves DEF AsksForCode, proving
  <2>6. CASE Issues(r)
    <3> DEFINE q == [ask[r] EXCEPT !.at = "issued", !.code = code']
    <3>1. Asked(q) /\ q.at = "issued"
      BY <1>0 DEF SignInForms, Asked, Fields
    <3> QED
      BY <2>6, <3>1, SignInMoves DEF Issues
  <2>7. CASE Mails(r)
    BY <2>7, IdleAsk, SignInMoves DEF Mails
  <2>8. CASE Tries(r)
    <3>1. PICK right \in BOOLEAN :
            ask' = [ask EXCEPT ![r] = [Idle EXCEPT !.at = "trying", !.kind = "code",
                                                   !.code = code, !.right = right]]
      BY <2>8 DEF Tries
    <3> DEFINE q == [Idle EXCEPT !.at = "trying", !.kind = "code", !.code = code, !.right = right]
    <3>2. Asked(q) /\ q.at = "trying"
      BY IdleAsk DEF Asked, Fields
    <3> QED
      BY <2>8, <3>1, <3>2, SignInMoves DEF Tries, proving
  <2>9. CASE Judges(r)
    <3> DEFINE q == [ask[r] EXCEPT !.at = "right"]
    <3>1. Asked(q) /\ q.at = "right"
      BY <1>0 DEF SignInForms, Asked, Fields
    <3>2. \/ ask' = [ask EXCEPT ![r] = q] \/ ask' = [ask EXCEPT ![r] = Idle]
          \/ ask' = [ask EXCEPT ![r] = Counting(r)]
      BY <2>9 DEF Judges
    <3>3. UNCHANGED <<accounts, tickets, proofs, resets>>
      BY <2>9 DEF Judges
    <3> QED
      BY <1>0, <3>1, <3>2, <3>3, IdleAsk, CountingAsks, SignInMoves
  <2>10. CASE IssuesTicket(r)
    BY <2>10, IssuesTicketKeeps
  <2> QED
    BY <1>1, <1>2, <2>1, <2>2, <2>3, <2>4, <2>5, <2>6, <2>7, <2>8, <2>9, <2>10
       DEF Login, KeyVerify, Forgot, VerifyCode
<1>3. ASSUME NEW r \in Requests, RecordsFailure(r) PROVE SignInInv'
  <2> DEFINE q == [ask[r] EXCEPT !.at = "counted"]
  <2>1. Asked(q) /\ q.at = "counted"
    BY <1>0 DEF SignInForms, Asked, Fields
  <2>2. \/ ask' = [ask EXCEPT ![r] = q] \/ ask' = [ask EXCEPT ![r] = Idle]
    BY <1>3 DEF RecordsFailure
  <2> QED
    BY <1>3, <2>1, <2>2, IdleAsk, SignInMoves DEF RecordsFailure, proving
<1>4. ASSUME NEW r \in Requests, Clears(r) PROVE SignInInv'
  BY <1>4, FieldMoves DEF Clears, proving
<1>5. ASSUME NEW r \in Requests, Logout(r) \/ LogoutEverywhere(r) PROVE SignInInv'
  BY <1>5, EndsKeeps DEF Logout, LogoutEverywhere
<1>6. ASSUME NEW r \in Requests, ChangePassword(r) PROVE SignInInv'
  <2> DEFINE q == [Idle EXCEPT !.at = "wrong", !.kind = "password", !.row = attempt["password"]]
  <2>1. Asked(q) /\ q.at = "wrong"
    BY IdleAsk DEF Asked, Fields
  <2>2. UNCHANGED <<accounts, tickets, proofs, resets>>
    BY <1>6 DEF ChangePassword, proving
  <2>3. CASE ask' = [ask EXCEPT ![r] = q]
    BY <2>1, <2>2, <2>3, SignInMoves
  <2>4. CASE Chooses(r, "change", FALSE)
    BY <2>2, <2>4, ChoosesKeeps
  <2> QED
    BY <1>6, <2>3, <2>4 DEF ChangePassword
<1>7. ASSUME NEW r \in Requests, ResetPassword(r) PROVE SignInInv'
  BY <1>7, ChoosesKeeps DEF ResetPassword
<1>8. CASE SessionExpires
  BY <1>8, EndsKeeps DEF SessionExpires
<1>9. CASE Mints \/ ChallengeExpires \/ CodeExpires
  BY <1>9, SignInStays DEF Mints, ChallengeExpires, CodeExpires
<1>10. CASE (\E a \in Actions : LongQuiet(a)) \/ DeletesStaleCounters \/ Minute
  BY <1>10, SignInStays DEF LongQuiet, DeletesStaleCounters, Minute, proving
<1>11. CASE UNCHANGED signInVars
  BY <1>11, SignInStays DEF signInVars, accounts
<1> QED
  BY <1>2, <1>3, <1>4, <1>5, <1>6, <1>7, <1>8, <1>9, <1>10, <1>11, SignsInKeeps,
     SetsPasswordKeeps, StopsKeeps DEF SignInNext

THEOREM SignInHolds == SignInSpec => []SignInInv
BY SignInInitInv, SignInNextInv, PTL DEF SignInSpec

\* Of the passwords that are set one after another, none is among the HistoryDepth that
\* went before it, whatever the depth and however many requests: what each of them read
\* of the history (_recent, in passwords_policy.py) is exactly those.
THEOREM HistoryIsRefused == SignInSpec => []RecentPasswordsStayRefused
BY SignInHolds, PTL DEF SignInInv

\* No code changes two passwords: each ticket is in the register, in the hands of the one
\* request that removed it, or spent, and a restart only loses some.
THEOREM TicketsAreSpentOnce == SignInSpec => []OneTicketOneChange
<1>1. SignInInv => OneTicketOneChange
  BY TicketsFinite DEF SignInInv, SignInForms, TicketsSpent, OneTicketOneChange
<1> QED
  BY <1>1, SignInHolds, PTL

\* A changed password ends every session but the one that changed it, unless a sign-in
\* had already compared the earlier one.
THEOREM SessionsEnd == SignInSpec => []OtherSessionsEnd
BY SignInHolds, PTL DEF SignInInv

(***************************************************************************)
(* People and workspaces.                                                  *)
(***************************************************************************)
\* Whom a request in hand is about has an account, in a workspace there is, and owns
\* nothing there; a role is only ever given to somebody who has joined.
Targets ==
  \A r \in Clerks :
    LET p == desk[r].who  w == desk[r].in IN
    /\ desk[r].at \in {"role", "remove", "relink", "accepting", "joining"} =>
         /\ p \in People /\ w \in made
         /\ account[p] # "none" /\ rank[w][p] # "owner"
    /\ desk[r].at = "role" => rank[w][p] # "invited"

\* Who has no account belongs nowhere.
Strangers ==
  \A p \in People : account[p] = "none" =>
    invite[p] = NoInvite /\ \A w \in made : rank[w][p] = "none"

\* An invitation that was not used, expired or not, is to somebody still invited.
Open ==
  \A p \in People : Invited(p) =>
    /\ invite[p].in \in made
    /\ ~invite[p].used => rank[invite[p].in][p] = "invited"

\* Who has a rank has signed in.
Joined == \A w \in made, p \in People : rank[w][p] \notin {"none", "invited"} => account[p] = "named"

MembersInv == MembersTypeOK /\ OneOwner /\ Targets /\ Strangers /\ Open /\ Joined

LEMMA MembersInitInv == MembersInit => MembersInv
<1> SUFFICES ASSUME MembersInit PROVE MembersInv
  OBVIOUS
<1> USE MembersAssumption
<1>1. desk = [r \in Clerks |-> Away] /\ invite = [p \in People |-> NoInvite]
  BY DEF MembersInit
<1>2. account = [p \in People |-> IF \E w \in made : rank[w][p] # "none" THEN "named" ELSE "none"]
  BY DEF MembersInit
<1>3. CASE made = {} /\ rank = [w \in Workspaces |-> [p \in People |-> "none"]]
  <2>1. MembersTypeOK
    BY <1>1, <1>2, <1>3 DEF MembersTypeOK
  <2> QED
    BY <2>1, <1>1, <1>2, <1>3 DEF MembersInv, OneOwner, Targets, Strangers, Open, Joined, Invited, Away
<1>4. ASSUME NEW w \in Workspaces, NEW owner \in People, NEW team \in [People -> {"admin", "none"}],
             made = {w},
             rank = [v \in Workspaces |-> [p \in People |->
               IF v # w THEN "none" ELSE IF p = owner THEN "owner" ELSE team[p]]]
      PROVE  MembersInv
  <2>1. MembersTypeOK
    BY <1>1, <1>2, <1>4 DEF MembersTypeOK
  <2>2. OneOwner
    BY <1>4 DEF OneOwner
  <2>3. Targets /\ Open
    BY <1>1 DEF Targets, Open, Invited, Away
  <2>4. Strangers /\ Joined
    BY <1>1, <1>2, <1>4 DEF Strangers, Joined
  <2> QED
    BY <2>1, <2>2, <2>3, <2>4 DEF MembersInv
<1> QED
  BY <1>3, <1>4 DEF MembersInit

\* A request that only reads, or is dropped, leaves nothing to show but what it holds.
LEMMA OnlyReads ==
  ASSUME MembersInv, UNCHANGED <<errands, account, made, rank, invite>>,
         desk' \in [Clerks -> {Away} \cup [at : Steps, who : People \cup {"none"},
                                           in : Workspaces \cup {"none"}]],
         Targets'
  PROVE  MembersInv'
BY DEF MembersInv, MembersTypeOK, OneOwner, Strangers, Open, Joined, Invited

\* A request that only asks about somebody it may ask about.
LEMMA Asking ==
  ASSUME MembersInv, NEW r \in Clerks, NEW at \in Steps, NEW p \in People, NEW w \in made,
         Asks(r, at, p, w), UNCHANGED <<errands, account, made, rank, invite>>,
         account[p] # "none", rank[w][p] # "owner",
         at = "role" => rank[w][p] # "invited"
  PROVE  MembersInv'
<1>1. desk' = [desk EXCEPT ![r] = [at |-> at, who |-> p, in |-> w]] /\ w \in Workspaces
  BY DEF Asks, MembersInv, MembersTypeOK
<1>2. desk' \in [Clerks -> {Away} \cup [at : Steps, who : People \cup {"none"},
                                        in : Workspaces \cup {"none"}]]
  BY <1>1 DEF MembersInv, MembersTypeOK
<1>3. Targets'
  BY <1>1 DEF MembersInv, MembersTypeOK, Targets
<1> QED
  BY <1>2, <1>3, OnlyReads

\* When one request is done and the others are as they were, what they hold holds, if the
\* people they are about kept their accounts and gained neither ownership nor invitation.
LEMMA Others ==
  ASSUME MembersInv, NEW r \in Clerks, Ready(r), made \subseteq made',
         \A p \in People : account[p] # "none" => account'[p] # "none",
         \A w \in made, p \in People : account[p] # "none" =>
           /\ rank'[w][p] = "owner" => rank[w][p] = "owner"
           /\ rank'[w][p] = "invited" => rank[w][p] = "invited"
  PROVE  Targets'
<1>1. desk' = [desk EXCEPT ![r] = Away] /\ desk \in [Clerks -> UNION {{Away}, [at : Steps,
        who : People \cup {"none"}, in : Workspaces \cup {"none"}]}]
  BY DEF Ready, MembersInv, MembersTypeOK
<1> SUFFICES ASSUME NEW s \in Clerks
             PROVE  LET p == desk[s].who  w == desk[s].in IN
                    s # r =>
                    /\ desk[s].at \in {"role", "remove", "relink", "accepting", "joining"} =>
                         /\ p \in People /\ w \in made'
                         /\ account'[p] # "none" /\ rank'[w][p] # "owner"
                    /\ desk[s].at = "role" => rank'[w][p] # "invited"
  BY <1>1 DEF Targets, Away
<1> QED
  BY DEF MembersInv, Targets

LEMMA StillAtDesk ==
  ASSUME MembersTypeOK, NEW r \in Clerks, Ready(r)
  PROVE  desk' \in [Clerks -> {Away} \cup [at : Steps, who : People \cup {"none"},
                                           in : Workspaces \cup {"none"}]]
BY DEF MembersTypeOK, Ready

(***************************************************************************)
(* The steps that read                                                     *)
(***************************************************************************)
LEMMA ReadingInv ==
  ASSUME MembersInv, NEW r \in Clerks,
         FindsNobody(r) \/ ReadsForRole(r) \/ ReadsForRemoval(r) \/ ReadsForLink(r) \/ Opens(r)
  PROVE  MembersInv'
<1>1. CASE FindsNobody(r)
  <2>1. desk' = [desk EXCEPT ![r] = [at |-> "founding", who |-> "none", in |-> "none"]]
    BY <1>1 DEF FindsNobody, Asks
  <2>2. desk' \in [Clerks -> {Away} \cup [at : Steps, who : People \cup {"none"},
                                          in : Workspaces \cup {"none"}]]
    BY <2>1 DEF MembersInv, MembersTypeOK, Steps
  <2>3. Targets'
    BY <1>1, <2>1 DEF FindsNobody, MembersInv, MembersTypeOK, Targets
  <2> QED
    BY <1>1, <2>2, <2>3, OnlyReads DEF FindsNobody
<1>2. CASE ReadsForRole(r)
  <2>1. PICK w \in made, p \in People :
          rank[w][p] \notin {"owner", "invited", "none"} /\ Asks(r, "role", p, w)
    BY <1>2 DEF ReadsForRole
  <2>2. account[p] # "none"
    BY <2>1 DEF MembersInv, Strangers
  <2> QED
    BY <1>2, <2>1, <2>2, Asking DEF ReadsForRole, Steps
<1>3. CASE ReadsForRemoval(r)
  <2>1. PICK w \in made, p \in People :
          rank[w][p] \notin {"owner", "none"} /\ Asks(r, "remove", p, w)
    BY <1>3 DEF ReadsForRemoval
  <2>2. account[p] # "none"
    BY <2>1 DEF MembersInv, Strangers
  <2> QED
    BY <1>3, <2>1, <2>2, Asking DEF ReadsForRemoval, Steps
<1>4. CASE ReadsForLink(r)
  <2>1. PICK w \in made, p \in People : rank[w][p] = "invited" /\ Asks(r, "relink", p, w)
    BY <1>4 DEF ReadsForLink
  <2>2. account[p] # "none"
    BY <2>1 DEF MembersInv, Strangers
  <2> QED
    BY <1>4, <2>1, <2>2, Asking DEF ReadsForLink, Steps
<1>5. CASE Opens(r)
  <2>1. PICK p \in People : Live(p) /\ Asks(r, "accepting", p, invite[p].in)
    BY <1>5 DEF Opens
  <2>2. invite[p].in \in made /\ rank[invite[p].in][p] = "invited"
    BY <2>1 DEF MembersInv, Open, Live
  <2>3. account[p] # "none"
    BY <2>1 DEF MembersInv, Strangers, Live, Invited
  <2> QED
    BY <1>5, <2>1, <2>2, <2>3, Asking DEF Opens, Steps
<1> QED
  BY <1>1, <1>2, <1>3, <1>4, <1>5

(***************************************************************************)
(* The steps that write                                                    *)
(***************************************************************************)
LEMMA FoundsInv ==
  ASSUME MembersInv, NEW r \in Clerks, Founds(r)
  PROVE  MembersInv'
<1>1. PICK p \in People, w \in Workspaces \ made :
        /\ account[p] = "none" /\ account' = [account EXCEPT ![p] = "named"]
        /\ made' = made \cup {w}
        /\ rank' = [rank EXCEPT ![w] = [q \in People |-> IF q = p THEN "owner" ELSE "none"]]
  BY DEF Founds
<1>2. Ready(r) /\ invite' = invite
  BY DEF Founds
<1> USE DEF MembersTypeOK
<1>3. MembersTypeOK'
  BY <1>1, <1>2, StillAtDesk DEF MembersInv
<1>4. OneOwner'
  BY <1>1 DEF MembersInv, OneOwner
<1>5. Targets'
  BY <1>1, <1>2, Others DEF MembersInv
<1>6. Strangers'
  BY <1>1, <1>2 DEF MembersInv, Strangers
<1>7. Open'
  BY <1>1, <1>2 DEF MembersInv, Open, Invited
<1>8. Joined'
  BY <1>1 DEF MembersInv, Joined
<1> QED
  BY <1>3, <1>4, <1>5, <1>6, <1>7, <1>8 DEF MembersInv

LEMMA ChangeRoleInv ==
  ASSUME MembersInv, NEW r \in Clerks, ChangeRole(r)
  PROVE  MembersInv'
<1> DEFINE p == desk[r].who  w == desk[r].in
<1> USE MembersAssumption
<1>1. /\ p \in People /\ w \in made /\ account[p] # "none"
      /\ rank[w][p] \notin {"owner", "invited"}
  BY DEF ChangeRole, MembersInv, Targets
<1>2. Ready(r) /\ UNCHANGED <<errands, account, made, invite>>
  BY DEF ChangeRole
<1>3. CASE rank' = rank
  <2>1. Targets'
    BY <1>2, <1>3, Others
  <2> QED
    BY <1>2, <1>3, <2>1, OnlyReads, StillAtDesk DEF MembersInv
<1>4. ASSUME NEW role \in Ranks, rank[w][p] # "none", rank' = [rank EXCEPT ![w][p] = role]
      PROVE  MembersInv'
  <2> HIDE DEF p, w
  <2> USE DEF MembersTypeOK
  <2>1. MembersTypeOK'
    BY <1>2, <1>4, StillAtDesk DEF MembersInv
  <2>2. \A v \in made, q \in People :
          rank'[v][q] = IF v = w /\ q = p THEN role ELSE rank[v][q]
    BY <1>1, <1>4 DEF MembersInv
  <2>3. OneOwner'
    BY <1>1, <1>2, <2>2 DEF MembersInv, OneOwner
  <2>4. Targets'
    BY <1>1, <1>2, <2>2, Others
  <2>5. Strangers'
    BY <1>1, <1>2, <2>2 DEF MembersInv, Strangers
  <2>6. Open'
    BY <1>1, <1>2, <2>2 DEF MembersInv, Open, Invited
  <2>7. Joined'
    BY <1>1, <1>2, <1>4, <2>2 DEF MembersInv, Joined
  <2> QED
    BY <2>1, <2>3, <2>4, <2>5, <2>6, <2>7 DEF MembersInv
<1> QED
  BY <1>3, <1>4 DEF ChangeRole

LEMMA RemoveMemberInv ==
  ASSUME MembersInv, NEW r \in Clerks, RemoveMember(r)
  PROVE  MembersInv'
<1> DEFINE p == desk[r].who  w == desk[r].in
<1>1. p \in People /\ w \in made /\ account[p] # "none" /\ rank[w][p] # "owner"
  BY DEF RemoveMember, MembersInv, Targets
<1>2. /\ rank' = [rank EXCEPT ![w][p] = "none"]
      /\ invite' = [invite EXCEPT ![p] = Cancelled(p, w)]
      /\ Ready(r) /\ UNCHANGED <<errands, account, made>>
  BY DEF RemoveMember
<1> HIDE DEF p, w
<1> USE DEF MembersTypeOK
<1>3. MembersTypeOK'
  BY <1>2, StillAtDesk DEF MembersInv, Cancelled
<1>4. \A v \in made, q \in People :
        rank'[v][q] = IF v = w /\ q = p THEN "none" ELSE rank[v][q]
  BY <1>1, <1>2 DEF MembersInv
<1>5. \A q \in People : invite'[q] = IF q = p /\ invite[p].in = w THEN NoInvite ELSE invite[q]
  BY <1>1, <1>2 DEF MembersInv, Cancelled
<1>6. OneOwner'
  BY <1>1, <1>2, <1>4 DEF MembersInv, OneOwner
<1>7. Targets'
  BY <1>1, <1>2, <1>4, Others
<1>8. Strangers'
  BY <1>1, <1>2, <1>4, <1>5 DEF MembersInv, Strangers
<1>9. Open'
  BY <1>1, <1>2, <1>4, <1>5 DEF MembersInv, Open, Invited
<1>10. Joined'
  BY <1>1, <1>2, <1>4 DEF MembersInv, Joined
<1> QED
  BY <1>3, <1>6, <1>7, <1>8, <1>9, <1>10 DEF MembersInv

\* What a new link, an expired one and an accepted one leave as it was.
LEMMA Rows ==
  ASSUME NEW row \in Invites
  PROVE  /\ Issued(row) \in Invites /\ Issued(row).in = row.in /\ Issued(row).used = row.used
         /\ [row EXCEPT !.expired = TRUE] \in Invites
         /\ [row EXCEPT !.expired = TRUE].in = row.in
         /\ [row EXCEPT !.expired = TRUE].used = row.used
         /\ [row EXCEPT !.used = TRUE] \in Invites
         /\ [row EXCEPT !.used = TRUE].in = row.in
         /\ [row EXCEPT !.used = TRUE].used
BY DEF Issued, Invites

LEMMA CreateInviteInv ==
  ASSUME MembersInv, NEW r \in Clerks, CreateInvite(r)
  PROVE  MembersInv'
<1> USE MembersAssumption
<1>1. PICK w \in made, p \in People, role \in Granted :
        /\ account[p] = "none" /\ account' = [account EXCEPT ![p] = "invited"]
        /\ rank' = [rank EXCEPT ![w][p] = "invited"]
        /\ invite' = [invite EXCEPT ![p] = Issued([in |-> w, role |-> role, used |-> FALSE,
                                                   expired |-> TRUE])]
  BY DEF CreateInvite
<1>2. UNCHANGED <<errands, made, desk>>
  BY DEF CreateInvite
<1> USE DEF MembersTypeOK
<1>4. w \in Workspaces /\ rank[w][p] = "none"
  BY <1>1 DEF MembersInv, Strangers
<1>3. PICK new \in Invites : invite' = [invite EXCEPT ![p] = new] /\ new.in = w
  <2>1. [in |-> w, role |-> role, used |-> FALSE, expired |-> TRUE] \in Invites
    BY <1>4 DEF Invites
  <2> QED
    BY <1>1, <2>1, Rows
<1>5. MembersTypeOK'
  BY <1>1, <1>2, <1>3, <1>4 DEF MembersInv
<1>6. \A v \in made, q \in People :
        rank'[v][q] = IF v = w /\ q = p THEN "invited" ELSE rank[v][q]
  BY <1>1 DEF MembersInv
<1>7. OneOwner'
  BY <1>2, <1>4, <1>6 DEF MembersInv, OneOwner
<1>8. Targets'
  BY <1>1, <1>2, <1>6 DEF MembersInv, Targets
<1>9. Strangers'
  BY <1>1, <1>2, <1>6 DEF MembersInv, Strangers
<1>10. Open'
  <2> SUFFICES ASSUME NEW q \in People, Invited(q)'
               PROVE  /\ invite'[q].in \in made'
                      /\ ~invite'[q].used => rank'[invite'[q].in][q] = "invited"
    BY DEF Open
  <2>1. CASE q = p
    BY <2>1, <1>1, <1>2, <1>3, <1>6 DEF MembersInv
  <2>2. CASE q # p
    BY <2>2, <1>1, <1>2, <1>6 DEF MembersInv, Open, Invited
  <2> QED
    BY <2>1, <2>2
<1>11. Joined'
  BY <1>1, <1>2, <1>6 DEF MembersInv, Joined
<1> QED
  BY <1>5, <1>7, <1>8, <1>9, <1>10, <1>11 DEF MembersInv

\* What a new link or an expired one leaves as it was: whose it is, where, and whether used.
LEMMA OnlyExpiry ==
  ASSUME MembersInv, UNCHANGED <<errands, account, made, rank>>, invite' \in [People -> Invites \cup {NoInvite}],
         desk' \in [Clerks -> {Away} \cup [at : Steps, who : People \cup {"none"},
                                           in : Workspaces \cup {"none"}]],
         Targets',
         \A p \in People : /\ invite[p] = NoInvite <=> invite'[p] = NoInvite
                           /\ invite'[p].in = invite[p].in /\ invite'[p].used = invite[p].used
  PROVE  MembersInv'
<1>1. MembersTypeOK' /\ OneOwner' /\ Joined'
  BY DEF MembersInv, MembersTypeOK, OneOwner, Joined
<1>2. Strangers' /\ Open'
  BY DEF MembersInv, Strangers, Open, Invited
<1> QED
  BY <1>1, <1>2 DEF MembersInv

LEMMA RegenerateInviteInv ==
  ASSUME MembersInv, NEW r \in Clerks, RegenerateInvite(r)
  PROVE  MembersInv'
<1> DEFINE p == desk[r].who
<1>1. p \in People /\ Ready(r) /\ UNCHANGED <<errands, account, made, rank>>
  BY DEF RegenerateInvite, MembersInv, Targets
<1>2. invite' = IF Invited(p) THEN [invite EXCEPT ![p] = Issued(invite[p])] ELSE invite
  BY DEF RegenerateInvite
<1>3. Targets'
  BY <1>1, Others
<1> HIDE DEF p
<1>4. invite \in [People -> Invites \cup {NoInvite}]
  BY DEF MembersInv, MembersTypeOK
<1>5. CASE Invited(p)
  <2>1. invite[p] \in Invites
    BY <1>1, <1>4, <1>5 DEF Invited
  <2>2. PICK new \in Invites : /\ invite' = [invite EXCEPT ![p] = new]
                               /\ new.in = invite[p].in /\ new.used = invite[p].used
    BY <1>2, <1>4, <1>5, <2>1, Rows
  <2>3. new # NoInvite
    BY <1>5, <2>1, <2>2, MembersAssumption DEF Invites, NoInvite
  <2> QED
    BY <1>1, <1>3, <1>4, <1>5, <2>2, <2>3, StillAtDesk, OnlyExpiry DEF MembersInv, Invited
<1>6. CASE ~Invited(p)
  BY <1>1, <1>2, <1>3, <1>4, <1>6, StillAtDesk, OnlyExpiry DEF MembersInv
<1> QED
  BY <1>5, <1>6

LEMMA LinkExpiresInv ==
  ASSUME MembersInv, NEW p \in People, LinkExpires(p)
  PROVE  MembersInv'
<1>1. /\ Live(p) /\ UNCHANGED <<errands, account, made, rank, desk>>
      /\ invite' = [invite EXCEPT ![p].expired = TRUE]
  BY DEF LinkExpires
<1>2. invite \in [People -> Invites \cup {NoInvite}] /\ invite[p] \in Invites
  BY <1>1 DEF MembersInv, MembersTypeOK, Live, Invited
<1>3. PICK new \in Invites : /\ invite' = [invite EXCEPT ![p] = new]
                             /\ new.in = invite[p].in /\ new.used = invite[p].used
  <2>1. invite' = [invite EXCEPT ![p] = [invite[p] EXCEPT !.expired = TRUE]]
    BY <1>1
  <2> QED
    BY <1>2, <2>1, Rows
<1>4. new # NoInvite
  BY MembersAssumption DEF Invites, NoInvite
<1>5. Targets'
  BY <1>1 DEF MembersInv, Targets
<1> QED
  BY <1>1, <1>2, <1>3, <1>4, <1>5, OnlyExpiry DEF MembersInv, MembersTypeOK, Live, Invited

LEMMA CreateWorkspaceInv ==
  ASSUME MembersInv, NEW r \in Clerks, CreateWorkspace(r)
  PROVE  MembersInv'
<1> USE MembersAssumption
<1>1. PICK from \in made, w \in Workspaces \ made, by \in People, team \in BOOLEAN :
        /\ Manages(by, from)
        /\ made' = made \cup {w}
        /\ rank' = [rank EXCEPT ![w] = [p \in People |->
             IF p = by THEN "owner" ELSE IF team THEN Copied(rank[from][p]) ELSE "none"]]
  BY DEF CreateWorkspace
<1>2. UNCHANGED <<errands, account, invite, desk>>
  BY DEF CreateWorkspace
<1> USE DEF MembersTypeOK
<1>3. \A p \in People :
        /\ rank'[w][p] = IF p = by THEN "owner"
                         ELSE IF team THEN Copied(rank[from][p]) ELSE "none"
        /\ \A v \in made : rank'[v][p] = rank[v][p]
  BY <1>1 DEF MembersInv
<1>4. \A p \in People : /\ Copied(rank[from][p]) \in Ranks \cup {"none"}
                        /\ Copied(rank[from][p]) # "none" => rank[from][p] \notin {"none", "invited"}
  BY <1>1 DEF MembersInv, Copied
<1>5. MembersTypeOK'
  BY <1>1, <1>2, <1>4 DEF MembersInv
<1>6. OneOwner'
  BY <1>1, <1>3, <1>4 DEF MembersInv, OneOwner
<1>7. Targets'
  BY <1>1, <1>2, <1>3 DEF MembersInv, Targets
<1>8. Joined'
  <2>1. account[by] = "named"
    BY <1>1 DEF MembersInv, Joined, Manages
  <2> QED
    BY <1>1, <1>2, <1>3, <1>4, <2>1 DEF MembersInv, Joined
<1>9. Strangers'
  <2> SUFFICES ASSUME NEW p \in People, account[p] = "none"
               PROVE  invite[p] = NoInvite /\ \A v \in made' : rank'[v][p] = "none"
    BY <1>2 DEF Strangers
  <2>1. p # by
    BY <1>1 DEF MembersInv, Strangers, Manages
  <2> QED
    BY <1>1, <1>3, <1>4, <2>1 DEF MembersInv, Strangers
<1>10. Open'
  BY <1>1, <1>2, <1>3 DEF MembersInv, Open, Invited
<1> QED
  BY <1>5, <1>6, <1>7, <1>8, <1>9, <1>10 DEF MembersInv

LEMMA SetsFirstPasswordInv ==
  ASSUME MembersInv, NEW r \in Clerks, SetsFirstPassword(r)
  PROVE  MembersInv'
<1> USE DEF MembersTypeOK
<1>1. /\ desk[r].at = "accepting" /\ desk' = [desk EXCEPT ![r].at = "joining"]
      /\ UNCHANGED <<errands, made, rank, invite>>
      /\ account' = [account EXCEPT ![desk[r].who] = IF @ = "invited" THEN "password" ELSE @]
  BY DEF SetsFirstPassword
<1>2. desk[r] \in [at : Steps, who : People \cup {"none"}, in : Workspaces \cup {"none"}]
  BY <1>1 DEF MembersInv, Away
<1>3. \A p \in People : /\ account[p] = "none" <=> account'[p] = "none"
                        /\ account[p] = "named" => account'[p] = "named"
  BY <1>1 DEF MembersInv
<1>4. MembersTypeOK'
  BY <1>1, <1>2 DEF MembersInv, Steps
<1>5. Targets'
  BY <1>1, <1>2, <1>3 DEF MembersInv, Targets
<1>6. OneOwner' /\ Strangers' /\ Open' /\ Joined'
  BY <1>1, <1>3 DEF MembersInv, OneOwner, Strangers, Open, Joined, Invited
<1> QED
  BY <1>4, <1>5, <1>6 DEF MembersInv

LEMMA JoinsInv ==
  ASSUME MembersInv, NEW r \in Clerks, Joins(r)
  PROVE  MembersInv'
<1> DEFINE p == desk[r].who  w == desk[r].in
<1> USE MembersAssumption DEF MembersTypeOK
<1>1. p \in People /\ w \in made /\ account[p] # "none" /\ rank[w][p] # "owner"
  BY DEF Joins, MembersInv, Targets
<1>2. Ready(r) /\ UNCHANGED <<errands, made>>
  BY DEF Joins
<1>3. CASE UNCHANGED <<errands, account, rank, invite>>
  <2>1. Targets'
    BY <1>2, <1>3, Others
  <2> QED
    BY <1>2, <1>3, <2>1, OnlyReads, StillAtDesk DEF MembersInv
<1>4. CASE /\ Invited(p)
           /\ account' = [account EXCEPT ![p] = "named"]
           /\ rank' = [rank EXCEPT ![w][p] = invite[p].role]
           /\ invite' = [invite EXCEPT ![p].used = TRUE]
  <2> HIDE DEF p, w
  <2>1. invite[p] \in Invites /\ invite[p].role \in Ranks
    BY <1>1, <1>4 DEF MembersInv, Invited, Invites
  <2>2. \A v \in made, q \in People :
          rank'[v][q] = IF v = w /\ q = p THEN invite[p].role ELSE rank[v][q]
    BY <1>1, <1>4 DEF MembersInv
  <2>3. PICK new \in Invites : /\ invite' = [invite EXCEPT ![p] = new]
                               /\ new.used = TRUE /\ new.in = invite[p].in
    <3>1. invite' = [invite EXCEPT ![p] = [invite[p] EXCEPT !.used = TRUE]]
      BY <1>4
    <3> QED
      BY <2>1, <3>1, Rows
  <2>4. MembersTypeOK'
    <3>1. rank' \in [Workspaces -> [People -> Ranks \cup {"owner", "invited", "none"}]]
      BY <1>4, <2>1 DEF MembersInv
    <3>2. invite' \in [People -> Invites \cup {NoInvite}]
      BY <2>3 DEF MembersInv
    <3>3. account' \in [People -> {"none", "invited", "password", "named"}]
      BY <1>4 DEF MembersInv
    <3> QED
      BY <1>2, <3>1, <3>2, <3>3, StillAtDesk DEF MembersInv
  <2>5. OneOwner'
    BY <1>1, <1>2, <2>1, <2>2 DEF MembersInv, OneOwner
  <2>6. Targets'
    BY <1>1, <1>2, <1>4, <2>1, <2>2, Others DEF MembersInv
  <2>7. Strangers'
    BY <1>1, <1>2, <1>4, <2>2, <2>3 DEF MembersInv, Strangers
  <2>8. Open'
    BY <1>1, <1>2, <1>4, <2>2, <2>3 DEF MembersInv, Open, Invited
  <2>9. Joined'
    BY <1>1, <1>2, <1>4, <2>2 DEF MembersInv, Joined
  <2> QED
    BY <2>4, <2>5, <2>6, <2>7, <2>8, <2>9 DEF MembersInv
<1> QED
  BY <1>3, <1>4 DEF Joins

(***************************************************************************)
(* Theorems                                                                *)
(***************************************************************************)
LEMMA MembersNextInv == MembersInv /\ [MembersNext]_memberVars => MembersInv'
<1> SUFFICES ASSUME MembersInv, [MembersNext]_memberVars PROVE MembersInv'
  OBVIOUS
<1>1. ASSUME NEW r \in Clerks, FirstRun(r) PROVE MembersInv'
  BY <1>1, ReadingInv, FoundsInv DEF FirstRun
<1>2. ASSUME NEW r \in Clerks, ReadsForRole(r) \/ ChangeRole(r) PROVE MembersInv'
  BY <1>2, ReadingInv, ChangeRoleInv
<1>3. ASSUME NEW r \in Clerks, ReadsForRemoval(r) \/ RemoveMember(r) PROVE MembersInv'
  BY <1>3, ReadingInv, RemoveMemberInv
<1>4. ASSUME NEW r \in Clerks, CreateInvite(r) \/ ReadsForLink(r) \/ RegenerateInvite(r) PROVE MembersInv'
  BY <1>4, ReadingInv, CreateInviteInv, RegenerateInviteInv
<1>5. ASSUME NEW r \in Clerks, CreateWorkspace(r) PROVE MembersInv'
  BY <1>5, CreateWorkspaceInv
<1>6. ASSUME NEW r \in Clerks, Accept(r) PROVE MembersInv'
  BY <1>6, ReadingInv, SetsFirstPasswordInv, JoinsInv DEF Accept
<1>7. ASSUME NEW p \in People, LinkExpires(p) PROVE MembersInv'
  BY <1>7, LinkExpiresInv
<1>8. CASE DropsRequests
  <2>1. Targets' /\ desk' \in [Clerks -> {Away} \cup [at : Steps, who : People \cup {"none"},
                                                      in : Workspaces \cup {"none"}]]
    BY <1>8 DEF DropsRequests, Targets, Away
  <2> QED
    BY <1>8, <2>1, OnlyReads DEF DropsRequests
<1>9. CASE UNCHANGED memberVars
  BY <1>9 DEF memberVars, MembersInv, MembersTypeOK, OneOwner, Targets, Strangers, Open, Joined, Invited
<1> QED
  BY <1>1, <1>2, <1>3, <1>4, <1>5, <1>6, <1>7, <1>8, <1>9 DEF MembersNext

\* MembersInv holds in every reachable state.
THEOREM MembersInductive == MembersSpec => []MembersInv
BY MembersInitInv, MembersNextInv, PTL DEF MembersSpec

\* "One person, cannot be removed": whatever requests of whatever number of people
\* overlap or stop, every workspace there is has one owner (api/routes/workspaces.py).
THEOREM OneOwnerEver == MembersSpec => []OneOwner
<1>1. MembersInv => OneOwner
  BY DEF MembersInv
<1> QED
  BY <1>1, MembersInductive, PTL

\* A link that opens belongs to somebody still invited, and nobody ranks above invited who
\* cannot sign in (api/routes/invites.py).
THEOREM InvitationsHold == MembersSpec => []InvitationHolds
<1>1. MembersInv => InvitationHolds
  BY DEF MembersInv, Open, Joined, InvitationHolds, Live
<1> QED
  BY <1>1, MembersInductive, PTL

(***************************************************************************)
(* Windows of requests.                                                    *)
(***************************************************************************)
Window  == [count : 0..Ceiling, ended : BOOLEAN]
Request == [at : {"idle", "gate", "counting", "counted", "inside"},
            path : {"none"} \cup UNION Ways, bucket : Buckets \cup {"none"},
            saw : Window, lap : Nat]

\* Who is counting knows the bucket, and has read a window of it.
Shapes ==
  /\ ways \in Ways
  /\ window \in [Buckets -> Window]
  /\ admitted \in [Buckets -> Nat]
  /\ lapped \in BOOLEAN
  /\ call \in [Callers -> Request]
  /\ \A r \in Callers : call[r].at = "counting" => call[r].bucket \in Buckets

\* Until two have counted from one reading, a window has counted whom it let through.
Counts == ~lapped => \A b \in Buckets : window[b].count = admitted[b]

AccessInv == Shapes /\ Counts /\ CeilingHolds

LEMMA Beginnings == NoWindow \in Window /\ Quiet \in Request /\ Quiet.at = "idle"
BY AccessAssumption DEF NoWindow, Quiet, Window, Request

LEMMA AccessInitInv == AccessInit => AccessInv
<1> SUFFICES ASSUME AccessInit PROVE AccessInv
  OBVIOUS
<1>1. Shapes
  BY Beginnings DEF AccessInit, Shapes
<1>2. Counts /\ CeilingHolds
  BY AccessAssumption DEF AccessInit, NoWindow, Counts, CeilingHolds
<1> QED
  BY <1>1, <1>2 DEF AccessInv

\* A step that leaves the windows alone, and after which a request is as it should be.
LEMMA CallMoves ==
  ASSUME AccessInv, UNCHANGED <<ways, counters>>, NEW r \in Callers, NEW q \in Request,
         q.at = "counting" => q.bucket \in Buckets,
         call' = [call EXCEPT ![r] = q]
  PROVE  AccessInv'
BY DEF AccessInv, Shapes, Counts, CeilingHolds, counters

\* A request that goes away.
LEMMA CallLeaves ==
  ASSUME AccessInv, UNCHANGED <<ways, counters>>, NEW r \in Callers, Leaves(r)
  PROVE  AccessInv'
BY Beginnings, CallMoves DEF Leaves

\* A request that goes on with what it has.
LEMMA CallGoesOn ==
  ASSUME AccessInv, UNCHANGED <<ways, counters>>, NEW r \in Callers,
         NEW at \in {"counted", "inside"}, call' = [call EXCEPT ![r].at = at]
  PROVE  AccessInv'
<1>1. [call[r] EXCEPT !.at = at] \in Request
  BY DEF AccessInv, Shapes, Request
<1>2. [call[r] EXCEPT !.at = at].at # "counting"
  BY DEF AccessInv, Shapes, Request
<1>3. call' = [call EXCEPT ![r] = [call[r] EXCEPT !.at = at]]
  OBVIOUS
<1> QED
  BY <1>1, <1>2, <1>3, CallMoves

\* What consume writes is a window, and counts one more unless the window was full.
LEMMA WrittenIsAWindow ==
  ASSUME NEW saw \in Window
  PROVE  /\ Written(saw) \in Window
         /\ Full(saw) => Written(saw) = saw
         /\ ~Full(saw) /\ saw.ended => Written(saw).count = 1
         /\ ~Full(saw) /\ ~saw.ended => Written(saw).count = saw.count + 1
BY AccessAssumption DEF Window, Written, Full

\* The count and the commit: unless somebody else has written in between, the window that
\* is written is the one that was read, and it counts this request with the others.
LEMMA ConsumesKeeps ==
  ASSUME AccessInv, NEW r \in Callers, Consumes(r)
  PROVE  AccessInv'
<1> DEFINE b == call[r].bucket
           saw == call[r].saw
<1>1. b \in Buckets /\ saw \in Window /\ call[r] \in Request
  BY DEF AccessInv, Shapes, Consumes, Request
<1>2. UNCHANGED ways
  BY DEF Consumes, rows
<1>3. /\ call' \in [Callers -> Request]
      /\ \A q \in Callers : call'[q].at = "counting" => call'[q].bucket \in Buckets
  <2>1. CASE Leaves(r)
    BY <2>1, Beginnings DEF Leaves, AccessInv, Shapes
  <2>2. CASE call' = [call EXCEPT ![r].at = "counted"]
    BY <2>2, <1>1 DEF AccessInv, Shapes, Request
  <2> QED
    BY <2>1, <2>2 DEF Consumes
<1>4. CASE UNCHANGED counters
  BY <1>2, <1>3, <1>4 DEF AccessInv, Shapes, Counts, CeilingHolds, counters
<1>5. CASE /\ window' = [window EXCEPT ![b] = IF Written(saw) = saw THEN @ ELSE Written(saw)]
           /\ admitted' = [admitted EXCEPT ![b] = IF Full(saw) THEN @
                                                  ELSE IF saw.ended THEN 1 ELSE @ + 1]
           /\ lapped' = (lapped \/ call[r].lap # admitted[b] \/ window[b] # saw)
  <2>1. window' \in [Buckets -> Window] /\ admitted' \in [Buckets -> Nat] /\ lapped' \in BOOLEAN
    BY <1>1, <1>5, WrittenIsAWindow DEF AccessInv, Shapes
  <2>2. ASSUME ~lapped' PROVE \A c \in Buckets : window'[c].count = admitted'[c]
    <3>1. ~lapped /\ window[b] = saw
      BY <2>2, <1>5
    <3>2. \A c \in Buckets : window[c].count = admitted[c] /\ admitted[c] \in Nat
      BY <3>1 DEF AccessInv, Shapes, Counts
    <3>3. window'[b] = Written(saw)
      BY <1>1, <1>5, <3>1 DEF AccessInv, Shapes
    <3>4. admitted'[b] = IF Full(saw) THEN saw.count ELSE IF saw.ended THEN 1 ELSE saw.count + 1
      BY <1>1, <1>5, <3>1, <3>2 DEF AccessInv, Shapes
    <3>5. window'[b].count = admitted'[b]
      BY <1>1, <3>3, <3>4, WrittenIsAWindow
    <3>6. \A c \in Buckets \ {b} : window'[c] = window[c] /\ admitted'[c] = admitted[c]
      BY <1>1, <1>5 DEF AccessInv, Shapes
    <3> QED
      BY <3>2, <3>5, <3>6
  <2>3. ASSUME ~lapped' PROVE \A c \in Buckets : admitted'[c] <= Ceiling
    BY <2>1, <2>2, <2>3, AccessAssumption DEF Window
  <2> QED
    BY <1>2, <1>3, <2>1, <2>2, <2>3 DEF AccessInv, Shapes, Counts, CeilingHolds
<1> QED
  BY <1>4, <1>5 DEF Consumes

LEMMA AccessNextInv == AccessInv /\ [AccessNext]_accessVars => AccessInv'
<1> SUFFICES ASSUME AccessInv, [AccessNext]_accessVars PROVE AccessInv'
  OBVIOUS
<1>1. ASSUME NEW r \in Callers, Reads(r) PROVE AccessInv'
  <2>1. PICK path \in ways :
          call' = [call EXCEPT ![r] = [Quiet EXCEPT !.at = "gate", !.path = path]]
    BY <1>1 DEF Reads
  <2>2. [Quiet EXCEPT !.at = "gate", !.path = path] \in Request
    BY Beginnings DEF AccessInv, Shapes, Request, Quiet
  <2>3. [Quiet EXCEPT !.at = "gate", !.path = path].at = "gate"
    BY DEF Quiet
  <2> QED
    BY <1>1, <2>1, <2>2, <2>3, CallMoves DEF Reads, rows
<1>2. ASSUME NEW r \in Callers, Overruns(r) \/ ForeignPage(r) \/ Answers(r) PROVE AccessInv'
  BY <1>2, CallLeaves DEF Overruns, ForeignPage, Answers, rows
<1>3. ASSUME NEW r \in Callers, Authenticates(r) PROVE AccessInv'
  BY <1>3, CallLeaves, CallGoesOn DEF Authenticates, rows
<1>4. ASSUME NEW r \in Callers, Resolves(r) PROVE AccessInv'
  <2>1. PICK b \in Buckets :
          call' = [call EXCEPT ![r] = [call[r] EXCEPT !.at = "counting", !.bucket = b,
                                                      !.saw = window[b], !.lap = admitted[b]]]
    BY <1>4 DEF Resolves, Buckets
  <2> DEFINE q == [call[r] EXCEPT !.at = "counting", !.bucket = b, !.saw = window[b],
                                  !.lap = admitted[b]]
  <2>2. q \in Request /\ q.bucket = b
    BY DEF AccessInv, Shapes, Request
  <2> QED
    BY <1>4, <2>1, <2>2, CallMoves DEF Resolves, rows
<1>5. ASSUME NEW r \in Callers, Consumes(r) PROVE AccessInv'
  BY <1>5, ConsumesKeeps
<1>6. ASSUME NEW r \in Callers, Touches(r) PROVE AccessInv'
  BY <1>6, CallLeaves, CallGoesOn DEF Touches, rows
<1>7. ASSUME NEW b \in Buckets, WindowEnds(b) PROVE AccessInv'
  <2>1. window' \in [Buckets -> Window] /\ \A c \in Buckets : window'[c].count = window[c].count
    BY <1>7 DEF WindowEnds, AccessInv, Shapes, Window
  <2> QED
    BY <1>7, <2>1 DEF WindowEnds, rows, AccessInv, Shapes, Counts, CeilingHolds
<1>8. CASE AddToken \/ RotateToken \/ RemoveToken \/ Begins \/ Revoked \/ Connects \/ Watches
  BY <1>8 DEF AddToken, RotateToken, RemoveToken, Begins, Revoked, Connects, Watches, counters,
     AccessInv, Shapes, Counts, CeilingHolds
<1>9. CASE UNCHANGED accessVars
  BY <1>9 DEF accessVars, AccessInv, Shapes, Counts, CeilingHolds
<1> QED
  BY <1>1, <1>2, <1>3, <1>4, <1>5, <1>6, <1>7, <1>8, <1>9 DEF AccessNext

\* Whatever the ceiling and however many ask, a window lets no more through than its
\* ceiling as long as no two count from one reading (consume in api/security/quota.py).
THEOREM CeilingIsKept == AccessSpec => []CeilingHolds
<1>1. AccessInv => CeilingHolds
  BY DEF AccessInv
<1> QED
  BY AccessInitInv, AccessNextInv, <1>1, PTL DEF AccessSpec
=============================================================================
