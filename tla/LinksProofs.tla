---------------------------- MODULE LinksProofs -----------------------------
(* Proofs about Cards and Links, for any number of requests and connections. *)
EXTENDS Links, FiniteSetTheorems, TLAPS

(***************************************************************************)
(* A card.                                                                 *)
(***************************************************************************)
Columns == {"active", "secret", "settings"}
IsRow(x) ==
  /\ x = [c \in Columns |-> x[c]]
  /\ x.active \in BOOLEAN
  /\ x.settings = [f \in {"fields", "identity"} |-> x.settings[f]] /\ x.settings.fields \in BOOLEAN

AskFields == {"at", "made", "saw", "want", "on", "secret", "edits"}
IsAsk(q) ==
  /\ q = [f \in AskFields |-> q[f]]
  /\ IsRow(q.saw) /\ IsRow(q.want)
  /\ q.at \in {"activating", "probing"} => q.made = FALSE

CardsForms ==
  /\ IsRow(row)
  /\ ask = [r \in Requests |-> ask[r]] /\ \A r \in Requests : IsAsk(ask[r])
  /\ copies \in Nat /\ app \in BOOLEAN /\ crossed \in BOOLEAN

\* What the card shows of a row it can read holds of the row.
Sound(x) ==
  /\ x.active /\ card \notin {"email", "whatsapp", "meta", "web"} => Complete(x)
  /\ card \notin {"whatsapp", "meta"} => x.settings.identity \in {"none", x.secret}
  /\ card \in {"discord", "telegram", "slack"} => x.settings.fields
  /\ card \in {"email", "web"} => x.settings.identity = "none"

\* A request that is about to commit turns on nothing by itself, and what it wants is sound.
SoundAsk(q) ==
  q.at \in {"staged", "admitted"} =>
    ~Unreadable(q.want) /\ Sound(q.want) /\ (q.want.active => q.saw.active)

CardsSound ==
  /\ row.active => app
  /\ copies < 2 /\ ~Unreadable(row) => Sound(row)
  /\ \A r \in Requests : SoundAsk(ask[r])

CardsInv == CardsForms /\ (~crossed => CardsSound)

LEMMA FreshIsRow ==
  ASSUME NEW k
  PROVE  /\ IsRow(Fresh(k)) /\ Fresh(k).active = FALSE /\ Fresh(k).secret = "none"
         /\ Fresh(k).settings.identity = "none"
         /\ k \in {"discord", "telegram", "slack"} => Fresh(k).settings.fields
<1> DEFINE complete == k \in {"discord", "telegram", "slack"}
<1>1. Fresh(k) = [c \in Columns |-> Fresh(k)[c]]
  BY DEF Columns, Fresh
<1>2. /\ Fresh(k).active = FALSE /\ Fresh(k).secret = "none"
      /\ Fresh(k).settings = [fields |-> complete, identity |-> "none"]
  BY DEF Fresh
<1>3. complete \in BOOLEAN
  OBVIOUS
<1> HIDE DEF complete
<1>4. IsRow(Fresh(k)) /\ (complete => Fresh(k).settings.fields) /\ Fresh(k).settings.identity = "none"
  <2> DEFINE s == [fields |-> complete, identity |-> "none"]
  <2>1. s = [f \in {"fields", "identity"} |-> s[f]]
    OBVIOUS
  <2>2. s.fields = complete /\ s.identity = "none"
    OBVIOUS
  <2>3. Fresh(k).settings = s
    BY <1>2
  <2> HIDE DEF s
  <2> QED
    BY <1>1, <1>2, <1>3, <2>1, <2>2, <2>3 DEF IsRow
<1> QED
  BY <1>2, <1>4 DEF complete

LEMMA OverAsks ==
  /\ IsAsk(Idle) /\ Idle.made = FALSE /\ Idle.at = "idle"
  /\ \A at : Over(at).at = at /\ Over(at).made = FALSE /\ IsAsk(Over(at))
<1>1. IsRow(Fresh("web"))
  BY FreshIsRow
<1>2. IsAsk(Idle) /\ Idle.made = FALSE /\ Idle.at = "idle"
  BY <1>1 DEF Idle, IsAsk, AskFields
<1>3. ASSUME NEW at PROVE Over(at).at = at /\ Over(at).made = FALSE /\ IsAsk(Over(at))
  BY <1>2 DEF Over, IsAsk, AskFields
<1> QED
  BY <1>2, <1>3

LEMMA CardsInitInv == CardsInit => CardsInv
<1> SUFFICES ASSUME CardsInit PROVE CardsInv
  OBVIOUS
<1>1. IsRow(Fresh(card)) /\ Sound(Fresh(card)) /\ Fresh(card).active = FALSE
  BY FreshIsRow DEF Sound
<1>2. CASE copies = 0 /\ row = Fresh(card)
  BY <1>1, <1>2, OverAsks DEF CardsInit, CardsInv, CardsForms, CardsSound, SoundAsk
<1>3. ASSUME NEW s \in {"old", "lost"}, NEW on \in BOOLEAN, copies = 1,
             row = [Fresh(card) EXCEPT !.active = on, !.secret = s, !.settings.fields = TRUE]
      PROVE  CardsInv
  <2>1. IsRow(row) /\ row.secret = s /\ row.settings.fields /\ row.settings.identity = "none"
    BY <1>3 DEF IsRow, Columns, Fresh
  <2>2. Sound(row)
    BY <2>1 DEF Sound, Complete
  <2> QED
    BY <1>3, <2>1, <2>2, OverAsks DEF CardsInit, CardsInv, CardsForms, CardsSound, SoundAsk
<1> QED
  BY <1>2, <1>3 DEF CardsInit

\* A request goes on, and the row is left alone.
LEMMA AskMoves ==
  ASSUME CardsInv, NEW r \in Requests, NEW q, IsAsk(q), ~crossed => SoundAsk(q),
         ask' = [ask EXCEPT ![r] = q], UNCHANGED <<card, row, copies, app, crossed>>
  PROVE  CardsInv'
<1>1. ask'[r] = q /\ \A p \in Requests \ {r} : ask'[p] = ask[p]
  BY DEF CardsInv, CardsForms
<1>2. CardsForms'
  BY <1>1 DEF CardsInv, CardsForms
<1>3. ASSUME ~crossed PROVE CardsSound'
  BY <1>1, <1>3 DEF CardsInv, CardsSound, SoundAsk, Sound
<1> QED
  BY <1>2, <1>3 DEF CardsInv

LEMMA OverMoves ==
  ASSUME CardsInv, NEW r \in Requests, NEW at \in {"refused", "saved", "tested", "raised"},
         ask' = [ask EXCEPT ![r] = Over(at)], UNCHANGED <<card, row, copies, app, crossed>>
  PROVE  CardsInv'
BY OverAsks, AskMoves DEF SoundAsk

\* A commit that saw the row as it is makes it what the request wants.
LEMMA CommitsKeeps ==
  ASSUME CardsInv, NEW r \in Requests, NEW want, IsRow(want),
         NEW at \in {"activating", "saved", "tested", "refused"}, Commits(r, want, at),
         ~crossed' => /\ want.active => app
                      /\ copies' < 2 /\ ~Unreadable(want) => Sound(want)
  PROVE  CardsInv'
<1> DEFINE one == ask[r]
           q   == IF at = "activating" THEN [one EXCEPT !.at = at, !.made = FALSE, !.saw = row']
                  ELSE Over(at)
<1>1. /\ ask' = [ask EXCEPT ![r] = q] /\ UNCHANGED <<card, app>>
      /\ crossed' = (crossed \/ row # one.saw \/ (one.on = "on" /\ ~app))
      /\ IF one.made THEN copies' = copies + 1 /\ row' = IF copies = 0 THEN want ELSE row
         ELSE row' = Merged(r, want) /\ UNCHANGED copies
  BY DEF Commits
<1>2. IsRow(row) /\ IsAsk(one) /\ copies \in Nat
  BY DEF CardsInv, CardsForms
<1>3. IsRow(Merged(r, want)) /\ (row = one.saw => Merged(r, want) = want)
  BY <1>2 DEF Merged, IsRow, Columns
<1>4. IsRow(row')
  BY <1>1, <1>2, <1>3
<1>5. IsAsk(q) /\ q.at = at
  <2>1. CASE at = "activating"
    BY <1>2, <1>4, <2>1 DEF IsAsk, AskFields
  <2>2. CASE at # "activating"
    BY <2>2, OverAsks
  <2> QED
    BY <2>1, <2>2
<1> HIDE DEF q
<1>6. ask'[r] = q /\ \A p \in Requests \ {r} : ask'[p] = ask[p]
  BY <1>1 DEF CardsInv, CardsForms
<1>7. CardsForms'
  BY <1>1, <1>2, <1>4, <1>5, <1>6 DEF CardsInv, CardsForms
<1>8. card' = card
  BY <1>1
<1>9. ASSUME ~crossed' PROVE CardsSound'
  <2>1. ~crossed /\ row = one.saw
    BY <1>1, <1>9
  <2>2. \/ row' = want
        \/ row' = row /\ copies' = copies + 1 /\ copies # 0
    BY <1>1, <1>3, <2>1
  <2>3. row'.active => app'
    BY <1>1, <1>9, <2>1, <2>2 DEF CardsInv, CardsSound
  <2>4. (copies < 2 /\ ~Unreadable(row) => Sound(row))'
    <3>1. CASE row' = want
      BY <1>8, <1>9, <3>1 DEF Sound, Unreadable, Complete
    <3>2. CASE row' = row /\ copies' = copies + 1 /\ copies # 0
      BY <1>2, <3>2
    <3> QED
      BY <2>2, <3>1, <3>2
  <2>5. ASSUME NEW p \in Requests PROVE SoundAsk(ask[p])'
    <3>1. CASE p = r
      BY <1>5, <1>6, <3>1 DEF SoundAsk
    <3>2. CASE p # r
      <4>1. ask'[p] = ask[p] /\ SoundAsk(ask[p])
        BY <1>6, <2>1, <3>2 DEF CardsInv, CardsSound
      <4> QED
        BY <1>8, <4>1 DEF SoundAsk, Sound, Unreadable, Complete
    <3> QED
      BY <3>1, <3>2
  <2> QED
    BY <2>3, <2>4, <2>5 DEF CardsSound
<1> QED
  BY <1>7, <1>9 DEF CardsInv

\* What an edit may do to a row, one field at a time.
LEMMA UnnamedIs ==
  ASSUME NEW x, IsRow(x)
  PROVE  /\ IsRow(Unnamed(x)) /\ Unnamed(x).active = x.active /\ Unnamed(x).secret = x.secret
         /\ Unnamed(x).settings.fields = x.settings.fields
         /\ Unnamed(x).settings.identity = "none"
BY DEF IsRow, Columns, Unnamed

LEMMA FilledIs ==
  ASSUME NEW x, IsRow(x), NEW p
  PROVE  /\ IsRow(Filled(x, p)) /\ Filled(x, p).active = x.active /\ Filled(x, p).secret = x.secret
         /\ Filled(x, p).settings.identity = x.settings.identity
<1>1. CASE p.fields = "keep"
  BY <1>1 DEF Filled
<1>2. CASE p.fields # "keep"
  <2> DEFINE b == p.fields = "fill"
  <2>1. b \in BOOLEAN /\ Filled(x, p) = [x EXCEPT !.settings.fields = b]
    BY <1>2 DEF Filled
  <2> HIDE DEF b
  <2> QED
    BY <2>1 DEF IsRow, Columns
<1> QED
  BY <1>1, <1>2

LEMMA SecretEdited ==
  ASSUME NEW x, IsRow(x), NEW v
  PROVE  LET y == [x EXCEPT !.secret = v]
         IN IsRow(y) /\ y.active = x.active /\ y.secret = v /\ y.settings = x.settings
BY DEF IsRow, Columns

LEMMA SwitchedOff ==
  ASSUME NEW x, IsRow(x)
  PROVE  LET y == [x EXCEPT !.active = FALSE]
         IN IsRow(y) /\ y.active = FALSE /\ y.secret = x.secret /\ y.settings = x.settings
BY DEF IsRow, Columns

LEMMA TakenOut ==
  ASSUME NEW x, IsRow(x)
  PROVE  LET y == [x EXCEPT !.secret = "none", !.active = FALSE]
         IN IsRow(y) /\ y.active = FALSE /\ y.secret = "none" /\ y.settings = x.settings
BY DEF IsRow, Columns

\* A credential is removed, replaced, or as it was.
LEMMA SecretIs ==
  ASSUME NEW there, NEW p, NEW r, NEW removed, NEW stored
  PROVE  Secret(there, p, r, removed, stored).row
           \in {removed, [stored EXCEPT !.secret = r], there}
<1>1. Secret(there, p, r, removed, stored)
        \in {Result(removed), Result([stored EXCEPT !.secret = r]), Result(there), Refusal(there)}
  BY DEF Secret
<1>2. \A y : Result(y).row = y /\ Refusal(y).row = y
  BY DEF Result, Refusal
<1> QED
  BY <1>1, <1>2

\* An edit of a sound row wants a sound row, and turns nothing on.
Wanted(x, y) == ~Unreadable(y) /\ Sound(y) /\ (y.active => x.active)

LEMMA RequestNames ==
  ASSUME NEW r \in Requests
  PROVE  r # "none" /\ r # "lost"
BY CardsAssumption

LEMMA TokenEditIs ==
  ASSUME NEW x, IsRow(x), NEW p, NEW r \in Requests,
         NEW e, e = Secret(x, p, r, Removed(x), Unnamed(x))
  PROVE  /\ IsRow(e.row)
         /\ card \in {"discord", "telegram", "slack"} /\ Sound(x) /\ ~Unreadable(x)
              => Wanted(x, e.row)
<1> DEFINE y == Unnamed(x)
<1>1. e.row \in {[y EXCEPT !.secret = "none", !.active = FALSE], [y EXCEPT !.secret = r], x}
  BY SecretIs DEF Removed
<1>2. /\ IsRow(y) /\ y.active = x.active /\ y.secret = x.secret
      /\ y.settings.fields = x.settings.fields /\ y.settings.identity = "none"
  BY UnnamedIs
<1> HIDE DEF y
<1>3. CASE e.row = [y EXCEPT !.secret = "none", !.active = FALSE]
  <2>1. IsRow(e.row) /\ e.row.active = FALSE /\ e.row.secret = "none" /\ e.row.settings = y.settings
    BY <1>2, <1>3, TakenOut
  <2> QED
    <3>1. ~Unreadable(e.row)
      BY <2>1 DEF Unreadable
    <3>2. e.row.active => x.active
      BY <2>1
    <3>3. card \in {"discord", "telegram", "slack"} /\ Sound(x) => Sound(e.row)
      BY <1>2, <2>1 DEF Sound
    <3> QED
      BY <2>1, <3>1, <3>2, <3>3 DEF Wanted
<1>4. CASE e.row = [y EXCEPT !.secret = r]
  <2>1. IsRow(e.row) /\ e.row.active = y.active /\ e.row.secret = r /\ e.row.settings = y.settings
    BY <1>2, <1>4, SecretEdited
  <2> QED
    BY <1>2, <2>1, RequestNames DEF Wanted, Sound, Unreadable, Complete
<1>5. CASE e.row = x
  BY <1>5 DEF Wanted
<1> QED
  BY <1>1, <1>3, <1>4, <1>5

Cleared(x)   == [x EXCEPT !.secret = "none"]
TakenDown(x) == [x EXCEPT !.secret = "none", !.active = FALSE]

LEMMA SecretKept ==
  ASSUME NEW now, IsRow(now), NEW p, NEW r, NEW removed,
         removed = Cleared(now) \/ removed = TakenDown(now)
  PROVE  LET t == Secret(now, p, r, removed, now).row
         IN /\ IsRow(t) /\ t.settings = now.settings /\ t.secret \in {"none", r, now.secret}
            /\ (t.active => now.active)
<1> DEFINE t == Secret(now, p, r, removed, now).row
<1>1. t \in {removed, [now EXCEPT !.secret = r], now}
  BY SecretIs
<1> SUFFICES ASSUME NEW u \in {removed, [now EXCEPT !.secret = r], now}
             PROVE  /\ IsRow(u) /\ u.settings = now.settings /\ u.secret \in {"none", r, now.secret}
                    /\ (u.active => now.active)
  BY <1>1
<1>2. CASE u = removed /\ removed = Cleared(now)
  BY <1>2, SecretEdited DEF Cleared
<1>3. CASE u = removed /\ removed = TakenDown(now)
  BY <1>3, TakenOut DEF TakenDown
<1>4. CASE u = [now EXCEPT !.secret = r]
  BY <1>4, SecretEdited
<1> QED
  BY <1>2, <1>3, <1>4

\* E-mail and web chat have no name to keep.
LEMMA PlainEditIs ==
  ASSUME NEW x, IsRow(x), NEW p, NEW r \in Requests, NEW t,
         t = EmailEdit(x, p, r).row \/ t = WebEdit(x, p, r).row
  PROVE  /\ IsRow(t)
         /\ card \in {"email", "web"} /\ Sound(x) /\ ~Unreadable(x) => Wanted(x, t)
<1> DEFINE now == Filled(x, p)
<1>1. IsRow(now) /\ now.active = x.active /\ now.secret = x.secret
      /\ now.settings.identity = x.settings.identity
  BY FilledIs
<1>2. \/ t = Secret(now, p, r, TakenDown(now), now).row
      \/ t = Secret(now, p, r, Cleared(now), now).row
  BY DEF EmailEdit, WebEdit, Cleared, TakenDown
<1> HIDE DEF now
<1>3. IsRow(t) /\ t.settings = now.settings /\ t.secret \in {"none", r, now.secret}
      /\ (t.active => now.active)
  BY <1>1, <1>2, SecretKept
<1>4. card \in {"email", "web"} /\ Sound(x) => Sound(t)
  BY <1>1, <1>3 DEF Sound
<1>5. ~Unreadable(x) => ~Unreadable(t)
  BY <1>1, <1>3, RequestNames DEF Unreadable
<1> QED
  BY <1>1, <1>3, <1>4, <1>5 DEF Wanted

\* WhatsApp's and Meta's card promises less.
LEMMA MetaEditIs ==
  ASSUME NEW x, IsRow(x), NEW p, NEW r \in Requests, NEW t, t = MetaEdit(x, p, r).row
  PROVE  /\ IsRow(t)
         /\ card \in {"whatsapp", "meta"} /\ ~Unreadable(x) => Wanted(x, t)
<1> DEFINE now == IF p.fields = "keep" THEN x ELSE Unnamed(Filled(x, p))
<1>1. IsRow(now) /\ now.active = x.active /\ now.secret = x.secret
  BY FilledIs, UnnamedIs
<1>2. t = Secret(now, p, r, TakenDown(now), now).row
  BY DEF MetaEdit, TakenDown
<1> HIDE DEF now
<1>3. IsRow(t) /\ t.secret \in {"none", r, now.secret} /\ (t.active => now.active)
  BY <1>1, <1>2, SecretKept
<1>4. card \in {"whatsapp", "meta"} => Sound(t)
  BY DEF Sound
<1>5. ~Unreadable(x) => ~Unreadable(t)
  BY <1>1, <1>3, RequestNames DEF Unreadable
<1> QED
  BY <1>1, <1>3, <1>4, <1>5 DEF Wanted

LEMMA DeclaredEditIs ==
  ASSUME NEW x, IsRow(x), NEW p, NEW r \in Requests, NEW e, e = DeclaredEdit(x, p, r)
  PROVE  /\ IsRow(e.row)
         /\ card \in Declared /\ ~e.refused /\ Sound(x) /\ ~Unreadable(x) => Wanted(x, e.row)
<1> DEFINE now   == Unnamed(Filled(x, p))
           taken == Secret(now, p, r, Cleared(now), now)
           off   == [taken.row EXCEPT !.active = FALSE]
<1>1. IsRow(now) /\ now.active = x.active /\ now.secret = x.secret /\ now.settings.identity = "none"
  BY FilledIs, UnnamedIs
<1>2. /\ IsRow(taken.row) /\ (taken.row.active => x.active)
      /\ taken.row.settings.identity = "none" /\ taken.row.secret \in {"none", r, x.secret}
  <2> DEFINE t == taken.row
  <2>1. t = Secret(now, p, r, Cleared(now), now).row
    OBVIOUS
  <2> HIDE DEF now, t
  <2>2. /\ IsRow(t) /\ t.settings = now.settings /\ t.secret \in {"none", r, now.secret}
        /\ (t.active => now.active)
    BY <1>1, <2>1, SecretKept
  <2>3. /\ IsRow(t) /\ (t.active => x.active)
        /\ t.settings.identity = "none" /\ t.secret \in {"none", r, x.secret}
    BY <1>1, <2>2
  <2> QED
    BY <2>3 DEF t
<1>3. \A y : Result(y).row = y /\ Result(y).refused = FALSE
  BY DEF Result
<1>4. e = IF ~Written(p) THEN Result(x)
          ELSE IF taken.refused \/ Complete(taken.row) THEN taken ELSE Result(off)
  BY DEF DeclaredEdit, Cleared
<1> HIDE DEF taken
<1>5. CASE e = Result(x)
  BY <1>3, <1>5 DEF Wanted
<1>6. CASE e = taken /\ (taken.refused \/ Complete(taken.row))
  <2>1. ~Unreadable(x) => ~Unreadable(e.row)
    BY <1>2, <1>6, RequestNames DEF Unreadable
  <2>2. card \in Declared /\ ~e.refused => Sound(e.row)
    BY <1>2, <1>6 DEF Sound, Declared
  <2> QED
    BY <1>2, <1>6, <2>1, <2>2 DEF Wanted
<1>7. CASE e = Result(off)
  <2>1. IsRow(off) /\ off.active = FALSE /\ off.secret = taken.row.secret
        /\ off.settings = taken.row.settings
    BY <1>2, SwitchedOff
  <2>2. e.row = off
    BY <1>3, <1>7
  <2> HIDE DEF off
  <2>3. ~Unreadable(x) => ~Unreadable(e.row)
    BY <1>2, <2>1, <2>2, RequestNames DEF Unreadable
  <2>4. card \in Declared => Sound(e.row)
    BY <1>2, <2>1, <2>2 DEF Sound, Declared
  <2> QED
    BY <2>1, <2>2, <2>3, <2>4 DEF Wanted
<1> QED
  BY <1>4, <1>5, <1>6, <1>7

(***************************************************************************)
(* The steps of a request.                                                 *)
(***************************************************************************)
LEMMA OpensKeeps ==
  ASSUME CardsInv, NEW r \in Requests, NEW p, NEW edit, Opens(r, p, edit), IsRow(edit.row),
         ~edit.refused /\ Sound(row) /\ ~Unreadable(row) => Wanted(row, edit.row)
  PROVE  CardsInv'
<1> DEFINE made == copies = 0
           edits == p # Nothing
           raised == [Over("raised") EXCEPT !.secret = p.secret]
           staged == [at |-> "staged", made |-> made, saw |-> row, want |-> edit.row,
                      on |-> p.enabled, secret |-> p.secret, edits |-> edits]
<1>1. /\ copies < 2 /\ UNCHANGED <<card, row, copies, app, crossed>>
      /\ \/ ask' = [ask EXCEPT ![r] = raised]
         \/ ask' = [ask EXCEPT ![r] = Over("refused")]
         \/ ask' = [ask EXCEPT ![r] = staged] /\ ~Unreadable(row) /\ ~edit.refused
  BY DEF Opens
<1>2. IsAsk(raised) /\ SoundAsk(raised)
  <2>1. IsAsk(Over("raised")) /\ Over("raised").at = "raised"
    BY OverAsks
  <2>2. IsAsk(raised) /\ raised.at = "raised"
    BY <2>1 DEF IsAsk, AskFields
  <2> QED
    BY <2>2 DEF SoundAsk
<1> HIDE DEF made, edits, raised
<1>3. /\ staged = [f \in AskFields |-> staged[f]] /\ staged.at = "staged"
      /\ staged.saw = row /\ staged.want = edit.row
  BY DEF AskFields
<1>4. IsAsk(staged)
  BY <1>3 DEF IsAsk, CardsInv, CardsForms
<1>5. ~crossed /\ ~Unreadable(row) /\ ~edit.refused => SoundAsk(staged)
  BY <1>1, <1>3 DEF SoundAsk, CardsInv, CardsSound, Wanted
<1> HIDE DEF staged
<1> QED
  BY <1>1, <1>2, <1>4, <1>5, AskMoves, OverMoves

LEMMA AdmitsKeeps ==
  ASSUME CardsInv, NEW r \in Requests, Admits(r)
  PROVE  CardsInv'
<1> DEFINE q == [ask[r] EXCEPT !.at = "admitted"]
<1>1. IsAsk(ask[r])
  BY DEF CardsInv, CardsForms
<1>2. IsAsk(q) /\ q.want = ask[r].want /\ q.saw = ask[r].saw
  BY <1>1 DEF IsAsk, AskFields
<1>3. ~crossed => SoundAsk(q)
  BY <1>2 DEF Admits, CardsInv, CardsSound, SoundAsk
<1>4. /\ UNCHANGED <<card, row, copies, app, crossed>>
      /\ ask' = [ask EXCEPT ![r] = q] \/ ask' = [ask EXCEPT ![r] = Over("refused")]
  BY DEF Admits
<1> HIDE DEF q
<1> QED
  BY <1>2, <1>3, <1>4, AskMoves, OverMoves

\* What switches on is complete, and its app is on or the commit is crossed.
LEMMA SavesKeeps ==
  ASSUME CardsInv, NEW r \in Requests, NEW complete, NEW activates, Saves(r, complete, activates),
         card \notin {"email", "whatsapp", "meta", "web"} /\ complete /\ Sound(ask[r].want)
           => Complete(ask[r].want)
  PROVE  CardsInv'
<1> DEFINE one  == ask[r]
           on   == CASE one.on = "on" -> TRUE [] one.on = "off" -> FALSE [] OTHER -> one.want.active
           want == [one.want EXCEPT !.active = on]
           at   == IF activates /\ one.edits /\ want.active THEN "activating" ELSE "saved"
<1>1. IsRow(one.want)
  BY DEF CardsInv, CardsForms, IsAsk
<1>2. /\ on \in BOOLEAN
      /\ on => one.on = "on" \/ one.want.active
  BY <1>1 DEF IsRow
<1>3. at \in {"activating", "saved"}
  OBVIOUS
<1>4. one.at \in {"staged", "admitted"}
  BY DEF Saves
<1>5. \/ one.on = "on" /\ ~complete /\ ask' = [ask EXCEPT ![r] = Over("refused")]
         /\ UNCHANGED <<card, row, copies, token, app, crossed>>
      \/ ~(one.on = "on" /\ ~complete) /\ Commits(r, want, at)
  BY DEF Saves
<1> HIDE DEF on, at
<1>6. IsRow(want) /\ want.active = on /\ want.secret = one.want.secret
      /\ want.settings = one.want.settings
  BY <1>1, <1>2 DEF IsRow, Columns
<1> HIDE DEF want
<1>7. CASE Commits(r, want, at) /\ ~(one.on = "on" /\ ~complete)
  <2>1. ASSUME ~crossed'
        PROVE  (want.active => app) /\ Sound(want)
    <3>1. ~crossed /\ row = one.saw /\ ~(one.on = "on" /\ ~app)
      BY <1>7, <2>1 DEF Commits
    <3>2. Sound(one.want) /\ (one.want.active => one.saw.active) /\ (row.active => app)
      BY <1>4, <3>1 DEF CardsInv, CardsSound, SoundAsk
    <3>3. want.active => app
      BY <1>2, <1>6, <3>1, <3>2
    <3>4. want.active /\ card \notin {"email", "whatsapp", "meta", "web"} => Complete(one.want)
      BY <1>2, <1>6, <1>7, <3>2 DEF Sound
    <3>5. Complete(want) <=> Complete(one.want)
      BY <1>6 DEF Complete
    <3>6. Sound(want)
      BY <1>6, <3>2, <3>4, <3>5 DEF Sound
    <3> QED
      BY <3>3, <3>6
  <2> QED
    BY <1>3, <1>6, <1>7, <2>1, CommitsKeeps
<1>8. CASE ask' = [ask EXCEPT ![r] = Over("refused")] /\ UNCHANGED <<card, row, copies, app, crossed>>
  BY <1>8, OverMoves
<1> QED
  BY <1>5, <1>7, <1>8

LEMMA ProbesKeeps ==
  ASSUME CardsInv, NEW r \in Requests, NEW complete, Probes(r, complete)
  PROVE  CardsInv'
<1> DEFINE q == [Idle EXCEPT !.at = "probing", !.saw = row]
<1>1. IsAsk(q) /\ q.at = "probing"
  BY OverAsks DEF IsAsk, AskFields, CardsInv, CardsForms
<1>2. SoundAsk(q)
  BY <1>1 DEF SoundAsk
<1>3. /\ UNCHANGED <<card, row, copies, app, crossed>>
      /\ \/ ask' = [ask EXCEPT ![r] = q] \/ ask' = [ask EXCEPT ![r] = Over("refused")]
         \/ ask' = [ask EXCEPT ![r] = Over("raised")]
  BY DEF Probes
<1> HIDE DEF q
<1> QED
  BY <1>1, <1>2, <1>3, AskMoves, OverMoves

\* The name that is noted was told for the credential that was read.
LEMMA NamedKeeps ==
  ASSUME CardsInv, NEW r \in Requests, NEW notes, Named(r, notes),
         notes => card \notin {"email", "web"}
  PROVE  CardsInv'
<1> DEFINE one  == ask[r]
           want == [one.saw EXCEPT !.settings.identity = one.saw.secret]
<1>1. IsRow(one.saw) /\ one.made = FALSE
  BY DEF Named, CardsInv, CardsForms, IsAsk
<1>2. /\ IsRow(want) /\ want.active = one.saw.active /\ want.secret = one.saw.secret
      /\ want.settings.fields = one.saw.settings.fields /\ want.settings.identity = one.saw.secret
  BY <1>1 DEF IsRow, Columns
<1>3. \/ notes /\ Commits(r, want, "tested")
      \/ ~notes /\ ask' = [ask EXCEPT ![r] = Over("tested")]
         /\ UNCHANGED <<card, row, copies, app, crossed>>
  BY DEF Named
<1> HIDE DEF want
<1>4. CASE notes /\ Commits(r, want, "tested")
  <2>1. ASSUME ~crossed'
        PROVE  (want.active => app) /\ (copies' < 2 /\ ~Unreadable(want) => Sound(want))
    <3>1. ~crossed /\ row = one.saw /\ copies' = copies
      BY <1>1, <1>4, <2>1 DEF Commits
    <3>2. (row.active => app) /\ (copies < 2 /\ ~Unreadable(row) => Sound(row))
      BY <3>1 DEF CardsInv, CardsSound
    <3>3. Unreadable(want) <=> Unreadable(row)
      BY <1>2, <3>1 DEF Unreadable
    <3>4. Sound(row) => Sound(want)
      BY <1>2, <1>4, <3>1 DEF Sound, Complete
    <3> QED
      BY <1>2, <3>1, <3>2, <3>3, <3>4
  <2> QED
    BY <1>2, <1>4, <2>1, CommitsKeeps
<1>5. CASE ask' = [ask EXCEPT ![r] = Over("tested")] /\ UNCHANGED <<card, row, copies, app, crossed>>
  BY <1>5, OverMoves
<1> QED
  BY <1>3, <1>4, <1>5

LEMMA ActivatedKeeps ==
  ASSUME CardsInv, NEW r \in Requests, Activated(r)
  PROVE  CardsInv'
<1> DEFINE one  == ask[r]
           want == [one.saw EXCEPT !.active = FALSE]
<1>1. IsRow(one.saw) /\ one.made = FALSE
  BY DEF Activated, CardsInv, CardsForms, IsAsk
<1>2. /\ IsRow(want) /\ want.active = FALSE /\ want.secret = one.saw.secret
      /\ want.settings = one.saw.settings
  BY <1>1, SwitchedOff
<1>3. \/ Commits(r, want, "refused")
      \/ ask' = [ask EXCEPT ![r] = Over("saved")] /\ UNCHANGED <<card, row, copies, app, crossed>>
  BY DEF Activated
<1> HIDE DEF want
<1>4. CASE Commits(r, want, "refused")
  <2>1. ASSUME ~crossed'
        PROVE  (want.active => app) /\ (copies' < 2 /\ ~Unreadable(want) => Sound(want))
    <3>1. ~crossed /\ row = one.saw /\ copies' = copies
      BY <1>1, <1>4, <2>1 DEF Commits
    <3>2. copies < 2 /\ ~Unreadable(row) => Sound(row)
      BY <3>1 DEF CardsInv, CardsSound
    <3>3. Unreadable(want) <=> Unreadable(row)
      BY <1>2, <3>1 DEF Unreadable
    <3>4. Sound(row) => Sound(want)
      BY <1>2, <3>1 DEF Sound
    <3> QED
      BY <1>2, <3>1, <3>2, <3>3, <3>4
  <2> QED
    BY <1>2, <1>4, <2>1, CommitsKeeps
<1>5. CASE ask' = [ask EXCEPT ![r] = Over("saved")] /\ UNCHANGED <<card, row, copies, app, crossed>>
  BY <1>5, OverMoves
<1> QED
  BY <1>3, <1>4, <1>5

LEMMA SwitchesKeeps ==
  ASSUME CardsInv, Switches
  PROVE  CardsInv'
<1> DEFINE off == [row EXCEPT !.active = FALSE]
<1>1. UNCHANGED <<card, copies, ask, crossed>> /\ app' = ~app /\ row' = IF app THEN off ELSE row
  BY DEF Switches
<1>2. /\ IsRow(row) /\ app \in BOOLEAN
      /\ IsRow(off) /\ off.active = FALSE /\ off.secret = row.secret /\ off.settings = row.settings
  BY SwitchedOff DEF CardsInv, CardsForms
<1> HIDE DEF off
<1>3. CardsForms'
  BY <1>1, <1>2 DEF CardsInv, CardsForms
<1>4. ASSUME ~crossed PROVE CardsSound'
  <2>1. row.active => app
    BY <1>4 DEF CardsInv, CardsSound
  <2>2. (row.active => app)'
    BY <1>1, <1>2, <2>1
  <2>3. (copies < 2 /\ ~Unreadable(row) => Sound(row))'
    <3>1. copies < 2 /\ ~Unreadable(row) => Sound(row)
      BY <1>4 DEF CardsInv, CardsSound
    <3>2. CASE app
      BY <1>1, <1>2, <3>1, <3>2 DEF Sound, Unreadable
    <3>3. CASE ~app
      BY <1>1, <3>1, <3>3 DEF Sound, Unreadable, Complete
    <3> QED
      BY <3>2, <3>3
  <2>4. \A p \in Requests : SoundAsk(ask[p])'
    <3>1. \A p \in Requests : SoundAsk(ask[p])
      BY <1>4 DEF CardsInv, CardsSound
    <3> QED
      BY <1>1, <3>1 DEF SoundAsk, Sound, Unreadable, Complete
  <2> QED
    BY <2>2, <2>3, <2>4 DEF CardsSound
<1> QED
  BY <1>1, <1>3, <1>4 DEF CardsInv

\* Whatever else a step of a card changes, it keeps the channel and its row.
LEMMA CardsStay ==
  ASSUME CardsInv, UNCHANGED <<card, row, copies, ask, app, crossed>>
  PROVE  CardsInv'
BY DEF CardsInv, CardsForms, CardsSound, SoundAsk, Sound

LEMMA CardKeeps ==
  ASSUME CardsInv, NEW r \in Requests, Card(r)
  PROVE  CardsInv'
<1>0. IsRow(row)
  BY DEF CardsInv, CardsForms
<1>1. CASE card \in {"discord", "telegram", "slack"}
  <2>1. ASSUME NEW p, NEW edit, edit = Secret(row, p, r, Removed(row), Unnamed(row)), Opens(r, p, edit)
        PROVE  CardsInv'
    BY <1>0, <1>1, <2>1, TokenEditIs, OpensKeeps
  <2>2. ASSUME Saves(r, HasSecret(ask[r].want), FALSE)
        PROVE  CardsInv'
    <3>1. HasSecret(ask[r].want) /\ Sound(ask[r].want) => Complete(ask[r].want)
      BY <1>1 DEF HasSecret, Sound, Complete
    <3> QED
      BY <2>2, <3>1, SavesKeeps
  <2>3. ASSUME Probes(r, HasSecret(row)) \/ Named(r, TRUE) \/ Admits(r)
        PROVE  CardsInv'
    BY <1>1, <2>3, ProbesKeeps, NamedKeeps, AdmitsKeeps
  <2>4. \/ \E p \in Payloads(card) : Opens(r, p, Secret(row, p, r, Removed(row), Unnamed(row)))
        \/ Admits(r) \/ Saves(r, HasSecret(ask[r].want), FALSE)
        \/ Probes(r, HasSecret(row)) \/ Named(r, TRUE)
    BY <1>1 DEF Card, Discord, DiscordTest, Telegram, TelegramTest, Slack, SlackTest,
                DiscordEdit, TelegramEdit, SlackEdit, Declared
  <2> QED
    BY <2>1, <2>2, <2>3, <2>4
<1>2. CASE card \in {"email", "web"}
  <2>1. ASSUME NEW p, NEW edit, Opens(r, p, edit), edit = EmailEdit(row, p, r) \/ edit = WebEdit(row, p, r)
        PROVE  CardsInv'
    BY <1>0, <1>2, <2>1, PlainEditIs, OpensKeeps
  <2>2. ASSUME NEW complete, Saves(r, complete, FALSE) PROVE CardsInv'
    BY <1>2, <2>2, SavesKeeps
  <2>3. ASSUME NEW complete, Probes(r, complete) \/ Named(r, FALSE) \/ Admits(r)
        PROVE  CardsInv'
    BY <2>3, ProbesKeeps, NamedKeeps, AdmitsKeeps
  <2> QED
    BY <1>2, <2>1, <2>2, <2>3 DEF Card, Email, EmailTest, Web, Declared
<1>3. CASE card \in {"whatsapp", "meta"}
  <2>1. ASSUME NEW p, NEW edit, Opens(r, p, edit), edit = MetaEdit(row, p, r)
        PROVE  CardsInv'
    BY <1>0, <1>3, <2>1, MetaEditIs, OpensKeeps
  <2>2. ASSUME NEW complete, Saves(r, complete, FALSE) PROVE CardsInv'
    BY <1>3, <2>2, SavesKeeps
  <2>3. ASSUME NEW complete, Probes(r, complete) \/ Named(r, TRUE) \/ Admits(r)
        PROVE  CardsInv'
    BY <1>3, <2>3, ProbesKeeps, NamedKeeps, AdmitsKeeps
  <2> QED
    BY <1>3, <2>1, <2>2, <2>3
       DEF Card, WhatsApp, WhatsAppTest, WhatsAppEdit, Meta, MetaTest, Declared
<1>4. CASE card \in Declared
  <2>1. ASSUME NEW p, NEW edit, Opens(r, p, edit), edit = DeclaredEdit(row, p, r)
        PROVE  CardsInv'
    BY <1>0, <1>4, <2>1, DeclaredEditIs, OpensKeeps
  <2>2. ASSUME NEW activates, Saves(r, Complete(ask[r].want), activates) PROVE CardsInv'
    BY <2>2, SavesKeeps
  <2>3. ASSUME NEW complete, Probes(r, complete) \/ Named(r, TRUE) \/ Admits(r) \/ Activated(r)
        PROVE  CardsInv'
    BY <1>4, <2>3, ProbesKeeps, NamedKeeps, AdmitsKeeps, ActivatedKeeps DEF Declared
  <2> QED
    BY <1>4, <2>1, <2>2, <2>3 DEF Card, DeclaredCard, DeclaredTest, Declared
<1> QED
  BY <1>1, <1>2, <1>3, <1>4 DEF Card

LEMMA CardsNextInv ==
  ASSUME CardsInv, CardsNext
  PROVE  CardsInv'
<1>1. ASSUME NEW r \in Requests, PlatformRefuses(r) PROVE CardsInv'
  BY <1>1, OverMoves DEF PlatformRefuses
<1>2. CASE LooksForToken \/ KeepsToken \/ TokenExpires
  BY <1>2, CardsStay DEF LooksForToken, KeepsToken, TokenExpires
<1> QED
  BY <1>1, <1>2, CardKeeps, SwitchesKeeps DEF CardsNext

(***************************************************************************)
(* The connections.                                                        *)
(***************************************************************************)
\* Of the connections, only the one the supervisor knows of is not cancelled; and one of
\* IRC's that is past opening is the registered one.
ConnectionsInv ==
  /\ conn = [c \in Connections |-> conn[c]]
  /\ \A c \in Connections :
       conn[c] = [f \in {"at", "with", "off", "last"} |-> conn[c][f]]
  /\ \A c \in Connections : conn[c].at # "done" /\ ~conn[c].off => running.conn = c
  /\ card = "irc" => \A c \in Connections :
       conn[c].at \in {"open", "recovering", "serving"} /\ ~conn[c].off => session = c
  /\ alerts \in {0, 1}

LinksInv == CardsInv /\ ConnectionsInv

LEMMA GoneIs == Gone = [f \in {"at", "with", "off", "last"} |-> Gone[f]] /\ Gone.at = "done"
BY DEF Gone

\* The card stays the one it is.
LEMMA CardIsKept == CardsNext => UNCHANGED card
<1>1. ASSUME NEW r \in Requests, NEW p, NEW e, Opens(r, p, e) PROVE UNCHANGED card
  BY <1>1 DEF Opens
<1>2. ASSUME NEW r \in Requests, NEW w, NEW at, Commits(r, w, at) PROVE UNCHANGED card
  BY <1>2 DEF Commits
<1>3. ASSUME NEW r \in Requests, NEW c, NEW a,
             Saves(r, c, a) \/ Probes(r, c) \/ Named(r, c) \/ Activated(r) \/ Admits(r)
      PROVE  UNCHANGED card
  BY <1>2, <1>3 DEF Saves, Probes, Named, Activated, Admits
<1>4. ASSUME NEW r \in Requests, Card(r) PROVE UNCHANGED card
  BY <1>1, <1>3, <1>4 DEF Card, Discord, DiscordTest, Telegram, TelegramTest, Slack, SlackTest,
     Email, EmailTest, Web, WhatsApp, WhatsAppTest, Meta, MetaTest, DeclaredCard, DeclaredTest
<1> QED
  BY <1>4 DEF CardsNext, PlatformRefuses, Switches, LooksForToken, KeepsToken, TokenExpires

LinkStates == {"open", "recovering", "serving"}

\* One connection goes on: it is not revived, and is past opening only if it was.
LEMMA LinkMoves ==
  ASSUME LinksInv, NEW c \in Connections, NEW q, q = [f \in {"at", "with", "off", "last"} |-> q[f]],
         conn' = [conn EXCEPT ![c] = q], UNCHANGED <<cardVars, running, session>>, alerts' \in {0, 1},
         q.at = "done" \/ (conn[c].at # "done" /\ q.off = conn[c].off),
         q.at \in LinkStates => conn[c].at \in LinkStates
  PROVE  LinksInv'
<1>1. conn'[c] = q /\ \A d \in Connections \ {c} : conn'[d] = conn[d]
  BY DEF LinksInv, ConnectionsInv
<1>2. UNCHANGED <<card, row, copies, ask, app, crossed>>
  BY DEF cardVars
<1>3. CardsInv'
  BY <1>2, CardsStay DEF LinksInv
<1>4. ASSUME NEW d \in Connections
      PROVE  /\ (conn[d] = [f \in {"at", "with", "off", "last"} |-> conn[d][f]])'
             /\ (conn[d].at # "done" /\ ~conn[d].off => running.conn = d)'
             /\ (card = "irc" /\ conn[d].at \in LinkStates /\ ~conn[d].off => session = d)'
  <2>1. CASE d = c
    BY <1>1, <1>2, <2>1 DEF LinksInv, ConnectionsInv, LinkStates
  <2>2. CASE d # c
    BY <1>1, <1>2, <2>2 DEF LinksInv, ConnectionsInv, LinkStates
  <2> QED
    BY <2>1, <2>2
<1>5. (conn = [d \in Connections |-> conn[d]])'
  BY DEF LinksInv, ConnectionsInv
<1> QED
  BY <1>3, <1>4, <1>5 DEF LinksInv, ConnectionsInv, LinkStates

LEMMA LinkGoes ==
  ASSUME LinksInv, NEW c \in Connections, NEW at, conn[c].at # "done", Moves(c, at),
         UNCHANGED <<cardVars, running, session>>, alerts' \in {0, 1},
         at \in LinkStates => conn[c].at \in LinkStates
  PROVE  LinksInv'
<1> DEFINE q == [conn[c] EXCEPT !.at = at]
<1>1. conn' = [conn EXCEPT ![c] = q]
  BY DEF Moves
<1>2. q = [f \in {"at", "with", "off", "last"} |-> q[f]] /\ q.at = at /\ q.off = conn[c].off
  BY DEF LinksInv, ConnectionsInv
<1> HIDE DEF q
<1> QED
  BY <1>1, <1>2, LinkMoves

LEMMA LinkEnds ==
  ASSUME LinksInv, NEW c \in Connections, Ended(c), UNCHANGED <<cardVars, running, session>>,
         alerts' \in {0, 1}
  PROVE  LinksInv'
BY GoneIs, LinkMoves DEF Ended, LinkStates

\* Whatever ends is cancelled before another is started, so one at most is not.
LEMMA SupervisorKeeps ==
  ASSUME LinksInv, SupervisorActs
  PROVE  LinksInv'
<1> DEFINE ends == running.conn # 0 /\ (wanted # running.with \/ conn[running.conn].at = "done")
           stopped == IF ends THEN [conn EXCEPT ![running.conn].off = TRUE] ELSE conn
           fresh == [Gone EXCEPT !.at = "starting", !.with = wanted]
<1>1. UNCHANGED <<card, row, copies, ask, app, crossed, session, alerts>>
  BY DEF SupervisorActs, cardVars
<1>2. CardsInv'
  BY <1>1, CardsStay DEF LinksInv
<1>3. /\ stopped = [d \in Connections |-> stopped[d]]
      /\ \A d \in Connections : stopped[d] = [f \in {"at", "with", "off", "last"} |-> stopped[d][f]]
      /\ \A d \in Connections : stopped[d].at = conn[d].at
      /\ \A d \in Connections : ~stopped[d].off => ~conn[d].off
      /\ \A d \in Connections : ends /\ d = running.conn => stopped[d].off = TRUE
  <2>1. CASE ~ends
    BY <2>1 DEF LinksInv, ConnectionsInv
  <2>2. CASE ends
    <3> DEFINE one == running.conn
    <3>1. stopped = [conn EXCEPT ![one].off = TRUE]
      BY <2>2
    <3> HIDE DEF one, ends, stopped
    <3>2. stopped = [d \in Connections |-> stopped[d]]
      BY <3>1 DEF LinksInv, ConnectionsInv
    <3>3. ASSUME NEW d \in Connections
          PROVE  /\ stopped[d] = [f \in {"at", "with", "off", "last"} |-> stopped[d][f]]
                 /\ stopped[d].at = conn[d].at /\ (~stopped[d].off => ~conn[d].off)
                 /\ (d = one => stopped[d].off = TRUE)
      <4>1. CASE d = one
        <5>1. stopped[d] = [conn[d] EXCEPT !.off = TRUE]
          BY <3>1, <4>1 DEF LinksInv, ConnectionsInv
        <5> QED
          BY <5>1 DEF LinksInv, ConnectionsInv
      <4>2. CASE d # one
        BY <3>1, <4>2 DEF LinksInv, ConnectionsInv
      <4> QED
        BY <4>1, <4>2
    <3> QED
      BY <3>2, <3>3 DEF one
  <2> QED
    BY <2>1, <2>2
<1>4. \A d \in Connections : stopped[d].at # "done" /\ ~stopped[d].off =>
        ~ends /\ running.conn = d
  BY <1>3 DEF LinksInv, ConnectionsInv
<1>5. \/ /\ wanted = "no" \/ (running.conn # 0 /\ ~ends)
         /\ conn' = stopped /\ running' = IF ends THEN None ELSE running
      \/ \E c \in Connections : /\ ~(running.conn # 0 /\ ~ends)
                                /\ conn' = [stopped EXCEPT ![c] = fresh]
                                /\ running' = [conn |-> c, with |-> wanted]
  BY DEF SupervisorActs
<1>6. fresh = [f \in {"at", "with", "off", "last"} |-> fresh[f]] /\ fresh.at = "starting"
  BY DEF Gone
<1>7. \A d \in Connections : d # 0
  BY DEF Connections
<1> HIDE DEF stopped, ends, fresh
<1>8. CASE conn' = stopped /\ running' = IF ends THEN None ELSE running
  <2>1. \A d \in Connections : (conn[d].at # "done" /\ ~conn[d].off => running.conn = d)'
    BY <1>4, <1>8
  <2>2. card = "irc" => \A d \in Connections : (conn[d].at \in LinkStates /\ ~conn[d].off => session = d)'
    BY <1>1, <1>3, <1>8 DEF LinksInv, ConnectionsInv, LinkStates
  <2> QED
    BY <1>1, <1>2, <1>3, <1>8, <2>1, <2>2 DEF LinksInv, ConnectionsInv, LinkStates
<1>9. ASSUME NEW c \in Connections, ~(running.conn # 0 /\ ~ends),
             conn' = [stopped EXCEPT ![c] = fresh], running' = [conn |-> c, with |-> wanted]
      PROVE  LinksInv'
  <2>1. conn'[c] = fresh /\ \A d \in Connections \ {c} : conn'[d] = stopped[d]
    BY <1>3, <1>9
  <2>2. \A d \in Connections \ {c} : conn'[d].at = "done" \/ conn'[d].off
    BY <1>4, <1>7, <1>9, <2>1
  <2>3. \A d \in Connections : (conn[d].at # "done" /\ ~conn[d].off => running.conn = d)'
    BY <1>9, <2>2
  <2>4. \A d \in Connections : (conn[d].at \in LinkStates /\ ~conn[d].off => session = d)'
    BY <1>6, <2>1, <2>2 DEF LinkStates
  <2>5. (conn = [d \in Connections |-> conn[d]])' /\ \A d \in Connections :
          (conn[d] = [f \in {"at", "with", "off", "last"} |-> conn[d][f]])'
    BY <1>3, <1>6, <1>9, <2>1
  <2> QED
    BY <1>1, <1>2, <2>3, <2>4, <2>5 DEF LinksInv, ConnectionsInv, LinkStates
<1> QED
  BY <1>5, <1>8, <1>9

\* Who is accepted is the one that is not cancelled: no other loses its session by it.
LEMMA AcceptedKeeps ==
  ASSUME LinksInv, NEW c \in Connections, Accepted(c)
  PROVE  LinksInv'
<1> DEFINE q == [conn[c] EXCEPT !.at = "open"]
<1>1. /\ conn' = [conn EXCEPT ![c] = q] /\ session' = (IF card = "irc" THEN c ELSE session)
      /\ UNCHANGED <<card, row, copies, ask, app, crossed, running, alerts>>
      /\ conn[c].at = "opening" /\ ~conn[c].off
  BY DEF Accepted, Moves, Goes, cardVars
<1>2. CardsInv'
  BY <1>1, CardsStay DEF LinksInv
<1>3. q = [f \in {"at", "with", "off", "last"} |-> q[f]] /\ q.at = "open" /\ q.off = conn[c].off
  BY DEF LinksInv, ConnectionsInv
<1> HIDE DEF q
<1>4. conn'[c] = q /\ \A d \in Connections \ {c} : conn'[d] = conn[d]
  BY <1>1 DEF LinksInv, ConnectionsInv
<1>5. running.conn = c
  BY <1>1 DEF LinksInv, ConnectionsInv
<1>6. \A d \in Connections : (conn[d].at # "done" /\ ~conn[d].off => running.conn = d)'
  BY <1>1, <1>4, <1>5 DEF LinksInv, ConnectionsInv
<1>7. card = "irc" => \A d \in Connections :
        (conn[d].at \in LinkStates /\ ~conn[d].off => session = d)'
  BY <1>1, <1>4, <1>5 DEF LinksInv, ConnectionsInv, LinkStates
<1> QED
  BY <1>1, <1>2, <1>3, <1>4, <1>6, <1>7 DEF LinksInv, ConnectionsInv, LinkStates

\* What closes takes its own session only.
LEMMA ClosesKeeps ==
  ASSUME LinksInv, NEW c \in Connections, Closes(c)
  PROVE  LinksInv'
<1> DEFINE q == IF conn[c].last \/ conn[c].off THEN Gone ELSE [conn[c] EXCEPT !.at = "waiting"]
<1>1. /\ conn' = [conn EXCEPT ![c] = q] /\ session' = (IF session = c THEN 0 ELSE session)
      /\ UNCHANGED <<card, row, copies, ask, app, crossed, running, alerts>>
      /\ conn[c].at = "closing"
  BY DEF Closes, Ended, Moves, cardVars
<1>2. CardsInv'
  BY <1>1, CardsStay DEF LinksInv
<1>3. /\ q = [f \in {"at", "with", "off", "last"} |-> q[f]]
      /\ q.at = "done" \/ (q.at = "waiting" /\ q.off = conn[c].off)
  BY GoneIs DEF LinksInv, ConnectionsInv
<1> HIDE DEF q
<1>4. conn'[c] = q /\ \A d \in Connections \ {c} : conn'[d] = conn[d]
  BY <1>1 DEF LinksInv, ConnectionsInv
<1>5. \A d \in Connections : (conn[d].at # "done" /\ ~conn[d].off => running.conn = d)'
  BY <1>1, <1>3, <1>4 DEF LinksInv, ConnectionsInv
<1>6. card = "irc" => \A d \in Connections :
        (conn[d].at \in LinkStates /\ ~conn[d].off => session = d)'
  BY <1>1, <1>3, <1>4 DEF LinksInv, ConnectionsInv, LinkStates
<1> QED
  BY <1>1, <1>2, <1>3, <1>4, <1>5, <1>6 DEF LinksInv, ConnectionsInv, LinkStates

LEMMA LinksInitInv == LinksInit => LinksInv
<1> SUFFICES ASSUME LinksInit PROVE LinksInv
  OBVIOUS
<1>1. CardsInv
  BY CardsInitInv DEF LinksInit
<1>2. ConnectionsInv
  BY GoneIs DEF LinksInit, ConnectionsInv
<1> QED
  BY <1>1, <1>2 DEF LinksInv

LEMMA RestartKeeps ==
  ASSUME LinksInv, ProcessRestarts
  PROVE  LinksInv'
<1>1. /\ conn' = [c \in Connections |-> Gone]
      /\ UNCHANGED <<card, row, copies, app, crossed, alerts>>
      /\ ask' = [r \in Requests |-> IF ask[r].at \in {"staged", "admitted", "activating", "probing"}
                                    THEN Over("refused") ELSE ask[r]]
  BY DEF ProcessRestarts
<1>2. CardsForms'
  BY <1>1, OverAsks DEF LinksInv, CardsInv, CardsForms
<1>3. ASSUME ~crossed PROVE CardsSound'
  BY <1>1, <1>3, OverAsks DEF LinksInv, CardsInv, CardsSound, SoundAsk, Sound
<1>4. ConnectionsInv'
  BY <1>1, GoneIs DEF LinksInv, ConnectionsInv
<1> QED
  BY <1>1, <1>2, <1>3, <1>4 DEF LinksInv, CardsInv

LEMMA LinksNextInv == LinksInv /\ [LinksNext]_<<cardVars, linkVars>> => LinksInv'
<1> SUFFICES ASSUME LinksInv, [LinksNext]_<<cardVars, linkVars>> PROVE LinksInv'
  OBVIOUS
<1>0. alerts \in {0, 1} /\ Raised \in {0, 1}
  BY DEF LinksInv, ConnectionsInv, Raised
<1>1. CASE Requested
  <2>1. CardsInv' /\ UNCHANGED <<card, linkVars>>
    BY <1>1, CardsNextInv, CardIsKept DEF LinksInv, Requested
  <2> QED
    BY <2>1 DEF LinksInv, ConnectionsInv, linkVars
<1>2. ASSUME UNCHANGED <<cardVars, conn, running, session>>, alerts' \in {0, 1}
      PROVE  LinksInv'
  BY <1>2, CardsStay DEF LinksInv, ConnectionsInv, cardVars
<1>3. CASE Supervises
  BY <1>0, <1>2, <1>3, SupervisorKeeps DEF Supervises, SupervisorReads
<1>4. ASSUME NEW c \in Connections, Dials(c) PROVE LinksInv'
  BY <1>0, <1>4, LinkGoes DEF Dials, Goes, LinkStates
<1>5. ASSUME NEW c \in Connections, ReadsRow(c) PROVE LinksInv'
  <2> DEFINE q == IF Unreadable(row) THEN [conn[c] EXCEPT !.at = "dropped"]
                  ELSE IF row.active THEN [conn[c] EXCEPT !.at = "opening", !.with = row.secret]
                  ELSE Gone
  <2>1. conn' = [conn EXCEPT ![c] = q] /\ conn[c].at = "starting"
        /\ UNCHANGED <<cardVars, running, session, alerts>>
    BY <1>5 DEF ReadsRow, Goes
  <2>2. /\ q = [f \in {"at", "with", "off", "last"} |-> q[f]]
        /\ q.at = "done" \/ (q.at \in {"dropped", "opening"} /\ q.off = conn[c].off)
    <3>1. conn[c] = [f \in {"at", "with", "off", "last"} |-> conn[c][f]]
      BY DEF LinksInv, ConnectionsInv
    <3> QED
      BY <3>1, GoneIs
  <2> HIDE DEF q
  <2> QED
    BY <1>0, <2>1, <2>2, LinkMoves DEF LinkStates
<1>6. ASSUME NEW c \in Connections, ReportsOk(c) \/ TellsRecovery(c) PROVE LinksInv'
  BY <1>0, <1>6, LinkGoes DEF ReportsOk, TellsRecovery, Goes, LinkStates, Served
<1>7. ASSUME NEW c \in Connections, ReportsDown(c) \/ Alerts(c) PROVE LinksInv'
  BY <1>0, <1>7, LinkGoes DEF ReportsDown, Alerts, Goes, LinkStates, AfterDrop
<1>8. ASSUME NEW c \in Connections, TriesAgain(c) PROVE LinksInv'
  BY <1>0, <1>8, LinkGoes DEF TriesAgain, Goes, LinkStates
<1>9. ASSUME NEW c \in Connections, Cancelled(c) PROVE LinksInv'
  BY <1>0, <1>9, LinkGoes, LinkEnds DEF Cancelled, LinkStates
<1>10. ASSUME NEW c \in Connections, Breaks(c) \/ Reconnects(c) PROVE LinksInv'
  BY <1>0, <1>10, LinkGoes DEF Breaks, Reconnects, Goes, LinkStates
<1>11. ASSUME NEW c \in Connections, HearsWhileOff(c) \/ AlertFails(c) PROVE LinksInv'
  <2> DEFINE last == [conn[c] EXCEPT !.at = "closing", !.last = TRUE]
             wait == [conn[c] EXCEPT !.at = "waiting"]
  <2>1. /\ conn' = [conn EXCEPT ![c] = last] \/ conn' = [conn EXCEPT ![c] = wait]
           \/ conn' = [conn EXCEPT ![c] = Gone]
        /\ conn[c].at # "done" /\ UNCHANGED <<cardVars, running, session, alerts>>
    BY <1>11 DEF HearsWhileOff, AlertFails, Goes
  <2>2. /\ last = [f \in {"at", "with", "off", "last"} |-> last[f]] /\ last.off = conn[c].off
        /\ wait = [f \in {"at", "with", "off", "last"} |-> wait[f]] /\ wait.off = conn[c].off
        /\ last.at = "closing" /\ wait.at = "waiting"
    <3>1. conn[c] = [f \in {"at", "with", "off", "last"} |-> conn[c][f]]
      BY DEF LinksInv, ConnectionsInv
    <3> QED
      BY <3>1
  <2> HIDE DEF last, wait
  <2> QED
    BY <1>0, <2>1, <2>2, GoneIs, LinkMoves DEF LinkStates
<1>12. CASE Answers
  BY <1>2, <1>12 DEF Answers
<1>13. CASE UNCHANGED <<cardVars, linkVars>>
  BY <1>0, <1>2, <1>13 DEF linkVars
<1>14. ASSUME NEW c \in Connections, Connects(c) PROVE LinksInv'
  BY <1>4, <1>5, <1>6, <1>7, <1>8, <1>9, <1>14, AcceptedKeeps, ClosesKeeps DEF Connects
<1> QED
  BY <1>1, <1>3, <1>10, <1>11, <1>12, <1>13, <1>14, RestartKeeps DEF LinksNext

THEOREM LinksHold == LinksSpec => []LinksInv
BY LinksInitInv, LinksNextInv, PTL DEF LinksSpec

\* As long as no request commits over a change it has not seen, an active channel has what
\* it needs and its app is on, and the name shown was told for the stored credential: for
\* any number of requests, payloads and switches.
THEOREM CardHolds == LinksSpec => []CardIsConsistent
<1>1. LinksInv => CardIsConsistent
  BY DEF LinksInv, CardsInv, CardsForms, CardsSound, Sound, CardIsConsistent
<1> QED
  BY <1>1, LinksHold, PTL

\* The session an IRC channel sends through is the one that is connected: the supervisor
\* cancels before it starts, and the end of a connection removes its own session only.
THEOREM SessionIsServing == LinksSpec => []ServingIsRegistered
<1>1. LinksInv => ServingIsRegistered
  BY DEF LinksInv, ConnectionsInv, ServingIsRegistered
<1> QED
  BY <1>1, LinksHold, PTL

\* A channel that keeps going down keeps to one unanswered alert.
THEOREM AlertIsOne == LinksSpec => []OneAlert
<1>1. LinksInv => OneAlert
  BY DEF LinksInv, ConnectionsInv, OneAlert
<1> QED
  BY <1>1, LinksHold, PTL

=============================================================================
