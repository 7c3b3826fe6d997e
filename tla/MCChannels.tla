----------------------------- MODULE MCChannels -----------------------------
(* Instances of Messengers for TLC. *)
EXTENDS Messengers

MCBatches(k) == IF k \in {"discord", "slack", "mattermost", "irc", "viber", "teams"} THEN {<<1>>, <<2>>} ELSE {<<2>>, <<1, 2>>}

MCPlain  == [from |-> "customer", group |-> FALSE, named |-> FALSE, text |-> TRUE, odd |-> FALSE]
MCEvents ==
  {MCPlain,
   [MCPlain EXCEPT !.group = TRUE, !.named = TRUE],
   [MCPlain EXCEPT !.group = TRUE],
   [MCPlain EXCEPT !.from = "own"],
   [MCPlain EXCEPT !.from = "bot"],
   [MCPlain EXCEPT !.from = "bot", !.odd = TRUE],
   [MCPlain EXCEPT !.odd = TRUE],
   [MCPlain EXCEPT !.text = FALSE]}

\* The first message is plain; the second is not, where the channel has rooms of many.
MCInit == /\ MessengersInit
          /\ event[1] = MCPlain
          /\ event[2] = MCPlain => kind \in {"whatsapp", "viber", "email", "meta"}
MCVars == <<threadVars, inboxVars>>
MCSpec == MCInit /\ [][MessengersNext]_MCVars /\ MessengersFairness
=============================================================================
