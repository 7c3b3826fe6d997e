------------------------------ MODULE MCLinks ------------------------------
(* Instances of Links for TLC. *)
EXTENDS Links

Edit(s, f, e) == [secret |-> s, fields |-> f, enabled |-> e]

\* A channel with a connection of its own gets the edits that matter to it.
MCPayloads(k) ==
  IF k \in LinkKinds
  THEN {Edit("new", "fill", "on"), Edit("clear", "keep", "keep"), Edit("keep", "keep", "off")}
  ELSE {Nothing, Edit("keep", "keep", "on"), Edit("keep", "keep", "off"), Edit("new", "keep", "keep"),
        Edit("new", "fill", "on"), Edit("clear", "keep", "keep"), Edit("clear", "fill", "on"),
        Edit("mask", "clear", "keep")}
       \cup (IF k \in {"slack", "whatsapp", "meta"} THEN {Edit("half", "keep", "keep")} ELSE {})

MCVars == <<cardVars, linkVars>>
MCSpec == LinksInit /\ [][LinksNext]_MCVars /\ LinksFairness
=============================================================================
