----------------------------- MODULE MCWebChat -----------------------------
(* Instances of WebChat for TLC; the bounds are in the configurations. *)
EXTENDS WebChat
=============================================================================
