----------------------------- MODULE MCBackups -----------------------------
(* One backup taken by hand while a conversation begins. *)
EXTENDS Backups

MCTakes(c) == 1
=============================================================================
