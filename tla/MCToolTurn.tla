----------------------------- MODULE MCToolTurn -----------------------------
(* Instances of ToolTurn for TLC; the bounds are in the configurations. *)
EXTENDS ToolTurn
=============================================================================
