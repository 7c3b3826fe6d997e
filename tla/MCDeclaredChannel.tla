------------------------- MODULE MCDeclaredChannel -------------------------
(* Instances of DeclaredChannel for TLC; the bounds are in the configurations. *)
EXTENDS DeclaredChannel
=============================================================================
