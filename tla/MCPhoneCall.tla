---------------------------- MODULE MCPhoneCall ----------------------------
(* Instances of PhoneCall for TLC; the bounds are in the configurations. *)
EXTENDS PhoneCall
=============================================================================
