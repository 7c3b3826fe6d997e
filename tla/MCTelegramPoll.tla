--------------------------- MODULE MCTelegramPoll ---------------------------
(* Instances of TelegramPoll for TLC; the bounds are in the configurations. *)
EXTENDS TelegramPoll
=============================================================================
