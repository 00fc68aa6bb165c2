-------------------------- MODULE MCTelegramControl --------------------------
(* Model values for TelegramControl. *)
EXTENDS TelegramControl

CONSTANTS o1, o2, b1, b2, d1, c1
=============================================================================
