--------------------------- MODULE MCTgbotManager ---------------------------
(* Small instances of TgbotManager for TLC. *)
EXTENDS TgbotManager

CONSTANTS t1, t2, a1, a2

MCTokens == {t1, t2}
MCAdmins == {a1, a2}
MCOneAdmins == {a1}
=============================================================================
