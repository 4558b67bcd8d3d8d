----------------------------- MODULE MCSystemd -----------------------------
(* A small instance of Systemd for TLC: two configurations, one of them the *)
(* one the daemon booted with.                                              *)
EXTENDS Systemd, TLC

CONSTANTS c1, c2

MCConfigs == {c1, c2}
=============================================================================
