----------------------------- MODULE MCUpstream -----------------------------
(* Small instances of Upstream for TLC. *)
EXTENDS Upstream

CONSTANTS u1, u2

MCAddrs == {u1, u2}
=============================================================================
