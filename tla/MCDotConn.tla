----------------------------- MODULE MCDotConn -----------------------------
(* A small instance of DotConn for TLC. *)
EXTENDS DotConn

CONSTANTS a, b

MCQueries == {a, b}
=============================================================================
