---------------------------- MODULE MCListeners ----------------------------
(* The instance of Listeners for TLC: every combination of the flags with the *)
(* default addresses, every panel address with every TCP backend, and every   *)
(* UDP backend with the listeners that share its protocol.                    *)
EXTENDS Listeners

At(host, num) == [host |-> host, num |-> num]
LoopTCP == At("loop", "8444")
LoopUDP == At("loop", "8445")

Flags ==
    [tls : {"acme", "static", "none"}, cert : {TRUE}, spoof : {TRUE}, dns : {"own"},
     sni : BOOLEAN, quic : BOOLEAN, doq : BOOLEAN, doh3 : BOOLEAN,
     panel : {At("all", "443"), At("all", "other")}, backTCP : {LoopTCP}, backUDP : {LoopUDP}]

\* The panel on the port of another listener or on one interface, and a backend that
\* was stored without being looked at.
OddTCP ==
    [tls : {"acme", "static", "insecure"}, cert : {TRUE}, spoof : {TRUE}, dns : {"own"},
     sni : BOOLEAN, quic : {FALSE}, doq : {FALSE}, doh3 : {FALSE},
     panel : {At("all", "443"), At("all", "other"), At("all", "53"), At("all", "80"),
              At("all", "853"), At("all", "8444"), At("loop", "8444"), At("loop", "53"),
              At("own", "443"), At("bad", "other")},
     backTCP : {LoopTCP, At("loop", "853"), At("all", "443"), At("all", "53"), At("", "other"),
                At("loop", "invalid"), At("loop", "0")},
     backUDP : {LoopUDP}]

OddUDP ==
    [tls : {"acme"}, cert : {TRUE}, spoof : {TRUE}, dns : {"own", "all"},
     sni : {TRUE}, quic : BOOLEAN, doq : BOOLEAN, doh3 : {TRUE}, panel : {At("all", "443")},
     backTCP : {LoopTCP},
     backUDP : {LoopUDP, At("loop", "853"), At("all", "443"), At("loop", "53"), At("", "53"),
                At("loop", "invalid")}]

\* A certificate or a spoof policy that is no good.
Spoilt ==
    {[c EXCEPT !.cert = FALSE] : c \in {d \in Flags : d.tls = "static" /\ d.doq = d.doh3}}
    \cup {[c EXCEPT !.spoof = FALSE] : c \in {d \in Flags : d.tls = "acme" /\ d.doq = d.doh3}}

MCConfs == Flags \cup OddTCP \cup OddUDP \cup Spoilt
=============================================================================
