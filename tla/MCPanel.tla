------------------------------ MODULE MCPanel ------------------------------
(* The instance of Panel for TLC: two settings requests and two mtproxy     *)
(* requests may overlap.                                                    *)
EXTENDS Panel, TLC

CONSTANTS r1, r2, m1, m2

MCSymmetry == Permutations({r1, r2}) \cup Permutations({m1, m2})

MCProxyPatches ==
    {[spoof |-> TRUE], [spoof |-> FALSE], [ip |-> "v4"], [cidr |-> "ragged"],
     [spoof |-> TRUE, scope |-> "private", cidr |-> "list"], [sni |-> TRUE],
     [quic |-> TRUE, udp |-> "wrong"], [tcp |-> "wrong"], [udp |-> ""]}

MCGatePatches == {[gateOn |-> TRUE, nets |-> "far"], [gateOn |-> FALSE]}

MCFresh ==
    [spoof |-> FALSE, ip |-> "auto", scope |-> "all", cidr |-> "none", sni |-> FALSE,
     quic |-> FALSE, doh3 |-> FALSE, tcp |-> "", udp |-> "", gateOn |-> FALSE, nets |-> "default",
     ios |-> FALSE, lastPass |-> FALSE, lastErr |-> FALSE]

MCStores == {MCFresh, [MCFresh EXCEPT !.spoof = TRUE, !.sni = TRUE, !.doh3 = TRUE]}

MCQuestions ==
    {[via |-> "plain", client |-> "lan", type |-> "A"],
     [via |-> "doh", client |-> "wan", type |-> "A"],
     [via |-> "doh", client |-> "lan", type |-> "HTTPS"],
     [via |-> "doh", client |-> "lan", type |-> "AXFR"],
     [via |-> "plain", client |-> "lan", type |-> "many"]}

MCMtgUpdates ==
    {[domain |-> "d2", enabled |-> "none"], [domain |-> "none", enabled |-> "off"],
     [domain |-> "d2", enabled |-> "on"]}
=============================================================================
