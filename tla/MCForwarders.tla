---------------------------- MODULE MCForwarders ----------------------------
(* A small instance of Forwarders for TLC. *)
EXTENDS Forwarders

CONSTANTS k1, k2, i1, i2

MCKeys == {k1, k2}
MCIPs == {i1, i2}
MCIpOf == [k \in MCKeys |-> IF k = k1 THEN i1 ELSE i2]

\* First datagrams: a hello for the panel, one for a site, one split over two CRYPTO
\* frames, a bare address, and a datagram that is no Initial.
MCDatagrams ==
    {[initial |-> TRUE, whole |-> TRUE, name |-> "panel"],
     [initial |-> TRUE, whole |-> TRUE, name |-> "site"],
     [initial |-> TRUE, whole |-> FALSE, name |-> "site"],
     [initial |-> TRUE, whole |-> TRUE, name |-> "address"],
     [initial |-> FALSE, whole |-> TRUE, name |-> "site"]}

MCHellos ==
    [record : {"handshake", "other", "slow"}, message : {"clienthello", "other"},
     name : {"panel", "site", "address", "none"}]
=============================================================================
