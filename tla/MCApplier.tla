----------------------------- MODULE MCApplier -----------------------------
(* Small instances of Applier for TLC. *)
EXTENDS Applier, TLC

CONSTANTS p, q, r1, r2, direct, hk

MCClients == {p, q}
MCOneClient == {p}
MCRuleSets == {r1, r2}
MCOneRuleSet == {r1}
MCExits == {direct, hk}

\* The callers and the rule lists are alike; the direct exit is not like the other.
MCSymmetry == Permutations(MCClients) \cup Permutations(MCRuleSets)

=============================================================================
