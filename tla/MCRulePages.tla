---------------------------- MODULE MCRulePages ----------------------------
(* The instance of RulePages for TLC: lists in which a broader suffix, a    *)
(* keyword, an exact name, a network, a list and MATCH compete.             *)
EXTENDS RulePages, TLC

MCRule(id, kind, pat, act, prio) ==
    [id |-> id, kind |-> kind, pat |-> pat, act |-> act, prio |-> prio, on |-> TRUE, grp |-> ""]

MCPool ==
    {MCRule("e", "DOMAIN", <<"com", "x", "www">>, "exit1", 2),
     MCRule("s", "SUFFIX", <<"com">>, "direct", 1),
     MCRule("t", "SUFFIX", <<"com", "x">>, "block", 1),
     [MCRule("d", "SUFFIX", <<"com", "x">>, "direct", 0) EXCEPT !.on = FALSE],
     MCRule("k", "KEYWORD", <<"www">>, "direct", 2),
     MCRule("i", "CIDR", <<"10/8">>, "block", 1),
     MCRule("l", "LIST", <<"geosite">>, "block", 1),
     MCRule("f", "SUFFIX", <<"", "com", "x">>, "block", 0),
     MCRule("m", "MATCH", <<>>, "block", 9)}

\* Any two of them, the one of lower priority first, so that sorting has something to do;
\* ties in both orders. The disabled rule comes with other suffixes and with MATCH.
MCStarts == {l \in [1..2 -> MCPool] :
                /\ l[1] /= l[2] /\ l[1].prio >= l[2].prio
                /\ ~l[2].on => l[1].kind \in {"SUFFIX", "MATCH"}}

\* MATCH is the last rule here, and not when the rule set is expanded behind it.
MCBodies == {<<MCRule("t", "SUFFIX", <<"com", "x">>, "block", 1),
               MCRule("m", "MATCH", <<>>, "block", 3)>>}

MCExpansion == <<[MCRule("g-1", "SUFFIX", <<"com", "y">>, "exit1", 5) EXCEPT !.grp = "g"]>>

\* Names with and without a trailing dot; one that is on a list and in a network.
MCName(labels) == [name |-> labels, nets |-> {}, lists |-> {}]

MCAsked ==
    {MCName(<<"com", "x">>), MCName(<<"com", "y">>), MCName(<<"org">>),
     MCName(<<"", "com", "x", "www">>),
     [name |-> <<"com", "x", "www">>, nets |-> {<<"10/8">>}, lists |-> {<<"geosite">>}]}
=============================================================================
