----------------------------- MODULE RuleTable -----------------------------
(***************************************************************************)
(* What a rule list means for a name, three times: the table the resolver  *)
(* compiles (internal/resolver: BuildTable, classify), the lines mihomo    *)
(* gets (render: buildRuleLines) and the dry run of the panel (rules:      *)
(* DryRun). All start from the enabled rules in a stable order by          *)
(* priority. A rule is a record with id, kind, pat, act, prio, on and grp. *)
(*                                                                         *)
(* A name and a pattern are sequences of labels, the most general first; a *)
(* trailing dot is a first label that is empty. A keyword is found in a    *)
(* name when it is one of its labels. LIST stands for GEOSITE, GEOIP and   *)
(* RULE-SET. What is asked for is a record with a name, the networks its   *)
(* address is in and the lists it is on: the resolver looks at the name    *)
(* alone, mihomo (external) and the dry run at all three, where a fixture  *)
(* of the dry run says in its notes which lists it is on.                  *)
(***************************************************************************)
EXTENDS Integers, Sequences, FiniteSets

-----------------------------------------------------------------------------
(* Lists                                                                    *)

NameKinds == {"DOMAIN", "SUFFIX", "KEYWORD"}

Rule == [id : STRING, kind : NameKinds \cup {"CIDR", "LIST", "MATCH"},
         pat : Seq(STRING), act : STRING, prio : Int, on : BOOLEAN, grp : STRING]

Precedes(l, i, j) == l[i].prio < l[j].prio \/ (l[i].prio = l[j].prio /\ i < j)

\* RuleSet.Validate: the rules are well formed, ids are unique, and there is one MATCH
\* at most, the last by priority. Disabled rules count.
Validate(l) ==
    /\ l \in Seq(Rule)
    /\ \A i \in DOMAIN l : l[i].kind = "MATCH" <=> l[i].pat = <<>>
    /\ \A i, j \in DOMAIN l : l[i].id = l[j].id => i = j
    /\ \A i, j \in DOMAIN l : l[i].kind = "MATCH" /\ i /= j =>
          l[j].kind /= "MATCH" /\ Precedes(l, j, i)

Enabled(l) == {i \in DOMAIN l : l[i].on}

\* sort.SliceStable by priority, of the enabled rules
Before(l, i) == {j \in Enabled(l) : Precedes(l, j, i)}
Rank(l, i) == 1 + Cardinality(Before(l, i))
Ranked(l) ==
    [k \in 1..Cardinality(Enabled(l)) |-> l[CHOOSE i \in Enabled(l) : Rank(l, i) = k]]

First(S) == CHOOSE i \in S : \A j \in S : i <= j

\* The first of a set of ranks, if there is one.
Candidate(S) == IF S = {} THEN {} ELSE {First(S)}

\* toAction and mihomoAction: anything else names an exit.
Category(action) ==
    CASE action \in {"block", "reject"} -> "block"
      [] action = "direct" -> "direct"
      [] OTHER -> "proxy"

\* normalizeName: a trailing dot is dropped.
Normal(labels) ==
    IF labels /= <<>> /\ Head(labels) = "" THEN Tail(labels) ELSE labels

\* The names above a name, itself included.
Ancestors(name) == {SubSeq(name, 1, k) : k \in 1..Len(name)}

HasKeyword(name, pat) == \E k \in DOMAIN name : name[k] = pat[1]

-----------------------------------------------------------------------------
(* The resolver                                                             *)

\* compileRule: the first rule keeps an exact name, a suffix node. Rules of other kinds
\* are not looked at when a name is classified.
Claims(s, kind, pat) == {i \in DOMAIN s : s[i].kind = kind /\ Normal(s[i].pat) = pat}

Exact(s, name) == Candidate(Claims(s, "DOMAIN", name))

\* Mutant: the most specific suffix wins.
LongestSuffix(s, name) ==
    LET held == {q \in Ancestors(name) : Claims(s, "SUFFIX", q) /= {}}
    IN IF held = {} THEN {}
       ELSE Candidate(Claims(s, "SUFFIX", CHOOSE q \in held : \A p \in held : Len(p) <= Len(q)))

\* lookup walks down from the most general label and keeps the smallest rank. A node
\* that is missing has no descendants, so stopping there skips nothing.
Suffix(s, name) == Candidate(UNION {Candidate(Claims(s, "SUFFIX", q)) : q \in Ancestors(name)})

Keyword(s, name) ==
    Candidate({i \in DOMAIN s : s[i].kind = "KEYWORD" /\ HasKeyword(name, s[i].pat)})

Default(s) == Candidate({i \in DOMAIN s : s[i].kind = "MATCH"})

Best(s, name) == Candidate(Exact(s, name) \cup Suffix(s, name) \cup Keyword(s, name))

\* classify; a list without MATCH sends the rest to the proxy.
Classified(s, qname) ==
    LET name == Normal(qname)
    IN IF Best(s, name) /= {} THEN Category(s[First(Best(s, name))].act)
       ELSE IF Default(s) /= {} THEN Category(s[First(Default(s))].act)
       ELSE "proxy"

-----------------------------------------------------------------------------
(* mihomo and the dry run                                                   *)

\* The meaning of a line, and of ruleMatchesFixture, for what is asked for. Patterns and
\* the name are taken as they are written.
Matches(r, q) ==
    \/ r.kind = "DOMAIN" /\ r.pat = q.name
    \/ r.kind = "SUFFIX" /\ r.pat \in Ancestors(q.name)
    \/ r.kind = "KEYWORD" /\ HasKeyword(q.name, r.pat)
    \/ r.kind = "CIDR" /\ r.pat \in q.nets
    \/ r.kind = "LIST" /\ r.pat \in q.lists

Hits(s, q) == {i \in DOMAIN s : Matches(s[i], q)}

\* A connection names its host without a trailing dot.
Connection(q) == [q EXCEPT !.name = Normal(@)]

\* buildRuleLines moves MATCH behind all other lines, or adds one for the active exit.
FirstLine(s, q, activeExit) ==
    LET hits == Hits(s, Connection(q))
    IN IF hits /= {} THEN Category(s[First(hits)].act)
       ELSE IF Default(s) /= {} THEN Category(s[First(Default(s))].act)
       ELSE Category(activeExit)

\* ResolveFallthrough, for a list without MATCH: handleDryRun passes the first exit of
\* the configuration file, "" when it has none.
Fallthrough(baseExit) == IF baseExit = "" THEN "PROXY" ELSE baseExit

\* DryRun takes the first rule that matches, MATCH wherever it stands.
DryRun(s, q, baseExit) ==
    LET hits == Hits(s, q) \cup {i \in DOMAIN s : s[i].kind = "MATCH"}
    IN IF hits = {} THEN Category(Fallthrough(baseExit)) ELSE Category(s[First(hits)].act)

\* MATCH is last in the order that all three start from.
MatchLast(s) == \A i \in DOMAIN s : s[i].kind = "MATCH" => \A j \in DOMAIN s : j <= i

-----------------------------------------------------------------------------
(* Where the readings agree                                                 *)

\* No name is written with a trailing dot.
Plain(s) == \A i \in DOMAIN s : s[i].kind \in {"DOMAIN", "SUFFIX"} => Normal(s[i].pat) = s[i].pat
PlainName(q) == Normal(q.name) = q.name

\* Some rule decides. What none decides goes three ways: to the active exit in mihomo,
\* to an exit of the configuration file in the dry run, to the proxy in the resolver.
Decided(s, q) == Hits(s, q) /= {} \/ Default(s) /= {}

\* The rule that decides can be found by the name alone.
DecidedByName(s, q) ==
    /\ Decided(s, q)
    /\ Hits(s, q) /= {} => s[First(Hits(s, q))].kind \in NameKinds

\* The readings of one ranked list for what is asked for. The dry run tells what mihomo
\* does with what a rule decides, networks and lists included. The resolver does the
\* same with what a rule on names decides, whether or not rules on networks and lists
\* come later.
AgreeOn(s, q, activeExit, baseExit) ==
    /\ Decided(s, q) /\ PlainName(q) => DryRun(s, q, baseExit) = FirstLine(s, q, activeExit)
    /\ DecidedByName(s, Connection(q)) /\ Plain(s) =>
          Classified(s, q.name) = FirstLine(s, q, activeExit)

=============================================================================
