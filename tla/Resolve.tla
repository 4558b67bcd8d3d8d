------------------------------ MODULE Resolve ------------------------------
(***************************************************************************)
(* One query on its way through Resolver.Resolve (internal/resolver),      *)
(* called by the plain, DoT, DoQ and DoH handlers of the front door. The   *)
(* rule table is pinned once and the spoof policy is loaded once, later;   *)
(* both may be replaced while the query runs. The table is abstracted to   *)
(* the action it gives the name that is asked for.                         *)
(***************************************************************************)
EXTENDS Settings

CONSTANTS
    Questions,     \* the queries: [via, client, type]
    MaxPublishes   \* bound on the tables the Applier publishes

ASSUME ResolveAssumption ==
    /\ \A q \in Questions : q = [via |-> q.via, client |-> q.client, type |-> q.type]
    /\ MaxPublishes \in Nat

VARIABLES
    table,      \* the published rule table
    publishes,  \* tables published so far
    query,      \* the query, its pinned table, its policy and its answer
    tables,     \* the tables that were live while it ran
    policies    \* the policies that were live while it ran

resVars == <<table, publishes, query, tables, policies>>

Actions == {"block", "direct", "proxy"}
NoQuery == [pc |-> "idle", ask |-> [via |-> "doh", client |-> "none", type |-> "A"],
            action |-> "none", policy |-> NoPolicy, answer |-> "none"]

ResTypeOK ==
    /\ table \in Actions /\ publishes \in 0..MaxPublishes
    /\ tables \subseteq Actions /\ policies \subseteq Policies \cup {NoPolicy}
    /\ query.pc \in {"idle", "arrived", "proxied", "loaded", "answered"}
    /\ query.action \in Actions \cup {"none"}
    /\ query.policy \in Policies \cup {NoPolicy}

ResInit ==
    /\ table \in Actions /\ publishes = 0
    /\ query = NoQuery /\ tables = {} /\ policies = {}

\* shouldSpoof: an address record of the family of the gateway (an IPv4 address here),
\* for a client in scope. A client without an address is in no network.
ShouldSpoof(p, ask) ==
    /\ p /= NoPolicy
    /\ ask.type = "A"
    /\ p.scope = "all" \/ (p.cidr = "list" /\ ask.client = "lan")

\* A listener of the front door needs the front door; DoH is served by the panel,
\* which has it when there is a resolver.
Ask(q) ==
    /\ query.pc \in {"idle", "answered"}
    /\ up /\ IF q.via = "doh" THEN HasResolver ELSE frontdoor
    /\ query' = [NoQuery EXCEPT !.pc = "arrived", !.ask = q]
    /\ tables' = {table} /\ policies' = {live}
    /\ UNCHANGED <<table, publishes>>

Reply(a) == query' = [query EXCEPT !.pc = "answered", !.answer = a]

\* Refusals before any table is looked at, and the degraded plain listener.
AnswerEarly ==
    /\ query.pc = "arrived"
    /\ \/ query.ask.type = "AXFR" /\ Reply("refused")
       \/ query.ask.type = "many" /\ Reply("formerr")
       \/ query.ask.via = "plain" /\ Reply("servfail")
    /\ UNCHANGED <<table, publishes, tables, policies>>

Ordinary == query.ask.type \notin {"AXFR", "many"}

\* forward: the category's upstream answers, or the client gets SERVFAIL.
Forward(category) == Reply(category) \/ Reply("servfail")

\* Store.Load and classify
Classify ==
    /\ query.pc = "arrived" /\ Ordinary
    /\ CASE table = "block" -> Reply("nxdomain")
         [] table = "direct" -> Forward("direct")
         [] OTHER -> query' = [query EXCEPT !.pc = "proxied", !.action = table]
    /\ UNCHANGED <<table, publishes, tables, policies>>

\* Spoof.Load, after the classification.
LoadPolicy ==
    /\ query.pc = "proxied"
    /\ query' = [query EXCEPT !.pc = "loaded", !.policy = live]
    /\ UNCHANGED <<table, publishes, tables, policies>>

\* Mutant: the reply takes the address of the policy that is live by then.
SpoofedAgain == live.ip

Spoofed == query.policy.ip

AnswerProxied ==
    /\ query.pc = "loaded"
    /\ IF ShouldSpoof(query.policy, query.ask) THEN Reply(Spoofed) ELSE Forward("proxy")
    /\ UNCHANGED <<table, publishes, tables, policies>>

Resolving == query.pc \notin {"idle", "answered"}

\* Store.Publish by the Applier (external to this module). Before and after a query
\* it only makes another initial table.
PublishTable ==
    /\ publishes < MaxPublishes
    /\ Resolving
    /\ table' \in Actions \ {table}
    /\ publishes' = publishes + 1
    /\ tables' = tables \cup {table'}
    /\ UNCHANGED <<query, policies>>

\* A policy is published next to the query.
PolicySeen == policies' = IF Resolving THEN policies \cup {live'} ELSE policies

-----------------------------------------------------------------------------
\* What the table t and the policy p make of a question.
Prescribed(ask, t, p) ==
    CASE ask.type = "AXFR" -> {"refused"}
      [] ask.type = "many" -> {"formerr"}
      [] OTHER ->
           CASE t = "block" -> {"nxdomain"}
             [] t = "direct" -> {"direct", "servfail"}
             [] OTHER -> IF ShouldSpoof(p, ask) THEN {p.ip} ELSE {"proxy", "servfail"}

\* No torn answers: whatever is published while a query runs, its answer is the one
\* that one table and one policy prescribe, each of them live at some moment between
\* the question and the answer. In particular, once an update that turns spoofing
\* off has returned, no later question is answered with the gateway's address.
AnswerExplained ==
    /\ ResTypeOK
    /\ query.pc = "answered" =>
         \/ query.ask.via = "plain" /\ query.answer = "servfail"
         \/ \E t \in tables, p \in policies : query.answer \in Prescribed(query.ask, t, p)

=============================================================================
