----------------------------- MODULE RulePages -----------------------------
(***************************************************************************)
(* The two pages about rules: the rule sets, which the syncs refresh, and  *)
(* the editor, which applies. A sync touches no rules and an apply reads   *)
(* one state of the rule set, any of which it may find; so a behaviour has *)
(* one of the pages.                                                       *)
(***************************************************************************)
EXTENDS RuleSets, ApplyTracking

VARIABLE page  \* "rulesets" or "editor"

vars == <<rsVars, atVars, page>>

Init ==
    /\ page \in {"rulesets", "editor"}
    /\ RsInit /\ AtInit
    /\ page = "rulesets" => active = <<>>

RuleSetSteps == page = "rulesets" /\ RsNext /\ UNCHANGED <<atVars, page>>
EditorSteps == page = "editor" /\ AtNext /\ UNCHANGED <<rsVars, page>>

Next == RuleSetSteps \/ EditorSteps

Spec == Init /\ [][Next]_vars

\* The ticker ticks, and a fetch ends by the timeout of its client.
Running(p) == page = "rulesets" /\ (Begin(p) \/ Fetch(p) \/ Store(p)) /\ UNCHANGED <<atVars, page>>
Ticking == page = "rulesets" /\ Tick /\ UNCHANGED <<atVars, page>>

LiveSpec ==
    /\ Spec
    /\ WF_vars(Ticking)
    /\ \A p \in Syncs : WF_vars(Running(p))

\* The types of the rule set page, a stored tag that is the tag of the stored content, and
\* active rules whose readings agree on what they decide.
RulesConsistent == RsTypeOK /\ TagVouches /\ PlanesClassifyAlike

=============================================================================
