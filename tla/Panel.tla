------------------------------- MODULE Panel -------------------------------
(***************************************************************************)
(* The requests of the panel that change the running system without an     *)
(* apply: settings next to queries that are being answered, and the        *)
(* control of mtg.service. A request passes the access gate first. The two *)
(* families share no state but the settings mtproxy reads for its links,   *)
(* so a behaviour has one of them: the page the operator works on.         *)
(***************************************************************************)
EXTENDS Resolve, Mtproxy

CONSTANTS
    Clients,      \* where the operator's requests come from
    MaxRequests,  \* bound on settings requests and queries
    MaxCrashes    \* bound on the restarts of the daemon

ASSUME PanelAssumption == Clients \subseteq {"lan", "wan", "loopback"} /\ MaxRequests \in Nat /\ MaxCrashes \in Nat

VARIABLES
    page,      \* the page the operator has open
    requests,  \* requests so far
    crashes    \* restarts so far

vars == <<setVars, resVars, mtgVars, page, requests, crashes>>

TypeOK ==
    /\ page \in {"settings", "mtproxy"}
    /\ requests \in 0..(MaxRequests + MaxSecrets) /\ crashes \in 0..MaxCrashes

Init ==
    /\ page \in {"settings", "mtproxy"}
    /\ IF page = "settings"
       THEN /\ SetInit /\ ResInit
            /\ unit = Absent /\ loaded = Absent /\ running = Off /\ minted = 0 /\ tainted = FALSE
            /\ mreq = [m \in MtgSlots |-> MtgIdle]
       ELSE /\ SetInit /\ ResInit /\ MtgInit
            /\ table = "direct" /\ stored = (CHOOSE s \in Stores : TRUE)
            /\ face = (CHOOSE f \in Faces : TRUE)
    /\ requests = 0 /\ crashes = 0

\* internalOnlyMiddleware: a request from where the gate is closed changes nothing.
Admitted == \E client \in Clients : Allow(client)

Counted(bound) ==
    /\ requests < bound
    /\ requests' = requests + 1
    /\ UNCHANGED <<page, crashes>>

Uncounted == UNCHANGED <<page, requests, crashes>>

SettingsRequest ==
    /\ page = "settings" /\ Counted(MaxRequests) /\ Admitted
    /\ \/ \E r \in ReqSlots : UpdateProxy(r) \/ UpdateInternalOnly(r) \/ ToggleProfile(r)
       \/ RunPreflight
    /\ UNCHANGED <<resVars, mtgVars>>

SettingsStep ==
    /\ Uncounted
    /\ \/ \E r \in ReqSlots : Commit(r) \/ CommitFails(r)
       \/ PersistPreflight
    /\ UNCHANGED <<resVars, mtgVars>>

SettingsPublish ==
    /\ Uncounted
    /\ \E r \in ReqSlots : PublishLive(r)
    /\ PolicySeen
    /\ UNCHANGED <<table, publishes, query, tables, mtgVars>>

RouteStep ==
    /\ page = "settings" /\ Uncounted
    /\ RouteChanges
    /\ UNCHANGED <<resVars, mtgVars>>

Question ==
    /\ page = "settings" /\ Counted(MaxRequests)
    /\ \E q \in Questions : Ask(q)
    /\ UNCHANGED <<setVars, mtgVars>>

QueryStep ==
    /\ page = "settings" /\ Uncounted
    /\ AnswerEarly \/ Classify \/ LoadPolicy \/ AnswerProxied \/ PublishTable
    /\ UNCHANGED <<setVars, mtgVars>>

MtgRequest ==
    /\ page = "mtproxy" /\ Counted(MaxSecrets) /\ Admitted
    /\ \E m \in MtgSlots : MtgUpdate(m) \/ MtgGenerate(m)
    /\ UNCHANGED <<setVars, resVars>>

MtgSteps ==
    /\ Uncounted
    /\ \E m \in MtgSlots : MtgStep(m)
    /\ UNCHANGED <<setVars, resVars>>

\* The daemon goes down with its requests and its queries and comes back.
Crash ==
    /\ crashes < MaxCrashes
    /\ crashes' = crashes + 1
    /\ Restarted
    /\ MtgCrash
    /\ query' = NoQuery /\ tables' = {} /\ policies' = {}
    /\ UNCHANGED <<page, requests, table, publishes>>

Next ==
    \/ SettingsRequest \/ SettingsStep \/ SettingsPublish \/ RouteStep
    \/ Question \/ QueryStep \/ MtgRequest \/ MtgSteps \/ Crash

Spec == Init /\ [][Next]_vars

\* The types, and that the live settings are the stored ones.
PanelConsistent == TypeOK /\ SettingsConsistent

=============================================================================
