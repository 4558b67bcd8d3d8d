----------------------------- MODULE Settings ------------------------------
(***************************************************************************)
(* The settings that change the daemon while it runs (internal/api:        *)
(* frontdoor_proxy.go, internal_only.go, preflight.go; internal/settings)  *)
(* and what the boot makes of them (access/gate.go, spoof_runtime.go). A   *)
(* handler reads and validates under settingsMu, commits one transaction   *)
(* and then publishes the live policy; only the preflight on demand takes  *)
(* no lock. The boot should accept whatever the handlers have stored.      *)
(*                                                                         *)
(* A CIDR list is "none", "list" (it covers the LAN) or "ragged": a list   *)
(* with an empty element, which the field check of the request skips and   *)
(* the policy does not accept. A backend address is "" (the default), the  *)
(* default written out, another one that binds, or "wrong": a host:port,   *)
(* which is all the request is checked for, that cannot be bound.          *)
(***************************************************************************)
EXTENDS Integers

CONSTANTS
    ReqSlots,      \* settings requests that may be in flight
    ProxyPatches,  \* bodies of the proxy settings request
    GatePatches,   \* bodies of the internal-only request
    Faces,         \* how a boot may serve the panel: without TLS ("plain"), with TLS on a
                   \* port of its own ("tls"), or on :443 next to the forwarder ("shared")
    Stores         \* the stored settings a boot may find

VARIABLES
    stored,     \* panel_settings
    lock,       \* settingsMu: its holder, or "free"
    sreq,       \* the requests
    probe,      \* preflights on demand: the outcome that is to be persisted
    live,       \* the resolver's SpoofPolicy, NoPolicy for nil
    gate,       \* the snapshot of the access gate
    face,       \* how this boot serves the panel
    booted,     \* the layout this boot has acted on
    announced,  \* a response since the boot has said restart_required
    up,         \* the panel listens
    frontdoor,  \* the front door has been started
    lagging,    \* the boot could not make a policy and none was published since
    egress      \* the routing table yields an address

setVars == <<stored, lock, sreq, probe, live, gate, face, booted, announced, up, frontdoor, lagging,
             egress>>

NoPolicy == [ip |-> "nil", scope |-> "all", cidr |-> "none"]
Policies == [ip : {"v4", "detected"}, scope : {"all", "private"}, cidr : {"none", "list"}]
Backends == {"default", "other", "wrong"}
Layouts == [sni : BOOLEAN, quic : BOOLEAN, tcp : Backends, udp : Backends]
Gates == [on : BOOLEAN, nets : {"default", "lan", "far"}]
StoredType ==
    [spoof : BOOLEAN, ip : {"auto", "v4"}, scope : {"all", "private"},
     cidr : {"none", "list", "ragged"}, sni : BOOLEAN, quic : BOOLEAN, doh3 : BOOLEAN,
     tcp : Backends \cup {""}, udp : Backends \cup {""}, gateOn : BOOLEAN,
     nets : {"default", "lan", "far"}, ios : BOOLEAN, lastPass : BOOLEAN, lastErr : BOOLEAN]

ReqIdle == [pc |-> "idle", kind |-> "none", values |-> <<>>, policy |-> NoPolicy,
            gate |-> [on |-> FALSE, nets |-> "default"], tell |-> FALSE]

SetTypeOK ==
    /\ stored \in StoredType
    /\ lock \in ReqSlots \cup {"free"}
    /\ \A r \in ReqSlots : /\ sreq[r].pc \in {"idle", "commit", "publish"}
                           /\ sreq[r].policy \in Policies \cup {NoPolicy} /\ sreq[r].gate \in Gates
                           /\ DOMAIN sreq[r].values \subseteq DOMAIN stored
    /\ probe \in {"idle", "passed", "refused"}
    /\ live \in Policies \cup {NoPolicy} /\ gate \in Gates
    /\ face \in Faces /\ booted \in Layouts
    /\ announced \in BOOLEAN /\ up \in BOOLEAN /\ frontdoor \in BOOLEAN
    /\ lagging \in BOOLEAN /\ egress \in BOOLEAN

-----------------------------------------------------------------------------
(* What the settings mean                                                   *)

\* The settings s after the values of a request are written: the keys a body
\* does not name stay.
Merge(s, values) == [k \in DOMAIN s |-> IF k \in DOMAIN values THEN values[k] ELSE s[k]]

\* A body names some of the settings and is well-formed.
Patches(keys) == {p \in ProxyPatches \cup GatePatches :
                     DOMAIN p \subseteq keys /\ \A s \in StoredType : Merge(s, p) \in StoredType}

\* Each request names its own settings only, and a boot finds what the handlers may
\* have stored.
ASSUME SettingsAssumption ==
    /\ "free" \notin ReqSlots
    /\ ProxyPatches \subseteq Patches({"spoof", "ip", "scope", "cidr", "sni", "quic", "tcp", "udp"})
    /\ GatePatches \subseteq Patches({"gateOn", "nets"})
    /\ Faces /= {} /\ Faces \subseteq {"plain", "tls", "shared"}
    /\ Stores /= {}
    /\ Stores \subseteq {s \in StoredType : /\ s.spoof => s.cidr /= "ragged"
                                            /\ s.ios => s.lastPass}

\* The address of the policy: the setting, or the egress address when it is empty.
EffectiveIP(s) == IF s.ip = "auto" THEN (IF egress THEN "detected" ELSE "nil") ELSE s.ip

\* spoofPolicyFromSettings and applySpoofSettings accept the same settings ...
PolicyAccepted(s) == s.spoof => EffectiveIP(s) /= "nil" /\ s.cidr /= "ragged"

\* ... and make the same policy of them.
PolicyOf(s) ==
    IF s.spoof THEN [ip |-> EffectiveIP(s), scope |-> s.scope, cidr |-> s.cidr] ELSE NoPolicy

\* The backend address in force: main and readProxySettings put the default for "".
Backend(v) == IF v = "" THEN "default" ELSE v

\* What only a boot acts on: the forwarders and the backends of the panel.
Layout(s) == [sni |-> s.sni, quic |-> s.quic, tcp |-> Backend(s.tcp), udp |-> Backend(s.udp)]

\* readInternalOnly, Configure and Refresh
GateOf(s) == [on |-> s.gateOn, nets |-> s.nets]

\* Gate.Allow: loopback is always let in, and so is everybody through an open gate.
Allow(client) ==
    \/ ~gate.on \/ client = "loopback"
    \/ client = "lan" /\ gate.nets \in {"default", "lan"}
    \/ client = "wan" /\ gate.nets = "far"

-----------------------------------------------------------------------------
(* Boot                                                                     *)

\* applySpoofSettings, the boot's own reading of the settings.
BootAddress == IF stored.ip = "auto" THEN (IF egress THEN "detected" ELSE "nil") ELSE stored.ip
BootFails == stored.spoof /\ (BootAddress = "nil" \/ stored.cidr = "ragged")

\* DoH3 moves to the UDP backend when the QUIC forwarder takes its port; fd.Start
\* fails when it does not bind.
DoorBinds == ~(stored.quic /\ stored.doh3 /\ Backend(stored.udp) = "wrong")

\* The TLS listener of the panel on :443 moves to the TCP backend when the SNI
\* forwarder is on; the daemon ends when it does not bind.
PanelBinds(f) == ~(stored.sni /\ f = "shared" /\ Backend(stored.tcp) = "wrong")

\* Without TLS startFrontdoor is not called: there is no resolver (LiveResolver is
\* nil) and the panel has no DoH.
HasResolver == face /= "plain"

\* NewGate, startFrontdoor and the port layout. When the policy cannot be made the
\* front door does not start; DoH still serves.
Boot(f) ==
    /\ face' = f
    /\ gate' = GateOf(stored)
    /\ live' = IF HasResolver' /\ stored.spoof /\ ~BootFails
               THEN [ip |-> BootAddress, scope |-> stored.scope, cidr |-> stored.cidr]
               ELSE NoPolicy
    /\ lagging' = (HasResolver' /\ BootFails)
    /\ frontdoor' = (HasResolver' /\ ~BootFails /\ DoorBinds)
    /\ up' = PanelBinds(f)
    /\ booted' = Layout(stored)
    /\ announced' = FALSE

SetInit ==
    /\ stored \in Stores
    /\ lock = "free" /\ sreq = [r \in ReqSlots |-> ReqIdle] /\ probe = "idle"
    /\ egress = TRUE
    /\ face \in Faces /\ gate = GateOf(stored)
    /\ live = (IF HasResolver THEN PolicyOf(stored) ELSE NoPolicy)
    /\ booted = Layout(stored) /\ announced = FALSE
    /\ up = PanelBinds(face) /\ frontdoor = (HasResolver /\ DoorBinds) /\ lagging = FALSE

\* The daemon is killed, or has ended, and is started again, perhaps with another
\* certificate, domain or port: the settings are all it keeps.
Restarted ==
    /\ lock' = "free" /\ sreq' = [r \in ReqSlots |-> ReqIdle] /\ probe' = "idle"
    /\ \E f \in Faces : Boot(f)
    /\ UNCHANGED <<stored, egress>>

bootVars == <<face, booted, up, frontdoor>>

\* The route to the outside comes or goes.
RouteChanges ==
    /\ egress' = ~egress
    /\ UNCHANGED <<stored, lock, sreq, probe, live, gate, bootVars, announced, lagging>>

-----------------------------------------------------------------------------
(* Requests under settingsMu                                                *)

\* Mutant: the settings handlers do not exclude each other.
MayLockAny(r) == TRUE

MayLock(r) == lock = "free"

Enter(r, record) ==
    /\ up /\ sreq[r].pc = "idle"
    /\ MayLock(r)
    /\ lock' = r
    /\ sreq' = [sreq EXCEPT ![r] = record]
    /\ UNCHANGED <<stored, probe, live, gate, bootVars, announced, lagging, egress>>

\* Mutant: the fields of the request are checked, the merged settings are not.
CheckRequestOnly(patch) == "cidr" \in DOMAIN patch /\ "spoof" \in DOMAIN patch =>
                               PolicyAccepted(Merge(stored, patch))

\* The request is refused unless a policy can be made of the merged settings.
CheckMerged(patch) == PolicyAccepted(Merge(stored, patch))

\* Mutant: a new backend address is not compared.
ForwardersOnly(patch) ==
    \E k \in DOMAIN patch \cap {"sni", "quic"} : patch[k] /= Layout(stored)[k]

\* The restart is announced when the request names another value than the one that
\* is in force for something only a boot acts on.
NeedsRestart(patch) ==
    \E k \in DOMAIN patch \cap {"sni", "quic", "tcp", "udp"} : patch[k] /= Layout(stored)[k]

\* handleUpdateFrontdoorProxy up to the write
UpdateProxy(r) ==
    \E patch \in ProxyPatches :
        /\ CheckMerged(patch)
        /\ Enter(r, [ReqIdle EXCEPT !.pc = "commit", !.kind = "proxy", !.values = patch,
                                    !.policy = PolicyOf(Merge(stored, patch)),
                                    !.tell = NeedsRestart(patch)])

\* handleUpdateInternalOnly up to the write
UpdateInternalOnly(r) ==
    \E patch \in GatePatches :
        Enter(r, [ReqIdle EXCEPT !.pc = "commit", !.kind = "gate", !.values = patch,
                                 !.gate = GateOf(Merge(stored, patch))])

\* handleIOSProfileToggle: the profile is enabled by a preflight that passes, in
\* the transaction that records the pass. Without a front door none passes.
ToggleProfile(r) ==
    \E values \in {[ios |-> FALSE], [lastErr |-> TRUE]} \cup
                  (IF frontdoor THEN {[ios |-> TRUE, lastPass |-> TRUE, lastErr |-> FALSE]} ELSE {}) :
        Enter(r, [ReqIdle EXCEPT !.pc = "commit", !.kind = "ios", !.values = values])

Leave(r) ==
    /\ sreq' = [sreq EXCEPT ![r] = ReqIdle]
    /\ lock' = "free"

\* SetMany, one transaction
Commit(r) ==
    /\ sreq[r].pc = "commit"
    /\ stored' = Merge(stored, sreq[r].values)
    /\ sreq' = [sreq EXCEPT ![r].pc = "publish"]
    /\ UNCHANGED <<lock, probe, live, gate, bootVars, announced, lagging, egress>>

\* SetMany fails: the request answers with an error and nothing changes.
CommitFails(r) ==
    /\ sreq[r].pc = "commit"
    /\ Leave(r)
    /\ UNCHANGED <<stored, probe, live, gate, bootVars, announced, lagging, egress>>

\* Mutant: the restart is not announced.
AnnounceNothing(r) == announced

Announce(r) == announced \/ sreq[r].tell

\* SetSpoofPolicy, when there is a resolver, or Gate.Configure, the answer, and the
\* unlock.
PublishLive(r) ==
    /\ sreq[r].pc = "publish"
    /\ live' = IF sreq[r].kind = "proxy" /\ HasResolver THEN sreq[r].policy ELSE live
    /\ gate' = IF sreq[r].kind = "gate" THEN sreq[r].gate ELSE gate
    /\ lagging' = (lagging /\ sreq[r].kind /= "proxy")
    /\ announced' = Announce(r)
    /\ Leave(r)
    /\ UNCHANGED <<stored, probe, bootVars, egress>>

\* handleIOSPreflight: the check, and later its outcome, without the lock.
RunPreflight ==
    /\ up /\ probe = "idle"
    /\ probe' \in {"refused"} \cup (IF frontdoor THEN {"passed"} ELSE {})
    /\ UNCHANGED <<stored, lock, sreq, live, gate, bootVars, announced, lagging, egress>>

PersistPreflight ==
    /\ probe /= "idle"
    /\ stored' = [stored EXCEPT !.lastErr = (probe = "refused"),
                                !.lastPass = @ \/ probe = "passed"]
    /\ probe' = "idle"
    /\ UNCHANGED <<lock, sreq, live, gate, bootVars, announced, lagging, egress>>

-----------------------------------------------------------------------------
(* Properties                                                               *)

\* The running daemon does what is stored: when no request holds the lock, the live
\* spoof policy (where there is a resolver) and the gate are the ones a boot would
\* make of the settings, but for the detected address, which is the one of the moment.
LiveFollowsStored ==
    lock = "free" =>
        /\ gate = GateOf(stored)
        /\ HasResolver /\ ~lagging =>
              /\ (live = NoPolicy) = ~stored.spoof
              /\ stored.spoof =>
                   /\ live.scope = stored.scope /\ live.cidr = stored.cidr
                   /\ live.ip = IF stored.ip = "auto" THEN "detected" ELSE stored.ip

\* What the next boot may choke on: a route that is missing, and the backend addresses,
\* of which the handlers check the form alone. Whatever else they have stored, in any
\* order and next to each other, the panel listens and its front door starts.
BootAccepts ==
    (stored.ip = "auto" => egress) /\ stored.tcp /= "wrong" /\ stored.udp /= "wrong" =>
        ~BootFails /\ DoorBinds /\ \A f \in Faces : PanelBinds(f)

\* The forwarders that run and the backends they use are the ones that are stored, or
\* somebody was told to restart since the boot.
RestartAnnounced == lock = "free" /\ Layout(stored) /= booted => announced

\* An enabled iOS profile rests on a preflight that passed, across crashes and
\* preflights on demand.
ProfileGated == stored.ios => stored.lastPass

SettingsConsistent ==
    SetTypeOK /\ LiveFollowsStored /\ BootAccepts /\ RestartAnnounced /\ ProfileGated

=============================================================================
