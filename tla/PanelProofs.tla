---------------------------- MODULE PanelProofs ----------------------------
(***************************************************************************)
(* The requests of the panel, for every number of requests in flight,      *)
(* every set of bodies and questions and any number of restarts.  The      *)
(* properties speak of moments without a request (LiveFollowsStored,       *)
(* MtgConsistent) or of answers that were given (AnswerExplained); the     *)
(* invariants add what holds while a request or a query is under way.      *)
(***************************************************************************)
EXTENDS Panel, FiniteSetTheorems, TLAPS

(* The policy the settings call for, whatever the route at the moment. *)
PolicyFits(p, s) ==
    IF s.spoof
      THEN /\ s.cidr # "ragged"
           /\ p = [ip |-> IF s.ip = "auto" THEN "detected" ELSE s.ip,
                   scope |-> s.scope, cidr |-> s.cidr]
      ELSE p = NoPolicy

Kinds == {"none", "proxy", "gate", "ios"}
IosBodies == {[ios |-> FALSE], [lastErr |-> TRUE],
              [ios |-> TRUE, lastPass |-> TRUE, lastErr |-> FALSE]}
Bodies == ProxyPatches \cup GatePatches
          \cup IosBodies

SettingsRequests ==
    [pc : {"idle", "commit", "publish"}, kind : Kinds, values : Bodies \cup {<<>>},
     policy : Policies \cup {NoPolicy}, gate : Gates, tell : BOOLEAN]

SetTypes ==
    /\ stored \in StoredType
    /\ lock \in ReqSlots \cup {"free"}
    /\ sreq \in [ReqSlots -> SettingsRequests]
    /\ probe \in {"idle", "passed", "refused"}
    /\ live \in Policies \cup {NoPolicy} /\ gate \in Gates
    /\ face \in Faces /\ booted \in Layouts
    /\ announced \in BOOLEAN /\ up \in BOOLEAN /\ frontdoor \in BOOLEAN
    /\ lagging \in BOOLEAN /\ egress \in BOOLEAN

(* settingsMu is held by the request that is under way. *)
LockHeld == \A r \in ReqSlots : sreq[r].pc # "idle" <=> lock = r

(* The request q is of its kind, and names what that kind may change. *)
OfKind(q) ==
    /\ q.kind = "proxy" => q.values \in ProxyPatches
    /\ q.kind = "gate" => q.values \in GatePatches
    /\ q.kind = "ios" => q.values \in IosBodies
    /\ q.kind # "none"

(* What q is going to publish fits the settings s. *)
Prepared(q, s) ==
    /\ q.kind = "proxy" => PolicyFits(q.policy, s)
    /\ q.kind = "gate" => q.gate = GateOf(s)

CommitInv ==
    \A r \in ReqSlots : sreq[r].pc = "commit" =>
        /\ OfKind(sreq[r]) /\ Prepared(sreq[r], Merge(stored, sreq[r].values))
        /\ Layout(Merge(stored, sreq[r].values)) # Layout(stored) => sreq[r].tell

PublishInv ==
    \A r \in ReqSlots : sreq[r].pc = "publish" =>
        /\ OfKind(sreq[r]) /\ Prepared(sreq[r], stored)
        /\ Layout(stored) # booted => announced \/ sreq[r].tell

(* What is live is stale only between the commit and the publication of a   *)
(* request of its kind.                                                     *)
Stale(kind) == \E r \in ReqSlots : sreq[r].pc = "publish" /\ sreq[r].kind = kind

LiveInv ==
    /\ Stale("gate") \/ gate = GateOf(stored)
    /\ Stale("proxy") \/ lagging \/ ~HasResolver \/ PolicyFits(live, stored)
    /\ Layout(stored) # booted /\ ~announced => \E r \in ReqSlots : sreq[r].pc = "publish"

(* The boot can make a policy of what is stored as soon as there is a route. *)
PolicyReads == stored.spoof => stored.cidr # "ragged"

SetInv ==
    /\ SetTypes /\ LockHeld /\ CommitInv /\ PublishInv /\ LiveInv
    /\ PolicyReads /\ ProfileGated

----------------------------------------------------------------------------
Answers == {"none", "refused", "formerr", "servfail", "nxdomain", "direct", "proxy",
            "v4", "detected", "nil"}

QueryType ==
    [pc : {"idle", "arrived", "proxied", "loaded", "answered"},
     ask : Questions \cup {NoQuery.ask}, action : Actions \cup {"none"},
     policy : Policies \cup {NoPolicy}, answer : Answers]

(* A query under way has seen what is live, and holds what it has pinned. *)
QueryInv ==
    /\ query \in QueryType
    /\ Resolving => table \in tables /\ live \in policies
    /\ query.pc \in {"proxied", "loaded"} => "proxy" \in tables /\ Ordinary
    /\ query.pc = "loaded" => query.policy \in policies

ResInv == QueryInv /\ AnswerExplained

----------------------------------------------------------------------------
(* Requests of mtproxy. *)
Awaiting == {m \in MtgSlots : mreq[m].pc \in {"read", "generate"}}

(* Every secret that is or may be minted was asked for. *)
MintInv ==
    /\ page \in {"settings", "mtproxy"}
    /\ requests \in Nat /\ minted + Cardinality(Awaiting) <= requests
    /\ page = "mtproxy" => requests <= MaxSecrets
    /\ page = "settings" => minted = 0 /\ \A m \in MtgSlots : mreq[m].pc = "idle"

(* What a request carries. *)
Carries(q) ==
    /\ q.pc = "generate" => q.want \in Domains
    /\ q.pc \in {"write", "reload", "undo", "reload2", "active", "restart"} => q.target \in Secrets
    /\ q.comp => q.old \in Secrets /\ q.pc \in {"write", "reload", "undo", "reload2", "restart"}

CarryInv == \A m \in MtgSlots : Carries(mreq[m])

Undoing(q) == q.comp \/ q.pc \in {"undo", "reload2"}
Loading(q) == q.pc \in {"reload", "undo", "reload2"}
Renewing(q) == q.pc \in {"reload", "active", "restart"} \/ Undoing(q)

(* As long as no compensation has failed or met another request: one is    *)
(* undone only when it is alone; what is loaded is stale only between the  *)
(* write and the reload, and what runs only until the restart.             *)
OverlapInv ==
    ~tainted =>
        /\ \A m \in MtgSlots : Undoing(mreq[m]) => Alone(m)
        /\ loaded = unit \/ \E m \in MtgSlots : Loading(mreq[m])
        /\ Serves(running, unit) \/ \E m \in MtgSlots : Renewing(mreq[m])

(* What a request that has the host for itself has reached: the unit file   *)
(* and, while what it said before may be needed, what runs.                 *)
Ahead(q, file, process) ==
    /\ q.pc \in {"generate", "write", "undone"} => SecretOf(file) = q.old
    /\ q.pc \in {"reload", "active", "restart"} => file = q.target
    /\ q.pc \in {"reload", "active", "undo"} =>
          SecretOf(q.prev) = q.old /\ Serves(process, q.prev)
    /\ q.pc = "reload2" => SecretOf(file) = q.old /\ Serves(process, file)
    /\ q.pc \in {"toggle", "snapshot", "ok"} => SecretOf(file) = q.target

Back(q, file, process) ==
    /\ q.pc \in {"reload", "restart"} => file = q.old
    /\ q.pc \in {"write", "reload"} => q.on \/ Serves(process, q.old)

Stands(q, file, process) ==
    IF q.comp THEN Back(q, file, process) ELSE Ahead(q, file, process)

AloneInv == \A m \in MtgSlots : ~tainted /\ Alone(m) => Stands(mreq[m], unit, running)

MtgInv == MtgTypeOK /\ MintInv /\ CarryInv /\ OverlapInv /\ AloneInv

IInv == TypeOK /\ SetInv /\ ResInv /\ MtgInv

----------------------------------------------------------------------------
(* Settings: what a body makes of them. *)

Keys == {"spoof", "ip", "scope", "cidr", "sni", "quic", "doh3", "tcp", "udp", "gateOn", "nets", "ios", "lastPass", "lastErr"}

LEMMA StoredKeys ==
    ASSUME NEW s \in StoredType
    PROVE  /\ DOMAIN s = Keys
           /\ s.spoof \in BOOLEAN /\ s.ip \in {"auto", "v4"} /\ s.scope \in {"all", "private"}
           /\ s.cidr \in {"none", "list", "ragged"} /\ s.sni \in BOOLEAN
           /\ s.quic \in BOOLEAN /\ s.doh3 \in BOOLEAN
           /\ s.tcp \in Backends \cup {""} /\ s.udp \in Backends \cup {""}
           /\ s.gateOn \in BOOLEAN /\ s.nets \in {"default", "lan", "far"}
           /\ s.ios \in BOOLEAN /\ s.lastPass \in BOOLEAN /\ s.lastErr \in BOOLEAN
  BY DEF StoredType, Keys

(* The two settings agree on what the policy, the gate and the layout are    *)
(* made of.                                                                 *)
Agree(s, t) ==
    /\ s.spoof = t.spoof /\ s.ip = t.ip /\ s.scope = t.scope /\ s.cidr = t.cidr
    /\ s.sni = t.sni /\ s.quic = t.quic /\ s.doh3 = t.doh3 /\ s.tcp = t.tcp /\ s.udp = t.udp
    /\ s.gateOn = t.gateOn /\ s.nets = t.nets

LEMMA AgreeFits ==
    ASSUME NEW s, NEW t, NEW p, Agree(s, t)
    PROVE  (PolicyFits(p, s) <=> PolicyFits(p, t)) /\ GateOf(s) = GateOf(t) /\ Layout(s) = Layout(t)
  BY DEF Agree, PolicyFits, GateOf, Layout

LEMMA MergeAgrees ==
    ASSUME NEW s \in StoredType, NEW t \in StoredType, NEW p, Agree(s, t)
    PROVE  Agree(Merge(s, p), Merge(t, p))
<1>1. DOMAIN s = Keys /\ DOMAIN t = Keys
  BY StoredKeys
<1> QED BY <1>1 DEF Agree, Merge, Keys

(* A body of the proxy request leaves the gate and the profile alone. *)
LEMMA ProxyBody ==
    ASSUME NEW s \in StoredType, NEW p \in ProxyPatches
    PROVE  LET t == Merge(s, p) IN
           /\ t \in StoredType
           /\ t.gateOn = s.gateOn /\ t.nets = s.nets
           /\ t.ios = s.ios /\ t.lastPass = s.lastPass
           /\ Layout(t) # Layout(s) =>
                \E k \in DOMAIN p \cap {"sni", "quic", "tcp", "udp"} : p[k] # Layout(s)[k]
<1> DEFINE t == Merge(s, p)
<1>1. DOMAIN s = Keys
  BY StoredKeys
<1>2. /\ DOMAIN p \subseteq {"spoof", "ip", "scope", "cidr", "sni", "quic", "tcp", "udp"}
      /\ t \in StoredType
  BY SettingsAssumption DEF Patches
<1>3. t.gateOn = s.gateOn /\ t.nets = s.nets /\ t.ios = s.ios /\ t.lastPass = s.lastPass
  BY <1>1, <1>2 DEF Merge, Keys
<1>4. ASSUME \A k \in DOMAIN p \cap {"sni", "quic", "tcp", "udp"} : p[k] = Layout(s)[k]
      PROVE  Layout(t) = Layout(s)
  <2>1. \A k \in {"sni", "quic", "tcp", "udp"} :
           t[k] = s[k] \/ (t[k] = p[k] /\ p[k] = Layout(s)[k])
    BY <1>1, <1>4 DEF Merge, Keys
  <2>2. t.sni = s.sni
    BY <2>1 DEF Layout
  <2>3. t.quic = s.quic
    BY <2>1 DEF Layout
  <2>4. Backend(t.tcp) = Backend(s.tcp)
    BY <2>1 DEF Layout, Backend
  <2>5. Backend(t.udp) = Backend(s.udp)
    BY <2>1 DEF Layout, Backend
  <2> QED BY <2>2, <2>3, <2>4, <2>5 DEF Layout
<1> QED BY <1>2, <1>3, <1>4

(* A body of the internal-only request leaves the rest alone. *)
LEMMA GateBody ==
    ASSUME NEW s \in StoredType, NEW p \in GatePatches
    PROVE  LET t == Merge(s, p) IN
           /\ t \in StoredType
           /\ t.spoof = s.spoof /\ t.ip = s.ip /\ t.scope = s.scope /\ t.cidr = s.cidr
           /\ Layout(t) = Layout(s) /\ t.ios = s.ios /\ t.lastPass = s.lastPass
<1>1. DOMAIN s = Keys
  BY StoredKeys
<1>2. DOMAIN p \subseteq {"gateOn", "nets"} /\ Merge(s, p) \in StoredType
  BY SettingsAssumption DEF Patches
<1>3. /\ Merge(s, p).spoof = s.spoof /\ Merge(s, p).ip = s.ip /\ Merge(s, p).scope = s.scope
      /\ Merge(s, p).cidr = s.cidr /\ Merge(s, p).ios = s.ios
      /\ Merge(s, p).lastPass = s.lastPass
  BY <1>1, <1>2 DEF Merge, Keys
<1>4. /\ Merge(s, p).sni = s.sni /\ Merge(s, p).quic = s.quic /\ Merge(s, p).tcp = s.tcp
      /\ Merge(s, p).udp = s.udp
  BY <1>1, <1>2 DEF Merge, Keys
<1> QED BY <1>2, <1>3, <1>4 DEF Layout

LEMMA IsStored ==
    ASSUME NEW f, f = [k \in Keys |-> f[k]],
           f["spoof"] \in BOOLEAN, f["ip"] \in {"auto", "v4"}, f["scope"] \in {"all", "private"},
           f["cidr"] \in {"none", "list", "ragged"}, f["sni"] \in BOOLEAN, f["gateOn"] \in BOOLEAN,
           f["quic"] \in BOOLEAN, f["doh3"] \in BOOLEAN,
           f["tcp"] \in Backends \cup {""}, f["udp"] \in Backends \cup {""},
           f["nets"] \in {"default", "lan", "far"}, f["ios"] \in BOOLEAN,
           f["lastPass"] \in BOOLEAN, f["lastErr"] \in BOOLEAN
    PROVE  f \in StoredType
  BY DEF StoredType, Keys

(* The profile request leaves the rest alone, and enables the profile only  *)
(* with a pass.                                                             *)
LEMMA IosBody ==
    ASSUME NEW s \in StoredType, NEW p \in IosBodies
    PROVE  LET t == Merge(s, p) IN
           /\ t \in StoredType /\ Agree(t, s)
           /\ (s.ios => s.lastPass) => (t.ios => t.lastPass)
<1>1. PICK t : t = Merge(s, p)
  OBVIOUS
<1>2. t = [k \in Keys |-> IF k \in DOMAIN p THEN p[k] ELSE s[k]]
  BY <1>1, StoredKeys DEF Merge
<1>3. t = [k \in Keys |-> t[k]] /\ \A k \in Keys : t[k] = IF k \in DOMAIN p THEN p[k] ELSE s[k]
  BY <1>2
<1>4. /\ DOMAIN p \subseteq {"ios", "lastPass", "lastErr"} /\ \A k \in DOMAIN p : p[k] \in BOOLEAN
      /\ "ios" \in DOMAIN p => p["ios"] = FALSE \/ ("lastPass" \in DOMAIN p /\ p["lastPass"] = TRUE)
      /\ "lastPass" \in DOMAIN p => p["lastPass"] = TRUE
  <2>1. CASE p = [ios |-> FALSE]
    <3>1. DOMAIN p = {"ios"} /\ p["ios"] = FALSE
      BY <2>1
    <3> QED BY <3>1
  <2>2. CASE p = [lastErr |-> TRUE]
    <3>1. DOMAIN p = {"lastErr"} /\ p["lastErr"] = TRUE
      BY <2>2
    <3> QED BY <3>1
  <2>3. CASE p = [ios |-> TRUE, lastPass |-> TRUE, lastErr |-> FALSE]
    <3>1. /\ DOMAIN p = {"ios", "lastPass", "lastErr"}
          /\ p["ios"] = TRUE /\ p["lastPass"] = TRUE /\ p["lastErr"] = FALSE
      BY <2>3
    <3> QED BY <3>1
  <2> QED BY <2>1, <2>2, <2>3 DEF IosBodies
<1>5. Keys = {"spoof", "ip", "scope", "cidr", "sni", "quic", "doh3", "tcp", "udp", "gateOn", "nets",
              "ios", "lastPass", "lastErr"}
  BY DEF Keys
<1>6. /\ t["spoof"] = s["spoof"] /\ t["ip"] = s["ip"] /\ t["scope"] = s["scope"]
      /\ t["cidr"] = s["cidr"] /\ t["sni"] = s["sni"] /\ t["gateOn"] = s["gateOn"]
      /\ t["nets"] = s["nets"] /\ t["quic"] = s["quic"] /\ t["doh3"] = s["doh3"]
      /\ t["tcp"] = s["tcp"] /\ t["udp"] = s["udp"]
  BY <1>3, <1>4, <1>5
<1>7. t["ios"] \in BOOLEAN /\ t["lastPass"] \in BOOLEAN /\ t["lastErr"] \in BOOLEAN
  <2>1. s["ios"] \in BOOLEAN /\ s["lastPass"] \in BOOLEAN /\ s["lastErr"] \in BOOLEAN
    BY StoredKeys
  <2> QED BY <1>3, <1>4, <1>5, <2>1
<1>8. (s["ios"] => s["lastPass"]) => (t["ios"] => t["lastPass"])
  BY <1>3, <1>4, <1>5
<1>9. t \in StoredType
  BY <1>3, <1>6, <1>7, StoredKeys, IsStored
<1> QED BY <1>1, <1>6, <1>8, <1>9 DEF Agree

(* What a request that was accepted would publish. *)
LEMMA AcceptedFits ==
    ASSUME NEW s \in StoredType, PolicyAccepted(s), egress \in BOOLEAN
    PROVE  PolicyFits(PolicyOf(s), s) /\ PolicyOf(s) \in Policies \cup {NoPolicy}
  BY StoredKeys DEF PolicyAccepted, PolicyFits, PolicyOf, EffectiveIP, Policies

----------------------------------------------------------------------------
(* Settings: every step keeps SetInv. *)

LEMMA StoreTypes ==
    ASSUME NEW s \in Stores
    PROVE  s \in StoredType /\ (s.spoof => s.cidr # "ragged") /\ (s.ios => s.lastPass)
<1>1. s \in {u \in StoredType : (u.spoof => u.cidr # "ragged") /\ (u.ios => u.lastPass)}
  BY SettingsAssumption
<1> QED BY <1>1

LEMMA GateTypes ==
    ASSUME NEW s \in StoredType
    PROVE  GateOf(s) \in Gates
  BY StoredKeys DEF GateOf, Gates

LEMMA LayoutTypes ==
    ASSUME NEW s \in StoredType
    PROVE  Layout(s) \in Layouts
<1>1. Backend(s.tcp) \in Backends /\ Backend(s.udp) \in Backends
  BY StoredKeys DEF Backend, Backends
<1> QED BY <1>1, StoredKeys DEF Layout, Layouts

LEMMA IdleRequest == ReqIdle \in SettingsRequests /\ ReqIdle.pc = "idle"
  BY DEF ReqIdle, SettingsRequests, Kinds, NoPolicy, Gates

LEMMA SetInitInv ==
    ASSUME SetInit
    PROVE  SetInv
<1>1. stored \in StoredType /\ PolicyReads /\ ProfileGated
  BY StoreTypes DEF SetInit, PolicyReads, ProfileGated
<1>2. (~HasResolver \/ PolicyFits(live, stored)) /\ live \in Policies \cup {NoPolicy}
  <2>1. PolicyAccepted(stored)
    BY <1>1, StoredKeys DEF SetInit, PolicyAccepted, EffectiveIP, PolicyReads
  <2> QED BY <1>1, <2>1, AcceptedFits DEF SetInit
<1>3. \A r \in ReqSlots : sreq[r] = ReqIdle
  BY DEF SetInit
<1>4. SetTypes
  BY <1>1, <1>2, <1>3, GateTypes, LayoutTypes, IdleRequest DEF SetInit, SetTypes, PanelBinds, DoorBinds,
     HasResolver
<1>5. LockHeld /\ CommitInv /\ PublishInv
  BY <1>3, IdleRequest, SettingsAssumption DEF SetInit, LockHeld, CommitInv, PublishInv
<1>6. LiveInv
  BY <1>1, <1>2, <1>3 DEF SetInit, LiveInv
<1> QED BY <1>1, <1>4, <1>5, <1>6 DEF SetInv

(* Nothing is under way while the lock is free. *)
LEMMA FreeIsQuiet ==
    ASSUME SetInv, lock = "free"
    PROVE  \A r \in ReqSlots : sreq[r].pc = "idle"
  BY SettingsAssumption DEF SetInv, LockHeld

(* A request that begins is the only one. *)
LEMMA EnterKeeps ==
    ASSUME SetInv, NEW r \in ReqSlots, NEW q \in SettingsRequests, Enter(r, q),
           q.pc = "commit",
           OfKind(q), Prepared(q, Merge(stored, q.values)),
           Layout(Merge(stored, q.values)) # Layout(stored) => q.tell
    PROVE  SetInv'
<1>1. \A o \in ReqSlots : sreq[o].pc = "idle"
  BY FreeIsQuiet DEF Enter, MayLock
<1>2. /\ sreq' = [sreq EXCEPT ![r] = q] /\ lock' = r
      /\ UNCHANGED <<stored, probe, live, gate, face, booted, up, frontdoor, announced, lagging, egress>>
  BY DEF Enter, bootVars
<1>3. SetTypes'
  BY <1>2 DEF SetInv, SetTypes
<1>4. sreq'[r] = q /\ \A o \in ReqSlots : o # r => sreq'[o].pc = "idle"
  BY <1>1, <1>2 DEF SetInv, SetTypes
<1>5. LockHeld' /\ PublishInv'
  BY <1>2, <1>4 DEF LockHeld, PublishInv
<1>6. CommitInv'
  BY <1>2, <1>4 DEF CommitInv
<1>7. LiveInv'
  BY <1>1, <1>2 DEF SetInv, LiveInv, Stale, PolicyFits, GateOf, HasResolver, Layout
<1> QED BY <1>2, <1>3, <1>5, <1>6, <1>7 DEF SetInv, PolicyReads, ProfileGated

LEMMA UpdateProxyInv ==
    ASSUME SetInv, NEW r \in ReqSlots, UpdateProxy(r)
    PROVE  SetInv'
<1> PICK patch \in ProxyPatches :
        /\ CheckMerged(patch)
        /\ Enter(r, [ReqIdle EXCEPT !.pc = "commit", !.kind = "proxy", !.values = patch,
                                    !.policy = PolicyOf(Merge(stored, patch)),
                                    !.tell = NeedsRestart(patch)])
  BY DEF UpdateProxy
<1> DEFINE s == Merge(stored, patch)
<1> PICK q : q = [ReqIdle EXCEPT !.pc = "commit", !.kind = "proxy", !.values = patch,
                                 !.policy = PolicyOf(s),
                                 !.tell = NeedsRestart(patch)]
  OBVIOUS
<1>0. Enter(r, q)
  OBVIOUS
<1>1. stored \in StoredType /\ egress \in BOOLEAN /\ sreq \in [ReqSlots -> SettingsRequests]
  BY DEF SetInv, SetTypes
<1>2. s \in StoredType /\ (Layout(s) # Layout(stored) => NeedsRestart(patch))
  BY <1>1, ProxyBody DEF NeedsRestart
<1>3. PolicyFits(PolicyOf(s), s) /\ PolicyOf(s) \in Policies \cup {NoPolicy}
  BY <1>1, <1>2, AcceptedFits DEF CheckMerged
<1>4. /\ q.pc = "commit" /\ q.kind = "proxy" /\ q.values = patch /\ q.policy = PolicyOf(s)
      /\ q.tell = NeedsRestart(patch)
  BY DEF ReqIdle
<1>5. q \in SettingsRequests
  <2>1. NeedsRestart(patch) \in BOOLEAN
    BY DEF NeedsRestart
  <2> QED BY <1>3, <2>1 DEF ReqIdle, SettingsRequests, Kinds, Bodies, Gates
<1>7. OfKind(q) /\ Prepared(q, Merge(stored, q.values))
  BY <1>3, <1>4 DEF OfKind, Prepared
<1> QED BY <1>0, <1>2, <1>4, <1>5, <1>7, EnterKeeps

LEMMA UpdateInternalOnlyInv ==
    ASSUME SetInv, NEW r \in ReqSlots, UpdateInternalOnly(r)
    PROVE  SetInv'
<1> PICK patch \in GatePatches :
        Enter(r, [ReqIdle EXCEPT !.pc = "commit", !.kind = "gate", !.values = patch,
                                 !.gate = GateOf(Merge(stored, patch))])
  BY DEF UpdateInternalOnly
<1> DEFINE s == Merge(stored, patch)
<1> PICK q : q = [ReqIdle EXCEPT !.pc = "commit", !.kind = "gate", !.values = patch,
                                 !.gate = GateOf(s)]
  OBVIOUS
<1>0. Enter(r, q)
  OBVIOUS
<1>1. stored \in StoredType /\ sreq \in [ReqSlots -> SettingsRequests]
  BY DEF SetInv, SetTypes
<1>2. s \in StoredType /\ Layout(s) = Layout(stored)
  BY <1>1, GateBody
<1>4. q.pc = "commit" /\ q.kind = "gate" /\ q.values = patch /\ q.gate = GateOf(s)
  BY DEF ReqIdle
<1>5. q \in SettingsRequests
  BY <1>2, GateTypes DEF ReqIdle, SettingsRequests, Kinds, Bodies, NoPolicy
<1>7. OfKind(q) /\ Prepared(q, Merge(stored, q.values))
  BY <1>4 DEF OfKind, Prepared
<1> QED BY <1>0, <1>2, <1>4, <1>5, <1>7, EnterKeeps

LEMMA ToggleProfileInv ==
    ASSUME SetInv, NEW r \in ReqSlots, ToggleProfile(r)
    PROVE  SetInv'
<1> PICK v \in IosBodies :
        Enter(r, [ReqIdle EXCEPT !.pc = "commit", !.kind = "ios", !.values = v])
  BY DEF ToggleProfile, IosBodies
<1> PICK q : q = [ReqIdle EXCEPT !.pc = "commit", !.kind = "ios", !.values = v]
  OBVIOUS
<1>0. Enter(r, q)
  OBVIOUS
<1>1. stored \in StoredType /\ sreq \in [ReqSlots -> SettingsRequests]
  BY DEF SetInv, SetTypes
<1>2. Layout(Merge(stored, v)) = Layout(stored)
  BY <1>1, IosBody, AgreeFits
<1>4. q.pc = "commit" /\ q.kind = "ios" /\ q.values = v
  BY DEF ReqIdle
<1>5. q \in SettingsRequests
  BY DEF ReqIdle, SettingsRequests, Kinds, Bodies, NoPolicy, Gates
<1>7. OfKind(q) /\ Prepared(q, Merge(stored, q.values))
  BY <1>4 DEF OfKind, Prepared
<1> QED BY <1>0, <1>2, <1>4, <1>5, <1>7, EnterKeeps

(* The transaction: what was prepared fits what is stored now. *)
LEMMA CommitKeeps ==
    ASSUME SetInv, NEW r \in ReqSlots, Commit(r)
    PROVE  SetInv'
<1> DEFINE t == Merge(stored, sreq[r].values)
<1>1. /\ stored \in StoredType /\ sreq \in [ReqSlots -> SettingsRequests]
      /\ sreq[r] \in SettingsRequests /\ sreq[r].kind \in Kinds
      /\ sreq[r].pc = "commit" /\ OfKind(sreq[r]) /\ Prepared(sreq[r], t)
      /\ (Layout(t) # Layout(stored) => sreq[r].tell)
  BY DEF SetInv, SetTypes, CommitInv, Commit, SettingsRequests
<1>2. /\ stored' = t /\ sreq' = [sreq EXCEPT ![r].pc = "publish"]
      /\ UNCHANGED <<lock, probe, live, gate, face, booted, up, frontdoor, announced, lagging, egress>>
  BY DEF Commit, bootVars
<1>3. lock = r /\ \A o \in ReqSlots : o # r => sreq[o].pc = "idle"
  BY <1>1 DEF SetInv, LockHeld
<1>4. /\ sreq'[r] = [sreq[r] EXCEPT !.pc = "publish"]
      /\ sreq'[r].pc = "publish" /\ sreq'[r].kind = sreq[r].kind
      /\ sreq'[r].values = sreq[r].values /\ sreq'[r].policy = sreq[r].policy
      /\ sreq'[r].gate = sreq[r].gate /\ sreq'[r].tell = sreq[r].tell
      /\ sreq'[r] \in SettingsRequests
      /\ \A o \in ReqSlots : o # r => sreq'[o] = sreq[o]
  BY <1>1, <1>2 DEF SettingsRequests
<1>5. t \in StoredType
  BY <1>1, ProxyBody, GateBody, IosBody DEF OfKind, Kinds
<1>6. SetTypes'
  <2>1. sreq' \in [ReqSlots -> SettingsRequests]
    BY <1>1, <1>2, <1>4
  <2> QED BY <1>2, <1>5, <2>1 DEF SetInv, SetTypes
<1>7. LockHeld' /\ CommitInv'
  BY <1>2, <1>3, <1>4, SettingsAssumption DEF LockHeld, CommitInv
<1>8. Layout(stored) # booted => announced
  BY <1>1, <1>3 DEF SetInv, LiveInv
<1>9. PublishInv'
  <2>1. OfKind(sreq'[r]) /\ Prepared(sreq'[r], stored')
    BY <1>1, <1>2, <1>4 DEF OfKind, Prepared
  <2>2. Layout(t) # booted => announced \/ sreq[r].tell
    BY <1>1, <1>8
  <2> QED BY <1>2, <1>3, <1>4, <2>1, <2>2 DEF PublishInv
<1>10. LiveInv'
  <2>1. sreq[r].kind = "gate" => PolicyFits(live, stored) = PolicyFits(live, t)
    BY <1>1, GateBody DEF OfKind, PolicyFits
  <2>2. sreq[r].kind = "proxy" => GateOf(t) = GateOf(stored)
    BY <1>1, ProxyBody DEF OfKind, GateOf
  <2>3. sreq[r].kind = "ios" => Agree(t, stored)
    BY <1>1, IosBody DEF OfKind
  <2>4. sreq[r].kind = "ios" => GateOf(t) = GateOf(stored) /\ PolicyFits(live, stored) = PolicyFits(live, t)
    BY <2>3 DEF Agree, GateOf, PolicyFits
  <2>5. gate = GateOf(stored) /\ (lagging \/ ~HasResolver \/ PolicyFits(live, stored))
    BY <1>1, <1>3 DEF SetInv, LiveInv, Stale
  <2>6. Stale("gate")' \/ gate = GateOf(t)
    BY <1>1, <1>4, <2>2, <2>4, <2>5 DEF Stale, OfKind, Kinds
  <2>7. Stale("proxy")' \/ lagging \/ ~HasResolver \/ PolicyFits(live, t)
    BY <1>1, <1>4, <2>1, <2>4, <2>5 DEF Stale, OfKind, Kinds
  <2>8. \E o \in ReqSlots : sreq'[o].pc = "publish"
    BY <1>4
  <2> QED BY <1>2, <2>6, <2>7, <2>8 DEF LiveInv, PolicyFits, GateOf, HasResolver, Layout
<1>11. PolicyReads' /\ ProfileGated'
  <2>1. CASE sreq[r].kind = "proxy"
    BY <1>1, <1>2, <2>1, ProxyBody DEF OfKind, Prepared, PolicyFits, SetInv, PolicyReads, ProfileGated
  <2>2. CASE sreq[r].kind = "gate"
    BY <1>1, <1>2, <2>2, GateBody DEF OfKind, SetInv, PolicyReads, ProfileGated
  <2>3. CASE sreq[r].kind = "ios"
    BY <1>1, <1>2, <2>3, IosBody DEF OfKind, SetInv, PolicyReads, ProfileGated, Agree
  <2> QED BY <1>1, <2>1, <2>2, <2>3 DEF OfKind, Kinds
<1> QED BY <1>6, <1>7, <1>9, <1>10, <1>11 DEF SetInv

(* A request that ends leaves nothing under way. *)
LEMMA LeaveEffect ==
    ASSUME SetInv, NEW r \in ReqSlots, sreq[r].pc # "idle", Leave(r)
    PROVE  /\ sreq' \in [ReqSlots -> SettingsRequests] /\ lock' = "free"
           /\ \A o \in ReqSlots : sreq'[o].pc = "idle"
           /\ LockHeld'
<1>1. \A o \in ReqSlots : o # r => sreq[o].pc = "idle"
  BY DEF SetInv, LockHeld
<1>2. /\ sreq \in [ReqSlots -> SettingsRequests]
      /\ sreq' = [sreq EXCEPT ![r] = ReqIdle] /\ lock' = "free"
  BY DEF Leave, SetInv, SetTypes
<1>3. \A o \in ReqSlots : sreq'[o].pc = "idle"
  BY <1>1, <1>2, IdleRequest
<1> QED BY <1>2, <1>3, IdleRequest, SettingsAssumption DEF LockHeld

LEMMA CommitFailsInv ==
    ASSUME SetInv, NEW r \in ReqSlots, CommitFails(r)
    PROVE  SetInv'
<1>1. /\ sreq' \in [ReqSlots -> SettingsRequests] /\ lock' = "free" /\ LockHeld'
      /\ \A o \in ReqSlots : sreq'[o].pc = "idle"
  BY LeaveEffect DEF CommitFails
<1>2. UNCHANGED <<stored, probe, live, gate, face, booted, up, frontdoor, announced, lagging, egress>>
  BY DEF CommitFails, bootVars
<1>3. \A o \in ReqSlots : sreq[o].pc # "publish"
  BY DEF CommitFails, SetInv, LockHeld
<1>4. SetTypes'
  BY <1>1, <1>2 DEF SetInv, SetTypes
<1>5. CommitInv' /\ PublishInv'
  BY <1>1 DEF CommitInv, PublishInv
<1>6. LiveInv'
  BY <1>1, <1>2, <1>3 DEF SetInv, LiveInv, Stale, PolicyFits, GateOf, HasResolver, Layout
<1> QED BY <1>1, <1>2, <1>4, <1>5, <1>6 DEF SetInv, PolicyReads, ProfileGated

(* What was committed becomes live. *)
LEMMA PublishLiveInv ==
    ASSUME SetInv, NEW r \in ReqSlots, PublishLive(r)
    PROVE  SetInv'
<1>1. /\ sreq' \in [ReqSlots -> SettingsRequests] /\ lock' = "free" /\ LockHeld'
      /\ \A o \in ReqSlots : sreq'[o].pc = "idle"
  BY LeaveEffect DEF PublishLive
<1>2. /\ sreq[r].pc = "publish" /\ sreq[r] \in SettingsRequests
      /\ OfKind(sreq[r]) /\ Prepared(sreq[r], stored)
      /\ (Layout(stored) # booted => announced \/ sreq[r].tell)
  BY DEF SetInv, SetTypes, PublishInv, PublishLive
<1>3. \A o \in ReqSlots : sreq[o].pc # "idle" => o = r
  BY <1>2 DEF SetInv, LockHeld
<1>4. /\ live' = (IF sreq[r].kind = "proxy" /\ HasResolver THEN sreq[r].policy ELSE live)
      /\ gate' = (IF sreq[r].kind = "gate" THEN sreq[r].gate ELSE gate)
      /\ lagging' = (lagging /\ sreq[r].kind # "proxy")
      /\ announced' = (announced \/ sreq[r].tell)
      /\ UNCHANGED <<stored, probe, face, booted, up, frontdoor, egress>>
  BY DEF PublishLive, Announce, bootVars
<1>5. SetTypes'
  <2>1. live' \in Policies \cup {NoPolicy} /\ gate' \in Gates
    BY <1>2, <1>4 DEF SetInv, SetTypes, SettingsRequests
  <2>2. lagging' \in BOOLEAN /\ announced' \in BOOLEAN
    BY <1>2, <1>4 DEF SetInv, SetTypes, SettingsRequests
  <2> QED BY <1>1, <1>4, <2>1, <2>2 DEF SetInv, SetTypes
<1>6. CommitInv' /\ PublishInv'
  BY <1>1 DEF CommitInv, PublishInv
<1>7. LiveInv'
  <2>1. gate' = GateOf(stored)
    BY <1>2, <1>3, <1>4 DEF SetInv, LiveInv, Stale, Prepared
  <2>2. lagging' \/ ~HasResolver \/ PolicyFits(live', stored)
    <3>1. CASE sreq[r].kind = "proxy"
      BY <1>2, <1>4, <3>1 DEF Prepared
    <3>2. CASE sreq[r].kind # "proxy"
      BY <1>3, <1>4, <3>2 DEF SetInv, LiveInv, Stale
    <3> QED BY <3>1, <3>2
  <2>3. Layout(stored) # booted => announced'
    BY <1>2, <1>4
  <2> QED BY <1>4, <2>1, <2>2, <2>3 DEF LiveInv, PolicyFits, GateOf, HasResolver, Layout
<1> QED BY <1>1, <1>4, <1>5, <1>6, <1>7 DEF SetInv, PolicyReads, ProfileGated

LEMMA RunPreflightInv ==
    ASSUME SetInv, RunPreflight
    PROVE  SetInv'
<1>1. /\ probe' \in {"idle", "passed", "refused"}
      /\ UNCHANGED <<stored, lock, sreq, live, gate, face, booted, up, frontdoor, announced, lagging, egress>>
  BY DEF RunPreflight, bootVars
<1> QED BY <1>1 DEF SetInv, SetTypes, LockHeld, CommitInv, PublishInv, LiveInv, Stale,
    HasResolver, PolicyReads, ProfileGated

(* The outcome of a preflight touches nothing another request decides on. *)
LEMMA PersistPreflightInv ==
    ASSUME SetInv, PersistPreflight
    PROVE  SetInv'
<1>1. /\ stored \in StoredType
      /\ stored' = [stored EXCEPT !.lastErr = (probe = "refused"),
                                  !.lastPass = @ \/ probe = "passed"]
      /\ probe' = "idle"
      /\ UNCHANGED <<lock, sreq, live, gate, face, booted, up, frontdoor, announced, lagging, egress>>
  BY DEF SetInv, SetTypes, PersistPreflight, bootVars
<1>2. /\ Agree(stored', stored) /\ stored'.ios = stored.ios
      /\ stored'.lastPass = (stored.lastPass \/ probe = "passed")
  <2>1. DOMAIN stored = Keys
    BY <1>1, StoredKeys
  <2> QED BY <1>1, <2>1 DEF Keys, Agree
<1>3. stored' \in StoredType
  <2>1. PICK a, b : a = (probe = "refused") /\ b = (stored.lastPass \/ probe = "passed")
    OBVIOUS
  <2>2. a \in BOOLEAN /\ b \in BOOLEAN
    BY <2>1
  <2>3. stored' = [stored EXCEPT !.lastErr = a, !.lastPass = b]
    BY <1>1, <2>1
  <2> QED BY <1>1, <2>2, <2>3 DEF StoredType
<1>4. SetTypes'
  BY <1>1, <1>3 DEF SetInv, SetTypes
<1>5. LockHeld'
  BY <1>1 DEF SetInv, LockHeld
<1>6. CommitInv'
  <2> SUFFICES ASSUME NEW r \in ReqSlots, sreq[r].pc = "commit"
               PROVE  /\ OfKind(sreq[r]) /\ Prepared(sreq[r], Merge(stored', sreq[r].values))
                      /\ Layout(Merge(stored', sreq[r].values)) # Layout(stored') => sreq[r].tell
    BY <1>1 DEF CommitInv
  <2>1. /\ OfKind(sreq[r]) /\ Prepared(sreq[r], Merge(stored, sreq[r].values))
        /\ Layout(Merge(stored, sreq[r].values)) # Layout(stored) => sreq[r].tell
    BY DEF SetInv, CommitInv
  <2>2. Agree(Merge(stored', sreq[r].values), Merge(stored, sreq[r].values))
    BY <1>1, <1>2, <1>3, MergeAgrees
  <2> QED BY <1>2, <2>1, <2>2 DEF Prepared, Agree, PolicyFits, GateOf, Layout
<1>7. PublishInv'
  BY <1>1, <1>2 DEF SetInv, PublishInv, Prepared, Agree, PolicyFits, GateOf, Layout
<1>8. LiveInv'
  BY <1>1, <1>2 DEF SetInv, LiveInv, Stale, Agree, PolicyFits, GateOf, HasResolver, Layout
<1>9. PolicyReads' /\ ProfileGated'
  BY <1>1, <1>2, StoredKeys DEF SetInv, PolicyReads, ProfileGated, Agree
<1> QED BY <1>4, <1>5, <1>6, <1>7, <1>8, <1>9 DEF SetInv

(* The route decides on new requests and the next boot only. *)
LEMMA RouteChangesInv ==
    ASSUME SetInv, RouteChanges
    PROVE  SetInv'
<1>1. /\ egress' \in BOOLEAN
      /\ UNCHANGED <<stored, lock, sreq, probe, live, gate, face, booted, up, frontdoor, announced, lagging>>
  BY DEF RouteChanges, SetInv, SetTypes, bootVars
<1> QED BY <1>1 DEF SetInv, SetTypes, LockHeld, CommitInv, PublishInv, LiveInv, Stale,
    HasResolver, PolicyReads, ProfileGated

LEMMA RestartedInv ==
    ASSUME SetInv, Restarted
    PROVE  SetInv'
<1>1. stored \in StoredType /\ egress \in BOOLEAN /\ PolicyReads /\ ProfileGated
  BY DEF SetInv, SetTypes
<1>2. PICK f \in Faces :
      /\ lock' = "free" /\ sreq' = [r \in ReqSlots |-> ReqIdle] /\ probe' = "idle"
      /\ face' = f /\ gate' = GateOf(stored)
      /\ live' = (IF HasResolver' /\ stored.spoof /\ ~BootFails
                  THEN [ip |-> BootAddress, scope |-> stored.scope, cidr |-> stored.cidr]
                  ELSE NoPolicy)
      /\ lagging' = (HasResolver' /\ BootFails)
      /\ frontdoor' = (HasResolver' /\ ~BootFails /\ DoorBinds) /\ up' = PanelBinds(f)
      /\ booted' = Layout(stored) /\ announced' = FALSE
      /\ stored' = stored /\ egress' = egress
  BY DEF Restarted, Boot
<1>3. \A r \in ReqSlots : sreq'[r] = ReqIdle
  BY <1>2
<1>4. lagging' \in BOOLEAN /\ frontdoor' \in BOOLEAN /\ up' \in BOOLEAN
  BY <1>2 DEF PanelBinds
<1>5. live' \in Policies \cup {NoPolicy} /\ (lagging' \/ ~HasResolver' \/ PolicyFits(live', stored))
  <2>1. CASE HasResolver' /\ ~BootFails
    BY <1>1, <1>2, <2>1, StoredKeys DEF Policies, BootFails, BootAddress, PolicyFits
  <2>2. CASE ~HasResolver' \/ BootFails
    BY <1>2, <2>2
  <2> QED BY <2>1, <2>2
<1>6. SetTypes'
  BY <1>1, <1>2, <1>4, <1>5, GateTypes, LayoutTypes, IdleRequest DEF SetTypes
<1>7. LockHeld' /\ CommitInv' /\ PublishInv'
  BY <1>2, <1>3, IdleRequest, SettingsAssumption DEF LockHeld, CommitInv, PublishInv
<1>8. LiveInv'
  <2>1. (lagging \/ ~HasResolver \/ PolicyFits(live, stored))'
    BY <1>2, <1>5
  <2>2. (gate = GateOf(stored) /\ Layout(stored) = booted)'
    BY <1>2 DEF GateOf, Layout
  <2> QED BY <2>1, <2>2 DEF LiveInv
<1> QED BY <1>1, <1>2, <1>6, <1>7, <1>8 DEF SetInv, PolicyReads, ProfileGated

LEMMA SetStutters ==
    ASSUME SetInv, UNCHANGED setVars
    PROVE  SetInv'
  BY DEF SetInv, setVars, SetTypes, LockHeld, CommitInv, PublishInv, LiveInv, Stale,
    HasResolver, PolicyReads, ProfileGated

(* The properties of the settings follow. *)
LEMMA SetInvImplies ==
    ASSUME SetInv
    PROVE  SettingsConsistent
<1>1. SetTypeOK
  <2>1. ASSUME NEW r \in ReqSlots PROVE DOMAIN sreq[r].values \subseteq DOMAIN stored
    <3>1. DOMAIN stored = Keys /\ sreq[r].values \in Bodies \cup {<<>>}
      BY StoredKeys DEF SetInv, SetTypes, SettingsRequests
    <3>2. \A b \in ProxyPatches \cup GatePatches : DOMAIN b \subseteq Keys
      BY SettingsAssumption DEF Patches, Keys
    <3>3. \A b \in IosBodies : DOMAIN b \subseteq Keys
      BY DEF IosBodies, Keys
    <3>4. DOMAIN <<>> \subseteq Keys
      OBVIOUS
    <3> QED BY <3>1, <3>2, <3>3, <3>4 DEF Bodies
  <2> QED BY <2>1 DEF SetInv, SetTypes, SetTypeOK, SettingsRequests
<1>2. LiveFollowsStored
  <2> SUFFICES ASSUME lock = "free"
               PROVE  /\ gate = GateOf(stored)
                      /\ HasResolver /\ ~lagging =>
                           /\ (live = NoPolicy) = ~stored.spoof
                           /\ stored.spoof =>
                                /\ live.scope = stored.scope /\ live.cidr = stored.cidr
                                /\ live.ip = IF stored.ip = "auto" THEN "detected" ELSE stored.ip
    BY DEF LiveFollowsStored
  <2>1. ~Stale("gate") /\ ~Stale("proxy")
    BY FreeIsQuiet DEF Stale
  <2>2. gate = GateOf(stored) /\ (lagging \/ ~HasResolver \/ PolicyFits(live, stored))
    BY <2>1 DEF SetInv, LiveInv
  <2>3. stored \in StoredType
    BY DEF SetInv, SetTypes
  <2>4. PolicyFits(live, stored) /\ stored.spoof =>
           /\ live # NoPolicy
           /\ live.scope = stored.scope /\ live.cidr = stored.cidr
           /\ live.ip = IF stored.ip = "auto" THEN "detected" ELSE stored.ip
    <3>1. stored.ip \in {"auto", "v4"}
      BY <2>3, StoredKeys
    <3> QED BY <3>1 DEF PolicyFits, NoPolicy
  <2>5. PolicyFits(live, stored) /\ ~stored.spoof => live = NoPolicy
    BY DEF PolicyFits
  <2> QED BY <2>2, <2>3, <2>4, <2>5, StoredKeys
<1>3. RestartAnnounced
  BY FreeIsQuiet DEF RestartAnnounced, SetInv, LiveInv
<1>4. BootAccepts
  <2> SUFFICES ASSUME stored.ip = "auto" => egress, stored.tcp # "wrong", stored.udp # "wrong"
               PROVE  ~BootFails /\ DoorBinds /\ \A f \in Faces : PanelBinds(f)
    BY DEF BootAccepts
  <2>1. stored \in StoredType /\ egress \in BOOLEAN /\ (stored.spoof => stored.cidr # "ragged")
    BY DEF SetInv, SetTypes, PolicyReads
  <2>2. ~BootFails
    BY <2>1, StoredKeys DEF BootFails, BootAddress
  <2>3. Backend(stored.tcp) # "wrong" /\ Backend(stored.udp) # "wrong"
    BY DEF Backend
  <2> QED BY <2>2, <2>3 DEF DoorBinds, PanelBinds
<1> QED BY <1>1, <1>2, <1>3, <1>4 DEF SettingsConsistent, SetInv

----------------------------------------------------------------------------
(* Queries: every step keeps ResInv. *)

LEMMA IdleQuery == NoQuery \in QueryType /\ NoQuery.pc = "idle"
  BY DEF NoQuery, QueryType, Actions, Answers

LEMMA LivePolicy ==
    ASSUME SetInv
    PROVE  live \in Policies \cup {NoPolicy} /\ live.ip \in Answers
  BY DEF SetInv, SetTypes, Policies, NoPolicy, Answers

LEMMA ResInitInv ==
    ASSUME ResInit
    PROVE  ResInv
  BY IdleQuery, ResolveAssumption DEF ResInit, ResInv, QueryInv, QueryType, Resolving, AnswerExplained,
     ResTypeOK

(* A question that arrives has seen nothing but what is live. *)
LEMMA AskInv ==
    ASSUME ResInv, SetInv, NEW q \in Questions, Ask(q), UNCHANGED live
    PROVE  ResInv'
<1>1. query' = [NoQuery EXCEPT !.pc = "arrived", !.ask = q]
  BY DEF Ask
<1>2. query' \in QueryType /\ query'.pc = "arrived"
  BY <1>1, IdleQuery DEF QueryType, NoQuery
<1>3. tables' = {table} /\ policies' = {live} /\ UNCHANGED <<table, publishes, live>>
  BY DEF Ask
<1>4. ResTypeOK'
  BY <1>2, <1>3, LivePolicy DEF ResInv, AnswerExplained, ResTypeOK, QueryType
<1> QED BY <1>2, <1>3, <1>4 DEF ResInv, QueryInv, AnswerExplained, Resolving

(* An answer that the table t and the policy p prescribe is explained. *)
LEMMA ReplyInv ==
    ASSUME ResInv, NEW a \in Answers, Reply(a), UNCHANGED <<table, publishes, tables, policies, live>>,
           \/ query.ask.via = "plain" /\ a = "servfail"
           \/ \E t \in tables, p \in policies : a \in Prescribed(query.ask, t, p)
    PROVE  ResInv'
<1>1. query \in QueryType /\ query' = [query EXCEPT !.pc = "answered", !.answer = a]
  BY DEF ResInv, QueryInv, Reply
<1>2. /\ query' \in QueryType /\ query'.pc = "answered" /\ query'.answer = a
      /\ query'.ask = query.ask
  BY <1>1 DEF QueryType
<1>3. ResTypeOK'
  BY <1>2 DEF ResInv, AnswerExplained, ResTypeOK, QueryType
<1>4. QueryInv'
  BY <1>2 DEF QueryInv, Resolving
<1>5. AnswerExplained'
  BY <1>2, <1>3 DEF AnswerExplained, Prescribed, ShouldSpoof
<1> QED BY <1>4, <1>5 DEF ResInv

LEMMA AnswerEarlyInv ==
    ASSUME ResInv, AnswerEarly, UNCHANGED live
    PROVE  ResInv'
<1>1. table \in tables /\ live \in policies
  BY DEF ResInv, QueryInv, Resolving, AnswerEarly
<1>2. CASE query.ask.type = "AXFR" /\ Reply("refused")
  <2>1. "refused" \in Prescribed(query.ask, table, live) /\ "refused" \in Answers
    BY <1>2 DEF Prescribed, Answers
  <2> QED BY <1>1, <1>2, <2>1, ReplyInv DEF AnswerEarly
<1>3. CASE query.ask.type = "many" /\ Reply("formerr")
  <2>1. "formerr" \in Prescribed(query.ask, table, live) /\ "formerr" \in Answers
    BY <1>3 DEF Prescribed, Answers
  <2> QED BY <1>1, <1>3, <2>1, ReplyInv DEF AnswerEarly
<1>4. CASE query.ask.via = "plain" /\ Reply("servfail")
  BY <1>4, ReplyInv DEF AnswerEarly, Answers
<1> QED BY <1>2, <1>3, <1>4 DEF AnswerEarly

LEMMA ClassifyInv ==
    ASSUME ResInv, Classify, UNCHANGED live
    PROVE  ResInv'
<1>1. /\ table \in tables /\ live \in policies /\ table \in Actions /\ query.pc = "arrived"
      /\ query.ask.type \notin {"AXFR", "many"}
      /\ UNCHANGED <<table, publishes, tables, policies, live>>
  BY DEF ResInv, QueryInv, Resolving, AnswerExplained, ResTypeOK, Classify, Ordinary
<1>2. CASE table = "block"
  <2>1. Reply("nxdomain")
    BY <1>2 DEF Classify
  <2>2. "nxdomain" \in Prescribed(query.ask, table, live) /\ "nxdomain" \in Answers
    BY <1>1, <1>2 DEF Prescribed, Answers
  <2> QED BY <1>1, <2>1, <2>2, ReplyInv
<1>3. CASE table = "direct"
  <2>1. Reply("direct") \/ Reply("servfail")
    BY <1>3 DEF Classify, Forward
  <2>2. /\ "direct" \in Prescribed(query.ask, table, live) /\ "direct" \in Answers
        /\ "servfail" \in Prescribed(query.ask, table, live) /\ "servfail" \in Answers
    BY <1>1, <1>3 DEF Prescribed, Answers
  <2> QED BY <1>1, <2>1, <2>2, ReplyInv
<1>4. CASE table = "proxy"
  <2>1. query \in QueryType /\ query' = [query EXCEPT !.pc = "proxied", !.action = "proxy"]
    BY <1>4 DEF Classify, ResInv, QueryInv
  <2>2. query' \in QueryType /\ query'.pc = "proxied" /\ query'.ask = query.ask
    BY <2>1 DEF QueryType, Actions
  <2>3. QueryInv'
    BY <1>1, <1>4, <2>2 DEF QueryInv, Resolving, Ordinary
  <2>4. AnswerExplained'
    BY <1>1, <2>2 DEF ResInv, AnswerExplained, ResTypeOK, QueryType
  <2> QED BY <2>3, <2>4 DEF ResInv
<1> QED BY <1>1, <1>2, <1>3, <1>4 DEF Actions

LEMMA LoadPolicyInv ==
    ASSUME ResInv, SetInv, LoadPolicy, UNCHANGED live
    PROVE  ResInv'
<1>1. query \in QueryType /\ query' = [query EXCEPT !.pc = "loaded", !.policy = live]
  BY DEF ResInv, QueryInv, LoadPolicy
<1>2. /\ query' \in QueryType /\ query'.pc = "loaded" /\ query'.policy = live
      /\ query'.ask = query.ask
  BY <1>1, LivePolicy DEF QueryType
<1>3. live \in policies /\ table \in tables /\ "proxy" \in tables /\ Ordinary
  BY DEF ResInv, QueryInv, Resolving, LoadPolicy
<1>4. QueryInv'
  BY <1>2, <1>3 DEF LoadPolicy, QueryInv, Resolving, Ordinary
<1>5. AnswerExplained'
  BY <1>2 DEF LoadPolicy, ResInv, AnswerExplained, ResTypeOK, QueryType
<1> QED BY <1>4, <1>5 DEF ResInv

(* The reply is made of the policy that was loaded, not of the live one. *)
LEMMA AnswerProxiedInv ==
    ASSUME ResInv, AnswerProxied, UNCHANGED live
    PROVE  ResInv'
<1>1. /\ query.policy \in policies /\ "proxy" \in tables
      /\ query.ask.type \notin {"AXFR", "many"}
      /\ UNCHANGED <<table, publishes, tables, policies, live>>
  BY DEF ResInv, QueryInv, Ordinary, AnswerProxied
<1>2. CASE ShouldSpoof(query.policy, query.ask)
  <2>1. Reply(query.policy.ip)
    BY <1>2 DEF AnswerProxied, Spoofed
  <2>2. query.policy.ip \in Prescribed(query.ask, "proxy", query.policy)
    BY <1>1, <1>2 DEF Prescribed
  <2>3. query.policy.ip \in Answers
    BY DEF ResInv, QueryInv, QueryType, Policies, NoPolicy, Answers
  <2> QED BY <1>1, <2>1, <2>2, <2>3, ReplyInv
<1>3. CASE ~ShouldSpoof(query.policy, query.ask)
  <2>1. Reply("proxy") \/ Reply("servfail")
    BY <1>3 DEF AnswerProxied, Forward
  <2>2. /\ "proxy" \in Prescribed(query.ask, "proxy", query.policy) /\ "proxy" \in Answers
        /\ "servfail" \in Prescribed(query.ask, "proxy", query.policy) /\ "servfail" \in Answers
    BY <1>1, <1>3 DEF Prescribed, Answers
  <2> QED BY <1>1, <2>1, <2>2, ReplyInv
<1> QED BY <1>2, <1>3

LEMMA PublishTableInv ==
    ASSUME ResInv, PublishTable, UNCHANGED live
    PROVE  ResInv'
<1>1. /\ query.pc # "answered" /\ table' \in Actions /\ table' \in tables' /\ tables \subseteq tables'
      /\ UNCHANGED <<query, policies, live>>
  BY DEF PublishTable, Resolving
<1>2. publishes' \in 0..MaxPublishes /\ tables' \subseteq Actions
  BY <1>1, ResolveAssumption DEF PublishTable, ResInv, AnswerExplained, ResTypeOK
<1>3. QueryInv'
  BY <1>1 DEF ResInv, QueryInv, Resolving, Ordinary
<1> QED BY <1>1, <1>2, <1>3 DEF ResInv, AnswerExplained, ResTypeOK

(* A policy is published next to a query, or none is. *)
LEMMA PolicySeenInv ==
    ASSUME ResInv, SetInv', PolicySeen, UNCHANGED <<table, publishes, query, tables>>
    PROVE  ResInv'
<1>1. live' \in Policies \cup {NoPolicy}
  BY DEF SetInv, SetTypes
<1>2. /\ policies \subseteq policies' /\ policies' \subseteq Policies \cup {NoPolicy}
      /\ Resolving => live' \in policies'
  BY <1>1 DEF PolicySeen, ResInv, AnswerExplained, ResTypeOK
<1>3. QueryInv'
  BY <1>2 DEF ResInv, QueryInv, Resolving, Ordinary
<1>4. AnswerExplained'
  <2>1. ResTypeOK'
    BY <1>2 DEF ResInv, AnswerExplained, ResTypeOK
  <2> QED BY <1>2, <2>1 DEF ResInv, AnswerExplained
<1> QED BY <1>3, <1>4 DEF ResInv

LEMMA ResStutters ==
    ASSUME ResInv, UNCHANGED <<resVars, live>>
    PROVE  ResInv'
  BY DEF ResInv, resVars, QueryInv, Resolving, Ordinary, AnswerExplained, ResTypeOK

----------------------------------------------------------------------------
(* Requests of mtproxy: a step of one request. *)

LEMMA IdleMtg == MtgIdle \in MtgReqType /\ MtgIdle.pc = "idle" /\ ~MtgIdle.comp /\ Carries(MtgIdle)
  BY DEF MtgIdle, MtgReqType, MtgPc, Units, Carries

LEMMA SecretIsItself ==
    ASSUME NEW s \in Secrets PROVE SecretOf(s) = s /\ s \in Units
  BY DEF SecretOf, Units

LEMMA SecretTypes ==
    ASSUME NEW u \in Units
    PROVE  SecretOf(u) \in Secrets \cup {NoSecret}
  BY DEF SecretOf, Units, Secrets

LEMMA ServesItself ==
    ASSUME NEW u
    PROVE  Serves(u, u) /\ Serves(Off, u)
  BY DEF Serves

(* Requests that are over are not being undone and renew nothing. *)
LEMMA OverIsOver ==
    ASSUME NEW q, q.pc \in Over, Carries(q)
    PROVE  ~Undoing(q) /\ ~Loading(q) /\ ~Renewing(q) /\ ~q.comp
  BY DEF Over, Carries, Undoing, Loading, Renewing

(* Without another request, and before it has written or after it has       *)
(* restarted, what runs is what the file says.                              *)
LEMMA AloneIsCurrent ==
    ASSUME MtgInv, NEW m \in MtgSlots, ~tainted, Alone(m)
    PROVE  /\ ~Loading(mreq[m]) => loaded = unit
           /\ ~Renewing(mreq[m]) => Serves(running, unit)
<1>1. \A o \in MtgSlots : o # m => ~Loading(mreq[o]) /\ ~Renewing(mreq[o])
  BY OverIsOver DEF Alone, Over, MtgInv, CarryInv
<1> QED BY <1>1 DEF MtgInv, OverlapInv

(* A step of m that keeps what m carries, that is undone only alone, and    *)
(* that leaves a stale file, unit or process only to a request that will    *)
(* still see to it.                                                         *)
LEMMA MtgStepKeeps ==
    ASSUME MtgInv, NEW m \in MtgSlots, InFlight(m),
           NEW q \in MtgReqType, mreq' = [mreq EXCEPT ![m] = q],
           q.pc # "idle", q.pc \in {"read", "generate"} => mreq[m].pc = "read",
           unit' \in Units, loaded' \in Units, running' \in Units \cup {Off},
           tainted' \in BOOLEAN, tainted => tainted',
           UNCHANGED <<minted, page, requests>>,
           Carries(q),
           ~tainted' => /\ Undoing(q) => Alone(m)
                        /\ \/ loaded' = unit' \/ Loading(q)
                           \/ loaded' = loaded /\ unit' = unit /\ ~Loading(mreq[m])
                        /\ \/ Serves(running', unit') \/ Renewing(q)
                           \/ running' = running /\ unit' = unit /\ ~Renewing(mreq[m])
                           \/ running' = loaded /\ unit' = unit /\ ~Loading(mreq[m]),
           ~tainted' /\ Alone(m) => Stands(q, unit', running')
    PROVE  MtgInv'
<1>1. mreq \in [MtgSlots -> MtgReqType]
  BY DEF MtgInv, MtgTypeOK
<1>2. mreq'[m] = q /\ \A o \in MtgSlots : o # m => mreq'[o] = mreq[o]
  BY <1>1
<1>3. MtgTypeOK'
  BY <1>1 DEF MtgInv, MtgTypeOK
<1>4. CarryInv'
  BY <1>2 DEF MtgInv, CarryInv
<1>5. MintInv'
  <2>1. Awaiting' \subseteq Awaiting
    BY <1>2 DEF Awaiting
  <2>2. IsFiniteSet(Awaiting)
    BY MtproxyAssumption, FS_Subset DEF Awaiting
  <2>3. /\ Cardinality(Awaiting') <= Cardinality(Awaiting)
        /\ Cardinality(Awaiting) \in Nat /\ Cardinality(Awaiting') \in Nat
    BY <2>1, <2>2, FS_Subset, FS_CardinalityType
  <2>4. page # "settings" /\ minted \in Nat
    BY MtproxyAssumption DEF MtgInv, MintInv, InFlight, Over, MtgTypeOK
  <2> QED BY <2>3, <2>4 DEF MtgInv, MintInv
<1>6. Alone(m)' <=> Alone(m)
  BY <1>2 DEF Alone
<1>7. \A o \in MtgSlots : o # m => ~Alone(o)' /\ ~Alone(o)
  BY <1>2 DEF Alone, InFlight, Over
<1>8. OverlapInv'
  <2> SUFFICES ASSUME ~tainted'
               PROVE  /\ \A o \in MtgSlots : Undoing(mreq'[o]) => Alone(o)'
                      /\ loaded' = unit' \/ \E o \in MtgSlots : Loading(mreq'[o])
                      /\ Serves(running', unit') \/ \E o \in MtgSlots : Renewing(mreq'[o])
    BY DEF OverlapInv
  <2>1. ~tainted
    OBVIOUS
  <2>2. \A o \in MtgSlots : Undoing(mreq'[o]) => Alone(o)'
    BY <1>2, <1>6, <1>7, <2>1 DEF MtgInv, OverlapInv
  <2>3. loaded = unit \/ Loading(mreq[m]) \/ \E o \in MtgSlots : o # m /\ Loading(mreq[o])
    BY <2>1 DEF MtgInv, OverlapInv
  <2>4. loaded' = unit' \/ \E o \in MtgSlots : Loading(mreq'[o])
    BY <1>2, <2>3
  <2>5. Serves(running, unit) \/ Renewing(mreq[m]) \/ \E o \in MtgSlots : o # m /\ Renewing(mreq[o])
    BY <2>1 DEF MtgInv, OverlapInv
  <2>6. \A o \in MtgSlots : Loading(mreq[o]) => Renewing(mreq[o])
    BY DEF Loading, Renewing, Undoing
  <2>7. Serves(running', unit') \/ \E o \in MtgSlots : Renewing(mreq'[o])
    <3>1. CASE Serves(running', unit') \/ Renewing(q)
      BY <1>2, <3>1
    <3>2. CASE running' = running /\ unit' = unit /\ ~Renewing(mreq[m])
      BY <1>2, <2>5, <3>2
    <3>3. CASE running' = loaded /\ unit' = unit /\ ~Loading(mreq[m])
      <4>1. CASE loaded = unit
        BY <3>3, <4>1, ServesItself
      <4>2. CASE loaded # unit
        BY <1>2, <2>3, <2>6, <3>3, <4>2
      <4> QED BY <4>1, <4>2
    <3> QED BY <3>1, <3>2, <3>3
  <2> QED BY <2>2, <2>4, <2>7
<1>9. AloneInv'
  BY <1>2, <1>6, <1>7 DEF AloneInv
<1> QED BY <1>3, <1>4, <1>5, <1>8, <1>9 DEF MtgInv

(* Goto keeps what the request carries, or its answer. *)
Moved(q, pc) ==
    IF pc \in Over THEN [MtgIdle EXCEPT !.pc = pc, !.old = q.old, !.target = q.target]
                   ELSE [q EXCEPT !.pc = pc]

LEMMA MovedTypes ==
    ASSUME NEW q \in MtgReqType, NEW pc \in MtgPc
    PROVE  /\ Moved(q, pc) \in MtgReqType /\ Moved(q, pc).pc = pc
           /\ Moved(q, pc).old = q.old /\ Moved(q, pc).target = q.target
           /\ pc \in Over => Moved(q, pc).comp = FALSE
           /\ pc \notin Over => /\ Moved(q, pc).comp = q.comp /\ Moved(q, pc).prev = q.prev
                                /\ Moved(q, pc).on = q.on /\ Moved(q, pc).want = q.want
<1>1. CASE pc \in Over
  <2> DEFINE w == [MtgIdle EXCEPT !.pc = pc, !.old = q.old, !.target = q.target]
  <2>1. w \in MtgReqType /\ w.pc = pc /\ w.old = q.old /\ w.target = q.target
    BY IdleMtg DEF MtgReqType
  <2>2. w.comp = FALSE
    BY DEF MtgIdle
  <2> QED BY <1>1, <2>1, <2>2 DEF Moved
<1>2. CASE pc \notin Over
  BY <1>2 DEF Moved, MtgReqType
<1> QED BY <1>1, <1>2

(* The same for the stages there are. *)
LEMMA MovedOn ==
    ASSUME NEW q \in MtgReqType
    PROVE  /\ \A pc \in {"reload2", "active", "restart", "toggle", "snapshot"} :
                 /\ Moved(q, pc) \in MtgReqType /\ Moved(q, pc).pc = pc
                 /\ Moved(q, pc).old = q.old /\ Moved(q, pc).target = q.target
                 /\ Moved(q, pc).comp = q.comp /\ Moved(q, pc).prev = q.prev
           /\ \A pc \in {"failed", "undone"} :
                 /\ Moved(q, pc) \in MtgReqType /\ Moved(q, pc).pc = pc
                 /\ Moved(q, pc).old = q.old /\ Moved(q, pc).target = q.target
                 /\ Moved(q, pc).comp = FALSE
<1>1. \A pc \in {"reload2", "active", "restart", "toggle", "snapshot"} : pc \in MtgPc /\ pc \notin Over
  BY DEF MtgPc, Over
<1>2. \A pc \in {"failed", "undone"} : pc \in MtgPc /\ pc \in Over
  BY DEF MtgPc, Over
<1>3. ASSUME NEW pc \in {"reload2", "active", "restart", "toggle", "snapshot"}
      PROVE  /\ Moved(q, pc) \in MtgReqType /\ Moved(q, pc).pc = pc
             /\ Moved(q, pc).old = q.old /\ Moved(q, pc).target = q.target
             /\ Moved(q, pc).comp = q.comp /\ Moved(q, pc).prev = q.prev
  <2>1. pc \in MtgPc /\ pc \notin Over
    BY <1>1
  <2> QED BY <2>1, MovedTypes
<1>4. ASSUME NEW pc \in {"failed", "undone"}
      PROVE  /\ Moved(q, pc) \in MtgReqType /\ Moved(q, pc).pc = pc
             /\ Moved(q, pc).old = q.old /\ Moved(q, pc).target = q.target
             /\ Moved(q, pc).comp = FALSE
  <2>1. pc \in MtgPc /\ pc \in Over
    BY <1>2
  <2> QED BY <2>1, MovedTypes
<1> QED BY <1>3, <1>4

LEMMA GotoMoves ==
    ASSUME NEW m \in MtgSlots, NEW pc, Goto(m, pc)
    PROVE  mreq' = [mreq EXCEPT ![m] = Moved(mreq[m], pc)]
  BY DEF Goto, Moved

----------------------------------------------------------------------------
(* One lemma per step of a request. *)

LEMMA StepFacts ==
    ASSUME MtgInv, NEW m \in MtgSlots
    PROVE  /\ mreq[m] \in MtgReqType /\ Carries(mreq[m])
           /\ unit \in Units /\ loaded \in Units /\ running \in Units \cup {Off}
           /\ tainted \in BOOLEAN
           /\ mreq[m].prev \in Units /\ mreq[m].comp \in BOOLEAN /\ mreq[m].on \in BOOLEAN
           /\ mreq[m].old \in Secrets \cup {NoSecret}
           /\ ~tainted /\ Alone(m) => Stands(mreq[m], unit, running)
           /\ ~tainted /\ Undoing(mreq[m]) => Alone(m)
  BY DEF MtgInv, MtgTypeOK, CarryInv, AloneInv, OverlapInv, MtgReqType

(* A step that fails for good taints what follows. *)
LEMMA TaintedStep ==
    ASSUME MtgInv, NEW m \in MtgSlots, InFlight(m), Goto(m, "failed"), tainted' = TRUE,
           unit' \in Units, loaded' \in Units, running' \in Units \cup {Off},
           UNCHANGED <<minted, page, requests>>
    PROVE  MtgInv'
<1> PICK r : r = mreq[m]
  OBVIOUS
<1> PICK q : q = Moved(r, "failed")
  OBVIOUS
<1>1. r \in MtgReqType /\ mreq' = [mreq EXCEPT ![m] = q]
  BY StepFacts, GotoMoves
<1>2. q \in MtgReqType /\ q.pc = "failed" /\ q.comp = FALSE
  BY <1>1, MovedOn
<1>3. Carries(q)
  BY <1>2 DEF Carries
<1> QED BY <1>1, <1>2, <1>3, MtgStepKeeps

(* The request goes on or ends, and what it stands on is kept. *)
LEMMA MovedStep ==
    ASSUME MtgInv, NEW m \in MtgSlots, InFlight(m), NEW pc \in MtgPc \ {"idle", "read", "generate"},
           Goto(m, pc), Carries(Moved(mreq[m], pc)),
           unit' \in Units, loaded' \in Units, running' \in Units \cup {Off},
           tainted' \in BOOLEAN, tainted => tainted',
           UNCHANGED <<minted, page, requests>>,
           ~tainted' => /\ Undoing(Moved(mreq[m], pc)) => Alone(m)
                        /\ \/ loaded' = unit' \/ pc \in {"reload", "undo", "reload2"}
                           \/ loaded' = loaded /\ unit' = unit /\ ~Loading(mreq[m])
                        /\ \/ Serves(running', unit') \/ Renewing(Moved(mreq[m], pc))
                           \/ running' = running /\ unit' = unit /\ ~Renewing(mreq[m])
                           \/ running' = loaded /\ unit' = unit /\ ~Loading(mreq[m]),
           ~tainted' /\ Alone(m) => Stands(Moved(mreq[m], pc), unit', running')
    PROVE  MtgInv'
<1> PICK q : q = Moved(mreq[m], pc)
  OBVIOUS
<1>1. mreq[m] \in MtgReqType /\ mreq' = [mreq EXCEPT ![m] = q]
  BY StepFacts, GotoMoves
<1>2. q \in MtgReqType /\ q.pc = pc
  BY <1>1, MovedTypes
<1>3. Loading(q) <=> pc \in {"reload", "undo", "reload2"}
  BY <1>2 DEF Loading
<1> QED BY <1>1, <1>2, <1>3, MtgStepKeeps

LEMMA MtgReadInv ==
    ASSUME MtgInv, NEW m \in MtgSlots, MtgRead(m), UNCHANGED <<page, requests>>
    PROVE  MtgInv'
<1> PICK r : r = mreq[m]
  OBVIOUS
<1>1. /\ r \in MtgReqType /\ Carries(r) /\ r.comp \in BOOLEAN /\ r.prev \in Units
      /\ unit \in Units /\ loaded \in Units /\ running \in Units \cup {Off}
      /\ tainted \in BOOLEAN /\ r.old \in Secrets \cup {NoSecret} /\ r.on \in BOOLEAN
      /\ ~tainted /\ Alone(m) => Stands(r, unit, running)
      /\ ~tainted /\ Undoing(r) => Alone(m)
  BY StepFacts
<1> DEFINE s == SecretOf(unit)
<1> PICK pc : /\ pc \in {"generate", "toggle"} /\ (pc = "generate" => r.want # "none")
              /\ mreq' = [mreq EXCEPT ![m].old = s, ![m].target = s, ![m].pc = pc]
  BY DEF MtgRead
<1> PICK q : q = [r EXCEPT !.old = s, !.target = s, !.pc = pc]
  OBVIOUS
<1>2. mreq' = [mreq EXCEPT ![m] = q]
  BY StepFacts DEF MtgInv, MtgTypeOK, MtgReqType
<1>3. s \in Secrets \cup {NoSecret}
  BY <1>1, SecretTypes
<1>4. /\ q \in MtgReqType /\ q.pc = pc /\ q.comp = r.comp /\ q.want = r.want
      /\ q.old = s /\ q.target = s
  <2>1. pc \in MtgPc /\ r \in MtgReqType
    BY <1>1 DEF MtgPc
  <2> QED BY <1>3, <2>1 DEF MtgReqType
<1>5. r.pc = "read" /\ r.comp = FALSE /\ r.want \in Domains \cup {"none"}
  BY <1>1 DEF MtgRead, At, Carries, MtgReqType
<1>6. Carries(q) /\ Stands(q, unit, running) /\ ~Undoing(q) /\ ~Loading(r) /\ ~Renewing(r)
  BY <1>4, <1>5 DEF Carries, Stands, Ahead, Undoing, Loading, Renewing
<1>7. InFlight(m) /\ UNCHANGED <<unit, loaded, running, minted, tainted>>
  BY DEF MtgRead, At, InFlight, Over
<1> QED BY <1>1, <1>2, <1>4, <1>5, <1>6, <1>7, MtgStepKeeps

LEMMA MtgEarlyFailureInv ==
    ASSUME MtgInv, NEW m \in MtgSlots, MtgEarlyFailure(m), UNCHANGED <<page, requests>>
    PROVE  MtgInv'
<1> PICK r : r = mreq[m]
  OBVIOUS
<1>1. /\ r \in MtgReqType /\ Carries(r) /\ r.comp \in BOOLEAN /\ r.prev \in Units
      /\ unit \in Units /\ loaded \in Units /\ running \in Units \cup {Off}
      /\ tainted \in BOOLEAN /\ r.old \in Secrets \cup {NoSecret} /\ r.on \in BOOLEAN
      /\ ~tainted /\ Alone(m) => Stands(r, unit, running)
      /\ ~tainted /\ Undoing(r) => Alone(m)
  BY StepFacts
<1>0. (r.pc = "read" /\ Goto(m, "failed")) \/ (r.pc = "generate" /\ Goto(m, "undone"))
  BY DEF MtgEarlyFailure, At
<1> PICK pc : /\ (r.pc = "read" /\ pc = "failed") \/ (r.pc = "generate" /\ pc = "undone")
              /\ Goto(m, pc)
  BY <1>0
<1>7. pc \in MtgPc /\ pc \in Over
  BY DEF MtgPc, Over
<1>2. Moved(r, pc).pc = pc /\ Moved(r, pc).comp = FALSE /\ Moved(r, pc).old = r.old
  BY <1>1, <1>7, MovedTypes
<1>3. r.comp = FALSE /\ ~Loading(r) /\ ~Renewing(r)
  BY <1>1 DEF Carries, Loading, Renewing, Undoing
<1>4. Carries(Moved(r, pc)) /\ ~Undoing(Moved(r, pc))
  BY <1>2 DEF Carries, Undoing
<1>5. ~tainted /\ Alone(m) => Stands(Moved(r, pc), unit, running)
  BY <1>1, <1>2, <1>3 DEF Stands, Ahead
<1>6. InFlight(m) /\ pc \in MtgPc \ {"idle", "read", "generate"}
      /\ UNCHANGED <<unit, loaded, running, minted, tainted>>
  BY DEF MtgEarlyFailure, InFlight, Over, MtgPc
<1> QED BY <1>1, <1>3, <1>4, <1>5, <1>6, MovedStep

LEMMA WriteFileInv ==
    ASSUME MtgInv, NEW m \in MtgSlots, WriteFile(m), UNCHANGED <<page, requests>>
    PROVE  MtgInv'
<1> PICK r : r = mreq[m]
  OBVIOUS
<1>1. /\ r \in MtgReqType /\ Carries(r) /\ r.comp \in BOOLEAN /\ r.prev \in Units
      /\ unit \in Units /\ loaded \in Units /\ running \in Units \cup {Off}
      /\ tainted \in BOOLEAN /\ r.old \in Secrets \cup {NoSecret} /\ r.on \in BOOLEAN
      /\ ~tainted /\ Alone(m) => Stands(r, unit, running)
      /\ ~tainted /\ Undoing(r) => Alone(m)
  BY StepFacts
<1> PICK q : q = [r EXCEPT !.prev = unit, !.pc = "reload"]
  OBVIOUS
<1>2. r.pc = "write" /\ mreq' = [mreq EXCEPT ![m] = q]
  BY StepFacts DEF WriteFile, At, MtgInv, MtgTypeOK, MtgReqType
<1>3. /\ q \in MtgReqType /\ q.pc = "reload" /\ q.prev = unit /\ q.comp = r.comp
      /\ q.target = r.target /\ q.old = r.old /\ q.on = r.on
  BY <1>1 DEF MtgReqType, MtgPc
<1>4. /\ unit' = (IF r.comp THEN r.old ELSE r.target)
      /\ UNCHANGED <<loaded, running, minted, tainted>>
  BY DEF WriteFile, Aim
<1>5. Carries(q) /\ unit' \in Secrets /\ unit' \in Units /\ Loading(q) /\ Renewing(q)
  BY <1>1, <1>2, <1>3, <1>4 DEF Carries, Loading, Renewing, Units
<1>6. ~tainted /\ Undoing(q) => Alone(m)
  BY <1>1, <1>3 DEF Undoing
<1>7. ASSUME ~tainted, Alone(m) PROVE Stands(q, unit', running)
  <2>1. CASE r.comp = TRUE
    BY <1>1, <1>2, <1>3, <1>4, <1>7, <2>1 DEF Stands, Back
  <2>2. CASE r.comp = FALSE
    <3>1. ~Renewing(r)
      BY <1>2, <2>2 DEF Renewing, Undoing
    <3>2. Serves(running, unit)
      BY <1>7, <3>1, AloneIsCurrent
    <3> QED BY <1>1, <1>2, <1>3, <1>4, <1>7, <2>2, <3>2 DEF Stands, Ahead
  <2> QED BY <1>1, <2>1, <2>2
<1>8. InFlight(m)
  BY <1>2 DEF InFlight, Over
<1> QED BY <1>1, <1>2, <1>3, <1>4, <1>5, <1>6, <1>7, <1>8, MtgStepKeeps

LEMMA WriteFailsInv ==
    ASSUME MtgInv, NEW m \in MtgSlots, WriteFails(m), UNCHANGED <<page, requests>>
    PROVE  MtgInv'
<1> PICK r : r = mreq[m]
  OBVIOUS
<1>1. /\ r \in MtgReqType /\ Carries(r) /\ r.comp \in BOOLEAN /\ r.prev \in Units
      /\ unit \in Units /\ loaded \in Units /\ running \in Units \cup {Off}
      /\ tainted \in BOOLEAN /\ r.old \in Secrets \cup {NoSecret} /\ r.on \in BOOLEAN
      /\ ~tainted /\ Alone(m) => Stands(r, unit, running)
      /\ ~tainted /\ Undoing(r) => Alone(m)
  BY StepFacts
<1>2. r.pc = "write" /\ InFlight(m) /\ UNCHANGED <<unit, loaded, running, minted>>
  BY DEF WriteFails, At, InFlight, Over
<1>3. CASE r.comp = TRUE
  BY <1>1, <1>2, <1>3, TaintedStep DEF WriteFails
<1>4. CASE r.comp = FALSE
  <2>1. Goto(m, "undone") /\ UNCHANGED tainted
    BY <1>4 DEF WriteFails
  <2>2. /\ Moved(r, "undone").pc = "undone" /\ Moved(r, "undone").comp = FALSE
        /\ Moved(r, "undone").old = r.old
    BY <1>1, MovedOn
  <2>3. Carries(Moved(r, "undone")) /\ ~Undoing(Moved(r, "undone")) /\ ~Loading(r) /\ ~Renewing(r)
    BY <1>2, <1>4, <2>2 DEF Carries, Undoing, Loading, Renewing
  <2>4. ~tainted /\ Alone(m) => Stands(Moved(r, "undone"), unit, running)
    BY <1>1, <1>2, <1>4, <2>2 DEF Stands, Ahead
  <2> QED BY <1>1, <1>2, <2>1, <2>3, <2>4, MovedStep DEF MtgPc
<1> QED BY <1>1, <1>3, <1>4

(* daemon-reload after the write of a rotation or of its compensation. *)
LEMMA ReloadInv ==
    ASSUME MtgInv, NEW m \in MtgSlots, Reload(m), UNCHANGED <<page, requests>>
    PROVE  MtgInv'
<1> PICK r : r = mreq[m]
  OBVIOUS
<1>1. /\ r \in MtgReqType /\ Carries(r) /\ r.comp \in BOOLEAN /\ r.prev \in Units
      /\ unit \in Units /\ loaded \in Units /\ running \in Units \cup {Off}
      /\ tainted \in BOOLEAN /\ r.old \in Secrets \cup {NoSecret} /\ r.on \in BOOLEAN
      /\ ~tainted /\ Alone(m) => Stands(r, unit, running)
      /\ ~tainted /\ Undoing(r) => Alone(m)
  BY StepFacts
<1>2. r.pc = "reload" /\ InFlight(m) /\ loaded' = unit /\ UNCHANGED <<unit, running, minted, tainted>>
  BY DEF Reload, At, InFlight, Over
<1>3. CASE r.comp = FALSE
  <2>1. Goto(m, "active")
    BY <1>3 DEF Reload
  <2>2. /\ Moved(r, "active").pc = "active" /\ Moved(r, "active").comp = FALSE
        /\ Moved(r, "active").old = r.old /\ Moved(r, "active").target = r.target
        /\ Moved(r, "active").prev = r.prev
    BY <1>1, <1>3, MovedOn
  <2>3. Carries(Moved(r, "active")) /\ ~Undoing(Moved(r, "active")) /\ Renewing(Moved(r, "active"))
    BY <1>1, <1>2, <1>3, <2>2 DEF Carries, Undoing, Renewing
  <2>4. ~tainted /\ Alone(m) => Stands(Moved(r, "active"), unit, running)
    BY <1>1, <1>2, <1>3, <2>2 DEF Stands, Ahead
  <2> QED BY <1>1, <1>2, <2>1, <2>3, <2>4, MovedStep DEF MtgPc
<1>4. CASE r.comp = TRUE /\ r.on = TRUE
  <2>1. Goto(m, "restart")
    BY <1>4 DEF Reload
  <2>2. /\ Moved(r, "restart").pc = "restart" /\ Moved(r, "restart").comp = TRUE
        /\ Moved(r, "restart").old = r.old /\ Moved(r, "restart").target = r.target
    BY <1>1, <1>4, MovedOn
  <2>3. Carries(Moved(r, "restart")) /\ Renewing(Moved(r, "restart")) /\ Undoing(r)
    BY <1>1, <1>2, <1>4, <2>2 DEF Carries, Undoing, Renewing
  <2>4. ~tainted /\ Alone(m) => Stands(Moved(r, "restart"), unit, running)
    BY <1>1, <1>2, <1>4, <2>2 DEF Stands, Back
  <2> QED BY <1>1, <1>2, <2>1, <2>3, <2>4, MovedStep DEF MtgPc
<1>5. CASE r.comp = TRUE /\ r.on = FALSE
  <2>1. Goto(m, "undone")
    BY <1>5 DEF Reload
  <2>2. /\ Moved(r, "undone").pc = "undone" /\ Moved(r, "undone").comp = FALSE
        /\ Moved(r, "undone").old = r.old
    BY <1>1, MovedOn
  <2>3. Carries(Moved(r, "undone")) /\ ~Undoing(Moved(r, "undone")) /\ Undoing(r)
    BY <1>5, <2>2 DEF Carries, Undoing
  <2>4. ~tainted => unit = r.old /\ Serves(running, r.old) /\ r.old \in Secrets
    BY <1>1, <1>2, <1>5, <2>3 DEF Stands, Back, Carries
  <2>5. ~tainted /\ Alone(m) => Stands(Moved(r, "undone"), unit, running)
    BY <2>2, <2>4, SecretIsItself DEF Stands, Ahead
  <2> QED BY <1>1, <1>2, <2>1, <2>3, <2>4, <2>5, MovedStep DEF MtgPc
<1> QED BY <1>1, <1>3, <1>4, <1>5

LEMMA ReloadFailsInv ==
    ASSUME MtgInv, NEW m \in MtgSlots, ReloadFails(m), UNCHANGED <<page, requests>>
    PROVE  MtgInv'
<1> PICK r : r = mreq[m]
  OBVIOUS
<1>1. /\ r \in MtgReqType /\ Carries(r) /\ r.comp \in BOOLEAN /\ r.prev \in Units
      /\ unit \in Units /\ loaded \in Units /\ running \in Units \cup {Off}
      /\ tainted \in BOOLEAN /\ r.old \in Secrets \cup {NoSecret} /\ r.on \in BOOLEAN
      /\ ~tainted /\ Alone(m) => Stands(r, unit, running)
      /\ ~tainted /\ Undoing(r) => Alone(m)
  BY StepFacts
<1>2. /\ r.pc = "reload" /\ InFlight(m) /\ loaded' \in {loaded, unit} /\ Goto(m, "undo")
      /\ tainted' = (tainted \/ ~Alone(m)) /\ UNCHANGED <<unit, running, minted>>
  BY DEF ReloadFails, At, InFlight, Over, Failing
<1>0. "undo" \in MtgPc /\ "undo" \notin Over
  BY DEF MtgPc, Over
<1>3. /\ Moved(r, "undo").pc = "undo" /\ Moved(r, "undo").comp = r.comp
      /\ Moved(r, "undo").old = r.old /\ Moved(r, "undo").target = r.target
      /\ Moved(r, "undo").prev = r.prev
  BY <1>0, <1>1, MovedTypes
<1>4. Carries(Moved(r, "undo")) /\ Renewing(Moved(r, "undo"))
  BY <1>1, <1>2, <1>3 DEF Carries, Renewing, Undoing
<1>5. ~tainted /\ Alone(m) => Stands(Moved(r, "undo"), unit, running)
  BY <1>1, <1>2, <1>3 DEF Stands, Ahead, Back
<1>6. tainted' \in BOOLEAN /\ (tainted => tainted') /\ (~tainted' => ~tainted /\ Alone(m))
  BY <1>1, <1>2
<1> QED BY <1>1, <1>2, <1>4, <1>5, <1>6, MovedStep DEF MtgPc

LEMMA UndoWriteInv ==
    ASSUME MtgInv, NEW m \in MtgSlots, UndoWrite(m), UNCHANGED <<page, requests>>
    PROVE  MtgInv'
<1> PICK r : r = mreq[m]
  OBVIOUS
<1>1. /\ r \in MtgReqType /\ Carries(r) /\ r.comp \in BOOLEAN /\ r.prev \in Units
      /\ unit \in Units /\ loaded \in Units /\ running \in Units \cup {Off}
      /\ tainted \in BOOLEAN /\ r.old \in Secrets \cup {NoSecret} /\ r.on \in BOOLEAN
      /\ ~tainted /\ Alone(m) => Stands(r, unit, running)
      /\ ~tainted /\ Undoing(r) => Alone(m)
  BY StepFacts
<1>2. /\ r.pc = "undo" /\ InFlight(m) /\ unit' = r.prev /\ Goto(m, "reload2")
      /\ UNCHANGED <<loaded, running, minted, tainted>>
  BY DEF UndoWrite, At, InFlight, Over
<1>3. /\ Moved(r, "reload2").pc = "reload2" /\ Moved(r, "reload2").comp = r.comp
      /\ Moved(r, "reload2").old = r.old /\ Moved(r, "reload2").target = r.target
  BY <1>1, MovedOn
<1>4. Carries(Moved(r, "reload2")) /\ Renewing(Moved(r, "reload2")) /\ Undoing(r)
  BY <1>1, <1>2, <1>3 DEF Carries, Renewing, Undoing
<1>5. ~tainted /\ Alone(m) => Stands(Moved(r, "reload2"), unit', running)
  BY <1>1, <1>2, <1>3 DEF Stands, Ahead, Back
<1> QED BY <1>1, <1>2, <1>4, <1>5, MovedStep DEF MtgPc

LEMMA ReloadOldInv ==
    ASSUME MtgInv, NEW m \in MtgSlots, ReloadOld(m), UNCHANGED <<page, requests>>
    PROVE  MtgInv'
<1> PICK r : r = mreq[m]
  OBVIOUS
<1>1. /\ r \in MtgReqType /\ Carries(r) /\ r.comp \in BOOLEAN /\ r.prev \in Units
      /\ unit \in Units /\ loaded \in Units /\ running \in Units \cup {Off}
      /\ tainted \in BOOLEAN /\ r.old \in Secrets \cup {NoSecret} /\ r.on \in BOOLEAN
      /\ ~tainted /\ Alone(m) => Stands(r, unit, running)
      /\ ~tainted /\ Undoing(r) => Alone(m)
  BY StepFacts
<1>2. r.pc = "reload2" /\ InFlight(m) /\ loaded' = unit /\ UNCHANGED <<unit, running, minted>>
  BY DEF ReloadOld, At, InFlight, Over
<1>3. CASE r.comp = TRUE
  BY <1>1, <1>2, <1>3, TaintedStep DEF ReloadOld
<1>4. CASE r.comp = FALSE
  <2>1. Goto(m, "undone") /\ UNCHANGED tainted
    BY <1>4 DEF ReloadOld
  <2>2. /\ Moved(r, "undone").pc = "undone" /\ Moved(r, "undone").comp = FALSE
        /\ Moved(r, "undone").old = r.old
    BY <1>1, MovedOn
  <2>3. Carries(Moved(r, "undone")) /\ ~Undoing(Moved(r, "undone")) /\ Undoing(r)
    BY <1>2, <2>2 DEF Carries, Undoing
  <2>4. ~tainted => SecretOf(unit) = r.old /\ Serves(running, unit)
    BY <1>1, <1>2, <1>4, <2>3 DEF Stands, Ahead
  <2>5. ~tainted /\ Alone(m) => Stands(Moved(r, "undone"), unit, running)
    BY <2>2, <2>4 DEF Stands, Ahead
  <2> QED BY <1>1, <1>2, <2>1, <2>3, <2>4, <2>5, MovedStep DEF MtgPc
<1> QED BY <1>1, <1>3, <1>4

LEMMA UndoFailsInv ==
    ASSUME MtgInv, NEW m \in MtgSlots, UndoFails(m), UNCHANGED <<page, requests>>
    PROVE  MtgInv'
<1>1. /\ InFlight(m) /\ loaded' \in {loaded, unit} /\ Goto(m, "failed") /\ tainted' = TRUE
      /\ UNCHANGED <<unit, running, minted>>
  BY DEF UndoFails, At, InFlight, Over
<1> QED BY <1>1, StepFacts, TaintedStep

LEMMA IsActiveInv ==
    ASSUME MtgInv, NEW m \in MtgSlots, IsActive(m), UNCHANGED <<page, requests>>
    PROVE  MtgInv'
<1> PICK r : r = mreq[m]
  OBVIOUS
<1>1. /\ r \in MtgReqType /\ Carries(r) /\ r.comp \in BOOLEAN /\ r.prev \in Units
      /\ unit \in Units /\ loaded \in Units /\ running \in Units \cup {Off}
      /\ tainted \in BOOLEAN /\ r.old \in Secrets \cup {NoSecret} /\ r.on \in BOOLEAN
      /\ ~tainted /\ Alone(m) => Stands(r, unit, running)
      /\ ~tainted /\ Undoing(r) => Alone(m)
  BY StepFacts
<1>2. r.pc = "active" /\ InFlight(m) /\ UNCHANGED <<unit, loaded, running, minted, tainted>>
  BY DEF IsActive, At, InFlight, Over
<1>3. r.comp = FALSE /\ r.target \in Secrets /\ ~Loading(r)
  BY <1>1, <1>2 DEF Carries, Loading
<1>4. CASE running # Off
  <2>1. Goto(m, "restart")
    BY <1>4 DEF IsActive
  <2>2. /\ Moved(r, "restart").pc = "restart" /\ Moved(r, "restart").comp = FALSE
        /\ Moved(r, "restart").target = r.target
    BY <1>1, <1>3, MovedOn
  <2>3. Carries(Moved(r, "restart")) /\ ~Undoing(Moved(r, "restart")) /\ Renewing(Moved(r, "restart"))
    BY <1>3, <2>2 DEF Carries, Undoing, Renewing
  <2>4. ~tainted /\ Alone(m) => Stands(Moved(r, "restart"), unit, running)
    BY <1>1, <1>2, <1>3, <2>2 DEF Stands, Ahead
  <2> QED BY <1>1, <1>2, <1>3, <2>1, <2>3, <2>4, MovedStep DEF MtgPc
<1>5. CASE running = Off
  <2>1. Goto(m, "toggle")
    BY <1>5 DEF IsActive
  <2>2. /\ Moved(r, "toggle").pc = "toggle" /\ Moved(r, "toggle").comp = FALSE
        /\ Moved(r, "toggle").target = r.target
    BY <1>1, <1>3, MovedOn
  <2>3. Carries(Moved(r, "toggle")) /\ ~Undoing(Moved(r, "toggle"))
    BY <2>2 DEF Carries, Undoing
  <2>4. ~tainted /\ Alone(m) => Stands(Moved(r, "toggle"), unit, running)
    BY <1>1, <1>2, <1>3, <2>2, SecretIsItself DEF Stands, Ahead
  <2>5. Serves(running, unit)
    BY <1>5, ServesItself
  <2> QED BY <1>1, <1>2, <1>3, <1>5, <2>1, <2>3, <2>4, <2>5, MovedStep DEF MtgPc
<1> QED BY <1>4, <1>5

(* restoreMTGUnit begins: what it needs is what the request has kept. *)
LEMMA CompensateInv ==
    ASSUME MtgInv, NEW m \in MtgSlots, NEW wasActive \in BOOLEAN, Compensate(m, wasActive),
           mreq[m].pc \in {"active", "restart"}, mreq[m].comp = FALSE,
           running' \in Units \cup {Off},
           ~tainted /\ Alone(m) /\ mreq[m].old # NoSecret /\ ~wasActive => Serves(running', mreq[m].old),
           UNCHANGED <<unit, loaded, minted, page, requests>>
    PROVE  MtgInv'
<1> PICK r : r = mreq[m]
  OBVIOUS
<1>1. /\ r \in MtgReqType /\ Carries(r) /\ r.comp \in BOOLEAN /\ r.prev \in Units
      /\ unit \in Units /\ loaded \in Units /\ running \in Units \cup {Off}
      /\ tainted \in BOOLEAN /\ r.old \in Secrets \cup {NoSecret} /\ r.on \in BOOLEAN
      /\ ~tainted /\ Alone(m) => Stands(r, unit, running)
      /\ ~tainted /\ Undoing(r) => Alone(m)
  BY StepFacts
<1>2. InFlight(m)
  BY DEF InFlight, Over
<1>3. CASE r.old = NoSecret
  BY <1>1, <1>2, <1>3, TaintedStep DEF Compensate
<1>4. CASE r.old # NoSecret
  <2> PICK q : q = [r EXCEPT !.comp = TRUE, !.on = wasActive, !.pc = "write"]
    OBVIOUS
  <2>1. mreq' = [mreq EXCEPT ![m] = q] /\ tainted' = (tainted \/ ~Alone(m))
    BY <1>4, StepFacts DEF Compensate, Failing, MtgInv, MtgTypeOK, MtgReqType
  <2>2. /\ q \in MtgReqType /\ q.pc = "write" /\ q.comp = TRUE /\ q.on = wasActive
        /\ q.old = r.old /\ q.target = r.target
    BY <1>1 DEF MtgReqType, MtgPc
  <2>3. Carries(q) /\ Renewing(q) /\ ~Loading(r)
    BY <1>1, <1>4, <2>2 DEF Carries, Renewing, Undoing, Loading
  <2>4. tainted' \in BOOLEAN /\ (tainted => tainted') /\ (~tainted' => ~tainted /\ Alone(m))
    BY <1>1, <2>1
  <2>5. ~tainted' => Stands(q, unit', running')
    BY <1>4, <2>2, <2>4 DEF Stands, Back
  <2> QED BY <1>1, <1>2, <2>1, <2>2, <2>3, <2>4, <2>5, MtgStepKeeps
<1> QED BY <1>3, <1>4

LEMMA IsActiveFailsInv ==
    ASSUME MtgInv, NEW m \in MtgSlots, IsActiveFails(m), UNCHANGED <<page, requests>>
    PROVE  MtgInv'
<1> PICK r : r = mreq[m]
  OBVIOUS
<1>1. /\ r \in MtgReqType /\ Carries(r) /\ r.comp \in BOOLEAN /\ r.prev \in Units
      /\ unit \in Units /\ loaded \in Units /\ running \in Units \cup {Off}
      /\ tainted \in BOOLEAN /\ r.old \in Secrets \cup {NoSecret} /\ r.on \in BOOLEAN
      /\ ~tainted /\ Alone(m) => Stands(r, unit, running)
      /\ ~tainted /\ Undoing(r) => Alone(m)
  BY StepFacts
<1>2. /\ r.pc = "active" /\ Compensate(m, FALSE) /\ UNCHANGED <<unit, loaded, running, minted>>
  BY DEF IsActiveFails, At
<1>3. r.comp = FALSE
  BY <1>1, <1>2 DEF Carries
<1>4. ~tainted /\ Alone(m) /\ r.old # NoSecret => Serves(running, r.old)
  BY <1>1, <1>2, <1>3, SecretIsItself DEF Stands, Ahead, Serves
<1> QED BY <1>1, <1>2, <1>3, <1>4, CompensateInv

LEMMA RestartInv ==
    ASSUME MtgInv, NEW m \in MtgSlots, Restart(m), UNCHANGED <<page, requests>>
    PROVE  MtgInv'
<1> PICK r : r = mreq[m]
  OBVIOUS
<1>1. /\ r \in MtgReqType /\ Carries(r) /\ r.comp \in BOOLEAN /\ r.prev \in Units
      /\ unit \in Units /\ loaded \in Units /\ running \in Units \cup {Off}
      /\ tainted \in BOOLEAN /\ r.old \in Secrets \cup {NoSecret} /\ r.on \in BOOLEAN
      /\ ~tainted /\ Alone(m) => Stands(r, unit, running)
      /\ ~tainted /\ Undoing(r) => Alone(m)
  BY StepFacts
<1>2. r.pc = "restart" /\ InFlight(m) /\ running' = loaded /\ UNCHANGED <<unit, loaded, minted, tainted>>
  BY DEF Restart, At, InFlight, Over
<1>3. ~Loading(r) /\ r.target \in Secrets
  BY <1>1, <1>2 DEF Loading, Carries
<1>4. CASE r.comp = TRUE
  <2>1. Goto(m, "undone")
    BY <1>4 DEF Restart
  <2>2. /\ Moved(r, "undone").pc = "undone" /\ Moved(r, "undone").comp = FALSE
        /\ Moved(r, "undone").old = r.old
    BY <1>1, MovedOn
  <2>3. Carries(Moved(r, "undone")) /\ ~Undoing(Moved(r, "undone")) /\ r.old \in Secrets
    BY <1>1, <1>4, <2>2 DEF Carries, Undoing
  <2>4. ~tainted /\ Alone(m) => Stands(Moved(r, "undone"), unit, loaded)
    BY <1>1, <1>2, <1>4, <2>2, <2>3, SecretIsItself DEF Stands, Ahead, Back
  <2> QED BY <1>1, <1>2, <1>3, <2>1, <2>3, <2>4, MovedStep DEF MtgPc
<1>5. CASE r.comp = FALSE
  <2>1. Goto(m, "toggle")
    BY <1>5 DEF Restart
  <2>2. /\ Moved(r, "toggle").pc = "toggle" /\ Moved(r, "toggle").comp = FALSE
        /\ Moved(r, "toggle").target = r.target
    BY <1>1, <1>5, MovedOn
  <2>3. Carries(Moved(r, "toggle")) /\ ~Undoing(Moved(r, "toggle"))
    BY <2>2 DEF Carries, Undoing
  <2>4. ~tainted /\ Alone(m) => Stands(Moved(r, "toggle"), unit, loaded)
    BY <1>1, <1>2, <1>3, <1>5, <2>2, SecretIsItself DEF Stands, Ahead
  <2> QED BY <1>1, <1>2, <1>3, <2>1, <2>3, <2>4, MovedStep DEF MtgPc
<1> QED BY <1>1, <1>4, <1>5

LEMMA RestartFailsInv ==
    ASSUME MtgInv, NEW m \in MtgSlots, RestartFails(m), UNCHANGED <<page, requests>>
    PROVE  MtgInv'
<1> PICK r : r = mreq[m]
  OBVIOUS
<1>1. /\ r \in MtgReqType /\ Carries(r) /\ r.comp \in BOOLEAN /\ r.prev \in Units
      /\ unit \in Units /\ loaded \in Units /\ running \in Units \cup {Off}
      /\ tainted \in BOOLEAN /\ r.old \in Secrets \cup {NoSecret} /\ r.on \in BOOLEAN
      /\ ~tainted /\ Alone(m) => Stands(r, unit, running)
      /\ ~tainted /\ Undoing(r) => Alone(m)
  BY StepFacts
<1>2. /\ r.pc = "restart" /\ InFlight(m) /\ running' \in {running, loaded, Off}
      /\ UNCHANGED <<unit, loaded, minted>>
  BY DEF RestartFails, At, InFlight, Over
<1>3. CASE r.comp = TRUE
  BY <1>1, <1>2, <1>3, TaintedStep DEF RestartFails
<1>4. CASE r.comp = FALSE
  <2>1. Compensate(m, TRUE)
    BY <1>4 DEF RestartFails
  <2> QED BY <1>1, <1>2, <1>4, <2>1, CompensateInv
<1> QED BY <1>1, <1>3, <1>4

LEMMA ToggleInv ==
    ASSUME MtgInv, NEW m \in MtgSlots, Toggle(m), UNCHANGED <<page, requests>>
    PROVE  MtgInv'
<1> PICK r : r = mreq[m]
  OBVIOUS
<1>1. /\ r \in MtgReqType /\ Carries(r) /\ r.comp \in BOOLEAN /\ r.prev \in Units
      /\ unit \in Units /\ loaded \in Units /\ running \in Units \cup {Off}
      /\ tainted \in BOOLEAN /\ r.old \in Secrets \cup {NoSecret} /\ r.on \in BOOLEAN
      /\ ~tainted /\ Alone(m) => Stands(r, unit, running)
      /\ ~tainted /\ Undoing(r) => Alone(m)
  BY StepFacts
<1>2. /\ r.pc = "toggle" /\ InFlight(m) /\ Goto(m, "snapshot") /\ UNCHANGED <<unit, minted, tainted>>
      /\ loaded' \in {loaded, unit} /\ running' \in {Off, unit, running}
  BY DEF Toggle, At, InFlight, Over
<1>3. r.comp = FALSE /\ ~Loading(r) /\ ~Renewing(r)
  BY <1>1, <1>2 DEF Carries, Loading, Renewing, Undoing
<1>4. /\ Moved(r, "snapshot").pc = "snapshot" /\ Moved(r, "snapshot").comp = FALSE
      /\ Moved(r, "snapshot").target = r.target
  BY <1>1, <1>3, MovedOn
<1>5. Carries(Moved(r, "snapshot")) /\ ~Undoing(Moved(r, "snapshot"))
  BY <1>4 DEF Carries, Undoing
<1>6. ~tainted /\ Alone(m) => Stands(Moved(r, "snapshot"), unit, running')
  BY <1>1, <1>2, <1>3, <1>4 DEF Stands, Ahead
<1>7. Serves(running', unit') \/ running' = running
  BY <1>2, ServesItself
<1> QED BY <1>1, <1>2, <1>3, <1>5, <1>6, <1>7, MovedStep DEF MtgPc

LEMMA ToggleFailsInv ==
    ASSUME MtgInv, NEW m \in MtgSlots, ToggleFails(m), UNCHANGED <<page, requests>>
    PROVE  MtgInv'
<1> PICK r : r = mreq[m]
  OBVIOUS
<1>1. /\ r \in MtgReqType /\ Carries(r) /\ r.comp \in BOOLEAN /\ r.prev \in Units
      /\ unit \in Units /\ loaded \in Units /\ running \in Units \cup {Off}
      /\ tainted \in BOOLEAN /\ r.old \in Secrets \cup {NoSecret} /\ r.on \in BOOLEAN
      /\ ~tainted /\ Alone(m) => Stands(r, unit, running)
      /\ ~tainted /\ Undoing(r) => Alone(m)
  BY StepFacts
<1>2. /\ r.pc = "toggle" /\ InFlight(m) /\ Goto(m, "failed") /\ UNCHANGED <<unit, minted, tainted>>
      /\ loaded' \in {loaded, unit} /\ running' \in {Off, unit, running}
  BY DEF ToggleFails, At, InFlight, Over
<1>3. r.comp = FALSE /\ ~Loading(r) /\ ~Renewing(r)
  BY <1>1, <1>2 DEF Carries, Loading, Renewing, Undoing
<1>4. Moved(r, "failed").pc = "failed" /\ Moved(r, "failed").comp = FALSE
  BY <1>1, MovedOn
<1>5. Carries(Moved(r, "failed")) /\ ~Undoing(Moved(r, "failed"))
  BY <1>4 DEF Carries, Undoing
<1>6. Stands(Moved(r, "failed"), unit, running')
  BY <1>4 DEF Stands, Ahead
<1>7. Serves(running', unit') \/ running' = running
  BY <1>2, ServesItself
<1> QED BY <1>1, <1>2, <1>3, <1>5, <1>6, <1>7, MovedStep DEF MtgPc

LEMMA MtgAnswerInv ==
    ASSUME MtgInv, NEW m \in MtgSlots, MtgAnswer(m), UNCHANGED <<page, requests>>
    PROVE  MtgInv'
<1> PICK r : r = mreq[m]
  OBVIOUS
<1>1. /\ r \in MtgReqType /\ Carries(r) /\ r.comp \in BOOLEAN /\ r.prev \in Units
      /\ unit \in Units /\ loaded \in Units /\ running \in Units \cup {Off}
      /\ tainted \in BOOLEAN /\ r.old \in Secrets \cup {NoSecret} /\ r.on \in BOOLEAN
      /\ ~tainted /\ Alone(m) => Stands(r, unit, running)
      /\ ~tainted /\ Undoing(r) => Alone(m)
  BY StepFacts
<1> PICK pc \in {"ok", "failed"} : Goto(m, pc)
  BY DEF MtgAnswer
<1>2. r.pc = "snapshot" /\ InFlight(m) /\ UNCHANGED <<unit, loaded, running, minted, tainted>>
  BY DEF MtgAnswer, At, InFlight, Over
<1>3. r.comp = FALSE /\ ~Loading(r) /\ ~Renewing(r)
  BY <1>1, <1>2 DEF Carries, Loading, Renewing, Undoing
<1>0. pc \in MtgPc /\ pc \in Over
  BY DEF MtgPc, Over
<1>4. Moved(r, pc).pc = pc /\ Moved(r, pc).comp = FALSE /\ Moved(r, pc).target = r.target
  BY <1>0, <1>1, MovedTypes
<1>5. Carries(Moved(r, pc)) /\ ~Undoing(Moved(r, pc))
  BY <1>4 DEF Carries, Undoing
<1>6. ~tainted /\ Alone(m) => Stands(Moved(r, pc), unit, running)
  BY <1>1, <1>2, <1>3, <1>4 DEF Stands, Ahead
<1> QED BY <1>1, <1>2, <1>3, <1>5, <1>6, MovedStep DEF MtgPc

(* GenerateSecret: a secret for every request that awaits one. *)
LEMMA AwaitingFinite ==
    IsFiniteSet(Awaiting) /\ Cardinality(Awaiting) \in Nat
  BY MtproxyAssumption, FS_Subset, FS_CardinalityType DEF Awaiting

LEMMA MtgMintInv ==
    ASSUME MtgInv, NEW m \in MtgSlots, MtgMint(m), UNCHANGED <<page, requests>>
    PROVE  MtgInv'
<1> PICK r : r = mreq[m]
  OBVIOUS
<1>1. /\ r \in MtgReqType /\ Carries(r) /\ tainted \in BOOLEAN /\ r.pc = "generate"
      /\ ~tainted /\ Alone(m) => Stands(r, unit, running)
      /\ mreq \in [MtgSlots -> MtgReqType] /\ minted \in 0..MaxSecrets
  BY StepFacts DEF MtgMint, At, MtgInv, MtgTypeOK
<1>2. minted' = minted + 1 /\ UNCHANGED <<unit, loaded, running, tainted>>
  BY DEF MtgMint
<1>3. page # "settings"
  BY <1>1 DEF MtgInv, MintInv
<1>4. /\ Awaiting' = Awaiting \ {m} /\ m \in Awaiting
  BY <1>1 DEF MtgMint, Awaiting
<1>5. /\ Cardinality(Awaiting') = Cardinality(Awaiting) - 1
      /\ Cardinality(Awaiting) \in Nat /\ Cardinality(Awaiting') \in Nat
  BY <1>4, AwaitingFinite, FS_RemoveElement, FS_CardinalityType
<1>6. MintInv' /\ requests \in Nat
  BY <1>1, <1>2, <1>3, <1>5, MtproxyAssumption DEF MtgInv, MintInv
<1>7. minted + 1 \in 0..MaxSecrets
  <2>1. page = "mtproxy"
    BY <1>3 DEF MtgInv, MintInv
  <2> QED BY <1>1, <1>5, <2>1, MtproxyAssumption DEF MtgInv, MintInv
<1> PICK q : q = [r EXCEPT !.target = <<r.want, minted + 1>>, !.pc = "write"]
  OBVIOUS
<1>8. r.want \in Domains /\ r.comp = FALSE
  BY <1>1 DEF Carries, MtgReqType
<1>9. <<r.want, minted + 1>> \in Secrets
  BY <1>7, <1>8 DEF Secrets
<1>10. /\ q \in MtgReqType /\ q.pc = "write" /\ q.comp = FALSE /\ q.old = r.old
       /\ q.target \in Secrets
  BY <1>1, <1>8, <1>9 DEF MtgReqType, MtgPc
<1>11. mreq' = [mreq EXCEPT ![m] = q]
  BY <1>1 DEF MtgMint, MtgReqType
<1>12. mreq'[m] = q /\ \A o \in MtgSlots : o # m => mreq'[o] = mreq[o]
  BY <1>1, <1>11
<1>13. MtgTypeOK'
  BY <1>1, <1>2, <1>7, <1>10, <1>11 DEF MtgInv, MtgTypeOK
<1>14. CarryInv'
  BY <1>10, <1>12 DEF MtgInv, CarryInv, Carries
<1>15. /\ ~Undoing(q) /\ ~Undoing(r) /\ ~Loading(q) /\ ~Loading(r) /\ ~Renewing(q) /\ ~Renewing(r)
  BY <1>1, <1>8, <1>10 DEF Undoing, Loading, Renewing
<1>16. Alone(m)' <=> Alone(m)
  BY <1>12 DEF Alone
<1>17. \A o \in MtgSlots : o # m => ~Alone(o)' /\ ~Alone(o)
  BY <1>1, <1>10, <1>12 DEF Alone
<1>18. OverlapInv'
  BY <1>2, <1>12, <1>15, <1>16, <1>17 DEF MtgInv, OverlapInv
<1>19. ~tainted /\ Alone(m) => Stands(q, unit, running)
  BY <1>1, <1>8, <1>10 DEF Stands, Ahead
<1>20. AloneInv'
  BY <1>2, <1>12, <1>16, <1>17, <1>19 DEF AloneInv
<1> QED BY <1>6, <1>13, <1>14, <1>18, <1>20 DEF MtgInv

(* A request that arrives: answers are forgotten, and a request that is     *)
(* being undone is met by another.                                          *)
LEMMA MtgArriveInv ==
    ASSUME MtgInv, NEW m \in MtgSlots, NEW kind \in {"update", "generate"},
           NEW domain \in Domains \cup {"none"}, NEW toggle \in {"none", "on", "off"},
           MtgArrive(m, kind, domain, toggle),
           page = "mtproxy", page' = page, requests' = requests + 1, requests < MaxSecrets
    PROVE  MtgInv'
<1> PICK q : q = [MtgIdle EXCEPT !.pc = "read", !.kind = kind, !.want = domain, !.toggle = toggle]
  OBVIOUS
<1>1. /\ ~InFlight(m) /\ mreq \in [MtgSlots -> MtgReqType] /\ tainted \in BOOLEAN
      /\ UNCHANGED <<unit, loaded, running, minted>>
  BY DEF MtgArrive, MtgInv, MtgTypeOK
<1>2. q \in MtgReqType /\ q.pc = "read" /\ q.comp = FALSE
  <2>1. q \in MtgReqType /\ q.pc = "read"
    BY IdleMtg DEF MtgReqType, MtgPc
  <2>2. q.comp = FALSE
    BY DEF MtgIdle
  <2> QED BY <2>1, <2>2
<1>3. /\ mreq' = [o \in MtgSlots |-> IF o = m THEN q ELSE IF InFlight(o) THEN mreq[o] ELSE MtgIdle]
  BY DEF MtgArrive
<1>4. /\ mreq'[m] = q
      /\ \A o \in MtgSlots : o # m => mreq'[o] = IF InFlight(o) THEN mreq[o] ELSE MtgIdle
  BY <1>3
<1>5. MtgTypeOK'
  <2>1. mreq' \in [MtgSlots -> MtgReqType]
    BY <1>1, <1>2, <1>3, IdleMtg
  <2>2. tainted' \in BOOLEAN
    BY <1>1 DEF MtgArrive
  <2> QED BY <1>1, <2>1, <2>2 DEF MtgInv, MtgTypeOK
<1>6. CarryInv'
  <2>1. Carries(q)
    BY <1>2 DEF Carries
  <2> QED BY <1>4, <2>1, IdleMtg DEF MtgInv, CarryInv
<1>7. MintInv'
  <2>1. Awaiting' = Awaiting \cup {m} /\ m \notin Awaiting
    <3>1. \A o \in MtgSlots : o # m =>
             (mreq'[o].pc \in {"read", "generate"} <=> mreq[o].pc \in {"read", "generate"})
      BY <1>4, IdleMtg DEF InFlight, Over
    <3>2. mreq[m].pc \notin {"read", "generate"} /\ mreq'[m].pc = "read"
      BY <1>1, <1>2, <1>4 DEF InFlight, Over
    <3> QED BY <3>1, <3>2 DEF Awaiting
  <2>2. /\ Cardinality(Awaiting') = Cardinality(Awaiting) + 1
        /\ Cardinality(Awaiting) \in Nat
    BY <2>1, AwaitingFinite, FS_AddElement
  <2>3. minted \in Nat
    BY MtproxyAssumption DEF MtgInv, MtgTypeOK
  <2> QED BY <1>1, <2>2, <2>3, MtproxyAssumption DEF MtgInv, MintInv
<1>8. \A o \in MtgSlots : InFlight(o) => o # m /\ mreq'[o] = mreq[o]
  BY <1>1, <1>4
<1>9. \A o \in MtgSlots : Undoing(mreq[o]) \/ Loading(mreq[o]) \/ Renewing(mreq[o]) => InFlight(o)
  BY OverIsOver DEF InFlight, MtgInv, CarryInv
<1>10. \A o \in MtgSlots : o # m => ~Alone(o)'
  BY <1>2, <1>4 DEF Alone
<1>11. ~tainted' => ~tainted /\ \A o \in MtgSlots : ~Undoing(mreq'[o])
  <2>1. ~Undoing(q) /\ ~Undoing(MtgIdle)
    BY <1>2, IdleMtg DEF Undoing
  <2>2. ~tainted' => ~tainted /\ \A o \in MtgSlots : o # m => ~Undoing(mreq[o])
    BY <1>1 DEF MtgArrive, Undoing
  <2> QED BY <1>4, <2>1, <2>2
<1>12. OverlapInv'
  BY <1>1, <1>8, <1>9, <1>11 DEF MtgInv, OverlapInv
<1>13. AloneInv'
  <2>1. Stands(q, unit', running')
    BY <1>2 DEF Stands, Ahead
  <2> QED BY <1>4, <1>10, <2>1 DEF AloneInv
<1> QED BY <1>5, <1>6, <1>7, <1>12, <1>13 DEF MtgInv

LEMMA MtgRequestInv ==
    ASSUME MtgInv, MtgRequest
    PROVE  MtgInv'
<1> PICK m \in MtgSlots : MtgUpdate(m) \/ MtgGenerate(m)
  BY DEF MtgRequest
<1>1. page = "mtproxy" /\ page' = page /\ requests' = requests + 1 /\ requests < MaxSecrets
  BY DEF MtgRequest, Counted
<1>2. CASE MtgUpdate(m)
  <2> PICK b \in MtgUpdates : MtgArrive(m, "update", b.domain, b.enabled)
    BY <1>2 DEF MtgUpdate
  <2>1. b.domain \in Domains \cup {"none"} /\ b.enabled \in {"none", "on", "off"}
    BY MtproxyAssumption
  <2> QED BY <1>1, <2>1, MtgArriveInv
<1>3. CASE MtgGenerate(m)
  <2> PICK d \in Domains : MtgArrive(m, "generate", d, "none")
    BY <1>3 DEF MtgGenerate
  <2> QED BY <1>1, MtgArriveInv
<1> QED BY <1>2, <1>3

LEMMA MtgStepInv ==
    ASSUME MtgInv, NEW m \in MtgSlots, MtgStep(m), UNCHANGED <<page, requests>>
    PROVE  MtgInv'
  BY MtgReadInv, MtgMintInv, MtgEarlyFailureInv, WriteFileInv, WriteFailsInv, ReloadInv,
     ReloadFailsInv, UndoWriteInv, ReloadOldInv, UndoFailsInv, IsActiveInv, IsActiveFailsInv,
     RestartInv, RestartFailsInv, ToggleInv, ToggleFailsInv, MtgAnswerInv DEF MtgStep

(* Nothing is under way and nothing is stale. *)
MtgQuiet ==
    /\ mreq \in [MtgSlots -> {MtgIdle}]
    /\ page \in {"settings", "mtproxy"}
    /\ requests \in Nat /\ minted \in 0..MaxSecrets /\ minted <= requests
    /\ page = "mtproxy" => requests <= MaxSecrets
    /\ page = "settings" => minted = 0
    /\ tainted \in BOOLEAN /\ unit \in Units /\ loaded \in Units /\ running \in Units \cup {Off}
    /\ ~tainted => loaded = unit /\ Serves(running, unit)

LEMMA QuietInv == MtgQuiet => MtgInv
<1> SUFFICES ASSUME MtgQuiet PROVE MtgInv
  OBVIOUS
<1> USE DEF MtgQuiet
<1>1. \A m \in MtgSlots : mreq[m] = MtgIdle
  OBVIOUS
<1>2. MtgTypeOK
  BY IdleMtg DEF MtgTypeOK
<1>3. Awaiting = {}
  BY <1>1, IdleMtg DEF Awaiting
<1>4. MintInv
  BY <1>1, <1>3, IdleMtg, FS_EmptySet, MtproxyAssumption DEF MintInv
<1>5. CarryInv
  BY <1>1, IdleMtg DEF CarryInv
<1>6. ~Undoing(MtgIdle)
  BY IdleMtg DEF Undoing
<1>7. OverlapInv
  BY <1>1, <1>6 DEF OverlapInv
<1>8. AloneInv
  BY <1>1, IdleMtg DEF AloneInv, Stands, Ahead
<1> QED BY <1>2, <1>4, <1>5, <1>7, <1>8 DEF MtgInv

LEMMA QuietInvNext == MtgQuiet' => MtgInv'
  BY QuietInv, PTL

(* A restart in the middle of a request taints, one between requests finds  *)
(* what the last one has left.                                              *)
LEMMA MtgCrashInv ==
    ASSUME MtgInv, MtgCrash, UNCHANGED <<page, requests>>
    PROVE  MtgInv'
<1>1. /\ mreq' \in [MtgSlots -> {MtgIdle}] /\ tainted' = (tainted \/ \E m \in MtgSlots : InFlight(m))
      /\ UNCHANGED <<unit, loaded, running, minted>>
  BY DEF MtgCrash
<1>2. \A m \in MtgSlots : Loading(mreq[m]) \/ Renewing(mreq[m]) => InFlight(m)
  BY OverIsOver DEF InFlight, MtgInv, CarryInv
<1>3. ~tainted' => loaded = unit /\ Serves(running, unit)
  BY <1>1, <1>2 DEF MtgInv, OverlapInv
<1>4. /\ requests \in Nat /\ minted \in 0..MaxSecrets /\ minted <= requests
      /\ page \in {"settings", "mtproxy"}
      /\ page = "mtproxy" => requests <= MaxSecrets
      /\ page = "settings" => minted = 0
  <2>1. Cardinality(Awaiting) \in Nat
    BY AwaitingFinite
  <2> QED BY <2>1, MtproxyAssumption DEF MtgInv, MintInv, MtgTypeOK
<1>5. tainted' \in BOOLEAN /\ unit \in Units /\ loaded \in Units /\ running \in Units \cup {Off}
  BY <1>1 DEF MtgInv, MtgTypeOK
<1> QED BY <1>1, <1>3, <1>4, <1>5, QuietInvNext DEF MtgQuiet

(* Requests of the other page are counted next to those of mtproxy. *)
LEMMA MtgStutters ==
    ASSUME MtgInv, UNCHANGED <<mtgVars, page>>, requests' \in Nat, requests <= requests',
           page = "mtproxy" => requests' = requests
    PROVE  MtgInv'
<1>1. Cardinality(Awaiting) \in Nat /\ Awaiting' = Awaiting /\ minted \in Nat
  BY AwaitingFinite, MtproxyAssumption DEF Awaiting, mtgVars, MtgInv, MtgTypeOK
<1>2. MintInv'
  BY <1>1 DEF MtgInv, MintInv, mtgVars
<1> QED BY <1>2 DEF MtgInv, mtgVars, MtgTypeOK, CarryInv, OverlapInv, AloneInv, Alone

(* The properties of mtproxy follow. *)
LEMMA MtgInvImplies ==
    ASSUME MtgInv
    PROVE  MtgConsistent
<1>1. ASSUME ~tainted, \A m \in MtgSlots : ~InFlight(m)
      PROVE  Serves(running, unit) /\ loaded = unit
  <2>1. \A m \in MtgSlots : ~Loading(mreq[m]) /\ ~Renewing(mreq[m])
    BY <1>1, OverIsOver DEF InFlight, MtgInv, CarryInv
  <2> QED BY <1>1, <2>1 DEF MtgInv, OverlapInv
<1>2. ASSUME NEW m \in MtgSlots, ~tainted, Alone(m)
      PROVE  /\ mreq[m].pc = "ok" => SecretOf(unit) = mreq[m].target
             /\ mreq[m].pc = "undone" => SecretOf(unit) = mreq[m].old
  <2>1. Stands(mreq[m], unit, running) /\ Carries(mreq[m])
    BY <1>2, StepFacts
  <2>2. mreq[m].pc \in {"ok", "undone"} => ~mreq[m].comp
    BY <2>1 DEF Carries
  <2> QED BY <2>1, <2>2 DEF Stands, Ahead
<1> QED BY <1>1, <1>2 DEF MtgConsistent, MtgInv

----------------------------------------------------------------------------
(* The panel: every step of Next. *)

LEMMA InitIInv == Init => IInv
<1> SUFFICES ASSUME Init PROVE IInv
  OBVIOUS
<1>1. /\ page \in {"settings", "mtproxy"} /\ SetInit /\ ResInit
      /\ requests = 0 /\ crashes = 0
  BY DEF Init
<1>2. TypeOK
  BY <1>1, PanelAssumption, MtproxyAssumption DEF TypeOK
<1>3. SetInv /\ ResInv
  BY <1>1, SetInitInv, ResInitInv
<1>4. /\ minted = 0 /\ tainted = FALSE /\ mreq = [m \in MtgSlots |-> MtgIdle] /\ loaded = unit
      /\ running \in {Off, unit} /\ unit \in Units
  <2>1. CASE page = "settings"
    BY <2>1 DEF Init, Units
  <2>2. CASE page = "mtproxy"
    <3>1. MtgInit
      BY <2>2 DEF Init
    <3>2. \A d \in Domains : <<d, 0>> \in Secrets
      BY MtproxyAssumption DEF Secrets
    <3>3. unit \in Units
      BY <3>1, <3>2 DEF MtgInit, Units
    <3> QED BY <3>1, <3>3 DEF MtgInit
  <2> QED BY <1>1, <2>1, <2>2
<1>5. MtgQuiet
  <2>1. mreq \in [MtgSlots -> {MtgIdle}] /\ tainted \in BOOLEAN
    BY <1>4
  <2>2. loaded \in Units /\ running \in Units \cup {Off}
    BY <1>4
  <2>3. /\ requests \in Nat /\ minted \in 0..MaxSecrets /\ minted <= requests
        /\ requests <= MaxSecrets
    BY <1>1, <1>4, MtproxyAssumption
  <2>4. Serves(running, unit)
    BY <1>4, ServesItself
  <2> QED BY <1>1, <1>4, <2>1, <2>2, <2>3, <2>4 DEF MtgQuiet
<1> QED BY <1>2, <1>3, <1>5, QuietInv DEF IInv

(* Requests are counted. *)
LEMMA TypeOKKept ==
    ASSUME TypeOK, page' = page,
           \/ UNCHANGED <<requests, crashes>>
           \/ requests' = requests + 1 /\ requests < MaxRequests /\ crashes' = crashes
           \/ requests' = requests + 1 /\ requests < MaxSecrets /\ crashes' = crashes
           \/ crashes' = crashes + 1 /\ crashes < MaxCrashes /\ requests' = requests
    PROVE  TypeOK'
  BY PanelAssumption, MtproxyAssumption DEF TypeOK

LEMMA OtherPage ==
    ASSUME TypeOK, MtgInv, UNCHANGED mtgVars, page' = page,
           (page = "settings" /\ requests' = requests + 1) \/ requests' = requests
    PROVE  MtgInv'
<1>1. requests \in Nat
  BY DEF MtgInv, MintInv
<1> QED BY <1>1, MtgStutters

LEMMA SettingsRequestIInv ==
    ASSUME IInv, SettingsRequest
    PROVE  IInv'
<1>1. /\ page = "settings" /\ page' = page /\ crashes' = crashes
      /\ requests' = requests + 1 /\ requests < MaxRequests
      /\ UNCHANGED <<resVars, mtgVars>>
  BY DEF SettingsRequest, Counted
<1>2. SetInv' /\ live' = live
  <2>1. ASSUME NEW r \in ReqSlots, UpdateProxy(r) \/ UpdateInternalOnly(r) \/ ToggleProfile(r)
        PROVE  SetInv' /\ live' = live
    BY <2>1, UpdateProxyInv, UpdateInternalOnlyInv, ToggleProfileInv DEF IInv, UpdateProxy,
       UpdateInternalOnly, ToggleProfile, Enter
  <2>2. RunPreflight => SetInv' /\ live' = live
    BY RunPreflightInv DEF IInv, RunPreflight
  <2> QED BY <2>1, <2>2 DEF SettingsRequest
<1>3. ResInv'
  BY <1>1, <1>2, ResStutters DEF IInv
<1> QED BY <1>1, <1>2, <1>3, TypeOKKept, OtherPage DEF IInv

LEMMA SettingsStepIInv ==
    ASSUME IInv, SettingsStep
    PROVE  IInv'
<1>1. UNCHANGED <<page, requests, crashes, resVars, mtgVars>>
  BY DEF SettingsStep, Uncounted
<1>2. SetInv' /\ live' = live
  <2>1. ASSUME NEW r \in ReqSlots, Commit(r) \/ CommitFails(r)
        PROVE  SetInv' /\ live' = live
    BY <2>1, CommitKeeps, CommitFailsInv DEF IInv, Commit, CommitFails
  <2>2. PersistPreflight => SetInv' /\ live' = live
    BY PersistPreflightInv DEF IInv, PersistPreflight
  <2> QED BY <2>1, <2>2 DEF SettingsStep
<1>3. ResInv'
  BY <1>1, <1>2, ResStutters DEF IInv
<1> QED BY <1>1, <1>2, <1>3, TypeOKKept, OtherPage DEF IInv

LEMMA SettingsPublishIInv ==
    ASSUME IInv, SettingsPublish
    PROVE  IInv'
<1>1. UNCHANGED <<page, requests, crashes, table, publishes, query, tables, mtgVars>> /\ PolicySeen
  BY DEF SettingsPublish, Uncounted
<1>2. SetInv'
  BY PublishLiveInv DEF IInv, SettingsPublish
<1>3. ResInv'
  BY <1>1, <1>2, PolicySeenInv DEF IInv
<1> QED BY <1>1, <1>2, <1>3, TypeOKKept, OtherPage DEF IInv

LEMMA RouteStepIInv ==
    ASSUME IInv, RouteStep
    PROVE  IInv'
<1>1. UNCHANGED <<page, requests, crashes, resVars, mtgVars>> /\ live' = live
  BY DEF RouteStep, Uncounted, RouteChanges
<1>2. SetInv'
  BY RouteChangesInv DEF IInv, RouteStep
<1>3. ResInv'
  BY <1>1, ResStutters DEF IInv
<1> QED BY <1>1, <1>2, <1>3, TypeOKKept, OtherPage DEF IInv

LEMMA QuestionIInv ==
    ASSUME IInv, Question
    PROVE  IInv'
<1>1. /\ page = "settings" /\ page' = page /\ crashes' = crashes
      /\ requests' = requests + 1 /\ requests < MaxRequests
      /\ UNCHANGED <<setVars, mtgVars>> /\ live' = live
  BY DEF Question, Counted, setVars
<1>2. SetInv'
  BY <1>1, SetStutters DEF IInv
<1>3. ResInv'
  BY <1>1, AskInv DEF IInv, Question
<1> QED BY <1>1, <1>2, <1>3, TypeOKKept, OtherPage DEF IInv

LEMMA QueryStepIInv ==
    ASSUME IInv, QueryStep
    PROVE  IInv'
<1>1. UNCHANGED <<page, requests, crashes, setVars, mtgVars>> /\ live' = live
  BY DEF QueryStep, Uncounted, setVars
<1>2. SetInv'
  BY <1>1, SetStutters DEF IInv
<1>3. ResInv'
  BY <1>1, AnswerEarlyInv, ClassifyInv, LoadPolicyInv, AnswerProxiedInv, PublishTableInv DEF IInv,
     QueryStep
<1> QED BY <1>1, <1>2, <1>3, TypeOKKept, OtherPage DEF IInv

LEMMA MtgRequestIInv ==
    ASSUME IInv, MtgRequest
    PROVE  IInv'
<1>1. /\ page' = page /\ crashes' = crashes /\ requests' = requests + 1 /\ requests < MaxSecrets
      /\ UNCHANGED <<setVars, resVars>> /\ live' = live
  BY DEF MtgRequest, Counted, setVars
<1>2. SetInv' /\ ResInv'
  BY <1>1, SetStutters, ResStutters DEF IInv
<1>3. MtgInv'
  BY MtgRequestInv DEF IInv
<1> QED BY <1>1, <1>2, <1>3, TypeOKKept DEF IInv

LEMMA MtgStepsIInv ==
    ASSUME IInv, MtgSteps
    PROVE  IInv'
<1>1. UNCHANGED <<page, requests, crashes, setVars, resVars>> /\ live' = live
  BY DEF MtgSteps, Uncounted, setVars
<1>2. SetInv' /\ ResInv'
  BY <1>1, SetStutters, ResStutters DEF IInv
<1>3. MtgInv'
  BY <1>1, MtgStepInv DEF IInv, MtgSteps
<1> QED BY <1>1, <1>2, <1>3, TypeOKKept DEF IInv

LEMMA CrashIInv ==
    ASSUME IInv, Crash
    PROVE  IInv'
<1>1. /\ crashes < MaxCrashes /\ crashes' = crashes + 1 /\ UNCHANGED <<page, requests, table, publishes>>
      /\ query' = NoQuery /\ tables' = {} /\ policies' = {}
  BY DEF Crash
<1>2. SetInv' /\ MtgInv'
  BY <1>1, RestartedInv, MtgCrashInv DEF IInv, Crash
<1>3. ResInv'
  <2>1. ResTypeOK'
    BY <1>1, IdleQuery DEF IInv, ResInv, AnswerExplained, ResTypeOK, QueryType
  <2> QED BY <1>1, <2>1, IdleQuery DEF ResInv, QueryInv, Resolving, AnswerExplained
<1> QED BY <1>1, <1>2, <1>3, TypeOKKept DEF IInv

LEMMA NextIInv == IInv /\ [Next]_vars => IInv'
<1> SUFFICES ASSUME IInv, [Next]_vars PROVE IInv'
  OBVIOUS
<1>1. CASE UNCHANGED vars
  <2>1. UNCHANGED <<setVars, resVars, mtgVars, page, requests, crashes>> /\ live' = live
    BY <1>1 DEF vars, setVars
  <2>2. SetInv' /\ ResInv'
    BY <2>1, SetStutters, ResStutters DEF IInv
  <2> QED BY <2>1, <2>2, TypeOKKept, OtherPage DEF IInv
<1> QED BY <1>1, SettingsRequestIInv, SettingsStepIInv, SettingsPublishIInv, RouteStepIInv,
        QuestionIInv, QueryStepIInv, MtgRequestIInv, MtgStepsIInv, CrashIInv DEF Next

----------------------------------------------------------------------------
(* The inductive invariant of the panel holds at every step. *)
THEOREM Invariance == Spec => []IInv
<1> QED BY InitIInv, NextIInv, PTL DEF Spec

(* Without a request under way the live policy and the gate are the stored  *)
(* ones; the next boot can fail on a missing route or on a backend address, *)
(* whose form alone the handlers check, and on nothing else they have       *)
(* stored; a forwarder or backend that differs from its setting was         *)
(* announced; and an enabled profile rests on a preflight that passed. For  *)
(* all bodies, any number of overlapping requests, preflights on demand,    *)
(* route changes and restarts, with and without TLS on the panel            *)
(* (frontdoor_proxy.go, internal_only.go, preflight.go, gate.go, main.go).  *)
THEOREM SettingsStayConsistent == Spec => []PanelConsistent
<1>1. IInv => PanelConsistent
  BY SetInvImplies DEF IInv, PanelConsistent
<1> QED BY <1>1, Invariance, PTL

(* No torn answers: every answer of the resolver is what one table and one  *)
(* policy prescribe that were live while the query ran, however often both  *)
(* are replaced meanwhile (resolver.go, spoof.go).                          *)
THEOREM AnswersAreExplained == Spec => []AnswerExplained
<1>1. IInv => AnswerExplained
  BY DEF IInv, ResInv
<1> QED BY <1>1, Invariance, PTL

(* The rotation of the secret is all or nothing: for any number of          *)
(* overlapping requests, unless a compensation failed or met another        *)
(* request (mtproxy_settings.go, mtgctl.go).                                *)
THEOREM RotationIsAtomic == Spec => []MtgConsistent
<1>1. IInv => MtgConsistent
  BY MtgInvImplies DEF IInv
<1> QED BY <1>1, Invariance, PTL
=============================================================================
