------------------------------ MODULE Mtproxy ------------------------------
(***************************************************************************)
(* The control of mtg.service (internal/mtgctl) and the requests of the    *)
(* panel that use it (internal/api/mtproxy_settings.go). The unit file     *)
(* carries the secret; systemd runs what it has loaded, so a new secret    *)
(* takes a write, a daemon-reload and a restart, and each may fail, with   *)
(* or without effect (every command has a 5 s ceiling). The requests take  *)
(* no lock. The listen address is read and written back and is left out.   *)
(*                                                                         *)
(* systemctl (external): restart starts the loaded unit; enable and        *)
(* disable reload the units first; enable --now leaves a running unit      *)
(* alone.                                                                  *)
(***************************************************************************)
EXTENDS Integers, FiniteSets

CONSTANTS
    MtgSlots,    \* requests that may be in flight
    Domains,     \* fronting domains
    MtgUpdates,  \* bodies of the update request: [domain, enabled], "none" for absent
    MaxSecrets   \* the secrets a run can generate: at least its requests

ASSUME MtproxyAssumption ==
    /\ IsFiniteSet(MtgSlots) /\ "none" \notin Domains
    /\ MtgUpdates \subseteq [domain : Domains \cup {"none"}, enabled : {"none", "on", "off"}]
    /\ MaxSecrets \in Nat

VARIABLES
    unit,     \* the unit file: absent, written by somebody else, or ours with a secret
    loaded,   \* what systemd has loaded
    running,  \* off, or the unit the process was started with
    minted,   \* secrets generated so far
    mreq,     \* the requests
    tainted   \* a compensation failed, or a command failed while requests overlapped

mtgVars == <<unit, loaded, running, minted, mreq, tainted>>

\* A secret carries the fronting domain it was generated for. Junk is the last word
\* of somebody else's command line, whatever that is.
Junk == <<"junk", 0>>
Secrets == (Domains \X (0..MaxSecrets)) \cup {Junk}
NoSecret == <<"none", 0>>
Absent == <<"absent", 0>>
Foreign == <<"foreign", 0>>
Off == <<"off", 0>>
Bare == <<"bare", 0>>
Units == Secrets \cup {Absent, Foreign, Bare}

\* ReadUnit and parseExecStart: the secret is the last word of the command line, also of
\* one that is not ours (Foreign). A missing file and a command of one word (Bare) have
\* none.
SecretOf(u) == IF u \in Secrets THEN u ELSE IF u = Foreign THEN Junk ELSE NoSecret

\* DecodeFrontingDomain
DomainOf(s) == s[1]

MtgIdle == [pc |-> "idle", kind |-> "update", want |-> "none", toggle |-> "none", old |-> NoSecret,
            target |-> NoSecret, prev |-> Absent, comp |-> FALSE, on |-> FALSE]

MtgPc == {"idle", "read", "generate", "write", "reload", "undo", "reload2", "active", "restart",
          "toggle", "snapshot", "ok", "failed", "undone"}

MtgReqType ==
    [pc : MtgPc, kind : {"update", "generate"}, want : Domains \cup {"none"},
     toggle : {"none", "on", "off"}, old : Secrets \cup {NoSecret},
     target : Secrets \cup {NoSecret}, prev : Units, comp : BOOLEAN, on : BOOLEAN]

MtgTypeOK ==
    /\ unit \in Units /\ loaded \in Units /\ running \in Units \cup {Off}
    /\ minted \in 0..MaxSecrets
    /\ tainted \in BOOLEAN
    /\ mreq \in [MtgSlots -> MtgReqType]

MtgInit ==
    /\ \E d \in Domains : unit \in {Absent, Bare, Foreign, <<d, 0>>}
    /\ loaded = unit
    /\ running \in IF unit = Absent THEN {Off} ELSE {Off, unit}
    /\ minted = 0 /\ tainted = FALSE
    /\ mreq = [m \in MtgSlots |-> MtgIdle]

Over == {"idle", "ok", "failed", "undone"}
InFlight(m) == mreq[m].pc \notin Over

\* No other request has been in flight since m arrived: answers that were given are
\* forgotten when the next request arrives.
Alone(m) == \A o \in MtgSlots \ {m} : mreq[o].pc = "idle"

At(m, pc) == mreq[m].pc = pc

\* An answer is all that is kept of a request that is over.
Goto(m, pc) ==
    mreq' = [mreq EXCEPT ![m] =
               IF pc \in Over
               THEN [MtgIdle EXCEPT !.pc = pc, !.old = mreq[m].old, !.target = mreq[m].target]
               ELSE [mreq[m] EXCEPT !.pc = pc]]

\* A command of m has failed: what the others do meanwhile is no longer undone cleanly.
Failing(m) == tainted' = (tainted \/ ~Alone(m))

-----------------------------------------------------------------------------
(* The handlers up to the write                                             *)

\* A request arrives; the answers that were given are forgotten. One that arrives
\* while another is being undone meets a state that is neither old nor new.
MtgArrive(m, kind, domain, toggle) ==
    /\ ~InFlight(m)
    /\ mreq' = [o \in MtgSlots |->
                  IF o = m THEN [MtgIdle EXCEPT !.pc = "read", !.kind = kind, !.want = domain,
                                                !.toggle = toggle]
                  ELSE IF InFlight(o) THEN mreq[o] ELSE MtgIdle]
    /\ tainted' = (tainted \/ \E o \in MtgSlots \ {m} :
                                 mreq[o].comp \/ mreq[o].pc \in {"undo", "reload2"})
    /\ UNCHANGED <<unit, loaded, running, minted>>

\* handleUpdateMTProxySettings
MtgUpdate(m) == \E b \in MtgUpdates : MtgArrive(m, "update", b.domain, b.enabled)

\* handleGenerateMTProxySecret
MtgGenerate(m) == \E d \in Domains : MtgArrive(m, "generate", d, "none")

\* ReadUnit. An update rotates only when it names another domain.
MtgRead(m) ==
    /\ At(m, "read")
    /\ LET s == SecretOf(unit)
           rotate == /\ mreq[m].want /= "none"
                     /\ mreq[m].want /= DomainOf(s) \/ mreq[m].kind = "generate"
       IN mreq' = [mreq EXCEPT ![m].old = s, ![m].target = s,
                               ![m].pc = IF rotate THEN "generate" ELSE "toggle"]
    /\ UNCHANGED <<unit, loaded, running, minted, tainted>>

\* GenerateSecret
MtgMint(m) ==
    /\ At(m, "generate")
    /\ minted' = minted + 1
    /\ mreq' = [mreq EXCEPT ![m].target = <<mreq[m].want, minted + 1>>, ![m].pc = "write"]
    /\ UNCHANGED <<unit, loaded, running, tainted>>

\* The file cannot be read, or the mtg binary fails: nothing has been touched.
MtgEarlyFailure(m) ==
    /\ \/ At(m, "read") /\ Goto(m, "failed")
       \/ At(m, "generate") /\ Goto(m, "undone")
    /\ UNCHANGED <<unit, loaded, running, minted, tainted>>

-----------------------------------------------------------------------------
(* WriteUnit and restoreMTGUnit, which calls it with the old secret         *)

Aim(m) == IF mreq[m].comp THEN mreq[m].old ELSE mreq[m].target

\* The file is replaced by rename; what it said is kept to undo the write.
WriteFile(m) ==
    /\ At(m, "write")
    /\ mreq' = [mreq EXCEPT ![m].prev = unit, ![m].pc = "reload"]
    /\ unit' = Aim(m)
    /\ UNCHANGED <<loaded, running, minted, tainted>>

WriteFails(m) ==
    /\ At(m, "write")
    /\ IF mreq[m].comp
       THEN Goto(m, "failed") /\ tainted' = TRUE
       ELSE Goto(m, "undone") /\ UNCHANGED tainted
    /\ UNCHANGED <<unit, loaded, running, minted>>

Reload(m) ==
    /\ At(m, "reload")
    /\ loaded' = unit
    /\ Goto(m, IF ~mreq[m].comp THEN "active" ELSE IF mreq[m].on THEN "restart" ELSE "undone")
    /\ UNCHANGED <<unit, running, minted, tainted>>

ReloadFails(m) ==
    /\ At(m, "reload")
    /\ loaded' \in {loaded, unit}
    /\ Goto(m, "undo")
    /\ Failing(m)
    /\ UNCHANGED <<unit, running, minted>>

\* Mutant: a failed reload leaves the new file in place.
KeepNewFile(m) ==
    /\ At(m, "undo")
    /\ Goto(m, "reload2")
    /\ UNCHANGED <<unit, loaded, running, minted, tainted>>

\* The file is put back, or removed when there was none.
UndoWrite(m) ==
    /\ At(m, "undo")
    /\ unit' = mreq[m].prev
    /\ Goto(m, "reload2")
    /\ UNCHANGED <<loaded, running, minted, tainted>>

\* The second reload. Within a compensation WriteUnit fails whatever it does here.
ReloadOld(m) ==
    /\ At(m, "reload2")
    /\ loaded' = unit
    /\ IF mreq[m].comp
       THEN Goto(m, "failed") /\ tainted' = TRUE
       ELSE Goto(m, "undone") /\ UNCHANGED tainted
    /\ UNCHANGED <<unit, running, minted>>

\* The undo itself fails: the file is not put back, or not loaded.
UndoFails(m) ==
    /\ \/ At(m, "undo") /\ UNCHANGED loaded
       \/ At(m, "reload2") /\ loaded' \in {loaded, unit}
    /\ Goto(m, "failed")
    /\ tainted' = TRUE
    /\ UNCHANGED <<unit, running, minted>>

\* restoreMTGUnit: nothing to restore without an old secret.
Compensate(m, wasActive) ==
    IF mreq[m].old = NoSecret
    THEN Goto(m, "failed") /\ tainted' = TRUE
    ELSE /\ mreq' = [mreq EXCEPT ![m].comp = TRUE, ![m].on = wasActive, ![m].pc = "write"]
         /\ Failing(m)

-----------------------------------------------------------------------------
(* After the write                                                          *)

\* IsActive decides on the restart.
IsActive(m) ==
    /\ At(m, "active")
    /\ unit /= Absent
    /\ Goto(m, IF running /= Off THEN "restart" ELSE "toggle")
    /\ UNCHANGED <<unit, loaded, running, minted, tainted>>

IsActiveFails(m) ==
    /\ At(m, "active")
    /\ Compensate(m, FALSE)
    /\ UNCHANGED <<unit, loaded, running, minted>>

Restart(m) ==
    /\ At(m, "restart")
    /\ unit /= Absent
    /\ running' = loaded
    /\ Goto(m, IF mreq[m].comp THEN "undone" ELSE "toggle")
    /\ UNCHANGED <<unit, loaded, minted, tainted>>

\* A restart that fails may have stopped the process, or have come too late.
RestartFails(m) ==
    /\ At(m, "restart")
    /\ running' \in IF unit = Absent THEN {running} ELSE {running, loaded, Off}
    /\ IF mreq[m].comp THEN Goto(m, "failed") /\ tainted' = TRUE ELSE Compensate(m, TRUE)
    /\ UNCHANGED <<unit, loaded, minted>>

\* Enable, Disable, or neither.
Toggle(m) ==
    /\ At(m, "toggle")
    /\ mreq[m].toggle /= "none" => unit /= Absent
    /\ mreq[m].toggle = "on" => mreq[m].target /= NoSecret
    /\ loaded' = IF mreq[m].toggle = "none" THEN loaded ELSE unit
    /\ running' = CASE mreq[m].toggle = "off" -> Off
                    [] mreq[m].toggle = "on" /\ running = Off -> unit
                    [] OTHER -> running
    /\ Goto(m, "snapshot")
    /\ UNCHANGED <<unit, minted, tainted>>

\* Enabling without a secret is refused; a command that fails may have had its effect.
ToggleFails(m) ==
    /\ At(m, "toggle") /\ mreq[m].toggle /= "none"
    /\ \/ UNCHANGED <<loaded, running>>
       \/ /\ unit /= Absent /\ (mreq[m].toggle = "on" => mreq[m].target /= NoSecret)
          /\ loaded' = unit
          /\ running' = IF mreq[m].toggle = "off" THEN Off
                        ELSE IF running = Off THEN unit ELSE running
    /\ Goto(m, "failed")
    /\ UNCHANGED <<unit, minted, tainted>>

\* readMTGSnapshot for the answer, which is an error when a read fails. The generate
\* request answers without it.
MtgAnswer(m) ==
    /\ At(m, "snapshot")
    /\ Goto(m, "ok") \/ (mreq[m].kind = "update" /\ Goto(m, "failed"))
    /\ UNCHANGED <<unit, loaded, running, minted, tainted>>

MtgStep(m) ==
    \/ MtgRead(m) \/ MtgMint(m) \/ MtgEarlyFailure(m)
    \/ WriteFile(m) \/ WriteFails(m) \/ Reload(m) \/ ReloadFails(m) \/ UndoWrite(m) \/ ReloadOld(m)
    \/ UndoFails(m) \/ IsActive(m) \/ IsActiveFails(m) \/ Restart(m) \/ RestartFails(m)
    \/ Toggle(m) \/ ToggleFails(m) \/ MtgAnswer(m)

\* The daemon stops in the middle of its requests: nobody finishes them.
MtgCrash ==
    /\ mreq' = [m \in MtgSlots |-> MtgIdle]
    /\ tainted' = (tainted \/ \E m \in MtgSlots : InFlight(m))
    /\ UNCHANGED <<unit, loaded, running, minted>>

-----------------------------------------------------------------------------
\* The process p is off or has the secret of the file u. They may differ in the rest:
\* restoreMTGUnit writes the file in our form.
Serves(p, u) == p = Off \/ SecretOf(p) = SecretOf(u)

\* Rotation is all or nothing. Whatever the order in which requests interleave and
\* whichever single request fails, once they have ended the running proxy has the
\* secret that the unit file, the panel and the connect links show, unless a
\* compensation failed too or met another request. And a request that had the host
\* for itself has its new secret in place when it answers ok, the old one when it
\* says that it failed before or while rotating.
MtgConsistent ==
    /\ MtgTypeOK
    /\ ~tainted /\ (\A m \in MtgSlots : ~InFlight(m)) => Serves(running, unit) /\ loaded = unit
    /\ \A m \in MtgSlots : ~tainted /\ Alone(m) =>
          /\ mreq[m].pc = "ok" => SecretOf(unit) = mreq[m].target
          /\ mreq[m].pc = "undone" => SecretOf(unit) = mreq[m].old

=============================================================================
