------------------------------ MODULE Applier ------------------------------
(***************************************************************************)
(* The change pipeline of the daemon: core.Applier (internal/core/         *)
(* applier.go) driving the systemd orchestrator (module Systemd) on behalf *)
(* of concurrent callers - panel handlers, the control socket and the      *)
(* Telegram bot - over the SQLite tables rule_versions, exits and          *)
(* apply_status and the published resolver table.                          *)
(*                                                                         *)
(* A rule set stands for its YAML, its hash and the table built from it.   *)
(* A configuration is what Assemble layers together: the effective rules   *)
(* and the active exit.                                                    *)
(***************************************************************************)
EXTENDS Integers, Sequences, FiniteSets

CONSTANTS
    Clients,      \* goroutines that call into the Applier
    NoClient,     \* no goroutine
    RuleSets,     \* the rule sets a caller can submit
    NoRules,      \* the effective rules while no rule version is active
    Exits,        \* exit ids
    Direct,       \* the seeded, initially active exit
    Down,         \* see Systemd
    TerminalCap,  \* applyTerminalCacheCap
    MaxVersions,  \* bound: rows of rule_versions
    MaxRows,      \* bound: rows of apply_status
    MaxFaults,    \* bound: failures of the database, the files and systemctl
    MaxCrashes,   \* bound: daemon restarts
    MayStall      \* TRUE: the observation budget may run out before the probe

ASSUME ApplierAssumption ==
    /\ NoClient \notin Clients
    /\ NoRules \notin RuleSets
    /\ Direct \in Exits
    /\ TerminalCap \in Nat \ {0}
    /\ MaxVersions \in Nat /\ MaxRows \in Nat
    /\ MaxFaults \in Nat /\ MaxCrashes \in Nat
    /\ MayStall \in BOOLEAN

Configs == [rules : RuleSets \cup {NoRules}, exit : Exits]

ASSUME DownAssumption == Down \notin Configs

BootConfig == [rules |-> NoRules, exit |-> Direct]

VARIABLES
    \* the orchestrator, the files and the units
    applyMu, lastGood, disk, running, stage, op, async, cand, prev,
    restoreOk, health, agreed, outcome,
    \* the database
    versions,       \* rule_versions: the rule set of row i is versions[i]
    activeRv,       \* the active rule version, 0 for none
    exits,          \* exits: the ids that have a row
    activeExit,     \* the row with active = 1
    rows,           \* apply_status
    \* the Applier
    variation,      \* variationActive
    inflight,       \* inflight: one record per registered rules apply
    switchInflight, \* switchInflight: one record per registered exit switch
    protected,      \* protectedExits
    terminal,       \* terminalStatus in the order of terminalOrder
    deleting,       \* exit ids a DeleteExit that holds a.mu has checked
    \* the resolver, the callers, the callbacks of the orchestrator
    table,          \* the published RuleTable
    req,            \* the call each client is in
    job,            \* the ApplyRequest of the orchestrator's lifecycle
    hook,           \* where a callback of the orchestrator stands
    settle,         \* the switch whose entry was taken and that is being settled
    \* history
    trusted,        \* no lifecycle was cut short or failed since the last confirmed one
    faults,         \* failures so far
    crashes         \* restarts so far

orchVars == <<applyMu, lastGood, disk, running, stage, op, async, cand, prev,
              restoreOk, health, agreed, outcome>>
dbVars == <<versions, activeRv, exits, activeExit, rows>>
memVars == <<variation, inflight, switchInflight, protected, terminal,
             deleting, table>>
callVars == <<req, job, hook, settle>>
history == <<trusted, faults, crashes>>
vars == <<orchVars, dbVars, memVars, callVars, history>>

Orch == INSTANCE Systemd

----------------------------------------------------------------------------
(* Snapshots.  A rules snapshot is identified by the hash of its rules, so  *)
(* the same rule set always has the same snapshot id; every exit switch     *)
(* has a snapshot of its own.                                               *)
NoSnap == [kind |-> "none", id |-> 0]
RulesSnap(r) == [kind |-> "rules", id |-> r]
SwitchSnap(n) == [kind |-> "switch", id |-> n]
Snapshots == {NoSnap} \cup [kind : {"rules"}, id : RuleSets]
                      \cup [kind : {"switch"}, id : Nat]

Terminal == {"confirmed", "rolled_back", "failed"}

(* The rules of a rule version id, 0 standing for no active version. *)
RulesOf(rv) == IF rv = 0 THEN NoRules ELSE versions[rv]

SnapOf(rv) == IF rv = 0 THEN NoSnap ELSE RulesSnap(versions[rv])

(* core.Assemble over the current database. *)
Assembled == [rules |-> RulesOf(activeRv), exit |-> activeExit]

IdleReq == [pc |-> "idle", snap |-> NoSnap, rv |-> 0, prev |-> NoSnap, row |-> 0,
            exit |-> Direct, prior |-> Direct, cfg |-> BootConfig, res |-> "none"]

(* The request the orchestrator carries, with the caller that waits for it. *)
NoJob == [snap |-> NoSnap, client |-> NoClient, seen |-> NoSnap,
          prior |-> Direct, new |-> Direct]

(* The locals of the goroutine, a caller or the observer, that has taken a  *)
(* switch out of switchInflight: compensateSwitch and persistApplyStatus    *)
(* are still to come, or only the latter.                                   *)
NoSettle == [step |-> "none", row |-> 0, snap |-> NoSnap, prior |-> Direct,
             state |-> "confirmed"]

Init ==
    /\ Orch!OrchInit
    /\ versions = <<>>
    /\ activeRv = 0
    /\ exits \in {X \in SUBSET Exits : Direct \in X}
    /\ activeExit = Direct
    /\ rows = <<>>
    /\ variation = FALSE
    /\ inflight = {}
    /\ switchInflight = {}
    /\ protected = [e \in Exits |-> 0]
    /\ terminal = <<>>
    /\ deleting = {}
    /\ table = NoRules
    /\ req = [c \in Clients |-> IdleReq]
    /\ job = NoJob
    /\ hook = "none"
    /\ settle = NoSettle
    /\ trusted = TRUE
    /\ faults = 0
    /\ crashes = 0

----------------------------------------------------------------------------
(* Pieces of the Applier's methods. *)

(* n more failures happen in a step. *)
Faults(n) ==
    /\ faults' = faults + n
    /\ faults' <= MaxFaults

Count(b) == IF b THEN 1 ELSE 0

(* a.mu is free: only DeleteExit keeps it across a database call. *)
MuFree == deleting = {}

(* The places of terminalOrder that hold snapshot s. *)
TerminalAt(s) == {i \in 1..Len(terminal) : terminal[i].snap = s}

(* clearTerminalStatus: the place that holds s, there is at most one, is    *)
(* cut out.                                                                 *)
ClearTerminal(s) ==
    IF TerminalAt(s) = {} THEN terminal
    ELSE LET i == CHOOSE j \in TerminalAt(s) : TRUE
         IN  SubSeq(terminal, 1, i - 1) \o SubSeq(terminal, i + 1, Len(terminal))

(* Mutant: the eviction starts one entry too early. *)
RecordTerminalShort(s, state) ==
    LET new == Append(terminal, [snap |-> s, state |-> state])
    IN  IF Len(new) >= TerminalCap THEN Tail(new) ELSE new

(* recordTerminalStatus: an entry keeps its place; the oldest is evicted. *)
RecordTerminal(s, state) ==
    LET known == TerminalAt(s) # {}
        entry == [snap |-> s, state |-> state]
        new   == IF known
                   THEN [i \in 1..Len(terminal) |->
                           IF terminal[i].snap = s THEN entry ELSE terminal[i]]
                   ELSE Append(terminal, entry)
    IN  IF Len(new) > TerminalCap THEN Tail(new) ELSE new

(* Mutant: the variation is not ended. *)
KeepVariation == UNCHANGED variation

EndVariation == variation' = FALSE

RegisterInflight(info) == {i \in inflight : i.snap # info.snap} \cup {info}

(* Mutant: the entry of a finished apply is kept. *)
KeepInflight(s) == inflight

ClearInflight(s) == {i \in inflight : i.snap # s}

(* Mutant: the switch is dispatched without an entry. *)
RegisterNoSwitch(info) == switchInflight

RegisterSwitchInflight(info) ==
    {i \in switchInflight : i.snap # info.snap} \cup {info}

ClearSwitchInflight(s) == {i \in switchInflight : i.snap # s}

(* Mutant: the resolver keeps the table it has. *)
PublishNothing(r) == UNCHANGED table

Publish(r) == table' = r

(* Mutant: a failed UPDATE is only logged. *)
PersistWithoutFallback(row, s, state, ok) ==
    /\ rows' = IF ok THEN [rows EXCEPT ![row].state = state] ELSE rows
    /\ terminal' = ClearTerminal(s)

(* persistApplyStatus: the UPDATE, or the in-memory fallback when it fails. *)
PersistApplyStatus(row, s, state, ok) ==
    /\ rows' = IF ok THEN [rows EXCEPT ![row].state = state] ELSE rows
    /\ terminal' = IF ok THEN ClearTerminal(s) ELSE RecordTerminal(s, state)

(* Mutant: the pointer is left where the failed switch put it. *)
CompensateNothing(prior, ok) ==
    /\ ok => prior \in exits
    /\ UNCHANGED activeExit

(* compensateSwitch: the pointer goes back to prior, or - when the UPDATE   *)
(* fails, for instance because the request context is cancelled - stays.    *)
CompensateSwitch(prior, ok) ==
    /\ ok => prior \in exits
    /\ activeExit' = IF ok THEN prior ELSE activeExit

(* Mutant: only the new exit is protected. *)
ProtectNewOnly(a, b) ==
    [e \in Exits |-> protected[e] + (IF e = b THEN 1 ELSE 0)]

Protect(a, b) ==
    [e \in Exits |-> protected[e] + (IF e = a THEN 1 ELSE 0) + (IF e = b THEN 1 ELSE 0)]

(* Mutant: the prior exit stays protected. *)
UnprotectNewOnly(a, b) ==
    [protected EXCEPT ![b] = IF @ <= 1 THEN 0 ELSE @ - 1]

(* unprotectSwitchExits never goes below zero. *)
Unprotect(a, b) ==
    LET less(n) == IF n <= 1 THEN 0 ELSE n - 1
        once    == [protected EXCEPT ![a] = less(@)]
    IN  [once EXCEPT ![b] = less(@)]

(* The history variable: what a terminal state says about both planes. *)
Trust(state) ==
    trusted' = CASE state = "confirmed" -> TRUE
                 [] state = "failed" -> FALSE
                 [] OTHER -> trusted

(* Mutant: the orchestrator's status is stored as it is. *)
TerminalStateRaw(r) == r

(* Mutant: whatever is not a success was rolled back. *)
TerminalStateOptimistic(r) == IF r = "ok" THEN "confirmed" ELSE "rolled_back"

(* applyTerminalState *)
TerminalState(r) == IF r = "ok" THEN "confirmed" ELSE r

----------------------------------------------------------------------------
(* The callers of ApplyRules.  Reading the active version and inserting     *)
(* the inactive candidate precede the call and hold no lock.                *)

Prepared(c, rv, seen) ==
    req' = [req EXCEPT ![c] = [IdleReq EXCEPT !.pc = "rules",
                                  !.snap = RulesSnap(versions'[rv]),
                                  !.rv = rv, !.prev = seen]]

(* handleApply: the caller's view of the active snapshot is passed along. *)
HandleApply(c, r) ==
    /\ req[c].pc = "idle"
    /\ Len(versions) < MaxVersions
    /\ versions' = Append(versions, r)
    /\ Prepared(c, Len(versions) + 1, SnapOf(activeRv))
    /\ UNCHANGED <<orchVars, activeRv, exits, activeExit, rows, memVars, job,
                   hook, settle, history>>

(* ImportRules passes no previous snapshot. *)
ImportRules(c, r) ==
    /\ req[c].pc = "idle"
    /\ Len(versions) < MaxVersions
    /\ versions' = Append(versions, r)
    /\ Prepared(c, Len(versions) + 1, NoSnap)
    /\ UNCHANGED <<orchVars, activeRv, exits, activeExit, rows, memVars, job,
                   hook, settle, history>>

(* handleRollbackSnapshot: the newest version of the chosen snapshot. *)
HandleRollbackSnapshot(c, r) ==
    /\ req[c].pc = "idle"
    /\ \E rv \in DOMAIN versions :
          /\ versions[rv] = r
          /\ \A i \in DOMAIN versions : versions[i] = r => i <= rv
          /\ versions' = versions
          /\ Prepared(c, rv, SnapOf(activeRv))
    /\ UNCHANGED <<orchVars, activeRv, exits, activeExit, rows, memVars, job,
                   hook, settle, history>>

(* cmdRulesRollback: the newest version other than the active one. *)
CmdRulesRollback(c) ==
    /\ req[c].pc = "idle"
    /\ activeRv # 0
    /\ \E rv \in DOMAIN versions \ {activeRv} :
          /\ \A i \in DOMAIN versions \ {activeRv} : i <= rv
          /\ versions' = versions
          /\ Prepared(c, rv, SnapOf(activeRv))
    /\ UNCHANGED <<orchVars, activeRv, exits, activeExit, rows, memVars, job,
                   hook, settle, history>>

----------------------------------------------------------------------------
(* ApplyRules *)

(* Mutant: the caller's previous snapshot is not compared. *)
NeverStale(c) == FALSE

(* The caller's previous snapshot is no longer the active one. *)
Stale(c) ==
    /\ req[c].prev # NoSnap
    /\ activeRv # 0
    /\ req[c].prev # SnapOf(activeRv)

(* beginVariation fails, or the previous snapshot is stale. *)
RulesRefused(c) ==
    /\ req[c].pc = "rules"
    /\ MuFree
    /\ variation \/ Stale(c)
    /\ req' = [req EXCEPT ![c] = IdleReq]
    /\ UNCHANGED <<orchVars, dbVars, memVars, job, hook, settle, history>>

(* A read, Assemble or InsertApplyStatus fails: the variation is released. *)
RulesFault(c) ==
    /\ req[c].pc = "rules"
    /\ MuFree
    /\ ~variation
    /\ req' = [req EXCEPT ![c] = IdleReq]
    /\ Faults(1)
    /\ UNCHANGED <<orchVars, dbVars, memVars, job, hook, settle, trusted,
                   crashes>>

(* beginVariation up to registerInflight. *)
ApplyRules(c) ==
    LET row  == Len(rows) + 1
        info == [snap |-> req[c].snap, row |-> row, rv |-> req[c].rv,
                 priorRv |-> activeRv, committed |-> FALSE]
    IN  /\ req[c].pc = "rules"
        /\ MuFree
        /\ ~variation
        /\ ~Stale(c)
        /\ row <= MaxRows
        /\ variation' = TRUE
        /\ rows' = Append(rows, [snap |-> req[c].snap, state |-> "submitted"])
        /\ terminal' = ClearTerminal(req[c].snap)
        /\ inflight' = RegisterInflight(info)
        /\ req' = [req EXCEPT ![c].pc = "dispatch", ![c].row = row,
                              ![c].cfg = [rules |-> versions[req[c].rv],
                                          exit |-> activeExit]]
        /\ UNCHANGED <<orchVars, versions, activeRv, exits, activeExit,
                       switchInflight, protected, deleting, table, job, hook,
                       settle, history>>

----------------------------------------------------------------------------
(* SwitchExit *)

(* beginVariation and the read of the active exit. *)
SwitchExit(c, e) ==
    /\ req[c].pc = "idle"
    /\ Len(rows) < MaxRows
    /\ MuFree
    /\ ~variation
    /\ variation' = TRUE
    /\ req' = [req EXCEPT ![c] = [IdleReq EXCEPT !.pc = "protect", !.exit = e,
                                                 !.prior = activeExit]]
    /\ UNCHANGED <<orchVars, dbVars, inflight, switchInflight, protected,
                   terminal, deleting, table, job, hook, settle, history>>

ProtectSwitchExits(c) ==
    /\ req[c].pc = "protect"
    /\ MuFree
    /\ protected' = Protect(req[c].prior, req[c].exit)
    /\ req' = [req EXCEPT ![c].pc = "flip"]
    /\ UNCHANGED <<orchVars, dbVars, variation, inflight, switchInflight,
                   terminal, deleting, table, job, hook, settle, history>>

(* The deferred unprotectSwitchExits and endVariation of a returning call. *)
SwitchReturns(c) ==
    /\ MuFree
    /\ protected' = Unprotect(req[c].prior, req[c].exit)
    /\ EndVariation
    /\ req' = [req EXCEPT ![c] = IdleReq]

(* ExitStore.Switch moves the pointer before anything is rendered. *)
FlipExit(c) ==
    /\ req[c].pc = "flip"
    /\ req[c].exit \in exits
    /\ activeExit' = req[c].exit
    /\ req' = [req EXCEPT ![c].pc = "record"]
    /\ UNCHANGED <<orchVars, versions, activeRv, exits, rows, memVars, job,
                   hook, settle, history>>

(* The exit does not exist, or the transaction fails. *)
FlipFails(c) ==
    /\ req[c].pc = "flip"
    /\ SwitchReturns(c)
    /\ Faults(Count(req[c].exit \in exits))
    /\ UNCHANGED <<orchVars, dbVars, inflight, switchInflight, terminal,
                   deleting, table, job, hook, settle, trusted, crashes>>

(* Assemble, InsertSnapshot, InsertApplyStatus, registerSwitchInflight. *)
RecordSwitch(c) ==
    LET row == Len(rows) + 1
        s   == SwitchSnap(row)
    IN  /\ req[c].pc = "record"
        /\ MuFree
        /\ rows' = Append(rows, [snap |-> s, state |-> "submitted"])
        /\ terminal' = ClearTerminal(s)
        /\ switchInflight' =
             RegisterSwitchInflight([snap |-> s, row |-> row,
                                     new |-> req[c].exit, prior |-> req[c].prior])
        /\ req' = [req EXCEPT ![c].pc = "dispatch", ![c].row = row,
                              ![c].snap = s, ![c].cfg = Assembled]
        /\ UNCHANGED <<orchVars, versions, activeRv, exits, activeExit,
                       variation, inflight, protected, deleting, table, job,
                       hook, settle, history>>

(* One of them fails: the switch is compensated, no row tells of it. *)
RecordSwitchFails(c) ==
    /\ req[c].pc = "record"
    /\ SwitchReturns(c)
    /\ \E ok \in BOOLEAN :
          /\ CompensateSwitch(req[c].prior, ok)
          /\ Trust(IF ok THEN "rolled_back" ELSE "failed")
          /\ Faults(1 + Count(~ok))
    /\ UNCHANGED <<orchVars, versions, activeRv, exits, rows, inflight,
                   switchInflight, terminal, deleting, table, job, hook, settle,
                   crashes>>

----------------------------------------------------------------------------
(* Orch.Apply, its synchronous results and what the caller does with them. *)

IsSwitch(s) == s.kind = "switch"

Dispatch(c) ==
    /\ req[c].pc = "dispatch"
    /\ Orch!Apply(req[c].cfg)
    /\ job' = [snap |-> req[c].snap, client |-> c, seen |-> req[c].prev,
               prior |-> req[c].prior, new |-> req[c].exit]
    /\ req' = [req EXCEPT ![c].pc = "applying"]
    /\ UNCHANGED <<dbVars, memVars, hook, settle, history>>

DispatchSnapshotFails(c) ==
    /\ req[c].pc = "dispatch"
    /\ Orch!SnapshotFails("apply")
    /\ req' = [req EXCEPT ![c].pc = "return", ![c].res = "failed"]
    /\ Faults(1)
    /\ UNCHANGED <<dbVars, memVars, job, hook, settle, trusted, crashes>>

(* applyMu is still held by the observer of the previous lifecycle, which   *)
(* ends its variation before it unlocks: ErrApplyInFlight.                  *)
DispatchRejected(c) ==
    /\ req[c].pc = "dispatch"
    /\ applyMu
    /\ req' = [req EXCEPT ![c].pc = "return", ![c].res = "rolled_back"]
    /\ UNCHANGED <<orchVars, dbVars, memVars, job, hook, settle, history>>

(* The result of a finished lifecycle reaches a caller that still waits. *)
CallerReturns ==
    req' = IF async THEN req
           ELSE [req EXCEPT ![job.client].pc = "return",
                            ![job.client].res = outcome']

(* ApplyRules after a synchronous result. *)
RulesReturn(c) ==
    LET state == TerminalState(req[c].res)
    IN  /\ req[c].pc = "return"
        /\ ~IsSwitch(req[c].snap)
        /\ MuFree
        /\ \E ok \in BOOLEAN :
              /\ PersistApplyStatus(req[c].row, req[c].snap, state, ok)
              /\ Faults(Count(~ok))
        /\ inflight' = ClearInflight(req[c].snap)
        /\ EndVariation
        /\ Trust(state)
        /\ req' = [req EXCEPT ![c] = IdleReq]
        /\ job' = NoJob
        /\ UNCHANGED <<orchVars, versions, activeRv, exits, activeExit,
                       switchInflight, protected, deleting, table, hook, settle,
                       crashes>>

(* SwitchExit after a synchronous success: the row is written before the    *)
(* entry is removed.                                                        *)
SwitchConfirmed(c) ==
    /\ req[c].pc = "return"
    /\ IsSwitch(req[c].snap)
    /\ req[c].res = "ok"
    /\ \E ok \in BOOLEAN :
          /\ PersistApplyStatus(req[c].row, req[c].snap, "confirmed", ok)
          /\ Faults(Count(~ok))
    /\ switchInflight' = ClearSwitchInflight(req[c].snap)
    /\ Trust("confirmed")
    /\ SwitchReturns(c)
    /\ job' = NoJob
    /\ UNCHANGED <<orchVars, versions, activeRv, exits, activeExit, inflight,
                   deleting, table, hook, settle, crashes>>

(* SwitchExit after an error: the entry is removed first, and compensation  *)
(* and the status write follow as steps of their own.                       *)
SwitchReturn(c) ==
    /\ req[c].pc = "return"
    /\ IsSwitch(req[c].snap)
    /\ req[c].res # "ok"
    /\ MuFree
    /\ switchInflight' = ClearSwitchInflight(req[c].snap)
    /\ settle' = [step |-> "compensate", row |-> req[c].row, snap |-> req[c].snap,
                  prior |-> req[c].prior, state |-> req[c].res]
    /\ Trust(req[c].res)
    /\ req' = [req EXCEPT ![c].pc = "release"]
    /\ UNCHANGED <<orchVars, dbVars, variation, inflight, protected, terminal,
                   deleting, table, job, hook, faults, crashes>>

(* The deferred calls, once the switch is settled. *)
SwitchReleases(c) ==
    /\ req[c].pc = "release"
    /\ settle.step = "none"
    /\ SwitchReturns(c)
    /\ job' = NoJob
    /\ UNCHANGED <<orchVars, dbVars, inflight, switchInflight, terminal,
                   deleting, table, hook, settle, history>>

(* compensateSwitch: the pointer goes back, or the change has failed.  The  *)
(* database is used without a.mu.                                           *)
SettleCompensates ==
    /\ settle.step = "compensate"
    /\ \E ok \in BOOLEAN :
          LET state == IF ok THEN settle.state ELSE "failed"
          IN  /\ CompensateSwitch(settle.prior, ok)
              /\ settle' = [settle EXCEPT !.step = "persist", !.state = state]
              /\ Trust(state)
              /\ Faults(Count(~ok))
    /\ UNCHANGED <<orchVars, versions, activeRv, exits, rows, memVars, req, job,
                   hook, crashes>>

(* persistApplyStatus of a switch whose entry is gone. *)
SettlePersists ==
    /\ settle.step = "persist"
    /\ MuFree
    /\ \E ok \in BOOLEAN :
          /\ PersistApplyStatus(settle.row, settle.snap, settle.state, ok)
          /\ Faults(Count(~ok))
    /\ settle' = NoSettle
    /\ UNCHANGED <<orchVars, versions, activeRv, exits, activeExit, variation,
                   inflight, switchInflight, protected, deleting, table, req,
                   job, hook, trusted, crashes>>

----------------------------------------------------------------------------
(* The orchestrator's lifecycle. *)

(* A reload of a unit that is down fails without a failure of its own. *)
ReloadFault(k) == Count(k = 3 \/ running[Orch!UnitOrder[k]] # Down)

(* Steps that concern neither the caller nor the database. *)
DataPlaneStep ==
    /\ \/ (Orch!Render \/ Orch!ProbeOk) /\ Faults(0)
       \/ \E k \in 1..3 : \/ Orch!RenderFails(k) /\ Faults(1)
                          \/ Orch!ReloadFails(k) /\ Faults(ReloadFault(k))
       \/ \E bad \in SUBSET Orch!Units : Orch!Restore(bad) /\ Faults(Count(bad # {}))
       \/ Orch!ProbeFails /\ Faults(1)
    /\ UNCHANGED <<dbVars, memVars, callVars, trusted, crashes>>

(* Apply returns "observing", or goes on to the commit without a probe. *)
ReloadStep ==
    /\ Orch!Reload
    /\ req' = IF Orch!HealthCheck THEN [req EXCEPT ![job.client] = IdleReq]
           ELSE req
    /\ UNCHANGED <<dbVars, memVars, job, hook, settle, history>>

(* A lifecycle ends without success. *)
RollbackStep ==
    /\ \/ \E bad \in SUBSET Orch!Units : Orch!UndoRender(bad) /\ Faults(Count(bad # {}))
       \/ Orch!ReloadPrev /\ Faults(0)
       \/ \E k \in 1..3 : Orch!ReloadPrevFails(k) /\ Faults(ReloadFault(k))
    /\ CallerReturns
    /\ UNCHANGED <<dbVars, memVars, job, hook, settle, trusted, crashes>>

(* commitRuleApply: SetActiveRuleVersion, then - a step later - Publish.    *)
CommitActivate ==
    /\ stage = "commit"
    /\ hook = "none"
    /\ \E i \in inflight :
          /\ i.snap = job.snap
          /\ ~i.committed
          /\ activeRv' = i.rv
    /\ hook' = "publish"
    /\ UNCHANGED <<orchVars, versions, exits, activeExit, rows, memVars, req,
                   job, settle, history>>

CommitPublish ==
    /\ hook = "publish"
    /\ \E i \in inflight :
          /\ i.snap = job.snap
          /\ Publish(versions[i.rv])
          /\ inflight' = (inflight \ {i}) \cup {[i EXCEPT !.committed = TRUE]}
    /\ Orch!CommitOk
    /\ CallerReturns
    /\ hook' = "none"
    /\ UNCHANGED <<dbVars, variation, switchInflight, protected, terminal,
                   deleting, job, settle, history>>

(* SetActiveRuleVersion fails. *)
CommitRefused ==
    /\ hook = "none"
    /\ ~IsSwitch(job.snap)
    /\ Orch!CommitFails
    /\ Faults(1)
    /\ UNCHANGED <<dbVars, memVars, callVars, trusted, crashes>>

(* A switch has no Commit callback. *)
CommitSwitch ==
    /\ IsSwitch(job.snap)
    /\ Orch!CommitOk
    /\ CallerReturns
    /\ UNCHANGED <<dbVars, memVars, job, hook, settle, history>>

----------------------------------------------------------------------------
(* OnHealth, called by the observer with applyMu held. *)

(* A rules apply: the outcome is persisted and the entry removed.  The      *)
(* version is already active when the outcome is ok (commitRuleApply is     *)
(* idempotent), and was never activated when it is not.                     *)
OnHealthRules ==
    LET state == TerminalState(outcome)
    IN  /\ stage = "notify"
        /\ hook = "none"
        /\ MuFree
        /\ \E i \in inflight :
              /\ i.snap = job.snap
              /\ \E ok \in BOOLEAN :
                    /\ PersistApplyStatus(i.row, i.snap, state, ok)
                    /\ Faults(Count(~ok))
        /\ inflight' = ClearInflight(job.snap)
        /\ Trust(state)
        /\ hook' = "release"
        /\ UNCHANGED <<orchVars, versions, activeRv, exits, activeExit,
                       variation, switchInflight, protected, deleting, table,
                       req, job, settle, crashes>>

(* takeSwitchInflight, then finalizeSwitchOnHealth: unless confirmed the    *)
(* switch is compensated, then its row is written.                          *)
OnHealthSwitch ==
    LET state == TerminalState(outcome)
    IN  /\ stage = "notify"
        /\ hook = "none"
        /\ MuFree
        /\ \E i \in switchInflight :
              /\ i.snap = job.snap
              /\ switchInflight' = switchInflight \ {i}
              /\ settle' = [step |-> IF state = "confirmed" THEN "persist"
                                     ELSE "compensate",
                            row |-> i.row, snap |-> i.snap, prior |-> i.prior,
                            state |-> state]
        /\ Trust(state)
        /\ hook' = "release"
        /\ UNCHANGED <<orchVars, dbVars, variation, inflight, protected,
                       terminal, deleting, table, req, job, faults, crashes>>

(* The deferred unprotectSwitchExits and endVariation; OnHealth returns. *)
OnHealthReturns ==
    /\ hook = "release"
    /\ settle.step = "none"
    /\ MuFree
    /\ protected' = IF IsSwitch(job.snap)
                      THEN Unprotect(job.prior, job.new) ELSE protected
    /\ EndVariation
    /\ Orch!Notified
    /\ hook' = "none"
    /\ job' = NoJob
    /\ UNCHANGED <<dbVars, inflight, switchInflight, terminal, deleting, table,
                   req, settle, history>>

(* observeHealth unlocks applyMu, a step after the variation was ended. *)
ObserverUnlocks ==
    /\ Orch!Unlock
    /\ UNCHANGED <<dbVars, memVars, callVars, history>>

(* The observation is aborted: OnHealth is never called for this job. *)
ObservationAborted ==
    /\ MayStall
    /\ Orch!ObserveAborted
    /\ trusted' = FALSE
    /\ Faults(1)
    /\ UNCHANGED <<dbVars, memVars, callVars, crashes>>

----------------------------------------------------------------------------
(* Exits are added and deleted while changes are under way. *)

AddExit(e) ==
    /\ e \notin exits
    /\ exits' = exits \cup {e}
    /\ UNCHANGED <<orchVars, versions, activeRv, activeExit, rows, memVars,
                   callVars, history>>

(* Mutant: the protection of a switch is not looked at. *)
DeletableUnprotected(e) == e \in exits /\ e # activeExit

Deletable(e) == protected[e] = 0 /\ e \in exits /\ e # activeExit

(* DeleteExit takes a.mu, checks the protection and reads active = 0 ... *)
DeleteExitChecks(e) ==
    /\ MuFree
    /\ Deletable(e)
    /\ deleting' = {e}
    /\ UNCHANGED <<orchVars, dbVars, variation, inflight, switchInflight,
                   protected, terminal, table, callVars, history>>

(* ... and deletes the row a step later, still holding a.mu. *)
DeleteExitDeletes ==
    /\ ~MuFree
    /\ exits' = exits \ deleting
    /\ deleting' = {}
    /\ UNCHANGED <<orchVars, versions, activeRv, activeExit, rows, variation,
                   inflight, switchInflight, protected, terminal, table,
                   callVars, history>>

(* systemd or the operator starts a unit a failed reload left down. *)
UnitStarted ==
    /\ \E u \in Orch!Units : Orch!UnitStarted(u)
    /\ UNCHANGED <<dbVars, memVars, callVars, history>>

(* The daemon dies and boots: memory is lost, Assemble and BuildTable run   *)
(* over the database, no file is rendered and no apply_status row touched.  *)
Restart ==
    /\ crashes < MaxCrashes
    /\ crashes' = crashes + 1
    /\ Orch!OrchRestart(Assembled)
    /\ variation' = FALSE
    /\ inflight' = {}
    /\ switchInflight' = {}
    /\ protected' = [e \in Exits |-> 0]
    /\ terminal' = <<>>
    /\ deleting' = {}
    /\ Publish(RulesOf(activeRv))
    /\ req' = [c \in Clients |-> IdleReq]
    /\ job' = NoJob
    /\ hook' = "none"
    /\ settle' = NoSettle
    /\ trusted' = (trusted /\ ~variation)
    /\ UNCHANGED <<dbVars, faults>>

----------------------------------------------------------------------------
ClientStep(c) ==
    \/ RulesRefused(c) \/ RulesFault(c) \/ ApplyRules(c)
    \/ ProtectSwitchExits(c) \/ FlipExit(c) \/ FlipFails(c)
    \/ RecordSwitch(c) \/ RecordSwitchFails(c)
    \/ Dispatch(c) \/ DispatchSnapshotFails(c) \/ DispatchRejected(c)
    \/ RulesReturn(c)
    \/ SwitchConfirmed(c) \/ SwitchReturn(c) \/ SwitchReleases(c)

SettleStep == SettleCompensates \/ SettlePersists

NewCall(c) ==
    \/ \E r \in RuleSets : HandleApply(c, r) \/ ImportRules(c, r)
                             \/ HandleRollbackSnapshot(c, r)
    \/ CmdRulesRollback(c)
    \/ \E e \in Exits : SwitchExit(c, e)

ObserverStep ==
    \/ DataPlaneStep \/ ReloadStep \/ RollbackStep
    \/ CommitActivate \/ CommitPublish \/ CommitRefused \/ CommitSwitch
    \/ OnHealthRules \/ OnHealthSwitch \/ OnHealthReturns \/ ObserverUnlocks
    \/ ObservationAborted

ExitStep ==
    \/ \E e \in Exits : AddExit(e) \/ DeleteExitChecks(e)
    \/ DeleteExitDeletes

Next ==
    \/ \E c \in Clients : NewCall(c) \/ ClientStep(c)
    \/ SettleStep
    \/ ObserverStep
    \/ ExitStep
    \/ UnitStarted
    \/ Restart

Spec == Init /\ [][Next]_vars

(* Goroutines are scheduled, and sync.Mutex hands a.mu to a waiter that has *)
(* been overtaken for a millisecond: a step that is enabled again and again *)
(* is taken.                                                                *)
Fairness ==
    /\ \A c \in Clients : SF_vars(ClientStep(c))
    /\ SF_vars(SettleStep)
    /\ SF_vars(ObserverStep)
    /\ WF_vars(DeleteExitDeletes)

LiveSpec == Spec /\ Fairness

----------------------------------------------------------------------------
(* ruleApplyInfo, switchInfo, the call of a client and the request that the *)
(* orchestrator carries.                                                    *)
RuleApplyInfo ==
    [snap : Snapshots, row : 1..Len(rows), rv : 1..Len(versions),
     priorRv : 0..Len(versions), committed : BOOLEAN]

SwitchInfo == [snap : Snapshots, row : 1..Len(rows), new : Exits, prior : Exits]

Requests ==
    [pc : {"idle", "rules", "protect", "flip", "record", "dispatch", "applying",
           "return", "release"},
     snap : Snapshots, rv : 0..Len(versions), prev : Snapshots,
     row : 0..Len(rows), exit : Exits, prior : Exits, cfg : Configs,
     res : Orch!Outcomes]

Jobs ==
    [snap : Snapshots, client : Clients \cup {NoClient}, seen : Snapshots,
     prior : Exits, new : Exits]

Settling ==
    [step : {"none", "compensate", "persist"}, row : Nat,
     snap : Snapshots, prior : Exits, state : Terminal]

(* The state the program keeps is of the shape its types declare. *)
TypeOK ==
    /\ Orch!OrchTypeOK
    /\ versions \in Seq(RuleSets)
    /\ activeRv \in 0..Len(versions)
    /\ exits \subseteq Exits
    /\ activeExit \in Exits
    /\ rows \in Seq([snap : Snapshots, state : Terminal \cup {"submitted"}])
    /\ variation \in BOOLEAN
    /\ inflight \subseteq RuleApplyInfo
    /\ switchInflight \subseteq SwitchInfo
    /\ protected \in [Exits -> Nat]
    /\ terminal \in Seq([snap : Snapshots, state : Terminal])
    /\ deleting \subseteq Exits
    /\ table \in RuleSets \cup {NoRules}
    /\ req \in [Clients -> Requests]
    /\ job \in Jobs
    /\ hook \in {"none", "publish", "release"}
    /\ settle \in Settling
    /\ trusted \in BOOLEAN
    /\ faults \in 0..MaxFaults
    /\ crashes \in 0..MaxCrashes

(* The control plane and the data plane agree between changes: unless a    *)
(* change has failed or was cut short since the last confirmed one, every  *)
(* rendered file and every unit hold what Assemble would build from the    *)
(* database, and DNS answers from the table of the active rule version.    *)
(* Every success, rejection and rollback path of ApplyRules, SwitchExit    *)
(* and OnHealth has to preserve it (docs/architecture.md:46-52).           *)
PlanesAgree ==
    trusted /\ ~variation =>
        /\ \A u \in Orch!Units : disk[u] = Assembled /\ running[u] = Assembled
        /\ table = RulesOf(activeRv)

(* The resolver answers from the rule version that is active in the        *)
(* database, but for the step between SetActiveRuleVersion and Publish     *)
(* inside commitRuleApply (applier.go:730-748).                            *)
TableFollowsActive ==
    hook # "publish" => table = RulesOf(activeRv)

(* What a switch may have to go back to cannot disappear: from the moment  *)
(* the pointer is flipped until the switch is settled, the prior and the   *)
(* new exit both have their rows, against any interleaving of DeleteExit   *)
(* (applier.go:605-618).                                                   *)
SwitchExitsExist ==
    /\ activeExit \in exits
    /\ \A i \in switchInflight : {i.new, i.prior} \subseteq exits
    /\ \A c \in Clients :
          req[c].pc = "record" => {req[c].exit, req[c].prior} \subseteq exits
    /\ settle.step = "compensate" => settle.prior \in exits

(* Nothing leaks from a finished change: without a variation there is no   *)
(* registered apply, no registered switch and no protected exit, so every  *)
(* exit can be deleted and every snapshot applied again.                   *)
NothingLeaks ==
    ~variation => /\ inflight = {} /\ switchInflight = {}
                  /\ \A e \in Exits : protected[e] = 0

(* OnHealth always finds the entry its caller registered, so the branch    *)
(* that logs and returns without endVariation (applier.go:518-522) is dead. *)
OnHealthFindsEntry ==
    stage = "notify" /\ hook = "none" =>
        \E i \in inflight \cup switchInflight : i.snap = job.snap

(* The store and the bookkeeping around it hold together at every step. *)
StoreConsistent ==
    TypeOK /\ TableFollowsActive /\ SwitchExitsExist /\ OnHealthFindsEntry

(* After a crash, a restart or a stall too, the database's references hold  *)
(* and the resolver answers from the active rule version.                   *)
ReferencesHold == TableFollowsActive /\ SwitchExitsExist

(* Row k belongs to a registered change. *)
Open(k) ==
    \E i \in inflight \cup switchInflight : i.row = k

(* Somebody still answers for row k: its change is registered, or the        *)
(* goroutine that took its entry has yet to write the outcome, or the        *)
(* outcome is served from the fallback of persistApplyStatus, or a later     *)
(* apply of the same snapshot has superseded it.                             *)
Explained(k) ==
    \/ Open(k)
    \/ settle.step # "none" /\ settle.row = k
    \/ \E i \in 1..Len(terminal) : terminal[i].snap = rows[k].snap
    \/ \E j \in (k+1)..Len(rows) : rows[j].snap = rows[k].snap

(* The rows a client polls for ever. *)
Stranded ==
    {k \in 1..Len(rows) : rows[k].state = "submitted" /\ ~Explained(k)}

(* No outcome is lost while the daemon runs but by eviction: a row that      *)
(* still says submitted is explained, except that the fallback keeps         *)
(* TerminalCap outcomes, so that after f failures at most f - TerminalCap    *)
(* rows are stranded - the first only by the write that fails with a full    *)
(* fallback (applier.go:320-323, 337-344, 565-581, 638-663).                 *)
SubmittedIsExplained ==
    crashes = 0 =>
        \/ Stranded = {}
        \/ Cardinality(Stranded) + TerminalCap <= faults

----------------------------------------------------------------------------
(* The active rule version advances only to rules that every file holds    *)
(* and every unit runs, and where there is a health check only after the   *)
(* probe of the lifecycle that carries them has passed                     *)
(* (orchestrator.go:35-38, docs/architecture.md:38-40).                    *)
CommitAfterHealth ==
    [][activeRv' # activeRv =>
         /\ Orch!HealthCheck => health = "ok"
         /\ \A u \in Orch!Units :
               /\ disk[u] = [rules |-> RulesOf(activeRv'), exit |-> activeExit]
               /\ running[u] = disk[u]]_vars

(* No lost update: a caller that looked at the active snapshot before it   *)
(* submitted rules never replaces a snapshot it did not see                *)
(* (applier.go:167-169), whatever other callers did in between.            *)
NoLostUpdate ==
    [][activeRv' # activeRv /\ job.seen # NoSnap /\ activeRv # 0
         => job.seen = SnapOf(activeRv)]_vars

----------------------------------------------------------------------------
(* A change never blocks the ones after it: whatever fails on the way,     *)
(* variationActive is reset by the caller or by OnHealth.                  *)
VariationEnds == variation ~> ~variation

(* Row k has left submitted, or its outcome is served from memory. *)
Reported(k) ==
    /\ Len(rows) >= k
    /\ \/ rows[k].state # "submitted"
       \/ \E i \in 1..Len(terminal) : terminal[i].snap = rows[k].snap

(* The row of a change under way leaves submitted, or the outcome that      *)
(* could not be stored is served from memory (applier.go:620-646;           *)
(* docs/architecture.md:46-52: clients poll until a terminal state is       *)
(* stored).                                                                 *)
EveryApplyReported ==
    \A k \in 1..MaxRows : Open(k) ~> Reported(k)

----------------------------------------------------------------------------
(* The pipeline implements ConfigChange.  The exit pointer moves before     *)
(* anything is rendered, so while a switch is unsettled the exit in force   *)
(* is the one the switch would go back to.                                  *)
Unsettled ==
    {[prior |-> i.prior] : i \in switchInflight}
      \cup {[prior |-> req[c].prior] : c \in {d \in Clients : req[d].pc = "record"}}
      \cup {[prior |-> x.prior] : x \in {y \in {settle} : y.step = "compensate"}}

ControlExit ==
    IF Unsettled = {} THEN activeExit ELSE (CHOOSE u \in Unsettled : TRUE).prior

DataPlane ==
    IF \E g \in Configs : \A u \in Orch!Units : disk[u] = g /\ running[u] = g
      THEN disk["dnsdist"] ELSE Down

Change == INSTANCE ConfigChange WITH
    Torn <- Down,
    Boot <- BootConfig,
    control <- [rules |-> RulesOf(activeRv), exit |-> ControlExit],
    plane <- DataPlane,
    open <- variation,
    sound <- trusted

(* Seen through that mapping every step of the Applier, the orchestrator    *)
(* and DeleteExit is a step of ConfigChange: one change at a time, the      *)
(* database follows the data plane, and a change that does not report       *)
(* failure leaves both planes equal (applier.go:37-41,                      *)
(* orchestrator.go:35-38).                                                  *)
ImplementsConfigChange == Change!ChangeSpec

=============================================================================
