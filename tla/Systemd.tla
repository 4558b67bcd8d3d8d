------------------------------ MODULE Systemd ------------------------------
(***************************************************************************)
(* The systemd orchestrator of internal/orchestrator/systemd.go: the apply *)
(* lifecycle that renders three configuration files, reloads their units,  *)
(* observes health from a background goroutine, and either commits the     *)
(* candidate or restores the files it snapshotted before it started.       *)
(*                                                                         *)
(* A configuration is one value of Configs.  Every file write, every       *)
(* systemctl call, the probe and the commit callback may fail.             *)
(***************************************************************************)
EXTENDS Naturals, Sequences

CONSTANTS
    Configs,       \* the effective configurations an apply can carry
    BootConfig,    \* the configuration assembled when the daemon starts
    Down           \* what a unit that is not active runs with, and what a
                   \* file that does not exist holds

ASSUME ConfigsAssumption == BootConfig \in Configs /\ Down \notin Configs

VARIABLES
    applyMu,   \* s.applyMu is held
    lastGood,  \* s.Config
    disk,      \* the content of each rendered file
    running,   \* the content each unit runs with, or Down
    stage,     \* where the lifecycle that holds applyMu stands
    op,        \* "apply" or "rollback": the call that holds applyMu
    async,     \* observeHealth has been started for this lifecycle
    cand,      \* req.Config
    prev,      \* snapshotBundle: the files as they were before render
    restoreOk, \* s.restore(prev) reported no error
    health,    \* "nil" if s.HealthCheck is nil; otherwise the verdict of this
               \* lifecycle's probe, "none" before it
    agreed,    \* history: every unit ran with its file when applyMu was taken
    outcome    \* the ApplyResult of the lifecycle, "none" while it runs

orchVars == <<applyMu, lastGood, disk, running, stage, op, async, cand,
              prev, restoreOk, health, agreed, outcome>>

(* s.HealthCheck is set: it never changes while the daemon runs. *)
HealthCheck == health # "nil"

(* No lifecycle has been probed yet. *)
Unprobed == IF HealthCheck THEN "none" ELSE "nil"

(* The order in which render and reloadUnits visit the units. *)
UnitOrder == <<"dnsdist", "mihomo", "sniproxy">>

Units == {"dnsdist", "mihomo", "sniproxy"}

Position(u) == CHOOSE i \in 1..3 : UnitOrder[i] = u

(* dnsdist and mihomo are reloaded, which needs a running unit; sniproxy is *)
(* restarted.  defaultHealth probes exactly the reloaded units.             *)
Reloaded == {"dnsdist", "mihomo"}

Stages == {"idle", "render", "undoRender", "reload", "observe", "commit",
           "restore", "reloadPrev", "notify", "unlock"}

Outcomes == {"none", "ok", "rolled_back", "failed"}

OrchTypeOK ==
    /\ applyMu \in BOOLEAN
    /\ lastGood \in Configs
    /\ disk \in [Units -> Configs \cup {Down}]
    /\ running \in [Units -> Configs \cup {Down}]
    /\ stage \in Stages
    /\ op \in {"apply", "rollback"}
    /\ async \in BOOLEAN
    /\ cand \in Configs
    /\ prev \in [Units -> Configs \cup {Down}]
    /\ restoreOk \in BOOLEAN
    /\ health \in {"nil", "none", "ok", "failed"}
    /\ agreed \in BOOLEAN
    /\ outcome \in Outcomes

(* DefaultSystemd; the files and the units are the ones of the last run, or *)
(* some files were never rendered and their units never started.           *)
OrchStart(missing) ==
    /\ applyMu = FALSE
    /\ lastGood = BootConfig
    /\ disk = [u \in Units |-> IF u \in missing THEN Down ELSE BootConfig]
    /\ running = disk
    /\ stage = "idle"
    /\ op = "apply"
    /\ async = FALSE
    /\ cand = BootConfig
    /\ prev = disk
    /\ restoreOk = TRUE
    /\ health \in {"nil", "none"}
    /\ agreed = (missing = {})
    /\ outcome = "none"

OrchInit == OrchStart({})

----------------------------------------------------------------------------
(* The calls that take applyMu. *)

(* Mutant: a file that does not exist is left out of the bundle. *)
SnapshotExisting == [u \in {v \in Units : disk[v] # Down} |-> disk[u]]

(* snapshotCurrent: the content of each file, or that it does not exist. *)
SnapshotCurrent == disk

(* TryLock succeeds and snapshotCurrent reads the three files. *)
Acquire(o, c) ==
    /\ ~applyMu
    /\ applyMu' = TRUE
    /\ op' = o
    /\ cand' = c
    /\ prev' = SnapshotCurrent
    /\ async' = FALSE
    /\ restoreOk' = TRUE
    /\ health' = Unprobed
    /\ agreed' = (running = disk /\ \A u \in Units : disk[u] # Down)
    /\ outcome' = "none"
    /\ stage' = "render"
    /\ UNCHANGED <<lastGood, disk, running>>

Apply(c) == Acquire("apply", c)

(* Rollback re-renders the in-memory last-known-good configuration. *)
Rollback == Acquire("rollback", lastGood)

(* TryLock succeeds, snapshotCurrent fails, applyMu is released: an error *)
(* that no rollback accompanies, although no file was touched.            *)
SnapshotFails(o) ==
    /\ ~applyMu
    /\ op' = o
    /\ outcome' = "failed"
    /\ UNCHANGED <<applyMu, lastGood, disk, running, stage, async, cand, prev,
                   restoreOk, health, agreed>>

----------------------------------------------------------------------------
(* The end of a lifecycle: a synchronous call unlocks and returns; the     *)
(* background goroutine first calls HealthObserver, still holding applyMu. *)
Finish(r) ==
    /\ outcome' = r
    /\ IF async
         THEN stage' = "notify" /\ UNCHANGED applyMu
         ELSE stage' = "idle" /\ applyMu' = FALSE

(* Mutant: the error of the restore is dropped. *)
FailedApplyIgnoresError(ok) == IF op = "apply" THEN "rolled_back" ELSE "failed"

(* failedApplyResult: RolledBack only when nothing went wrong on the way    *)
(* back.  A Rollback that had to be compensated reports its error anyway.   *)
FailedApplyResult(ok) == IF ok /\ op = "apply" THEN "rolled_back" ELSE "failed"

(* Mutant: setConfig is forgotten. *)
SetNothing(c) == UNCHANGED lastGood

SetConfig(c) == lastGood' = c

(* Mutant: the candidate becomes the baseline as soon as it is rendered. *)
RenderSetsConfig ==
    /\ stage = "render"
    /\ disk' = [u \in Units |-> cand]
    /\ stage' = "reload"
    /\ SetConfig(cand)
    /\ UNCHANGED <<applyMu, running, op, async, cand, prev, restoreOk, health,
                   outcome, agreed>>

(* render: all three files are replaced, each by an atomic rename. *)
Render ==
    /\ stage = "render"
    /\ disk' = [u \in Units |-> cand]
    /\ stage' = "reload"
    /\ UNCHANGED <<applyMu, lastGood, running, op, async, cand, prev,
                   restoreOk, health, outcome, agreed>>

(* render stops at file k: the files before it hold the candidate. *)
RenderFails(k) ==
    /\ stage = "render"
    /\ disk' = [u \in Units |-> IF Position(u) < k THEN cand ELSE disk[u]]
    /\ stage' = IF op = "apply" THEN "undoRender" ELSE "restore"
    /\ UNCHANGED <<applyMu, lastGood, running, op, async, cand, prev,
                   restoreOk, health, outcome, agreed>>

(* restore: every file is tried, the ones in bad keep their content; a file *)
(* that did not exist is removed again.                                     *)
RestoreFiles(bad) ==
    disk' = [u \in Units |-> IF u \in bad THEN disk[u] ELSE prev[u]]

(* After a render failure Apply restores the files and reloads nothing. *)
UndoRender(bad) ==
    /\ stage = "undoRender"
    /\ RestoreFiles(bad)
    /\ restoreOk' = (bad = {})
    /\ Finish(FailedApplyResult(bad = {}))
    /\ UNCHANGED <<lastGood, running, op, async, cand, prev, health, agreed>>

(* reloadUnits succeeds: every unit runs with what its file now holds.  A  *)
(* unit without a file does not come up.                                   *)
ReloadUnits ==
    /\ \A u \in Reloaded : running[u] # Down
    /\ \A u \in Units : disk[u] # Down
    /\ running' = disk

(* reloadUnits stops at unit k, which keeps its old configuration, has     *)
(* taken the new one (the call was cut short) or is down.  The units after *)
(* it were not touched.                                                    *)
ReloadUnitsFails(k, after) ==
    /\ \A u \in Reloaded : Position(u) < k => running[u] # Down
    /\ \A u \in Units : Position(u) < k => disk[u] # Down
    /\ running' = [u \in Units |->
                     CASE Position(u) < k -> disk[u]
                       [] Position(u) = k -> after
                       [] OTHER -> running[u]]

(* What unit k may be left with when its systemctl call fails. *)
AfterFailure(k) == {running[UnitOrder[k]], disk[UnitOrder[k]], Down}

(* Mutant: the commit follows the reload, the probe comes too late. *)
ReloadThenCommit ==
    /\ stage = "reload"
    /\ ReloadUnits
    /\ \/ /\ op = "rollback"
          /\ Finish("ok")
          /\ UNCHANGED async
       \/ /\ op = "apply"
          /\ stage' = "commit"
          /\ async' = HealthCheck
          /\ UNCHANGED <<applyMu, outcome>>
    /\ UNCHANGED <<lastGood, disk, op, cand, prev, restoreOk, health, agreed>>

(* The reload of the candidate: with a health check the goroutine that     *)
(* observes it is started and Apply returns; without one the commit is     *)
(* next; a rollback is done.                                               *)
Reload ==
    /\ stage = "reload"
    /\ ReloadUnits
    /\ \/ /\ op = "rollback"
          /\ Finish("ok")
          /\ UNCHANGED async
       \/ /\ op = "apply"
          /\ stage' = IF HealthCheck THEN "observe" ELSE "commit"
          /\ async' = HealthCheck
          /\ UNCHANGED <<applyMu, outcome>>
    /\ UNCHANGED <<lastGood, disk, op, cand, prev, restoreOk, health, agreed>>

(* Mutant: the error of reloadUnits is not looked at. *)
ReloadErrorIgnored(k) ==
    /\ stage = "reload" /\ op = "apply"
    /\ \E after \in AfterFailure(k) : ReloadUnitsFails(k, after)
    /\ stage' = IF HealthCheck THEN "observe" ELSE "commit"
    /\ async' = HealthCheck
    /\ UNCHANGED <<applyMu, lastGood, disk, op, cand, prev, restoreOk, health,
                   outcome, agreed>>

(* A reload that fails is followed by the restore of the files. *)
ReloadFails(k) ==
    /\ stage = "reload"
    /\ \E after \in AfterFailure(k) : ReloadUnitsFails(k, after)
    /\ stage' = "restore"
    /\ UNCHANGED <<applyMu, lastGood, disk, op, async, cand, prev, restoreOk,
                   health, outcome, agreed>>

(* observeHealth: after the delay the units that were reloaded are active. *)
ProbeOk ==
    /\ stage = "observe"
    /\ \A u \in Reloaded : running[u] # Down
    /\ stage' = "commit"
    /\ health' = "ok"
    /\ UNCHANGED <<applyMu, lastGood, disk, running, op, async, cand, prev,
                   restoreOk, outcome, agreed>>

ProbeFails ==
    /\ stage = "observe"
    /\ stage' = "restore"
    /\ health' = "failed"
    /\ UNCHANGED <<applyMu, lastGood, disk, running, op, async, cand, prev,
                   restoreOk, outcome, agreed>>

(* The observation budget ran out before the probe: the goroutine returns *)
(* without calling HealthObserver.                                        *)
ObserveAborted ==
    /\ stage = "observe"
    /\ stage' = "unlock"
    /\ UNCHANGED <<applyMu, lastGood, disk, running, op, async, cand, prev,
                   restoreOk, health, outcome, agreed>>

(* commitOrRestore: req.Commit is nil or succeeds, then setConfig. *)
CommitOk ==
    /\ stage = "commit"
    /\ SetConfig(cand)
    /\ Finish("ok")
    /\ UNCHANGED <<disk, running, op, async, cand, prev, restoreOk, health, agreed>>

CommitFails ==
    /\ stage = "commit"
    /\ stage' = "restore"
    /\ UNCHANGED <<applyMu, lastGood, disk, running, op, async, cand, prev,
                   restoreOk, health, outcome, agreed>>

(* restoreAndReload, its two halves: the reload runs whatever restore did. *)
Restore(bad) ==
    /\ stage = "restore"
    /\ RestoreFiles(bad)
    /\ restoreOk' = (bad = {})
    /\ stage' = "reloadPrev"
    /\ UNCHANGED <<applyMu, lastGood, running, op, async, cand, prev, health,
                   outcome, agreed>>

(* RolledBack only when both halves succeeded. *)
ReloadPrev ==
    /\ stage = "reloadPrev"
    /\ ReloadUnits
    /\ Finish(FailedApplyResult(restoreOk))
    /\ UNCHANGED <<lastGood, disk, op, async, cand, prev, restoreOk, health, agreed>>

ReloadPrevFails(k) ==
    /\ stage = "reloadPrev"
    /\ \E after \in AfterFailure(k) : ReloadUnitsFails(k, after)
    /\ Finish("failed")
    /\ UNCHANGED <<lastGood, disk, op, async, cand, prev, restoreOk, health, agreed>>

(* HealthObserver has returned. *)
Notified ==
    /\ stage = "notify"
    /\ stage' = "unlock"
    /\ UNCHANGED <<applyMu, lastGood, disk, running, op, async, cand, prev,
                   restoreOk, health, outcome, agreed>>

(* Mutant: observeHealth does not defer the unlock. *)
UnlockForgotten ==
    /\ stage = "unlock"
    /\ stage' = "idle"
    /\ UNCHANGED <<applyMu, lastGood, disk, running, op, async, cand, prev,
                   restoreOk, health, outcome, agreed>>

(* The deferred applyMu.Unlock of observeHealth. *)
Unlock ==
    /\ stage = "unlock"
    /\ stage' = "idle"
    /\ applyMu' = FALSE
    /\ UNCHANGED <<lastGood, disk, running, op, async, cand, prev, restoreOk,
                   health, outcome, agreed>>

(* systemd or the operator starts a unit that is down. *)
UnitStarted(u) ==
    /\ running[u] = Down /\ disk[u] # Down
    /\ running' = [running EXCEPT ![u] = disk[u]]
    /\ UNCHANGED <<applyMu, lastGood, disk, stage, op, async, cand, prev,
                   restoreOk, health, outcome, agreed>>

(* The daemon dies and starts again with a freshly assembled configuration: *)
(* files and units stay as they are, nothing is rendered at boot.           *)
OrchRestart(c) ==
    /\ applyMu' = FALSE
    /\ lastGood' = c
    /\ stage' = "idle"
    /\ async' = FALSE
    /\ health' = Unprobed
    /\ outcome' = "none"
    /\ UNCHANGED <<disk, running, op, cand, prev, restoreOk, agreed>>

----------------------------------------------------------------------------
(* The orchestrator on its own: any caller, any configuration. *)

Init == \E missing \in SUBSET Units : OrchStart(missing)

(* A call that finds applyMu held returns ErrApplyInFlight and changes *)
(* nothing, so it is no step here.                                     *)
Call ==
    \/ \E c \in Configs : Apply(c)
    \/ Rollback
    \/ \E o \in {"apply", "rollback"} : SnapshotFails(o)

(* The steps of the lifecycle that holds applyMu. *)
Lifecycle ==
    \/ Render
    \/ \E k \in 1..3 : RenderFails(k) \/ ReloadFails(k) \/ ReloadPrevFails(k)
    \/ \E bad \in SUBSET Units : UndoRender(bad) \/ Restore(bad)
    \/ Reload \/ ReloadPrev
    \/ ProbeOk \/ ProbeFails \/ ObserveAborted
    \/ CommitOk \/ CommitFails
    \/ Notified \/ Unlock

Environment ==
    \/ \E u \in Units : UnitStarted(u)
    \/ \E c \in Configs : OrchRestart(c)

Next == Call \/ Lifecycle \/ Environment

(* A running goroutine is scheduled: every step of a lifecycle terminates, *)
(* systemctl and the probe because they run under a context.              *)
Spec == Init /\ [][Next]_orchVars /\ WF_orchVars(Lifecycle)

----------------------------------------------------------------------------
(* An apply that reports RolledBack has put every rendered file back to   *)
(* what snapshotCurrent read, whichever step failed (systemd.go:111-130,  *)
(* 170-188, 205-211); and units that ran with their files when the apply  *)
(* began do so again, also after a reload that stopped half-way.          *)
RolledBackRestores ==
    outcome = "rolled_back" =>
        /\ disk = prev
        /\ agreed => running = disk

(* A lifecycle that reports success leaves the candidate in every file, in *)
(* every unit and in s.Config (systemd.go:132-140, 178-183).               *)
OkIsInForce ==
    outcome = "ok" =>
        \A u \in Units : disk[u] = cand /\ running[u] = cand /\ lastGood = cand

(* The step of a daemon restart: a lifecycle is dropped without an outcome. *)
Restarted == stage' = "idle" /\ outcome' = "none"

(* While the daemon runs, s.Config moves only to a configuration that every *)
(* file holds and every unit runs, and where there is a health check only   *)
(* after the probe of this very lifecycle has passed (systemd.go:41-44,     *)
(* 92-93, 137, 181): the baseline of Rollback is never a candidate that was *)
(* not confirmed.                                                           *)
Proven(c) ==
    /\ \A u \in Units : disk[u] = c /\ running[u] = c
    /\ HealthCheck => health = "ok"

LastGoodIsProven ==
    [][lastGood' # lastGood /\ applyMu
         => Proven(lastGood') \/ Restarted]_orchVars

(* applyMu is never kept: whatever fails on the way, a lifecycle ends and  *)
(* the next Apply can take the lock (systemd.go:101-102, 151).             *)
LifecycleEnds == applyMu ~> ~applyMu
=============================================================================
