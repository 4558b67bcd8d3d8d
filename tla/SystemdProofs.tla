--------------------------- MODULE SystemdProofs ---------------------------
(***************************************************************************)
(* The safety properties of the orchestrator, for every set of             *)
(* configurations.  They follow from an inductive invariant that relates   *)
(* the stage of a lifecycle to what the files and units hold there.        *)
(***************************************************************************)
EXTENDS Systemd, TLAPS

(* Stages in which a lifecycle has no outcome yet. *)
Running == {"render", "undoRender", "reload", "observe", "commit", "restore",
            "reloadPrev"}

(* applyMu is held from the first stage to the unlock, and an outcome is   *)
(* known only once the lifecycle is over.                                  *)
LockInv ==
    /\ applyMu <=> stage # "idle"
    /\ stage \in Running => outcome = "none"
    /\ stage \in {"observe", "commit"} => op = "apply"
    /\ op = "rollback" /\ stage \in Running => cand = lastGood
    /\ stage = "commit" /\ HealthCheck => health = "ok"

(* What the forward half has written. *)
ForwardInv ==
    /\ stage \in {"reload", "observe", "commit"} => \A u \in Units : disk[u] = cand
    /\ stage \in {"observe", "commit"} => \A u \in Units : running[u] = cand

(* What the backward half has restored. *)
BackwardInv ==
    /\ agreed => \A u \in Units : prev[u] # Down
    /\ stage \in {"render", "undoRender"} /\ agreed => running = prev
    /\ stage = "reloadPrev" /\ restoreOk => disk = prev

IInv == /\ OrchTypeOK
        /\ LockInv
        /\ ForwardInv
        /\ BackwardInv
        /\ RolledBackRestores
        /\ OkIsInForce

(* Two unit maps with the same values are the same map. *)
LEMMA UnitMapsEqual ==
    ASSUME NEW S, NEW T, NEW f \in [Units -> S], NEW g \in [Units -> T],
           \A u \in Units : f[u] = g[u]
    PROVE  f = g
OBVIOUS

(* The invariant holds when the daemon starts. *)
LEMMA InitIInv == Init => IInv
<1> SUFFICES ASSUME NEW missing \in SUBSET Units, OrchStart(missing) PROVE IInv
  BY DEF Init
<1>1. OrchTypeOK
  BY ConfigsAssumption DEF OrchStart, OrchTypeOK, Stages, Outcomes
<1>2. agreed => \A u \in Units : prev[u] # Down
  BY ConfigsAssumption DEF OrchStart
<1> QED
  BY <1>1, <1>2 DEF OrchStart, IInv, LockInv, ForwardInv, BackwardInv,
     RolledBackRestores, OkIsInForce, Running

(* Taking applyMu snapshots the files: prev starts equal to disk. *)
LEMMA AcquireIInv ==
    ASSUME IInv, NEW o \in {"apply", "rollback"}, NEW c \in Configs,
           o = "rollback" => c = lastGood, Acquire(o, c)
    PROVE  IInv'
BY DEF Acquire, SnapshotCurrent, Unprobed, HealthCheck, IInv, OrchTypeOK, LockInv, ForwardInv, BackwardInv,
       RolledBackRestores, OkIsInForce, Stages, Outcomes, Running

(* A failed snapshot changes nothing but the reported outcome. *)
LEMMA SnapshotFailsIInv ==
    ASSUME IInv, NEW o \in {"apply", "rollback"}, SnapshotFails(o)
    PROVE  IInv'
BY DEF SnapshotFails, IInv, OrchTypeOK, LockInv, ForwardInv, BackwardInv,
       RolledBackRestores, OkIsInForce, Stages, Outcomes, Running

(* A complete render puts the candidate in every file. *)
LEMMA RenderIInv ==
    ASSUME IInv, Render
    PROVE  IInv'
BY DEF Render, IInv, OrchTypeOK, LockInv, ForwardInv, BackwardInv,
       RolledBackRestores, OkIsInForce, Stages, Outcomes, Running

(* A render that stops half-way touches no unit. *)
LEMMA RenderFailsIInv ==
    ASSUME IInv, NEW k \in 1..3, RenderFails(k)
    PROVE  IInv'
BY DEF RenderFails, IInv, OrchTypeOK, LockInv, ForwardInv, BackwardInv,
       RolledBackRestores, OkIsInForce, Stages, Outcomes, Running

(* Undoing a render restores prev, and the units never left it. *)
LEMMA UndoRenderIInv ==
    ASSUME IInv, NEW bad \in SUBSET Units, UndoRender(bad)
    PROVE  IInv'
BY UnitMapsEqual DEF UndoRender, RestoreFiles, Finish, FailedApplyResult, IInv, OrchTypeOK, LockInv, ForwardInv, BackwardInv,
       RolledBackRestores, OkIsInForce, Stages, Outcomes, Running

(* A complete reload brings every unit to its file, the candidate. *)
LEMMA ReloadIInv ==
    ASSUME IInv, Reload
    PROVE  IInv'
<1>1. CASE op = "rollback"
  <2>2. OrchTypeOK'
    BY <1>1 DEF Reload, ReloadUnits, Finish, IInv, OrchTypeOK, Stages, Outcomes
  <2>3. LockInv' /\ ForwardInv' /\ BackwardInv' /\ RolledBackRestores'
    BY <1>1 DEF Reload, ReloadUnits, Finish, IInv, OrchTypeOK, LockInv, ForwardInv,
                BackwardInv, RolledBackRestores, Running
  <2>4. OkIsInForce'
    BY <1>1 DEF Reload, ReloadUnits, Finish, IInv, LockInv, ForwardInv,
                OkIsInForce, Running
  <2> QED BY <2>2, <2>3, <2>4 DEF IInv
<1>2. CASE op = "apply"
  <2>1. OrchTypeOK'
    BY <1>2
    DEF HealthCheck, Unprobed, Reload, ReloadUnits, IInv, OrchTypeOK, Stages, Outcomes
  <2>2. stage' \in {"observe", "commit"} /\ outcome' = "none" /\ op' = "apply"
    BY <1>2 DEF Reload, IInv, LockInv, Running
  <2>3. LockInv' /\ ForwardInv'
    BY <1>2, <2>2 DEF Reload, ReloadUnits, IInv, LockInv, ForwardInv, HealthCheck
  <2>4. BackwardInv' /\ RolledBackRestores' /\ OkIsInForce'
    BY <1>2, <2>2 DEF Reload, IInv, BackwardInv, RolledBackRestores, OkIsInForce
  <2> QED BY <2>1, <2>3, <2>4 DEF IInv
<1> QED BY <1>1, <1>2 DEF IInv, OrchTypeOK

(* A reload that stops half-way leads to the restore. *)
LEMMA ReloadFailsIInv ==
    ASSUME IInv, NEW k \in 1..3, ReloadFails(k)
    PROVE  IInv'
BY DEF ReloadFails, ReloadUnitsFails, AfterFailure, Units, UnitOrder, Position, IInv, OrchTypeOK, LockInv, ForwardInv, BackwardInv,
       RolledBackRestores, OkIsInForce, Stages, Outcomes, Running

(* The probe and the abort of the observation change no file and no unit. *)
LEMMA ObserveIInv ==
    ASSUME IInv, ProbeOk \/ ProbeFails \/ ObserveAborted
    PROVE  IInv'
BY DEF ProbeOk, ProbeFails, ObserveAborted, IInv, OrchTypeOK, LockInv, ForwardInv, BackwardInv,
       RolledBackRestores, OkIsInForce, Stages, Outcomes, Running

(* A commit confirms the candidate that is in force; a refused one undoes it. *)
LEMMA CommitIInv ==
    ASSUME IInv, CommitOk \/ CommitFails
    PROVE  IInv'
<1>1. CASE CommitOk
  <2>1. OrchTypeOK'
    BY <1>1 DEF CommitOk, Finish, SetConfig, IInv, OrchTypeOK, Stages, Outcomes
  <2>2. LockInv' /\ ForwardInv' /\ BackwardInv'
    BY <1>1 DEF CommitOk, Finish, IInv, LockInv, ForwardInv, BackwardInv, Running
  <2>3. RolledBackRestores' /\ OkIsInForce'
    BY <1>1 DEF CommitOk, Finish, SetConfig, IInv, ForwardInv, RolledBackRestores,
       OkIsInForce
  <2> QED BY <2>1, <2>2, <2>3 DEF IInv
<1>2. CASE CommitFails
  BY <1>2 DEF CommitFails, IInv, OrchTypeOK, LockInv, ForwardInv, BackwardInv,
     RolledBackRestores, OkIsInForce, Stages, Running
<1> QED BY <1>1, <1>2

(* A restore without an error leaves prev in every file. *)
LEMMA RestoreIInv ==
    ASSUME IInv, NEW bad \in SUBSET Units, Restore(bad)
    PROVE  IInv'
BY UnitMapsEqual DEF Restore, RestoreFiles, IInv, OrchTypeOK, LockInv, ForwardInv, BackwardInv,
       RolledBackRestores, OkIsInForce, Stages, Outcomes, Running

(* The reload of the restored files brings every unit back to prev. *)
LEMMA ReloadPrevIInv ==
    ASSUME IInv, ReloadPrev
    PROVE  IInv'
BY DEF ReloadPrev, ReloadUnits, Finish, FailedApplyResult, IInv, OrchTypeOK, LockInv, ForwardInv, BackwardInv,
       RolledBackRestores, OkIsInForce, Stages, Outcomes, Running

(* A reload of the restored files that stops half-way is reported failed. *)
LEMMA ReloadPrevFailsIInv ==
    ASSUME IInv, NEW k \in 1..3, ReloadPrevFails(k)
    PROVE  IInv'
<1>1. OrchTypeOK'
  <2>1. running' \in [Units -> Configs \cup {Down}]
    BY DEF ReloadPrevFails, ReloadUnitsFails, AfterFailure, IInv, OrchTypeOK,
           Units, UnitOrder, Position
  <2> QED
    BY <2>1 DEF ReloadPrevFails, Finish, IInv, OrchTypeOK, Stages, Outcomes
<1>2. outcome' = "failed" /\ stage' \in {"notify", "idle"}
  BY DEF ReloadPrevFails, Finish
<1>3. applyMu' <=> stage' # "idle"
  BY DEF ReloadPrevFails, Finish, IInv, LockInv
<1>4. BackwardInv'
  BY <1>2 DEF ReloadPrevFails, IInv, BackwardInv
<1> QED
  BY <1>1, <1>2, <1>3, <1>4 DEF IInv, LockInv, ForwardInv,
     RolledBackRestores, OkIsInForce, Running

(* Leaving the observer and releasing applyMu keep what was reported. *)
LEMMA ReleaseIInv ==
    ASSUME IInv, Notified \/ Unlock
    PROVE  IInv'
<1>1. OrchTypeOK'
  BY DEF Notified, Unlock, IInv, OrchTypeOK, Stages
<1>2. LockInv'
  BY DEF Notified, Unlock, IInv, LockInv, Running
<1>3. ForwardInv' /\ BackwardInv'
  BY DEF Notified, Unlock, IInv, ForwardInv, BackwardInv
<1>4. RolledBackRestores' /\ OkIsInForce'
  BY DEF Notified, Unlock, IInv, RolledBackRestores, OkIsInForce
<1> QED BY <1>1, <1>2, <1>3, <1>4 DEF IInv

(* A unit that is down runs none of the configurations reported in force. *)
LEMMA UnitStartedIInv ==
    ASSUME IInv, NEW u \in Units, UnitStarted(u)
    PROVE  IInv'
BY ConfigsAssumption, UnitMapsEqual DEF UnitStarted, IInv, OrchTypeOK, LockInv, ForwardInv, BackwardInv,
       RolledBackRestores, OkIsInForce, Stages, Outcomes, Running

(* A restart drops the lifecycle and keeps files and units. *)
LEMMA OrchRestartIInv ==
    ASSUME IInv, NEW c \in Configs, OrchRestart(c)
    PROVE  IInv'
BY DEF OrchRestart, Unprobed, HealthCheck, IInv, OrchTypeOK, LockInv, ForwardInv, BackwardInv,
       RolledBackRestores, OkIsInForce, Stages, Outcomes, Running

(* Every step keeps the invariant. *)
LEMMA NextIInv == IInv /\ [Next]_orchVars => IInv'
<1> SUFFICES ASSUME IInv, [Next]_orchVars PROVE IInv'
  OBVIOUS
<1>1. CASE Call
  <2>1. lastGood \in Configs
    BY DEF IInv, OrchTypeOK
  <2>2. ASSUME NEW c \in Configs, Apply(c) PROVE IInv'
    BY <2>2, AcquireIInv DEF Apply
  <2>3. CASE Rollback
    BY <2>1, <2>3, AcquireIInv DEF Rollback
  <2>4. ASSUME NEW o \in {"apply", "rollback"}, SnapshotFails(o) PROVE IInv'
    BY <2>4, SnapshotFailsIInv
  <2> QED BY <1>1, <2>2, <2>3, <2>4 DEF Call
<1>2. CASE Lifecycle
  <2>1. ASSUME NEW k \in 1..3, RenderFails(k) \/ ReloadFails(k) \/ ReloadPrevFails(k)
        PROVE  IInv'
    BY <2>1, RenderFailsIInv, ReloadFailsIInv, ReloadPrevFailsIInv
  <2>2. ASSUME NEW bad \in SUBSET Units, UndoRender(bad) \/ Restore(bad)
        PROVE  IInv'
    BY <2>2, UndoRenderIInv, RestoreIInv
  <2> QED
    BY <1>2, <2>1, <2>2, RenderIInv, ReloadIInv, ReloadPrevIInv, ObserveIInv,
       CommitIInv, ReleaseIInv DEF Lifecycle
<1>3. CASE Environment
  BY <1>3, UnitStartedIInv, OrchRestartIInv DEF Environment
<1>4. CASE UNCHANGED orchVars
  BY <1>4 DEF orchVars, HealthCheck, IInv, OrchTypeOK, LockInv, ForwardInv, BackwardInv,
       RolledBackRestores, OkIsInForce, Stages, Outcomes, Running
<1> QED BY <1>1, <1>2, <1>3, <1>4 DEF Next

(* The invariant holds in every reachable state. *)
THEOREM Invariance == Spec => []IInv
<1>1. Init => IInv BY InitIInv
<1>2. IInv /\ [Next]_orchVars => IInv' BY NextIInv
<1> QED BY <1>1, <1>2, PTL DEF Spec

(* Every variable of the orchestrator keeps its type. *)
THEOREM TypeCorrect == Spec => []OrchTypeOK
<1>1. IInv => OrchTypeOK BY DEF IInv
<1> QED BY <1>1, Invariance, PTL

(* Whatever fails on the way, an apply that reports RolledBack has put     *)
(* every file back, and units that agreed with their files do so again     *)
(* (systemd.go:111-130, 170-188, 205-211).                                 *)
THEOREM RolledBackIsClean == Spec => []RolledBackRestores
<1>1. IInv => RolledBackRestores BY DEF IInv
<1> QED BY <1>1, Invariance, PTL

(* A lifecycle that reports success has the candidate in every file, every *)
(* unit and in s.Config (systemd.go:132-140, 178-183).                     *)
THEOREM OkMeansInForce == Spec => []OkIsInForce
<1>1. IInv => OkIsInForce BY DEF IInv
<1> QED BY <1>1, Invariance, PTL

(* A step that moves s.Config while applyMu is held is a commit of what    *)
(* every file and unit holds and the probe has passed, or the restart of   *)
(* the daemon.                                                             *)
LEMMA LastGoodStep ==
    ASSUME IInv, Next, lastGood' # lastGood, applyMu
    PROVE  Proven(lastGood') \/ Restarted
<1>1. CASE Call
  BY <1>1 DEF Call, Apply, Rollback, Acquire, SnapshotFails
<1>2. CASE Lifecycle
  <2>1. CommitOk
    BY <1>2 DEF Lifecycle, Render, RenderFails, ReloadFails, ReloadPrevFails,
                UndoRender, Restore, Reload, ReloadPrev, ProbeOk, ProbeFails,
                ObserveAborted, CommitFails, Notified, Unlock
  <2> QED BY <2>1 DEF CommitOk, SetConfig, IInv, ForwardInv, LockInv, Proven
<1>3. CASE Environment
  BY <1>3 DEF Environment, UnitStarted, OrchRestart, Restarted
<1> QED BY <1>1, <1>2, <1>3 DEF Next

(* While the daemon runs, s.Config - the baseline of Rollback - moves only *)
(* to a configuration that is in force and that the probe of this very     *)
(* lifecycle has passed (systemd.go:41-44, 92-93, 137, 181).               *)
THEOREM LastGoodOnlyProven == Spec => LastGoodIsProven
<1>1. IInv /\ [Next]_orchVars
        => [lastGood' # lastGood /\ applyMu
              => Proven(lastGood') \/ Restarted]_orchVars
  BY LastGoodStep DEF orchVars
<1> QED BY <1>1, Invariance, PTL DEF Spec, LastGoodIsProven
=============================================================================
