--------------------------- MODULE ApplierProofs ---------------------------
(***************************************************************************)
(* The safety of the change pipeline, for every set of callers, rule sets  *)
(* and exits and every bound.  Everything rests on one fact that no state  *)
(* variable records: a change under way has exactly one owner, first the   *)
(* caller that began the variation, then the observer of its lifecycle and *)
(* for a switch the goroutine that settles it, and what is registered and  *)
(* protected is exactly what that owner registered and protected.  From it *)
(* follow the references between the tables, the order of commit and       *)
(* publish, the agreement of the control plane and the data plane, and the *)
(* account of the apply_status rows: how many are stranded, and why.       *)
(***************************************************************************)
EXTENDS Applier, SequenceTheorems, FiniteSetTheorems, TLAPS

----------------------------------------------------------------------------
(* The ownership of a change                                                *)

Units == Orch!Units

(* Stages in which a lifecycle has no outcome yet. *)
Running == {"render", "undoRender", "reload", "observe", "commit", "restore",
            "reloadPrev"}

(* Caller c owns the variation; no caller does. *)
Owns(c) == req[c].pc \notin {"idle", "rules"}
NoCaller == \A c \in Clients : ~Owns(c)

Unprotected == [e \in Exits |-> 0]

(* The protection of one switch, which may be to the active exit. *)
Pair(a, b) ==
    [e \in Exits |-> (IF e = a THEN 1 ELSE 0) + (IF e = b THEN 1 ELSE 0)]

NothingRegistered == inflight = {} /\ switchInflight = {}

(* The change with snapshot s is registered, and nothing else. *)
Registered(s, prior, new) ==
    IF IsSwitch(s)
      THEN /\ inflight = {}
           /\ \E i \in switchInflight :
                 /\ switchInflight = {i}
                 /\ i.snap = s /\ i.prior = prior /\ i.new = new
           /\ protected = Pair(prior, new)
      ELSE /\ switchInflight = {}
           /\ \E i \in inflight : inflight = {i} /\ i.snap = s
           /\ protected = Unprotected

----------------------------------------------------------------------------
(* The orchestrator as the Applier drives it. *)
OrchInv ==
    /\ applyMu <=> stage # "idle"
    /\ op = "apply"
    /\ stage \in {"observe", "notify", "unlock"} => async
    /\ stage \in {"render", "undoRender", "reload"} => ~async
    /\ stage = "notify" => outcome # "none"
    /\ stage \in {"reload", "observe", "commit"} => \A u \in Units : disk[u] = cand
    /\ stage \in {"observe", "commit"} => \A u \in Units : running[u] = cand
    /\ stage = "commit" /\ Orch!HealthCheck => health = "ok"

(* A submitted rule version exists, and a call that returns has a result. *)
CallOK(c) ==
    /\ req[c].pc = "rules" =>
          /\ req[c].rv \in 1..Len(versions)
          /\ req[c].snap = RulesSnap(versions[req[c].rv])
    /\ req[c].pc \in {"dispatch", "applying", "return"} =>
          req[c].row \in 1..Len(rows)
    /\ req[c].pc = "return" => req[c].res # "none"

CallInv ==
    /\ \A c \in Clients : CallOK(c)
    /\ \A i \in inflight : i.snap = RulesSnap(versions[i.rv])

(* The variation has at most one owner ... *)
OneOwner ==
    /\ \A c \in Clients : Owns(c) => variation /\ \A d \in Clients : Owns(d) => c = d
    /\ \A c \in Clients : req[c].pc = "applying" =>
          /\ stage \in Running /\ ~async
          /\ job.client = c /\ job.snap = req[c].snap
          /\ job.prior = req[c].prior /\ job.new = req[c].exit
    /\ stage \in Running /\ ~async =>
          job.client \in Clients /\ req[job.client].pc = "applying"
    /\ (stage \in Running /\ async) \/ stage = "notify" => variation /\ NoCaller
    /\ hook = "publish" => stage = "commit" /\ ~IsSwitch(job.snap)
    /\ hook = "release" => stage = "notify"

(* ... and what is registered and protected belongs to it. *)
OwnersOnly ==
    /\ ~variation => NothingRegistered /\ protected = Unprotected
    /\ \A c \in Clients :
          /\ req[c].pc = "protect" => NothingRegistered /\ protected = Unprotected
          /\ req[c].pc \in {"flip", "record", "release"} =>
                NothingRegistered /\ protected = Pair(req[c].prior, req[c].exit)
          /\ req[c].pc \in {"dispatch", "applying", "return"} =>
                Registered(req[c].snap, req[c].prior, req[c].exit)
    /\ variation /\ NoCaller =>
          IF hook = "release"
            THEN /\ NothingRegistered
                 /\ protected = IF IsSwitch(job.snap) THEN Pair(job.prior, job.new)
                                ELSE Unprotected
            ELSE Registered(job.snap, job.prior, job.new)

OwnerInv == TypeOK /\ OrchInv /\ CallInv /\ OneOwner /\ OwnersOnly

(* A switch that is being settled is the owner's, and its entry is gone. *)
SettleInv ==
    settle.step # "none" =>
        /\ settle.row \in 1..Len(rows)
        /\ settle.step = "compensate" => settle.state # "confirmed"
        /\ \/ /\ hook = "release" /\ IsSwitch(job.snap)
              /\ settle.prior = job.prior
           \/ \E c \in Clients :
                 req[c].pc = "release" /\ settle.prior = req[c].prior

----------------------------------------------------------------------------
(* The fallback of persistApplyStatus. *)

TerminalEntry == [snap : Snapshots, state : Terminal]
StatusRow == [snap : Snapshots, state : Terminal \cup {"submitted"}]

(* clearTerminalStatus forgets s and no other snapshot. *)
LEMMA ClearEffect ==
    ASSUME terminal \in Seq(TerminalEntry), NEW s
    PROVE  /\ ClearTerminal(s) \in Seq(TerminalEntry)
           /\ Len(ClearTerminal(s)) <= Len(terminal)
           /\ \A i \in 1..Len(terminal) : terminal[i].snap # s =>
                 \E j \in 1..Len(ClearTerminal(s)) : ClearTerminal(s)[j] = terminal[i]
<1>1. CASE TerminalAt(s) = {}
  BY <1>1 DEF ClearTerminal
<1>2. CASE TerminalAt(s) # {}
  <2> DEFINE k == CHOOSE j \in TerminalAt(s) : TRUE
             a == SubSeq(terminal, 1, k - 1)
             b == SubSeq(terminal, k + 1, Len(terminal))
  <2>1. Len(terminal) \in Nat
    OBVIOUS
  <2>2. k \in TerminalAt(s)
    BY <1>2
  <2>3. k \in 1..Len(terminal) /\ terminal[k].snap = s
    BY <2>2 DEF TerminalAt
  <2>4. ClearTerminal(s) = a \o b
    BY <1>2 DEF ClearTerminal
  <2> HIDE DEF k
  <2>5. /\ a \in Seq(TerminalEntry) /\ Len(a) = k - 1
        /\ \A i \in 1..(k - 1) : a[i] = terminal[i]
    BY <2>1, <2>3, SubSeqProperties
  <2>6. /\ b \in Seq(TerminalEntry) /\ Len(b) = Len(terminal) - k
        /\ \A i \in 1..(Len(terminal) - k) : b[i] = terminal[k + i]
    <3>1. \A i \in (k + 1)..Len(terminal) : terminal[i] \in TerminalEntry
      BY <2>3
    <3>2. /\ b \in Seq(TerminalEntry)
          /\ Len(b) = IF k + 1 <= Len(terminal) THEN Len(terminal) - (k + 1) + 1 ELSE 0
          /\ \A i \in 1..(Len(terminal) - (k + 1) + 1) : b[i] = terminal[(k + 1) + i - 1]
      BY <2>1, <2>3, <3>1, SubSeqProperties
    <3> QED BY <2>1, <2>3, <3>2
  <2> HIDE DEF a, b
  <2>7. /\ a \o b \in Seq(TerminalEntry) /\ Len(a \o b) = Len(terminal) - 1
        /\ \A i \in 1..(Len(terminal) - 1) :
              (a \o b)[i] = IF i <= k - 1 THEN a[i] ELSE b[i - (k - 1)]
    <3>1. /\ a \o b \in Seq(TerminalEntry) /\ Len(a \o b) = Len(a) + Len(b)
          /\ \A i \in 1..(Len(a) + Len(b)) :
                (a \o b)[i] = IF i <= Len(a) THEN a[i] ELSE b[i - Len(a)]
      BY <2>5, <2>6, ConcatProperties
    <3>2. Len(a) + Len(b) = Len(terminal) - 1 /\ Len(a) = k - 1
      BY <2>1, <2>3, <2>5, <2>6
    <3> QED BY <3>1, <3>2
  <2>8. ASSUME NEW i \in 1..Len(terminal), terminal[i].snap # s
        PROVE  \E j \in 1..(Len(terminal) - 1) : (a \o b)[j] = terminal[i]
    <3>1. CASE i < k
      <4>1. i \in 1..(Len(terminal) - 1) /\ (a \o b)[i] = terminal[i]
        BY <2>3, <2>5, <2>7, <3>1
      <4> QED BY <4>1
    <3>2. CASE i > k
      <4>1. i - 1 \in 1..(Len(terminal) - 1) /\ ~(i - 1 <= k - 1)
        BY <2>1, <2>3, <3>2
      <4>2. (a \o b)[i - 1] = b[(i - 1) - (k - 1)]
        BY <2>7, <4>1
      <4>3. (i - 1) - (k - 1) = i - k /\ i - k \in 1..(Len(terminal) - k) /\ k + (i - k) = i
        BY <2>1, <2>3, <3>2
      <4>4. (a \o b)[i - 1] = terminal[i]
        BY <2>6, <4>2, <4>3
      <4> QED BY <4>1, <4>4
    <3>3. i # k /\ i \in Nat /\ k \in Nat
      BY <2>1, <2>3, <2>8
    <3>4. i < k \/ i > k
      BY <3>3
    <3> QED BY <3>1, <3>2, <3>4
  <2>9. Len(a \o b) <= Len(terminal) /\ 1..Len(a \o b) = 1..(Len(terminal) - 1)
    BY <2>1, <2>7
  <2> QED BY <2>4, <2>7, <2>8, <2>9
<1> QED BY <1>1, <1>2

(* recordTerminalStatus adds s; a full fallback evicts its oldest entry and *)
(* no other.                                                                *)
LEMMA RecordEffect ==
    ASSUME terminal \in Seq(TerminalEntry), TerminalCap \in Nat \ {0},
           NEW s \in Snapshots, NEW state \in Terminal
    PROVE  /\ RecordTerminal(s, state) \in Seq(TerminalEntry)
           /\ Len(RecordTerminal(s, state)) <= Len(terminal) + 1
           /\ Len(terminal) <= TerminalCap =>
                 /\ Len(RecordTerminal(s, state)) <= TerminalCap
                 /\ \E j \in 1..Len(RecordTerminal(s, state)) :
                       RecordTerminal(s, state)[j].snap = s
                 /\ \A i \in 1..Len(terminal) :
                       \/ \E j \in 1..Len(RecordTerminal(s, state)) :
                             RecordTerminal(s, state)[j].snap = terminal[i].snap
                       \/ i = 1 /\ Len(terminal) = TerminalCap
<1> DEFINE entry == [snap |-> s, state |-> state]
           same  == [i \in 1..Len(terminal) |->
                       IF terminal[i].snap = s THEN entry ELSE terminal[i]]
           new   == IF TerminalAt(s) # {} THEN same ELSE Append(terminal, entry)
<1>1. entry \in TerminalEntry /\ entry.snap = s
  BY DEF TerminalEntry
<1>2. Len(terminal) \in Nat
  OBVIOUS
<1>3. RecordTerminal(s, state) = IF Len(new) > TerminalCap THEN Tail(new) ELSE new
  BY DEF RecordTerminal
<1> HIDE DEF entry
<1>4. /\ same \in Seq(TerminalEntry) /\ Len(same) = Len(terminal)
      /\ \A i \in 1..Len(terminal) : same[i].snap = terminal[i].snap
  <2>1. same \in [1..Len(terminal) -> TerminalEntry]
    BY <1>1, <1>2
  <2> QED BY <1>1, <1>2, <2>1
<1>5. /\ Append(terminal, entry) \in Seq(TerminalEntry)
      /\ Len(Append(terminal, entry)) = Len(terminal) + 1
      /\ \A i \in 1..Len(terminal) : Append(terminal, entry)[i] = terminal[i]
      /\ Append(terminal, entry)[Len(terminal) + 1] = entry
  BY <1>1, AppendProperties
<1>6. /\ new \in Seq(TerminalEntry)
      /\ Len(new) \in Len(terminal)..(Len(terminal) + 1)
      /\ \A i \in 1..Len(terminal) : new[i].snap = terminal[i].snap
      /\ \E j \in 1..Len(new) : new[j].snap = s
      /\ Len(new) = Len(terminal) + 1 => new[Len(new)].snap = s
  <2>1. CASE TerminalAt(s) # {}
    <3>1. new = same
      BY <2>1
    <3>2. PICK j \in 1..Len(terminal) : terminal[j].snap = s
      BY <2>1 DEF TerminalAt
    <3> HIDE DEF new, same
    <3>3. new[j].snap = s /\ j \in 1..Len(new)
      BY <1>4, <3>1, <3>2
    <3> QED BY <1>2, <1>4, <3>1, <3>3
  <2>2. CASE TerminalAt(s) = {}
    <3>1. new = Append(terminal, entry)
      BY <2>2
    <3> QED BY <1>1, <1>2, <1>5, <3>1
  <2> QED BY <2>1, <2>2
<1> HIDE DEF new, same
<1>7. CASE Len(new) > TerminalCap
  <2>1. new # <<>>
    BY <1>6, <1>7
  <2>2. /\ Tail(new) \in Seq(TerminalEntry) /\ Len(Tail(new)) = Len(new) - 1
        /\ \A i \in 1..Len(Tail(new)) : Tail(new)[i] = new[i + 1]
    BY <1>6, <2>1, HeadTailProperties
  <2>3. RecordTerminal(s, state) = Tail(new)
    BY <1>3, <1>7
  <2>4. CASE ~(Len(terminal) <= TerminalCap)
    <3>1. Len(new) - 1 <= Len(terminal) + 1
      BY <1>2, <1>6
    <3>2. Len(RecordTerminal(s, state)) <= Len(terminal) + 1
      BY <2>2, <2>3, <3>1
    <3> QED BY <2>2, <2>3, <2>4, <3>2
  <2>5. CASE Len(terminal) <= TerminalCap
    <3>1. Len(terminal) = TerminalCap /\ Len(new) = Len(terminal) + 1
      BY <1>2, <1>6, <1>7, <2>5
    <3>2. TerminalCap \in 1..Len(Tail(new)) /\ Tail(new)[TerminalCap].snap = s
      BY <1>2, <1>6, <2>2, <3>1
    <3>3. ASSUME NEW i \in 1..Len(terminal), i # 1
          PROVE  i - 1 \in 1..Len(Tail(new)) /\ Tail(new)[i - 1].snap = terminal[i].snap
      <4>1. i - 1 \in 1..Len(Tail(new)) /\ (i - 1) + 1 = i
        BY <1>2, <2>2, <3>1, <3>3
      <4>2. Tail(new)[i - 1] = new[(i - 1) + 1]
        BY <2>2, <4>1
      <4> QED BY <1>6, <4>1, <4>2
    <3>4. \A i \in 1..Len(terminal) :
             (\E j \in 1..Len(Tail(new)) : Tail(new)[j].snap = terminal[i].snap) \/ i = 1
      BY <3>3
    <3> QED BY <1>2, <2>2, <2>3, <3>1, <3>2, <3>4
  <2> QED BY <2>4, <2>5
<1>8. CASE ~(Len(new) > TerminalCap)
  <2>1. RecordTerminal(s, state) = new
    BY <1>3, <1>8
  <2>2. Len(new) \in Nat /\ Len(new) <= TerminalCap /\ Len(new) <= Len(terminal) + 1
    BY <1>2, <1>6, <1>8
  <2>3. \A i \in 1..Len(terminal) : \E j \in 1..Len(new) : new[j].snap = terminal[i].snap
    <3>1. 1..Len(terminal) \subseteq 1..Len(new)
      BY <1>2, <1>6, <2>2
    <3> QED BY <1>6, <3>1
  <2> QED BY <1>6, <2>1, <2>2, <2>3
<1> QED BY <1>7, <1>8

----------------------------------------------------------------------------
(* The steps of the orchestrator. *)

OrchOK == Orch!OrchTypeOK /\ OrchInv

(* A step elsewhere. *)
LEMMA OrchFrame ==
    ASSUME OrchOK, UNCHANGED orchVars
    PROVE  OrchOK'
BY DEF OrchOK, Orch!OrchTypeOK, OrchInv, orchVars, Units, Orch!HealthCheck

(* A new lifecycle starts when the last one has released applyMu. *)
LEMMA ApplyOrch ==
    ASSUME OrchOK, NEW g \in Configs, Orch!Apply(g)
    PROVE  /\ OrchOK'
           /\ stage = "idle" /\ stage' = "render" /\ ~async' /\ cand' = g
           /\ prev' = disk /\ disk' = disk /\ running' = running
<1>1. stage = "idle" /\ stage' = "render" /\ ~async' /\ cand' = g
  BY DEF OrchOK, OrchInv, Orch!Apply, Orch!Acquire
<1>2. prev' = disk /\ disk' = disk /\ running' = running
  BY DEF Orch!Apply, Orch!Acquire, Orch!SnapshotCurrent
<1>3. Orch!OrchTypeOK'
  BY DEF OrchOK, Orch!OrchTypeOK, Orch!Apply, Orch!Acquire, Orch!SnapshotCurrent,
     Orch!Stages, Orch!Outcomes, Orch!Unprobed
<1>4. OrchInv'
  BY <1>1 DEF OrchOK, OrchInv, Orch!Apply, Orch!Acquire
<1> QED BY <1>1, <1>2, <1>3, <1>4 DEF OrchOK

(* The forward half of a lifecycle and its way back, but for the last step. *)
LEMMA DataPlaneOrch ==
    ASSUME OrchOK, DataPlaneStep
    PROVE  /\ OrchOK'
           /\ stage \in Running \ {"commit"} /\ stage' \in Running
           /\ UNCHANGED <<async, cand, prev>>
<1>1. stage \in Running \ {"commit"} /\ stage' \in Running
  BY DEF OrchOK, OrchInv, DataPlaneStep, Running, Orch!Render, Orch!ProbeOk,
     Orch!RenderFails, Orch!ReloadFails, Orch!Restore, Orch!ProbeFails
<1>2. UNCHANGED <<async, cand, prev>>
  BY DEF DataPlaneStep, Orch!Render, Orch!ProbeOk, Orch!RenderFails,
     Orch!ReloadFails, Orch!Restore, Orch!ProbeFails
<1>3. ASSUME Orch!Render \/ Orch!ProbeOk \/ Orch!ProbeFails
      PROVE  OrchOK'
  <2>1. CASE Orch!Render
    BY <2>1 DEF OrchOK, Orch!OrchTypeOK, OrchInv, Orch!Render, Orch!Stages, Units
  <2>2. CASE Orch!ProbeOk
    BY <2>2 DEF OrchOK, Orch!OrchTypeOK, OrchInv, Orch!ProbeOk, Orch!Stages
  <2>3. CASE Orch!ProbeFails
    BY <2>3 DEF OrchOK, Orch!OrchTypeOK, OrchInv, Orch!ProbeFails, Orch!Stages
  <2> QED BY <1>3, <2>1, <2>2, <2>3
<1>4. ASSUME NEW k \in 1..3, Orch!RenderFails(k)
      PROVE  OrchOK'
  BY <1>4 DEF OrchOK, Orch!OrchTypeOK, OrchInv, Orch!RenderFails, Orch!Stages, Units
<1>5. ASSUME NEW k \in 1..3, Orch!ReloadFails(k)
      PROVE  OrchOK'
  <2>1. running' \in [Orch!Units -> Configs \cup {Down}]
    BY <1>5 DEF OrchOK, Orch!OrchTypeOK, Orch!ReloadFails, Orch!ReloadUnitsFails,
       Orch!AfterFailure, Orch!Units, Orch!UnitOrder, Orch!Position
  <2> QED
    BY <1>5, <2>1 DEF OrchOK, Orch!OrchTypeOK, OrchInv, Orch!ReloadFails, Orch!Stages
<1>6. ASSUME NEW bad \in SUBSET Orch!Units, Orch!Restore(bad)
      PROVE  OrchOK'
  BY <1>6 DEF OrchOK, Orch!OrchTypeOK, OrchInv, Orch!Restore, Orch!RestoreFiles,
     Orch!Stages
<1> QED BY <1>1, <1>2, <1>3, <1>4, <1>5, <1>6 DEF DataPlaneStep

(* The reload of the candidate ends the synchronous half. *)
LEMMA ReloadOrch ==
    ASSUME OrchOK, Orch!Reload
    PROVE  /\ OrchOK'
           /\ stage = "reload" /\ ~async /\ async' = Orch!HealthCheck
           /\ stage' = IF Orch!HealthCheck THEN "observe" ELSE "commit"
           /\ UNCHANGED <<cand, prev>>
<1>1. /\ stage = "reload" /\ ~async /\ async' = Orch!HealthCheck
      /\ stage' = IF Orch!HealthCheck THEN "observe" ELSE "commit"
      /\ UNCHANGED <<cand, prev, disk, op, applyMu, outcome, health>>
      /\ running' = disk
  BY DEF OrchOK, OrchInv, Orch!Reload, Orch!ReloadUnits
<1>2. Orch!OrchTypeOK'
  <2>1. Orch!HealthCheck \in BOOLEAN
    BY DEF Orch!HealthCheck
  <2> QED
    BY <1>1, <2>1 DEF OrchOK, Orch!OrchTypeOK, Orch!Reload, Orch!Stages
<1>3. OrchInv'
  BY <1>1 DEF OrchOK, OrchInv, Orch!HealthCheck
<1> QED BY <1>1, <1>2, <1>3 DEF OrchOK

(* The last step of the way back. *)
LEMMA RollbackOrch ==
    ASSUME OrchOK, RollbackStep
    PROVE  /\ OrchOK'
           /\ stage \in {"undoRender", "reloadPrev"}
           /\ outcome' \in {"rolled_back", "failed"}
           /\ stage' = IF async THEN "notify" ELSE "idle"
           /\ UNCHANGED <<async, cand, prev>>
<1>1. /\ stage \in {"undoRender", "reloadPrev"}
      /\ outcome' \in {"rolled_back", "failed"}
      /\ stage' = IF async THEN "notify" ELSE "idle"
      /\ applyMu' = IF async THEN applyMu ELSE FALSE
      /\ UNCHANGED <<async, cand, prev, lastGood, op, agreed>>
  BY DEF RollbackStep, Orch!UndoRender, Orch!ReloadPrev, Orch!ReloadPrevFails,
     Orch!Finish, Orch!FailedApplyResult
<1>2. ASSUME NEW bad \in SUBSET Orch!Units, Orch!UndoRender(bad)
      PROVE  Orch!OrchTypeOK'
  BY <1>1, <1>2 DEF OrchOK, Orch!OrchTypeOK, Orch!UndoRender, Orch!RestoreFiles,
     Orch!Stages, Orch!Outcomes, OrchInv
<1>3. CASE Orch!ReloadPrev
  BY <1>1, <1>3 DEF OrchOK, Orch!OrchTypeOK, Orch!ReloadPrev, Orch!ReloadUnits,
     Orch!Stages, Orch!Outcomes, OrchInv
<1>4. ASSUME NEW k \in 1..3, Orch!ReloadPrevFails(k)
      PROVE  Orch!OrchTypeOK'
  <2>1. running' \in [Orch!Units -> Configs \cup {Down}]
    BY <1>4 DEF OrchOK, Orch!OrchTypeOK, Orch!ReloadPrevFails, Orch!ReloadUnitsFails,
       Orch!AfterFailure, Orch!Units, Orch!UnitOrder, Orch!Position
  <2> QED
    BY <1>1, <1>4, <2>1 DEF OrchOK, Orch!OrchTypeOK, Orch!ReloadPrevFails,
       Orch!Stages, Orch!Outcomes, OrchInv
<1>5. Orch!OrchTypeOK'
  BY <1>2, <1>3, <1>4 DEF RollbackStep, OrchOK
<1>6. OrchInv'
  BY <1>1 DEF OrchOK, OrchInv
<1> QED BY <1>1, <1>5, <1>6 DEF OrchOK

(* The commit succeeds, or leads to the way back. *)
LEMMA CommitOrch ==
    ASSUME OrchOK, Orch!CommitOk
    PROVE  /\ OrchOK'
           /\ stage = "commit" /\ outcome' = "ok"
           /\ stage' = IF async THEN "notify" ELSE "idle"
           /\ UNCHANGED <<async, cand, prev, disk, running>>
<1>1. /\ stage = "commit" /\ outcome' = "ok"
      /\ stage' = IF async THEN "notify" ELSE "idle"
      /\ applyMu' = IF async THEN applyMu ELSE FALSE
      /\ UNCHANGED <<async, cand, prev, disk, running, op>>
  BY DEF Orch!CommitOk, Orch!Finish
<1>2. Orch!OrchTypeOK'
  BY <1>1 DEF OrchOK, Orch!OrchTypeOK, Orch!CommitOk, Orch!SetConfig, Orch!Stages,
     Orch!Outcomes, OrchInv
<1>3. OrchInv'
  BY <1>1 DEF OrchOK, OrchInv
<1> QED BY <1>1, <1>2, <1>3 DEF OrchOK

LEMMA CommitFailsOrch ==
    ASSUME OrchOK, Orch!CommitFails
    PROVE  /\ OrchOK'
           /\ stage = "commit" /\ stage' = "restore"
           /\ UNCHANGED <<async, cand, prev>>
BY DEF OrchOK, Orch!OrchTypeOK, OrchInv, Orch!CommitFails, Orch!Stages

(* The observer leaves, with or without an outcome, and unlocks. *)
LEMMA ObserverOrch ==
    ASSUME OrchOK, Orch!Notified \/ Orch!ObserveAborted \/ Orch!Unlock
    PROVE  /\ OrchOK'
           /\ (stage = "unlock" /\ stage' = "idle") \/ stage' = "unlock"
           /\ UNCHANGED <<async, cand, prev, disk, running>>
BY DEF OrchOK, Orch!OrchTypeOK, OrchInv, Orch!Notified, Orch!ObserveAborted,
   Orch!Unlock, Orch!Stages

(* A failed snapshot leaves everything but the reported outcome alone. *)
LEMMA SnapshotFailsOrch ==
    ASSUME OrchOK, Orch!SnapshotFails("apply")
    PROVE  /\ OrchOK'
           /\ stage = "idle"
           /\ UNCHANGED <<stage, async, cand, prev, disk, running>>
BY DEF OrchOK, Orch!OrchTypeOK, OrchInv, Orch!SnapshotFails, Orch!Outcomes, Units

(* A unit that is down runs nothing a lifecycle relies on. *)
LEMMA UnitStartedOrch ==
    ASSUME OrchOK, NEW u \in Orch!Units, Orch!UnitStarted(u)
    PROVE  OrchOK' /\ UNCHANGED <<stage, async, cand, prev, disk, outcome>>
BY DownAssumption DEF OrchOK, Orch!OrchTypeOK, OrchInv, Orch!UnitStarted, Units

(* A restart drops the lifecycle and keeps files and units. *)
LEMMA RestartOrch ==
    ASSUME OrchOK, NEW g \in Configs, Orch!OrchRestart(g)
    PROVE  /\ OrchOK'
           /\ stage' = "idle" /\ UNCHANGED <<cand, prev, disk, running>>
BY DEF OrchOK, Orch!OrchTypeOK, OrchInv, Orch!OrchRestart, Orch!Stages,
   Orch!Outcomes, Units, Orch!Unprobed

----------------------------------------------------------------------------
(* Shapes. *)

LEMMA Shapes ==
    ASSUME TypeOK
    PROVE  /\ Len(versions) \in Nat /\ Len(rows) \in Nat
           /\ NoSnap \in Snapshots
           /\ \A r \in RuleSets : RulesSnap(r) \in Snapshots
           /\ \A n \in Nat : SwitchSnap(n) \in Snapshots
           /\ SnapOf(activeRv) \in Snapshots
           /\ Assembled \in Configs
           /\ IdleReq \in Requests
           /\ NoJob \in Jobs
           /\ NoSettle \in Settling
<1>1. Len(versions) \in Nat /\ Len(rows) \in Nat
  BY DEF TypeOK
<1>2. /\ NoSnap \in Snapshots
      /\ \A r \in RuleSets : RulesSnap(r) \in Snapshots
      /\ \A n \in Nat : SwitchSnap(n) \in Snapshots
  BY DEF NoSnap, RulesSnap, SwitchSnap, Snapshots
<1>3. activeRv # 0 => versions[activeRv] \in RuleSets
  BY <1>1 DEF TypeOK
<1>4. SnapOf(activeRv) \in Snapshots
  BY <1>2, <1>3 DEF SnapOf
<1>5. Assembled \in Configs
  BY <1>3 DEF TypeOK, Assembled, RulesOf, Configs
<1>6. BootConfig \in Configs /\ Direct \in Exits
  BY ApplierAssumption DEF BootConfig, Configs
<1>7. IdleReq \in Requests
  BY <1>1, <1>2, <1>6 DEF IdleReq, Requests, Orch!Outcomes
<1>8. NoJob \in Jobs
  BY <1>2, <1>6 DEF NoJob, Jobs
<1>9. NoSettle \in Settling
  BY <1>2, <1>6 DEF NoSettle, Settling, Terminal
<1> QED BY <1>1, <1>2, <1>4, <1>5, <1>7, <1>8, <1>9

(* The tables only grow, and what refers to a row still does. *)
LEMMA SetsKept ==
    ASSUME UNCHANGED <<versions, rows>>
    PROVE  Requests' = Requests /\ RuleApplyInfo' = RuleApplyInfo /\ SwitchInfo' = SwitchInfo
BY DEF Requests, RuleApplyInfo, SwitchInfo

LEMMA SetsGrow ==
    ASSUME Len(versions) \in Nat, Len(rows) \in Nat,
           Len(versions') \in Nat, Len(rows') \in Nat,
           Len(versions) <= Len(versions'), Len(rows) <= Len(rows')
    PROVE  /\ Requests \subseteq Requests'
           /\ RuleApplyInfo \subseteq RuleApplyInfo'
           /\ SwitchInfo \subseteq SwitchInfo'
<1>1. Requests \subseteq Requests'
  BY DEF Requests
<1>2. RuleApplyInfo \subseteq RuleApplyInfo'
  BY DEF RuleApplyInfo
<1>3. SwitchInfo \subseteq SwitchInfo'
  BY DEF SwitchInfo
<1> QED BY <1>1, <1>2, <1>3

(* Who owns the change is not a matter of callers that own nothing. *)
LEMMA OwnerFrame ==
    ASSUME OneOwner, OwnersOnly,
           UNCHANGED <<variation, inflight, switchInflight, protected, stage, async,
                       job, hook>>,
           \A d \in Clients : req'[d] = req[d] \/ (~Owns(d) /\ ~Owns(d)')
    PROVE  OneOwner' /\ OwnersOnly'
<1>1. \A d \in Clients : Owns(d)' <=> Owns(d)
  BY DEF Owns
<1>2. \A d \in Clients : Owns(d) => req'[d] = req[d]
  BY <1>1
<1>3. NoCaller' <=> NoCaller
  BY <1>1 DEF NoCaller
<1>4. OneOwner'
  <2>1. \A d \in Clients : req'[d].pc = "applying" => req'[d] = req[d]
    BY <1>1, <1>2 DEF Owns
  <2>2. \A d \in Clients : req[d].pc = "applying" => req'[d] = req[d]
    BY <1>2 DEF Owns
  <2> QED BY <1>1, <1>3, <2>1, <2>2 DEF OneOwner
<1>5. OwnersOnly'
  <2>1. \A d \in Clients : req'[d].pc \notin {"idle", "rules"} => req'[d] = req[d]
    BY <1>1, <1>2 DEF Owns
  <2>2. \A s, p, n : Registered(s, p, n)' <=> Registered(s, p, n)
    BY DEF Registered
  <2> QED BY <1>3, <2>1, <2>2 DEF OwnersOnly, NothingRegistered
<1> QED BY <1>4, <1>5

----------------------------------------------------------------------------
(* Calls that own nothing yet. *)

(* A caller reads or inserts a rule version and is about to submit it. *)
LEMMA PreparedOwner ==
    ASSUME OwnerInv, NEW c \in Clients, req[c].pc = "idle",
           NEW seen \in Snapshots, NEW rv \in 1..Len(versions'),
           versions' \in Seq(RuleSets), Len(versions) <= Len(versions'),
           \A i \in 1..Len(versions) : versions'[i] = versions[i],
           Prepared(c, rv, seen),
           UNCHANGED <<orchVars, activeRv, exits, activeExit, rows, memVars, job,
                       hook, settle, history>>
    PROVE  OwnerInv'
<1> DEFINE r == [IdleReq EXCEPT !.pc = "rules", !.snap = RulesSnap(versions'[rv]),
                                !.rv = rv, !.prev = seen]
<1>1. req' = [req EXCEPT ![c] = r]
  BY DEF Prepared
<1>2. r.pc = "rules" /\ r.snap = RulesSnap(versions'[rv]) /\ r.rv = rv
  BY DEF IdleReq
<1>3. /\ Len(versions) \in Nat /\ Len(rows) \in Nat /\ Len(versions') \in Nat
      /\ Len(rows') = Len(rows)
  BY DEF OwnerInv, TypeOK
<1>4. r \in Requests'
  <2>1. IdleReq \in Requests'
    BY <1>3, Shapes, SetsGrow DEF OwnerInv
  <2>2. RulesSnap(versions'[rv]) \in Snapshots
    BY Shapes DEF OwnerInv
  <2>3. rv \in 0..Len(versions')
    BY <1>3
  <2> QED BY <2>1, <2>2, <2>3 DEF Requests
<1> HIDE DEF r
<1>5. TypeOK'
  <2>1. req' \in [Clients -> Requests']
    BY <1>1, <1>3, <1>4, SetsGrow DEF OwnerInv, TypeOK
  <2>2. inflight' \subseteq RuleApplyInfo' /\ switchInflight' \subseteq SwitchInfo'
    BY <1>3, SetsGrow DEF OwnerInv, TypeOK, memVars
  <2>3. activeRv' \in 0..Len(versions') /\ job' \in Jobs'
    BY <1>3 DEF OwnerInv, TypeOK, Jobs
  <2>4. Orch!OrchTypeOK'
    BY OrchFrame DEF OwnerInv, TypeOK, OrchOK
  <2> QED BY <2>1, <2>2, <2>3, <2>4 DEF OwnerInv, TypeOK, memVars, history
<1>6. OrchInv'
  BY OrchFrame DEF OwnerInv, TypeOK, OrchOK
<1>7. CallInv'
  <2>1. ASSUME NEW d \in Clients
        PROVE  CallOK(d)'
    <3>1. CASE d = c
      <4>1. req'[d] = r
        BY <1>1, <3>1 DEF OwnerInv, TypeOK
      <4> QED BY <1>2, <4>1 DEF CallOK
    <3>2. CASE d # c
      <4>1. req'[d] = req[d] /\ CallOK(d)
        BY <1>1, <3>2 DEF OwnerInv, TypeOK, CallInv
      <4> QED BY <1>3, <4>1 DEF CallOK
    <3> QED BY <3>1, <3>2
  <2>2. \A i \in inflight : versions'[i.rv] = versions[i.rv]
    BY DEF OwnerInv, TypeOK, RuleApplyInfo
  <2> QED BY <2>1, <2>2 DEF OwnerInv, CallInv, memVars
<1>8. OneOwner' /\ OwnersOnly'
  <2>1. \A d \in Clients : req'[d] = req[d] \/ (~Owns(d) /\ ~Owns(d)')
    BY <1>1, <1>2 DEF OwnerInv, TypeOK, Owns
  <2> QED BY <2>1, OwnerFrame DEF OwnerInv, memVars, orchVars
<1> QED BY <1>5, <1>6, <1>7, <1>8 DEF OwnerInv

LEMMA NewRulesOwner ==
    ASSUME OwnerInv, NEW c \in Clients, NEW r \in RuleSets,
           HandleApply(c, r) \/ ImportRules(c, r)
    PROVE  OwnerInv'
<1> DEFINE rv == Len(versions) + 1
<1>1. /\ versions' = Append(versions, r) /\ Len(versions) \in Nat
      /\ versions \in Seq(RuleSets)
  BY DEF HandleApply, ImportRules, OwnerInv, TypeOK
<1>2. /\ versions' \in Seq(RuleSets) /\ Len(versions') = rv
      /\ \A i \in 1..Len(versions) : versions'[i] = versions[i]
  BY <1>1, AppendProperties
<1>3. rv \in 1..Len(versions') /\ Len(versions) <= Len(versions')
  BY <1>1, <1>2
<1>4. SnapOf(activeRv) \in Snapshots /\ NoSnap \in Snapshots
  BY Shapes DEF OwnerInv
<1> HIDE DEF rv
<1>5. Prepared(c, rv, SnapOf(activeRv)) \/ Prepared(c, rv, NoSnap)
  BY DEF HandleApply, ImportRules, rv
<1> QED BY <1>2, <1>3, <1>4, <1>5, PreparedOwner DEF HandleApply, ImportRules

LEMMA OldRulesOwner ==
    ASSUME OwnerInv, NEW c \in Clients, NEW r,
           HandleRollbackSnapshot(c, r) \/ CmdRulesRollback(c)
    PROVE  OwnerInv'
<1>1. versions' = versions /\ versions \in Seq(RuleSets)
  BY DEF HandleRollbackSnapshot, CmdRulesRollback, OwnerInv, TypeOK
<1>2. PICK rv \in DOMAIN versions : Prepared(c, rv, SnapOf(activeRv))
  BY DEF HandleRollbackSnapshot, CmdRulesRollback
<1>3. /\ rv \in 1..Len(versions') /\ versions' \in Seq(RuleSets)
      /\ Len(versions) <= Len(versions')
  BY <1>1, <1>2
<1>4. SnapOf(activeRv) \in Snapshots
  BY Shapes DEF OwnerInv
<1> QED
  BY <1>1, <1>2, <1>3, <1>4, PreparedOwner DEF HandleRollbackSnapshot, CmdRulesRollback

(* ... or is turned away. *)
LEMMA TurnedAwayOwner ==
    ASSUME OwnerInv, NEW c \in Clients, RulesRefused(c) \/ RulesFault(c)
    PROVE  OwnerInv'
<1>1. /\ req[c].pc = "rules" /\ req' = [req EXCEPT ![c] = IdleReq]
      /\ UNCHANGED <<orchVars, dbVars, memVars, job, hook, settle, trusted, crashes>>
      /\ faults' \in 0..MaxFaults
  BY ApplierAssumption DEF RulesRefused, RulesFault, Faults, history, OwnerInv, TypeOK
<1>2. IdleReq.pc = "idle"
  BY DEF IdleReq
<1>3. OrchOK'
  BY <1>1, OrchFrame DEF OwnerInv, TypeOK, OrchOK
<1>4. TypeOK'
  <2>1. req' \in [Clients -> Requests']
    BY <1>1, Shapes, SetsKept DEF OwnerInv, TypeOK, dbVars
  <2> QED
    BY <1>1, <1>3, <2>1, SetsKept DEF OwnerInv, TypeOK, dbVars, memVars, Jobs, OrchOK
<1>5. CallInv'
  BY <1>1, <1>2 DEF OwnerInv, TypeOK, CallInv, CallOK, dbVars, memVars
<1>6. OneOwner' /\ OwnersOnly'
  <2>1. \A d \in Clients : req'[d] = req[d] \/ (~Owns(d) /\ ~Owns(d)')
    BY <1>1, <1>2 DEF OwnerInv, TypeOK, Owns
  <2> QED BY <1>1, <2>1, OwnerFrame DEF OwnerInv, memVars, orchVars
<1> QED BY <1>3, <1>4, <1>5, <1>6 DEF OwnerInv, OrchOK

----------------------------------------------------------------------------
(* The four hands a change can be in. *)

(* Nobody's. *)
LEMMA NoOwner ==
    ASSUME \A d \in Clients : ~Owns(d)', ~variation',
           NothingRegistered', protected' = Unprotected,
           stage' \notin Running \cup {"notify"}, hook' = "none"
    PROVE  OneOwner' /\ OwnersOnly'
<1>1. \A d \in Clients : req'[d].pc \in {"idle", "rules"}
  BY DEF Owns
<1> QED BY <1>1 DEF OneOwner, OwnersOnly, Owns

(* A caller's that is not inside Orch.Apply. *)
LEMMA CallerOwns ==
    ASSUME NEW c \in Clients, Owns(c)', req'[c].pc # "applying",
           \A d \in Clients : d # c => ~Owns(d)',
           variation', stage' \notin Running \cup {"notify"}, hook' = "none",
           req'[c].pc = "protect" => NothingRegistered' /\ protected' = Unprotected,
           req'[c].pc \in {"flip", "record", "release"} =>
               NothingRegistered' /\ protected' = Pair(req'[c].prior, req'[c].exit),
           req'[c].pc \in {"dispatch", "return"} =>
               Registered(req[c].snap, req[c].prior, req[c].exit)'
    PROVE  OneOwner' /\ OwnersOnly'
<1>1. \A d \in Clients : d # c => req'[d].pc \in {"idle", "rules"}
  BY DEF Owns
<1>2. ~NoCaller'
  BY DEF NoCaller
<1>3. OneOwner'
  BY <1>1 DEF OneOwner
<1>4. OwnersOnly'
  BY <1>1, <1>2 DEF OwnersOnly
<1> QED BY <1>3, <1>4

(* A caller's that waits for the synchronous half. *)
LEMMA CallerApplies ==
    ASSUME NEW c \in Clients, req'[c].pc = "applying",
           \A d \in Clients : d # c => ~Owns(d)',
           variation', stage' \in Running, ~async', hook' = "none",
           job'.client = c, job'.snap = req'[c].snap,
           job'.prior = req'[c].prior, job'.new = req'[c].exit,
           Registered(req[c].snap, req[c].prior, req[c].exit)'
    PROVE  OneOwner' /\ OwnersOnly'
<1>1. \A d \in Clients : d # c => req'[d].pc \in {"idle", "rules"}
  BY DEF Owns
<1>2. Owns(c)' /\ ~NoCaller'
  BY DEF NoCaller, Owns
<1>3. stage' # "notify"
  BY DEF Running
<1>4. OneOwner'
  BY <1>1, <1>2, <1>3 DEF OneOwner
<1>5. OwnersOnly'
  BY <1>1, <1>2 DEF OwnersOnly
<1> QED BY <1>4, <1>5

(* The observer's. *)
LEMMA ObserverOwns ==
    ASSUME \A d \in Clients : ~Owns(d)', variation',
           stage' \in Running => async',
           hook' = "publish" => stage' = "commit" /\ ~IsSwitch(job'.snap),
           hook' = "release" => stage' = "notify",
           IF hook' = "release"
             THEN /\ NothingRegistered'
                  /\ protected' = IF IsSwitch(job'.snap) THEN Pair(job'.prior, job'.new)
                                  ELSE Unprotected
             ELSE Registered(job.snap, job.prior, job.new)'
    PROVE  OneOwner' /\ OwnersOnly'
<1>1. \A d \in Clients : req'[d].pc \in {"idle", "rules"}
  BY DEF Owns
<1>2. NoCaller'
  BY DEF NoCaller
<1>3. OneOwner'
  BY <1>1, <1>2 DEF OneOwner
<1>4. OwnersOnly'
  BY <1>1, <1>2 DEF OwnersOnly
<1> QED BY <1>3, <1>4

(* While a caller that is not inside Orch.Apply owns the change, no         *)
(* lifecycle is under way.                                                  *)
LEMMA Resting ==
    ASSUME OwnerInv, NEW c \in Clients, Owns(c), req[c].pc # "applying"
    PROVE  /\ stage \notin Running \cup {"notify"} /\ hook = "none" /\ variation
           /\ \A d \in Clients : d # c => ~Owns(d)
<1>1. ~NoCaller
  BY DEF NoCaller
<1>2. variation /\ \A d \in Clients : d # c => ~Owns(d)
  BY DEF OwnerInv, OneOwner
<1>3. stage \notin Running \cup {"notify"}
  <2>1. ASSUME stage \in Running, ~async
        PROVE  FALSE
    <3>1. job.client \in Clients /\ req[job.client].pc = "applying"
      BY <2>1 DEF OwnerInv, OneOwner
    <3>2. Owns(job.client)
      BY <3>1 DEF Owns
    <3> QED BY <1>2, <3>1, <3>2
  <2> QED BY <1>1, <2>1 DEF OwnerInv, OneOwner
<1>4. hook = "none"
  BY <1>3 DEF OwnerInv, OneOwner, TypeOK, Running
<1> QED BY <1>2, <1>3, <1>4

(* The same holds while there is no change. *)
LEMMA Quiet ==
    ASSUME OwnerInv, ~variation
    PROVE  /\ stage \notin Running \cup {"notify"} /\ hook = "none"
           /\ \A d \in Clients : ~Owns(d)
           /\ NothingRegistered /\ protected = Unprotected
<1>1. \A d \in Clients : ~Owns(d)
  BY DEF OwnerInv, OneOwner
<1>2. stage \notin Running \cup {"notify"}
  <2>1. ASSUME stage \in Running, ~async
        PROVE  FALSE
    <3>1. job.client \in Clients /\ req[job.client].pc = "applying"
      BY <2>1 DEF OwnerInv, OneOwner
    <3> QED BY <1>1, <3>1 DEF Owns
  <2> QED BY <2>1 DEF OwnerInv, OneOwner
<1>3. hook = "none"
  BY <1>2 DEF OwnerInv, OneOwner, TypeOK, Running
<1> QED BY <1>1, <1>2, <1>3 DEF OwnerInv, OwnersOnly

(* What a caller that waits in Orch.Apply knows. *)
LEMMA Waiting ==
    ASSUME OwnerInv, stage \in Running, ~async
    PROVE  LET c == job.client
           IN  /\ c \in Clients /\ req[c].pc = "applying" /\ variation
               /\ \A d \in Clients : d # c => ~Owns(d)
               /\ job.snap = req[c].snap /\ job.prior = req[c].prior
               /\ job.new = req[c].exit
               /\ Registered(job.snap, job.prior, job.new)
<1>1. job.client \in Clients /\ req[job.client].pc = "applying"
  BY DEF OwnerInv, OneOwner
<1>2. Owns(job.client)
  BY <1>1 DEF Owns
<1>3. variation /\ \A d \in Clients : d # job.client => ~Owns(d)
  BY <1>1, <1>2 DEF OwnerInv, OneOwner
<1>4. /\ job.snap = req[job.client].snap /\ job.prior = req[job.client].prior
      /\ job.new = req[job.client].exit
  BY <1>1 DEF OwnerInv, OneOwner
<1>5. Registered(req[job.client].snap, req[job.client].prior, req[job.client].exit)
  BY <1>1 DEF OwnerInv, OwnersOnly
<1> QED BY <1>1, <1>3, <1>4, <1>5

(* What an observer knows. *)
LEMMA Observing ==
    ASSUME OwnerInv, (stage \in Running /\ async) \/ stage = "notify"
    PROVE  /\ variation /\ \A d \in Clients : ~Owns(d)
           /\ hook # "release" => Registered(job.snap, job.prior, job.new)
           /\ hook = "release" =>
                 /\ NothingRegistered
                 /\ protected = IF IsSwitch(job.snap) THEN Pair(job.prior, job.new)
                                ELSE Unprotected
<1>1. variation /\ NoCaller
  BY DEF OwnerInv, OneOwner
<1> QED BY <1>1 DEF NoCaller, OwnerInv, OwnersOnly

----------------------------------------------------------------------------
(* Steps that leave the callers alone. *)

LEMMA StillTyped ==
    ASSUME OwnerInv, OrchOK',
           UNCHANGED <<versions, rows, variation, inflight, switchInflight, protected,
                       terminal, table, req, job, settle>>,
           activeRv' \in 0..Len(versions), activeExit' \in Exits,
           exits' \subseteq Exits, deleting' \subseteq Exits,
           hook' \in {"none", "publish", "release"}, trusted' \in BOOLEAN,
           faults' \in 0..MaxFaults, crashes' \in 0..MaxCrashes
    PROVE  TypeOK' /\ OrchInv' /\ CallInv'
<1>1. TypeOK'
  BY SetsKept DEF OwnerInv, OrchOK, TypeOK, Jobs
<1>2. CallInv'
  BY DEF OwnerInv, CallInv, CallOK
<1> QED BY <1>1, <1>2 DEF OrchOK

LEMMA StillOwned ==
    ASSUME OwnerInv, UNCHANGED <<variation, inflight, switchInflight, protected, req, job>>,
           stage' \in Running => stage \in Running /\ async' = async,
           stage \in Running /\ ~async => stage' \in Running /\ ~async',
           stage' = "notify" => stage = "notify",
           hook' = "publish" => stage' = "commit" /\ ~IsSwitch(job.snap),
           hook' = "release" <=> hook = "release",
           hook = "release" => stage' = "notify"
    PROVE  OneOwner' /\ OwnersOnly'
<1>1. NoCaller' <=> NoCaller
  BY DEF NoCaller, Owns
<1>2. OneOwner'
  BY <1>1 DEF OwnerInv, OneOwner, Owns
<1>3. \A s, p, n : Registered(s, p, n)' <=> Registered(s, p, n)
  BY DEF Registered
<1>4. OwnersOnly'
  BY <1>1, <1>3 DEF OwnerInv, OwnersOnly, NothingRegistered
<1> QED BY <1>2, <1>4

(* Exits come and go, units are started. *)
LEMMA ExitOwner ==
    ASSUME OwnerInv, ExitStep
    PROVE  OwnerInv'
<1>1. /\ UNCHANGED <<orchVars, versions, activeRv, activeExit, rows, variation, inflight,
                     switchInflight, protected, terminal, table, callVars, history>>
      /\ exits' \subseteq Exits /\ deleting' \subseteq Exits
  BY DEF ExitStep, AddExit, DeleteExitChecks, DeleteExitDeletes, OwnerInv, TypeOK,
     memVars, dbVars
<1>2. OrchOK'
  BY <1>1, OrchFrame DEF OwnerInv, TypeOK, OrchOK
<1>3. TypeOK' /\ OrchInv' /\ CallInv'
  BY <1>1, <1>2, StillTyped DEF OwnerInv, TypeOK, callVars, history
<1>4. OneOwner' /\ OwnersOnly'
  BY <1>1, StillOwned DEF OwnerInv, OneOwner, callVars, orchVars
<1> QED BY <1>3, <1>4 DEF OwnerInv

LEMMA UnitStartedOwner ==
    ASSUME OwnerInv, UnitStarted
    PROVE  OwnerInv'
<1>1. UNCHANGED <<dbVars, memVars, callVars, history>>
  BY DEF UnitStarted
<1>2. OrchOK' /\ UNCHANGED <<stage, async>>
  BY UnitStartedOrch DEF UnitStarted, OwnerInv, TypeOK, OrchOK
<1>3. TypeOK' /\ OrchInv' /\ CallInv'
  BY <1>1, <1>2, StillTyped DEF OwnerInv, TypeOK, callVars, history, dbVars, memVars
<1>4. OneOwner' /\ OwnersOnly'
  BY <1>1, <1>2, StillOwned DEF OwnerInv, OneOwner, callVars, memVars
<1> QED BY <1>3, <1>4 DEF OwnerInv

LEMMA StutterOwner ==
    ASSUME OwnerInv, UNCHANGED vars
    PROVE  OwnerInv'
<1>1. UNCHANGED <<orchVars, dbVars, memVars, callVars, history>>
  BY DEF vars
<1>2. OrchOK' /\ UNCHANGED <<stage, async>>
  BY <1>1, OrchFrame DEF OwnerInv, TypeOK, OrchOK, orchVars
<1>3. TypeOK' /\ OrchInv' /\ CallInv'
  BY <1>1, <1>2, StillTyped DEF OwnerInv, TypeOK, callVars, history, dbVars, memVars
<1>4. OneOwner' /\ OwnersOnly'
  BY <1>1, <1>2, StillOwned DEF OwnerInv, OneOwner, callVars, memVars
<1> QED BY <1>3, <1>4 DEF OwnerInv

(* The lifecycle goes on inside the orchestrator. *)
LEMMA DataPlaneOwner ==
    ASSUME OwnerInv, DataPlaneStep
    PROVE  OwnerInv'
<1>1. UNCHANGED <<dbVars, memVars, callVars, trusted, crashes>> /\ faults' \in 0..MaxFaults
  BY ApplierAssumption DEF DataPlaneStep, Faults, Count, ReloadFault, OwnerInv, TypeOK
<1>2. /\ OrchOK' /\ stage \in Running \ {"commit"} /\ stage' \in Running
      /\ UNCHANGED async
  BY DataPlaneOrch DEF OwnerInv, TypeOK, OrchOK
<1>3. hook = "none"
  BY <1>2 DEF OwnerInv, OneOwner, TypeOK, Running
<1>4. TypeOK' /\ OrchInv' /\ CallInv'
  BY <1>1, <1>2, StillTyped DEF OwnerInv, TypeOK, callVars, dbVars, memVars
<1>5. OneOwner' /\ OwnersOnly'
  BY <1>1, <1>2, <1>3, StillOwned DEF callVars, memVars, Running
<1> QED BY <1>4, <1>5 DEF OwnerInv

LEMMA ObserverLeavesOwner ==
    ASSUME OwnerInv, ObserverUnlocks \/ ObservationAborted
    PROVE  OwnerInv'
<1>1. /\ UNCHANGED <<dbVars, memVars, callVars, crashes>>
      /\ faults' \in 0..MaxFaults
      /\ trusted' \in BOOLEAN
  <2>1. CASE ObserverUnlocks
    BY <2>1 DEF ObserverUnlocks, OwnerInv, TypeOK, history
  <2>2. CASE ObservationAborted
    <3>1. trusted' = FALSE /\ UNCHANGED <<dbVars, memVars, callVars, crashes>>
      BY <2>2 DEF ObservationAborted
    <3>2. faults' \in 0..MaxFaults
      BY <2>2, ApplierAssumption DEF ObservationAborted, Faults, OwnerInv, TypeOK
    <3> QED BY <3>1, <3>2
  <2> QED BY <2>1, <2>2
<1>2. /\ OrchOK'
      /\ \/ stage = "unlock" /\ stage' = "idle"
         \/ stage = "observe" /\ stage' = "unlock" /\ async
      /\ UNCHANGED async
  BY ObserverOrch DEF ObserverUnlocks, ObservationAborted, Orch!ObserveAborted, Orch!Unlock,
     OwnerInv, TypeOK, OrchOK, OrchInv
<1>3. hook = "none"
  BY <1>2 DEF OwnerInv, OneOwner, TypeOK
<1>4. TypeOK' /\ OrchInv' /\ CallInv'
  BY <1>1, <1>2, StillTyped DEF OwnerInv, TypeOK, callVars, dbVars, memVars
<1>5. OneOwner' /\ OwnersOnly'
  BY <1>1, <1>2, <1>3, StillOwned DEF callVars, memVars, Running
<1> QED BY <1>4, <1>5 DEF OwnerInv

(* The first half of commitRuleApply, or its failure. *)
LEMMA CommitBeginsOwner ==
    ASSUME OwnerInv, CommitActivate \/ CommitRefused
    PROVE  OwnerInv'
<1>1. CASE CommitActivate
  <2>1. /\ UNCHANGED <<orchVars, versions, exits, activeExit, rows, memVars, req, job, settle, history>>
        /\ stage = "commit" /\ hook = "none" /\ hook' = "publish"
    BY <1>1 DEF CommitActivate
  <2>2. PICK i \in inflight : i.snap = job.snap /\ activeRv' = i.rv
    BY <1>1 DEF CommitActivate
  <2>3. i.rv \in 1..Len(versions) /\ ~IsSwitch(job.snap)
    <3>1. i \in RuleApplyInfo /\ i.snap = RulesSnap(versions[i.rv])
      BY <2>2 DEF OwnerInv, TypeOK, CallInv
    <3> QED BY <2>2, <3>1 DEF RuleApplyInfo, RulesSnap, IsSwitch
  <2>4. OrchOK' /\ UNCHANGED <<stage, async>>
    BY <2>1, OrchFrame DEF OwnerInv, TypeOK, OrchOK, orchVars
  <2>5. activeRv' \in 0..Len(versions)
    BY <2>2, <2>3 DEF OwnerInv, TypeOK
  <2>6. TypeOK' /\ OrchInv' /\ CallInv'
    BY <2>1, <2>4, <2>5, StillTyped DEF OwnerInv, TypeOK, history, memVars
  <2>7. OneOwner' /\ OwnersOnly'
    BY <2>1, <2>3, <2>4, StillOwned DEF memVars
  <2> QED BY <2>6, <2>7 DEF OwnerInv
<1>2. CASE CommitRefused
  <2>1. /\ UNCHANGED <<dbVars, memVars, callVars, trusted, crashes>>
        /\ faults' \in 0..MaxFaults /\ hook = "none"
    BY <1>2, ApplierAssumption DEF CommitRefused, Faults, OwnerInv, TypeOK
  <2>2. OrchOK' /\ stage = "commit" /\ stage' = "restore" /\ UNCHANGED async
    BY <1>2, CommitFailsOrch DEF CommitRefused, OwnerInv, TypeOK, OrchOK
  <2>3. TypeOK' /\ OrchInv' /\ CallInv'
    BY <2>1, <2>2, StillTyped DEF OwnerInv, TypeOK, callVars, dbVars, memVars
  <2>4. OneOwner' /\ OwnersOnly'
    BY <2>1, <2>2, StillOwned DEF callVars, memVars, Running
  <2> QED BY <2>3, <2>4 DEF OwnerInv
<1> QED BY <1>1, <1>2

----------------------------------------------------------------------------
(* The pieces of the Applier's methods. *)

LEMMA PersistEffect ==
    ASSUME TypeOK, NEW row \in 1..Len(rows), NEW s \in Snapshots, NEW state \in Terminal,
           NEW ok \in BOOLEAN, PersistApplyStatus(row, s, state, ok)
    PROVE  /\ rows' \in Seq(StatusRow) /\ Len(rows') = Len(rows)
           /\ \A k \in 1..Len(rows) : rows'[k].snap = rows[k].snap
           /\ \A k \in 1..Len(rows) : k # row \/ ~ok => rows'[k] = rows[k]
           /\ ok => rows'[row].state = state
           /\ terminal' \in Seq(TerminalEntry)
<1>1. rows \in Seq(StatusRow) /\ terminal \in Seq(TerminalEntry)
  BY DEF TypeOK, StatusRow, TerminalEntry
<1>2. terminal' \in Seq(TerminalEntry)
  <2>1. TerminalCap \in Nat \ {0}
    BY ApplierAssumption
  <2> QED BY <1>1, <2>1, ClearEffect, RecordEffect DEF PersistApplyStatus
<1>3. CASE ok
  <2>1. rows' = [rows EXCEPT ![row] = [rows[row] EXCEPT !.state = state]]
    BY <1>3 DEF PersistApplyStatus
  <2>2. [rows[row] EXCEPT !.state = state] \in StatusRow
    <3>1. rows[row] \in StatusRow
      BY <1>1
    <3> QED BY <3>1 DEF StatusRow
  <2>3. /\ [rows[row] EXCEPT !.state = state].snap = rows[row].snap
        /\ [rows[row] EXCEPT !.state = state].state = state
    BY <1>1 DEF StatusRow
  <2>4. rows' \in Seq(StatusRow) /\ Len(rows') = Len(rows)
    BY <1>1, <2>1, <2>2, ExceptSeq
  <2>5. \A k \in 1..Len(rows) :
           rows'[k] = IF k = row THEN [rows[row] EXCEPT !.state = state] ELSE rows[k]
    BY <1>1, <2>1
  <2> QED BY <1>2, <1>3, <2>3, <2>4, <2>5
<1>4. CASE ~ok
  <2>1. rows' = rows
    BY <1>4 DEF PersistApplyStatus
  <2> QED BY <1>1, <1>2, <1>4, <2>1
<1> QED BY <1>3, <1>4

(* InsertApplyStatus and clearTerminalStatus. *)
LEMMA InsertEffect ==
    ASSUME TypeOK, NEW s \in Snapshots,
           rows' = Append(rows, [snap |-> s, state |-> "submitted"]),
           terminal' = ClearTerminal(s)
    PROVE  /\ rows' \in Seq(StatusRow) /\ Len(rows') = Len(rows) + 1
           /\ Len(rows) \in Nat
           /\ \A k \in 1..Len(rows) : rows'[k] = rows[k]
           /\ rows'[Len(rows) + 1] = [snap |-> s, state |-> "submitted"]
           /\ terminal' \in Seq(TerminalEntry)
<1>1. rows \in Seq(StatusRow) /\ terminal \in Seq(TerminalEntry)
  BY DEF TypeOK, StatusRow, TerminalEntry
<1>2. [snap |-> s, state |-> "submitted"] \in StatusRow
  BY DEF StatusRow
<1>3. terminal' \in Seq(TerminalEntry)
  BY <1>1, ClearEffect
<1> HIDE DEF StatusRow
<1> QED BY <1>1, <1>2, <1>3, AppendProperties

LEMMA TrustTyped ==
    ASSUME trusted \in BOOLEAN, NEW state, Trust(state)
    PROVE  trusted' \in BOOLEAN
<1>1. CASE state = "confirmed"
  <2>1. trusted' = TRUE
    BY <1>1 DEF Trust
  <2> QED BY <2>1
<1>2. CASE state = "failed"
  <2>1. trusted' = FALSE
    BY <1>2 DEF Trust
  <2> QED BY <2>1
<1>3. CASE state # "confirmed" /\ state # "failed"
  <2>1. trusted' = trusted
    BY <1>3 DEF Trust
  <2> QED BY <2>1
<1> QED BY <1>1, <1>2, <1>3

LEMMA StateTyped ==
    ASSUME NEW r \in Orch!Outcomes, r # "none"
    PROVE  TerminalState(r) \in Terminal
BY DEF TerminalState, Terminal, Orch!Outcomes

LEMMA ProtectPair ==
    ASSUME protected = Unprotected, NEW a \in Exits, NEW b \in Exits
    PROVE  Protect(a, b) = Pair(a, b)
BY DEF Unprotected, Protect, Pair

(* A switch to the active exit protects it twice and releases it twice. *)
LEMMA UnprotectPair ==
    ASSUME NEW a \in Exits, NEW b \in Exits, protected = Pair(a, b)
    PROVE  Unprotect(a, b) = Unprotected
<1> DEFINE less(n) == IF n <= 1 THEN 0 ELSE n - 1
           once == [protected EXCEPT ![a] = less(protected[a])]
<1>1. Unprotect(a, b) = [once EXCEPT ![b] = less(once[b])]
  BY DEF Unprotect
<1>2. \A e \in Exits : once[e] = IF e = a THEN (IF a = b THEN 1 ELSE 0)
                                 ELSE IF e = b THEN 1 ELSE 0
  BY DEF Pair
<1>3. DOMAIN once = Exits
  BY DEF Pair
<1> HIDE DEF once
<1>4. \A e \in Exits : [once EXCEPT ![b] = less(once[b])][e] = 0
  BY <1>2, <1>3
<1> QED BY <1>1, <1>3, <1>4 DEF Unprotected

LEMMA PairTyped ==
    ASSUME NEW a, NEW b
    PROVE  Pair(a, b) \in [Exits -> Nat] /\ Unprotected \in [Exits -> Nat]
BY DEF Pair, Unprotected

(* Caller c goes on to r. *)
LEMMA MoveCall ==
    ASSUME OwnerInv, NEW c \in Clients, NEW r \in Requests',
           req' = [req EXCEPT ![c] = r],
           versions' = versions, Len(rows') \in Nat, Len(rows) <= Len(rows'),
           r.pc # "rules",
           r.pc \in {"dispatch", "applying", "return"} => r.row \in 1..Len(rows'),
           r.pc = "return" => r.res # "none"
    PROVE  req' \in [Clients -> Requests'] /\ \A d \in Clients : CallOK(d)'
<1>1. /\ Len(versions) \in Nat /\ Len(rows) \in Nat /\ Len(versions') = Len(versions)
  BY DEF OwnerInv, TypeOK
<1>2. Requests \subseteq Requests'
  BY <1>1, SetsGrow
<1>3. req' \in [Clients -> Requests']
  BY <1>2 DEF OwnerInv, TypeOK
<1>4. ASSUME NEW d \in Clients
      PROVE  CallOK(d)'
  <2>1. CASE d = c
    <3>1. req'[d] = r
      BY <2>1 DEF OwnerInv, TypeOK
    <3> QED BY <2>1, <3>1 DEF CallOK
  <2>2. CASE d # c
    <3>1. req'[d] = req[d] /\ CallOK(d)
      BY <2>2 DEF OwnerInv, TypeOK, CallInv
    <3> QED BY <1>1, <3>1 DEF CallOK
  <2> QED BY <2>1, <2>2
<1> QED BY <1>3, <1>4

(* A call that owned the change returns. *)
LEMMA ReturnOwned ==
    ASSUME OwnerInv, NEW c \in Clients, Owns(c), req[c].pc # "applying",
           req' = [req EXCEPT ![c] = IdleReq], UNCHANGED <<stage, hook>>,
           variation' = FALSE, inflight' = {}, switchInflight' = {},
           protected' = Unprotected
    PROVE  OneOwner' /\ OwnersOnly'
<1>1. /\ stage \notin Running \cup {"notify"} /\ hook = "none"
      /\ \A d \in Clients : d # c => ~Owns(d)
  BY Resting
<1>2. IdleReq.pc = "idle"
  BY DEF IdleReq
<1>3. \A d \in Clients : ~Owns(d)'
  BY <1>1, <1>2 DEF Owns, OwnerInv, TypeOK
<1> QED BY <1>1, <1>3, NoOwner DEF NothingRegistered

(* One element is registered, and it is the one that is removed. *)
LEMMA RegisteredRules ==
    ASSUME NEW s, NEW a, NEW b, Registered(s, a, b), ~IsSwitch(s)
    PROVE  /\ switchInflight = {} /\ protected = Unprotected /\ ClearInflight(s) = {}
           /\ \E i \in inflight : inflight = {i} /\ i.snap = s
BY DEF Registered, ClearInflight

LEMMA RegisteredSwitch ==
    ASSUME NEW s, NEW a, NEW b, Registered(s, a, b), IsSwitch(s)
    PROVE  /\ inflight = {} /\ protected = Pair(a, b) /\ ClearSwitchInflight(s) = {}
           /\ \E i \in switchInflight :
                 switchInflight = {i} /\ i.snap = s /\ i.prior = a /\ i.new = b
BY DEF Registered, ClearSwitchInflight

----------------------------------------------------------------------------
(* The steps of a caller that owns the change, and of one that begins it. *)

LEMMA ApplyRulesOwner ==
    ASSUME OwnerInv, NEW c \in Clients, ApplyRules(c)
    PROVE  OwnerInv'
<1> DEFINE row  == Len(rows) + 1
           info == [snap |-> req[c].snap, row |-> row, rv |-> req[c].rv,
                    priorRv |-> activeRv, committed |-> FALSE]
           g    == [rules |-> versions[req[c].rv], exit |-> activeExit]
           r    == [req[c] EXCEPT !.pc = "dispatch", !.row = row, !.cfg = g]
<1>1. /\ req[c].pc = "rules" /\ ~variation /\ variation' = TRUE
      /\ rows' = Append(rows, [snap |-> req[c].snap, state |-> "submitted"])
      /\ terminal' = ClearTerminal(req[c].snap)
      /\ inflight' = RegisterInflight(info)
      /\ req' = [req EXCEPT ![c] = r]
      /\ UNCHANGED <<orchVars, versions, activeRv, exits, activeExit, switchInflight,
                     protected, deleting, table, job, hook, settle, history>>
  BY DEF ApplyRules
<1>2. /\ req[c] \in Requests /\ req[c].snap \in Snapshots
      /\ req[c].rv \in 1..Len(versions) /\ req[c].snap = RulesSnap(versions[req[c].rv])
  BY <1>1 DEF OwnerInv, TypeOK, Requests, CallInv, CallOK
<1>3. /\ rows' \in Seq(StatusRow) /\ Len(rows') = row /\ Len(rows) \in Nat
      /\ terminal' \in Seq(TerminalEntry)
  BY <1>1, <1>2, InsertEffect DEF OwnerInv
<1>4. /\ stage \notin Running \cup {"notify"} /\ hook = "none"
      /\ \A d \in Clients : ~Owns(d)
      /\ inflight = {} /\ switchInflight = {} /\ protected = Unprotected
  BY <1>1, Quiet DEF NothingRegistered
<1>5. g \in Configs
  BY <1>2 DEF OwnerInv, TypeOK, Configs
<1>6. r \in Requests' /\ r.pc = "dispatch" /\ r.row = row /\ r.snap = req[c].snap
  <2>1. Len(versions') = Len(versions) /\ Len(versions) \in Nat
    BY <1>1 DEF OwnerInv, TypeOK
  <2>2. req[c] \in Requests'
    BY <1>2, <1>3, <2>1, SetsGrow
  <2>3. row \in 0..Len(rows')
    BY <1>3
  <2> HIDE DEF g, row
  <2> QED BY <1>5, <2>2, <2>3 DEF Requests
<1>7. info \in RuleApplyInfo'
  BY <1>1, <1>2, <1>3 DEF RuleApplyInfo, OwnerInv, TypeOK
<1>8. inflight' = {info} /\ info.snap = req[c].snap /\ info.rv = req[c].rv
  BY <1>1, <1>4 DEF RegisterInflight
<1> HIDE DEF r, info, g
<1>9. OrchOK'
  BY <1>1, OrchFrame DEF OwnerInv, TypeOK, OrchOK
<1>10. TypeOK' /\ CallInv'
  <2>1. Len(rows) <= Len(rows') /\ Len(rows') \in Nat /\ r.row \in 1..Len(rows')
    BY <1>3, <1>6
  <2>2. req' \in [Clients -> Requests'] /\ \A d \in Clients : CallOK(d)'
    BY <1>1, <1>6, <2>1, MoveCall
  <2>3. inflight' \subseteq RuleApplyInfo' /\ switchInflight' \subseteq SwitchInfo'
    BY <1>1, <1>4, <1>7, <1>8
  <2>4. TypeOK'
    BY <1>1, <1>3, <1>9, <2>2, <2>3 DEF OwnerInv, TypeOK, OrchOK, Jobs, StatusRow,
       TerminalEntry, history
  <2> QED BY <1>1, <1>2, <1>8, <2>2, <2>4 DEF CallInv
<1>11. OneOwner' /\ OwnersOnly'
  <2>1. req'[c] = r /\ \A d \in Clients : d # c => ~Owns(d)'
    BY <1>1, <1>4 DEF OwnerInv, TypeOK, Owns
  <2>2. Owns(c)'
    BY <1>6, <2>1 DEF Owns
  <2>3. ~IsSwitch(req[c].snap)
    BY <1>2 DEF IsSwitch, RulesSnap
  <2>4. Registered(req[c].snap, req[c].prior, req[c].exit)'
    BY <1>1, <1>4, <1>6, <1>8, <2>1, <2>3 DEF Registered, IsSwitch
  <2> QED BY <1>1, <1>4, <1>6, <2>1, <2>2, <2>4, CallerOwns DEF orchVars
<1> QED BY <1>9, <1>10, <1>11 DEF OwnerInv, OrchOK

LEMMA SwitchExitOwner ==
    ASSUME OwnerInv, NEW c \in Clients, NEW e \in Exits, SwitchExit(c, e)
    PROVE  OwnerInv'
<1> DEFINE r == [IdleReq EXCEPT !.pc = "protect", !.exit = e, !.prior = activeExit]
<1>1. /\ req[c].pc = "idle" /\ ~variation /\ variation' = TRUE
      /\ req' = [req EXCEPT ![c] = r]
      /\ UNCHANGED <<orchVars, dbVars, inflight, switchInflight, protected, terminal,
                     deleting, table, job, hook, settle, history>>
  BY DEF SwitchExit
<1>2. r \in Requests /\ r.pc = "protect"
  <2>1. IdleReq \in Requests
    BY Shapes DEF OwnerInv
  <2>2. activeExit \in Exits
    BY DEF OwnerInv, TypeOK
  <2> QED BY <2>1, <2>2 DEF Requests
<1>3. /\ stage \notin Running \cup {"notify"} /\ hook = "none"
      /\ \A d \in Clients : ~Owns(d)
      /\ NothingRegistered /\ protected = Unprotected
  BY <1>1, Quiet
<1> HIDE DEF r
<1>4. OrchOK'
  BY <1>1, OrchFrame DEF OwnerInv, TypeOK, OrchOK
<1>5. TypeOK' /\ CallInv'
  <2>1. r \in Requests' /\ Len(rows) <= Len(rows') /\ Len(rows') \in Nat
    BY <1>1, <1>2, SetsKept DEF dbVars, OwnerInv, TypeOK
  <2>2. req' \in [Clients -> Requests'] /\ \A d \in Clients : CallOK(d)'
    BY <1>1, <1>2, <2>1, MoveCall DEF dbVars
  <2>3. TypeOK'
    BY <1>1, <1>4, <2>2, SetsKept DEF OwnerInv, TypeOK, OrchOK, Jobs, dbVars, history
  <2> QED BY <1>1, <2>2, <2>3 DEF OwnerInv, CallInv, dbVars
<1>6. OneOwner' /\ OwnersOnly'
  <2>1. req'[c] = r /\ \A d \in Clients : d # c => ~Owns(d)'
    BY <1>1, <1>3 DEF OwnerInv, TypeOK, Owns
  <2>2. Owns(c)'
    BY <1>2, <2>1 DEF Owns
  <2> QED
    BY <1>1, <1>2, <1>3, <2>1, <2>2, CallerOwns DEF orchVars, NothingRegistered
<1> QED BY <1>4, <1>5, <1>6 DEF OwnerInv, OrchOK

(* The two steps before the change has a row. *)
LEMMA SwitchBeginsOwner ==
    ASSUME OwnerInv, NEW c \in Clients, ProtectSwitchExits(c) \/ FlipExit(c)
    PROVE  OwnerInv'
<1> DEFINE p == IF req[c].pc = "protect" THEN "flip" ELSE "record"
           r == [req[c] EXCEPT !.pc = p]
<1>1. /\ req[c].pc \in {"protect", "flip"}
      /\ req' = [req EXCEPT ![c] = r]
      /\ UNCHANGED <<orchVars, versions, activeRv, exits, rows, variation, inflight,
                     switchInflight, terminal, deleting, table, job, hook, settle, history>>
  BY DEF ProtectSwitchExits, FlipExit, dbVars, memVars
<1>2. /\ req[c] \in Requests /\ req[c].exit \in Exits /\ req[c].prior \in Exits
      /\ activeExit' \in Exits
  BY DEF OwnerInv, TypeOK, Requests, ProtectSwitchExits, FlipExit, dbVars
<1>3. /\ r \in Requests /\ r.pc \in {"flip", "record"}
      /\ r.prior = req[c].prior /\ r.exit = req[c].exit
  BY <1>2 DEF Requests
<1>4. Owns(c) /\ req[c].pc # "applying"
  BY <1>1 DEF Owns
<1>5. /\ stage \notin Running \cup {"notify"} /\ hook = "none" /\ variation
      /\ \A d \in Clients : d # c => ~Owns(d)
  BY <1>4, Resting
<1>6. NothingRegistered /\ protected' = Pair(req[c].prior, req[c].exit)
  <2>1. CASE ProtectSwitchExits(c)
    <3>1. NothingRegistered /\ protected = Unprotected
      BY <2>1 DEF ProtectSwitchExits, OwnerInv, OwnersOnly
    <3> QED BY <1>2, <2>1, <3>1, ProtectPair DEF ProtectSwitchExits
  <2>2. CASE FlipExit(c)
    BY <2>2 DEF FlipExit, memVars, OwnerInv, OwnersOnly
  <2> QED BY <2>1, <2>2
<1> HIDE DEF r
<1>7. OrchOK'
  BY <1>1, OrchFrame DEF OwnerInv, TypeOK, OrchOK
<1>8. TypeOK' /\ CallInv'
  <2>1. r \in Requests' /\ Len(rows) <= Len(rows') /\ Len(rows') \in Nat
    BY <1>1, <1>3, SetsKept DEF OwnerInv, TypeOK
  <2>2. req' \in [Clients -> Requests'] /\ \A d \in Clients : CallOK(d)'
    BY <1>1, <1>3, <2>1, MoveCall
  <2>3. TypeOK'
    BY <1>1, <1>2, <1>6, <1>7, <2>2, PairTyped, SetsKept DEF OwnerInv, TypeOK, OrchOK,
       Jobs, history
  <2> QED BY <1>1, <2>2, <2>3 DEF OwnerInv, CallInv
<1>9. OneOwner' /\ OwnersOnly'
  <2>1. req'[c] = r /\ \A d \in Clients : d # c => ~Owns(d)'
    BY <1>1, <1>5 DEF OwnerInv, TypeOK, Owns
  <2>2. Owns(c)'
    BY <1>3, <2>1 DEF Owns
  <2> QED
    BY <1>1, <1>3, <1>5, <1>6, <2>1, <2>2, CallerOwns DEF orchVars, NothingRegistered
<1> QED BY <1>7, <1>8, <1>9 DEF OwnerInv, OrchOK

(* The two ways a switch ends before it has a row. *)
LEMMA SwitchFailsOwner ==
    ASSUME OwnerInv, NEW c \in Clients, FlipFails(c) \/ RecordSwitchFails(c)
    PROVE  OwnerInv'
<1>1. /\ req[c].pc \in {"flip", "record"} /\ SwitchReturns(c)
      /\ UNCHANGED <<orchVars, versions, activeRv, exits, rows, inflight,
                     switchInflight, terminal, deleting, table, job, hook, settle, crashes>>
  BY DEF FlipFails, RecordSwitchFails, dbVars
<1>2. /\ protected' = Unprotect(req[c].prior, req[c].exit) /\ variation' = FALSE
      /\ req' = [req EXCEPT ![c] = IdleReq]
  BY <1>1 DEF SwitchReturns, EndVariation
<1>3. req[c].prior \in Exits /\ req[c].exit \in Exits
  BY DEF OwnerInv, TypeOK, Requests
<1>4. /\ inflight = {} /\ switchInflight = {}
      /\ protected = Pair(req[c].prior, req[c].exit)
  BY <1>1 DEF OwnerInv, OwnersOnly, NothingRegistered
<1>5. protected' = Unprotected
  BY <1>2, <1>3, <1>4, UnprotectPair
<1>6. activeExit' \in Exits /\ faults' \in 0..MaxFaults
  BY <1>3, ApplierAssumption DEF FlipFails, RecordSwitchFails, CompensateSwitch, dbVars, Faults,
     Count, OwnerInv, TypeOK
<1>7. trusted' \in BOOLEAN
  <2>1. trusted \in BOOLEAN
    BY DEF OwnerInv, TypeOK
  <2>2. CASE FlipFails(c)
    BY <2>1, <2>2 DEF FlipFails
  <2>3. CASE RecordSwitchFails(c)
    BY <2>1, <2>3, TrustTyped DEF RecordSwitchFails
  <2> QED BY <2>2, <2>3
<1>8. OrchOK'
  BY <1>1, OrchFrame DEF OwnerInv, TypeOK, OrchOK
<1>9. TypeOK' /\ CallInv'
  <2>1. IdleReq \in Requests' /\ Len(rows) <= Len(rows') /\ Len(rows') \in Nat
    BY <1>1, Shapes, SetsKept DEF OwnerInv, TypeOK
  <2>2. IdleReq.pc = "idle" /\ variation' \in BOOLEAN
    BY <1>2 DEF IdleReq
  <2>3. req' \in [Clients -> Requests'] /\ \A d \in Clients : CallOK(d)'
    BY <1>1, <1>2, <2>1, <2>2, MoveCall
  <2>4. TypeOK'
    BY <1>1, <1>5, <1>6, <1>7, <1>8, <2>2, <2>3, PairTyped, SetsKept DEF OwnerInv, TypeOK,
       OrchOK, Jobs
  <2> QED BY <1>1, <2>3, <2>4 DEF OwnerInv, CallInv
<1>10. OneOwner' /\ OwnersOnly'
  <2>1. Owns(c) /\ req[c].pc # "applying"
    BY <1>1 DEF Owns
  <2> QED BY <1>1, <1>2, <1>4, <1>5, <2>1, ReturnOwned DEF orchVars
<1> QED BY <1>8, <1>9, <1>10 DEF OwnerInv, OrchOK

LEMMA RecordSwitchOwner ==
    ASSUME OwnerInv, NEW c \in Clients, RecordSwitch(c)
    PROVE  OwnerInv'
<1> DEFINE row  == Len(rows) + 1
           s    == SwitchSnap(row)
           info == [snap |-> s, row |-> row, new |-> req[c].exit, prior |-> req[c].prior]
           r    == [req[c] EXCEPT !.pc = "dispatch", !.row = row, !.snap = s,
                                  !.cfg = Assembled]
<1>1. /\ req[c].pc = "record"
      /\ rows' = Append(rows, [snap |-> s, state |-> "submitted"])
      /\ terminal' = ClearTerminal(s)
      /\ switchInflight' = RegisterSwitchInflight(info)
      /\ req' = [req EXCEPT ![c] = r]
      /\ UNCHANGED <<orchVars, versions, activeRv, exits, activeExit, variation, inflight,
                     protected, deleting, table, job, hook, settle, history>>
  BY DEF RecordSwitch
<1>2. /\ req[c] \in Requests /\ req[c].exit \in Exits /\ req[c].prior \in Exits
  BY DEF OwnerInv, TypeOK, Requests
<1>3. s \in Snapshots /\ IsSwitch(s) /\ Assembled \in Configs
  BY Shapes DEF OwnerInv, SwitchSnap, IsSwitch
<1> HIDE DEF s
<1>4. /\ rows' \in Seq(StatusRow) /\ Len(rows') = row /\ Len(rows) \in Nat
      /\ terminal' \in Seq(TerminalEntry)
  BY <1>1, <1>3, InsertEffect DEF OwnerInv
<1>5. Owns(c) /\ req[c].pc # "applying"
  BY <1>1 DEF Owns
<1>6. /\ stage \notin Running \cup {"notify"} /\ hook = "none" /\ variation
      /\ \A d \in Clients : d # c => ~Owns(d)
  BY <1>5, Resting
<1>7. inflight = {} /\ switchInflight = {} /\ protected = Pair(req[c].prior, req[c].exit)
  BY <1>1 DEF OwnerInv, OwnersOnly, NothingRegistered
<1>8. /\ r \in Requests' /\ r.pc = "dispatch" /\ r.row = row /\ r.snap = s
      /\ r.exit = req[c].exit /\ r.prior = req[c].prior
  <2>1. Len(versions') = Len(versions) /\ Len(versions) \in Nat
    BY <1>1 DEF OwnerInv, TypeOK
  <2>2. req[c] \in Requests'
    BY <1>2, <1>4, <2>1, SetsGrow
  <2>3. row \in 0..Len(rows')
    BY <1>4
  <2> HIDE DEF row
  <2> QED BY <1>3, <2>2, <2>3 DEF Requests
<1>9. info \in SwitchInfo'
  BY <1>2, <1>3, <1>4 DEF SwitchInfo
<1>10. switchInflight' = {info} /\ info.snap = s /\ info.new = req[c].exit
       /\ info.prior = req[c].prior
  BY <1>1, <1>7 DEF RegisterSwitchInflight
<1> HIDE DEF r, info
<1>11. OrchOK'
  BY <1>1, OrchFrame DEF OwnerInv, TypeOK, OrchOK
<1>12. TypeOK' /\ CallInv'
  <2>1. Len(rows) <= Len(rows') /\ Len(rows') \in Nat /\ r.row \in 1..Len(rows')
    BY <1>4, <1>8
  <2>2. req' \in [Clients -> Requests'] /\ \A d \in Clients : CallOK(d)'
    BY <1>1, <1>8, <2>1, MoveCall
  <2>3. inflight' \subseteq RuleApplyInfo' /\ switchInflight' \subseteq SwitchInfo'
    BY <1>1, <1>7, <1>9, <1>10
  <2>4. TypeOK'
    BY <1>1, <1>4, <1>11, <2>2, <2>3 DEF OwnerInv, TypeOK, OrchOK, Jobs, StatusRow,
       TerminalEntry, history
  <2> QED BY <1>1, <1>7, <2>2, <2>4 DEF CallInv
<1>13. OneOwner' /\ OwnersOnly'
  <2>1. req'[c] = r /\ \A d \in Clients : d # c => ~Owns(d)'
    BY <1>1, <1>6 DEF OwnerInv, TypeOK, Owns
  <2>2. Owns(c)'
    BY <1>8, <2>1 DEF Owns
  <2>3. Registered(req[c].snap, req[c].prior, req[c].exit)'
    BY <1>1, <1>3, <1>7, <1>8, <1>10, <2>1 DEF Registered, IsSwitch
  <2> QED BY <1>1, <1>6, <1>8, <2>1, <2>2, <2>3, CallerOwns DEF orchVars
<1> QED BY <1>11, <1>12, <1>13 DEF OwnerInv, OrchOK

(* Orch.Apply takes the change. *)
LEMMA DispatchOwner ==
    ASSUME OwnerInv, NEW c \in Clients, Dispatch(c)
    PROVE  OwnerInv'
<1> DEFINE r == [req[c] EXCEPT !.pc = "applying"]
<1>1. /\ req[c].pc = "dispatch" /\ Orch!Apply(req[c].cfg)
      /\ job' = [snap |-> req[c].snap, client |-> c, seen |-> req[c].prev,
                 prior |-> req[c].prior, new |-> req[c].exit]
      /\ req' = [req EXCEPT ![c] = r]
      /\ UNCHANGED <<dbVars, memVars, hook, settle, history>>
  BY DEF Dispatch
<1>2. req[c] \in Requests /\ req[c].cfg \in Configs
  BY DEF OwnerInv, TypeOK, Requests
<1>3. /\ r \in Requests /\ r.pc = "applying" /\ r.row = req[c].row /\ r.snap = req[c].snap
      /\ r.prior = req[c].prior /\ r.exit = req[c].exit
  BY <1>2 DEF Requests
<1>4. OrchOK' /\ stage' = "render" /\ ~async'
  BY <1>1, <1>2, ApplyOrch DEF OwnerInv, TypeOK, OrchOK
<1>5. Owns(c) /\ req[c].pc # "applying"
  BY <1>1 DEF Owns
<1>6. hook = "none" /\ variation /\ \A d \in Clients : d # c => ~Owns(d)
  BY <1>5, Resting
<1>7. Registered(req[c].snap, req[c].prior, req[c].exit) /\ req[c].row \in 1..Len(rows)
  BY <1>1 DEF OwnerInv, OwnersOnly, CallInv, CallOK
<1>8. job' \in Jobs
  BY <1>1, <1>2 DEF Jobs, Requests
<1>9. /\ job'.client = c /\ job'.snap = req[c].snap
      /\ job'.prior = req[c].prior /\ job'.new = req[c].exit
  BY <1>1
<1> HIDE DEF r
<1>10. TypeOK' /\ CallInv'
  <2>1. r \in Requests' /\ Len(rows) <= Len(rows') /\ Len(rows') \in Nat
    BY <1>1, <1>3, SetsKept DEF OwnerInv, TypeOK, dbVars
  <2>2. req' \in [Clients -> Requests'] /\ \A d \in Clients : CallOK(d)'
    BY <1>1, <1>3, <1>7, <2>1, MoveCall DEF dbVars
  <2>3. TypeOK'
    BY <1>1, <1>4, <1>8, <2>2, SetsKept DEF OwnerInv, TypeOK, OrchOK, Jobs, dbVars, memVars,
       history
  <2> QED BY <1>1, <2>2, <2>3 DEF OwnerInv, CallInv, dbVars, memVars
<1>11. OneOwner' /\ OwnersOnly'
  <2>1. req'[c] = r /\ \A d \in Clients : d # c => ~Owns(d)'
    BY <1>1, <1>6 DEF OwnerInv, TypeOK, Owns
  <2>2. Registered(req[c].snap, req[c].prior, req[c].exit)'
    BY <1>1, <1>3, <1>7, <2>1 DEF Registered, memVars, IsSwitch
  <2> QED
    BY <1>1, <1>3, <1>4, <1>6, <1>9, <2>1, <2>2, CallerApplies DEF Running, memVars
<1> QED BY <1>4, <1>10, <1>11 DEF OwnerInv, OrchOK

(* Orch.Apply refuses it. *)
LEMMA DispatchFailsOwner ==
    ASSUME OwnerInv, NEW c \in Clients, DispatchSnapshotFails(c) \/ DispatchRejected(c)
    PROVE  OwnerInv'
<1>1. PICK x \in {"failed", "rolled_back"} :
          req' = [req EXCEPT ![c] = [req[c] EXCEPT !.pc = "return", !.res = x]]
  BY DEF DispatchSnapshotFails, DispatchRejected
<1> DEFINE r == [req[c] EXCEPT !.pc = "return", !.res = x]
<1>2. /\ req[c].pc = "dispatch"
      /\ UNCHANGED <<dbVars, memVars, job, hook, settle, trusted, crashes>>
      /\ faults' \in 0..MaxFaults
  BY ApplierAssumption DEF DispatchSnapshotFails, DispatchRejected, Faults, OwnerInv, TypeOK,
     history
<1>3. req[c] \in Requests
  BY DEF OwnerInv, TypeOK
<1>4. /\ r \in Requests /\ r.pc = "return" /\ r.row = req[c].row /\ r.snap = req[c].snap
      /\ r.prior = req[c].prior /\ r.exit = req[c].exit /\ r.res = x
  BY <1>3 DEF Requests, Orch!Outcomes
<1>5. OrchOK' /\ stage' = stage
  BY OrchFrame, SnapshotFailsOrch DEF DispatchSnapshotFails, DispatchRejected, OwnerInv,
     TypeOK, OrchOK, orchVars
<1>6. Owns(c) /\ req[c].pc # "applying"
  BY <1>2 DEF Owns
<1>7. /\ stage \notin Running \cup {"notify"} /\ hook = "none" /\ variation
      /\ \A d \in Clients : d # c => ~Owns(d)
  BY <1>6, Resting
<1>8. Registered(req[c].snap, req[c].prior, req[c].exit) /\ req[c].row \in 1..Len(rows)
  BY <1>2 DEF OwnerInv, OwnersOnly, CallInv, CallOK
<1>9. req' = [req EXCEPT ![c] = r]
  BY <1>1
<1> HIDE DEF r
<1>10. TypeOK' /\ CallInv'
  <2>1. r \in Requests' /\ Len(rows) <= Len(rows') /\ Len(rows') \in Nat
    BY <1>2, <1>4, SetsKept DEF OwnerInv, TypeOK, dbVars
  <2>2. req' \in [Clients -> Requests'] /\ \A d \in Clients : CallOK(d)'
    BY <1>2, <1>4, <1>8, <1>9, <2>1, MoveCall DEF dbVars
  <2>3. TypeOK'
    BY <1>2, <1>5, <2>2, SetsKept DEF OwnerInv, TypeOK, OrchOK, Jobs, dbVars, memVars
  <2> QED BY <1>2, <2>2, <2>3 DEF OwnerInv, CallInv, dbVars, memVars
<1>11. OneOwner' /\ OwnersOnly'
  <2>1. req'[c] = r /\ \A d \in Clients : d # c => ~Owns(d)'
    BY <1>7, <1>9 DEF OwnerInv, TypeOK, Owns
  <2>2. Owns(c)'
    BY <1>4, <2>1 DEF Owns
  <2>3. Registered(req[c].snap, req[c].prior, req[c].exit)'
    BY <1>2, <1>4, <1>8, <2>1 DEF Registered, memVars, IsSwitch
  <2> QED
    BY <1>2, <1>4, <1>5, <1>7, <2>1, <2>2, <2>3, CallerOwns DEF memVars
<1> QED BY <1>5, <1>10, <1>11 DEF OwnerInv, OrchOK

(* A caller hands its change over to the observer. *)
LEMMA ReloadOwner ==
    ASSUME OwnerInv, ReloadStep
    PROVE  OwnerInv'
<1>1. /\ req' = IF Orch!HealthCheck THEN [req EXCEPT ![job.client] = IdleReq] ELSE req
      /\ UNCHANGED <<dbVars, memVars, job, hook, settle, history>>
  BY DEF ReloadStep
<1>2. /\ OrchOK' /\ stage = "reload" /\ ~async /\ async' = Orch!HealthCheck
      /\ stage' = IF Orch!HealthCheck THEN "observe" ELSE "commit"
  BY ReloadOrch DEF ReloadStep, OwnerInv, TypeOK, OrchOK
<1>3. hook = "none"
  BY <1>2 DEF OwnerInv, OneOwner, TypeOK
<1>4. PICK c \in Clients :
          /\ c = job.client /\ req[c].pc = "applying" /\ variation
          /\ \A d \in Clients : d # c => ~Owns(d)
          /\ Registered(job.snap, job.prior, job.new)
  BY <1>2, Waiting DEF Running
<1>5. CASE Orch!HealthCheck
  <2>1. req' = [req EXCEPT ![c] = IdleReq]
    BY <1>1, <1>4, <1>5
  <2>2. IdleReq.pc = "idle"
    BY DEF IdleReq
  <2>3. IdleReq \in Requests' /\ Len(rows) <= Len(rows') /\ Len(rows') \in Nat
    BY <1>1, Shapes, SetsKept DEF OwnerInv, TypeOK, dbVars
  <2>4. req' \in [Clients -> Requests'] /\ \A d \in Clients : CallOK(d)'
    BY <1>1, <1>4, <2>1, <2>2, <2>3, MoveCall DEF dbVars
  <2>5. TypeOK'
    BY <1>1, <1>2, <2>4, SetsKept DEF OwnerInv, TypeOK, OrchOK, Jobs, dbVars, memVars, history
  <2>6. CallInv'
    BY <1>1, <2>4 DEF OwnerInv, CallInv, dbVars, memVars
  <2>7. \A d \in Clients : ~Owns(d)'
    BY <1>4, <2>1, <2>2 DEF OwnerInv, TypeOK, Owns
  <2>8. Registered(job.snap, job.prior, job.new)'
    BY <1>1, <1>4 DEF Registered, memVars, IsSwitch
  <2>9. OneOwner' /\ OwnersOnly'
    BY <1>1, <1>2, <1>3, <1>4, <1>5, <2>7, <2>8, ObserverOwns DEF memVars
  <2> QED BY <1>2, <2>5, <2>6, <2>9 DEF OwnerInv, OrchOK
<1>6. CASE ~Orch!HealthCheck
  <2>1. UNCHANGED req /\ stage' = "commit" /\ ~async'
    BY <1>1, <1>2, <1>6
  <2>2. TypeOK' /\ OrchInv' /\ CallInv'
    BY <1>1, <1>2, <2>1, StillTyped DEF OwnerInv, TypeOK, dbVars, memVars, history
  <2>3. async' = async
    BY <1>2, <2>1 DEF OwnerInv, TypeOK, OrchOK, Orch!OrchTypeOK
  <2>4. OneOwner' /\ OwnersOnly'
    BY <1>1, <1>2, <1>3, <2>1, <2>3, StillOwned DEF memVars, Running
  <2> QED BY <2>2, <2>4 DEF OwnerInv
<1> QED BY <1>5, <1>6

(* The result of a lifecycle reaches its owner. *)
LEMMA CallerReturnsOwner ==
    ASSUME OwnerInv, CallerReturns, stage \in Running,
           outcome' \in Orch!Outcomes \ {"none"},
           stage' = IF async THEN "notify" ELSE "idle", async' = async,
           UNCHANGED <<dbVars, variation, job, settle>>, hook' = "none",
           Registered(job.snap, job.prior, job.new)'
    PROVE  /\ req' \in [Clients -> Requests'] /\ \A d \in Clients : CallOK(d)'
           /\ OneOwner' /\ OwnersOnly'
<1>1. CASE async
  <2>1. req' = req
    BY <1>1 DEF CallerReturns
  <2>2. variation /\ \A d \in Clients : ~Owns(d)
    BY <1>1, Observing
  <2>3. \A d \in Clients : ~Owns(d)'
    BY <2>1, <2>2 DEF Owns
  <2>4. OneOwner' /\ OwnersOnly'
    BY <1>1, <2>2, <2>3, ObserverOwns DEF Running
  <2>5. req' \in [Clients -> Requests'] /\ \A d \in Clients : CallOK(d)'
    BY <2>1, SetsKept DEF OwnerInv, TypeOK, CallInv, CallOK, dbVars
  <2> QED BY <2>4, <2>5
<1>2. CASE ~async
  <2>1. PICK c \in Clients :
            /\ c = job.client /\ req[c].pc = "applying" /\ variation
            /\ \A d \in Clients : d # c => ~Owns(d)
            /\ job.snap = req[c].snap /\ job.prior = req[c].prior /\ job.new = req[c].exit
    BY <1>2, Waiting
  <2> DEFINE r == [req[c] EXCEPT !.pc = "return", !.res = outcome']
  <2>2. req' = [req EXCEPT ![c] = r]
    BY <1>2, <2>1 DEF CallerReturns
  <2>3. req[c] \in Requests /\ req[c].row \in 1..Len(rows)
    BY <2>1 DEF OwnerInv, TypeOK, CallInv, CallOK
  <2>4. /\ r \in Requests /\ r.pc = "return" /\ r.row = req[c].row /\ r.snap = req[c].snap
        /\ r.prior = req[c].prior /\ r.exit = req[c].exit /\ r.res # "none"
    BY <2>3 DEF Requests
  <2> HIDE DEF r
  <2>5. r \in Requests' /\ Len(rows) <= Len(rows') /\ Len(rows') \in Nat
    BY <2>4, SetsKept DEF OwnerInv, TypeOK, dbVars
  <2>6. req' \in [Clients -> Requests'] /\ \A d \in Clients : CallOK(d)'
    BY <2>1, <2>2, <2>3, <2>4, <2>5, MoveCall DEF dbVars
  <2>7. req'[c] = r /\ \A d \in Clients : d # c => ~Owns(d)'
    BY <2>1, <2>2 DEF OwnerInv, TypeOK, Owns
  <2>8. Owns(c)'
    BY <2>4, <2>7 DEF Owns
  <2>9. Registered(req[c].snap, req[c].prior, req[c].exit)'
    BY <2>1, <2>4, <2>7 DEF Registered, IsSwitch
  <2>10. OneOwner' /\ OwnersOnly'
    BY <1>2, <2>1, <2>4, <2>7, <2>8, <2>9, CallerOwns DEF Running
  <2> QED BY <2>6, <2>10
<1> QED BY <1>1, <1>2

LEMMA RollbackOwner ==
    ASSUME OwnerInv, RollbackStep
    PROVE  OwnerInv'
<1>1. /\ CallerReturns /\ UNCHANGED <<dbVars, memVars, job, hook, settle, trusted, crashes>>
      /\ faults' \in 0..MaxFaults
  BY ApplierAssumption DEF RollbackStep, Faults, Count, ReloadFault, OwnerInv, TypeOK
<1>2. /\ OrchOK' /\ stage \in Running /\ stage # "commit" /\ async' = async
      /\ outcome' \in Orch!Outcomes \ {"none"}
      /\ stage' = IF async THEN "notify" ELSE "idle"
  BY RollbackOrch DEF OwnerInv, TypeOK, OrchOK, Running, Orch!Outcomes
<1>3. hook = "none"
  BY <1>2 DEF OwnerInv, OneOwner, TypeOK, Running
<1>4. Registered(job.snap, job.prior, job.new)
  BY <1>2, <1>3, Waiting, Observing
<1>5. Registered(job.snap, job.prior, job.new)'
  BY <1>1, <1>4 DEF Registered, memVars, IsSwitch
<1>6. /\ req' \in [Clients -> Requests'] /\ \A d \in Clients : CallOK(d)'
      /\ OneOwner' /\ OwnersOnly'
  BY <1>1, <1>2, <1>3, <1>5, CallerReturnsOwner DEF memVars
<1>7. TypeOK'
  BY <1>1, <1>2, <1>6, SetsKept DEF OwnerInv, TypeOK, OrchOK, Jobs, dbVars, memVars
<1>8. CallInv'
  BY <1>1, <1>6 DEF OwnerInv, CallInv, dbVars, memVars
<1> QED BY <1>2, <1>6, <1>7, <1>8 DEF OwnerInv, OrchOK

(* The second half of commitRuleApply, or a commit without one. *)
LEMMA CommitEndsOwner ==
    ASSUME OwnerInv, CommitPublish \/ CommitSwitch
    PROVE  OwnerInv'
<1>1. /\ CallerReturns
      /\ UNCHANGED <<dbVars, variation, switchInflight, protected, terminal, deleting, job, settle,
                     history>>
  BY DEF CommitPublish, CommitSwitch, memVars
<1>2. /\ OrchOK' /\ stage = "commit" /\ async' = async
      /\ outcome' \in Orch!Outcomes \ {"none"}
      /\ stage' = IF async THEN "notify" ELSE "idle"
  BY CommitOrch DEF OwnerInv, TypeOK, OrchOK, Orch!Outcomes, CommitPublish, CommitSwitch
<1>3. stage \in Running
  BY <1>2 DEF Running
<1>4. hook' = "none" /\ hook # "release"
  BY <1>2 DEF OwnerInv, OneOwner, TypeOK, CommitPublish, CommitSwitch
<1>5. Registered(job.snap, job.prior, job.new)
  BY <1>3, <1>4, Waiting, Observing
<1>6. /\ \A i \in inflight' : i \in RuleApplyInfo /\ i.snap = RulesSnap(versions[i.rv])
      /\ table' \in RuleSets \cup {NoRules}
      /\ Registered(job.snap, job.prior, job.new)'
  <2>1. CASE CommitSwitch
    BY <1>1, <1>5, <2>1 DEF CommitSwitch, OwnerInv, TypeOK, CallInv, memVars, Registered,
       IsSwitch
  <2>2. CASE CommitPublish
    <3>1. PICK i \in inflight :
              /\ i.snap = job.snap /\ table' = versions[i.rv]
              /\ inflight' = (inflight \ {i}) \cup {[i EXCEPT !.committed = TRUE]}
      BY <2>2 DEF CommitPublish, Publish
    <3> DEFINE j == [i EXCEPT !.committed = TRUE]
    <3>2. i \in RuleApplyInfo /\ i.snap = RulesSnap(versions[i.rv])
      BY <3>1 DEF OwnerInv, TypeOK, CallInv
    <3>3. j \in RuleApplyInfo /\ j.snap = i.snap /\ j.rv = i.rv
      BY <3>2 DEF RuleApplyInfo
    <3>4. i.rv \in 1..Len(versions) /\ versions \in Seq(RuleSets)
      BY <3>2 DEF RuleApplyInfo, OwnerInv, TypeOK
    <3>5. ~IsSwitch(job.snap)
      BY <3>1, <3>2 DEF IsSwitch, RulesSnap
    <3>6. inflight = {i}
      BY <1>5, <3>1, <3>5 DEF Registered
    <3> HIDE DEF j
    <3>7. inflight' = {j}
      BY <3>1, <3>6 DEF j
    <3>8. Registered(job.snap, job.prior, job.new)'
      BY <1>1, <1>5, <3>1, <3>3, <3>5, <3>7 DEF Registered, IsSwitch
    <3>9. table' \in RuleSets \cup {NoRules}
      BY <3>1, <3>4
    <3> QED BY <3>2, <3>3, <3>7, <3>8, <3>9
  <2> QED BY <2>1, <2>2
<1>7. /\ req' \in [Clients -> Requests'] /\ \A d \in Clients : CallOK(d)'
      /\ OneOwner' /\ OwnersOnly'
  BY <1>1, <1>2, <1>3, <1>4, <1>6, CallerReturnsOwner
<1>8. TypeOK'
  BY <1>1, <1>2, <1>4, <1>6, <1>7, SetsKept DEF OwnerInv, TypeOK, OrchOK, Jobs, dbVars,
     history
<1>9. CallInv'
  BY <1>1, <1>6, <1>7 DEF CallInv, dbVars
<1> QED BY <1>2, <1>7, <1>8, <1>9 DEF OwnerInv, OrchOK

(* The synchronous results reach the database. *)
LEMMA RulesReturnOwner ==
    ASSUME OwnerInv, NEW c \in Clients, RulesReturn(c)
    PROVE  OwnerInv'
<1> DEFINE state == TerminalState(req[c].res)
<1>1. /\ req[c].pc = "return" /\ ~IsSwitch(req[c].snap)
      /\ inflight' = ClearInflight(req[c].snap) /\ variation' = FALSE
      /\ Trust(state) /\ req' = [req EXCEPT ![c] = IdleReq] /\ job' = NoJob
      /\ UNCHANGED <<orchVars, versions, activeRv, exits, activeExit, switchInflight,
                     protected, deleting, table, hook, settle, crashes>>
  BY DEF RulesReturn, EndVariation
<1>2. PICK ok \in BOOLEAN : PersistApplyStatus(req[c].row, req[c].snap, state, ok)
  BY DEF RulesReturn
<1>3. faults' \in 0..MaxFaults
  BY ApplierAssumption DEF RulesReturn, Faults, Count, OwnerInv, TypeOK
<1>4. /\ req[c].row \in 1..Len(rows) /\ req[c].snap \in Snapshots /\ state \in Terminal
  BY <1>1, StateTyped DEF OwnerInv, TypeOK, Requests, CallInv, CallOK
<1> HIDE DEF state
<1>5. rows' \in Seq(StatusRow) /\ Len(rows') = Len(rows) /\ terminal' \in Seq(TerminalEntry)
  BY <1>2, <1>4, PersistEffect DEF OwnerInv
<1>6. Registered(req[c].snap, req[c].prior, req[c].exit)
  BY <1>1 DEF OwnerInv, OwnersOnly
<1>7. switchInflight' = {} /\ protected' = Unprotected /\ inflight' = {}
  BY <1>1, <1>6, RegisteredRules
<1>8. trusted' \in BOOLEAN
  BY <1>1, TrustTyped DEF OwnerInv, TypeOK
<1>9. OrchOK'
  BY <1>1, OrchFrame DEF OwnerInv, TypeOK, OrchOK
<1>10. TypeOK' /\ CallInv'
  <2>1. IdleReq \in Requests' /\ Len(rows) <= Len(rows') /\ Len(rows') \in Nat
    BY <1>1, <1>5, Shapes, SetsGrow DEF OwnerInv, TypeOK
  <2>2. IdleReq.pc = "idle" /\ variation' \in BOOLEAN /\ job' \in Jobs
    BY <1>1, Shapes DEF IdleReq, OwnerInv
  <2>3. req' \in [Clients -> Requests'] /\ \A d \in Clients : CallOK(d)'
    BY <1>1, <2>1, <2>2, MoveCall
  <2>4. TypeOK'
    BY <1>1, <1>3, <1>5, <1>7, <1>8, <1>9, <2>2, <2>3, PairTyped DEF OwnerInv, TypeOK,
       OrchOK, Jobs, StatusRow, TerminalEntry
  <2> QED BY <1>7, <2>3, <2>4 DEF CallInv
<1>11. OneOwner' /\ OwnersOnly'
  <2>1. Owns(c) /\ req[c].pc # "applying"
    BY <1>1 DEF Owns
  <2> QED BY <1>1, <1>7, <2>1, ReturnOwned DEF orchVars
<1> QED BY <1>9, <1>10, <1>11 DEF OwnerInv, OrchOK

(* A switch that is confirmed at once returns like a rules apply. *)
LEMMA SwitchConfirmedOwner ==
    ASSUME OwnerInv, NEW c \in Clients, SwitchConfirmed(c)
    PROVE  OwnerInv'
<1>1. /\ req[c].pc = "return" /\ IsSwitch(req[c].snap) /\ SwitchReturns(c)
      /\ Trust("confirmed")
      /\ switchInflight' = ClearSwitchInflight(req[c].snap) /\ job' = NoJob
      /\ UNCHANGED <<orchVars, versions, activeRv, exits, activeExit, inflight,
                     deleting, table, hook, settle, crashes>>
  BY DEF SwitchConfirmed
<1>2. PICK ok \in BOOLEAN :
         /\ PersistApplyStatus(req[c].row, req[c].snap, "confirmed", ok)
         /\ Faults(Count(~ok))
  BY DEF SwitchConfirmed
<1>3. /\ req[c].row \in 1..Len(rows) /\ req[c].snap \in Snapshots
      /\ req[c].prior \in Exits /\ req[c].exit \in Exits
  BY <1>1 DEF OwnerInv, TypeOK, Requests, CallInv, CallOK
<1>4. rows' \in Seq(StatusRow) /\ Len(rows') = Len(rows) /\ terminal' \in Seq(TerminalEntry)
  <2>1. "confirmed" \in Terminal
    BY DEF Terminal
  <2> QED BY <1>2, <1>3, <2>1, PersistEffect DEF OwnerInv
<1>5. /\ protected' = Unprotect(req[c].prior, req[c].exit) /\ variation' = FALSE
      /\ req' = [req EXCEPT ![c] = IdleReq]
  BY <1>1 DEF SwitchReturns, EndVariation
<1>6. Registered(req[c].snap, req[c].prior, req[c].exit)
  BY <1>1 DEF OwnerInv, OwnersOnly
<1>7. switchInflight' = {} /\ inflight' = {} /\ protected' = Unprotected
  BY <1>1, <1>3, <1>5, <1>6, RegisteredSwitch, UnprotectPair
<1>8. trusted' \in BOOLEAN
  BY <1>1, TrustTyped DEF OwnerInv, TypeOK
<1>9. faults' \in 0..MaxFaults
  BY <1>2, ApplierAssumption DEF Faults, Count, OwnerInv, TypeOK
<1>10. OrchOK'
  BY <1>1, OrchFrame DEF OwnerInv, TypeOK, OrchOK
<1>11. TypeOK' /\ CallInv'
  <2>1. IdleReq \in Requests' /\ Len(rows) <= Len(rows') /\ Len(rows') \in Nat
    BY <1>1, <1>4, Shapes, SetsGrow DEF OwnerInv, TypeOK
  <2>2. IdleReq.pc = "idle" /\ variation' \in BOOLEAN /\ job' \in Jobs
    BY <1>1, <1>5, Shapes DEF IdleReq, OwnerInv
  <2>3. req' \in [Clients -> Requests'] /\ \A d \in Clients : CallOK(d)'
    BY <1>1, <1>5, <2>1, <2>2, MoveCall
  <2>4. TypeOK'
    BY <1>1, <1>4, <1>7, <1>8, <1>9, <1>10, <2>2, <2>3, PairTyped
    DEF OwnerInv, TypeOK, OrchOK, Jobs, StatusRow, TerminalEntry
  <2> QED BY <1>7, <2>3, <2>4 DEF CallInv
<1>12. OneOwner' /\ OwnersOnly'
  <2>1. Owns(c) /\ req[c].pc # "applying"
    BY <1>1 DEF Owns
  <2> QED BY <1>1, <1>5, <1>7, <2>1, ReturnOwned DEF orchVars
<1> QED BY <1>10, <1>11, <1>12 DEF OwnerInv, OrchOK

(* The entry of a switch that failed is removed; its exits stay protected. *)
LEMMA SwitchReturnOwner ==
    ASSUME OwnerInv, NEW c \in Clients, SwitchReturn(c)
    PROVE  OwnerInv'
<1> DEFINE r == [req[c] EXCEPT !.pc = "release"]
<1>1. /\ req[c].pc = "return" /\ IsSwitch(req[c].snap) /\ req[c].res # "ok"
      /\ switchInflight' = ClearSwitchInflight(req[c].snap)
      /\ settle' = [step |-> "compensate", row |-> req[c].row, snap |-> req[c].snap,
                    prior |-> req[c].prior, state |-> req[c].res]
      /\ Trust(req[c].res)
      /\ req' = [req EXCEPT ![c] = r]
      /\ UNCHANGED <<orchVars, dbVars, variation, inflight, protected, terminal,
                     deleting, table, job, hook, faults, crashes>>
  BY DEF SwitchReturn
<1>2. /\ req[c] \in Requests /\ req[c].snap \in Snapshots /\ req[c].prior \in Exits
      /\ req[c].res \in Orch!Outcomes /\ req[c].res # "none"
      /\ req[c].row \in Nat
  BY <1>1 DEF OwnerInv, TypeOK, Requests, CallInv, CallOK
<1>3. /\ r \in Requests /\ r.pc = "release" /\ r.prior = req[c].prior
      /\ r.exit = req[c].exit
  BY <1>2 DEF Requests
<1>4. settle' \in Settling
  <2>1. req[c].res \in Terminal
    BY <1>1, <1>2 DEF Terminal, Orch!Outcomes
  <2> QED BY <1>1, <1>2, <2>1 DEF Settling
<1>5. Owns(c) /\ req[c].pc # "applying"
  BY <1>1 DEF Owns
<1>6. /\ stage \notin Running \cup {"notify"} /\ hook = "none" /\ variation
      /\ \A d \in Clients : d # c => ~Owns(d)
  BY <1>5, Resting
<1>7. Registered(req[c].snap, req[c].prior, req[c].exit)
  BY <1>1 DEF OwnerInv, OwnersOnly
<1>8. inflight' = {} /\ switchInflight' = {} /\ protected' = Pair(req[c].prior, req[c].exit)
  BY <1>1, <1>7, RegisteredSwitch
<1>9. trusted' \in BOOLEAN
  BY <1>1, TrustTyped DEF OwnerInv, TypeOK
<1> HIDE DEF r
<1>10. OrchOK'
  BY <1>1, OrchFrame DEF OwnerInv, TypeOK, OrchOK
<1>11. TypeOK' /\ CallInv'
  <2>1. r \in Requests' /\ Len(rows) <= Len(rows') /\ Len(rows') \in Nat
    BY <1>1, <1>3, SetsKept DEF OwnerInv, TypeOK, dbVars
  <2>2. req' \in [Clients -> Requests'] /\ \A d \in Clients : CallOK(d)'
    BY <1>1, <1>3, <2>1, MoveCall DEF dbVars
  <2>3. TypeOK'
    BY <1>1, <1>4, <1>8, <1>9, <1>10, <2>2, SetsKept
    DEF OwnerInv, TypeOK, OrchOK, Jobs, dbVars
  <2> QED BY <1>8, <2>2, <2>3 DEF CallInv
<1>12. OneOwner' /\ OwnersOnly'
  <2>1. req'[c] = r /\ \A d \in Clients : d # c => ~Owns(d)'
    BY <1>1, <1>6 DEF OwnerInv, TypeOK, Owns
  <2>2. Owns(c)'
    BY <1>3, <2>1 DEF Owns
  <2> QED
    BY <1>1, <1>3, <1>6, <1>8, <2>1, <2>2, CallerOwns DEF orchVars, NothingRegistered
<1> QED BY <1>10, <1>11, <1>12 DEF OwnerInv, OrchOK

(* Once it is settled the call returns. *)
LEMMA SwitchReleasesOwner ==
    ASSUME OwnerInv, NEW c \in Clients, SwitchReleases(c)
    PROVE  OwnerInv'
<1>1. /\ req[c].pc = "release" /\ SwitchReturns(c) /\ job' = NoJob
      /\ UNCHANGED <<orchVars, dbVars, inflight, switchInflight, terminal, deleting,
                     table, hook, settle, history>>
  BY DEF SwitchReleases
<1>2. /\ protected' = Unprotect(req[c].prior, req[c].exit) /\ variation' = FALSE
      /\ req' = [req EXCEPT ![c] = IdleReq]
  BY <1>1 DEF SwitchReturns, EndVariation
<1>3. req[c].prior \in Exits /\ req[c].exit \in Exits
  BY DEF OwnerInv, TypeOK, Requests
<1>4. /\ inflight = {} /\ switchInflight = {}
      /\ protected = Pair(req[c].prior, req[c].exit)
  BY <1>1 DEF OwnerInv, OwnersOnly, NothingRegistered
<1>5. protected' = Unprotected
  BY <1>2, <1>3, <1>4, UnprotectPair
<1>6. OrchOK'
  BY <1>1, OrchFrame DEF OwnerInv, TypeOK, OrchOK
<1>7. TypeOK' /\ CallInv'
  <2>1. IdleReq \in Requests' /\ Len(rows) <= Len(rows') /\ Len(rows') \in Nat
    BY <1>1, Shapes, SetsKept DEF OwnerInv, TypeOK, dbVars
  <2>2. IdleReq.pc = "idle" /\ variation' \in BOOLEAN /\ job' \in Jobs
    BY <1>1, <1>2, Shapes DEF IdleReq, OwnerInv
  <2>3. req' \in [Clients -> Requests'] /\ \A d \in Clients : CallOK(d)'
    BY <1>1, <1>2, <2>1, <2>2, MoveCall DEF dbVars
  <2>4. TypeOK'
    BY <1>1, <1>5, <1>6, <2>2, <2>3, PairTyped, SetsKept
    DEF OwnerInv, TypeOK, OrchOK, Jobs, dbVars, history
  <2> QED BY <1>1, <1>4, <2>3, <2>4 DEF CallInv
<1>8. OneOwner' /\ OwnersOnly'
  <2>1. Owns(c) /\ req[c].pc # "applying"
    BY <1>1 DEF Owns
  <2> QED BY <1>1, <1>2, <1>4, <1>5, <2>1, ReturnOwned DEF orchVars
<1> QED BY <1>6, <1>7, <1>8 DEF OwnerInv, OrchOK

(* Compensation and the status write leave the ownership alone. *)
LEMMA SettleTyped ==
    ASSUME OwnerInv, settle' \in Settling,
           UNCHANGED <<orchVars, versions, activeRv, exits, variation, inflight,
                       switchInflight, protected, deleting, table, req, job, hook,
                       crashes>>,
           activeExit' \in Exits, rows' \in Seq(StatusRow), Len(rows') = Len(rows),
           terminal' \in Seq(TerminalEntry), trusted' \in BOOLEAN,
           faults' \in 0..MaxFaults
    PROVE  OwnerInv'
<1>1. OrchOK' /\ UNCHANGED <<stage, async>>
  BY OrchFrame DEF OwnerInv, TypeOK, OrchOK, orchVars
<1>2. Requests' = Requests /\ RuleApplyInfo' = RuleApplyInfo /\ SwitchInfo' = SwitchInfo
  BY DEF Requests, RuleApplyInfo, SwitchInfo
<1>3. TypeOK'
  BY <1>1, <1>2 DEF OwnerInv, TypeOK, OrchOK, Jobs, StatusRow,
     TerminalEntry
<1>4. CallInv'
  BY DEF OwnerInv, CallInv, CallOK
<1>5. OneOwner' /\ OwnersOnly'
  BY <1>1, StillOwned DEF OwnerInv, OneOwner
<1> QED BY <1>1, <1>3, <1>4, <1>5 DEF OwnerInv, OrchOK

LEMMA SettleOwner ==
    ASSUME OwnerInv, SettleInv, SettleStep
    PROVE  OwnerInv'
<1>1. /\ settle \in Settling /\ NoSettle \in Settling
      /\ rows \in Seq(StatusRow) /\ terminal \in Seq(TerminalEntry)
      /\ activeExit \in Exits
  BY Shapes DEF OwnerInv, TypeOK, StatusRow, TerminalEntry
<1>2. CASE SettleCompensates
  <2>1. PICK ok \in BOOLEAN :
           /\ CompensateSwitch(settle.prior, ok)
           /\ settle' = [settle EXCEPT !.step = "persist",
                                       !.state = IF ok THEN settle.state ELSE "failed"]
           /\ Trust(IF ok THEN settle.state ELSE "failed")
           /\ Faults(Count(~ok))
    BY <1>2 DEF SettleCompensates
  <2>2. UNCHANGED <<orchVars, versions, activeRv, exits, rows, memVars, req, job,
                    hook, crashes>>
    BY <1>2 DEF SettleCompensates
  <2>3. settle' \in Settling
    BY <1>1, <2>1 DEF Settling, Terminal
  <2>4. activeExit' \in Exits /\ faults' \in 0..MaxFaults
    <3>1. settle.prior \in Exits
      BY <1>1 DEF Settling
    <3>2. activeExit' \in Exits
      BY <1>1, <2>1, <3>1 DEF CompensateSwitch
    <3>3. faults' \in 0..MaxFaults
      BY <2>1, ApplierAssumption DEF Faults, Count, OwnerInv, TypeOK
    <3> QED BY <3>2, <3>3
  <2>5. trusted' \in BOOLEAN
    BY <2>1, TrustTyped DEF OwnerInv, TypeOK
  <2> QED BY <1>1, <2>2, <2>3, <2>4, <2>5, SettleTyped DEF memVars
<1>3. CASE SettlePersists
  <2>1. PICK ok \in BOOLEAN :
           /\ PersistApplyStatus(settle.row, settle.snap, settle.state, ok)
           /\ Faults(Count(~ok))
    BY <1>3 DEF SettlePersists
  <2>2. /\ settle.step = "persist" /\ settle' = NoSettle
        /\ UNCHANGED <<orchVars, versions, activeRv, exits, activeExit, variation,
                       inflight, switchInflight, protected, deleting, table, req,
                       job, hook, trusted, crashes>>
    BY <1>3 DEF SettlePersists
  <2>3. settle.row \in 1..Len(rows) /\ settle.snap \in Snapshots /\ settle.state \in Terminal
    BY <1>1, <2>2 DEF SettleInv, Settling
  <2>4. rows' \in Seq(StatusRow) /\ Len(rows') = Len(rows) /\ terminal' \in Seq(TerminalEntry)
    BY <2>1, <2>3, PersistEffect DEF OwnerInv
  <2>5. faults' \in 0..MaxFaults
    BY <2>1, ApplierAssumption DEF Faults, Count, OwnerInv, TypeOK
  <2>6. trusted' \in BOOLEAN
    BY <2>2 DEF OwnerInv, TypeOK
  <2> QED BY <1>1, <2>2, <2>4, <2>5, <2>6, SettleTyped
<1> QED BY <1>2, <1>3 DEF SettleStep

----------------------------------------------------------------------------
(* OnHealth. *)

(* Both halves of OnHealth forget the entry and keep the protection. *)
LEMMA OnHealthTyped ==
    ASSUME OwnerInv, stage = "notify", hook' = "release",
           inflight' = {}, switchInflight' = {},
           UNCHANGED <<orchVars, versions, activeRv, exits, variation, protected, deleting,
                       table, req, job, crashes>>,
           settle' \in Settling,
           activeExit' \in Exits, rows' \in Seq(StatusRow), Len(rows') = Len(rows),
           terminal' \in Seq(TerminalEntry), trusted' \in BOOLEAN,
           faults' \in 0..MaxFaults,
           protected = IF IsSwitch(job.snap) THEN Pair(job.prior, job.new) ELSE Unprotected
    PROVE  OwnerInv'
<1>1. OrchOK'
  BY OrchFrame DEF OwnerInv, TypeOK, OrchOK
<1>2. Requests' = Requests
  BY DEF Requests
<1>3. TypeOK'
  BY <1>1, <1>2 DEF OwnerInv, TypeOK, OrchOK, Jobs, StatusRow, TerminalEntry
<1>4. CallInv'
  BY DEF OwnerInv, CallInv, CallOK
<1>5. variation /\ \A d \in Clients : ~Owns(d)
  BY Observing
<1>6. \A d \in Clients : ~Owns(d)'
  BY <1>5 DEF Owns
<1>7. OneOwner' /\ OwnersOnly'
  BY <1>5, <1>6, ObserverOwns DEF orchVars, NothingRegistered, Running
<1> QED BY <1>1, <1>3, <1>4, <1>7 DEF OwnerInv, OrchOK

LEMMA OnHealthRulesOwner ==
    ASSUME OwnerInv, OnHealthRules
    PROVE  OwnerInv'
<1> DEFINE state == TerminalState(outcome)
<1>1. /\ stage = "notify" /\ hook = "none" /\ inflight' = ClearInflight(job.snap)
      /\ Trust(state) /\ hook' = "release"
      /\ UNCHANGED <<orchVars, versions, activeRv, exits, activeExit, variation,
                     switchInflight, protected, deleting, table, req, job, settle, crashes>>
  BY DEF OnHealthRules
<1>2. PICK i \in inflight, ok \in BOOLEAN :
         i.snap = job.snap /\ PersistApplyStatus(i.row, i.snap, state, ok)
  BY DEF OnHealthRules
<1>3. faults' \in 0..MaxFaults
  BY ApplierAssumption DEF OnHealthRules, Faults, Count, OwnerInv, TypeOK
<1>4. /\ i.row \in 1..Len(rows) /\ i.snap \in Snapshots
      /\ i.snap = RulesSnap(versions[i.rv])
  <2>1. i \in RuleApplyInfo /\ i.snap = RulesSnap(versions[i.rv])
    BY <1>2 DEF OwnerInv, TypeOK, CallInv
  <2> QED BY <2>1 DEF RuleApplyInfo
<1>5. state \in Terminal
  BY <1>1, StateTyped DEF OwnerInv, TypeOK, Orch!OrchTypeOK, OrchInv
<1>6. ~IsSwitch(job.snap)
  BY <1>2, <1>4 DEF IsSwitch, RulesSnap
<1> HIDE DEF state
<1>7. rows' \in Seq(StatusRow) /\ Len(rows') = Len(rows) /\ terminal' \in Seq(TerminalEntry)
  BY <1>2, <1>4, <1>5, PersistEffect DEF OwnerInv
<1>8. Registered(job.snap, job.prior, job.new)
  BY <1>1, Observing
<1>9. switchInflight = {} /\ protected = Unprotected /\ inflight' = {}
  BY <1>1, <1>6, <1>8, RegisteredRules
<1>10. trusted' \in BOOLEAN /\ activeExit' \in Exits /\ settle' \in Settling
  BY <1>1, TrustTyped DEF OwnerInv, TypeOK
<1> QED BY <1>1, <1>3, <1>6, <1>7, <1>9, <1>10, OnHealthTyped

LEMMA OnHealthSwitchOwner ==
    ASSUME OwnerInv, OnHealthSwitch
    PROVE  OwnerInv'
<1> DEFINE state == TerminalState(outcome)
<1>1. /\ stage = "notify" /\ hook = "none" /\ hook' = "release" /\ Trust(state)
      /\ UNCHANGED <<orchVars, dbVars, variation, inflight, protected, terminal, deleting,
                     table, req, job, faults, crashes>>
  BY DEF OnHealthSwitch
<1>2. PICK i \in switchInflight :
         /\ i.snap = job.snap /\ switchInflight' = switchInflight \ {i}
         /\ settle' = [step |-> IF state = "confirmed" THEN "persist" ELSE "compensate",
                       row |-> i.row, snap |-> i.snap, prior |-> i.prior, state |-> state]
  BY DEF OnHealthSwitch
<1>3. i.row \in Nat /\ i.snap \in Snapshots /\ i.prior \in Exits
  <2>1. i \in SwitchInfo
    BY <1>2 DEF OwnerInv, TypeOK
  <2> QED BY <2>1 DEF SwitchInfo
<1>4. state \in Terminal
  BY <1>1, StateTyped DEF OwnerInv, TypeOK, Orch!OrchTypeOK, OrchInv
<1> HIDE DEF state
<1>5. settle' \in Settling
  BY <1>2, <1>3, <1>4 DEF Settling
<1>6. Registered(job.snap, job.prior, job.new)
  BY <1>1, Observing
<1>7. IsSwitch(job.snap)
  BY <1>2, <1>6 DEF Registered
<1>8. inflight' = {} /\ switchInflight' = {} /\ protected = Pair(job.prior, job.new)
  BY <1>1, <1>2, <1>6, <1>7, RegisteredSwitch
<1>9. trusted' \in BOOLEAN
  BY <1>1, TrustTyped DEF OwnerInv, TypeOK
<1>10. /\ activeExit' \in Exits /\ rows' \in Seq(StatusRow) /\ Len(rows') = Len(rows)
       /\ terminal' \in Seq(TerminalEntry) /\ faults' \in 0..MaxFaults
       /\ UNCHANGED <<versions, activeRv, exits>>
  BY <1>1 DEF OwnerInv, TypeOK, dbVars, StatusRow, TerminalEntry
<1> QED BY <1>1, <1>5, <1>7, <1>8, <1>9, <1>10, OnHealthTyped

LEMMA OnHealthReturnsOwner ==
    ASSUME OwnerInv, OnHealthReturns
    PROVE  OwnerInv'
<1>1. /\ hook = "release" /\ variation' = FALSE /\ hook' = "none" /\ job' = NoJob
      /\ protected' = IF IsSwitch(job.snap) THEN Unprotect(job.prior, job.new) ELSE protected
      /\ Orch!Notified
      /\ UNCHANGED <<dbVars, inflight, switchInflight, terminal, deleting, table, req,
                     settle, history>>
  BY DEF OnHealthReturns, EndVariation
<1>2. stage = "notify" /\ stage' = "unlock"
  BY <1>1 DEF Orch!Notified
<1>3. OrchOK'
  BY <1>1, ObserverOrch DEF OwnerInv, TypeOK, OrchOK
<1>4. /\ \A d \in Clients : ~Owns(d)
      /\ NothingRegistered
      /\ protected = IF IsSwitch(job.snap) THEN Pair(job.prior, job.new) ELSE Unprotected
  BY <1>1, <1>2, Observing
<1>5. job.prior \in Exits /\ job.new \in Exits
  BY DEF OwnerInv, TypeOK, Jobs
<1>6. protected' = Unprotected
  BY <1>1, <1>4, <1>5, UnprotectPair
<1>7. job' \in Jobs /\ variation' \in BOOLEAN
  BY <1>1, Shapes DEF OwnerInv
<1>8. TypeOK'
  BY <1>1, <1>3, <1>6, <1>7, PairTyped, SetsKept DEF OwnerInv, TypeOK, OrchOK, Jobs, dbVars,
     history
<1>9. CallInv'
  BY <1>1 DEF OwnerInv, CallInv, CallOK, dbVars
<1>10. OneOwner' /\ OwnersOnly'
  <2>1. \A d \in Clients : ~Owns(d)'
    BY <1>1, <1>4 DEF Owns
  <2> QED BY <1>1, <1>2, <1>4, <1>6, <2>1, NoOwner DEF NothingRegistered, Running
<1> QED BY <1>3, <1>8, <1>9, <1>10 DEF OwnerInv, OrchOK

LEMMA RestartOwner ==
    ASSUME OwnerInv, Restart
    PROVE  OwnerInv'
<1>1. /\ crashes < MaxCrashes /\ crashes' = crashes + 1
      /\ Orch!OrchRestart(Assembled) /\ variation' = FALSE
      /\ inflight' = {} /\ switchInflight' = {} /\ protected' = Unprotected
      /\ terminal' = <<>> /\ deleting' = {} /\ table' = RulesOf(activeRv)
      /\ req' = [d \in Clients |-> IdleReq] /\ job' = NoJob /\ hook' = "none"
      /\ settle' = NoSettle
      /\ UNCHANGED <<dbVars, faults>>
  BY DEF Restart, Publish, Unprotected
<1>2. OrchOK' /\ stage' = "idle"
  BY <1>1, Shapes, RestartOrch DEF OwnerInv, TypeOK, OrchOK
<1>3. trusted' = TRUE \/ trusted' = FALSE
  BY DEF Restart, OwnerInv, TypeOK
<1>4. /\ job' \in Jobs /\ variation' \in BOOLEAN /\ trusted' \in BOOLEAN
      /\ terminal' \in Seq(TerminalEntry)
  <2>1. job' \in Jobs /\ variation' \in BOOLEAN
    BY <1>1, Shapes DEF OwnerInv
  <2>2. trusted' \in BOOLEAN
    BY <1>3
  <2>3. terminal' \in Seq(TerminalEntry)
    BY <1>1
  <2> QED BY <2>1, <2>2, <2>3
<1>5. table' \in RuleSets \cup {NoRules} /\ crashes' \in 0..MaxCrashes
  BY <1>1, ApplierAssumption DEF RulesOf, OwnerInv, TypeOK
<1>6. IdleReq \in Requests' /\ IdleReq.pc = "idle"
  BY <1>1, Shapes, SetsKept DEF OwnerInv, dbVars, IdleReq
<1>7. TypeOK'
  BY <1>1, <1>2, <1>4, <1>5, <1>6, PairTyped, Shapes DEF OwnerInv, TypeOK, OrchOK, Jobs, dbVars,
     TerminalEntry
<1>8. CallInv'
  BY <1>1, <1>6 DEF CallInv, CallOK
<1>9. OneOwner' /\ OwnersOnly'
  <2>1. \A d \in Clients : ~Owns(d)'
    BY <1>1, <1>6 DEF Owns
  <2> QED BY <1>1, <1>2, <2>1, NoOwner DEF NothingRegistered, Running
<1> QED BY <1>2, <1>7, <1>8, <1>9 DEF OwnerInv, OrchOK

LEMMA InitOwner ==
    ASSUME Init
    PROVE  OwnerInv
<1>1. Orch!OrchTypeOK /\ OrchInv
  BY ApplierAssumption DEF Init, Orch!OrchInit, Orch!OrchStart, Orch!OrchTypeOK, OrchInv, Orch!Stages,
     Orch!Outcomes, Units, BootConfig, Configs
<1>2. /\ versions = <<>> /\ rows = <<>> /\ terminal = <<>>
      /\ activeRv = 0 /\ activeExit = Direct /\ exits \subseteq Exits
      /\ variation = FALSE /\ inflight = {} /\ switchInflight = {}
      /\ protected = Unprotected /\ deleting = {} /\ table = NoRules
      /\ req = [c \in Clients |-> IdleReq] /\ job = NoJob /\ hook = "none"
      /\ settle = NoSettle
      /\ trusted = TRUE /\ faults = 0 /\ crashes = 0 /\ stage = "idle"
  BY DEF Init, Unprotected, Orch!OrchInit, Orch!OrchStart
<1>3. IdleReq \in Requests /\ IdleReq.pc = "idle" /\ NoJob \in Jobs /\ Direct \in Exits
      /\ NoSettle \in Settling
  <2>1. NoSnap \in Snapshots
    BY DEF NoSnap, Snapshots
  <2>2. Direct \in Exits /\ BootConfig \in Configs
    BY ApplierAssumption DEF BootConfig, Configs
  <2> QED BY <1>2, <2>1, <2>2 DEF IdleReq, NoJob, Requests, Jobs, Orch!Outcomes,
         NoSettle, Settling, Terminal
<1>4. variation \in BOOLEAN /\ trusted \in BOOLEAN
  BY <1>2
<1>5. TypeOK
  BY <1>1, <1>2, <1>3, <1>4, ApplierAssumption, PairTyped DEF TypeOK
<1>6. CallInv
  BY <1>2, <1>3 DEF CallInv, CallOK
<1>7. \A c \in Clients : req[c].pc = "idle"
  BY <1>2, <1>3
<1>8. OneOwner /\ OwnersOnly
  BY <1>2, <1>7 DEF OneOwner, OwnersOnly, Owns, NothingRegistered, Running
<1> QED BY <1>1, <1>5, <1>6, <1>8 DEF OwnerInv

LEMMA OwnerStep ==
    ASSUME OwnerInv, SettleInv, [Next]_vars
    PROVE  OwnerInv'
<1>1. ASSUME NEW c \in Clients, NewCall(c)
      PROVE  OwnerInv'
  BY <1>1, NewRulesOwner, OldRulesOwner, SwitchExitOwner DEF NewCall
<1>2. ASSUME NEW c \in Clients, ClientStep(c)
      PROVE  OwnerInv'
  BY <1>2, TurnedAwayOwner, ApplyRulesOwner, SwitchBeginsOwner, SwitchFailsOwner,
     RecordSwitchOwner, DispatchOwner, DispatchFailsOwner, RulesReturnOwner,
     SwitchConfirmedOwner, SwitchReturnOwner, SwitchReleasesOwner DEF ClientStep
<1>3. ASSUME ObserverStep
      PROVE  OwnerInv'
  BY <1>3, DataPlaneOwner, ReloadOwner, RollbackOwner, CommitBeginsOwner, CommitEndsOwner,
     OnHealthRulesOwner, OnHealthSwitchOwner, OnHealthReturnsOwner, ObserverLeavesOwner
     DEF ObserverStep
<1> QED
  BY <1>1, <1>2, <1>3, SettleOwner, ExitOwner, UnitStartedOwner, RestartOwner, StutterOwner
     DEF Next

----------------------------------------------------------------------------
(* The switch that is being settled. *)

(* Nobody but its owner moves, and the owner waits. *)
LEMMA SettleFrame ==
    ASSUME SettleInv, settle' = settle, Len(rows) \in Nat, Len(rows') \in Nat,
           Len(rows) <= Len(rows'),
           \A c \in Clients : req[c].pc = "release" => req'[c] = req[c],
           hook = "release" => hook' = "release" /\ job' = job
    PROVE  SettleInv'
<1> SUFFICES ASSUME settle.step # "none"
             PROVE  SettleInv'
  BY DEF SettleInv
<1>1. /\ settle'.row \in 1..Len(rows')
      /\ settle'.step = "compensate" => settle'.state # "confirmed"
  BY DEF SettleInv
<1>2. CASE hook = "release" /\ IsSwitch(job.snap) /\ settle.prior = job.prior
  BY <1>1, <1>2 DEF SettleInv
<1>3. CASE \E c \in Clients : req[c].pc = "release" /\ settle.prior = req[c].prior
  BY <1>1, <1>3 DEF SettleInv
<1> QED BY <1>2, <1>3 DEF SettleInv

LEMMA CallSettles ==
    ASSUME OwnerInv, SettleInv, NEW c \in Clients, NewCall(c) \/ ClientStep(c)
    PROVE  SettleInv'
<1>1. /\ req \in [Clients -> Requests] /\ rows \in Seq(StatusRow) /\ Len(rows) \in Nat
  BY DEF OwnerInv, TypeOK, StatusRow
<1>2. ASSUME NewCall(c) \/ RulesRefused(c) \/ RulesFault(c) \/ ProtectSwitchExits(c)
               \/ FlipExit(c) \/ FlipFails(c) \/ RecordSwitchFails(c)
               \/ DispatchSnapshotFails(c) \/ DispatchRejected(c)
      PROVE  SettleInv'
  <2>1. /\ UNCHANGED <<settle, rows, job, hook>>
        /\ req[c].pc # "release"
        /\ \A d \in Clients : d # c => req'[d] = req[d]
    BY <1>1, <1>2 DEF NewCall, HandleApply, ImportRules, HandleRollbackSnapshot,
       CmdRulesRollback, SwitchExit, Prepared, RulesRefused, RulesFault,
       ProtectSwitchExits, FlipExit, FlipFails, RecordSwitchFails, SwitchReturns,
       DispatchSnapshotFails, DispatchRejected, dbVars
  <2> QED BY <1>1, <2>1, SettleFrame
<1>3. ASSUME ApplyRules(c) \/ RecordSwitch(c)
      PROVE  SettleInv'
  <2>1. /\ UNCHANGED <<settle, job, hook>>
        /\ req[c].pc # "release"
        /\ \A d \in Clients : d # c => req'[d] = req[d]
    BY <1>1, <1>3 DEF ApplyRules, RecordSwitch
  <2>2. Len(rows') \in Nat /\ Len(rows) <= Len(rows')
    BY <1>1, <1>3 DEF ApplyRules, RecordSwitch
  <2> QED BY <1>1, <2>1, <2>2, SettleFrame
<1>4. ASSUME Dispatch(c) \/ RulesReturn(c) \/ SwitchConfirmed(c)
      PROVE  SettleInv'
  <2>1. /\ UNCHANGED <<settle, hook>>
        /\ req[c].pc \in {"dispatch", "return"}
        /\ \A d \in Clients : d # c => req'[d] = req[d]
    BY <1>1, <1>4 DEF Dispatch, RulesReturn, SwitchConfirmed, SwitchReturns
  <2>2. hook # "release"
    BY <2>1, Resting DEF Owns
  <2>3. Len(rows') = Len(rows)
    <3>1. ASSUME NEW state, NEW ok \in BOOLEAN,
                 PersistApplyStatus(req[c].row, req[c].snap, state, ok)
          PROVE  Len(rows') = Len(rows)
      BY <1>1, <3>1 DEF PersistApplyStatus
    <3> QED BY <1>4, <3>1 DEF Dispatch, RulesReturn, SwitchConfirmed, dbVars
  <2> QED BY <1>1, <2>1, <2>2, <2>3, SettleFrame
<1>5. CASE SwitchReturn(c)
  <2>1. /\ req[c].pc = "return" /\ UNCHANGED rows
        /\ settle'.row = req[c].row /\ settle'.prior = req[c].prior
        /\ settle'.state = req[c].res
        /\ req'[c].pc = "release" /\ req'[c].prior = req[c].prior
    BY <1>1, <1>5 DEF SwitchReturn, dbVars, Requests
  <2>2. req[c].row \in 1..Len(rows) /\ req[c].res # "confirmed"
    BY <1>1, <2>1 DEF OwnerInv, CallInv, CallOK, Requests, Orch!Outcomes
  <2> QED BY <2>1, <2>2 DEF SettleInv
<1>6. CASE SwitchReleases(c)
  BY <1>6 DEF SwitchReleases, SettleInv
<1> QED BY <1>2, <1>3, <1>4, <1>5, <1>6 DEF ClientStep

LEMMA ObserverSettles ==
    ASSUME OwnerInv, SettleInv, ObserverStep
    PROVE  SettleInv'
<1>1. req \in [Clients -> Requests] /\ rows \in Seq(StatusRow) /\ Len(rows) \in Nat
  BY DEF OwnerInv, TypeOK, StatusRow
<1>2. ASSUME DataPlaneStep \/ CommitRefused \/ ObserverUnlocks \/ ObservationAborted
      PROVE  SettleInv'
  <2>1. UNCHANGED <<settle, rows, job, hook, req>>
    BY <1>2 DEF DataPlaneStep, CommitRefused, ObserverUnlocks, ObservationAborted,
       callVars, dbVars
  <2> QED BY <1>1, <2>1, SettleFrame
<1>3. ASSUME ReloadStep \/ RollbackStep \/ CommitPublish \/ CommitSwitch
      PROVE  SettleInv'
  <2>1. UNCHANGED <<settle, rows, job>>
    BY <1>3 DEF ReloadStep, RollbackStep, CommitPublish, CommitSwitch, dbVars
  <2>2. stage \in {"reload", "undoRender", "reloadPrev", "commit"}
    BY <1>3 DEF ReloadStep, RollbackStep, CommitPublish, CommitSwitch, Orch!Reload,
       Orch!UndoRender, Orch!ReloadPrev, Orch!ReloadPrevFails, Orch!CommitOk
  <2>3. hook # "release"
    BY <2>2 DEF OwnerInv, OneOwner
  <2>4. ASSUME NEW d \in Clients, req[d].pc = "release"
        PROVE  req'[d] = req[d]
    <3>1. stage = "reload" => ~async
      BY DEF OwnerInv, OrchInv
    <3>2. CASE ~async
      <4>1. job.client # d
        BY <2>2, <2>4, <3>2, Waiting DEF Running
      <4> QED
        BY <1>1, <1>3, <4>1 DEF ReloadStep, RollbackStep, CommitPublish, CommitSwitch,
           CallerReturns
    <3>3. CASE async
      BY <1>3, <3>1, <3>3 DEF ReloadStep, RollbackStep, CommitPublish, CommitSwitch,
         CallerReturns, Orch!Reload
    <3> QED BY <3>2, <3>3 DEF OwnerInv, TypeOK, Orch!OrchTypeOK
  <2> QED BY <1>1, <2>1, <2>3, <2>4, SettleFrame
<1>4. ASSUME CommitActivate \/ OnHealthRules
      PROVE  SettleInv'
  <2>1. UNCHANGED <<settle, req>> /\ hook = "none"
    BY <1>4 DEF CommitActivate, OnHealthRules
  <2>2. Len(rows') = Len(rows)
    <3>1. ASSUME NEW row, NEW s, NEW state, NEW ok \in BOOLEAN,
                 PersistApplyStatus(row, s, state, ok)
          PROVE  Len(rows') = Len(rows)
      BY <1>1, <3>1 DEF PersistApplyStatus
    <3> QED BY <1>4, <3>1 DEF CommitActivate, OnHealthRules
  <2> QED BY <1>1, <2>1, <2>2, SettleFrame
<1>5. CASE OnHealthSwitch
  <2>1. stage = "notify" /\ hook = "none" /\ hook' = "release" /\ UNCHANGED <<job, rows>>
    BY <1>5 DEF OnHealthSwitch, dbVars
  <2>2. PICK i \in switchInflight :
           /\ i.snap = job.snap /\ settle'.row = i.row /\ settle'.prior = i.prior
           /\ settle'.step = "compensate" => settle'.state # "confirmed"
    BY <1>5 DEF OnHealthSwitch
  <2>3. i.row \in 1..Len(rows)
    <3>1. i \in SwitchInfo
      BY <2>2 DEF OwnerInv, TypeOK
    <3> QED BY <3>1 DEF SwitchInfo
  <2>4. Registered(job.snap, job.prior, job.new)
    BY <2>1, Observing
  <2>5. IsSwitch(job.snap) /\ i.prior = job.prior
    BY <2>2, <2>4 DEF Registered
  <2> QED BY <2>1, <2>2, <2>3, <2>5 DEF SettleInv
<1>6. CASE OnHealthReturns
  BY <1>6 DEF OnHealthReturns, SettleInv
<1> QED BY <1>2, <1>3, <1>4, <1>5, <1>6 DEF ObserverStep

LEMMA SettleStepSettles ==
    ASSUME OwnerInv, SettleInv, [Next]_vars
    PROVE  SettleInv'
<1>1. settle \in Settling /\ rows \in Seq(StatusRow) /\ Len(rows) \in Nat
  BY DEF OwnerInv, TypeOK, StatusRow
<1>2. CASE SettleStep
  <2>1. CASE SettleCompensates
    <3>1. /\ settle.step = "compensate" /\ settle'.row = settle.row
          /\ settle'.prior = settle.prior /\ settle'.step = "persist"
          /\ UNCHANGED <<rows, req, job, hook>>
      BY <1>1, <2>1 DEF SettleCompensates, Settling
    <3> QED BY <3>1 DEF SettleInv
  <2>2. CASE SettlePersists
    BY <2>2 DEF SettlePersists, NoSettle, SettleInv
  <2> QED BY <1>2, <2>1, <2>2 DEF SettleStep
<1>3. ASSUME ExitStep \/ UnitStarted \/ UNCHANGED vars
      PROVE  SettleInv'
  <2>1. UNCHANGED <<settle, rows, job, hook, req>>
    BY <1>3 DEF ExitStep, AddExit, DeleteExitChecks, DeleteExitDeletes, UnitStarted,
       vars, callVars, dbVars
  <2> QED BY <1>1, <2>1, SettleFrame
<1>4. CASE Restart
  BY <1>4 DEF Restart, NoSettle, SettleInv
<1> QED BY <1>2, <1>3, <1>4, CallSettles, ObserverSettles DEF Next

(* A change under way has one owner at every step: the caller between       *)
(* beginVariation and its return, or the observer from the moment Apply has *)
(* returned "observing" until OnHealth ends the variation; what is          *)
(* registered in inflight, switchInflight and protectedExits is that        *)
(* owner's and nobody else's, and so is a switch that is being settled      *)
(* (applier.go:111-125, 511-580).                                           *)
THEOREM Ownership == Spec => [](OwnerInv /\ SettleInv)
<1>1. Init => OwnerInv /\ SettleInv
  <2>1. Init => settle = NoSettle /\ NoSettle.step = "none"
    BY DEF Init, NoSettle
  <2> QED BY <2>1, InitOwner DEF SettleInv
<1>2. OwnerInv /\ SettleInv /\ [Next]_vars => OwnerInv' /\ SettleInv'
  BY OwnerStep, SettleStepSettles
<1> QED BY <1>1, <1>2, PTL DEF Spec

(* Without a variation there is no registered apply, no registered switch   *)
(* and no protected exit, whichever of the returns, failures and rejections *)
(* of ApplyRules, SwitchExit and OnHealth ended it.                         *)
THEOREM ChangesLeaveNothing == Spec => []NothingLeaks
<1>1. OwnerInv => NothingLeaks
  BY DEF OwnerInv, OwnersOnly, NothingRegistered, Unprotected, NothingLeaks
<1> QED BY <1>1, Ownership, PTL

----------------------------------------------------------------------------
(* What ownership implies *)

(* Where the exit pointer stands, and that nothing it may have to go back   *)
(* to is being deleted.                                                     *)
ExitRefs ==
    /\ \A e \in deleting : protected[e] = 0 /\ e # activeExit
    /\ \A c \in Clients :
          /\ req[c].pc \in {"protect", "flip"} => activeExit = req[c].prior
          /\ req[c].pc = "record" => activeExit = req[c].exit
    /\ \A i \in switchInflight : activeExit = i.new

(* Between SetActiveRuleVersion and Publish the active version is the one   *)
(* about to be published.                                                   *)
PublishInv == hook = "publish" => \A i \in inflight : activeRv = i.rv

(* What a change with snapshot s is to bring in force. *)
Target(s) ==
    IF IsSwitch(s) THEN Assembled ELSE [rules |-> s.id, exit |-> activeExit]

TargetInv ==
    /\ \A c \in Clients : req[c].pc = "dispatch" => req[c].cfg = Target(req[c].snap)
    /\ stage \in Running => cand = Target(job.snap)

(* A caller that named the snapshot it replaces, named the active one. *)
Fresh(s) == s = NoSnap \/ activeRv = 0 \/ s = SnapOf(activeRv)

FreshInv ==
    /\ \A c \in Clients :
          /\ req[c].pc = "dispatch" => Fresh(req[c].prev)
          /\ req[c].pc \in {"protect", "flip", "record"} => req[c].prev = NoSnap
    /\ stage \in Running /\ hook # "publish" => Fresh(job.seen)

(* The configuration that was in force before the change under way. *)
Base == [rules |-> RulesOf(activeRv), exit |-> ControlExit]

InForce(g) == \A u \in Units : disk[u] = g /\ running[u] = g

(* A success is reported only of what is in force. *)
OkInv ==
    /\ \A c \in Clients :
          req[c].pc = "return" /\ req[c].res = "ok" => InForce(Assembled)
    /\ stage = "notify" /\ hook = "none" /\ outcome = "ok" => InForce(Assembled)

(* While nothing has failed, what was in force can still be put back. *)
BaseInv ==
    trusted =>
      /\ stage \in {"idle", "unlock"} /\ (\A c \in Clients : req[c].pc # "return") =>
            InForce(Base)
      /\ \A c \in Clients :
            req[c].pc = "return" /\ req[c].res = "rolled_back" => InForce(Base)
      /\ stage = "notify" /\ hook = "none" /\ outcome = "rolled_back" => InForce(Base)
      /\ hook = "release" => InForce(Base)
      /\ stage \in {"idle", "unlock"} => ~(variation /\ NoCaller)
      /\ stage \in Running /\ hook # "publish" => \A u \in Units : prev[u] = Base
      /\ stage \in {"render", "undoRender"} => \A u \in Units : running[u] = Base
      /\ stage = "reloadPrev" /\ restoreOk => \A u \in Units : disk[u] = prev[u]

(* The change under way has the last row, and the fallback is bounded. *)
RowInv ==
    /\ \A i \in inflight \cup switchInflight :
          i.row = Len(rows) /\ rows[i.row].snap = i.snap
    /\ settle.step # "none" =>
          settle.row = Len(rows) /\ rows[settle.row].snap = settle.snap
    /\ \A c \in Clients :
          req[c].pc \in {"dispatch", "applying", "return"} => req[c].row = Len(rows)
    /\ Len(terminal) <= TerminalCap

(* Until a row is stranded every entry of the fallback has cost a failure,  *)
(* and a row is stranded only by a failure that finds the fallback full.    *)
Account ==
    crashes = 0 =>
        /\ Stranded = {} => Len(terminal) <= faults
        /\ Stranded # {} => Cardinality(Stranded) + TerminalCap <= faults

----------------------------------------------------------------------------
(* The references of the database. *)

RefInv == ExitRefs /\ SwitchExitsExist /\ PublishInv /\ TableFollowsActive

(* A registered switch protects both of its exits. *)
LEMMA SwitchProtects ==
    ASSUME OwnerInv, NEW i \in switchInflight
    PROVE  /\ protected = Pair(i.prior, i.new) /\ i.prior \in Exits /\ i.new \in Exits
           /\ switchInflight = {i} /\ inflight = {}
           /\ protected[i.prior] # 0 /\ protected[i.new] # 0
<1>1. variation
  BY DEF OwnerInv, OwnersOnly, NothingRegistered
<1>2. PICK s, a, b : Registered(s, a, b)
  <2>1. CASE NoCaller
    BY <1>1, <2>1 DEF OwnerInv, OwnersOnly, NothingRegistered
  <2>2. CASE ~NoCaller
    <3>1. PICK c \in Clients : Owns(c)
      BY <2>2 DEF NoCaller
    <3>2. req[c] \in Requests
      BY DEF OwnerInv, TypeOK
    <3>3. req[c].pc \in {"protect", "flip", "record", "dispatch", "applying", "return",
                         "release"}
      BY <3>1, <3>2 DEF Owns, Requests
    <3> QED BY <3>3 DEF OwnerInv, OwnersOnly, NothingRegistered
  <2> QED BY <2>1, <2>2
<1>3. IsSwitch(s)
  BY <1>2 DEF Registered
<1>4. protected = Pair(i.prior, i.new) /\ switchInflight = {i} /\ inflight = {}
  BY <1>2, <1>3, RegisteredSwitch
<1>5. i.prior \in Exits /\ i.new \in Exits
  BY DEF OwnerInv, TypeOK, SwitchInfo
<1> QED BY <1>4, <1>5 DEF Pair

LEMMA CallProtects ==
    ASSUME OwnerInv, NEW c \in Clients, req[c].pc \in {"flip", "record", "release"}
    PROVE  /\ req[c].prior \in Exits /\ req[c].exit \in Exits
           /\ protected[req[c].prior] # 0 /\ protected[req[c].exit] # 0
           /\ switchInflight = {} /\ inflight = {}
<1>1. protected = Pair(req[c].prior, req[c].exit) /\ switchInflight = {} /\ inflight = {}
  BY DEF OwnerInv, OwnersOnly, NothingRegistered
<1>2. req[c].prior \in Exits /\ req[c].exit \in Exits
  BY DEF OwnerInv, TypeOK, Requests
<1> QED BY <1>1, <1>2 DEF Pair

(* A switch that is being settled protects the exit it goes back to. *)
LEMMA SettleProtects ==
    ASSUME OwnerInv, SettleInv, settle.step # "none"
    PROVE  settle.prior \in Exits /\ protected[settle.prior] # 0
<1>1. CASE hook = "release" /\ IsSwitch(job.snap) /\ settle.prior = job.prior
  <2>1. stage = "notify"
    BY <1>1 DEF OwnerInv, OneOwner
  <2>2. protected = Pair(job.prior, job.new)
    BY <1>1, <2>1, Observing
  <2>3. job.prior \in Exits
    BY DEF OwnerInv, TypeOK, Jobs
  <2> QED BY <1>1, <2>2, <2>3 DEF Pair
<1>2. CASE \E c \in Clients : req[c].pc = "release" /\ settle.prior = req[c].prior
  BY <1>2, CallProtects
<1> QED BY <1>1, <1>2 DEF SettleInv

(* Nothing else is under way while a switch is being settled. *)
LEMMA SettleAlone ==
    ASSUME OwnerInv, SettleInv, settle.step # "none"
    PROVE  /\ variation /\ inflight = {} /\ switchInflight = {}
           /\ \A c \in Clients : req[c].pc \in {"idle", "rules", "release"}
           /\ stage \notin Running
<1>1. CASE hook = "release"
  <2>1. stage = "notify"
    BY <1>1 DEF OwnerInv, OneOwner
  <2>2. /\ variation /\ NothingRegistered /\ \A c \in Clients : ~Owns(c)
    BY <1>1, <2>1, Observing
  <2> QED BY <2>1, <2>2 DEF NothingRegistered, Owns, Running
<1>2. ASSUME NEW c \in Clients, req[c].pc = "release"
      PROVE  /\ variation /\ inflight = {} /\ switchInflight = {}
             /\ \A d \in Clients : req[d].pc \in {"idle", "rules", "release"}
             /\ stage \notin Running
  <2>1. Owns(c) /\ req[c].pc # "applying"
    BY <1>2 DEF Owns
  <2>2. /\ stage \notin Running \cup {"notify"} /\ variation
        /\ \A d \in Clients : d # c => ~Owns(d)
    BY <2>1, Resting
  <2>3. inflight = {} /\ switchInflight = {}
    BY <1>2, CallProtects
  <2> QED BY <1>2, <2>2, <2>3 DEF Owns
<1> QED BY <1>1, <1>2 DEF SettleInv

(* Steps that neither move the pointer nor protect. *)
ExitFrame ==
    /\ UNCHANGED <<activeExit, exits, deleting>>
    /\ switchInflight' \subseteq switchInflight
    /\ protected' \in {protected, Unprotected}
    /\ \A c \in Clients : req'[c] = req[c] \/ req'[c].pc \notin {"protect", "flip", "record"}
    /\ settle' = settle

LEMMA ExitFrameKeeps ==
    ASSUME OwnerInv, OwnerInv', RefInv, ExitFrame
    PROVE  ExitRefs' /\ SwitchExitsExist'
<1>1. \A e \in deleting : e \in Exits => Unprotected[e] = 0
  BY DEF Unprotected
<1>2. \A e \in deleting : protected'[e] = 0
  BY <1>1 DEF ExitFrame, RefInv, ExitRefs, OwnerInv, TypeOK
<1>3. ExitRefs'
  BY <1>2 DEF ExitFrame, RefInv, ExitRefs
<1>4. SwitchExitsExist'
  BY DEF ExitFrame, RefInv, SwitchExitsExist
<1> QED BY <1>3, <1>4

(* Steps that neither activate nor publish. *)
TableFrame ==
    /\ UNCHANGED <<activeRv, table>>
    /\ \A i \in 1..Len(versions) : versions'[i] = versions[i]
    /\ hook = "publish" => hook' = "publish"
    /\ hook' = "publish" => hook = "publish" /\ inflight' = inflight

LEMMA TableFrameKeeps ==
    ASSUME OwnerInv, RefInv, TableFrame
    PROVE  TableFollowsActive' /\ PublishInv' /\ RulesOf(activeRv)' = RulesOf(activeRv)
<1>1. RulesOf(activeRv)' = RulesOf(activeRv)
  BY DEF TableFrame, RulesOf, OwnerInv, TypeOK
<1>2. TableFollowsActive'
  BY <1>1 DEF TableFrame, RefInv, TableFollowsActive
<1>3. PublishInv'
  BY DEF TableFrame, RefInv, PublishInv
<1> QED BY <1>1, <1>2, <1>3

LEMMA NewCallTable ==
    ASSUME OwnerInv, NEW c \in Clients, NewCall(c)
    PROVE  TableFrame
<1>1. ASSUME NEW r \in RuleSets, HandleApply(c, r) \/ ImportRules(c, r)
      PROVE  TableFrame
  <2>1. versions' = Append(versions, r) /\ versions \in Seq(RuleSets)
    BY <1>1 DEF HandleApply, ImportRules, OwnerInv, TypeOK
  <2>2. \A i \in 1..Len(versions) : versions'[i] = versions[i]
    BY <2>1, AppendProperties
  <2> QED BY <1>1, <2>2 DEF TableFrame, HandleApply, ImportRules, memVars
<1> QED
  BY <1>1 DEF NewCall, TableFrame, HandleRollbackSnapshot, CmdRulesRollback, SwitchExit,
     dbVars, memVars

LEMMA ClientTable ==
    ASSUME OwnerInv, NEW c \in Clients, ClientStep(c)
    PROVE  TableFrame
<1>1. UNCHANGED <<versions, activeRv, table, hook>>
  BY DEF ClientStep, RulesRefused, RulesFault, ApplyRules, ProtectSwitchExits, FlipExit,
     FlipFails, RecordSwitch, RecordSwitchFails, Dispatch, DispatchSnapshotFails,
     DispatchRejected, RulesReturn, SwitchConfirmed, SwitchReturn, SwitchReleases, dbVars,
     memVars
<1>2. hook = "publish" => inflight' = inflight
  <2>1. SUFFICES ASSUME hook = "publish"
                 PROVE  inflight' = inflight
    OBVIOUS
  <2>2. variation /\ (Owns(c) => req[c].pc = "applying")
    BY <2>1, Resting, Quiet
  <2> QED
    BY <2>2 DEF ClientStep, RulesRefused, RulesFault, ApplyRules, ProtectSwitchExits, FlipExit,
       FlipFails, RecordSwitch, RecordSwitchFails, Dispatch, DispatchSnapshotFails,
       DispatchRejected, RulesReturn, SwitchConfirmed, SwitchReturn, SwitchReleases, Owns,
       memVars
<1> QED BY <1>1, <1>2 DEF TableFrame

(* Calls and steps of callers, but for those of a switch. *)
LEMMA NewCallExits ==
    ASSUME OwnerInv, OwnerInv', RefInv, NEW c \in Clients, NewCall(c)
    PROVE  ExitRefs' /\ SwitchExitsExist'
<1>1. ASSUME NEW e \in Exits, SwitchExit(c, e)
      PROVE  ExitRefs' /\ SwitchExitsExist'
  <2> DEFINE r == [IdleReq EXCEPT !.pc = "protect", !.exit = e, !.prior = activeExit]
  <2>1. /\ req' = [req EXCEPT ![c] = r]
        /\ UNCHANGED <<activeExit, exits, deleting, switchInflight, protected, settle>>
    BY <1>1 DEF SwitchExit, dbVars
  <2>2. r.pc = "protect" /\ r.prior = activeExit
    BY DEF IdleReq
  <2> HIDE DEF r
  <2> QED
    BY <2>1, <2>2 DEF RefInv, ExitRefs, SwitchExitsExist, OwnerInv, TypeOK
<1>2. ASSUME NEW rv, NEW seen, Prepared(c, rv, seen), req[c].pc = "idle",
             UNCHANGED <<activeExit, exits, memVars, settle>>
      PROVE  ExitRefs' /\ SwitchExitsExist'
  <2> DEFINE r == [IdleReq EXCEPT !.pc = "rules", !.snap = RulesSnap(versions'[rv]),
                                  !.rv = rv, !.prev = seen]
  <2>1. req' = [req EXCEPT ![c] = r] /\ r.pc = "rules"
    BY <1>2 DEF Prepared, IdleReq
  <2> HIDE DEF r
  <2>2. ExitFrame
    BY <1>2, <2>1 DEF ExitFrame, OwnerInv, TypeOK, memVars
  <2> QED BY <2>2, ExitFrameKeeps
<1> QED
  BY <1>1, <1>2 DEF NewCall, HandleApply, ImportRules, HandleRollbackSnapshot,
     CmdRulesRollback

LEMMA RulesCallExits ==
    ASSUME OwnerInv, OwnerInv', RefInv, NEW c \in Clients,
           RulesRefused(c) \/ RulesFault(c) \/ ApplyRules(c) \/ Dispatch(c)
             \/ DispatchSnapshotFails(c) \/ DispatchRejected(c) \/ RulesReturn(c)
    PROVE  ExitRefs' /\ SwitchExitsExist'
<1>1. UNCHANGED <<activeExit, exits, deleting, switchInflight, protected, settle>>
  BY DEF RulesRefused, RulesFault, ApplyRules, Dispatch, DispatchSnapshotFails,
     DispatchRejected, RulesReturn, dbVars, memVars
<1>2. \A d \in Clients : req'[d] = req[d] \/ req'[d].pc \notin {"protect", "flip", "record"}
  <2>1. DOMAIN req = Clients
    BY DEF OwnerInv, TypeOK
  <2>2. IdleReq.pc = "idle" /\ req[c] \in Requests
    BY DEF IdleReq, OwnerInv, TypeOK
  <2>3. CASE req' = [req EXCEPT ![c] = IdleReq]
    BY <2>1, <2>2, <2>3
  <2>4. CASE ApplyRules(c)
    BY <2>1, <2>2, <2>4 DEF ApplyRules, Requests
  <2>5. CASE Dispatch(c) \/ DispatchSnapshotFails(c) \/ DispatchRejected(c)
    BY <2>1, <2>2, <2>5 DEF Dispatch, DispatchSnapshotFails, DispatchRejected, Requests
  <2> QED BY <2>3, <2>4, <2>5 DEF RulesRefused, RulesFault, RulesReturn
<1> QED BY <1>1, <1>2, ExitFrameKeeps DEF ExitFrame

(* The steps of a switch. *)
LEMMA SwitchBeginsExits ==
    ASSUME OwnerInv, OwnerInv', RefInv, NEW c \in Clients,
           ProtectSwitchExits(c) \/ FlipExit(c)
    PROVE  ExitRefs' /\ SwitchExitsExist'
<1>1. req[c].pc \in {"protect", "flip"} /\ Owns(c) /\ req[c].pc # "applying"
  BY DEF ProtectSwitchExits, FlipExit, Owns
<1>2. \A d \in Clients : d # c => ~Owns(d)
  BY <1>1, Resting
<1>3. \A d \in Clients : d # c => req'[d] = req[d] /\ req[d].pc \in {"idle", "rules"}
  BY <1>2 DEF Owns, ProtectSwitchExits, FlipExit, OwnerInv, TypeOK
<1>4. activeExit = req[c].prior /\ activeExit \in exits
  BY <1>1 DEF RefInv, ExitRefs, SwitchExitsExist
<1>5. switchInflight' = {} /\ switchInflight = {}
  BY <1>1 DEF OwnerInv, OwnersOnly, NothingRegistered, ProtectSwitchExits, FlipExit, memVars
<1>6. CASE ProtectSwitchExits(c)
  <2>1. /\ req'[c].pc = "flip" /\ req'[c].prior = req[c].prior /\ deleting' = {}
        /\ UNCHANGED <<activeExit, exits, settle>>
    BY <1>6 DEF ProtectSwitchExits, MuFree, OwnerInv, TypeOK, Requests, dbVars
  <2> QED BY <1>3, <1>4, <1>5, <2>1 DEF RefInv, ExitRefs, SwitchExitsExist
<1>7. CASE FlipExit(c)
  <2>1. /\ req'[c].pc = "record" /\ req'[c].prior = req[c].prior
        /\ req'[c].exit = req[c].exit /\ activeExit' = req[c].exit
        /\ req[c].exit \in exits /\ req[c].pc = "flip"
        /\ UNCHANGED <<exits, deleting, protected, settle>>
    BY <1>7 DEF FlipExit, OwnerInv, TypeOK, Requests, memVars
  <2>2. protected[req[c].exit] # 0
    BY <2>1, CallProtects
  <2> QED
    BY <1>3, <1>4, <1>5, <2>1, <2>2 DEF RefInv, ExitRefs, SwitchExitsExist
<1> QED BY <1>6, <1>7

LEMMA RecordSwitchExits ==
    ASSUME OwnerInv, OwnerInv', RefInv, NEW c \in Clients, RecordSwitch(c)
    PROVE  ExitRefs' /\ SwitchExitsExist'
<1>1. /\ req[c].pc = "record"
      /\ UNCHANGED <<activeExit, exits, deleting, protected, settle>>
      /\ switchInflight' = RegisterSwitchInflight(
             [snap |-> SwitchSnap(Len(rows) + 1), row |-> Len(rows) + 1,
              new |-> req[c].exit, prior |-> req[c].prior])
  BY DEF RecordSwitch
<1>2. \A d \in Clients : req'[d] = req[d] \/ req'[d].pc \notin {"protect", "flip", "record"}
  BY DEF RecordSwitch, OwnerInv, TypeOK, Requests
<1>3. \A i \in switchInflight' : i.new = req[c].exit /\ i.prior = req[c].prior
  BY <1>1, CallProtects DEF RegisterSwitchInflight
<1>4. activeExit = req[c].exit /\ {req[c].exit, req[c].prior} \subseteq exits
  BY <1>1 DEF RefInv, ExitRefs, SwitchExitsExist
<1> QED BY <1>1, <1>2, <1>3, <1>4 DEF RefInv, ExitRefs, SwitchExitsExist

LEMMA SwitchEndsExits ==
    ASSUME OwnerInv, OwnerInv', RefInv, NEW c \in Clients,
           FlipFails(c) \/ RecordSwitchFails(c) \/ SwitchConfirmed(c) \/ SwitchReleases(c)
    PROVE  ExitRefs' /\ SwitchExitsExist'
<1>1. /\ Owns(c) /\ req[c].pc # "applying" /\ SwitchReturns(c)
      /\ UNCHANGED <<exits, deleting, settle>>
  BY DEF FlipFails, RecordSwitchFails, SwitchConfirmed, SwitchReleases, Owns, dbVars
<1>2. \A d \in Clients : d # c => ~Owns(d)
  BY <1>1, Resting
<1>3. deleting = {} /\ variation' = FALSE /\ req' = [req EXCEPT ![c] = IdleReq]
  BY <1>1 DEF SwitchReturns, MuFree, EndVariation
<1>4. \A d \in Clients : req'[d].pc \in {"idle", "rules"}
  BY <1>2, <1>3 DEF Owns, IdleReq, OwnerInv, TypeOK
<1>5. switchInflight' = {}
  BY <1>3 DEF OwnerInv, OwnersOnly, NothingRegistered
<1>6. activeExit' \in exits
  <2>1. activeExit \in exits
    BY DEF RefInv, SwitchExitsExist
  <2> QED
    BY <2>1 DEF FlipFails, RecordSwitchFails, SwitchConfirmed, SwitchReleases,
       CompensateSwitch, dbVars
<1> QED BY <1>1, <1>3, <1>4, <1>5, <1>6 DEF RefInv, ExitRefs, SwitchExitsExist

(* The switch is taken out of switchInflight: its exits are still there. *)
LEMMA SwitchReturnExits ==
    ASSUME OwnerInv, OwnerInv', RefInv, NEW c \in Clients, SwitchReturn(c)
    PROVE  ExitRefs' /\ SwitchExitsExist'
<1>1. /\ req[c].pc = "return" /\ IsSwitch(req[c].snap)
      /\ UNCHANGED <<activeExit, exits, deleting, protected>>
      /\ switchInflight' \subseteq switchInflight
      /\ settle'.prior = req[c].prior
  BY DEF SwitchReturn, dbVars, ClearSwitchInflight
<1>2. \A d \in Clients : req'[d] = req[d] \/ req'[d].pc \notin {"protect", "flip", "record"}
  BY DEF SwitchReturn, OwnerInv, TypeOK, Requests
<1>3. Registered(req[c].snap, req[c].prior, req[c].exit)
  BY <1>1 DEF OwnerInv, OwnersOnly
<1>4. req[c].prior \in exits
  BY <1>1, <1>3 DEF Registered, RefInv, SwitchExitsExist
<1> QED BY <1>1, <1>2, <1>4 DEF RefInv, ExitRefs, SwitchExitsExist

(* The pointer goes back to an exit that nobody can be deleting. *)
LEMMA SettleExits ==
    ASSUME OwnerInv, SettleInv, RefInv, SettleStep
    PROVE  RefInv'
<1>1. settle \in Settling
  BY DEF OwnerInv, TypeOK
<1>2. UNCHANGED <<versions, activeRv, table, exits, deleting, protected, switchInflight,
                  inflight, req, hook>>
  BY DEF SettleStep, SettleCompensates, SettlePersists, memVars
<1>3. TableFollowsActive' /\ PublishInv'
  BY <1>2, TableFrameKeeps DEF TableFrame
<1>4. CASE SettlePersists
  <2>1. UNCHANGED activeExit /\ settle'.step = "none"
    BY <1>4 DEF SettlePersists, NoSettle
  <2> QED BY <1>2, <1>3, <2>1 DEF RefInv, ExitRefs, SwitchExitsExist
<1>5. CASE SettleCompensates
  <2>1. /\ settle.step = "compensate" /\ settle'.step = "persist"
        /\ activeExit' \in {activeExit, settle.prior}
    BY <1>1, <1>5 DEF SettleCompensates, CompensateSwitch, Settling
  <2>2. settle.prior \in exits /\ settle.prior \notin deleting
    BY <2>1, SettleProtects DEF RefInv, ExitRefs, SwitchExitsExist
  <2>3. \A c \in Clients : req[c].pc \notin {"protect", "flip", "record"}
    BY <2>1, SettleAlone
  <2>4. switchInflight = {}
    BY <2>1, SettleAlone
  <2> QED
    BY <1>2, <1>3, <2>1, <2>2, <2>3, <2>4 DEF RefInv, ExitRefs, SwitchExitsExist
<1> QED BY <1>4, <1>5 DEF SettleStep

(* The steps of the observer. *)
LEMMA ObserverExits ==
    ASSUME OwnerInv, OwnerInv', RefInv, ObserverStep
    PROVE  ExitRefs' /\ SwitchExitsExist'
<1>1. CASE OnHealthSwitch
  <2>1. /\ stage = "notify" /\ deleting = {} /\ UNCHANGED <<exits, deleting, req, variation>>
        /\ hook' = "release"
    BY <1>1 DEF OnHealthSwitch, MuFree, dbVars
  <2>2. variation /\ \A d \in Clients : ~Owns(d)
    BY <2>1, Observing
  <2>3. \A d \in Clients : req'[d].pc \in {"idle", "rules"}
    BY <2>1, <2>2 DEF Owns
  <2>4. NoCaller'
    BY <2>3 DEF NoCaller, Owns
  <2>5. switchInflight' = {}
    BY <2>1, <2>2, <2>4 DEF OwnerInv, OwnersOnly, NothingRegistered
  <2>6. activeExit' \in exits /\ settle'.prior \in exits
    BY <1>1 DEF OnHealthSwitch, RefInv, SwitchExitsExist, dbVars
  <2> QED BY <2>1, <2>3, <2>5, <2>6 DEF ExitRefs, SwitchExitsExist
<1>2. CASE OnHealthReturns
  <2>1. variation' = FALSE
    BY <1>2 DEF OnHealthReturns, EndVariation
  <2>2. protected' = Unprotected
    BY <2>1 DEF OwnerInv, OwnersOnly
  <2>3. ExitFrame
    BY <1>2, <2>2 DEF ExitFrame, OnHealthReturns, dbVars
  <2> QED BY <2>3, ExitFrameKeeps
<1>3. CASE DataPlaneStep \/ ReloadStep \/ RollbackStep \/ CommitActivate \/ CommitPublish
             \/ CommitRefused \/ CommitSwitch \/ OnHealthRules \/ ObserverUnlocks
             \/ ObservationAborted
  <2>1. UNCHANGED <<activeExit, exits, deleting, switchInflight, protected, settle>>
    BY <1>3 DEF DataPlaneStep, ReloadStep, RollbackStep, CommitActivate, CommitPublish,
       CommitRefused, CommitSwitch, OnHealthRules, ObserverUnlocks, ObservationAborted,
       dbVars, memVars, callVars
  <2>2. CallerReturns \/ UNCHANGED req \/ ReloadStep
    BY <1>3 DEF DataPlaneStep, RollbackStep, CommitActivate, CommitPublish, CommitRefused,
       CommitSwitch, OnHealthRules, ObserverUnlocks, ObservationAborted, callVars
  <2>3. \A d \in Clients :
           req'[d] = req[d] \/ req'[d].pc \notin {"protect", "flip", "record"}
    <3>1. DOMAIN req = Clients /\ \A d \in Clients : req[d] \in Requests
      BY DEF OwnerInv, TypeOK
    <3>2. CASE CallerReturns
      BY <3>1, <3>2 DEF CallerReturns, Requests
    <3>3. CASE ReloadStep
      BY <3>1, <3>3 DEF ReloadStep, IdleReq
    <3> QED BY <2>2, <3>2, <3>3
  <2> QED BY <2>1, <2>3, ExitFrameKeeps DEF ExitFrame
<1> QED BY <1>1, <1>2, <1>3 DEF ObserverStep

LEMMA ObserverTable ==
    ASSUME OwnerInv, RefInv, ObserverStep
    PROVE  TableFollowsActive' /\ PublishInv'
<1>1. CASE CommitActivate
  <2>1. PICK i \in inflight : i.snap = job.snap /\ activeRv' = i.rv
    BY <1>1 DEF CommitActivate
  <2>2. /\ stage = "commit" /\ hook = "none" /\ hook' = "publish" /\ inflight' = inflight
    BY <1>1 DEF CommitActivate, memVars
  <2>3. Registered(job.snap, job.prior, job.new)
    BY <2>2, Waiting, Observing DEF Running
  <2>4. inflight = {i}
    BY <2>1, <2>3 DEF Registered
  <2> QED BY <2>1, <2>2, <2>4 DEF TableFollowsActive, PublishInv
<1>2. CASE CommitPublish
  <2>1. PICK i \in inflight : table' = versions[i.rv]
    BY <1>2 DEF CommitPublish, Publish
  <2>2. hook = "publish" /\ hook' = "none" /\ UNCHANGED <<versions, activeRv>>
    BY <1>2 DEF CommitPublish, dbVars
  <2>3. activeRv = i.rv /\ i.rv # 0
    BY <2>2 DEF RefInv, PublishInv, OwnerInv, TypeOK, RuleApplyInfo
  <2> QED BY <2>1, <2>2, <2>3 DEF TableFollowsActive, PublishInv, RulesOf
<1>3. CASE DataPlaneStep \/ ReloadStep \/ RollbackStep \/ CommitRefused \/ CommitSwitch
             \/ OnHealthRules \/ OnHealthSwitch \/ OnHealthReturns \/ ObserverUnlocks
             \/ ObservationAborted
  <2>1. /\ UNCHANGED <<activeRv, table, versions>>
        /\ hook' = "publish" => hook = "publish" /\ inflight' = inflight
    BY <1>3 DEF DataPlaneStep, ReloadStep, RollbackStep, CommitRefused, CommitSwitch,
       OnHealthRules, OnHealthSwitch, OnHealthReturns, ObserverUnlocks, ObservationAborted,
       dbVars, memVars, callVars
  <2>2. hook = "publish" => hook' = "publish"
    BY <1>3 DEF DataPlaneStep, ReloadStep, RollbackStep, CommitRefused, CommitSwitch,
       OnHealthRules, OnHealthSwitch, OnHealthReturns, ObserverUnlocks, ObservationAborted,
       callVars
  <2>3. TableFrame
    BY <2>1, <2>2 DEF TableFrame
  <2> QED BY <2>3, TableFrameKeeps
<1> QED BY <1>1, <1>2, <1>3 DEF ObserverStep

LEMMA ExitStepRefs ==
    ASSUME OwnerInv, SettleInv, RefInv, ExitStep
    PROVE  RefInv'
<1>1. UNCHANGED <<versions, activeRv, activeExit, inflight, switchInflight, protected, table,
                  req, hook, settle>>
  BY DEF ExitStep, AddExit, DeleteExitChecks, DeleteExitDeletes, dbVars, memVars, callVars
<1>2. TableFollowsActive' /\ PublishInv'
  BY <1>1, TableFrameKeeps DEF TableFrame
<1>3. ASSUME NEW e \in Exits, AddExit(e)
      PROVE  ExitRefs' /\ SwitchExitsExist'
  BY <1>1, <1>3 DEF AddExit, RefInv, ExitRefs, SwitchExitsExist, memVars
<1>4. ASSUME NEW e \in Exits, DeleteExitChecks(e)
      PROVE  ExitRefs' /\ SwitchExitsExist'
  BY <1>1, <1>4 DEF DeleteExitChecks, Deletable, RefInv, ExitRefs, SwitchExitsExist, dbVars
<1>5. ASSUME DeleteExitDeletes
      PROVE  ExitRefs' /\ SwitchExitsExist'
  <2>1. deleting' = {} /\ exits' = exits \ deleting
    BY <1>5 DEF DeleteExitDeletes
  <2>2. \A i \in switchInflight : i.new \notin deleting /\ i.prior \notin deleting
    BY SwitchProtects DEF RefInv, ExitRefs
  <2>3. \A c \in Clients : req[c].pc = "record" =>
           req[c].exit \notin deleting /\ req[c].prior \notin deleting
    BY CallProtects DEF RefInv, ExitRefs
  <2>4. settle.step = "compensate" => settle.prior \notin deleting
    BY SettleProtects DEF RefInv, ExitRefs
  <2> QED
    BY <1>1, <2>1, <2>2, <2>3, <2>4 DEF RefInv, ExitRefs, SwitchExitsExist
<1> QED BY <1>2, <1>3, <1>4, <1>5 DEF ExitStep, RefInv

LEMMA RefStep ==
    ASSUME OwnerInv, SettleInv, OwnerInv', RefInv, [Next]_vars
    PROVE  RefInv'
<1>1. ASSUME NEW c \in Clients, NewCall(c)
      PROVE  RefInv'
  BY <1>1, NewCallTable, TableFrameKeeps, NewCallExits DEF RefInv
<1>2. ASSUME NEW c \in Clients, ClientStep(c)
      PROVE  RefInv'
  <2>1. TableFollowsActive' /\ PublishInv'
    BY <1>2, ClientTable, TableFrameKeeps
  <2>2. ExitRefs' /\ SwitchExitsExist'
    BY <1>2, RulesCallExits, SwitchBeginsExits, RecordSwitchExits, SwitchEndsExits,
       SwitchReturnExits
       DEF ClientStep
  <2> QED BY <2>1, <2>2 DEF RefInv
<1>3. CASE ObserverStep
  BY <1>3, ObserverExits, ObserverTable DEF RefInv
<1>4. CASE UnitStarted \/ UNCHANGED vars
  <2>1. UNCHANGED <<versions, activeRv, activeExit, exits, inflight, switchInflight,
                    protected, deleting, table, req, hook, settle>>
    BY <1>4 DEF UnitStarted, vars, dbVars, memVars, callVars
  <2>2. TableFollowsActive' /\ PublishInv'
    BY <2>1, TableFrameKeeps DEF TableFrame
  <2>3. ExitRefs' /\ SwitchExitsExist'
    BY <2>1, ExitFrameKeeps DEF ExitFrame
  <2> QED BY <2>2, <2>3 DEF RefInv
<1>5. CASE Restart
  <2>1. /\ UNCHANGED <<versions, activeRv, exits, activeExit>> /\ table' = RulesOf(activeRv)
        /\ switchInflight' = {} /\ deleting' = {} /\ hook' = "none"
        /\ req' = [d \in Clients |-> IdleReq] /\ settle'.step = "none"
    BY <1>5 DEF Restart, Publish, NoSettle, dbVars
  <2>2. \A d \in Clients : req'[d].pc = "idle"
    BY <2>1 DEF IdleReq
  <2> QED
    BY <2>1, <2>2 DEF RefInv, TableFollowsActive, PublishInv, ExitRefs, SwitchExitsExist,
       RulesOf
<1> QED BY <1>1, <1>2, <1>3, <1>4, <1>5, SettleExits, ExitStepRefs DEF Next

(* The exit pointer stands where the switch under way has put it, no exit   *)
(* it may have to go back to is being deleted, and the resolver's table is  *)
(* the one of the active rule version but inside commitRuleApply.           *)
THEOREM References == Spec => []RefInv
<1>1. Init => RefInv
  BY DEF Init, RefInv, TableFollowsActive, PublishInv, ExitRefs, SwitchExitsExist, RulesOf,
     IdleReq, NoSettle
<1>2. OwnerInv /\ SettleInv /\ OwnerInv' /\ RefInv /\ [Next]_vars => RefInv'
  BY RefStep
<1> QED BY <1>1, <1>2, Ownership, PTL DEF Spec

(* The types hold, the resolver answers from the active rule version, the   *)
(* exits of a switch cannot be deleted under it, and OnHealth finds the     *)
(* entry its caller registered, for every number of callers and exits.      *)
THEOREM StoreHoldsTogether == Spec => []StoreConsistent
<1>1. ASSUME OwnerInv, RefInv
      PROVE  StoreConsistent
  <2>1. ASSUME stage = "notify", hook = "none"
        PROVE  \E i \in inflight \cup switchInflight : i.snap = job.snap
    <3>1. Registered(job.snap, job.prior, job.new)
      BY <1>1, <2>1, Observing
    <3> QED BY <3>1 DEF Registered
  <2> QED
    BY <1>1, <2>1 DEF OwnerInv, RefInv, StoreConsistent, OnHealthFindsEntry
<1> QED BY <1>1, Ownership, References, PTL

(* The references of the database hold after a restart and after an         *)
(* observation that was aborted too.                                        *)
THEOREM ReferencesAlwaysHold == Spec => []ReferencesHold
<1>1. RefInv => ReferencesHold
  BY DEF RefInv, ReferencesHold
<1> QED BY <1>1, References, PTL

----------------------------------------------------------------------------
(* What a change is to bring in force, and what it replaces. *)

AimInv == TargetInv /\ FreshInv

(* No caller is about to dispatch while a lifecycle is under way. *)
LEMMA NoDispatch ==
    ASSUME OwnerInv, stage \in Running \cup {"notify"}, NEW c \in Clients
    PROVE  req[c].pc \in {"idle", "rules", "applying"}
<1>1. CASE Owns(c) /\ req[c].pc # "applying"
  BY <1>1, Resting
<1>2. CASE ~Owns(c)
  BY <1>2 DEF Owns
<1> QED BY <1>1, <1>2

(* Steps that leave the database's pointers and the aim of a change alone. *)
AimFrame ==
    /\ UNCHANGED <<activeRv, activeExit>>
    /\ \A i \in 1..Len(versions) : versions'[i] = versions[i]
    /\ \A c \in Clients : req'[c] = req[c] \/ req'[c].pc \in {"idle", "rules", "applying", "return"}
    /\ stage' \in Running => stage \in Running /\ UNCHANGED <<cand, job, hook>>

LEMMA AimFrameKeeps ==
    ASSUME OwnerInv, AimInv, AimFrame
    PROVE  AimInv'
<1>1. RulesOf(activeRv)' = RulesOf(activeRv) /\ SnapOf(activeRv)' = SnapOf(activeRv)
  BY DEF AimFrame, RulesOf, SnapOf, RulesSnap, OwnerInv, TypeOK
<1>2. \A s : Target(s)' = Target(s) /\ (Fresh(s)' <=> Fresh(s))
  BY <1>1 DEF AimFrame, Target, Fresh, Assembled
<1>3. TargetInv'
  BY <1>2 DEF AimInv, AimFrame, TargetInv
<1>4. FreshInv'
  BY <1>2 DEF AimInv, AimFrame, FreshInv
<1> QED BY <1>3, <1>4 DEF AimInv

(* A switch changes its course only while no lifecycle is under way. *)
LEMMA NothingAimed ==
    ASSUME stage' \notin Running,
           \A c \in Clients : req'[c].pc # "dispatch",
           \A c \in Clients :
              req'[c].pc \in {"protect", "flip", "record"} => req'[c].prev = NoSnap
    PROVE  AimInv'
BY DEF AimInv, TargetInv, FreshInv

LEMMA NewCallAim ==
    ASSUME OwnerInv, AimInv, NEW c \in Clients, NewCall(c)
    PROVE  AimInv'
<1>1. ASSUME NEW e \in Exits, SwitchExit(c, e)
      PROVE  AimInv'
  <2> DEFINE r == [IdleReq EXCEPT !.pc = "protect", !.exit = e, !.prior = activeExit]
  <2>1. req' = [req EXCEPT ![c] = r] /\ ~variation /\ UNCHANGED stage
    BY <1>1 DEF SwitchExit, orchVars
  <2>2. r.pc = "protect" /\ r.prev = NoSnap
    BY DEF IdleReq
  <2> HIDE DEF r
  <2>3. stage \notin Running /\ \A d \in Clients : req[d].pc \in {"idle", "rules"}
    BY <2>1, Quiet DEF Owns
  <2> QED BY <2>1, <2>2, <2>3, NothingAimed DEF OwnerInv, TypeOK
<1>2. ASSUME NEW rv, NEW seen, Prepared(c, rv, seen), UNCHANGED <<orchVars, activeExit, job, hook>>
      PROVE  AimInv'
  <2> DEFINE r == [IdleReq EXCEPT !.pc = "rules", !.snap = RulesSnap(versions'[rv]),
                                  !.rv = rv, !.prev = seen]
  <2>1. req' = [req EXCEPT ![c] = r] /\ r.pc = "rules"
    BY <1>2 DEF Prepared, IdleReq
  <2> HIDE DEF r
  <2>2. AimFrame
    BY <1>2, <2>1, NewCallTable DEF AimFrame, TableFrame, OwnerInv, TypeOK, orchVars
  <2> QED BY <2>2, AimFrameKeeps
<1> QED
  BY <1>1, <1>2 DEF NewCall, HandleApply, ImportRules, HandleRollbackSnapshot,
     CmdRulesRollback

LEMMA ApplyRulesAim ==
    ASSUME OwnerInv, AimInv, NEW c \in Clients, ApplyRules(c)
    PROVE  AimInv'
<1>1. /\ req[c].pc = "rules" /\ ~variation /\ ~Stale(c)
      /\ UNCHANGED <<stage, versions, activeRv, activeExit>>
  BY DEF ApplyRules, orchVars
<1>2. req[c] \in Requests /\ req[c].snap = RulesSnap(versions[req[c].rv])
  BY <1>1 DEF OwnerInv, TypeOK, CallInv, CallOK
<1>3. /\ req'[c].pc = "dispatch" /\ req'[c].snap = req[c].snap /\ req'[c].prev = req[c].prev
      /\ req'[c].cfg = [rules |-> versions[req[c].rv], exit |-> activeExit]
      /\ \A d \in Clients : d # c => req'[d] = req[d]
  BY <1>2 DEF ApplyRules, OwnerInv, TypeOK, Requests
<1>4. stage' \notin Running /\ \A d \in Clients : req[d].pc \in {"idle", "rules"}
  BY <1>1, Quiet DEF Owns
<1>5. req'[c].cfg = Target(req[c].snap)'
  BY <1>1, <1>2, <1>3 DEF Target, IsSwitch, RulesSnap
<1>6. Fresh(req[c].prev)'
  BY <1>1, <1>3 DEF Stale, Fresh, SnapOf
<1>7. TargetInv'
  BY <1>3, <1>4, <1>5 DEF TargetInv
<1>8. FreshInv'
  BY <1>3, <1>4, <1>6 DEF FreshInv
<1> QED BY <1>7, <1>8 DEF AimInv

LEMMA RecordSwitchAim ==
    ASSUME OwnerInv, AimInv, NEW c \in Clients, RecordSwitch(c)
    PROVE  AimInv'
<1>1. req[c].pc = "record" /\ UNCHANGED <<stage, versions, activeRv, activeExit>>
  BY DEF RecordSwitch, orchVars
<1>2. req[c] \in Requests /\ Owns(c) /\ req[c].pc # "applying"
  BY <1>1 DEF OwnerInv, TypeOK, Owns
<1>3. /\ req'[c].pc = "dispatch" /\ req'[c].snap = SwitchSnap(Len(rows) + 1)
      /\ req'[c].prev = req[c].prev /\ req'[c].cfg = Assembled
      /\ \A d \in Clients : d # c => req'[d] = req[d]
  BY <1>2 DEF RecordSwitch, OwnerInv, TypeOK, Requests
<1>4. stage' \notin Running /\ \A d \in Clients : d # c => req[d].pc \in {"idle", "rules"}
  BY <1>1, <1>2, Resting DEF Owns
<1>5. req'[c].cfg = Target(req[c].snap)'
  BY <1>1, <1>3 DEF Target, IsSwitch, SwitchSnap, Assembled, RulesOf
<1>6. req'[c].prev = NoSnap
  BY <1>1, <1>3 DEF AimInv, FreshInv
<1>7. TargetInv'
  BY <1>3, <1>4, <1>5 DEF TargetInv
<1>8. FreshInv'
  BY <1>3, <1>4, <1>6 DEF FreshInv, Fresh
<1> QED BY <1>7, <1>8 DEF AimInv

LEMMA DispatchAim ==
    ASSUME OwnerInv, AimInv, NEW c \in Clients, Dispatch(c)
    PROVE  AimInv'
<1>1. /\ req[c].pc = "dispatch" /\ UNCHANGED <<versions, activeRv, activeExit>>
      /\ job'.snap = req[c].snap /\ job'.seen = req[c].prev
      /\ req' = [req EXCEPT ![c].pc = "applying"]
  BY DEF Dispatch, dbVars
<1>2. req[c] \in Requests /\ Owns(c) /\ req[c].pc # "applying"
  BY <1>1 DEF OwnerInv, TypeOK, Owns
<1>3. cand' = req[c].cfg
  BY DEF Dispatch, Orch!Apply, Orch!Acquire
<1>4. req'[c].pc = "applying" /\ \A d \in Clients : d # c => req'[d] = req[d]
  BY <1>1, <1>2 DEF OwnerInv, TypeOK, Requests
<1>5. \A d \in Clients : d # c => req[d].pc \in {"idle", "rules"}
  BY <1>2, Resting DEF Owns
<1>6. cand' = Target(job.snap)' /\ Fresh(job.seen)'
  BY <1>1, <1>3 DEF AimInv, TargetInv, FreshInv, Target, Fresh, Assembled, RulesOf, SnapOf
<1>7. TargetInv'
  BY <1>4, <1>5, <1>6 DEF TargetInv
<1>8. FreshInv'
  BY <1>4, <1>5, <1>6 DEF FreshInv
<1> QED BY <1>7, <1>8 DEF AimInv

(* The steps of a switch around its lifecycle. *)
LEMMA SwitchAim ==
    ASSUME OwnerInv, AimInv, NEW c \in Clients,
           \/ ProtectSwitchExits(c) \/ FlipExit(c) \/ FlipFails(c)
           \/ RecordSwitchFails(c) \/ SwitchConfirmed(c) \/ SwitchReturn(c)
           \/ SwitchReleases(c)
    PROVE  AimInv'
<1>1. Owns(c) /\ req[c].pc # "applying" /\ UNCHANGED stage
  BY DEF ProtectSwitchExits, FlipExit, FlipFails, RecordSwitchFails, SwitchConfirmed,
     SwitchReturn, SwitchReleases, Owns, orchVars
<1>2. stage \notin Running /\ \A d \in Clients : d # c => req[d].pc \in {"idle", "rules"}
  BY <1>1, Resting DEF Owns
<1>3. req[c] \in Requests /\ DOMAIN req = Clients
  BY DEF OwnerInv, TypeOK
<1>4. \A d \in Clients : d # c => req'[d] = req[d]
  BY <1>3 DEF ProtectSwitchExits, FlipExit, FlipFails, RecordSwitchFails, SwitchConfirmed,
     SwitchReturn, SwitchReleases, SwitchReturns
<1>5. CASE SwitchReturns(c)
  <2>1. req'[c].pc = "idle"
    BY <1>3, <1>5 DEF SwitchReturns, IdleReq
  <2> QED BY <1>1, <1>2, <1>4, <2>1, NothingAimed
<1>6. CASE ProtectSwitchExits(c) \/ FlipExit(c)
  <2>1. req'[c].pc \in {"flip", "record"} /\ req'[c].prev = req[c].prev
    BY <1>3, <1>6 DEF ProtectSwitchExits, FlipExit, Requests
  <2>2. req[c].prev = NoSnap
    BY <1>6 DEF ProtectSwitchExits, FlipExit, AimInv, FreshInv
  <2> QED BY <1>1, <1>2, <1>4, <2>1, <2>2, NothingAimed
<1>7. CASE SwitchReturn(c)
  <2>1. req'[c].pc = "release"
    BY <1>3, <1>7 DEF SwitchReturn, Requests
  <2> QED BY <1>1, <1>2, <1>4, <2>1, NothingAimed
<1> QED
  BY <1>5, <1>6, <1>7 DEF FlipFails, RecordSwitchFails, SwitchConfirmed, SwitchReleases

(* The other steps of a caller. *)
LEMMA CallAim ==
    ASSUME OwnerInv, AimInv, NEW c \in Clients,
           \/ RulesRefused(c) \/ RulesFault(c) \/ DispatchSnapshotFails(c)
           \/ DispatchRejected(c) \/ RulesReturn(c)
    PROVE  AimInv'
<1>1. UNCHANGED <<versions, activeRv, activeExit, hook>>
  BY DEF RulesRefused, RulesFault, DispatchSnapshotFails, DispatchRejected, RulesReturn, dbVars
<1>2. stage' = stage /\ cand' = cand
  BY DEF RulesRefused, RulesFault, DispatchSnapshotFails, DispatchRejected, RulesReturn,
     Orch!SnapshotFails, orchVars
<1>3. stage' \in Running => job' = job
  <2>1. ASSUME RulesReturn(c)
        PROVE  stage \notin Running
    <3>1. Owns(c) /\ req[c].pc # "applying"
      BY <2>1 DEF RulesReturn, Owns
    <3> QED BY <3>1, Resting
  <2> QED
    BY <1>2, <2>1 DEF RulesRefused, RulesFault, DispatchSnapshotFails, DispatchRejected
<1>4. \A d \in Clients : req'[d] = req[d] \/ req'[d].pc \in {"idle", "return"}
  <2>1. req[c] \in Requests /\ DOMAIN req = Clients
    BY DEF OwnerInv, TypeOK
  <2>2. CASE req' = [req EXCEPT ![c] = IdleReq]
    BY <2>1, <2>2 DEF IdleReq
  <2>3. CASE DispatchSnapshotFails(c) \/ DispatchRejected(c)
    BY <2>1, <2>3 DEF DispatchSnapshotFails, DispatchRejected, Requests
  <2> QED BY <2>2, <2>3 DEF RulesRefused, RulesFault, RulesReturn
<1>5. AimFrame
  BY <1>1, <1>2, <1>3, <1>4 DEF AimFrame
<1> QED BY <1>5, AimFrameKeeps

LEMMA ObserverAim ==
    ASSUME OwnerInv, AimInv, ObserverStep
    PROVE  AimInv'
<1>1. OrchOK
  BY DEF OwnerInv, TypeOK, OrchOK
<1>2. CASE CommitActivate
  <2>1. PICK i \in inflight : i.snap = job.snap
    BY <1>2 DEF CommitActivate
  <2>2. /\ stage = "commit" /\ hook' = "publish"
        /\ UNCHANGED <<stage, cand, versions, activeExit, req, job>>
    BY <1>2 DEF CommitActivate, orchVars
  <2>3. ~IsSwitch(job.snap)
    <3>1. job.snap = RulesSnap(versions[i.rv])
      BY <2>1 DEF OwnerInv, CallInv
    <3> QED BY <3>1 DEF IsSwitch, RulesSnap
  <2>4. \A c \in Clients : req[c].pc \in {"idle", "rules", "applying"}
    BY <2>2, NoDispatch DEF Running
  <2>5. Target(job.snap)' = Target(job.snap)
    BY <2>2, <2>3 DEF Target, IsSwitch
  <2> QED
    BY <2>2, <2>4, <2>5 DEF AimInv, TargetInv, FreshInv, Running
<1>3. CASE OnHealthSwitch \/ OnHealthReturns
  <2>1. stage = "notify" /\ stage' \in {"notify", "unlock"} /\ UNCHANGED req
    BY <1>3 DEF OnHealthSwitch, OnHealthReturns, Orch!Notified, orchVars
  <2>2. \A c \in Clients : req[c].pc \in {"idle", "rules", "applying"}
    BY <2>1, NoDispatch
  <2> QED BY <2>1, <2>2, NothingAimed DEF Running
<1>4. CASE DataPlaneStep \/ CommitRefused \/ ReloadStep \/ RollbackStep \/ CommitPublish
             \/ CommitSwitch \/ OnHealthRules \/ ObserverUnlocks \/ ObservationAborted
  <2>1. UNCHANGED <<versions, activeRv, activeExit, job>>
    BY <1>4 DEF DataPlaneStep, ReloadStep, RollbackStep, CommitPublish, CommitRefused,
       CommitSwitch, OnHealthRules, ObserverUnlocks, ObservationAborted, dbVars, callVars
  <2>2. stage' \in Running => stage \in Running /\ UNCHANGED <<cand, hook>>
    <3>1. CASE DataPlaneStep
      BY <1>1, <3>1, DataPlaneOrch DEF DataPlaneStep, callVars
    <3>2. CASE CommitRefused
      BY <1>1, <3>2, CommitFailsOrch DEF CommitRefused, callVars, Running
    <3>3. CASE ReloadStep
      BY <1>1, <3>3, ReloadOrch DEF ReloadStep, Running
    <3>4. CASE RollbackStep
      BY <1>1, <3>4, RollbackOrch DEF Running
    <3>5. CASE CommitPublish \/ CommitSwitch
      BY <1>1, <3>5, CommitOrch DEF CommitPublish, CommitSwitch, Running
    <3>6. CASE OnHealthRules
      BY <3>6 DEF OnHealthRules, orchVars, Running
    <3>7. CASE ObserverUnlocks \/ ObservationAborted
      BY <1>1, <3>7, ObserverOrch DEF ObserverUnlocks, ObservationAborted, Running
    <3> QED BY <1>4, <3>1, <3>2, <3>3, <3>4, <3>5, <3>6, <3>7
  <2>3. CallerReturns \/ UNCHANGED req \/ ReloadStep
    BY <1>4 DEF DataPlaneStep, RollbackStep, CommitPublish, CommitRefused,
       CommitSwitch, OnHealthRules, ObserverUnlocks, ObservationAborted, callVars
  <2>4. \A d \in Clients : req'[d] = req[d] \/ req'[d].pc \in {"idle", "return"}
    <3>1. DOMAIN req = Clients /\ \A d \in Clients : req[d] \in Requests
      BY DEF OwnerInv, TypeOK
    <3>2. CASE CallerReturns
      BY <3>1, <3>2 DEF CallerReturns, Requests
    <3>3. CASE ReloadStep
      BY <3>1, <3>3 DEF ReloadStep, IdleReq
    <3> QED BY <2>3, <3>2, <3>3
  <2>5. AimFrame
    BY <2>1, <2>2, <2>4 DEF AimFrame
  <2> QED BY <2>5, AimFrameKeeps
<1> QED BY <1>2, <1>3, <1>4 DEF ObserverStep

LEMMA AimStep ==
    ASSUME OwnerInv, SettleInv, AimInv, [Next]_vars
    PROVE  AimInv'
<1>1. ASSUME NEW c \in Clients, ClientStep(c)
      PROVE  AimInv'
  BY <1>1, ApplyRulesAim, RecordSwitchAim, DispatchAim, SwitchAim, CallAim DEF ClientStep
<1>2. CASE ExitStep \/ UnitStarted \/ UNCHANGED vars
  <2>1. UNCHANGED <<stage, cand, versions, activeRv, activeExit, req, job, hook>>
    BY <1>2 DEF ExitStep, AddExit, DeleteExitChecks, DeleteExitDeletes, UnitStarted,
       Orch!UnitStarted, vars, orchVars, dbVars, callVars
  <2>2. AimFrame
    BY <2>1 DEF AimFrame
  <2> QED BY <2>2, AimFrameKeeps
<1>3. CASE Restart
  <2>1. stage' = "idle" /\ req' = [d \in Clients |-> IdleReq]
    BY <1>3 DEF Restart, Orch!OrchRestart
  <2>2. \A d \in Clients : req'[d].pc = "idle"
    BY <2>1 DEF IdleReq
  <2> QED BY <2>1, <2>2, NothingAimed DEF Running
<1>4. CASE SettleStep
  <2>1. settle.step # "none" /\ UNCHANGED <<stage, req>>
    BY <1>4 DEF SettleStep, SettleCompensates, SettlePersists, orchVars
  <2>2. stage \notin Running /\ \A c \in Clients : req[c].pc \in {"idle", "rules", "release"}
    BY <2>1, SettleAlone
  <2> QED BY <2>1, <2>2, NothingAimed
<1> QED BY <1>1, <1>2, <1>3, <1>4, NewCallAim, ObserverAim DEF Next

(* A lifecycle carries the configuration its caller assembled from a        *)
(* database that has not moved since, and a caller that named the snapshot  *)
(* it replaces named the one that still is active.                          *)
THEOREM Aims == Spec => []AimInv
<1>1. Init => AimInv
  BY DEF Init, AimInv, TargetInv, FreshInv, IdleReq, Orch!OrchInit, Orch!OrchStart,
     Running
<1>2. OwnerInv /\ SettleInv /\ AimInv /\ [Next]_vars => AimInv'
  BY AimStep
<1> QED BY <1>1, <1>2, Ownership, PTL DEF Spec

(* Only commitRuleApply moves the active version. *)
LEMMA OnlyCommitActivates ==
    ASSUME [Next]_vars, activeRv' # activeRv
    PROVE  CommitActivate
<1> USE DEF dbVars
<1>1. ASSUME NEW c \in Clients, NewCall(c) PROVE UNCHANGED activeRv
  BY <1>1 DEF NewCall, HandleApply, ImportRules, HandleRollbackSnapshot, CmdRulesRollback, SwitchExit
<1>2. ASSUME NEW c \in Clients, ClientStep(c) PROVE UNCHANGED activeRv
  <2>1. CASE RulesRefused(c) \/ RulesFault(c) \/ ApplyRules(c) \/ RulesReturn(c)
    BY <2>1 DEF RulesRefused, RulesFault, ApplyRules, RulesReturn
  <2>2. CASE ProtectSwitchExits(c) \/ FlipExit(c) \/ FlipFails(c) \/ RecordSwitch(c) \/ RecordSwitchFails(c)
    BY <2>2 DEF ProtectSwitchExits, FlipExit, FlipFails, RecordSwitch, RecordSwitchFails
  <2>3. CASE Dispatch(c) \/ DispatchSnapshotFails(c) \/ DispatchRejected(c)
    BY <2>3 DEF Dispatch, DispatchSnapshotFails, DispatchRejected
  <2>4. CASE SwitchConfirmed(c) \/ SwitchReturn(c) \/ SwitchReleases(c)
    BY <2>4 DEF SwitchConfirmed, SwitchReturn, SwitchReleases
  <2> QED BY <1>2, <2>1, <2>2, <2>3, <2>4 DEF ClientStep
<1>3. ASSUME ObserverStep, ~CommitActivate PROVE UNCHANGED activeRv
  BY <1>3 DEF ObserverStep, DataPlaneStep, ReloadStep, RollbackStep, CommitPublish, CommitRefused,
              CommitSwitch, OnHealthRules, OnHealthSwitch, OnHealthReturns, ObserverUnlocks,
              ObservationAborted
<1>4. ASSUME ExitStep \/ UnitStarted \/ Restart \/ SettleStep PROVE UNCHANGED activeRv
  BY <1>4 DEF SettleStep, SettleCompensates, SettlePersists, ExitStep, AddExit, DeleteExitChecks, DeleteExitDeletes, UnitStarted, Restart
<1>5. ASSUME UNCHANGED vars PROVE UNCHANGED activeRv
  BY <1>5 DEF vars
<1> QED BY <1>1, <1>2, <1>3, <1>4, <1>5 DEF Next

(* SetActiveRuleVersion advances the active version only to rules that      *)
(* every file holds and every unit runs, and where there is a health check  *)
(* only after the probe of that lifecycle has passed (orchestrator.go:35-38). *)
THEOREM CommitsAreHealthy == Spec => CommitAfterHealth
<1>1. ASSUME OwnerInv, AimInv, [Next]_vars, activeRv' # activeRv
      PROVE  /\ Orch!HealthCheck => health = "ok"
             /\ \A u \in Orch!Units :
                   /\ disk[u] = [rules |-> RulesOf(activeRv'), exit |-> activeExit]
                   /\ running[u] = disk[u]
  <2>1. CommitActivate
    BY <1>1, OnlyCommitActivates
  <2>2. PICK i \in inflight : i.snap = job.snap /\ activeRv' = i.rv
    BY <2>1 DEF CommitActivate
  <2>3. stage = "commit"
    BY <2>1 DEF CommitActivate
  <2>4. /\ i.snap = RulesSnap(versions[i.rv]) /\ i.rv # 0
    BY <1>1 DEF OwnerInv, TypeOK, CallInv, RuleApplyInfo
  <2>5. cand = [rules |-> RulesOf(activeRv'), exit |-> activeExit]
    BY <1>1, <2>2, <2>3, <2>4 DEF AimInv, TargetInv, Target, IsSwitch, RulesSnap, RulesOf, Running
  <2> QED BY <1>1, <2>3, <2>5 DEF OwnerInv, OrchInv, Units
<1>2. OwnerInv /\ AimInv /\ [Next]_vars =>
        [activeRv' # activeRv =>
           /\ Orch!HealthCheck => health = "ok"
           /\ \A u \in Orch!Units :
                 /\ disk[u] = [rules |-> RulesOf(activeRv'), exit |-> activeExit]
                 /\ running[u] = disk[u]]_vars
  BY <1>1
<1> QED BY <1>2, Ownership, Aims, PTL DEF Spec, CommitAfterHealth

(* A caller that looked at the active snapshot never replaces one it did    *)
(* not see, whatever other callers did in between (applier.go:167-169).     *)
THEOREM NoUpdateIsLost == Spec => NoLostUpdate
<1>1. ASSUME OwnerInv, AimInv, [Next]_vars, activeRv' # activeRv, job.seen # NoSnap,
             activeRv # 0
      PROVE  job.seen = SnapOf(activeRv)
  <2>1. stage = "commit" /\ hook = "none"
    BY <1>1, OnlyCommitActivates DEF CommitActivate
  <2> QED BY <1>1, <2>1 DEF AimInv, FreshInv, Fresh, Running
<1>2. OwnerInv /\ AimInv /\ [Next]_vars =>
        [activeRv' # activeRv /\ job.seen # NoSnap /\ activeRv # 0
           => job.seen = SnapOf(activeRv)]_vars
  BY <1>1
<1> QED BY <1>2, Ownership, Aims, PTL DEF Spec, NoLostUpdate

----------------------------------------------------------------------------
(* The control plane and the data plane. *)

PlaneInv == OkInv /\ BaseInv

(* The exit that is in force: a switch keeps its prior one until it is      *)
(* settled.                                                                 *)
ControlOK ==
    /\ \A i \in switchInflight : ControlExit = i.prior
    /\ \A c \in Clients : req[c].pc = "record" => ControlExit = req[c].prior
    /\ settle.step = "compensate" => ControlExit = settle.prior
    /\ /\ switchInflight = {} /\ settle.step # "compensate"
       /\ \A c \in Clients : req[c].pc # "record"
       => ControlExit = activeExit

LEMMA ControlValue == OwnerInv /\ SettleInv => ControlOK
<1> SUFFICES ASSUME OwnerInv, SettleInv
             PROVE  ControlOK
  OBVIOUS
<1>1. ASSUME NEW x, Unsettled = {[prior |-> x]}
      PROVE  ControlExit = x
  <2>1. (CHOOSE u \in Unsettled : TRUE) \in Unsettled
    BY <1>1
  <2> QED BY <1>1, <2>1 DEF ControlExit
<1>2. ASSUME NEW i \in switchInflight
      PROVE  ControlExit = i.prior
  <2>1. /\ switchInflight = {i} /\ settle.step = "none"
        /\ \A c \in Clients : req[c].pc # "record"
    BY SwitchProtects, CallProtects, SettleAlone
  <2>2. Unsettled = {[prior |-> i.prior]}
    BY <2>1 DEF Unsettled
  <2> QED BY <1>1, <2>2
<1>3. ASSUME NEW c \in Clients, req[c].pc = "record"
      PROVE  ControlExit = req[c].prior
  <2>1. switchInflight = {} /\ settle.step = "none"
    BY <1>3, CallProtects, SettleAlone
  <2>2. \A d \in Clients : req[d].pc = "record" => d = c
    BY <1>3 DEF OwnerInv, OneOwner, Owns
  <2>3. Unsettled = {[prior |-> req[c].prior]}
    BY <1>3, <2>1, <2>2 DEF Unsettled
  <2> QED BY <1>1, <2>3
<1>4. ASSUME settle.step = "compensate"
      PROVE  ControlExit = settle.prior
  <2>1. switchInflight = {} /\ \A c \in Clients : req[c].pc # "record"
    BY <1>4, SettleAlone
  <2>2. Unsettled = {[prior |-> settle.prior]}
    BY <1>4, <2>1 DEF Unsettled
  <2> QED BY <1>1, <2>2
<1>5. ASSUME switchInflight = {}, settle.step # "compensate",
             \A c \in Clients : req[c].pc # "record"
      PROVE  ControlExit = activeExit
  BY <1>5 DEF ControlExit, Unsettled
<1> QED BY <1>2, <1>3, <1>4, <1>5 DEF ControlOK

LEMMA ControlValueNext == OwnerInv' /\ SettleInv' => ControlOK'
BY ControlValue, PTL

LEMMA ControlKept ==
    ASSUME UNCHANGED <<activeExit, switchInflight, settle>>,
           \A c \in Clients :
              req'[c] = req[c] \/ (req[c].pc # "record" /\ req'[c].pc # "record")
    PROVE  ControlExit' = ControlExit
<1>1. Unsettled' = Unsettled
  BY DEF Unsettled
<1> QED BY <1>1 DEF ControlExit

LEMMA BaseTyped ==
    ASSUME OwnerInv, SettleInv
    PROVE  Base \in Configs /\ Assembled \in Configs
<1>1. ControlExit \in Exits
  <2>1. CASE switchInflight # {}
    BY <2>1, ControlValue, SwitchProtects DEF ControlOK
  <2>2. ASSUME NEW c \in Clients, req[c].pc = "record"
        PROVE  ControlExit \in Exits
    BY <2>2, ControlValue, CallProtects DEF ControlOK
  <2>3. CASE settle.step = "compensate"
    BY <2>3, ControlValue, SettleProtects DEF ControlOK
  <2>4. CASE /\ switchInflight = {} /\ settle.step # "compensate"
             /\ \A c \in Clients : req[c].pc # "record"
    BY <2>4, ControlValue DEF ControlOK, OwnerInv, TypeOK
  <2> QED BY <2>1, <2>2, <2>3, <2>4
<1>2. Assembled \in Configs
  BY Shapes DEF OwnerInv
<1>3. RulesOf(activeRv) \in RuleSets \cup {NoRules}
  BY DEF OwnerInv, TypeOK, RulesOf
<1> QED BY <1>1, <1>2, <1>3 DEF Base, Configs

(* Without a switch under way the base is what Assemble builds. *)
LEMMA BaseIsAssembled ==
    ASSUME OwnerInv, SettleInv, switchInflight = {}, settle.step # "compensate",
           \A c \in Clients : req[c].pc # "record"
    PROVE  Base = Assembled
BY ControlValue DEF ControlOK, Base, Assembled

LEMMA BaseIsAssembledNext ==
    ASSUME OwnerInv', SettleInv', switchInflight' = {}, settle'.step # "compensate",
           \A c \in Clients : req'[c].pc # "record"
    PROVE  Base' = Assembled'
BY ControlValueNext DEF ControlOK, Base, Assembled

(* No change is under way, or the caller that owns it is at rest. *)
LEMMA RestForce ==
    ASSUME OwnerInv, SettleInv, PlaneInv, trusted,
           \/ ~variation
           \/ \E c \in Clients : Owns(c) /\ req[c].pc \notin {"applying", "return"}
    PROVE  InForce(Base)
<1>1. /\ stage \notin Running \cup {"notify"}
      /\ \A d \in Clients : req[d].pc # "return"
  BY Quiet, Resting DEF Owns
<1>2. stage \in {"idle", "unlock"}
  BY <1>1 DEF OwnerInv, TypeOK, Orch!OrchTypeOK, Orch!Stages, Running
<1> QED BY <1>1, <1>2 DEF PlaneInv, BaseInv

LEMMA AtRest ==
    ASSUME stage' \in {"idle", "unlock"}, hook' = "none",
           \A c \in Clients : req'[c].pc # "return",
           trusted' => InForce(Base)' /\ ~(variation' /\ NoCaller')
    PROVE  PlaneInv'
<1>1. OkInv'
  BY DEF OkInv
<1>2. BaseInv'
  BY DEF BaseInv, Running
<1> QED BY <1>1, <1>2 DEF PlaneInv

LEMMA ForceKept ==
    ASSUME UNCHANGED <<disk, running>>, Base' = Base
    PROVE  InForce(Base)' <=> InForce(Base)
BY DEF InForce

(* Steps of callers that own nothing, and of nobody. *)
LEMMA PlaneFrame ==
    ASSUME OwnerInv, SettleInv, PlaneInv,
           UNCHANGED <<disk, running, prev, stage, restoreOk, outcome, hook, settle, trusted,
                       variation>>,
           Base' = Base, Assembled' = Assembled,
           \A c \in Clients : req'[c] = req[c] \/ (~Owns(c) /\ ~Owns(c)')
    PROVE  PlaneInv'
<1>1. \A g : InForce(g)' <=> InForce(g)
  BY DEF InForce
<1>2. /\ InForce(Base)' <=> InForce(Base)
      /\ InForce(Assembled)' <=> InForce(Assembled)
  BY DEF InForce
<1>3. \A c \in Clients : req'[c] = req[c] \/ (req[c].pc # "return" /\ req'[c].pc # "return")
  BY DEF Owns
<1>4. NoCaller' <=> NoCaller
  BY DEF NoCaller, Owns
<1>5. OkInv'
  BY <1>2, <1>3 DEF PlaneInv, OkInv
<1>6. BaseInv'
  BY <1>2, <1>3, <1>4 DEF PlaneInv, BaseInv
<1> QED BY <1>5, <1>6 DEF PlaneInv

LEMMA BaseKept ==
    ASSUME OwnerInv, SettleInv, RefInv, TableFrame,
           UNCHANGED <<activeExit, switchInflight, settle>>,
           \A c \in Clients :
              req'[c] = req[c] \/ (req[c].pc # "record" /\ req'[c].pc # "record")
    PROVE  Base' = Base /\ Assembled' = Assembled
<1>1. RulesOf(activeRv)' = RulesOf(activeRv)
  BY TableFrameKeeps
<1>2. ControlExit' = ControlExit
  BY ControlKept
<1> QED BY <1>1, <1>2 DEF Base, Assembled

LEMMA NewCallPlane ==
    ASSUME OwnerInv, OwnerInv', SettleInv, SettleInv', RefInv, PlaneInv, NEW c \in Clients, NewCall(c)
    PROVE  PlaneInv'
<1>1. TableFrame
  BY NewCallTable
<1>2. DOMAIN req = Clients
  BY DEF OwnerInv, TypeOK
<1>3. ASSUME NEW e \in Exits, SwitchExit(c, e)
      PROVE  PlaneInv'
  <2> DEFINE r == [IdleReq EXCEPT !.pc = "protect", !.exit = e, !.prior = activeExit]
  <2>1. /\ req[c].pc = "idle" /\ req' = [req EXCEPT ![c] = r] /\ ~variation
        /\ UNCHANGED <<disk, running, stage, hook, settle, trusted, activeExit, switchInflight>>
    BY <1>3 DEF SwitchExit, orchVars, dbVars, history
  <2>2. r.pc = "protect"
    BY DEF IdleReq
  <2> HIDE DEF r
  <2>3. /\ stage \notin Running \cup {"notify"} /\ hook = "none"
        /\ \A d \in Clients : req[d].pc \in {"idle", "rules"}
    BY <2>1, Quiet DEF Owns
  <2>4. stage' \in {"idle", "unlock"}
    BY <2>1, <2>3 DEF OwnerInv, TypeOK, Orch!OrchTypeOK, Orch!Stages, Running
  <2>5. req'[c] = r /\ \A d \in Clients : d # c => req'[d] = req[d]
    BY <1>2, <2>1
  <2>6. Base' = Base
    BY <1>1, <2>1, <2>2, <2>5, BaseKept
  <2>7. ~NoCaller'
    BY <2>2, <2>5 DEF NoCaller, Owns
  <2>8. trusted' => InForce(Base)'
    BY <2>1, <2>6, RestForce, ForceKept
  <2> QED BY <2>1, <2>2, <2>3, <2>4, <2>5, <2>7, <2>8, AtRest
<1>4. ASSUME NEW rv, NEW seen, Prepared(c, rv, seen), req[c].pc = "idle",
             UNCHANGED <<orchVars, activeExit, memVars, hook, settle, history>>
      PROVE  PlaneInv'
  <2> DEFINE r == [IdleReq EXCEPT !.pc = "rules", !.snap = RulesSnap(versions'[rv]),
                                  !.rv = rv, !.prev = seen]
  <2>1. req' = [req EXCEPT ![c] = r] /\ r.pc = "rules"
    BY <1>4 DEF Prepared, IdleReq
  <2> HIDE DEF r
  <2>2. req'[c] = r /\ \A d \in Clients : d # c => req'[d] = req[d]
    BY <1>2, <2>1
  <2>3. Base' = Base /\ Assembled' = Assembled
    BY <1>1, <1>4, <2>1, <2>2, BaseKept DEF memVars
  <2>4. \A d \in Clients : req'[d] = req[d] \/ (~Owns(d) /\ ~Owns(d)')
    BY <1>4, <2>1, <2>2 DEF Owns
  <2> QED BY <1>4, <2>3, <2>4, PlaneFrame DEF orchVars, memVars, history
<1> QED
  BY <1>3, <1>4 DEF NewCall, HandleApply, ImportRules, HandleRollbackSnapshot,
     CmdRulesRollback

LEMMA TurnedAwayPlane ==
    ASSUME OwnerInv, SettleInv, RefInv, PlaneInv, NEW c \in Clients, RulesRefused(c) \/ RulesFault(c)
    PROVE  PlaneInv'
<1>1. /\ req[c].pc = "rules" /\ req' = [req EXCEPT ![c] = IdleReq]
      /\ UNCHANGED <<orchVars, activeExit, memVars, hook, settle, trusted>>
  BY DEF RulesRefused, RulesFault, history, dbVars
<1>2. TableFrame
  BY ClientTable DEF ClientStep
<1>3. req'[c].pc = "idle" /\ \A d \in Clients : d # c => req'[d] = req[d]
  BY <1>1 DEF IdleReq, OwnerInv, TypeOK
<1>4. Base' = Base /\ Assembled' = Assembled
  BY <1>1, <1>2, <1>3, BaseKept DEF memVars
<1>5. \A d \in Clients : req'[d] = req[d] \/ (~Owns(d) /\ ~Owns(d)')
  BY <1>1, <1>3 DEF Owns
<1> QED BY <1>1, <1>4, <1>5, PlaneFrame DEF orchVars, memVars

(* The owner's steps at rest. *)
LEMMA ApplyRulesPlane ==
    ASSUME OwnerInv, SettleInv, RefInv, PlaneInv, NEW c \in Clients, ApplyRules(c)
    PROVE  PlaneInv'
<1>1. /\ ~variation /\ req[c].pc = "rules"
      /\ UNCHANGED <<disk, running, stage, hook, settle, trusted, activeExit, switchInflight>>
  BY DEF ApplyRules, orchVars, history
<1>2. req'[c].pc = "dispatch" /\ \A d \in Clients : d # c => req'[d] = req[d]
  BY DEF ApplyRules, OwnerInv, TypeOK, Requests
<1>3. /\ stage \notin Running \cup {"notify"} /\ hook = "none"
      /\ \A d \in Clients : req[d].pc \in {"idle", "rules"}
  BY <1>1, Quiet DEF Owns
<1>4. stage' \in {"idle", "unlock"}
  BY <1>1, <1>3 DEF OwnerInv, TypeOK, Orch!OrchTypeOK, Orch!Stages, Running
<1>5. Base' = Base
  <2>1. TableFrame
    BY ClientTable DEF ClientStep
  <2> QED BY <1>1, <1>2, <2>1, BaseKept
<1>6. ~NoCaller'
  BY <1>2 DEF NoCaller, Owns
<1>7. trusted' => InForce(Base)'
  BY <1>1, <1>5, RestForce, ForceKept
<1> QED BY <1>1, <1>2, <1>3, <1>4, <1>6, <1>7, AtRest

(* The steps of a switch before its lifecycle keep the base, whatever they  *)
(* do to the pointer.                                                       *)
LEMMA SwitchPlane ==
    ASSUME OwnerInv, OwnerInv', SettleInv, SettleInv', RefInv, PlaneInv, NEW c \in Clients,
           \/ ProtectSwitchExits(c) \/ FlipExit(c) \/ FlipFails(c)
           \/ RecordSwitch(c) \/ RecordSwitchFails(c)
    PROVE  PlaneInv'
<1>1. /\ req[c].pc \in {"protect", "flip", "record"}
      /\ UNCHANGED <<disk, running, stage, hook, settle>>
  BY DEF ProtectSwitchExits, FlipExit, FlipFails, RecordSwitch, RecordSwitchFails, orchVars
<1>2. Owns(c) /\ req[c].pc \notin {"applying", "return"}
  BY <1>1 DEF Owns
<1>3. /\ stage \notin Running \cup {"notify"} /\ hook = "none"
      /\ \A d \in Clients : d # c => req[d].pc \in {"idle", "rules"}
  BY <1>2, Resting DEF Owns
<1>4. stage' \in {"idle", "unlock"}
  BY <1>1, <1>3 DEF OwnerInv, TypeOK, Orch!OrchTypeOK, Orch!Stages, Running
<1>5. DOMAIN req = Clients /\ req[c] \in Requests
  BY DEF OwnerInv, TypeOK
<1>6. \A d \in Clients : d # c => req'[d] = req[d]
  BY <1>5 DEF ProtectSwitchExits, FlipExit, FlipFails, RecordSwitch, RecordSwitchFails,
     SwitchReturns
<1>7. RulesOf(activeRv)' = RulesOf(activeRv)
  <2>1. TableFrame
    BY ClientTable DEF ClientStep
  <2> QED BY <2>1, TableFrameKeeps
<1>8. switchInflight = {} /\ settle.step = "none"
  BY <1>1, SettleAlone DEF OwnerInv, OwnersOnly, NothingRegistered
<1>9. req[c].pc # "record" => ControlExit = req[c].prior /\ activeExit = req[c].prior
  BY <1>1, <1>3, <1>8, ControlValue DEF ControlOK, RefInv, ExitRefs
<1>10. ControlExit = req[c].prior
  BY <1>1, <1>9, ControlValue DEF ControlOK
<1>11. trusted' => trusted /\ ControlExit' = req[c].prior
  <2>1. CASE ProtectSwitchExits(c)
    <3>1. /\ req'[c].pc = "flip" /\ UNCHANGED <<activeExit, switchInflight, trusted>>
          /\ req[c].pc = "protect"
      BY <1>5, <2>1 DEF ProtectSwitchExits, Requests, dbVars, history
    <3> QED BY <1>1, <1>6, <1>10, <3>1, ControlKept
  <2>2. CASE FlipExit(c)
    <3>1. /\ req'[c].pc = "record" /\ req'[c].prior = req[c].prior /\ trusted' = trusted
      BY <1>5, <2>2 DEF FlipExit, Requests, history
    <3> QED BY <3>1, ControlValueNext DEF ControlOK
  <2>3. CASE FlipFails(c)
    <3>1. /\ req'[c].pc = "idle" /\ UNCHANGED <<activeExit, switchInflight, trusted>>
          /\ req[c].pc = "flip"
      BY <1>5, <2>3 DEF FlipFails, SwitchReturns, IdleReq, dbVars
    <3> QED BY <1>1, <1>6, <1>10, <3>1, ControlKept
  <2>4. CASE RecordSwitch(c)
    <3> DEFINE i == [snap |-> SwitchSnap(Len(rows) + 1), row |-> Len(rows) + 1,
                     new |-> req[c].exit, prior |-> req[c].prior]
    <3>1. i \in switchInflight' /\ trusted' = trusted
      BY <2>4 DEF RecordSwitch, RegisterSwitchInflight, history
    <3>2. i.prior = req[c].prior
      OBVIOUS
    <3> HIDE DEF i
    <3> QED BY <3>1, <3>2, ControlValueNext DEF ControlOK
  <2>5. CASE RecordSwitchFails(c)
    <3>1. PICK ok \in BOOLEAN : /\ CompensateSwitch(req[c].prior, ok)
                                /\ Trust(IF ok THEN "rolled_back" ELSE "failed")
      BY <2>5 DEF RecordSwitchFails
    <3>2. CASE ok
      <4>1. activeExit' = req[c].prior /\ trusted' = trusted
        BY <3>1, <3>2 DEF CompensateSwitch, Trust
      <4>2. req'[c].pc = "idle" /\ switchInflight' = {}
        BY <1>5, <1>8, <2>5 DEF RecordSwitchFails, SwitchReturns, IdleReq
      <4> QED BY <1>1, <1>3, <1>6, <1>8, <4>1, <4>2, ControlValueNext DEF ControlOK
    <3>3. CASE ~ok
      <4>1. trusted' = FALSE
        BY <3>1, <3>3 DEF Trust
      <4> QED BY <4>1
    <3> QED BY <3>2, <3>3
  <2> QED BY <2>1, <2>2, <2>3, <2>4, <2>5
<1>12. trusted' => InForce(Base)'
  <2>1. trusted => InForce(Base)
    BY <1>2, RestForce
  <2>2. trusted' => Base' = Base
    BY <1>7, <1>10, <1>11 DEF Base
  <2> QED BY <1>1, <1>11, <2>1, <2>2, ForceKept
<1>13. req'[c].pc # "return" /\ ~(variation' /\ NoCaller')
  <2>1. CASE SwitchReturns(c)
    BY <1>5, <2>1 DEF SwitchReturns, IdleReq, EndVariation
  <2>2. CASE ProtectSwitchExits(c) \/ FlipExit(c) \/ RecordSwitch(c)
    <3>1. req'[c].pc \in {"flip", "record", "dispatch"}
      BY <1>5, <2>2 DEF ProtectSwitchExits, FlipExit, RecordSwitch, Requests
    <3> QED BY <3>1 DEF NoCaller, Owns
  <2> QED BY <2>1, <2>2 DEF FlipFails, RecordSwitchFails
<1> QED BY <1>1, <1>3, <1>4, <1>6, <1>12, <1>13, AtRest

(* What is left to show of the invariant where a lifecycle is under way,    *)
(* where its outcome is reported and where a caller returns with one.       *)
LEMMA OnTheWay ==
    ASSUME stage' \in Running, hook' # "release", \A c \in Clients : req'[c].pc # "return",
           trusted' /\ hook' # "publish" => \A u \in Units : prev'[u] = Base',
           trusted' /\ stage' \in {"render", "undoRender"} =>
               \A u \in Units : running'[u] = Base',
           trusted' /\ stage' = "reloadPrev" /\ restoreOk' =>
               \A u \in Units : disk'[u] = prev'[u]
    PROVE  PlaneInv'
<1>1. OkInv'
  BY DEF OkInv, Running
<1>2. BaseInv'
  BY DEF BaseInv, Running
<1> QED BY <1>1, <1>2 DEF PlaneInv

LEMMA WithOutcome ==
    ASSUME stage' = "notify", hook' # "publish", \A c \in Clients : req'[c].pc # "return",
           hook' = "none" /\ outcome' = "ok" => InForce(Assembled)',
           trusted' /\ hook' = "none" /\ outcome' = "rolled_back" => InForce(Base)',
           trusted' /\ hook' = "release" => InForce(Base)'
    PROVE  PlaneInv'
<1>1. OkInv'
  BY DEF OkInv
<1>2. BaseInv'
  BY DEF BaseInv, Running
<1> QED BY <1>1, <1>2 DEF PlaneInv

LEMMA Returning ==
    ASSUME stage' \in {"idle", "unlock"}, hook' = "none",
           NEW c \in Clients, req'[c].pc = "return",
           \A d \in Clients : d # c => req'[d].pc # "return",
           req'[c].res = "ok" => InForce(Assembled)',
           trusted' /\ req'[c].res = "rolled_back" => InForce(Base)'
    PROVE  PlaneInv'
<1>1. OkInv'
  BY DEF OkInv
<1>2. ~NoCaller'
  BY DEF NoCaller, Owns
<1>3. BaseInv'
  BY <1>2 DEF BaseInv, Running
<1> QED BY <1>1, <1>3 DEF PlaneInv

LEMMA BaseSame ==
    ASSUME UNCHANGED <<versions, activeRv, activeExit, switchInflight, settle>>,
           \A c \in Clients :
              req'[c] = req[c] \/ (req[c].pc # "record" /\ req'[c].pc # "record")
    PROVE  Base' = Base /\ Assembled' = Assembled
<1>1. ControlExit' = ControlExit
  BY ControlKept
<1> QED BY <1>1 DEF Base, Assembled, RulesOf

(* The end of a lifecycle, reported to whoever waits for it. *)
LEMMA FinishPlane ==
    ASSUME OwnerInv, SettleInv, stage \in Running, CallerReturns, hook' = "none",
           stage' = IF async THEN "notify" ELSE "idle",
           outcome' = "ok" => InForce(Assembled)',
           trusted' /\ outcome' = "rolled_back" => InForce(Base)'
    PROVE  PlaneInv'
<1>1. \A d \in Clients : req[d].pc # "return"
  BY NoDispatch
<1>2. CASE async
  <2>1. req' = req
    BY <1>2 DEF CallerReturns
  <2> QED BY <1>1, <1>2, <2>1, WithOutcome
<1>3. CASE ~async
  <2>1. PICK c : c = job.client
    OBVIOUS
  <2>2. c \in Clients
    BY <1>3, <2>1, Waiting
  <2>3. DOMAIN req = Clients /\ req[c] \in Requests
    BY <2>2 DEF OwnerInv, TypeOK
  <2>4. /\ req'[c].pc = "return" /\ req'[c].res = outcome'
        /\ \A d \in Clients : d # c => req'[d] = req[d]
    BY <1>3, <2>1, <2>2, <2>3 DEF CallerReturns, Requests
  <2> QED BY <1>1, <1>3, <2>2, <2>4, Returning
<1> QED BY <1>2, <1>3

(* The snapshot of the files is the configuration that was in force. *)
LEMMA DispatchPlane ==
    ASSUME OwnerInv, SettleInv, PlaneInv, NEW c \in Clients, Dispatch(c)
    PROVE  PlaneInv'
<1>1. /\ req[c].pc = "dispatch" /\ req' = [req EXCEPT ![c].pc = "applying"]
      /\ UNCHANGED <<versions, activeRv, activeExit, switchInflight, hook, settle, trusted>>
  BY DEF Dispatch, dbVars, memVars, history
<1>2. Owns(c) /\ req[c].pc \notin {"applying", "return"}
  BY <1>1 DEF Owns
<1>3. hook = "none" /\ \A d \in Clients : d # c => req[d].pc \in {"idle", "rules"}
  BY <1>2, Resting DEF Owns
<1>4. req'[c].pc = "applying" /\ \A d \in Clients : d # c => req'[d] = req[d]
  BY <1>1 DEF OwnerInv, TypeOK, Requests
<1>5. Base' = Base
  BY <1>1, <1>4, BaseSame
<1>6. stage' = "render" /\ prev' = disk /\ running' = running
  BY DEF Dispatch, Orch!Apply, Orch!Acquire, Orch!SnapshotCurrent
<1>7. trusted' => \A u \in Units : prev'[u] = Base' /\ running'[u] = Base'
  BY <1>1, <1>2, <1>5, <1>6, RestForce DEF InForce
<1> QED BY <1>1, <1>3, <1>4, <1>6, <1>7, OnTheWay DEF Running

(* A rejected call, and one whose snapshot failed, touched nothing. *)
LEMMA DispatchFailsPlane ==
    ASSUME OwnerInv, SettleInv, PlaneInv, NEW c \in Clients,
           DispatchSnapshotFails(c) \/ DispatchRejected(c)
    PROVE  PlaneInv'
<1>1. /\ req[c].pc = "dispatch"
      /\ UNCHANGED <<versions, activeRv, activeExit, switchInflight, hook, settle, trusted>>
      /\ UNCHANGED <<disk, running, stage>>
  BY DEF DispatchSnapshotFails, DispatchRejected, dbVars, memVars, history, orchVars,
     Orch!SnapshotFails
<1>2. Owns(c) /\ req[c].pc \notin {"applying", "return"}
  BY <1>1 DEF Owns
<1>3. /\ stage \notin Running \cup {"notify"} /\ hook = "none"
      /\ \A d \in Clients : d # c => req[d].pc \in {"idle", "rules"}
  BY <1>2, Resting DEF Owns
<1>4. stage' \in {"idle", "unlock"}
  BY <1>1, <1>3 DEF OwnerInv, TypeOK, Orch!OrchTypeOK, Orch!Stages, Running
<1>5. DOMAIN req = Clients /\ req[c] \in Requests
  BY DEF OwnerInv, TypeOK
<1>6. /\ req'[c].pc = "return" /\ req'[c].res \in {"failed", "rolled_back"}
      /\ \A d \in Clients : d # c => req'[d] = req[d]
  BY <1>5 DEF DispatchSnapshotFails, DispatchRejected, Requests
<1>7. Base' = Base
  BY <1>1, <1>6, BaseSame
<1>8. trusted' => InForce(Base)'
  BY <1>1, <1>2, <1>7, RestForce, ForceKept
<1> QED BY <1>1, <1>3, <1>4, <1>6, <1>8, Returning

(* Which outcome a terminal state may be trusted with. *)
LEMMA Trusting ==
    ASSUME NEW state, Trust(state), trusted'
    PROVE  state = "confirmed" \/ (state # "failed" /\ trusted)
<1>1. state = "failed" => trusted' = FALSE
  BY DEF Trust
<1>2. state \notin {"confirmed", "failed"} => trusted' = trusted
  BY DEF Trust
<1> QED BY <1>1, <1>2

(* A caller stores the outcome and leaves: what it leaves in force is the   *)
(* base of the next change.                                                 *)
LEMMA RulesReturnPlane ==
    ASSUME OwnerInv, OwnerInv', SettleInv, SettleInv', PlaneInv, NEW c \in Clients, RulesReturn(c)
    PROVE  PlaneInv'
<1>1. /\ req[c].pc = "return" /\ ~IsSwitch(req[c].snap) /\ variation' = FALSE
      /\ Trust(TerminalState(req[c].res)) /\ req' = [req EXCEPT ![c] = IdleReq]
      /\ UNCHANGED <<orchVars, versions, activeRv, activeExit, switchInflight, hook, settle>>
  BY DEF RulesReturn, EndVariation
<1>2. Owns(c) /\ req[c].pc # "applying"
  BY <1>1 DEF Owns
<1>3. /\ stage \notin Running \cup {"notify"} /\ hook = "none"
      /\ \A d \in Clients : d # c => req[d].pc \in {"idle", "rules"}
  BY <1>2, Resting DEF Owns
<1>4. stage' \in {"idle", "unlock"}
  BY <1>1, <1>3 DEF OwnerInv, TypeOK, Orch!OrchTypeOK, Orch!Stages, Running, orchVars
<1>5. req'[c].pc = "idle" /\ \A d \in Clients : d # c => req'[d] = req[d]
  BY <1>1 DEF OwnerInv, TypeOK, IdleReq
<1>6. Base' = Base
  BY <1>1, <1>5, BaseSame
<1>7. switchInflight = {} /\ settle.step = "none"
  BY <1>1, RegisteredRules, SettleAlone DEF OwnerInv, OwnersOnly
<1>8. Base = Assembled
  BY <1>1, <1>3, <1>7, BaseIsAssembled
<1>9. ASSUME trusted'
      PROVE  InForce(Base)
  <2>1. req[c].res \in Orch!Outcomes \ {"none"}
    BY <1>1 DEF OwnerInv, TypeOK, Requests, CallInv, CallOK
  <2>2. req[c].res = "ok" \/ (req[c].res = "rolled_back" /\ trusted)
    BY <1>1, <1>9, <2>1, Trusting DEF TerminalState, Orch!Outcomes
  <2> QED BY <1>1, <1>8, <2>2 DEF PlaneInv, OkInv, BaseInv
<1>10. trusted' => InForce(Base)'
  BY <1>1, <1>6, <1>9, ForceKept DEF orchVars
<1> QED BY <1>1, <1>3, <1>4, <1>5, <1>10, AtRest

(* A switch that succeeded is written and ends. *)
LEMMA SwitchConfirmedPlane ==
    ASSUME OwnerInv, OwnerInv', SettleInv, SettleInv', PlaneInv, NEW c \in Clients,
           SwitchConfirmed(c)
    PROVE  PlaneInv'
<1>1. /\ req[c].pc = "return" /\ IsSwitch(req[c].snap) /\ req[c].res = "ok"
      /\ variation' = FALSE /\ req' = [req EXCEPT ![c] = IdleReq]
      /\ switchInflight' = ClearSwitchInflight(req[c].snap)
      /\ UNCHANGED <<orchVars, versions, activeRv, activeExit, hook, settle>>
  BY DEF SwitchConfirmed, SwitchReturns, EndVariation
<1>2. Owns(c) /\ req[c].pc # "applying"
  BY <1>1 DEF Owns
<1>3. /\ stage \notin Running \cup {"notify"} /\ hook = "none"
      /\ \A d \in Clients : d # c => req[d].pc \in {"idle", "rules"}
  BY <1>2, Resting DEF Owns
<1>4. stage' \in {"idle", "unlock"}
  BY <1>1, <1>3 DEF OwnerInv, TypeOK, Orch!OrchTypeOK, Orch!Stages, Running, orchVars
<1>5. req'[c].pc = "idle" /\ \A d \in Clients : d # c => req'[d] = req[d]
  BY <1>1 DEF OwnerInv, TypeOK, IdleReq
<1>6. Registered(req[c].snap, req[c].prior, req[c].exit) /\ settle.step = "none"
  BY <1>1, SettleAlone DEF OwnerInv, OwnersOnly
<1>7. switchInflight' = {}
  BY <1>1, <1>6, RegisteredSwitch
<1>8. Base' = Assembled'
  BY <1>1, <1>3, <1>5, <1>6, <1>7, BaseIsAssembledNext
<1>9. Base' = Assembled
  BY <1>1, <1>8 DEF Assembled, RulesOf
<1>10. InForce(Base)'
  BY <1>1, <1>9 DEF PlaneInv, OkInv, InForce, orchVars
<1> QED BY <1>1, <1>3, <1>4, <1>5, <1>10, AtRest

(* One that failed stays the caller's until it is settled: the exit it goes *)
(* back to is the one that is in force.                                     *)
LEMMA SwitchReturnPlane ==
    ASSUME OwnerInv, OwnerInv', SettleInv, SettleInv', PlaneInv, NEW c \in Clients,
           SwitchReturn(c)
    PROVE  PlaneInv'
<1>1. /\ req[c].pc = "return" /\ IsSwitch(req[c].snap) /\ req[c].res # "ok"
      /\ req' = [req EXCEPT ![c].pc = "release"] /\ Trust(req[c].res)
      /\ settle'.step = "compensate" /\ settle'.prior = req[c].prior
      /\ UNCHANGED <<orchVars, versions, activeRv, hook>>
  BY DEF SwitchReturn, dbVars
<1>2. Owns(c) /\ req[c].pc # "applying"
  BY <1>1 DEF Owns
<1>3. /\ stage \notin Running \cup {"notify"} /\ hook = "none"
      /\ \A d \in Clients : d # c => req[d].pc \in {"idle", "rules"}
  BY <1>2, Resting DEF Owns
<1>4. stage' \in {"idle", "unlock"}
  BY <1>1, <1>3 DEF OwnerInv, TypeOK, Orch!OrchTypeOK, Orch!Stages, Running, orchVars
<1>5. req'[c].pc = "release" /\ \A d \in Clients : d # c => req'[d] = req[d]
  BY <1>1 DEF OwnerInv, TypeOK, Requests
<1>6. Registered(req[c].snap, req[c].prior, req[c].exit)
  BY <1>1 DEF OwnerInv, OwnersOnly
<1>7. \E i \in switchInflight : i.prior = req[c].prior
  BY <1>1, <1>6, RegisteredSwitch
<1>8. ControlExit = req[c].prior /\ ControlExit' = req[c].prior
  BY <1>1, <1>7, ControlValue, ControlValueNext DEF ControlOK
<1>9. Base' = Base
  BY <1>1, <1>8 DEF Base, RulesOf
<1>10. ASSUME trusted'
       PROVE  InForce(Base)
  <2>1. req[c].res \in Orch!Outcomes \ {"none"}
    BY <1>1 DEF OwnerInv, TypeOK, Requests, CallInv, CallOK
  <2>2. req[c].res = "rolled_back" /\ trusted
    BY <1>1, <1>10, <2>1, Trusting DEF Orch!Outcomes
  <2> QED BY <1>1, <2>2 DEF PlaneInv, BaseInv
<1>11. trusted' => InForce(Base)'
  BY <1>1, <1>9, <1>10, ForceKept DEF orchVars
<1>12. ~NoCaller'
  BY <1>5 DEF NoCaller, Owns
<1> QED BY <1>1, <1>3, <1>4, <1>5, <1>11, <1>12, AtRest

LEMMA SwitchReleasesPlane ==
    ASSUME OwnerInv, SettleInv, PlaneInv, NEW c \in Clients, SwitchReleases(c)
    PROVE  PlaneInv'
<1>1. /\ req[c].pc = "release" /\ variation' = FALSE
      /\ req' = [req EXCEPT ![c] = IdleReq]
      /\ UNCHANGED <<orchVars, versions, activeRv, activeExit, switchInflight, hook,
                     settle, trusted>>
  BY DEF SwitchReleases, SwitchReturns, EndVariation, dbVars, history
<1>2. Owns(c) /\ req[c].pc \notin {"applying", "return"}
  BY <1>1 DEF Owns
<1>3. /\ stage \notin Running \cup {"notify"} /\ hook = "none"
      /\ \A d \in Clients : d # c => req[d].pc \in {"idle", "rules"}
  BY <1>2, Resting DEF Owns
<1>4. stage' \in {"idle", "unlock"}
  BY <1>1, <1>3 DEF OwnerInv, TypeOK, Orch!OrchTypeOK, Orch!Stages, Running, orchVars
<1>5. req'[c].pc = "idle" /\ \A d \in Clients : d # c => req'[d] = req[d]
  BY <1>1 DEF OwnerInv, TypeOK, IdleReq
<1>6. Base' = Base
  BY <1>1, <1>5, BaseSame
<1>7. trusted' => InForce(Base)'
  BY <1>1, <1>2, <1>6, RestForce, ForceKept DEF orchVars
<1> QED BY <1>1, <1>3, <1>4, <1>5, <1>7, AtRest

(* compensateSwitch puts the pointer back to the exit that is in force, or  *)
(* the change has failed.                                                   *)
LEMMA SettlePlane ==
    ASSUME OwnerInv, OwnerInv', SettleInv, SettleInv', PlaneInv, SettleStep
    PROVE  PlaneInv'
<1>1. /\ settle.step # "none"
      /\ UNCHANGED <<orchVars, versions, activeRv, switchInflight, variation, req, job, hook>>
  BY DEF SettleStep, SettleCompensates, SettlePersists, memVars
<1>2. /\ switchInflight = {} /\ stage \notin Running
      /\ \A c \in Clients : req[c].pc \in {"idle", "rules", "release"}
  BY <1>1, SettleAlone
<1>3. trusted' => trusted /\ ControlExit' = ControlExit
  <2>1. CASE SettlePersists
    <3>1. /\ settle.step = "persist" /\ settle'.step = "none"
          /\ UNCHANGED <<activeExit, trusted>>
      BY <2>1 DEF SettlePersists, NoSettle
    <3>2. ControlExit = activeExit
      BY <1>2, <3>1, ControlValue DEF ControlOK
    <3>3. ControlExit' = activeExit'
      BY <1>1, <1>2, <3>1, ControlValueNext DEF ControlOK
    <3> QED BY <3>1, <3>2, <3>3
  <2>2. CASE SettleCompensates
    <3>1. PICK ok \in BOOLEAN :
             /\ CompensateSwitch(settle.prior, ok)
             /\ settle' = [settle EXCEPT !.step = "persist",
                                         !.state = IF ok THEN settle.state ELSE "failed"]
             /\ Trust(IF ok THEN settle.state ELSE "failed")
      BY <2>2 DEF SettleCompensates
    <3>2. settle.step = "compensate" /\ settle'.step = "persist"
      BY <2>2, <3>1 DEF SettleCompensates, OwnerInv, TypeOK, Settling
    <3>3. CASE ~ok
      BY <3>1, <3>3 DEF Trust
    <3>4. CASE ok
      <4>1. activeExit' = settle.prior
        BY <3>1, <3>4 DEF CompensateSwitch
      <4>2. ControlExit = settle.prior
        BY <3>2, ControlValue DEF ControlOK
      <4>3. ControlExit' = activeExit'
        BY <1>1, <1>2, <3>2, ControlValueNext DEF ControlOK
      <4>4. trusted' => trusted
        <5>1. settle.state # "confirmed"
          BY <3>2 DEF SettleInv
        <5> QED BY <3>1, <3>4, <5>1, Trusting
      <4> QED BY <4>1, <4>2, <4>3, <4>4
    <3> QED BY <3>3, <3>4
  <2> QED BY <2>1, <2>2 DEF SettleStep
<1>4. trusted' => trusted /\ Base' = Base
  BY <1>1, <1>3 DEF Base, RulesOf
<1>5. OkInv'
  <2>1. ~(stage = "notify" /\ hook = "none")
    BY <1>1, <1>2, Resting DEF SettleInv, Owns
  <2> QED BY <1>1, <1>2, <2>1 DEF OkInv, orchVars
<1>6. BaseInv'
  <2> SUFFICES ASSUME trusted'
               PROVE  BaseInv'
    BY DEF BaseInv
  <2>1. trusted /\ (InForce(Base)' <=> InForce(Base))
    BY <1>1, <1>4, ForceKept DEF orchVars
  <2>2. NoCaller' <=> NoCaller
    BY <1>1 DEF NoCaller, Owns
  <2>3. ~(stage = "notify" /\ hook = "none")
    BY <1>1, <1>2, Resting DEF SettleInv, Owns
  <2> QED BY <1>1, <1>2, <2>1, <2>2, <2>3 DEF PlaneInv, BaseInv, orchVars, Running
<1> QED BY <1>5, <1>6 DEF PlaneInv

----------------------------------------------------------------------------
(* The steps of a lifecycle. *)

(* A step of the lifecycle that is not its last one. *)
LEMMA LifecyclePlane ==
    ASSUME OwnerInv, SettleInv, PlaneInv, stage \in Running, stage' \in Running, hook = "none",
           UNCHANGED <<versions, activeRv, activeExit, switchInflight, hook, settle, trusted, prev>>,
           \A c \in Clients : req'[c] = req[c] \/ req'[c].pc = "idle",
           stage' \in {"render", "undoRender"} =>
              stage \in {"render", "undoRender"} /\ running' = running,
           stage' = "reloadPrev" /\ restoreOk' => \A u \in Units : disk'[u] = prev[u]
    PROVE  PlaneInv'
<1>1. \A c \in Clients : req[c].pc \in {"idle", "rules", "applying"}
  BY NoDispatch
<1>2. Base' = Base
  BY <1>1, BaseSame
<1>3. trusted' => \A u \in Units : prev'[u] = Base'
  BY <1>2 DEF PlaneInv, BaseInv
<1>4. trusted' /\ stage' \in {"render", "undoRender"} => \A u \in Units : running'[u] = Base'
  BY <1>2 DEF PlaneInv, BaseInv
<1> QED BY <1>1, <1>3, <1>4, OnTheWay

LEMMA DataPlanePlane ==
    ASSUME OwnerInv, SettleInv, PlaneInv, DataPlaneStep
    PROVE  PlaneInv'
<1>1. OrchOK
  BY DEF OwnerInv, TypeOK, OrchOK
<1>2. stage \in Running \ {"commit"} /\ stage' \in Running /\ prev' = prev
  BY <1>1, DataPlaneOrch
<1>3. UNCHANGED <<versions, activeRv, activeExit, switchInflight, req, hook, settle, trusted>>
  BY DEF DataPlaneStep, dbVars, memVars, callVars
<1>4. hook = "none"
  BY <1>2 DEF OwnerInv, OneOwner, TypeOK, Running
<1>5. stage' \in {"render", "undoRender"} =>
         stage \in {"render", "undoRender"} /\ running' = running
  BY DEF DataPlaneStep, Orch!Render, Orch!ProbeOk, Orch!RenderFails, Orch!ReloadFails,
     Orch!Restore, Orch!ProbeFails
<1>6. ASSUME stage' = "reloadPrev", restoreOk'
      PROVE  \A u \in Units : disk'[u] = prev[u]
  <2>1. PICK bad \in SUBSET Orch!Units : Orch!Restore(bad)
    BY <1>1, <1>6 DEF DataPlaneStep, Orch!Render, Orch!ProbeOk, Orch!RenderFails,
       Orch!ReloadFails, Orch!ProbeFails, OrchOK, OrchInv
  <2>2. bad = {}
    BY <1>6, <2>1 DEF Orch!Restore
  <2> QED BY <2>1, <2>2 DEF Orch!Restore, Orch!RestoreFiles, Units
<1> QED BY <1>2, <1>3, <1>4, <1>5, <1>6, LifecyclePlane

LEMMA ReloadPlane ==
    ASSUME OwnerInv, SettleInv, PlaneInv, ReloadStep
    PROVE  PlaneInv'
<1>1. OrchOK
  BY DEF OwnerInv, TypeOK, OrchOK
<1>2. stage = "reload" /\ stage' \in {"observe", "commit"} /\ prev' = prev
  BY <1>1, ReloadOrch DEF ReloadStep
<1>3. /\ UNCHANGED <<versions, activeRv, activeExit, switchInflight, hook, settle, trusted>>
      /\ req' = IF Orch!HealthCheck THEN [req EXCEPT ![job.client] = IdleReq] ELSE req
  BY DEF ReloadStep, dbVars, memVars, history
<1>4. hook = "none"
  BY <1>2 DEF OwnerInv, OneOwner, TypeOK
<1>5. \A c \in Clients : req'[c] = req[c] \/ req'[c].pc = "idle"
  BY <1>3 DEF OwnerInv, TypeOK, IdleReq
<1> QED BY <1>2, <1>3, <1>4, <1>5, LifecyclePlane DEF Running

LEMMA CommitRefusedPlane ==
    ASSUME OwnerInv, SettleInv, PlaneInv, CommitRefused
    PROVE  PlaneInv'
<1>1. OrchOK
  BY DEF OwnerInv, TypeOK, OrchOK
<1>2. stage = "commit" /\ stage' = "restore" /\ prev' = prev
  BY <1>1, CommitFailsOrch DEF CommitRefused
<1>3. hook = "none" /\ UNCHANGED <<versions, activeRv, activeExit, switchInflight, req, hook, settle, trusted>>
  BY DEF CommitRefused, dbVars, memVars, callVars
<1> QED BY <1>2, <1>3, LifecyclePlane DEF Running

(* A lifecycle says rolled_back only of files and units that hold what they *)
(* held before it.                                                          *)
LEMMA RollbackPlane ==
    ASSUME OwnerInv, SettleInv, PlaneInv, RollbackStep
    PROVE  PlaneInv'
<1>1. OrchOK
  BY DEF OwnerInv, TypeOK, OrchOK
<1>2. /\ stage \in {"undoRender", "reloadPrev"} /\ outcome' \in {"rolled_back", "failed"}
      /\ stage' = IF async THEN "notify" ELSE "idle"
  BY <1>1, RollbackOrch
<1>3. /\ UNCHANGED <<versions, activeRv, activeExit, switchInflight, hook, settle, trusted>>
      /\ CallerReturns
  BY DEF RollbackStep, dbVars, memVars
<1>4. hook = "none"
  BY <1>2 DEF OwnerInv, OneOwner, TypeOK
<1>5. Base' = Base
  <2>1. \A c \in Clients : req[c].pc # "record"
    BY <1>2, NoDispatch DEF Running
  <2>2. \A c \in Clients : req'[c] = req[c] \/ req'[c].pc = "return"
    BY <1>3 DEF CallerReturns, OwnerInv, TypeOK, Requests
  <2> QED BY <1>3, <2>1, <2>2, BaseSame
<1>6. ASSUME trusted, outcome' = "rolled_back"
      PROVE  InForce(Base)'
  <2>1. \A u \in Units : prev[u] = Base
    BY <1>2, <1>4, <1>6 DEF PlaneInv, BaseInv, Running
  <2>2. ASSUME NEW bad \in SUBSET Orch!Units, Orch!UndoRender(bad)
        PROVE  InForce(Base)'
    <3>1. bad = {} /\ stage = "undoRender" /\ running' = running
      BY <1>6, <2>2 DEF Orch!UndoRender, Orch!Finish, Orch!FailedApplyResult
    <3>2. \A u \in Units : disk'[u] = prev[u]
      BY <2>2, <3>1 DEF Orch!UndoRender, Orch!RestoreFiles, Units
    <3>3. \A u \in Units : running[u] = Base
      BY <1>6, <3>1 DEF PlaneInv, BaseInv
    <3> QED BY <1>5, <2>1, <3>1, <3>2, <3>3 DEF InForce
  <2>3. CASE Orch!ReloadPrev
    <3>1. restoreOk /\ stage = "reloadPrev" /\ disk' = disk /\ running' = disk
      BY <1>6, <2>3 DEF Orch!ReloadPrev, Orch!ReloadUnits, Orch!Finish,
         Orch!FailedApplyResult
    <3>2. \A u \in Units : disk[u] = prev[u]
      BY <1>6, <3>1 DEF PlaneInv, BaseInv
    <3> QED BY <1>5, <2>1, <3>1, <3>2 DEF InForce
  <2>4. ASSUME NEW k \in 1..3, Orch!ReloadPrevFails(k)
        PROVE  FALSE
    BY <1>6, <2>4 DEF Orch!ReloadPrevFails, Orch!Finish
  <2> QED BY <2>2, <2>3, <2>4 DEF RollbackStep
<1> QED BY <1>2, <1>3, <1>4, <1>6, FinishPlane DEF Running

----------------------------------------------------------------------------
(* The commit, and what OnHealth makes of the outcome. *)

LEMMA CommitActivatePlane ==
    ASSUME OwnerInv, SettleInv, PlaneInv, CommitActivate
    PROVE  PlaneInv'
<1>1. stage = "commit" /\ hook' = "publish" /\ UNCHANGED <<stage, req>>
  BY DEF CommitActivate, orchVars
<1>2. \A c \in Clients : req'[c].pc # "return"
  BY <1>1, NoDispatch DEF Running
<1> QED BY <1>1, <1>2, OnTheWay DEF Running

(* A success is reported of the candidate, which is then what Assemble      *)
(* builds from the database.                                                *)
LEMMA CommitEndsPlane ==
    ASSUME OwnerInv, SettleInv, RefInv, AimInv, CommitPublish \/ CommitSwitch
    PROVE  PlaneInv'
<1>1. OrchOK
  BY DEF OwnerInv, TypeOK, OrchOK
<1>2. /\ stage = "commit" /\ outcome' = "ok" /\ stage' = IF async THEN "notify" ELSE "idle"
      /\ UNCHANGED <<disk, running>>
  BY <1>1, CommitOrch DEF CommitPublish, CommitSwitch
<1>3. CallerReturns /\ UNCHANGED <<versions, activeRv, activeExit>>
  BY DEF CommitPublish, CommitSwitch, dbVars
<1>4. hook' = "none"
  <2>1. CASE CommitPublish
    BY <2>1 DEF CommitPublish
  <2>2. CASE CommitSwitch
    BY <1>2, <2>2 DEF CommitSwitch, OwnerInv, TypeOK, OneOwner
  <2> QED BY <2>1, <2>2
<1>5. cand = Target(job.snap)
  BY <1>2 DEF AimInv, TargetInv, Running
<1>6. Target(job.snap) = Assembled
  <2>1. CASE CommitPublish
    <3>1. PICK i \in inflight : i.snap = job.snap /\ hook = "publish"
      BY <2>1 DEF CommitPublish
    <3>2. i.snap = RulesSnap(versions[i.rv]) /\ i.rv # 0 /\ activeRv = i.rv
      BY <3>1 DEF OwnerInv, TypeOK, CallInv, RuleApplyInfo, RefInv, PublishInv
    <3> QED BY <3>1, <3>2 DEF Target, IsSwitch, RulesSnap, Assembled, RulesOf
  <2>2. CASE CommitSwitch
    BY <2>2 DEF CommitSwitch, Target
  <2> QED BY <2>1, <2>2
<1>7. Assembled' = Assembled
  BY <1>3 DEF Assembled, RulesOf
<1>8. InForce(Assembled)'
  BY <1>2, <1>5, <1>6, <1>7 DEF OwnerInv, OrchInv, InForce
<1> QED BY <1>2, <1>3, <1>4, <1>8, FinishPlane DEF Running

LEMMA OnHealthRulesPlane ==
    ASSUME OwnerInv, SettleInv, PlaneInv, OnHealthRules
    PROVE  PlaneInv'
<1>1. /\ stage = "notify" /\ hook = "none" /\ hook' = "release"
      /\ Trust(TerminalState(outcome))
      /\ UNCHANGED <<orchVars, versions, activeRv, activeExit, switchInflight, req, settle>>
  BY DEF OnHealthRules
<1>2. PICK i \in inflight : i.snap = job.snap
  BY DEF OnHealthRules
<1>3. \A c \in Clients : req[c].pc \in {"idle", "rules", "applying"}
  BY <1>1, NoDispatch
<1>4. switchInflight = {} /\ settle.step = "none"
  BY SwitchProtects, SettleAlone
<1>5. Base = Assembled /\ Base' = Base
  BY <1>1, <1>3, <1>4, BaseIsAssembled, BaseSame
<1>6. ASSUME trusted'
      PROVE  InForce(Base)'
  <2>1. outcome \in Orch!Outcomes \ {"none"}
    BY <1>1 DEF OwnerInv, TypeOK, Orch!OrchTypeOK, OrchInv
  <2>2. outcome = "ok" \/ (outcome = "rolled_back" /\ trusted)
    BY <1>1, <1>6, <2>1, Trusting DEF TerminalState, Orch!Outcomes
  <2>3. InForce(Base)
    BY <1>1, <1>5, <2>2 DEF PlaneInv, OkInv, BaseInv
  <2> QED BY <1>1, <1>5, <2>3 DEF InForce, orchVars
<1> QED BY <1>1, <1>3, <1>6, WithOutcome DEF orchVars

LEMMA OnHealthSwitchPlane ==
    ASSUME OwnerInv, OwnerInv', SettleInv, SettleInv', PlaneInv, OnHealthSwitch
    PROVE  PlaneInv'
<1>1. /\ stage = "notify" /\ hook = "none" /\ hook' = "release"
      /\ Trust(TerminalState(outcome))
      /\ UNCHANGED <<orchVars, versions, activeRv, activeExit, req>>
  BY DEF OnHealthSwitch, dbVars
<1>2. \A c \in Clients : req[c].pc \in {"idle", "rules", "applying"}
  BY <1>1, NoDispatch
<1>3. PICK i \in switchInflight :
          /\ switchInflight' = switchInflight \ {i}
          /\ settle' = [step |-> IF TerminalState(outcome) = "confirmed" THEN "persist"
                                 ELSE "compensate",
                        row |-> i.row, snap |-> i.snap, prior |-> i.prior,
                        state |-> TerminalState(outcome)]
  BY DEF OnHealthSwitch
<1>4. ControlExit = i.prior /\ switchInflight' = {}
  BY <1>3, ControlValue, SwitchProtects DEF ControlOK
<1>5. ASSUME trusted'
      PROVE  InForce(Base)'
  <2>1. outcome \in Orch!Outcomes \ {"none"}
    BY <1>1 DEF OwnerInv, TypeOK, Orch!OrchTypeOK, OrchInv
  <2>2. outcome = "ok" \/ (outcome = "rolled_back" /\ trusted)
    BY <1>1, <1>5, <2>1, Trusting DEF TerminalState, Orch!Outcomes
  <2>3. CASE outcome = "ok"
    <3>1. settle'.step = "persist"
      BY <1>3, <2>3 DEF TerminalState
    <3>2. Base' = Assembled'
      BY <1>1, <1>2, <1>4, <3>1, BaseIsAssembledNext
    <3>3. Base' = Assembled
      BY <1>1, <3>2 DEF Assembled, RulesOf
    <3> QED BY <1>1, <2>3, <3>3 DEF PlaneInv, OkInv, InForce, orchVars
  <2>4. CASE outcome = "rolled_back" /\ trusted
    <3>1. settle'.step = "compensate" /\ settle'.prior = i.prior
      BY <1>3, <2>4 DEF TerminalState
    <3>2. Base' = Base
      BY <1>1, <1>4, <3>1, ControlValueNext DEF ControlOK, Base, RulesOf
    <3> QED BY <1>1, <2>4, <3>2 DEF PlaneInv, BaseInv, InForce, orchVars
  <2> QED BY <2>2, <2>3, <2>4
<1> QED BY <1>1, <1>2, <1>5, WithOutcome DEF orchVars

LEMMA OnHealthReturnsPlane ==
    ASSUME OwnerInv, SettleInv, PlaneInv, OnHealthReturns
    PROVE  PlaneInv'
<1>1. /\ hook = "release" /\ hook' = "none" /\ variation' = FALSE
      /\ stage = "notify" /\ stage' = "unlock"
      /\ UNCHANGED <<disk, running, versions, activeRv, activeExit, switchInflight, req,
                     settle, trusted>>
  BY DEF OnHealthReturns, EndVariation, Orch!Notified, dbVars, history
<1>2. \A c \in Clients : req[c].pc \in {"idle", "rules", "applying"}
  BY <1>1, NoDispatch
<1>3. Base' = Base
  BY <1>1, BaseSame
<1>4. trusted' => InForce(Base)'
  BY <1>1, <1>3, ForceKept DEF PlaneInv, BaseInv
<1> QED BY <1>1, <1>2, <1>4, AtRest

----------------------------------------------------------------------------
(* The remaining steps. *)

LEMMA ObserverLeavesPlane ==
    ASSUME OwnerInv, SettleInv, PlaneInv, ObserverUnlocks \/ ObservationAborted
    PROVE  PlaneInv'
<1>1. UNCHANGED <<disk, running, versions, activeRv, activeExit, switchInflight, req, hook, settle,
                  variation>>
  BY DEF ObserverUnlocks, ObservationAborted, Orch!Unlock, Orch!ObserveAborted, dbVars,
     memVars, callVars
<1>2. CASE ObserverUnlocks
  <2>1. stage = "unlock" /\ stage' = "idle" /\ trusted' = trusted
    BY <1>2 DEF ObserverUnlocks, Orch!Unlock, history
  <2>2. hook = "none"
    BY <2>1 DEF OwnerInv, OneOwner, TypeOK
  <2>3. Base' = Base /\ Assembled' = Assembled
    BY <1>1, BaseSame
  <2>4. (InForce(Base)' <=> InForce(Base)) /\ (InForce(Assembled)' <=> InForce(Assembled))
    BY <1>1, <2>3 DEF InForce
  <2>5. NoCaller' <=> NoCaller
    BY <1>1 DEF NoCaller, Owns
  <2>6. OkInv'
    BY <1>1, <2>1, <2>4 DEF PlaneInv, OkInv
  <2>7. BaseInv'
    BY <1>1, <2>1, <2>2, <2>4, <2>5 DEF PlaneInv, BaseInv, Running
  <2> QED BY <2>6, <2>7 DEF PlaneInv
<1>3. CASE ObservationAborted
  <2>1. stage = "observe" /\ stage' = "unlock" /\ trusted' = FALSE
    BY <1>3 DEF ObservationAborted, Orch!ObserveAborted
  <2>2. \A c \in Clients : req'[c].pc # "return"
    BY <1>1, <2>1, NoDispatch DEF Running
  <2> QED BY <2>1, <2>2 DEF PlaneInv, OkInv, BaseInv
<1> QED BY <1>2, <1>3

LEMMA ElsewherePlane ==
    ASSUME OwnerInv, SettleInv, PlaneInv, ExitStep \/ UNCHANGED vars
    PROVE  PlaneInv'
<1>1. UNCHANGED <<disk, running, prev, stage, restoreOk, outcome, hook, settle, trusted, variation>>
  BY DEF ExitStep, AddExit, DeleteExitChecks, DeleteExitDeletes, vars, orchVars, memVars,
     callVars, history
<1>2. UNCHANGED <<versions, activeRv, activeExit, switchInflight, req>>
  BY DEF ExitStep, AddExit, DeleteExitChecks, DeleteExitDeletes, vars, dbVars, memVars,
     callVars
<1>3. Base' = Base /\ Assembled' = Assembled
  BY <1>1, <1>2, BaseSame
<1> QED BY <1>1, <1>2, <1>3, PlaneFrame

(* A unit that is down is not one of a configuration in force. *)
LEMMA UnitStartedPlane ==
    ASSUME OwnerInv, SettleInv, PlaneInv, UnitStarted
    PROVE  PlaneInv'
<1>1. PICK u \in Orch!Units : Orch!UnitStarted(u)
  BY DEF UnitStarted
<1>2. UNCHANGED <<versions, activeRv, activeExit, switchInflight, req, hook, settle, trusted, variation>>
  BY DEF UnitStarted, dbVars, memVars, callVars, history
<1>3. /\ running[u] = Down /\ running' = [running EXCEPT ![u] = disk[u]]
      /\ UNCHANGED <<disk, stage, prev, restoreOk, outcome>>
  BY <1>1 DEF Orch!UnitStarted
<1>4. Base' = Base /\ Assembled' = Assembled
  BY <1>2, BaseSame
<1>5. Base # Down /\ Assembled # Down
  BY BaseTyped, DownAssumption
<1>6. ~InForce(Base) /\ ~InForce(Assembled) /\ ~(\A v \in Units : running[v] = Base)
  BY <1>1, <1>3, <1>5 DEF InForce, Units
<1>7. OkInv'
  BY <1>2, <1>3, <1>6 DEF PlaneInv, OkInv
<1>8. NoCaller' <=> NoCaller
  BY <1>2 DEF NoCaller, Owns
<1>9. BaseInv'
  BY <1>2, <1>3, <1>4, <1>6, <1>8 DEF PlaneInv, BaseInv
<1> QED BY <1>7, <1>9 DEF PlaneInv

(* A restart between two changes finds both planes as they were. *)
LEMMA RestartPlane ==
    ASSUME OwnerInv, OwnerInv', SettleInv, SettleInv', PlaneInv, Restart
    PROVE  PlaneInv'
<1>1. /\ stage' = "idle" /\ hook' = "none" /\ variation' = FALSE /\ switchInflight' = {}
      /\ req' = [c \in Clients |-> IdleReq] /\ trusted' = (trusted /\ ~variation)
      /\ settle'.step = "none"
      /\ UNCHANGED <<disk, running, versions, activeRv, activeExit>>
  BY DEF Restart, Orch!OrchRestart, dbVars, NoSettle
<1>2. \A c \in Clients : req'[c].pc = "idle"
  BY <1>1 DEF IdleReq
<1>3. Base' = Assembled'
  BY <1>1, <1>2, BaseIsAssembledNext
<1>4. ASSUME trusted'
      PROVE  InForce(Base)'
  <2>1. trusted /\ ~variation
    BY <1>1, <1>4
  <2>2. /\ switchInflight = {} /\ settle.step = "none"
        /\ \A c \in Clients : req[c].pc \in {"idle", "rules"}
    BY <2>1, Quiet, SettleAlone DEF NothingRegistered, Owns
  <2>3. Base = Assembled
    BY <2>2, BaseIsAssembled
  <2>4. Base' = Base
    BY <1>1, <1>3, <2>3 DEF Assembled, RulesOf
  <2> QED BY <1>1, <2>1, <2>4, RestForce, ForceKept
<1> QED BY <1>1, <1>2, <1>4, AtRest

LEMMA PlaneStep ==
    ASSUME OwnerInv, OwnerInv', SettleInv, SettleInv', RefInv, AimInv, PlaneInv, [Next]_vars
    PROVE  PlaneInv'
<1>1. ASSUME NEW c \in Clients, ClientStep(c)
      PROVE  PlaneInv'
  BY <1>1, TurnedAwayPlane, ApplyRulesPlane, SwitchPlane, DispatchPlane, DispatchFailsPlane,
     RulesReturnPlane, SwitchConfirmedPlane, SwitchReturnPlane, SwitchReleasesPlane
     DEF ClientStep
<1>2. CASE ObserverStep
  BY <1>2, DataPlanePlane, ReloadPlane, RollbackPlane, CommitActivatePlane, CommitEndsPlane,
     CommitRefusedPlane, OnHealthRulesPlane, OnHealthSwitchPlane, OnHealthReturnsPlane,
     ObserverLeavesPlane DEF ObserverStep
<1> QED
  BY <1>1, <1>2, NewCallPlane, SettlePlane, ElsewherePlane, UnitStartedPlane, RestartPlane DEF Next

(* At every step a change in progress can still be undone: the orchestrator *)
(* holds the configuration that was in force before it, whoever owns it     *)
(* (applier.go:37-41, systemd.go snapshotCurrent).                          *)
THEOREM Planes == Spec => []PlaneInv
<1>1. Init => PlaneInv
  <2> SUFFICES ASSUME Init
               PROVE  PlaneInv
    OBVIOUS
  <2>1. \A c \in Clients : req[c].pc = "idle"
    BY DEF Init, IdleReq
  <2>2. OwnerInv /\ settle.step = "none" /\ SettleInv
    BY InitOwner DEF Init, NoSettle, SettleInv
  <2>3. Base = Assembled
    BY <2>1, <2>2, BaseIsAssembled DEF Init
  <2>4. Assembled = BootConfig
    BY DEF Init, Assembled, RulesOf, BootConfig
  <2>5. InForce(Base)
    BY <2>3, <2>4 DEF Init, Orch!OrchInit, Orch!OrchStart, InForce, Units
  <2>6. stage = "idle" /\ hook = "none" /\ variation = FALSE
    BY DEF Init, Orch!OrchInit, Orch!OrchStart
  <2> QED BY <2>1, <2>5, <2>6 DEF PlaneInv, OkInv, BaseInv, Running
<1>2. /\ OwnerInv /\ OwnerInv' /\ SettleInv /\ SettleInv' /\ RefInv /\ AimInv /\ PlaneInv
      /\ [Next]_vars
      => PlaneInv'
  BY PlaneStep
<1> QED BY <1>1, <1>2, Ownership, References, Aims, PTL DEF Spec

(* Between changes, unless one has failed since the last confirmed one, the *)
(* files, the units, the database and the resolver's table all hold the     *)
(* same configuration (docs/architecture.md:46-52).                         *)
THEOREM PlanesAlwaysAgree == Spec => []PlanesAgree
<1>1. OwnerInv /\ SettleInv /\ RefInv /\ PlaneInv => PlanesAgree
  <2> SUFFICES ASSUME OwnerInv, SettleInv, RefInv, PlaneInv, trusted, ~variation
               PROVE  /\ \A u \in Orch!Units : disk[u] = Assembled /\ running[u] = Assembled
                      /\ table = RulesOf(activeRv)
    BY DEF PlanesAgree
  <2>1. /\ hook = "none" /\ switchInflight = {} /\ settle.step = "none"
        /\ \A c \in Clients : req[c].pc \in {"idle", "rules"}
    BY Quiet, SettleAlone DEF NothingRegistered, Owns
  <2>2. InForce(Base) /\ Base = Assembled
    BY <2>1, RestForce, BaseIsAssembled
  <2>3. table = RulesOf(activeRv)
    BY <2>1 DEF RefInv, TableFollowsActive
  <2> QED BY <2>2, <2>3 DEF InForce, Units
<1> QED BY <1>1, Ownership, References, Planes, PTL

----------------------------------------------------------------------------
(* The account of the apply_status rows. *)

RowsInv == RowInv /\ Account

Underway == {"dispatch", "applying", "return"}

(* The change of row k is under way. *)
Answered(k) == Open(k) \/ (settle.step # "none" /\ settle.row = k)

(* What else explains that row k still says submitted. *)
Accounted(k) ==
    \/ \E i \in 1..Len(terminal) : terminal[i].snap = rows[k].snap
    \/ \E j \in (k+1)..Len(rows) : rows[j].snap = rows[k].snap

LEMMA Explaining == \A k : Explained(k) <=> Answered(k) \/ Accounted(k)
BY DEF Explained, Answered, Accounted

LEMMA ExplainingNext == \A k : Explained(k)' <=> Answered(k)' \/ Accounted(k)'
BY DEF Explained, Answered, Accounted

(* Only the change of the last row is under way. *)
LEMMA OnlyLastAnswered ==
    ASSUME RowInv, NEW k, Answered(k)
    PROVE  k = Len(rows)
BY DEF RowInv, Answered, Open

LEMMA StrandedFinite ==
    ASSUME OwnerInv
    PROVE  IsFiniteSet(Stranded) /\ Cardinality(Stranded) \in Nat
<1>1. rows \in Seq(StatusRow) /\ Len(rows) \in Nat
  BY DEF OwnerInv, TypeOK, StatusRow
<1>2. IsFiniteSet(1..Len(rows))
  BY <1>1, FS_Interval
<1>3. IsFiniteSet(Stranded)
  BY <1>2, FS_Subset DEF Stranded
<1> QED BY <1>3, FS_CardinalityType

LEMMA Counters ==
    ASSUME OwnerInv
    PROVE  /\ terminal \in Seq(TerminalEntry) /\ rows \in Seq(StatusRow)
           /\ Len(terminal) \in Nat /\ Len(rows) \in Nat /\ faults \in Nat
           /\ crashes \in Nat /\ TerminalCap \in Nat \ {0}
<1>1. /\ terminal \in Seq(TerminalEntry) /\ rows \in Seq(StatusRow)
      /\ faults \in 0..MaxFaults /\ crashes \in 0..MaxCrashes
  BY DEF OwnerInv, TypeOK, TerminalEntry, StatusRow
<1>2. Len(terminal) \in Nat /\ Len(rows) \in Nat
  BY <1>1
<1> QED BY <1>1, <1>2, ApplierAssumption

LEMMA CountersNext ==
    OwnerInv' => (/\ Len(terminal) \in Nat /\ Len(rows) \in Nat /\ faults \in Nat
                  /\ IsFiniteSet(Stranded) /\ Cardinality(Stranded) \in Nat)'
<1>1. OwnerInv => /\ Len(terminal) \in Nat /\ Len(rows) \in Nat /\ faults \in Nat
                  /\ IsFiniteSet(Stranded) /\ Cardinality(Stranded) \in Nat
  BY Counters, StrandedFinite
<1> QED BY <1>1, PTL

(* No row is stranded by a step that leaves the fallback as it is, or adds  *)
(* to it at the price of a failure.                                         *)
LEMMA AccountKept ==
    ASSUME OwnerInv, OwnerInv', RowsInv, crashes' = crashes, Stranded' \subseteq Stranded,
           Len(terminal') <= TerminalCap, faults <= faults',
           Len(terminal') + faults <= Len(terminal) + faults'
    PROVE  Account'
<1> SUFFICES ASSUME crashes = 0
             PROVE  /\ Stranded' = {} => Len(terminal') <= faults'
                    /\ Stranded' # {} => Cardinality(Stranded') + TerminalCap <= faults'
  BY DEF Account
<1>1. /\ Stranded = {} => Len(terminal) <= faults
      /\ Stranded # {} => Cardinality(Stranded) + TerminalCap <= faults
  BY DEF RowsInv, Account
<1>2. /\ Len(terminal) \in Nat /\ Len(terminal') \in Nat /\ faults \in Nat /\ faults' \in Nat
      /\ TerminalCap \in Nat /\ Cardinality(Stranded) \in Nat /\ Cardinality(Stranded') \in Nat
  BY Counters, CountersNext, StrandedFinite
<1>3. Cardinality(Stranded') <= Cardinality(Stranded)
  BY StrandedFinite, FS_Subset
<1>4. CASE Stranded = {}
  <2>1. Stranded' = {}
    BY <1>4
  <2> QED BY <1>1, <1>2, <1>4, <2>1
<1>5. CASE Stranded # {}
  BY <1>1, <1>2, <1>3, <1>5
<1> QED BY <1>4, <1>5

(* A failure that finds the fallback full strands one row at most. *)
LEMMA AccountGrows ==
    ASSUME OwnerInv, OwnerInv', RowsInv, crashes' = crashes, NEW k,
           Stranded' \subseteq Stranded \cup {k},
           Len(terminal) = TerminalCap, Len(terminal') <= TerminalCap,
           faults + 1 <= faults'
    PROVE  Account'
<1> SUFFICES ASSUME crashes = 0
             PROVE  /\ Stranded' = {} => Len(terminal') <= faults'
                    /\ Stranded' # {} => Cardinality(Stranded') + TerminalCap <= faults'
  BY DEF Account
<1>1. /\ Stranded = {} => Len(terminal) <= faults
      /\ Stranded # {} => Cardinality(Stranded) + TerminalCap <= faults
  BY DEF RowsInv, Account
<1>2. /\ Len(terminal') \in Nat /\ faults \in Nat /\ faults' \in Nat
      /\ TerminalCap \in Nat /\ Cardinality(Stranded) \in Nat /\ Cardinality(Stranded') \in Nat
  BY Counters, CountersNext, StrandedFinite
<1>3. /\ IsFiniteSet(Stranded \cup {k})
      /\ Cardinality(Stranded \cup {k}) <= Cardinality(Stranded) + 1
  <2>1. /\ IsFiniteSet(Stranded \cup {k})
        /\ Cardinality(Stranded \cup {k}) =
              IF k \in Stranded THEN Cardinality(Stranded) ELSE Cardinality(Stranded) + 1
    BY StrandedFinite, FS_AddElement
  <2> QED BY <1>2, <2>1
<1>4. Cardinality(Stranded') <= Cardinality(Stranded) + 1
  <2>1. Cardinality(Stranded \cup {k}) \in Nat
    BY <1>3, FS_CardinalityType
  <2>2. Cardinality(Stranded') <= Cardinality(Stranded \cup {k})
    BY <1>3, FS_Subset
  <2> QED BY <1>2, <1>3, <2>1, <2>2
<1>5. CASE Stranded = {}
  <2>1. Cardinality(Stranded) = 0
    BY <1>5, FS_EmptySet
  <2> QED BY <1>1, <1>2, <1>4, <1>5, <2>1
<1>6. CASE Stranded # {}
  BY <1>1, <1>2, <1>4, <1>6
<1> QED BY <1>5, <1>6

(* Steps that neither store a row nor settle one. *)
LEMMA RowFrame ==
    ASSUME OwnerInv, OwnerInv', RowsInv, UNCHANGED <<rows, terminal>>, faults <= faults',
           crashes' = crashes,
           \A i \in inflight' \cup switchInflight' :
              \E j \in inflight \cup switchInflight : j.row = i.row /\ j.snap = i.snap,
           settle'.step # "none" =>
              settle'.row = Len(rows) /\ rows[settle'.row].snap = settle'.snap,
           \A k : Answered(k) => Answered(k)',
           \A c \in Clients : req'[c].pc \in Underway =>
              req[c].pc \in Underway /\ req'[c].row = req[c].row
    PROVE  RowsInv'
<1>1. RowInv'
  <2>1. \A i \in inflight' \cup switchInflight' :
           i.row = Len(rows') /\ rows'[i.row].snap = i.snap
    BY DEF RowsInv, RowInv
  <2>2. \A c \in Clients : req'[c].pc \in Underway => req'[c].row = Len(rows')
    BY DEF RowsInv, RowInv, Underway
  <2>3. Len(terminal') <= TerminalCap
    BY DEF RowsInv, RowInv
  <2> QED BY <2>1, <2>2, <2>3 DEF RowInv, Underway
<1>2. \A k : Explained(k) => Explained(k)'
  <2>1. \A k : Accounted(k) => Accounted(k)'
    BY DEF Accounted
  <2> QED BY <2>1, Explaining, ExplainingNext
<1>3. Stranded' \subseteq Stranded
  BY <1>2 DEF Stranded
<1>4. Account'
  <2>1. Len(terminal') <= TerminalCap
    BY <1>1 DEF RowInv
  <2>2. Len(terminal') + faults <= Len(terminal) + faults'
    BY Counters, CountersNext
  <2> QED BY <1>3, <2>1, <2>2, AccountKept
<1> QED BY <1>1, <1>4 DEF RowsInv

(* The entries and what is being settled stay, but for what no row tells. *)
LEMMA SameAnswers ==
    ASSUME UNCHANGED <<rows, settle>>, RowsInv,
           \A j \in inflight \cup switchInflight :
              \E i \in inflight' \cup switchInflight' : i.row = j.row
    PROVE  /\ \A k : Answered(k) => Answered(k)'
           /\ settle'.step # "none" =>
                 settle'.row = Len(rows) /\ rows[settle'.row].snap = settle'.snap
BY DEF Answered, Open, RowsInv, RowInv

(* InsertApplyStatus and clearTerminalStatus: the new row supersedes the    *)
(* rows of its snapshot whose outcome was served from memory.               *)
LEMMA InsertRows ==
    ASSUME OwnerInv, OwnerInv', RowsInv, NothingRegistered, NEW s \in Snapshots,
           rows' = Append(rows, [snap |-> s, state |-> "submitted"]),
           terminal' = ClearTerminal(s), UNCHANGED <<faults, crashes, settle>>,
           settle.step = "none",
           NEW i, inflight' \cup switchInflight' = {i}, i.snap = s, i.row = Len(rows) + 1,
           \A c \in Clients : req'[c].pc \in Underway => req'[c].row = Len(rows) + 1
    PROVE  RowsInv'
<1>1. /\ Len(rows') = Len(rows) + 1 /\ Len(rows) \in Nat
      /\ \A k \in 1..Len(rows) : rows'[k] = rows[k]
      /\ rows'[Len(rows) + 1] = [snap |-> s, state |-> "submitted"]
  BY InsertEffect DEF OwnerInv
<1>2. terminal \in Seq(TerminalEntry) /\ Len(terminal) \in Nat /\ faults \in Nat
      /\ TerminalCap \in Nat
  BY Counters
<1>3. /\ Len(terminal') <= Len(terminal) /\ Len(terminal') \in Nat
      /\ \A j \in 1..Len(terminal) : terminal[j].snap # s =>
            \E m \in 1..Len(terminal') : terminal'[m] = terminal[j]
  BY <1>2, ClearEffect, CountersNext
<1>4. RowInv'
  <2>1. Len(terminal') <= TerminalCap
    BY <1>2, <1>3 DEF RowsInv, RowInv
  <2>2. \A j \in inflight' \cup switchInflight' : j.row = Len(rows') /\ rows'[j.row].snap = j.snap
    BY <1>1
  <2> QED BY <1>1, <2>1, <2>2 DEF RowInv, Underway
<1>5. ASSUME NEW k \in Stranded'
      PROVE  k \in Stranded
  <2>1. k \in 1..Len(rows') /\ rows'[k].state = "submitted" /\ ~Answered(k)' /\ ~Accounted(k)'
    BY <1>5, ExplainingNext DEF Stranded
  <2>2. k \in 1..Len(rows) /\ rows'[k] = rows[k]
    <3>1. k # Len(rows) + 1
      BY <2>1 DEF Answered, Open
    <3> QED BY <1>1, <2>1, <3>1
  <2>3. rows[k].snap # s
    BY <1>1, <2>1, <2>2 DEF Accounted
  <2>4. ~Answered(k)
    BY DEF Answered, Open, NothingRegistered
  <2>5. ASSUME NEW j \in 1..Len(terminal), terminal[j].snap = rows[k].snap
        PROVE  FALSE
    BY <1>3, <2>1, <2>2, <2>3, <2>5 DEF Accounted
  <2>6. ASSUME NEW j \in (k+1)..Len(rows), rows[j].snap = rows[k].snap
        PROVE  FALSE
    BY <1>1, <2>1, <2>2, <2>6 DEF Accounted
  <2>7. ~Accounted(k)
    BY <2>5, <2>6 DEF Accounted
  <2> QED BY <2>1, <2>2, <2>4, <2>7, Explaining DEF Stranded
<1>6. Account'
  <2>1. Stranded' \subseteq Stranded
    BY <1>5
  <2>2. Len(terminal') <= TerminalCap
    BY <1>4 DEF RowInv
  <2>3. Len(terminal') + faults <= Len(terminal) + faults' /\ faults <= faults'
    BY <1>2, <1>3
  <2> QED BY <2>1, <2>2, <2>3, AccountKept
<1> QED BY <1>4, <1>6 DEF RowsInv

(* persistApplyStatus settles the last row, or remembers its outcome and    *)
(* may have to forget the oldest.                                           *)
LEMMA PersistRows ==
    ASSUME OwnerInv, OwnerInv', RowsInv, Len(rows) # 0, NEW s \in Snapshots,
           rows[Len(rows)].snap = s, NEW state \in Terminal, NEW ok \in BOOLEAN,
           PersistApplyStatus(Len(rows), s, state, ok),
           Faults(Count(~ok)), crashes' = crashes,
           inflight' = {}, switchInflight' = {}, settle'.step = "none",
           \A c \in Clients : req'[c].pc \notin Underway
    PROVE  RowsInv'
<1>1. /\ terminal \in Seq(TerminalEntry) /\ Len(terminal) \in Nat /\ Len(rows) \in Nat
      /\ faults \in Nat /\ TerminalCap \in Nat \ {0} /\ Len(terminal) <= TerminalCap
      /\ Len(terminal') \in Nat /\ faults' \in Nat
  BY Counters, CountersNext DEF RowsInv, RowInv
<1>2. Len(rows) \in 1..Len(rows)
  BY <1>1
<1>3. /\ Len(rows') = Len(rows) /\ \A k \in 1..Len(rows) : rows'[k].snap = rows[k].snap
      /\ \A k \in 1..Len(rows) : k # Len(rows) \/ ~ok => rows'[k] = rows[k]
      /\ ok => rows'[Len(rows)].state = state
  BY <1>2, PersistEffect DEF OwnerInv
<1>4. faults' = faults + Count(~ok) /\ Count(~ok) = IF ok THEN 0 ELSE 1
  BY <1>1 DEF Faults, Count
<1>5. ASSUME NEW k \in Stranded'
      PROVE  /\ k \in 1..Len(rows) /\ rows'[k].state = "submitted" /\ ~Accounted(k)'
             /\ \A j \in (k+1)..Len(rows) : rows[j].snap # rows[k].snap
  <2>1. k \in 1..Len(rows) /\ rows'[k].state = "submitted" /\ ~Accounted(k)'
    BY <1>3, <1>5, ExplainingNext DEF Stranded
  <2> QED BY <1>1, <1>3, <2>1 DEF Accounted
<1>6. ASSUME NEW k \in Stranded', k # Len(rows),
             \A j \in 1..Len(terminal) : terminal[j].snap # rows[k].snap
      PROVE  k \in Stranded
  <2>1. rows'[k] = rows[k] /\ k \in 1..Len(rows)
    BY <1>3, <1>5, <1>6
  <2>2. ~Answered(k)
    BY <1>6, OnlyLastAnswered DEF RowsInv
  <2>3. ~Accounted(k)
    BY <1>5, <1>6 DEF Accounted
  <2>4. rows[k].state = "submitted"
    BY <1>5, <1>6, <2>1
  <2> QED BY <2>1, <2>2, <2>3, <2>4, Explaining DEF Stranded
<1>7. CASE ok
  <2>1. terminal' = ClearTerminal(s)
    BY <1>7 DEF PersistApplyStatus
  <2>2. /\ Len(terminal') <= Len(terminal)
        /\ \A j \in 1..Len(terminal) : terminal[j].snap # s =>
              \E m \in 1..Len(terminal') : terminal'[m] = terminal[j]
    BY <1>1, <2>1, ClearEffect
  <2>3. RowInv'
    BY <1>1, <2>2 DEF RowInv, Underway
  <2>4. ASSUME NEW k \in Stranded'
        PROVE  k \in Stranded
    <3>1. k # Len(rows)
      BY <1>3, <1>5, <1>7, <2>4 DEF Terminal
    <3>2. rows[k].snap # s
      <4>1. Len(rows) \in (k+1)..Len(rows)
        BY <1>1, <1>5, <2>4, <3>1
      <4> QED BY <1>5, <2>4, <4>1
    <3>3. ASSUME NEW j \in 1..Len(terminal), terminal[j].snap = rows[k].snap
          PROVE  FALSE
      <4>1. PICK m \in 1..Len(terminal') : terminal'[m] = terminal[j]
        BY <2>2, <3>2, <3>3
      <4>2. terminal'[m].snap = rows'[k].snap
        BY <1>3, <1>5, <2>4, <3>3, <4>1
      <4> QED BY <1>5, <2>4, <4>2 DEF Accounted
    <3> QED BY <1>6, <2>4, <3>1, <3>3
  <2>5. Account'
    <3>1. Stranded' \subseteq Stranded
      BY <2>4
    <3>2. Len(terminal') + faults <= Len(terminal) + faults' /\ faults <= faults'
      BY <1>1, <1>4, <1>7, <2>2
    <3>3. Len(terminal') <= TerminalCap
      BY <1>1, <2>2
    <3> QED BY <3>1, <3>2, <3>3, AccountKept
  <2> QED BY <2>3, <2>5 DEF RowsInv
<1>8. CASE ~ok
  <2>1. terminal' = RecordTerminal(s, state)
    BY <1>8 DEF PersistApplyStatus
  <2>2. /\ Len(terminal') <= Len(terminal) + 1 /\ Len(terminal') <= TerminalCap
        /\ \E j \in 1..Len(terminal') : terminal'[j].snap = s
        /\ \A i \in 1..Len(terminal) :
              \/ \E j \in 1..Len(terminal') : terminal'[j].snap = terminal[i].snap
              \/ i = 1 /\ Len(terminal) = TerminalCap
    BY <1>1, <2>1, RecordEffect
  <2>3. faults' = faults + 1
    BY <1>1, <1>4, <1>8
  <2>4. RowInv'
    BY <1>1, <2>2 DEF RowInv, Underway
  <2>5. ASSUME NEW k \in Stranded', k \notin Stranded
        PROVE  Len(terminal) = TerminalCap /\ rows[k].snap = terminal[1].snap
    <3>1. rows'[k].snap = rows[k].snap /\ k \in 1..Len(rows)
      BY <1>3, <1>5, <2>5
    <3>2. k # Len(rows)
      BY <1>3, <1>5, <2>2, <2>5, <3>1 DEF Accounted
    <3>3. PICK j \in 1..Len(terminal) : terminal[j].snap = rows[k].snap
      BY <1>6, <2>5, <3>2
    <3>4. ~(\E m \in 1..Len(terminal') : terminal'[m].snap = terminal[j].snap)
      BY <1>5, <2>5, <3>1, <3>3 DEF Accounted
    <3> QED BY <2>2, <3>3, <3>4
  <2>6. CASE Stranded' \subseteq Stranded
    <3>1. Len(terminal') + faults <= Len(terminal) + faults' /\ faults <= faults'
      BY <1>1, <2>2, <2>3
    <3>2. Account'
      BY <2>2, <2>6, <3>1, AccountKept
    <3> QED BY <2>4, <3>2 DEF RowsInv
  <2>7. CASE ~(Stranded' \subseteq Stranded)
    <3>1. PICK k \in Stranded' : k \notin Stranded
      BY <2>7
    <3>2. ASSUME NEW m \in Stranded', m \notin Stranded
          PROVE  m = k
      <4>1. rows[m].snap = rows[k].snap
        BY <2>5, <3>1, <3>2
      <4>2. m \in 1..Len(rows) /\ k \in 1..Len(rows)
        BY <1>5, <3>1, <3>2
      <4>3. ~(m < k)
        BY <1>1, <1>5, <3>2, <4>1, <4>2
      <4>4. ~(k < m)
        BY <1>1, <1>5, <3>1, <4>1, <4>2
      <4> QED BY <1>1, <4>2, <4>3, <4>4
    <3>3. Stranded' \subseteq Stranded \cup {k}
      BY <3>2
    <3>4. Len(terminal) = TerminalCap
      BY <2>5, <3>1
    <3>5. faults + 1 <= faults'
      BY <1>1, <2>3
    <3>6. Account'
      BY <2>2, <3>3, <3>4, <3>5, AccountGrows
    <3> QED BY <2>4, <3>6 DEF RowsInv
  <2> QED BY <2>6, <2>7
<1> QED BY <1>7, <1>8

(* The calls and the lifecycle up to its outcome. *)
LEMMA CallRows ==
    ASSUME OwnerInv, OwnerInv', SettleInv, RowsInv,
           UNCHANGED <<rows, terminal, inflight, switchInflight, settle>>,
           faults <= faults', crashes' = crashes, NEW c \in Clients,
           \A d \in Clients : d # c => req'[d] = req[d],
           req'[c].pc \in Underway => req[c].pc \in Underway /\ req'[c].row = req[c].row
    PROVE  RowsInv'
<1>1. \A d \in Clients : req'[d].pc \in Underway =>
         req[d].pc \in Underway /\ req'[d].row = req[d].row
  OBVIOUS
<1>2. /\ \A k : Answered(k) => Answered(k)'
      /\ settle'.step # "none" =>
            settle'.row = Len(rows) /\ rows[settle'.row].snap = settle'.snap
  BY SameAnswers
<1> QED BY <1>1, <1>2, RowFrame

LEMMA FaultsGrow ==
    ASSUME OwnerInv, NEW n \in Nat, Faults(n)
    PROVE  faults <= faults'
BY ApplierAssumption DEF OwnerInv, TypeOK, Faults

LEMMA NewCallRows ==
    ASSUME OwnerInv, OwnerInv', SettleInv, RowsInv, NEW c \in Clients, NewCall(c)
    PROVE  RowsInv'
<1>1. UNCHANGED <<rows, terminal, inflight, switchInflight, settle, faults, crashes>>
  BY DEF NewCall, HandleApply, ImportRules, HandleRollbackSnapshot, CmdRulesRollback,
     SwitchExit, memVars, dbVars, history
<1>2. DOMAIN req = Clients /\ faults \in Nat
  BY ApplierAssumption DEF OwnerInv, TypeOK
<1>3. PICK r : req' = [req EXCEPT ![c] = r] /\ r.pc \in {"rules", "protect"}
  <2>1. ASSUME NEW rv, NEW seen, Prepared(c, rv, seen)
        PROVE  \E r : req' = [req EXCEPT ![c] = r] /\ r.pc \in {"rules", "protect"}
    <3> DEFINE r == [IdleReq EXCEPT !.pc = "rules", !.snap = RulesSnap(versions'[rv]),
                                    !.rv = rv, !.prev = seen]
    <3>1. req' = [req EXCEPT ![c] = r] /\ r.pc = "rules"
      BY <2>1 DEF Prepared, IdleReq
    <3> QED BY <3>1
  <2>2. ASSUME NEW e, SwitchExit(c, e)
        PROVE  \E r : req' = [req EXCEPT ![c] = r] /\ r.pc \in {"rules", "protect"}
    <3> DEFINE r == [IdleReq EXCEPT !.pc = "protect", !.exit = e, !.prior = activeExit]
    <3>1. req' = [req EXCEPT ![c] = r] /\ r.pc = "protect"
      BY <2>2 DEF SwitchExit, IdleReq
    <3> QED BY <3>1
  <2> QED
    BY <2>1, <2>2 DEF NewCall, HandleApply, ImportRules, HandleRollbackSnapshot,
       CmdRulesRollback
<1>4. req'[c].pc \notin Underway /\ \A d \in Clients : d # c => req'[d] = req[d]
  BY <1>2, <1>3 DEF Underway
<1> QED BY <1>1, <1>2, <1>4, CallRows

(* Every step of a call that stores nothing. *)
LEMMA QuietCallRows ==
    ASSUME OwnerInv, OwnerInv', SettleInv, RowsInv, NEW c \in Clients,
           \/ RulesRefused(c) \/ RulesFault(c) \/ ProtectSwitchExits(c) \/ FlipExit(c)
           \/ FlipFails(c) \/ RecordSwitchFails(c) \/ Dispatch(c)
           \/ DispatchSnapshotFails(c) \/ DispatchRejected(c) \/ SwitchReleases(c)
    PROVE  RowsInv'
<1>1. UNCHANGED <<rows, terminal, inflight, switchInflight, settle, crashes>>
  BY DEF RulesRefused, RulesFault, ProtectSwitchExits, FlipExit, FlipFails,
     RecordSwitchFails, Dispatch, DispatchSnapshotFails, DispatchRejected, SwitchReleases,
     memVars, dbVars, history
<1>2. DOMAIN req = Clients /\ req[c] \in Requests /\ faults \in Nat
  BY ApplierAssumption DEF OwnerInv, TypeOK
<1>3. faults <= faults'
  <2>1. faults' = faults \/ \E n \in Nat : Faults(n)
    BY DEF RulesRefused, RulesFault, ProtectSwitchExits, FlipExit, FlipFails,
       RecordSwitchFails, Dispatch, DispatchSnapshotFails, DispatchRejected,
       SwitchReleases, history, Count
  <2> QED BY <1>2, <2>1, FaultsGrow
<1>4. \A d \in Clients : d # c => req'[d] = req[d]
  BY <1>2 DEF RulesRefused, RulesFault, ProtectSwitchExits, FlipExit, FlipFails,
     RecordSwitchFails, Dispatch, DispatchSnapshotFails, DispatchRejected,
     SwitchReleases, SwitchReturns
<1>5. req'[c].pc \in Underway => req[c].pc \in Underway /\ req'[c].row = req[c].row
  <2>1. CASE req' = [req EXCEPT ![c] = IdleReq]
    BY <1>2, <2>1 DEF IdleReq, Underway
  <2>2. CASE ProtectSwitchExits(c) \/ FlipExit(c)
    BY <1>2, <2>2 DEF ProtectSwitchExits, FlipExit, Requests, Underway
  <2>3. CASE Dispatch(c) \/ DispatchSnapshotFails(c) \/ DispatchRejected(c)
    BY <1>2, <2>3 DEF Dispatch, DispatchSnapshotFails, DispatchRejected, Requests, Underway
  <2> QED BY <2>1, <2>2, <2>3 DEF RulesRefused, RulesFault, FlipFails, RecordSwitchFails,
     SwitchReleases, SwitchReturns
<1> QED BY <1>1, <1>3, <1>4, <1>5, CallRows

LEMMA ApplyRulesRows ==
    ASSUME OwnerInv, OwnerInv', SettleInv, RowsInv, NEW c \in Clients, ApplyRules(c)
    PROVE  RowsInv'
<1> DEFINE i == [snap |-> req[c].snap, row |-> Len(rows) + 1, rv |-> req[c].rv,
                 priorRv |-> activeRv, committed |-> FALSE]
<1>1. /\ ~variation /\ UNCHANGED <<faults, crashes, switchInflight, settle>>
      /\ rows' = Append(rows, [snap |-> req[c].snap, state |-> "submitted"])
      /\ terminal' = ClearTerminal(req[c].snap)
      /\ inflight' = RegisterInflight(i)
  BY DEF ApplyRules, history
<1>2. NothingRegistered /\ (\A d \in Clients : ~Owns(d)) /\ settle.step = "none"
  BY <1>1, Quiet, SettleAlone
<1>3. inflight' \cup switchInflight' = {i}
  BY <1>1, <1>2 DEF RegisterInflight, NothingRegistered
<1>4. i.snap = req[c].snap /\ i.row = Len(rows) + 1 /\ req[c].snap \in Snapshots
  BY DEF OwnerInv, TypeOK, Requests
<1> HIDE DEF i
<1>5. req'[c].row = Len(rows) + 1 /\ \A d \in Clients : d # c => req'[d] = req[d]
  BY DEF ApplyRules, OwnerInv, TypeOK, Requests
<1>6. \A d \in Clients : req'[d].pc \in Underway => req'[d].row = Len(rows) + 1
  BY <1>2, <1>5 DEF Owns, Underway
<1> QED BY <1>1, <1>2, <1>3, <1>4, <1>6, InsertRows

LEMMA RecordSwitchRows ==
    ASSUME OwnerInv, OwnerInv', SettleInv, RowsInv, NEW c \in Clients, RecordSwitch(c)
    PROVE  RowsInv'
<1> DEFINE s == SwitchSnap(Len(rows) + 1)
           i == [snap |-> s, row |-> Len(rows) + 1, new |-> req[c].exit,
                 prior |-> req[c].prior]
<1>1. /\ req[c].pc = "record" /\ UNCHANGED <<faults, crashes, inflight, settle>>
      /\ rows' = Append(rows, [snap |-> s, state |-> "submitted"])
      /\ terminal' = ClearTerminal(s)
      /\ switchInflight' = RegisterSwitchInflight(i)
  BY DEF RecordSwitch, history
<1>2. Owns(c) /\ req[c].pc # "applying"
  BY <1>1 DEF Owns
<1>3. /\ NothingRegistered /\ settle.step = "none"
      /\ \A d \in Clients : d # c => ~Owns(d)
  BY <1>1, <1>2, Resting, SettleAlone DEF OwnerInv, OwnersOnly
<1>4. inflight' \cup switchInflight' = {i}
  BY <1>1, <1>3 DEF RegisterSwitchInflight, NothingRegistered
<1>5. i.snap = s /\ i.row = Len(rows) + 1 /\ s \in Snapshots
  BY Shapes DEF OwnerInv
<1> HIDE DEF i, s
<1>6. req'[c].row = Len(rows) + 1 /\ \A d \in Clients : d # c => req'[d] = req[d]
  BY DEF RecordSwitch, OwnerInv, TypeOK, Requests
<1>7. \A d \in Clients : req'[d].pc \in Underway => req'[d].row = Len(rows) + 1
  BY <1>3, <1>6 DEF Owns, Underway
<1> QED BY <1>1, <1>3, <1>4, <1>5, <1>7, InsertRows

(* A returning caller holds the last row. *)
LEMMA LastRow ==
    ASSUME OwnerInv, RowInv, NEW i \in inflight \cup switchInflight
    PROVE  i.row = Len(rows) /\ Len(rows) # 0 /\ rows[Len(rows)].snap = i.snap
           /\ i.snap \in Snapshots
BY DEF OwnerInv, TypeOK, RuleApplyInfo, SwitchInfo, RowInv

LEMMA ReturnRows ==
    ASSUME OwnerInv, OwnerInv', SettleInv, RowsInv, NEW c \in Clients,
           RulesReturn(c) \/ SwitchConfirmed(c)
    PROVE  RowsInv'
<1>1. /\ req[c].pc = "return" /\ req' = [req EXCEPT ![c] = IdleReq]
      /\ UNCHANGED <<crashes, settle>>
  BY DEF RulesReturn, SwitchConfirmed, SwitchReturns
<1>2. PICK ok \in BOOLEAN, state \in {TerminalState(req[c].res), "confirmed"} :
         /\ PersistApplyStatus(req[c].row, req[c].snap, state, ok)
         /\ Faults(Count(~ok))
  BY DEF RulesReturn, SwitchConfirmed
<1>3. Registered(req[c].snap, req[c].prior, req[c].exit) /\ settle.step = "none"
  BY <1>1, SettleAlone DEF OwnerInv, OwnersOnly
<1>4. /\ inflight' = {} /\ switchInflight' = {}
      /\ \E i \in inflight \cup switchInflight : i.snap = req[c].snap
  <2>1. CASE RulesReturn(c)
    BY <1>3, <2>1, RegisteredRules DEF RulesReturn
  <2>2. CASE SwitchConfirmed(c)
    BY <1>3, <2>2, RegisteredSwitch DEF SwitchConfirmed
  <2> QED BY <2>1, <2>2
<1>5. /\ req[c].row = Len(rows) /\ Len(rows) # 0 /\ rows[Len(rows)].snap = req[c].snap
      /\ req[c].snap \in Snapshots
  <2>1. req[c].row = Len(rows)
    BY <1>1 DEF RowsInv, RowInv
  <2> QED BY <1>4, <2>1, LastRow DEF RowsInv
<1>6. state \in Terminal
  <2>1. TerminalState(req[c].res) \in Terminal
    BY <1>1, StateTyped DEF OwnerInv, TypeOK, Requests, CallInv, CallOK
  <2> QED BY <1>2, <2>1 DEF Terminal
<1>7. \A d \in Clients : req'[d].pc \notin Underway
  <2>1. Owns(c) /\ req[c].pc # "applying"
    BY <1>1 DEF Owns
  <2>2. \A d \in Clients : d # c => req[d].pc \in {"idle", "rules"}
    BY <2>1, Resting DEF Owns
  <2> QED BY <1>1, <2>2 DEF OwnerInv, TypeOK, IdleReq, Underway
<1> QED BY <1>1, <1>2, <1>3, <1>4, <1>5, <1>6, <1>7, PersistRows

(* The goroutine that takes the entry of a switch answers for its row. *)
LEMMA TakeRows ==
    ASSUME OwnerInv, OwnerInv', SettleInv, RowsInv, UNCHANGED <<rows, terminal, faults, crashes>>,
           inflight' \cup switchInflight' = {}, NEW i \in switchInflight,
           settle'.step # "none", settle'.row = i.row, settle'.snap = i.snap,
           \A c \in Clients : req'[c].pc \notin Underway
    PROVE  RowsInv'
<1>1. i.row = Len(rows) /\ rows[Len(rows)].snap = i.snap
  BY LastRow DEF RowsInv
<1>2. \A k : Answered(k) => Answered(k)'
  BY <1>1, OnlyLastAnswered DEF RowsInv, Answered
<1>3. faults <= faults'
  BY Counters
<1> QED BY <1>1, <1>2, <1>3, RowFrame

LEMMA SwitchReturnRows ==
    ASSUME OwnerInv, OwnerInv', SettleInv, RowsInv, NEW c \in Clients, SwitchReturn(c)
    PROVE  RowsInv'
<1>1. /\ req[c].pc = "return" /\ IsSwitch(req[c].snap)
      /\ switchInflight' = ClearSwitchInflight(req[c].snap)
      /\ req' = [req EXCEPT ![c].pc = "release"]
      /\ settle'.step = "compensate" /\ settle'.row = req[c].row /\ settle'.snap = req[c].snap
      /\ UNCHANGED <<rows, terminal, faults, crashes, inflight>>
  BY DEF SwitchReturn, dbVars
<1>2. Registered(req[c].snap, req[c].prior, req[c].exit)
  BY <1>1 DEF OwnerInv, OwnersOnly
<1>3. inflight' \cup switchInflight' = {}
  BY <1>1, <1>2, RegisteredSwitch
<1>4. PICK i \in switchInflight : i.snap = req[c].snap
  BY <1>1, <1>2, RegisteredSwitch
<1>5. i.row = req[c].row
  BY <1>1, LastRow DEF RowsInv, RowInv
<1>6. \A d \in Clients : req'[d].pc \notin Underway
  <2>1. Owns(c) /\ req[c].pc # "applying"
    BY <1>1 DEF Owns
  <2>2. \A d \in Clients : d # c => req[d].pc \in {"idle", "rules"}
    BY <2>1, Resting DEF Owns
  <2> QED BY <1>1, <2>2 DEF OwnerInv, TypeOK, Requests, Underway
<1> QED BY <1>1, <1>3, <1>4, <1>5, <1>6, TakeRows

LEMMA SettleRows ==
    ASSUME OwnerInv, OwnerInv', SettleInv, RowsInv, SettleStep
    PROVE  RowsInv'
<1>1. /\ settle.step # "none" /\ UNCHANGED <<inflight, switchInflight, req, crashes>>
  BY DEF SettleStep, SettleCompensates, SettlePersists, memVars
<1>2. /\ inflight = {} /\ switchInflight = {}
      /\ \A c \in Clients : req[c].pc \notin Underway
  BY <1>1, SettleAlone DEF Underway
<1>3. /\ settle.row = Len(rows) /\ rows[settle.row].snap = settle.snap /\ Len(rows) # 0
      /\ settle \in Settling
  BY <1>1 DEF RowsInv, RowInv, SettleInv, OwnerInv, TypeOK
<1>4. CASE SettleCompensates
  <2>1. /\ settle'.step = "persist" /\ settle'.row = settle.row /\ settle'.snap = settle.snap
        /\ UNCHANGED <<rows, terminal>> /\ \E n \in Nat : Faults(n)
    BY <1>3, <1>4 DEF SettleCompensates, Settling, memVars, Count
  <2>2. \A k : Answered(k) => Answered(k)'
    BY <1>1, <1>2, <2>1 DEF Answered, Open
  <2>3. faults <= faults'
    BY <2>1, FaultsGrow
  <2> QED BY <1>1, <1>2, <1>3, <2>1, <2>2, <2>3, RowFrame
<1>5. CASE SettlePersists
  <2>1. PICK ok \in BOOLEAN :
           /\ PersistApplyStatus(settle.row, settle.snap, settle.state, ok)
           /\ Faults(Count(~ok))
    BY <1>5 DEF SettlePersists
  <2>2. settle'.step = "none"
    BY <1>5 DEF SettlePersists, NoSettle
  <2>3. settle.snap \in Snapshots /\ settle.state \in Terminal
    BY <1>3 DEF Settling
  <2> QED BY <1>1, <1>2, <1>3, <2>1, <2>2, <2>3, PersistRows
<1> QED BY <1>4, <1>5 DEF SettleStep

(* The observer stores the outcome of a rules apply. *)
LEMMA OnHealthRulesRows ==
    ASSUME OwnerInv, OwnerInv', SettleInv, RowsInv, OnHealthRules
    PROVE  RowsInv'
<1>1. stage = "notify" /\ hook = "none" /\ UNCHANGED <<crashes, req, settle>>
  BY DEF OnHealthRules
<1>2. PICK i \in inflight : \E ok \in BOOLEAN :
         /\ i.snap = job.snap
         /\ PersistApplyStatus(i.row, i.snap, TerminalState(outcome), ok)
         /\ Faults(Count(~ok))
  BY DEF OnHealthRules
<1>3. Registered(job.snap, job.prior, job.new) /\ settle.step = "none"
  BY <1>1, <1>2, Observing, SettleAlone
<1>4. ~IsSwitch(job.snap)
  BY <1>2, <1>3, RegisteredSwitch
<1>5. inflight' = {} /\ switchInflight' = {}
  BY <1>3, <1>4, RegisteredRules DEF OnHealthRules
<1>6. /\ i.row = Len(rows) /\ Len(rows) # 0 /\ rows[Len(rows)].snap = i.snap
      /\ i.snap \in Snapshots
  BY LastRow DEF RowsInv
<1>7. TerminalState(outcome) \in Terminal
  BY <1>1, StateTyped DEF OwnerInv, TypeOK, OrchInv, Orch!OrchTypeOK
<1>8. \A d \in Clients : req'[d].pc \notin Underway
  BY <1>1, Observing DEF Owns, Underway
<1> QED BY <1>1, <1>2, <1>3, <1>5, <1>6, <1>7, <1>8, PersistRows

LEMMA OnHealthSwitchRows ==
    ASSUME OwnerInv, OwnerInv', SettleInv, RowsInv, OnHealthSwitch
    PROVE  RowsInv'
<1>1. /\ stage = "notify" /\ hook = "none"
      /\ UNCHANGED <<rows, terminal, faults, crashes, req, inflight>>
  BY DEF OnHealthSwitch, dbVars
<1>2. PICK i \in switchInflight :
         /\ switchInflight' = switchInflight \ {i} /\ settle'.step # "none"
         /\ settle'.row = i.row /\ settle'.snap = i.snap
  BY DEF OnHealthSwitch
<1>3. inflight' \cup switchInflight' = {}
  BY <1>1, <1>2, SwitchProtects
<1>4. \A d \in Clients : req'[d].pc \notin Underway
  BY <1>1, Observing DEF Owns, Underway
<1> QED BY <1>1, <1>2, <1>3, <1>4, TakeRows

(* The other steps of the lifecycle. *)
LEMMA ObserverRows ==
    ASSUME OwnerInv, OwnerInv', SettleInv, RowsInv, ObserverStep
    PROVE  RowsInv'
<1>1. CASE OnHealthRules \/ OnHealthSwitch
  BY <1>1, OnHealthRulesRows, OnHealthSwitchRows
<1>2. CASE DataPlaneStep \/ ReloadStep \/ RollbackStep \/ CommitActivate \/ CommitPublish
             \/ CommitRefused \/ CommitSwitch \/ OnHealthReturns \/ ObserverUnlocks
             \/ ObservationAborted
  <2>1. UNCHANGED <<rows, terminal, switchInflight, settle, crashes>>
    BY <1>2 DEF DataPlaneStep, ReloadStep, RollbackStep, CommitActivate, CommitPublish,
       CommitRefused, CommitSwitch, OnHealthReturns, ObserverUnlocks, ObservationAborted,
       dbVars, memVars, callVars, history
  <2>2. faults <= faults'
    <3>1. faults' = faults \/ \E n \in Nat : Faults(n)
      BY <1>2 DEF DataPlaneStep, ReloadStep, RollbackStep, CommitActivate, CommitPublish,
         CommitRefused, CommitSwitch, OnHealthReturns, ObserverUnlocks,
         ObservationAborted, history, Count, ReloadFault
    <3>2. faults \in Nat
      BY ApplierAssumption DEF OwnerInv, TypeOK
    <3> QED BY <3>1, <3>2, FaultsGrow
  <2>3. /\ \A i \in inflight' : \E j \in inflight : j.row = i.row /\ j.snap = i.snap
        /\ \A j \in inflight : \E i \in inflight' : i.row = j.row
    <3>1. CASE CommitPublish
      <4>1. PICK i \in inflight :
               inflight' = (inflight \ {i}) \cup {[i EXCEPT !.committed = TRUE]}
        BY <3>1 DEF CommitPublish
      <4>2. i \in RuleApplyInfo
        BY DEF OwnerInv, TypeOK
      <4>3. PICK k : k = [i EXCEPT !.committed = TRUE]
        OBVIOUS
      <4>4. k.row = i.row /\ k.snap = i.snap
        BY <4>2, <4>3 DEF RuleApplyInfo
      <4>5. inflight' = (inflight \ {i}) \cup {k}
        BY <4>1, <4>3
      <4> QED BY <4>4, <4>5
    <3>2. CASE inflight' = inflight
      BY <3>2
    <3> QED
      BY <1>2, <3>1, <3>2 DEF DataPlaneStep, ReloadStep, RollbackStep, CommitActivate,
         CommitRefused, CommitSwitch, OnHealthReturns, ObserverUnlocks,
         ObservationAborted, memVars
  <2>4. ASSUME NEW d \in Clients, req'[d].pc \in Underway
        PROVE  req[d].pc \in Underway /\ req'[d].row = req[d].row
    <3>1. DOMAIN req = Clients /\ \A e \in Clients : req[e] \in Requests
      BY DEF OwnerInv, TypeOK
    <3>2. CASE CallerReturns /\ stage \in Running
      <4>1. CASE async
        BY <2>4, <3>2, <4>1 DEF CallerReturns
      <4>2. CASE ~async
        <5>1. PICK c : c = job.client
          OBVIOUS
        <5>2. c \in Clients /\ req[c].pc = "applying"
          BY <3>2, <4>2, <5>1, Waiting
        <5>3. req'[c].row = req[c].row /\ \A e \in Clients : e # c => req'[e] = req[e]
          BY <3>1, <3>2, <4>2, <5>1, <5>2 DEF CallerReturns, Requests
        <5> QED BY <2>4, <5>2, <5>3 DEF Underway
      <4> QED BY <4>1, <4>2
    <3>3. CASE ReloadStep
      BY <2>4, <3>1, <3>3 DEF ReloadStep, IdleReq, Underway
    <3>4. CASE req' = req
      BY <2>4, <3>4
    <3>5. RollbackStep \/ CommitPublish \/ CommitSwitch => CallerReturns /\ stage \in Running
      BY DEF RollbackStep, CommitPublish, CommitSwitch, Orch!UndoRender, Orch!ReloadPrev,
         Orch!ReloadPrevFails, Orch!CommitOk, Running
    <3> QED
      BY <1>2, <3>2, <3>3, <3>4, <3>5 DEF DataPlaneStep, CommitActivate, CommitRefused,
         OnHealthReturns, ObserverUnlocks, ObservationAborted, callVars
  <2>5. /\ \A k : Answered(k) => Answered(k)'
        /\ settle'.step # "none" =>
              settle'.row = Len(rows) /\ rows[settle'.row].snap = settle'.snap
    BY <2>1, <2>3, SameAnswers
  <2> QED BY <2>1, <2>2, <2>3, <2>4, <2>5, RowFrame
<1> QED BY <1>1, <1>2 DEF ObserverStep

LEMMA RowsStep ==
    ASSUME OwnerInv, OwnerInv', SettleInv, RowsInv, [Next]_vars
    PROVE  RowsInv'
<1>1. ASSUME NEW c \in Clients, ClientStep(c)
      PROVE  RowsInv'
  BY <1>1, QuietCallRows, ApplyRulesRows, RecordSwitchRows, ReturnRows,
     SwitchReturnRows DEF ClientStep
<1>2. CASE ExitStep \/ UnitStarted \/ UNCHANGED vars
  <2>1. UNCHANGED <<rows, terminal, inflight, switchInflight, settle, req, faults, crashes>>
    BY <1>2 DEF ExitStep, AddExit, DeleteExitChecks, DeleteExitDeletes, UnitStarted, vars,
       dbVars, memVars, callVars, history
  <2>2. faults \in Nat
    BY ApplierAssumption DEF OwnerInv, TypeOK
  <2>3. /\ \A k : Answered(k) => Answered(k)'
        /\ settle'.step # "none" =>
              settle'.row = Len(rows) /\ rows[settle'.row].snap = settle'.snap
    BY <2>1, SameAnswers
  <2> QED BY <2>1, <2>2, <2>3, RowFrame
<1>3. CASE Restart
  <2>1. /\ crashes' = crashes + 1 /\ inflight' = {} /\ switchInflight' = {}
        /\ settle'.step = "none"
        /\ terminal' = <<>> /\ req' = [c \in Clients |-> IdleReq] /\ faults' = faults
    BY <1>3 DEF Restart, NoSettle
  <2>2. crashes' # 0 /\ Len(terminal') <= TerminalCap
    BY <2>1, ApplierAssumption DEF OwnerInv, TypeOK
  <2>3. \A c \in Clients : req'[c].pc = "idle"
    BY <2>1 DEF IdleReq
  <2> QED BY <2>1, <2>2, <2>3 DEF RowsInv, RowInv, Account
<1> QED BY <1>1, <1>2, <1>3, NewCallRows, SettleRows, ObserverRows DEF Next

(* Before a restart a row that says submitted is the one of the change      *)
(* under way or being settled, is answered from memory or was superseded,   *)
(* but for those that the bounded fallback had to forget: of f failures     *)
(* TerminalCap cost nothing and each of the others strands one row at most  *)
(* (applier.go:320-323, 337-344, 565-581, 638-663).                         *)
THEOREM SubmittedRowsAreExplained == Spec => []SubmittedIsExplained
<1>1. Init => RowsInv
  <2> SUFFICES ASSUME Init
               PROVE  RowsInv
    OBVIOUS
  <2>1. /\ rows = <<>> /\ terminal = <<>> /\ inflight = {} /\ switchInflight = {}
        /\ settle.step = "none" /\ faults = 0 /\ \A c \in Clients : req[c].pc = "idle"
    BY DEF Init, NoSettle, IdleReq
  <2>2. RowInv
    BY <2>1, ApplierAssumption DEF RowInv
  <2>3. Stranded = {} /\ Len(terminal) <= faults
    BY <2>1 DEF Stranded
  <2> QED BY <2>2, <2>3 DEF RowsInv, Account
<1>2. OwnerInv /\ OwnerInv' /\ SettleInv /\ RowsInv /\ [Next]_vars => RowsInv'
  BY RowsStep
<1>3. RowsInv => SubmittedIsExplained
  BY DEF RowsInv, Account, SubmittedIsExplained
<1> QED BY <1>1, <1>2, <1>3, Ownership, PTL DEF Spec

----------------------------------------------------------------------------
(* The pipeline implements ConfigChange: the control plane is the base of   *)
(* the change under way.  First what each abstract step asks of a concrete  *)
(* one.                                                                     *)

LEMMA PlaneOf ==
    ASSUME NEW g \in Configs, InForce(g)
    PROVE  DataPlane = g
<1>1. disk["dnsdist"] = g
  BY DEF InForce, Units, Orch!Units
<1> QED BY <1>1 DEF DataPlane, InForce, Units

LEMMA PlaneTyped == OwnerInv => DataPlane \in Configs \cup {Down}
<1> SUFFICES ASSUME OwnerInv
             PROVE  DataPlane \in Configs \cup {Down}
  OBVIOUS
<1>1. CASE \E g \in Configs : \A u \in Orch!Units : disk[u] = g /\ running[u] = g
  <2> PICK g \in Configs : \A u \in Orch!Units : disk[u] = g /\ running[u] = g
    BY <1>1
  <2>1. disk["dnsdist"] = g
    BY DEF Orch!Units
  <2> QED BY <1>1, <2>1 DEF DataPlane
<1>2. CASE ~ \E g \in Configs : \A u \in Orch!Units : disk[u] = g /\ running[u] = g
  BY <1>2 DEF DataPlane
<1> QED BY <1>1, <1>2

LEMMA PlaneTypedNext == OwnerInv' => (DataPlane \in Configs \cup {Down})'
BY PlaneTyped, PTL

LEMMA BaseTypedNext == OwnerInv' /\ SettleInv' => (Base \in Configs)'
<1>1. OwnerInv /\ SettleInv => Base \in Configs
  BY BaseTyped
<1> QED BY <1>1, PTL

LEMMA PlaneKept ==
    ASSUME UNCHANGED <<disk, running>>
    PROVE  DataPlane' = DataPlane
BY DEF DataPlane

LEMMA NoChange ==
    ASSUME UNCHANGED <<disk, running, variation, trusted>>, Base' = Base
    PROVE  UNCHANGED Change!changeVars
BY PlaneKept DEF Change!changeVars, Base

LEMMA BeginChange ==
    ASSUME UNCHANGED <<disk, running, trusted>>, Base' = Base, ~variation, variation' = TRUE
    PROVE  Change!Begin
BY PlaneKept DEF Change!Begin, Base

LEMMA MoveChange ==
    ASSUME OwnerInv', UNCHANGED <<variation, trusted>>, Base' = Base, variation
    PROVE  Change!Move
BY PlaneTypedNext DEF Change!Move, Change!Planes, Base

LEMMA RepairChange ==
    ASSUME OwnerInv', UNCHANGED <<variation, trusted>>, Base' = Base, ~trusted
    PROVE  Change!Repair
BY PlaneTypedNext DEF Change!Repair, Change!Planes, Base

LEMMA ConfirmChange ==
    ASSUME OwnerInv', SettleInv', UNCHANGED <<disk, running>>, variation, InForce(Base'),
           Base'.rules = Base.rules \/ Base'.exit = Base.exit,
           trusted' \in {trusted, TRUE}
    PROVE  Change!Confirm
<1>1. Base' \in Configs
  <2>1. (Base \in Configs)'
    BY BaseTypedNext
  <2> QED BY <2>1
<1>2. DataPlane = Base'
  BY <1>1, PlaneOf
<1>3. variation' \in BOOLEAN
  BY DEF OwnerInv, TypeOK
<1> QED BY <1>1, <1>2, <1>3, PlaneKept DEF Change!Confirm, Change!OneCoordinate, Base

LEMMA EndChange ==
    ASSUME OwnerInv, SettleInv, UNCHANGED <<disk, running, trusted>>, Base' = Base, variation,
           variation' = FALSE, trusted => InForce(Base)
    PROVE  Change!End
<1>1. trusted => DataPlane = Base
  BY BaseTyped, PlaneOf
<1> QED BY <1>1, PlaneKept DEF Change!End, Base

LEMMA GiveUpChange ==
    ASSUME OwnerInv', SettleInv', UNCHANGED <<disk, running>>, variation, trusted' = FALSE,
           Base'.rules = Base.rules
    PROVE  Change!GiveUp
<1>1. Base' \in Configs
  <2>1. (Base \in Configs)'
    BY BaseTypedNext
  <2> QED BY <2>1
<1>2. variation' \in BOOLEAN
  BY DEF OwnerInv, TypeOK
<1> QED BY <1>1, <1>2, PlaneKept DEF Change!GiveUp, Change!OneCoordinate, Base

LEMMA CutShortChange ==
    ASSUME OwnerInv', SettleInv', UNCHANGED <<disk, running>>, variation' = FALSE,
           trusted' = (trusted /\ ~variation), Base'.rules = Base.rules,
           ~variation => Base' = Base
    PROVE  Change!CutShort
<1>1. Base' \in Configs
  <2>1. (Base \in Configs)'
    BY BaseTypedNext
  <2> QED BY <2>1
<1> QED BY <1>1, PlaneKept DEF Change!CutShort, Change!OneCoordinate, Base

AbstractStep == [Change!ChangeNext]_Change!changeVars

LEMMA Abstractly ==
    ASSUME \/ Change!Begin \/ Change!Move \/ Change!Confirm \/ Change!End \/ Change!GiveUp
           \/ Change!Repair \/ Change!CutShort \/ UNCHANGED Change!changeVars
    PROVE  AbstractStep
BY DEF AbstractStep, Change!ChangeNext

(* The calls of a client. *)
LEMMA NewCallRefines ==
    ASSUME OwnerInv, OwnerInv', SettleInv, SettleInv', RefInv, NEW c \in Clients, NewCall(c)
    PROVE  AbstractStep
<1>1. TableFrame
  BY NewCallTable
<1>2. UNCHANGED <<disk, running, trusted, activeExit, switchInflight, settle>>
  BY DEF NewCall, HandleApply, ImportRules, HandleRollbackSnapshot, CmdRulesRollback,
     SwitchExit, orchVars, dbVars, memVars, history
<1>3. DOMAIN req = Clients
  BY DEF OwnerInv, TypeOK
<1>4. PICK r : req[c].pc = "idle" /\ req' = [req EXCEPT ![c] = r] /\ r.pc # "record"
  <2>1. ASSUME NEW rv, NEW seen, Prepared(c, rv, seen), req[c].pc = "idle"
        PROVE  \E r : req[c].pc = "idle" /\ req' = [req EXCEPT ![c] = r] /\ r.pc # "record"
    <3> DEFINE r == [IdleReq EXCEPT !.pc = "rules", !.snap = RulesSnap(versions'[rv]),
                                    !.rv = rv, !.prev = seen]
    <3>1. req' = [req EXCEPT ![c] = r] /\ r.pc = "rules"
      BY <2>1 DEF Prepared, IdleReq
    <3> QED BY <2>1, <3>1
  <2>2. ASSUME NEW e, SwitchExit(c, e)
        PROVE  \E r : req[c].pc = "idle" /\ req' = [req EXCEPT ![c] = r] /\ r.pc # "record"
    <3> DEFINE r == [IdleReq EXCEPT !.pc = "protect", !.exit = e, !.prior = activeExit]
    <3>1. req[c].pc = "idle" /\ req' = [req EXCEPT ![c] = r] /\ r.pc = "protect"
      BY <2>2 DEF SwitchExit, IdleReq
    <3> QED BY <3>1
  <2> QED
    BY <2>1, <2>2 DEF NewCall, HandleApply, ImportRules, HandleRollbackSnapshot,
       CmdRulesRollback
<1>5. \A d \in Clients :
         req'[d] = req[d] \/ (req[d].pc # "record" /\ req'[d].pc # "record")
  BY <1>3, <1>4
<1>6. Base' = Base
  BY <1>1, <1>2, <1>5, BaseKept
<1>7. variation' = variation \/ (~variation /\ variation' = TRUE)
  BY DEF NewCall, HandleApply, ImportRules, HandleRollbackSnapshot, CmdRulesRollback,
     SwitchExit, memVars
<1> QED BY <1>2, <1>6, <1>7, NoChange, BeginChange, Abstractly

(* The steps of a caller that leave its change open, or find it closed. *)
LEMMA CallRefines ==
    ASSUME OwnerInv, OwnerInv', SettleInv, SettleInv', RefInv, NEW c \in Clients,
           \/ RulesRefused(c) \/ RulesFault(c) \/ ApplyRules(c)
           \/ Dispatch(c) \/ DispatchSnapshotFails(c) \/ DispatchRejected(c)
    PROVE  AbstractStep
<1>1. UNCHANGED <<disk, running>>
  BY DEF RulesRefused, RulesFault, ApplyRules, Dispatch, DispatchSnapshotFails,
     DispatchRejected, Orch!Apply, Orch!Acquire, Orch!SnapshotFails, orchVars
<1>2. UNCHANGED <<trusted, versions, activeRv, activeExit, switchInflight, settle>>
  BY DEF RulesRefused, RulesFault, ApplyRules, Dispatch, DispatchSnapshotFails,
     DispatchRejected, dbVars, memVars, history
<1>3. DOMAIN req = Clients /\ req[c] \in Requests
  BY DEF OwnerInv, TypeOK
<1>4. req[c].pc # "record" /\ req'[c].pc # "record"
  <2>1. CASE req' = [req EXCEPT ![c] = IdleReq]
    BY <1>3, <2>1 DEF IdleReq, RulesRefused, RulesFault, ApplyRules, Dispatch,
       DispatchSnapshotFails, DispatchRejected
  <2>2. CASE ApplyRules(c) \/ Dispatch(c) \/ DispatchSnapshotFails(c) \/ DispatchRejected(c)
    BY <1>3, <2>2 DEF ApplyRules, Dispatch, DispatchSnapshotFails, DispatchRejected, Requests
  <2> QED BY <2>1, <2>2 DEF RulesRefused, RulesFault
<1>5. \A d \in Clients : d # c => req'[d] = req[d]
  BY <1>3 DEF RulesRefused, RulesFault, ApplyRules, Dispatch, DispatchSnapshotFails,
     DispatchRejected
<1>6. Base' = Base
  BY <1>2, <1>4, <1>5, BaseSame
<1>7. variation' = variation \/ (~variation /\ variation' = TRUE)
  BY DEF RulesRefused, RulesFault, ApplyRules, Dispatch, DispatchSnapshotFails,
     DispatchRejected, memVars
<1> QED BY <1>1, <1>2, <1>6, <1>7, NoChange, BeginChange, Abstractly

(* Until it is dispatched a switch moves the pointer, not the control plane. *)
LEMMA SwitchRefines ==
    ASSUME OwnerInv, OwnerInv', SettleInv, SettleInv', RefInv, PlaneInv, NEW c \in Clients,
           \/ ProtectSwitchExits(c) \/ FlipExit(c) \/ FlipFails(c)
           \/ RecordSwitch(c) \/ RecordSwitchFails(c)
    PROVE  AbstractStep
<1>1. /\ req[c].pc \in {"protect", "flip", "record"}
      /\ UNCHANGED <<disk, running, versions, activeRv, settle>>
  BY DEF ProtectSwitchExits, FlipExit, FlipFails, RecordSwitch, RecordSwitchFails, orchVars,
     dbVars
<1>2. Owns(c) /\ req[c].pc \notin {"applying", "return"}
  BY <1>1 DEF Owns
<1>3. variation /\ \A d \in Clients : d # c => req[d].pc \in {"idle", "rules"}
  BY <1>2, Resting DEF Owns
<1>4. Base'.rules = Base.rules
  BY <1>1 DEF Base, RulesOf
<1>5. trusted => InForce(Base)
  BY <1>2, RestForce
<1>6. DOMAIN req = Clients /\ req[c] \in Requests
  BY DEF OwnerInv, TypeOK
<1>7. \A d \in Clients : d # c => req'[d] = req[d]
  BY <1>6 DEF ProtectSwitchExits, FlipExit, FlipFails, RecordSwitch, RecordSwitchFails,
     SwitchReturns
<1>8. switchInflight = {} /\ settle.step = "none"
  BY <1>1, SettleAlone DEF OwnerInv, OwnersOnly, NothingRegistered
<1>9. ControlExit = req[c].prior
  <2>1. req[c].pc # "record" => activeExit = req[c].prior
    BY <1>1 DEF RefInv, ExitRefs
  <2> QED BY <1>1, <1>3, <1>8, <2>1, ControlValue DEF ControlOK
<1>10. ControlExit' = req[c].prior => Base' = Base
  BY <1>1, <1>9 DEF Base, RulesOf
<1>11. CASE ProtectSwitchExits(c)
  <2>1. /\ req'[c].pc = "flip" /\ req[c].pc = "protect"
        /\ UNCHANGED <<activeExit, switchInflight, trusted, variation>>
    BY <1>6, <1>11 DEF ProtectSwitchExits, Requests, dbVars, history
  <2>2. Base' = Base
    BY <1>1, <1>7, <2>1, BaseSame
  <2> QED BY <1>1, <2>1, <2>2, NoChange, Abstractly
<1>12. CASE FlipExit(c)
  <2>1. /\ req'[c].pc = "record" /\ req'[c].prior = req[c].prior
        /\ UNCHANGED <<trusted, variation>>
    BY <1>6, <1>12 DEF FlipExit, Requests, memVars, history
  <2>2. Base' = Base
    BY <1>10, <2>1, ControlValueNext DEF ControlOK
  <2> QED BY <1>1, <2>1, <2>2, NoChange, Abstractly
<1>13. CASE FlipFails(c)
  <2>1. /\ req'[c].pc = "idle" /\ req[c].pc = "flip" /\ variation' = FALSE
        /\ UNCHANGED <<activeExit, switchInflight, trusted>>
    BY <1>6, <1>13 DEF FlipFails, SwitchReturns, EndVariation, IdleReq, dbVars
  <2>2. Base' = Base
    BY <1>1, <1>7, <2>1, BaseSame
  <2> QED BY <1>1, <1>3, <1>5, <2>1, <2>2, EndChange, Abstractly
<1>14. CASE RecordSwitch(c)
  <2> DEFINE i == [snap |-> SwitchSnap(Len(rows) + 1), row |-> Len(rows) + 1,
                   new |-> req[c].exit, prior |-> req[c].prior]
  <2>1. i \in switchInflight' /\ UNCHANGED <<trusted, variation>>
    BY <1>14 DEF RecordSwitch, RegisterSwitchInflight, history
  <2>2. i.prior = req[c].prior
    OBVIOUS
  <2> HIDE DEF i
  <2>3. Base' = Base
    BY <1>10, <2>1, <2>2, ControlValueNext DEF ControlOK
  <2> QED BY <1>1, <2>1, <2>3, NoChange, Abstractly
<1>15. CASE RecordSwitchFails(c)
  <2>1. PICK ok \in BOOLEAN : /\ CompensateSwitch(req[c].prior, ok)
                              /\ Trust(IF ok THEN "rolled_back" ELSE "failed")
    BY <1>15 DEF RecordSwitchFails
  <2>2. req'[c].pc = "idle" /\ switchInflight' = {} /\ variation' = FALSE
    BY <1>6, <1>8, <1>15 DEF RecordSwitchFails, SwitchReturns, EndVariation, IdleReq
  <2>3. CASE ok
    <3>1. activeExit' = req[c].prior /\ trusted' = trusted
      BY <2>1, <2>3 DEF CompensateSwitch, Trust
    <3>2. Base' = Base
      BY <1>1, <1>3, <1>7, <1>8, <1>10, <2>2, <3>1, ControlValueNext DEF ControlOK
    <3> QED BY <1>1, <1>3, <1>5, <2>2, <3>1, <3>2, EndChange, Abstractly
  <2>4. CASE ~ok
    <3>1. trusted' = FALSE
      BY <2>1, <2>4 DEF Trust
    <3> QED BY <1>1, <1>3, <1>4, <3>1, GiveUpChange, Abstractly
  <2> QED BY <2>3, <2>4
<1> QED BY <1>11, <1>12, <1>13, <1>14, <1>15

(* A change is settled with state: it is confirmed, closed, or given up. *)
LEMMA SettleRefines ==
    ASSUME OwnerInv, OwnerInv', SettleInv, SettleInv', UNCHANGED <<disk, running>>, variation,
           Base'.rules = Base.rules,
           NEW state, Trust(state), variation' \in {variation, FALSE},
           state = "confirmed" => InForce(Base'),
           state \notin {"confirmed", "failed"} =>
              Base' = Base /\ (trusted => InForce(Base))
    PROVE  AbstractStep
<1>1. CASE state = "confirmed"
  <2>1. trusted' = TRUE
    BY <1>1 DEF Trust
  <2> QED BY <1>1, <2>1, ConfirmChange, Abstractly
<1>2. CASE state = "failed"
  <2>1. trusted' = FALSE
    BY <1>2 DEF Trust
  <2> QED BY <2>1, GiveUpChange, Abstractly
<1>3. CASE state \notin {"confirmed", "failed"}
  <2>1. trusted' = trusted
    BY <1>3 DEF Trust
  <2>2. CASE variation' = variation
    BY <1>3, <2>1, <2>2, NoChange, Abstractly
  <2>3. CASE variation' = FALSE
    BY <1>3, <2>1, <2>3, EndChange, Abstractly
  <2> QED BY <2>2, <2>3
<1> QED BY <1>1, <1>2, <1>3

LEMMA RulesReturnRefines ==
    ASSUME OwnerInv, OwnerInv', SettleInv, SettleInv', PlaneInv, NEW c \in Clients, RulesReturn(c)
    PROVE  AbstractStep
<1>1. /\ req[c].pc = "return" /\ ~IsSwitch(req[c].snap) /\ variation' = FALSE
      /\ Trust(TerminalState(req[c].res)) /\ req' = [req EXCEPT ![c] = IdleReq]
      /\ UNCHANGED <<disk, running, versions, activeRv, activeExit, switchInflight, settle>>
  BY DEF RulesReturn, EndVariation, orchVars
<1>2. Owns(c) /\ req[c].pc # "applying"
  BY <1>1 DEF Owns
<1>3. variation /\ \A d \in Clients : d # c => req[d].pc \in {"idle", "rules"}
  BY <1>2, Resting DEF Owns
<1>4. req'[c].pc = "idle" /\ \A d \in Clients : d # c => req'[d] = req[d]
  BY <1>1 DEF OwnerInv, TypeOK, IdleReq
<1>5. Base' = Base
  BY <1>1, <1>4, BaseSame
<1>6. switchInflight = {} /\ settle.step = "none"
  BY <1>1, RegisteredRules, SettleAlone DEF OwnerInv, OwnersOnly
<1>7. Base = Assembled
  BY <1>1, <1>3, <1>6, BaseIsAssembled
<1>8. req[c].res \in Orch!Outcomes \ {"none"}
  BY <1>1 DEF OwnerInv, TypeOK, Requests, CallInv, CallOK
<1>9. TerminalState(req[c].res) = "confirmed" => InForce(Base)
  BY <1>1, <1>7, <1>8 DEF TerminalState, Orch!Outcomes, PlaneInv, OkInv
<1>10. TerminalState(req[c].res) \notin {"confirmed", "failed"} => (trusted => InForce(Base))
  BY <1>1, <1>8 DEF TerminalState, Orch!Outcomes, PlaneInv, BaseInv
<1> QED BY <1>1, <1>3, <1>5, <1>9, <1>10, SettleRefines

LEMMA SwitchConfirmedRefines ==
    ASSUME OwnerInv, OwnerInv', SettleInv, SettleInv', PlaneInv, NEW c \in Clients,
           SwitchConfirmed(c)
    PROVE  AbstractStep
<1>1. /\ req[c].pc = "return" /\ IsSwitch(req[c].snap) /\ req[c].res = "ok"
      /\ variation' = FALSE /\ Trust("confirmed") /\ req' = [req EXCEPT ![c] = IdleReq]
      /\ switchInflight' = ClearSwitchInflight(req[c].snap)
      /\ UNCHANGED <<disk, running, versions, activeRv, activeExit, settle>>
  BY DEF SwitchConfirmed, SwitchReturns, EndVariation, orchVars
<1>2. Owns(c) /\ req[c].pc # "applying"
  BY <1>1 DEF Owns
<1>3. variation /\ \A d \in Clients : d # c => req[d].pc \in {"idle", "rules"}
  BY <1>2, Resting DEF Owns
<1>4. req'[c].pc = "idle" /\ \A d \in Clients : d # c => req'[d] = req[d]
  BY <1>1 DEF OwnerInv, TypeOK, IdleReq
<1>5. Registered(req[c].snap, req[c].prior, req[c].exit) /\ settle.step = "none"
  BY <1>1, SettleAlone DEF OwnerInv, OwnersOnly
<1>6. switchInflight' = {}
  BY <1>1, <1>5, RegisteredSwitch
<1>7. Base' = Assembled'
  BY <1>1, <1>3, <1>4, <1>5, <1>6, BaseIsAssembledNext
<1>8. Base' = Assembled
  BY <1>1, <1>7 DEF Assembled, RulesOf
<1>9. InForce(Base') /\ Base'.rules = Base.rules
  BY <1>1, <1>8 DEF PlaneInv, OkInv, Base, Assembled
<1> QED BY <1>1, <1>3, <1>9, SettleRefines

(* Taking the entry of a failed switch leaves the control plane where it    *)
(* is: it is still the exit to go back to.                                  *)
LEMMA SwitchReturnRefines ==
    ASSUME OwnerInv, OwnerInv', SettleInv, SettleInv', PlaneInv, NEW c \in Clients,
           SwitchReturn(c)
    PROVE  AbstractStep
<1>1. /\ req[c].pc = "return" /\ IsSwitch(req[c].snap) /\ req[c].res # "ok"
      /\ Trust(req[c].res) /\ variation' = variation
      /\ settle'.step = "compensate" /\ settle'.prior = req[c].prior
      /\ UNCHANGED <<disk, running, versions, activeRv>>
  BY DEF SwitchReturn, orchVars, dbVars
<1>2. Owns(c) /\ req[c].pc # "applying"
  BY <1>1 DEF Owns
<1>3. variation
  BY <1>2, Resting
<1>4. Registered(req[c].snap, req[c].prior, req[c].exit)
  BY <1>1 DEF OwnerInv, OwnersOnly
<1>5. \E i \in switchInflight : i.prior = req[c].prior
  BY <1>1, <1>4, RegisteredSwitch
<1>6. ControlExit = req[c].prior /\ ControlExit' = req[c].prior
  BY <1>1, <1>5, ControlValue, ControlValueNext DEF ControlOK
<1>7. Base' = Base
  BY <1>1, <1>6 DEF Base, RulesOf
<1>8. req[c].res \in {"rolled_back", "failed"}
  BY <1>1 DEF OwnerInv, TypeOK, Requests, CallInv, CallOK, Orch!Outcomes
<1>9. req[c].res = "rolled_back" => (trusted => InForce(Base))
  BY <1>1 DEF PlaneInv, BaseInv
<1> QED BY <1>1, <1>3, <1>7, <1>8, <1>9, SettleRefines

LEMMA SwitchReleasesRefines ==
    ASSUME OwnerInv, OwnerInv', SettleInv, SettleInv', PlaneInv, NEW c \in Clients,
           SwitchReleases(c)
    PROVE  AbstractStep
<1>1. /\ req[c].pc = "release" /\ variation' = FALSE
      /\ req' = [req EXCEPT ![c] = IdleReq]
      /\ UNCHANGED <<disk, running, versions, activeRv, activeExit, switchInflight, settle,
                     trusted>>
  BY DEF SwitchReleases, SwitchReturns, EndVariation, orchVars, dbVars, history
<1>2. Owns(c) /\ req[c].pc \notin {"applying", "return"}
  BY <1>1 DEF Owns
<1>3. variation
  BY <1>2, Resting
<1>4. req'[c].pc = "idle" /\ \A d \in Clients : d # c => req'[d] = req[d]
  BY <1>1 DEF OwnerInv, TypeOK, IdleReq
<1>5. Base' = Base
  BY <1>1, <1>4, BaseSame
<1>6. trusted => InForce(Base)
  BY <1>2, RestForce
<1> QED BY <1>1, <1>3, <1>5, <1>6, EndChange, Abstractly

(* compensateSwitch: the pointer is put back, or the change is given up. *)
LEMMA CompensationRefines ==
    ASSUME OwnerInv, OwnerInv', SettleInv, SettleInv', PlaneInv, SettleStep
    PROVE  AbstractStep
<1>1. /\ settle.step # "none"
      /\ UNCHANGED <<disk, running, versions, activeRv, switchInflight, variation, req>>
  BY DEF SettleStep, SettleCompensates, SettlePersists, orchVars, memVars
<1>2. /\ variation /\ switchInflight = {}
      /\ \A c \in Clients : req[c].pc \in {"idle", "rules", "release"}
  BY <1>1, SettleAlone
<1>3. Base'.rules = Base.rules
  BY <1>1 DEF Base, RulesOf
<1>4. CASE SettlePersists
  <2>1. /\ settle.step = "persist" /\ settle'.step = "none"
        /\ UNCHANGED <<activeExit, trusted>>
    BY <1>4 DEF SettlePersists, NoSettle
  <2>2. ControlExit = activeExit /\ ControlExit' = activeExit'
    BY <1>1, <1>2, <2>1, ControlValue, ControlValueNext DEF ControlOK
  <2>3. Base' = Base
    BY <1>1, <2>1, <2>2 DEF Base, RulesOf
  <2> QED BY <1>1, <2>1, <2>3, NoChange, Abstractly
<1>5. CASE SettleCompensates
  <2>1. PICK ok \in BOOLEAN :
           /\ CompensateSwitch(settle.prior, ok)
           /\ settle' = [settle EXCEPT !.step = "persist",
                                       !.state = IF ok THEN settle.state ELSE "failed"]
           /\ Trust(IF ok THEN settle.state ELSE "failed")
    BY <1>5 DEF SettleCompensates
  <2>2. settle.step = "compensate" /\ settle'.step = "persist" /\ settle.state # "confirmed"
    BY <1>5, <2>1 DEF SettleCompensates, OwnerInv, TypeOK, Settling, SettleInv
  <2>3. CASE ~ok
    <3>1. trusted' = FALSE
      BY <2>1, <2>3 DEF Trust
    <3> QED BY <1>1, <1>2, <1>3, <3>1, GiveUpChange, Abstractly
  <2>4. CASE ok
    <3>1. activeExit' = settle.prior
      BY <2>1, <2>4 DEF CompensateSwitch
    <3>2. ControlExit = settle.prior /\ ControlExit' = activeExit'
      BY <1>1, <1>2, <2>2, ControlValue, ControlValueNext DEF ControlOK
    <3>3. Base' = Base
      BY <1>1, <3>1, <3>2 DEF Base, RulesOf
    <3>4. trusted => InForce(Base)
      <4>1. CASE hook = "release"
        BY <4>1 DEF PlaneInv, BaseInv
      <4>2. ASSUME NEW c \in Clients, req[c].pc = "release"
            PROVE  trusted => InForce(Base)
        BY <4>2, RestForce DEF Owns
      <4> QED BY <1>1, <4>1, <4>2 DEF SettleInv
    <3>5. Trust(settle.state)
      BY <2>1, <2>4
    <3> QED BY <1>1, <1>2, <2>2, <3>3, <3>4, <3>5, SettleRefines
  <2> QED BY <2>3, <2>4
<1> QED BY <1>4, <1>5 DEF SettleStep

(* The steps of the lifecycle move files and units and nothing else. *)
LEMMA LifecycleRefines ==
    ASSUME OwnerInv, OwnerInv', SettleInv, SettleInv', stage \in Running \cup {"notify"},
           UNCHANGED <<versions, activeRv, activeExit, switchInflight, settle, variation, trusted>>,
           CallerReturns \/ ReloadStep \/ UNCHANGED req
    PROVE  AbstractStep
<1>1. \A c \in Clients : req[c].pc # "record"
  BY NoDispatch
<1>2. \A c \in Clients : req'[c] = req[c] \/ req'[c].pc \in {"idle", "return"}
  <2>1. DOMAIN req = Clients /\ \A c \in Clients : req[c] \in Requests
    BY DEF OwnerInv, TypeOK
  <2>2. CASE CallerReturns
    BY <2>1, <2>2 DEF CallerReturns, Requests
  <2>3. CASE ReloadStep
    BY <2>1, <2>3 DEF ReloadStep, IdleReq
  <2> QED BY <2>2, <2>3
<1>3. Base' = Base
  BY <1>1, <1>2, BaseSame
<1>4. variation
  <2>1. CASE stage \in Running /\ ~async
    BY <2>1, Waiting
  <2>2. CASE (stage \in Running /\ async) \/ stage = "notify"
    BY <2>2, Observing
  <2> QED BY <2>1, <2>2
<1> QED BY <1>3, <1>4, MoveChange, Abstractly

(* SetActiveRuleVersion: the control plane follows the data plane. *)
LEMMA CommitActivateRefines ==
    ASSUME OwnerInv, OwnerInv', SettleInv, SettleInv', AimInv, CommitActivate
    PROVE  AbstractStep
<1>1. PICK i \in inflight : i.snap = job.snap /\ activeRv' = i.rv
  BY DEF CommitActivate
<1>2. /\ stage = "commit" /\ UNCHANGED <<disk, running, versions, activeExit, req, switchInflight,
                                         settle, trusted, variation>>
  BY DEF CommitActivate, orchVars, memVars, history
<1>3. i.snap = RulesSnap(versions[i.rv]) /\ i.rv # 0
  <2>1. i \in RuleApplyInfo
    BY DEF OwnerInv, TypeOK
  <2>2. i.rv # 0
    BY <2>1 DEF RuleApplyInfo
  <2> QED BY <2>2 DEF OwnerInv, CallInv
<1>4. /\ switchInflight = {} /\ settle.step = "none"
      /\ \A c \in Clients : req[c].pc # "record"
  BY <1>2, SwitchProtects, SettleAlone, NoDispatch DEF Running
<1>5. Base = Assembled /\ Base' = Assembled'
  BY <1>2, <1>4, BaseIsAssembled, BaseIsAssembledNext
<1>6. Base'.exit = Base.exit
  BY <1>2, <1>5 DEF Assembled
<1>7. cand = Base'
  BY <1>1, <1>2, <1>3, <1>5 DEF AimInv, TargetInv, Target, IsSwitch, RulesSnap, Assembled,
     RulesOf, Running
<1>8. InForce(Base')
  BY <1>2, <1>7 DEF OwnerInv, OrchInv, InForce
<1>9. variation
  <2>1. CASE async
    BY <1>2, <2>1, Observing DEF Running
  <2>2. CASE ~async
    BY <1>2, <2>2, Waiting DEF Running
  <2> QED BY <2>1, <2>2
<1> QED BY <1>2, <1>6, <1>8, <1>9, ConfirmChange, Abstractly

LEMMA OnHealthRulesRefines ==
    ASSUME OwnerInv, OwnerInv', SettleInv, SettleInv', PlaneInv, OnHealthRules
    PROVE  AbstractStep
<1>1. /\ stage = "notify" /\ hook = "none" /\ Trust(TerminalState(outcome))
      /\ UNCHANGED <<disk, running, versions, activeRv, activeExit, switchInflight, req, settle,
                     variation>>
  BY DEF OnHealthRules, orchVars
<1>2. PICK i \in inflight : i.snap = job.snap
  BY DEF OnHealthRules
<1>3. /\ switchInflight = {} /\ settle.step = "none"
      /\ \A c \in Clients : req[c].pc # "record"
  BY <1>1, SwitchProtects, SettleAlone, NoDispatch
<1>4. Base = Assembled /\ Base' = Base
  BY <1>1, <1>3, BaseIsAssembled, BaseSame
<1>5. outcome \in Orch!Outcomes \ {"none"} /\ variation
  BY <1>1, Observing DEF OwnerInv, TypeOK, Orch!OrchTypeOK, OrchInv
<1>6. TerminalState(outcome) = "confirmed" => InForce(Base)
  BY <1>1, <1>4, <1>5 DEF TerminalState, Orch!Outcomes, PlaneInv, OkInv
<1>7. TerminalState(outcome) \notin {"confirmed", "failed"} => (trusted => InForce(Base))
  BY <1>1, <1>5 DEF TerminalState, Orch!Outcomes, PlaneInv, BaseInv
<1> QED BY <1>1, <1>4, <1>5, <1>6, <1>7, SettleRefines

LEMMA OnHealthSwitchRefines ==
    ASSUME OwnerInv, OwnerInv', SettleInv, SettleInv', PlaneInv, OnHealthSwitch
    PROVE  AbstractStep
<1>1. /\ stage = "notify" /\ hook = "none" /\ Trust(TerminalState(outcome))
      /\ UNCHANGED <<disk, running, versions, activeRv, activeExit, req, variation>>
  BY DEF OnHealthSwitch, orchVars, dbVars
<1>2. PICK i \in switchInflight :
        /\ switchInflight' = switchInflight \ {i}
        /\ settle' = [step |-> IF TerminalState(outcome) = "confirmed" THEN "persist"
                               ELSE "compensate",
                      row |-> i.row, snap |-> i.snap, prior |-> i.prior,
                      state |-> TerminalState(outcome)]
  BY DEF OnHealthSwitch
<1>3. switchInflight' = {} /\ \A c \in Clients : req'[c].pc # "record"
  BY <1>1, <1>2, SwitchProtects, NoDispatch
<1>4. ControlExit = i.prior
  BY ControlValue DEF ControlOK
<1>5. outcome \in Orch!Outcomes \ {"none"} /\ variation
  BY <1>1, Observing DEF OwnerInv, TypeOK, Orch!OrchTypeOK, OrchInv
<1>6. TerminalState(outcome) = "confirmed" => InForce(Base')
  <2>1. SUFFICES ASSUME TerminalState(outcome) = "confirmed"
                 PROVE  InForce(Base')
    OBVIOUS
  <2>2. outcome = "ok" /\ settle'.step = "persist"
    BY <1>2, <1>5, <2>1 DEF TerminalState, Orch!Outcomes
  <2>3. Base' = Assembled'
    BY <1>3, <2>2, BaseIsAssembledNext
  <2>4. Base' = Assembled
    BY <1>1, <2>3 DEF Assembled, RulesOf
  <2> QED BY <1>1, <2>2, <2>4 DEF PlaneInv, OkInv
<1>7. TerminalState(outcome) \notin {"confirmed", "failed"} =>
         Base' = Base /\ (trusted => InForce(Base))
  <2>1. SUFFICES ASSUME TerminalState(outcome) \notin {"confirmed", "failed"}
                 PROVE  Base' = Base /\ (trusted => InForce(Base))
    OBVIOUS
  <2>2. outcome = "rolled_back" /\ settle'.step = "compensate" /\ settle'.prior = i.prior
    BY <1>2, <1>5, <2>1 DEF TerminalState, Orch!Outcomes
  <2>3. ControlExit' = i.prior
    BY <2>2, ControlValueNext DEF ControlOK
  <2>4. Base' = Base
    BY <1>1, <1>4, <2>3 DEF Base, RulesOf
  <2> QED BY <1>1, <2>2, <2>4 DEF PlaneInv, BaseInv
<1>8. Base'.rules = Base.rules
  BY <1>1 DEF Base, RulesOf
<1> QED BY <1>1, <1>5, <1>6, <1>7, <1>8, SettleRefines

LEMMA OnHealthReturnsRefines ==
    ASSUME OwnerInv, OwnerInv', SettleInv, SettleInv', PlaneInv, OnHealthReturns
    PROVE  AbstractStep
<1>1. /\ hook = "release" /\ variation' = FALSE /\ stage = "notify"
      /\ UNCHANGED <<disk, running, versions, activeRv, activeExit, switchInflight, req, settle,
                     trusted>>
  BY DEF OnHealthReturns, EndVariation, Orch!Notified, dbVars, history
<1>2. variation
  BY <1>1, Observing
<1>3. Base' = Base
  BY <1>1, BaseSame
<1>4. trusted => InForce(Base)
  BY <1>1 DEF PlaneInv, BaseInv
<1> QED BY <1>1, <1>2, <1>3, <1>4, EndChange, Abstractly

LEMMA ObserverRefines ==
    ASSUME OwnerInv, OwnerInv', SettleInv, SettleInv', AimInv, PlaneInv, ObserverStep
    PROVE  AbstractStep
<1>1. CASE DataPlaneStep \/ ReloadStep \/ RollbackStep \/ CommitPublish \/ CommitRefused
             \/ CommitSwitch
  <2>1. stage \in Running
    BY <1>1 DEF Running, DataPlaneStep, ReloadStep, RollbackStep, CommitPublish,
       CommitRefused, CommitSwitch, Orch!Render, Orch!ProbeOk, Orch!RenderFails,
       Orch!ReloadFails, Orch!Restore, Orch!ProbeFails, Orch!Reload, Orch!UndoRender,
       Orch!ReloadPrev, Orch!ReloadPrevFails, Orch!CommitOk, Orch!CommitFails
  <2>2. UNCHANGED <<versions, activeRv, activeExit, switchInflight, settle, variation, trusted>>
    BY <1>1 DEF DataPlaneStep, ReloadStep, RollbackStep, CommitPublish, CommitRefused,
       CommitSwitch, dbVars, memVars, callVars, history
  <2>3. CallerReturns \/ ReloadStep \/ UNCHANGED req
    BY <1>1 DEF DataPlaneStep, RollbackStep, CommitPublish, CommitRefused, CommitSwitch,
       callVars
  <2> QED BY <2>1, <2>2, <2>3, LifecycleRefines
<1>2. CASE ObserverUnlocks
  <2>1. UNCHANGED <<disk, running, versions, activeRv, activeExit, switchInflight, req, settle,
                    variation, trusted>>
    BY <1>2 DEF ObserverUnlocks, Orch!Unlock, dbVars, memVars, callVars, history
  <2>2. Base' = Base
    BY <2>1, BaseSame
  <2> QED BY <2>1, <2>2, NoChange, Abstractly
<1>3. CASE ObservationAborted
  <2>1. /\ UNCHANGED <<disk, running, versions, activeRv, activeExit, switchInflight, req,
                       settle, variation>>
        /\ stage = "observe" /\ trusted' = FALSE
    BY <1>3 DEF ObservationAborted, Orch!ObserveAborted, dbVars, memVars, callVars
  <2>2. Base' = Base
    BY <2>1, BaseSame
  <2>3. async
    BY <2>1 DEF OwnerInv, OrchInv
  <2>4. variation
    BY <2>1, <2>3, Observing DEF Running
  <2> QED BY <2>1, <2>2, <2>4, GiveUpChange, Abstractly
<1> QED
  BY <1>1, <1>2, <1>3, CommitActivateRefines, OnHealthRulesRefines, OnHealthSwitchRefines,
     OnHealthReturnsRefines DEF ObserverStep

LEMMA ElsewhereRefines ==
    ASSUME OwnerInv, OwnerInv', SettleInv, SettleInv', PlaneInv, ExitStep \/ UnitStarted \/ Restart \/ UNCHANGED vars
    PROVE  AbstractStep
<1>1. CASE ExitStep \/ UNCHANGED vars
  <2>1. UNCHANGED <<disk, running, versions, activeRv, activeExit, switchInflight, req, settle,
                    variation, trusted>>
    BY <1>1 DEF ExitStep, AddExit, DeleteExitChecks, DeleteExitDeletes, vars, orchVars,
       dbVars, memVars, callVars, history
  <2>2. Base' = Base
    BY <2>1, BaseSame
  <2> QED BY <2>1, <2>2, NoChange, Abstractly
<1>2. CASE UnitStarted
  <2>1. PICK u \in Orch!Units : running[u] = Down
    BY <1>2 DEF UnitStarted, Orch!UnitStarted
  <2>2. UNCHANGED <<versions, activeRv, activeExit, switchInflight, req, settle, variation,
                    trusted>>
    BY <1>2 DEF UnitStarted, dbVars, memVars, callVars, history
  <2>3. Base' = Base
    BY <2>2, BaseSame
  <2>4. ~InForce(Base)
    BY <2>1, BaseTyped, DownAssumption DEF InForce, Units
  <2>5. ~trusted \/ variation
    BY <2>4, RestForce
  <2> QED BY <2>2, <2>3, <2>5, RepairChange, MoveChange, Abstractly
<1>3. CASE Restart
  <2>1. /\ variation' = FALSE /\ switchInflight' = {} /\ settle'.step = "none"
        /\ req' = [c \in Clients |-> IdleReq] /\ trusted' = (trusted /\ ~variation)
        /\ UNCHANGED <<disk, running, versions, activeRv, activeExit>>
    BY <1>3 DEF Restart, Orch!OrchRestart, dbVars, NoSettle
  <2>2. \A c \in Clients : req'[c].pc = "idle"
    BY <2>1 DEF IdleReq
  <2>3. Base' = Assembled' /\ Assembled' = Assembled
    BY <2>1, <2>2, BaseIsAssembledNext DEF Assembled, RulesOf
  <2>4. ~variation => Base' = Base
    <3>1. SUFFICES ASSUME ~variation
                   PROVE  Base' = Base
      OBVIOUS
    <3>2. /\ switchInflight = {} /\ settle.step = "none"
          /\ \A c \in Clients : req[c].pc \in {"idle", "rules"}
      BY <3>1, Quiet, SettleAlone DEF NothingRegistered, Owns
    <3> QED BY <2>3, <3>2, BaseIsAssembled
  <2>5. Base'.rules = Base.rules
    BY <2>1 DEF Base, RulesOf
  <2> QED BY <2>1, <2>4, <2>5, CutShortChange, Abstractly
<1> QED BY <1>1, <1>2, <1>3

LEMMA StepRefines ==
    ASSUME OwnerInv, OwnerInv', SettleInv, SettleInv', RefInv, AimInv, PlaneInv, [Next]_vars
    PROVE  AbstractStep
<1>1. ASSUME NEW c \in Clients, ClientStep(c)
      PROVE  AbstractStep
  BY <1>1, CallRefines, SwitchRefines, RulesReturnRefines, SwitchConfirmedRefines,
     SwitchReturnRefines, SwitchReleasesRefines DEF ClientStep
<1> QED BY <1>1, NewCallRefines, CompensationRefines, ObserverRefines, ElsewhereRefines DEF Next

(* Every step of the callers, the orchestrator, OnHealth, DeleteExit,       *)
(* systemd and a restart is a step of ConfigChange or none: one change at a *)
(* time, the database follows the data plane, and a change that does not    *)
(* report failure leaves both planes equal (applier.go:37-41,               *)
(* orchestrator.go:35-38).                                                  *)
THEOREM PipelineRefines == Spec => ImplementsConfigChange
<1>1. Init => Change!ChangeInit
  <2> SUFFICES ASSUME Init
               PROVE  Change!ChangeInit
    OBVIOUS
  <2>1. /\ switchInflight = {} /\ settle.step = "none" /\ SettleInv
        /\ \A c \in Clients : req[c].pc = "idle"
    BY DEF Init, IdleReq, NoSettle, SettleInv
  <2>2. Base = Assembled
    BY <2>1, InitOwner, BaseIsAssembled
  <2>3. Assembled = BootConfig
    BY DEF Init, Assembled, RulesOf, BootConfig
  <2>4. InForce(BootConfig)
    BY DEF Init, Orch!OrchInit, Orch!OrchStart, InForce, Units
  <2>5. BootConfig \in Configs
    BY <2>1, <2>3, InitOwner, BaseTyped
  <2>6. DataPlane = BootConfig
    BY <2>4, <2>5, PlaneOf
  <2>7. variation = FALSE /\ trusted = TRUE
    BY DEF Init
  <2> QED BY <2>2, <2>3, <2>6, <2>7 DEF Change!ChangeInit, Base
<1>2. OwnerInv /\ OwnerInv' /\ SettleInv /\ SettleInv' /\ RefInv /\ AimInv /\ PlaneInv
      /\ [Next]_vars => [Change!ChangeNext]_Change!changeVars
  <2> SUFFICES ASSUME OwnerInv, OwnerInv', SettleInv, SettleInv', RefInv, AimInv, PlaneInv,
                      [Next]_vars
               PROVE  [Change!ChangeNext]_Change!changeVars
    OBVIOUS
  <2>1. AbstractStep
    BY StepRefines
  <2> QED BY <2>1 DEF AbstractStep
<1> QED
  BY <1>1, <1>2, Ownership, References, Aims, Planes, PTL
  DEF Spec, ImplementsConfigChange, Change!ChangeSpec

(* ConfigChange says what it means to say: with every step of its own, the  *)
(* planes are equal while no change is open, unless one has been declared   *)
(* failed.                                                                  *)
THEOREM ChangesSettle == ImplementsConfigChange => []Change!Settled
<1>1. Change!ChangeInit => Change!Settled
  BY DEF Change!ChangeInit, Change!Settled
<1>2. Change!Settled /\ [Change!ChangeNext]_Change!changeVars => Change!Settled'
  <2> SUFFICES ASSUME Change!Settled, [Change!ChangeNext]_Change!changeVars
               PROVE  Change!Settled'
    OBVIOUS
  <2>1. CASE Change!Begin \/ Change!Move
    <3>1. variation'
      BY <2>1 DEF Change!Begin, Change!Move
    <3> QED BY <3>1 DEF Change!Settled
  <2>2. CASE Change!Confirm
    BY <2>2 DEF Change!Confirm, Change!Settled
  <2>3. CASE Change!GiveUp \/ Change!Repair \/ Change!CutShort
    BY <2>3 DEF Change!GiveUp, Change!Repair, Change!CutShort, Change!Settled
  <2>4. CASE UNCHANGED Change!changeVars
    BY <2>4 DEF Change!changeVars, Change!Settled
  <2>5. CASE Change!End
    BY <2>5 DEF Change!End, Change!Settled
  <2> QED BY <2>1, <2>2, <2>3, <2>4, <2>5 DEF Change!ChangeNext
<1> QED BY <1>1, <1>2, PTL DEF ImplementsConfigChange, Change!ChangeSpec

(* So does the pipeline that implements it: what the abstract specification *)
(* promises holds of the Applier, the orchestrator and DeleteExit.          *)
THEOREM PipelineSettles == Spec => []Change!Settled
  BY PipelineRefines, ChangesSettle, PTL
=============================================================================
