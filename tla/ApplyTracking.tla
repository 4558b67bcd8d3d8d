--------------------------- MODULE ApplyTracking ---------------------------
(***************************************************************************)
(* From the rules editor to the answer about an apply (internal/api:       *)
(* rules.go, applies.go; db: InsertSnapshot, ApplyStatusBySnapshot). An    *)
(* apply merges the submitted rules with the expansion of the rule set,    *)
(* gets the snapshot of that list (one per list, reused) and a row of      *)
(* apply_status, and is tracked by an entry of a bounded ring. An entry    *)
(* knows its snapshot only: when it is polled, the outcome is looked up by *)
(* snapshot, in the Applier's memory first and then in the newest row.     *)
(*                                                                         *)
(* The Applier is abstracted to what this needs of the module Applier: one *)
(* variation at a time, an outcome that is persisted before the variation  *)
(* ends, and the fallback in memory when the row cannot be written.        *)
(***************************************************************************)
EXTENDS RuleTable

CONSTANTS
    Bodies,      \* lists the operator submits
    Starts,      \* lists that are active when the daemon boots
    Expansion,   \* the rules of the rule set's cached content
    Asked,       \* what is asked for
    ExitIds,     \* ids of exits
    RingCap,     \* applyRingCap
    MaxApplies   \* bound on applies

ASSUME TrackingAssumption == RingCap \in Nat \ {0} /\ MaxApplies \in Nat \ {0}

ASSUME AskedAssumption ==
    \A q \in Asked : q = [name |-> q.name, nets |-> q.nets, lists |-> q.lists]

VARIABLES
    active,    \* the active rule version
    applies,   \* apply_status: the rows, each with the outcome its apply really had
    phase,     \* the running apply: "none", "running", "observed" or "persisted"
    memory,    \* TerminalStatus: the fallback by snapshot, as a set of records
    answer,    \* an apply has returned and its handler has not created the entry yet
    ring,      \* applyStore: the entries, oldest first
    poll       \* a request that refreshes an entry

atVars == <<active, applies, phase, memory, answer, ring, poll>>

Final == {"succeeded", "failed"}
NoAnswer == [apply |-> 0, health |-> "none"]
NoPoll == [entry |-> 0, verdict |-> "none"]

AtTypeOK ==
    /\ \A i \in DOMAIN applies : applies[i].row \in {"submitted"} \cup Final
                              /\ applies[i].outcome \in {"open"} \cup Final
    /\ phase \in {"none", "running", "observed", "persisted"}
    /\ answer.apply \in 0..MaxApplies /\ answer.health \in {"none", "observing", "ended"}
    /\ \A k \in DOMAIN ring : ring[k].apply \in DOMAIN applies
                           /\ ring[k].status \in {"pending"} \cup Final
    /\ poll.entry \in 0..MaxApplies /\ poll.verdict \in {"none"} \cup Final
    /\ Len(applies) <= MaxApplies /\ Len(ring) <= RingCap

\* A new database, or one that an earlier run of the daemon has left; the ring and the
\* fallback begin empty.
AtInit ==
    /\ \/ active = <<>> /\ applies = <<>>
       \/ /\ active \in {l \in Starts : Validate(l)}
          /\ applies = <<[list |-> active, row |-> "succeeded", outcome |-> "succeeded"]>>
    /\ phase = "none" /\ memory = {}
    /\ answer = NoAnswer /\ ring = <<>> /\ poll = NoPoll

-----------------------------------------------------------------------------
(* The list                                                                 *)

\* stripRulesetExpansions: the rules of a set that is registered are dropped.
Strip(l, set) == SelectSeq(l, LAMBDA r : set = "gone" \/ r.grp = "")

\* expandRulesets: an enabled set adds the rules of its content.
Merged(l, set) == Strip(l, set) \o (IF set = "on" THEN Expansion ELSE <<>>)

Snapshot(i) == applies[i].list
Last == Len(applies)

\* Mutant: the fallback of an earlier apply of the snapshot survives.
KeepMemory(l) == memory

\* clearTerminalStatus
ForgetSnapshot(l) == {t \in memory : t.list /= l}

\* handleApply up to the Applier, and InsertSnapshot. The panel submits what the
\* operator wrote, or the active list with a change elsewhere. The rule set may have
\* been registered, toggled or deleted since the last apply. An invalid list is
\* refused, and so is an apply next to another variation.
Apply ==
    /\ Last < MaxApplies
    /\ answer = NoAnswer /\ phase = "none"
    /\ \E body \in Bodies \cup {active}, set \in {"gone", "off", "on"} :
          LET l == Merged(body, set)
          IN /\ Validate(l)
             /\ applies' = Append(applies, [list |-> l, row |-> "submitted", outcome |-> "open"])
             /\ memory' = ForgetSnapshot(l)
    /\ phase' = "running"
    /\ UNCHANGED <<active, answer, ring, poll>>

-----------------------------------------------------------------------------
(* The Applier (abstracted)                                                 *)

\* The outcome, for the data plane and the active rules.
Outcome ==
    /\ phase = "running"
    /\ \E o \in Final :
          /\ applies' = [applies EXCEPT ![Last].outcome = o]
          /\ active' = IF o = "succeeded" THEN Snapshot(Last) ELSE active
    /\ phase' = "observed"
    /\ UNCHANGED <<memory, answer, ring, poll>>

\* persistApplyStatus: the row, or the fallback.
Persist ==
    /\ phase = "observed"
    /\ \/ /\ applies' = [applies EXCEPT ![Last].row = applies[Last].outcome]
          /\ memory' = ForgetSnapshot(Snapshot(Last))
       \/ /\ memory' = ForgetSnapshot(Snapshot(Last)) \cup
                         {[list |-> Snapshot(Last), state |-> applies[Last].outcome]}
          /\ UNCHANGED applies
    /\ phase' = "persisted"
    /\ UNCHANGED <<active, answer, ring, poll>>

EndVariation ==
    /\ phase = "persisted"
    /\ answer /= NoAnswer \/ \E k \in DOMAIN ring : ring[k].apply >= Last
    /\ phase' = "none"
    /\ UNCHANGED <<active, applies, memory, answer, ring, poll>>

\* ApplyRules returns while the outcome is observed, or with it: then the variation is
\* over, and an outcome that is not a success and not a rollback is an error that
\* no entry is made for.
Return ==
    /\ answer = NoAnswer /\ phase /= "none"
    /\ \A k \in DOMAIN ring : ring[k].apply < Last
    /\ \/ /\ phase \in {"running", "observed", "persisted"}
          /\ answer' = [apply |-> Last, health |-> "observing"]
          /\ UNCHANGED phase
       \/ /\ phase = "persisted"
          /\ answer' = [apply |-> Last, health |-> "ended"]
          /\ phase' = "none"
    /\ UNCHANGED <<active, applies, memory, ring, poll>>

-----------------------------------------------------------------------------
(* The ring                                                                 *)

\* create: the oldest entry leaves a full ring.
Created(e) ==
    LET longer == Append(ring, e)
    IN IF Len(longer) > RingCap THEN Tail(longer) ELSE longer

\* trackApplyResult: an apply that has ended gets its own outcome.
Track ==
    /\ answer /= NoAnswer
    /\ ring' = Created([apply |-> answer.apply,
                        status |-> IF answer.health = "ended" THEN applies[answer.apply].outcome
                                   ELSE "pending"])
    /\ answer' = NoAnswer
    /\ UNCHANGED <<active, applies, phase, memory, poll>>

\* refreshApplyEntry begins with a copy of a pending entry.
PollRead ==
    /\ poll = NoPoll
    /\ \E k \in DOMAIN ring : ring[k].status = "pending"
                           /\ poll' = [entry |-> ring[k].apply, verdict |-> "none"]
    /\ UNCHANGED <<active, applies, phase, memory, answer, ring>>

\* ApplyStatusBySnapshot
NewestRow(l) == CHOOSE i \in DOMAIN applies : /\ Snapshot(i) = l
                                             /\ \A j \in DOMAIN applies : Snapshot(j) = l => j <= i

Verdict(l) ==
    IF \E t \in memory : t.list = l THEN (CHOOSE t \in memory : t.list = l).state
    ELSE applies[NewestRow(l)].row

\* TerminalStatus, then the newest row; a submitted row leaves the entry as it is.
PollLook ==
    /\ poll /= NoPoll /\ poll.verdict = "none"
    /\ LET v == Verdict(Snapshot(poll.entry))
       IN poll' = IF v = "submitted" THEN NoPoll ELSE [poll EXCEPT !.verdict = v]
    /\ UNCHANGED <<active, applies, phase, memory, answer, ring>>

\* finish: only a pending entry that is still in the ring.
PollFinish ==
    /\ poll.verdict /= "none"
    /\ ring' = [k \in DOMAIN ring |->
                  IF ring[k].apply = poll.entry /\ ring[k].status = "pending"
                  THEN [ring[k] EXCEPT !.status = poll.verdict] ELSE ring[k]]
    /\ poll' = NoPoll
    /\ UNCHANGED <<active, applies, phase, memory, answer>>

AtNext ==
    \/ Apply \/ Outcome \/ Persist \/ EndVariation \/ Return \/ Track
    \/ PollRead \/ PollLook \/ PollFinish

-----------------------------------------------------------------------------
(* Properties                                                               *)

\* An entry that says how its apply ended says so truthfully: it has the outcome of
\* that apply or, when the same rules were applied again before anybody asked, of a
\* later apply of them; never of an earlier one, and never that of an apply that is
\* still open.
TrackedTruthfully ==
    /\ AtTypeOK
    /\ \A k \in DOMAIN ring : ring[k].status /= "pending" =>
          \E i \in ring[k].apply..Last :
             Snapshot(i) = Snapshot(ring[k].apply) /\ applies[i].outcome = ring[k].status

\* The resolver, mihomo and the dry run read the active rules alike: every list that
\* passed Validate, manual rules and rule set together, sends what one of its rules
\* decides the same way in the dry run and in the first line that matches, and in the
\* resolver's table too when that rule is one on names. Validate's word on MATCH is
\* about the unsorted list with its disabled rules.
PlanesClassifyAlike ==
    LET s == Ranked(active)
    IN /\ MatchLast(s)
       /\ \A q \in Asked, activeExit \in ExitIds, baseExit \in ExitIds \cup {""} :
             AgreeOn(s, q, activeExit, baseExit)

=============================================================================
