------------------------------ MODULE Upstream ------------------------------
(***************************************************************************)
(* One call of Upstream.Query (internal/resolver/upstream.go): the primary *)
(* pool is raced, a fallback pool joins after a delay, the first valid     *)
(* reply wins and a deadline ends the race.  Every source is a goroutine   *)
(* that runs dotConn.query; here that call is what its caller can see of   *)
(* it, a dial, a write and a wait, of which only the write is deaf to the  *)
(* context.                                                                *)
(***************************************************************************)
EXTENDS Naturals, Sequences, FiniteSets

CONSTANTS
    Addrs,    \* upstream addresses
    NoSource  \* no source

(* An address may be in both pools: a source is a place in a pool. *)
Sources == {"primary", "fallback"} \X Addrs

ASSUME UpstreamAssumption == IsFiniteSet(Addrs) /\ NoSource \notin Sources

VARIABLES
    primary,    \* the sources of the primary pool
    fallback,   \* the sources of the fallback pool
    noDelay,    \* FallbackDelay is zero
    ctx,        \* qctx: "live", "deadline" or "cancelled"
    pc,         \* Query: "start", "race", "wait" for the goroutines, "done"
    fbStarted,  \* fbStarted
    seen,       \* seen
    resCh,      \* resCh, a buffered channel
    src,        \* per source: the state of its goroutine
    result,     \* per source: what its goroutine has to report
    answer,     \* the source whose reply is returned, or NoSource
    why         \* history: why Query returned

pools == <<primary, fallback, noDelay>>
raceVars == <<pc, fbStarted, seen, resCh, answer, why>>
vars == <<pools, ctx, raceVars, src, result>>

Running == {"dial", "write", "wait", "send"}

TypeOK ==
    /\ primary \subseteq Sources /\ fallback \subseteq Sources
    /\ noDelay \in BOOLEAN
    /\ ctx \in {"live", "deadline", "cancelled"}
    /\ pc \in {"start", "race", "wait", "done"}
    /\ fbStarted \in BOOLEAN
    /\ seen \in 0..Cardinality(Sources)
    /\ resCh \in Seq(Sources) /\ Len(resCh) <= Cardinality(primary \cup fallback)
    /\ src \in [Sources -> Running \cup {"idle", "done"}]
    /\ result \in [Sources -> {"none", "valid", "rcode", "err"}]
    /\ answer \in Sources \cup {NoSource}
    /\ why \in {"none", "answer", "exhausted", "deadline", "cancelled", "unconfigured"}

(* Query is about to be called for some category. *)
Init ==
    /\ primary \in SUBSET ({"primary"} \X Addrs)
    /\ fallback \in SUBSET ({"fallback"} \X Addrs)
    /\ noDelay \in BOOLEAN
    /\ ctx = "live"
    /\ pc = "start"
    /\ fbStarted = FALSE
    /\ seen = 0
    /\ resCh = << >>
    /\ src = [s \in Sources |-> "idle"]
    /\ result = [s \in Sources |-> "none"]
    /\ answer = NoSource
    /\ why = "none"

----------------------------------------------------------------------------
(* Query *)

(* Mutant: the goroutines of the other pool are lost. *)
FireOnly(pool) == [s \in pool |-> "dial"]

(* fire: one goroutine per address. *)
Fire(pool) == [s \in Sources |-> IF s \in pool THEN "dial" ELSE src[s]]

Return(s, reason) == pc' = "done" /\ answer' = s /\ why' = reason

(* Mutant: the channel has room for the primary pool only. *)
CapacityPrimary == Cardinality(primary)

Capacity == Cardinality(primary) + Cardinality(fallback)

(* Mutant: the fallback sources that are still to come are not expected. *)
ExpectedPrimary == Cardinality(primary)

Expected == Cardinality(primary) + (IF fbStarted THEN Cardinality(fallback) ELSE 0)

(* Mutant: any reply ends the race. *)
IsReply(s) == result[s] \in {"valid", "rcode"}

(* isAuthoritative *)
IsAuthoritative(s) == result[s] = "valid"

Unconfigured ==
    /\ pc = "start" /\ primary \cup fallback = {}
    /\ Return(NoSource, "unconfigured")
    /\ UNCHANGED <<pools, ctx, fbStarted, seen, resCh, src, result>>

Begin ==
    /\ pc = "start" /\ primary \cup fallback # {}
    /\ pc' = "race"
    /\ fbStarted' = (fallback = {} \/ noDelay)
    /\ src' = Fire(IF noDelay THEN primary \cup fallback ELSE primary)
    /\ UNCHANGED <<pools, ctx, seen, resCh, result, answer, why>>

(* A result: a valid reply ends the race, as does the last failure. *)
Receive ==
    /\ pc = "race" /\ resCh # << >>
    /\ resCh' = Tail(resCh)
    /\ seen' = seen + 1
    /\ IF IsAuthoritative(Head(resCh)) THEN Return(Head(resCh), "answer")
       ELSE IF fbStarted /\ seen' >= Expected THEN Return(NoSource, "exhausted")
       ELSE UNCHANGED <<pc, answer, why>>
    /\ UNCHANGED <<pools, ctx, fbStarted, src, result>>

FallbackTimer ==
    /\ pc = "race" /\ ~fbStarted
    /\ fbStarted' = TRUE
    /\ src' = Fire(fallback)
    /\ UNCHANGED <<pools, ctx, pc, seen, resCh, result, answer, why>>

(* qctx is done: after a deadline the goroutines are waited for. *)
CtxDone ==
    /\ pc = "race" /\ ctx # "live"
    /\ IF ctx = "deadline"
         THEN pc' = "wait" /\ UNCHANGED <<answer, why>>
         ELSE Return(NoSource, "cancelled")
    /\ UNCHANGED <<pools, ctx, fbStarted, seen, resCh, src, result>>

(* Mutant: the wait ends with the first goroutine. *)
AnyDone == \E s \in Sources : src[s] = "done"

AllDone == \A s \in Sources : src[s] \notin Running

Waited ==
    /\ pc = "wait" /\ AllDone
    /\ Return(NoSource, "deadline")
    /\ UNCHANGED <<pools, ctx, fbStarted, seen, resCh, src, result>>

----------------------------------------------------------------------------
(* The context: the deadline passes or the caller goes away.  When Query    *)
(* returns its deferred cancel has the same effect on what still runs.      *)
Deadline ==
    /\ ctx = "live" /\ pc = "race"
    /\ ctx' = "deadline"
    /\ UNCHANGED <<pools, raceVars, src, result>>

Cancelled ==
    /\ ctx = "live" /\ pc = "race"
    /\ ctx' = "cancelled"
    /\ UNCHANGED <<pools, raceVars, src, result>>

DeferredCancel ==
    /\ ctx = "live" /\ pc = "done"
    /\ ctx' = "cancelled"
    /\ UNCHANGED <<pools, raceVars, src, result>>

----------------------------------------------------------------------------
(* queryOne *)

Report(s, r) ==
    /\ src' = [src EXCEPT ![s] = "send"]
    /\ result' = [result EXCEPT ![s] = r]

(* There is a connection, or the dial has succeeded. *)
Dialled(s) ==
    /\ src[s] = "dial"
    /\ src' = [src EXCEPT ![s] = "write"]
    /\ UNCHANGED <<pools, ctx, raceVars, result>>

(* writeFramed, which has no deadline. *)
Written(s) ==
    /\ src[s] = "write"
    /\ src' = [src EXCEPT ![s] = "wait"]
    /\ UNCHANGED <<pools, ctx, raceVars, result>>

(* A dial, a write or a connection fails. *)
Fails(s) ==
    /\ src[s] \in {"dial", "write", "wait"}
    /\ Report(s, "err")
    /\ UNCHANGED <<pools, ctx, raceVars>>

(* The upstream answers, with a valid rcode or with SERVFAIL and the like. *)
Replies(s) ==
    /\ src[s] = "wait"
    /\ \E r \in {"valid", "rcode"} : Report(s, r)
    /\ UNCHANGED <<pools, ctx, raceVars>>

(* dotConn.query sees that its context is done. *)
GivesUp(s) ==
    /\ src[s] \in {"dial", "wait"} /\ ctx # "live"
    /\ Report(s, "err")
    /\ UNCHANGED <<pools, ctx, raceVars>>

(* resCh <- result *)
Sends(s) ==
    /\ src[s] = "send" /\ Len(resCh) < Capacity
    /\ resCh' = Append(resCh, s)
    /\ src' = [src EXCEPT ![s] = "done"]
    /\ UNCHANGED <<pools, ctx, pc, fbStarted, seen, answer, why, result>>

----------------------------------------------------------------------------
QueryStep ==
    \/ Unconfigured \/ Begin \/ Receive \/ FallbackTimer \/ CtxDone \/ Waited

Network(s) == Dialled(s) \/ Written(s) \/ Fails(s) \/ Replies(s)

Done == pc = "done" /\ ctx # "live" /\ UNCHANGED vars

Next ==
    \/ QueryStep \/ Deadline \/ Cancelled \/ DeferredCancel
    \/ \E s \in Sources : Network(s) \/ GivesUp(s) \/ Sends(s)
    \/ Done

Spec == Init /\ [][Next]_vars

(* Timers fire, goroutines run, and a write ends: the send buffer of a      *)
(* connection is not full.  Nothing is assumed of the upstreams.            *)
Fairness ==
    /\ WF_vars(QueryStep) /\ WF_vars(Deadline) /\ WF_vars(DeferredCancel)
    /\ \A s \in Sources :
          WF_vars(GivesUp(s)) /\ WF_vars(Sends(s)) /\ WF_vars(Written(s))

LiveSpec == Spec /\ Fairness

----------------------------------------------------------------------------
(* A failure is returned before the deadline only when both pools have been *)
(* tried and every source has failed (upstream.go:242-251): a healthy       *)
(* fallback is not given up for a primary pool that fails fast.             *)
GivesUpLast ==
    why = "exhausted" =>
        \A s \in primary \cup fallback : src[s] = "done" /\ result[s] \in {"rcode", "err"}

(* SERVFAIL and the like never win, and the tier is that of the source that *)
(* answered (upstream.go:162-166): a fallback source wins only after the    *)
(* fallback has been started.                                               *)
WinnerIsValid ==
    answer # NoSource =>
        /\ result[answer] = "valid" /\ src[answer] = "done"
        /\ answer \in fallback => fbStarted

(* When the deadline is reported, no goroutine holds a connection any more: *)
(* an immediate retry cannot reuse a blackholed one (upstream.go:260-265).  *)
DeadlineRetires ==
    why = "deadline" => \A s \in Sources : src[s] \in {"idle", "done"}

(* Nobody inside Query waits for what may not come: a goroutine with a      *)
(* result finds room in the channel whether or not Query still receives     *)
(* (upstream.go:194-196), and Query waits for its goroutines only when      *)
(* their context has told them to give up (upstream.go:259-271).            *)
NobodyIsStuck ==
    /\ \A s \in Sources : src[s] = "send" => Len(resCh) < Capacity
    /\ pc = "wait" => ctx = "deadline"

(* What Query returns, when it returns it, and that nothing keeps it. *)
QueryConsistent ==
    TypeOK /\ GivesUpLast /\ WinnerIsValid /\ DeadlineRetires /\ NobodyIsStuck

(* No goroutine outlives its context: the channel has room for a result     *)
(* nobody receives (upstream.go:194-196).                                   *)
NothingLeft ==
    [](pc = "done" => <>(\A s \in Sources : src[s] \in {"idle", "done"}))

(* Query returns, if writes do: after the deadline it waits for goroutines  *)
(* that send to a channel it no longer receives from (upstream.go:259-271). *)
Returns == <>(pc = "done")
=============================================================================
