--------------------------- MODULE UpstreamProofs ---------------------------
(***************************************************************************)
(* What Upstream.Query returns, for every pair of pools.  The properties   *)
(* speak of the return; the invariant accounts for every source before it: *)
(* a source that was fired runs, or its one result is in the channel, or   *)
(* the result has been received and counted.                               *)
(***************************************************************************)
EXTENDS Upstream, FiniteSetTheorems, TLAPS

PoolsInv ==
    /\ primary \in SUBSET ({"primary"} \X Addrs)
    /\ fallback \in SUBSET ({"fallback"} \X Addrs)

(* The sources whose goroutines have been started. *)
Fired == IF pc = "start" THEN {} ELSE primary \cup (IF fbStarted THEN fallback ELSE {})

SourcesInv ==
    \A s \in Sources : /\ src[s] = "idle" <=> s \notin Fired
                       /\ src[s] \in {"send", "done"} => result[s] # "none"

Queued == {resCh[i] : i \in 1..Len(resCh)}

Received == {s \in Sources : src[s] = "done" /\ s \notin Queued}

(* A source reports once: its result is queued or was counted. *)
ChannelInv ==
    /\ \A i, j \in 1..Len(resCh) : resCh[i] = resCh[j] => i = j
    /\ \A i \in 1..Len(resCh) : src[resCh[i]] = "done"
    /\ seen = Cardinality(Received)

(* Nothing is decided during the race, what was received has failed, and    *)
(* the goroutines that are waited for know of the deadline.                 *)
RaceInv ==
    /\ pc # "done" => why = "none" /\ answer = NoSource
    /\ pc = "race" => \A s \in Received : result[s] \in {"rcode", "err"}
    /\ pc = "wait" => ctx = "deadline"

IInv ==
    /\ TypeOK /\ PoolsInv /\ SourcesInv /\ ChannelInv /\ RaceInv
    /\ GivesUpLast /\ WinnerIsValid /\ DeadlineRetires

----------------------------------------------------------------------------
(* Counting *)

LEMMA SourcesFinite ==
    \A S \in SUBSET Sources : IsFiniteSet(S) /\ Cardinality(S) \in Nat
                              /\ Cardinality(S) <= Cardinality(Sources)
<1>1. IsFiniteSet({"primary", "fallback"})
  <2>1. IsFiniteSet({"primary"})
    BY FS_Singleton
  <2>2. IsFiniteSet({"primary"} \cup {"fallback"})
    BY <2>1, FS_AddElement
  <2>3. {"primary", "fallback"} = {"primary"} \cup {"fallback"}
    OBVIOUS
  <2> QED BY <2>2, <2>3
<1>2. IsFiniteSet(Sources)
  BY <1>1, UpstreamAssumption, FS_Product DEF Sources
<1> QED BY <1>2, FS_Subset, FS_CardinalityType

LEMMA SourcesCounted == Cardinality(Sources) \in Nat
  BY SourcesFinite

(* The pools have no source in common. *)
LEMMA PoolsApart ==
    ASSUME PoolsInv
    PROVE  /\ primary \cap fallback = {} /\ primary \cup fallback \in SUBSET Sources
           /\ Cardinality(primary \cup fallback) = Cardinality(primary) + Cardinality(fallback)
<1>1. primary \in SUBSET Sources /\ fallback \in SUBSET Sources
  BY DEF PoolsInv, Sources
<1>2. primary \cap fallback = {}
  BY DEF PoolsInv
<1>3. IsFiniteSet(primary) /\ IsFiniteSet(fallback) /\ Cardinality(primary) \in Nat /\ Cardinality(fallback) \in Nat
  BY <1>1, SourcesFinite
<1>4. Cardinality(primary \cup fallback) = Cardinality(primary) + Cardinality(fallback)
  <2>1. Cardinality(primary \cup fallback)
          = Cardinality(primary) + Cardinality(fallback) - Cardinality(primary \cap fallback)
    BY <1>3, FS_Union
  <2>2. Cardinality(primary \cap fallback) = 0
    BY <1>2, FS_EmptySet
  <2> QED BY <1>3, <2>1, <2>2
<1> QED BY <1>1, <1>2, <1>3, <1>4

LEMMA Queue ==
    ASSUME TypeOK
    PROVE  Queued \in SUBSET Sources /\ Len(resCh) \in Nat /\ Received \in SUBSET Sources
  BY DEF TypeOK, Queued, Received

----------------------------------------------------------------------------
(* Steps that leave the sources alone *)

LEMMA Kept ==
    ASSUME IInv, UNCHANGED <<pools, seen, resCh, src, result>>, Fired' = Fired
    PROVE  SourcesInv' /\ ChannelInv' /\ PoolsInv' /\ Received' = Received
<1>1. UNCHANGED <<primary, fallback, noDelay>>
  BY DEF pools
<1>2. Queued' = Queued /\ Received' = Received
  BY DEF Queued, Received
<1> QED BY <1>1, <1>2 DEF IInv, SourcesInv, ChannelInv, PoolsInv

LEMMA CtxInv ==
    ASSUME IInv, Deadline \/ Cancelled \/ DeferredCancel \/ UNCHANGED vars
    PROVE  IInv'
<1>1. /\ UNCHANGED <<pools, seen, resCh, src, result>> /\ UNCHANGED <<primary, fallback, noDelay>>
      /\ UNCHANGED <<pc, fbStarted, answer, why>> /\ ctx' \in {"live", "deadline", "cancelled"}
      /\ ctx = "live" \/ ctx' = ctx
  BY DEF Deadline, Cancelled, DeferredCancel, vars, raceVars, pools, IInv, TypeOK
<1>2. Fired' = Fired
  BY <1>1 DEF Fired
<1>3. SourcesInv' /\ ChannelInv' /\ PoolsInv' /\ Received' = Received
  BY <1>1, <1>2, Kept
<1>4. TypeOK'
  BY <1>1 DEF IInv, TypeOK
<1>5. RaceInv' /\ GivesUpLast' /\ WinnerIsValid' /\ DeadlineRetires'
  BY <1>1, <1>3 DEF IInv, RaceInv, GivesUpLast, WinnerIsValid, DeadlineRetires
<1> QED BY <1>3, <1>4, <1>5 DEF IInv

(* Query returns without an answer, or starts to wait. *)
LEMMA ReturnInv ==
    ASSUME IInv, Unconfigured \/ CtxDone \/ Waited
    PROVE  IInv'
<1>1. /\ UNCHANGED <<pools, seen, resCh, src, result>> /\ UNCHANGED <<primary, fallback, noDelay>>
      /\ UNCHANGED <<ctx, fbStarted>>
  BY DEF Unconfigured, CtxDone, Waited, pools
<1>2. Fired' = Fired
  BY <1>1 DEF Fired, Unconfigured, CtxDone, Waited, Return
<1>3. SourcesInv' /\ ChannelInv' /\ PoolsInv' /\ Received' = Received
  BY <1>1, <1>2, Kept
<1>4. /\ pc' \in {"wait", "done"} /\ answer' = NoSource
      /\ pc' = "wait" => why' = "none"
      /\ why' \in {"none", "deadline", "cancelled", "unconfigured"}
      /\ why' = "deadline" => AllDone
      /\ pc' = "wait" => ctx' = "deadline"
  BY DEF Unconfigured, CtxDone, Waited, Return, IInv, RaceInv
<1>5. TypeOK'
  BY <1>1, <1>4 DEF IInv, TypeOK
<1>6. RaceInv' /\ GivesUpLast' /\ WinnerIsValid'
  BY <1>4 DEF RaceInv, GivesUpLast, WinnerIsValid
<1>7. DeadlineRetires'
  BY <1>1, <1>4 DEF DeadlineRetires, AllDone, IInv, TypeOK
<1> QED BY <1>3, <1>5, <1>6, <1>7 DEF IInv

----------------------------------------------------------------------------
(* The pools are fired. *)

LEMMA FireInv ==
    ASSUME IInv, Begin \/ FallbackTimer
    PROVE  IInv'
<1>1. PICK pool : /\ pool \in SUBSET (primary \cup fallback) /\ src' = Fire(pool)
                  /\ pool \cap Fired = {} /\ Fired' = Fired \cup pool
  <2>1. CASE Begin
    <3>1. PICK pool : pool = IF noDelay THEN primary \cup fallback ELSE primary
      OBVIOUS
    <3>2. src' = Fire(pool) /\ Fired = {} /\ Fired' = pool
      BY <2>1, <3>1 DEF Begin, Fired, pools, IInv, TypeOK
    <3> QED BY <3>1, <3>2
  <2>2. CASE FallbackTimer
    <3>1. src' = Fire(fallback) /\ Fired = primary /\ Fired' = primary \cup fallback
      BY <2>2 DEF FallbackTimer, Fired, pools
    <3> QED BY <3>1, PoolsApart DEF IInv
  <2> QED BY <2>1, <2>2
<1>2. /\ UNCHANGED <<primary, fallback, noDelay, ctx, seen, resCh, result, answer, why>>
      /\ pc # "done" /\ pc' = "race" /\ fbStarted' \in BOOLEAN
      /\ pc = "start" \/ pc = "race"
  BY DEF Begin, FallbackTimer, pools, IInv, TypeOK
<1>3. pool \in SUBSET Sources /\ src \in [Sources -> Running \cup {"idle", "done"}]
  BY <1>1, PoolsApart DEF IInv, TypeOK
<1>4. \A s \in Sources : IF s \in pool THEN src[s] = "idle" /\ src'[s] = "dial" ELSE src'[s] = src[s]
  BY <1>1, <1>3 DEF Fire, IInv, SourcesInv
<1>5. TypeOK'
  <2>1. src' \in [Sources -> Running \cup {"idle", "done"}]
    BY <1>1, <1>3 DEF Fire, Running
  <2> QED BY <1>2, <2>1 DEF IInv, TypeOK
<1>6. PoolsInv'
  BY <1>2 DEF IInv, PoolsInv
<1>7. SourcesInv'
  BY <1>1, <1>2, <1>4 DEF IInv, SourcesInv
<1>8. Queued' = Queued /\ Received' = Received
  BY <1>2, <1>4 DEF Queued, Received
<1>9. ChannelInv'
  <2>1. \A i \in 1..Len(resCh) : resCh[i] \in Sources
    BY DEF IInv, TypeOK
  <2> QED BY <1>2, <1>4, <1>8, <2>1 DEF IInv, ChannelInv
<1>10. RaceInv'
  <2>1. CASE pc = "start"
    <3>1. Received = {}
      BY <2>1 DEF IInv, SourcesInv, Fired, Received
    <3> QED BY <1>2, <1>8, <3>1 DEF IInv, RaceInv
  <2>2. CASE pc = "race"
    BY <1>2, <1>8, <2>2 DEF IInv, RaceInv
  <2> QED BY <1>2, <2>1, <2>2
<1>11. GivesUpLast' /\ WinnerIsValid' /\ DeadlineRetires'
  BY <1>2 DEF IInv, RaceInv, GivesUpLast, WinnerIsValid, DeadlineRetires
<1> QED BY <1>5, <1>6, <1>7, <1>9, <1>10, <1>11 DEF IInv

----------------------------------------------------------------------------
(* The goroutine of a source goes on. *)

LEMMA SourceMoves ==
    ASSUME IInv, NEW s \in Sources, NEW to \in Running, NEW r \in {"none", "valid", "rcode", "err"},
           src[s] \in Running, src' = [src EXCEPT ![s] = to], result' = [result EXCEPT ![s] = r],
           to = "send" => r # "none", UNCHANGED <<pools, ctx, raceVars>>
    PROVE  IInv'
<1>1. /\ UNCHANGED <<primary, fallback, noDelay, ctx>>
      /\ UNCHANGED <<pc, fbStarted, seen, resCh, answer, why>>
  BY DEF pools, raceVars
<1>2. /\ src \in [Sources -> Running \cup {"idle", "done"}]
      /\ result \in [Sources -> {"none", "valid", "rcode", "err"}]
  BY DEF IInv, TypeOK
<1>3. /\ src'[s] = to /\ \A t \in Sources \ {s} : src'[t] = src[t] /\ result'[t] = result[t]
      /\ result'[s] = r /\ src[s] \notin {"idle", "done"} /\ to \notin {"idle", "done"}
  BY <1>2 DEF Running
<1>4. TypeOK'
  BY <1>1, <1>2 DEF IInv, TypeOK
<1>5. Fired' = Fired /\ PoolsInv'
  BY <1>1 DEF Fired, IInv, PoolsInv
<1>6. SourcesInv'
  BY <1>3, <1>5 DEF IInv, SourcesInv
<1>7. Queued' = Queued /\ Received' = Received /\ s \notin Received
  BY <1>1, <1>3 DEF Queued, Received
<1>8. ChannelInv'
  <2>1. \A i \in 1..Len(resCh) : resCh[i] \in Sources /\ resCh[i] # s
    BY <1>3 DEF IInv, TypeOK, ChannelInv
  <2> QED BY <1>1, <1>3, <1>7, <2>1 DEF IInv, ChannelInv
<1>9. RaceInv'
  <2>1. \A t \in Received : result'[t] = result[t]
    BY <1>3, <1>7 DEF Received
  <2> QED BY <1>1, <1>7, <2>1 DEF IInv, RaceInv
<1>10. GivesUpLast'
  <2>1. \A t \in Sources : src[t] = "done" => src'[t] = "done" /\ result'[t] = result[t]
    BY <1>3
  <2>2. primary \cup fallback \in SUBSET Sources
    BY PoolsApart DEF IInv
  <2> QED BY <1>1, <2>1, <2>2 DEF IInv, GivesUpLast
<1>11. WinnerIsValid'
  BY <1>1, <1>3 DEF IInv, WinnerIsValid, TypeOK
<1>12. DeadlineRetires'
  BY <1>1, <1>3 DEF IInv, DeadlineRetires
<1> QED BY <1>4, <1>5, <1>6, <1>8, <1>9, <1>10, <1>11, <1>12 DEF IInv

LEMMA NetworkInv ==
    ASSUME IInv, NEW s \in Sources, Network(s) \/ GivesUp(s)
    PROVE  IInv'
<1>1. /\ result = [result EXCEPT ![s] = result[s]] /\ result[s] \in {"none", "valid", "rcode", "err"}
  BY DEF IInv, TypeOK
<1>2. CASE Dialled(s) \/ Written(s)
  <2>1. PICK to \in {"write", "wait"} : src' = [src EXCEPT ![s] = to]
    BY <1>2 DEF Dialled, Written
  <2>2. PICK r : r = result[s]
    OBVIOUS
  <2>3. /\ src[s] \in Running /\ UNCHANGED <<pools, ctx, raceVars>> /\ to \in Running /\ to # "send"
        /\ result' = [result EXCEPT ![s] = r] /\ r \in {"none", "valid", "rcode", "err"}
    BY <1>1, <1>2, <2>2 DEF Dialled, Written, Running
  <2> QED BY <2>1, <2>3, SourceMoves
<1>3. CASE Fails(s) \/ Replies(s) \/ GivesUp(s)
  <2>1. PICK r \in {"valid", "rcode", "err"} :
            src' = [src EXCEPT ![s] = "send"] /\ result' = [result EXCEPT ![s] = r]
    BY <1>3 DEF Fails, Replies, GivesUp, Report
  <2>2. src[s] \in Running /\ UNCHANGED <<pools, ctx, raceVars>> /\ "send" \in Running
    BY <1>3 DEF Fails, Replies, GivesUp, Running
  <2> QED BY <2>1, <2>2, SourceMoves
<1> QED BY <1>2, <1>3 DEF Network

(* The result is queued: it is neither received nor lost. *)
LEMMA SendsInv ==
    ASSUME IInv, NEW s \in Sources, Sends(s)
    PROVE  IInv'
<1>1. /\ src[s] = "send" /\ Len(resCh) < Capacity
      /\ resCh' = Append(resCh, s) /\ src' = [src EXCEPT ![s] = "done"]
      /\ UNCHANGED <<primary, fallback, noDelay, ctx, pc, fbStarted, seen, answer, why, result>>
  BY DEF Sends, pools
<1>2. /\ src \in [Sources -> Running \cup {"idle", "done"}] /\ resCh \in Seq(Sources)
      /\ Len(resCh) \in Nat
  BY DEF IInv, TypeOK
<1>3. src'[s] = "done" /\ \A t \in Sources \ {s} : src'[t] = src[t]
  BY <1>1, <1>2
<1>4. /\ Len(resCh') = Len(resCh) + 1 /\ resCh' \in Seq(Sources) /\ resCh'[Len(resCh) + 1] = s
      /\ \A i \in 1..Len(resCh) : resCh'[i] = resCh[i]
  BY <1>1, <1>2
<1>5. \A i \in 1..Len(resCh) : resCh[i] \in Sources /\ resCh[i] # s
  BY <1>1, <1>2 DEF IInv, ChannelInv
<1>6. TypeOK'
  <2>1. Len(resCh') <= Cardinality(primary \cup fallback)
    <3>1. Cardinality(primary \cup fallback) = Capacity
      BY PoolsApart DEF IInv, Capacity
    <3>2. Cardinality(primary \cup fallback) \in Nat
      BY PoolsApart, SourcesFinite DEF IInv
    <3> QED BY <1>1, <1>2, <1>4, <3>1, <3>2
  <2>2. src' \in [Sources -> Running \cup {"idle", "done"}]
    BY <1>1, <1>2
  <2> QED BY <1>1, <1>4, <2>1, <2>2 DEF IInv, TypeOK
<1>7. Fired' = Fired /\ PoolsInv'
  BY <1>1 DEF Fired, IInv, PoolsInv
<1>8. SourcesInv'
  BY <1>1, <1>3, <1>7 DEF IInv, SourcesInv
<1>9. Queued' = Queued \cup {s}
  <2>1. 1..Len(resCh') = 1..Len(resCh) \cup {Len(resCh) + 1}
    BY <1>2, <1>4
  <2> QED BY <1>4, <2>1 DEF Queued
<1>10. Received' = Received
  BY <1>1, <1>3, <1>9 DEF Received
<1>11. ChannelInv'
  <2>1. \A i, j \in 1..Len(resCh') : resCh'[i] = resCh'[j] => i = j
    <3>1. \A i \in 1..Len(resCh') : i \in 1..Len(resCh) \/ i = Len(resCh) + 1
      BY <1>2, <1>4
    <3>2. \A i, j \in 1..Len(resCh) : resCh'[i] = resCh'[j] => i = j
      BY <1>4 DEF IInv, ChannelInv
    <3>3. \A i \in 1..Len(resCh) : resCh'[i] # resCh'[Len(resCh) + 1]
      BY <1>4, <1>5
    <3> QED BY <3>1, <3>2, <3>3
  <2>2. \A i \in 1..Len(resCh') : src'[resCh'[i]] = "done"
    <3>1. \A i \in 1..Len(resCh') : i \in 1..Len(resCh) \/ i = Len(resCh) + 1
      BY <1>2, <1>4
    <3>2. \A i \in 1..Len(resCh) : src'[resCh'[i]] = "done"
      BY <1>3, <1>4, <1>5 DEF IInv, ChannelInv
    <3> QED BY <1>3, <1>4, <3>1, <3>2
  <2> QED BY <1>1, <1>10, <2>1, <2>2 DEF IInv, ChannelInv
<1>12. RaceInv'
  BY <1>1, <1>10 DEF IInv, RaceInv
<1>13. GivesUpLast'
  <2>1. \A t \in Sources : src[t] = "done" => src'[t] = "done"
    BY <1>3
  <2>2. primary \cup fallback \in SUBSET Sources
    BY PoolsApart DEF IInv
  <2> QED BY <1>1, <2>1, <2>2 DEF IInv, GivesUpLast
<1>14. WinnerIsValid'
  BY <1>1, <1>3 DEF IInv, WinnerIsValid, TypeOK
<1>15. DeadlineRetires'
  BY <1>1, <1>3 DEF IInv, DeadlineRetires
<1> QED BY <1>6, <1>7, <1>8, <1>11, <1>12, <1>13, <1>14, <1>15 DEF IInv

----------------------------------------------------------------------------
(* A result is received. *)

LEMMA ReceiveInv ==
    ASSUME IInv, Receive
    PROVE  IInv'
<1>1. PICK h : h = Head(resCh)
  OBVIOUS
<1>2. /\ pc = "race" /\ resCh # << >> /\ resCh' = Tail(resCh) /\ seen' = seen + 1
      /\ UNCHANGED <<primary, fallback, noDelay, ctx, fbStarted, src, result>>
  BY DEF Receive, pools
<1>3. resCh \in Seq(Sources) /\ Len(resCh) \in Nat /\ Len(resCh) > 0
  BY <1>2 DEF IInv, TypeOK
<1>4. /\ h = resCh[1] /\ h \in Sources /\ Len(resCh') = Len(resCh) - 1 /\ resCh' \in Seq(Sources)
      /\ \A i \in 1..Len(resCh') : resCh'[i] = resCh[i + 1]
  BY <1>1, <1>2, <1>3
<1>5. \A i, j \in 1..Len(resCh) : resCh[i] = resCh[j] => i = j
  BY DEF IInv, ChannelInv
<1>6. h \in Queued /\ src[h] = "done"
  BY <1>3, <1>4 DEF Queued, IInv, ChannelInv
<1>7. Queued' = Queued \ {h}
  <2>1. \A i \in 1..Len(resCh') : i + 1 \in 1..Len(resCh) /\ resCh[i + 1] # h
    BY <1>3, <1>4, <1>5
  <2>2. \A i \in 1..Len(resCh) : i = 1 \/ (i - 1 \in 1..Len(resCh') /\ resCh'[i - 1] = resCh[i])
    BY <1>3, <1>4
  <2>3. Queued' \subseteq Queued \ {h}
    BY <1>4, <2>1 DEF Queued
  <2>4. ASSUME NEW x \in Queued, x # h PROVE x \in Queued'
    <3>1. PICK i \in 1..Len(resCh) : x = resCh[i]
      BY DEF Queued
    <3>2. i # 1
      BY <1>4, <2>4, <3>1
    <3>3. i - 1 \in 1..Len(resCh') /\ resCh'[i - 1] = x
      BY <2>2, <3>1, <3>2
    <3> QED BY <3>3 DEF Queued
  <2> QED BY <2>3, <2>4
<1>8. Received' = Received \cup {h} /\ h \notin Received
  BY <1>2, <1>4, <1>6, <1>7 DEF Received
<1>9. Received \in SUBSET Sources /\ Received' \in SUBSET Sources
  BY DEF Received
<1>10. seen' = Cardinality(Received')
  <2>1. Cardinality(Received \cup {h}) = Cardinality(Received) + 1
    BY <1>8, <1>9, SourcesFinite, FS_AddElement
  <2> QED BY <1>2, <1>8, <2>1 DEF IInv, ChannelInv
<1>11. seen' \in 0..Cardinality(Sources)
  BY <1>9, <1>10, SourcesFinite, SourcesCounted
<1>12. /\ pc' \in {"race", "done"} /\ answer' \in {NoSource, h} /\ why' \in {"none", "answer", "exhausted"}
       /\ answer' = h \/ answer' = NoSource
       /\ answer' # NoSource => IsAuthoritative(h)
       /\ pc' = "race" => ~IsAuthoritative(h) /\ why' = "none" /\ answer' = NoSource
       /\ why' = "exhausted" => ~IsAuthoritative(h) /\ fbStarted /\ seen' >= Expected
       /\ why' # "deadline"
  BY <1>1, <1>2 DEF Receive, Return, IInv, RaceInv
<1>13. ChannelInv'
  <2>1. \A i, j \in 1..Len(resCh') : resCh'[i] = resCh'[j] => i = j
    <3>1. \A i \in 1..Len(resCh') : i + 1 \in 1..Len(resCh)
      BY <1>3, <1>4
    <3>2. \A i, j \in 1..Len(resCh') : resCh'[i] = resCh'[j] => i + 1 = j + 1
      BY <1>4, <1>5, <3>1
    <3>3. \A i, j \in 1..Len(resCh') : i + 1 = j + 1 => i = j
      OBVIOUS
    <3> QED BY <3>2, <3>3
  <2>2. \A i \in 1..Len(resCh') : src[resCh'[i]] = "done"
    <3>1. \A i \in 1..Len(resCh') : i + 1 \in 1..Len(resCh)
      BY <1>3, <1>4
    <3> QED BY <1>4, <3>1 DEF IInv, ChannelInv
  <2> QED BY <1>2, <1>10, <2>1, <2>2 DEF ChannelInv
<1>14. TypeOK'
  <2>1. Len(resCh') <= Cardinality(primary \cup fallback)
    <3>1. Cardinality(primary \cup fallback) \in Nat /\ Len(resCh) <= Cardinality(primary \cup fallback)
      BY PoolsApart, SourcesFinite DEF IInv, TypeOK
    <3> QED BY <1>3, <1>4, <3>1
  <2> QED BY <1>2, <1>4, <1>11, <1>12, <2>1 DEF IInv, TypeOK
<1>15. Fired' = Fired /\ PoolsInv'
  BY <1>2, <1>12 DEF Fired, IInv, PoolsInv
<1>16. SourcesInv'
  BY <1>2, <1>15 DEF IInv, SourcesInv
<1>17. result[h] \in {"valid", "rcode", "err"} /\ h \in Fired
  BY <1>4, <1>6 DEF IInv, SourcesInv, TypeOK
<1>18. ~IsAuthoritative(h) => \A s \in Received' : result[s] \in {"rcode", "err"}
  BY <1>2, <1>8, <1>17 DEF IInv, RaceInv, IsAuthoritative
<1>19. RaceInv'
  BY <1>2, <1>12, <1>18 DEF RaceInv
<1>20. GivesUpLast'
  <2> SUFFICES ASSUME why' = "exhausted"
               PROVE  \A s \in primary \cup fallback : src[s] = "done" /\ result[s] \in {"rcode", "err"}
    BY <1>2 DEF GivesUpLast
  <2>1. fbStarted /\ seen' >= Cardinality(primary \cup fallback)
    BY <1>12, PoolsApart DEF Expected, IInv
  <2>2. Fired = primary \cup fallback /\ Fired \in SUBSET Sources
    BY <1>2, <2>1, PoolsApart DEF Fired, IInv
  <2>3. Received' \subseteq Fired
    BY <1>2 DEF Received, IInv, SourcesInv
  <2>4. Received' = Fired
    <3>1. IsFiniteSet(Fired) /\ Cardinality(Fired) \in Nat /\ Cardinality(Received') \in Nat
      BY <1>9, <2>2, SourcesFinite
    <3>2. Cardinality(Received') <= Cardinality(Fired)
      BY <2>3, <3>1, FS_Subset
    <3>3. Cardinality(Received') = Cardinality(Fired)
      BY <1>10, <2>1, <2>2, <3>1, <3>2
    <3> QED BY <2>3, <3>1, <3>3, FS_Subset
  <2> QED BY <1>2, <1>12, <1>18, <2>2, <2>4 DEF Received
<1>21. WinnerIsValid'
  <2>1. h \in fallback => fbStarted
    <3>1. primary \cap fallback = {}
      BY PoolsApart DEF IInv
    <3> QED BY <1>2, <1>17, <3>1 DEF Fired
  <2> QED BY <1>2, <1>6, <1>12, <2>1 DEF WinnerIsValid, IsAuthoritative
<1>22. DeadlineRetires'
  BY <1>12 DEF DeadlineRetires
<1> QED BY <1>13, <1>14, <1>15, <1>16, <1>19, <1>20, <1>21, <1>22 DEF IInv

----------------------------------------------------------------------------
LEMMA InitIInv == Init => IInv
<1> SUFFICES ASSUME Init PROVE IInv
  OBVIOUS
<1>1. PoolsInv
  BY DEF Init, PoolsInv
<1>2. Cardinality(primary \cup fallback) \in Nat
  BY <1>1, PoolsApart, SourcesFinite
<1>3. TypeOK
  <2>1. primary \subseteq Sources /\ fallback \subseteq Sources
    BY <1>1, PoolsApart
  <2>2. seen \in 0..Cardinality(Sources) /\ resCh \in Seq(Sources) /\ Len(resCh) = 0
    BY SourcesCounted DEF Init
  <2>3. Len(resCh) <= Cardinality(primary \cup fallback)
    BY <1>2, <2>2
  <2>4. src \in [Sources -> Running \cup {"idle", "done"}]
    BY DEF Init
  <2>5. result \in [Sources -> {"none", "valid", "rcode", "err"}]
    BY DEF Init
  <2>6. answer \in Sources \cup {NoSource}
    BY DEF Init
  <2>7. noDelay \in BOOLEAN /\ fbStarted \in BOOLEAN /\ ctx \in {"live", "deadline", "cancelled"}
    BY DEF Init
  <2>8. /\ pc \in {"start", "race", "wait", "done"}
        /\ why \in {"none", "answer", "exhausted", "deadline", "cancelled", "unconfigured"}
    BY DEF Init
  <2> QED BY <2>1, <2>2, <2>3, <2>4, <2>5, <2>6, <2>7, <2>8 DEF TypeOK
<1>4. Received = {}
  BY DEF Init, Received
<1>5. ChannelInv
  BY <1>4, FS_EmptySet DEF Init, ChannelInv
<1>6. SourcesInv
  BY DEF Init, SourcesInv, Fired
<1>7. RaceInv /\ GivesUpLast /\ WinnerIsValid /\ DeadlineRetires
  BY <1>4 DEF Init, RaceInv, GivesUpLast, WinnerIsValid, DeadlineRetires
<1> QED BY <1>1, <1>3, <1>5, <1>6, <1>7 DEF IInv

(* Every source that was fired is accounted for, in every order of timers,  *)
(* replies and failures.                                                    *)
THEOREM Invariance == Spec => []IInv
<1>1. IInv /\ [Next]_vars => IInv'
  <2> SUFFICES ASSUME IInv, [Next]_vars PROVE IInv'
    OBVIOUS
  <2>1. CASE QueryStep
    BY <2>1, ReturnInv, FireInv, ReceiveInv DEF QueryStep
  <2>2. CASE Deadline \/ Cancelled \/ DeferredCancel \/ Done \/ UNCHANGED vars
    BY <2>2, CtxInv DEF Done
  <2>3. ASSUME NEW s \in Sources, Network(s) \/ GivesUp(s) \/ Sends(s) PROVE IInv'
    BY <2>3, NetworkInv, SendsInv
  <2> QED BY <2>1, <2>2, <2>3 DEF Next
<1> QED BY <1>1, InitIInv, PTL DEF Spec

(* No result is queued twice: the channel holds as many as its length says. *)
LEMMA QueueCounted ==
    ASSUME IInv
    PROVE  IsFiniteSet(Queued) /\ Cardinality(Queued) = Len(resCh)
<1>1. PICK n : n = Len(resCh)
  OBVIOUS
<1>2. n \in Nat /\ IsFiniteSet(1..n) /\ Cardinality(1..n) = n
  <2>1. n \in Nat
    BY <1>1 DEF IInv, TypeOK
  <2> QED BY <2>1, FS_Interval
<1>3. PICK f : f = [i \in 1..n |-> resCh[i]]
  OBVIOUS
<1>4. f \in Bijection(1..n, Queued)
  <2>1. \A i \in 1..n : f[i] = resCh[i] /\ f[i] \in Queued
    BY <1>1, <1>3 DEF Queued
  <2>2. f \in [1..n -> Queued]
    BY <1>3, <2>1
  <2>3. \A i, j \in 1..n : f[i] = f[j] => i = j
    BY <1>1, <2>1 DEF IInv, ChannelInv
  <2>4. \A x \in Queued : \E i \in 1..n : f[i] = x
    BY <1>1, <2>1 DEF Queued
  <2> QED BY <2>2, <2>3, <2>4 DEF Bijection, Injection, Surjection, IsInjective
<1>5. IsFiniteSet(Queued) /\ Cardinality(Queued) = Cardinality(1..n)
  BY <1>2, <1>4, FS_Bijection DEF ExistsBijection
<1> QED BY <1>1, <1>2, <1>5

(* The channel has a place for every source that may still report, so a     *)
(* goroutine that sends to it never waits, whether or not Query receives.   *)
LEMMA SendsHaveRoom ==
    ASSUME IInv, NEW s \in Sources, src[s] = "send"
    PROVE  Len(resCh) < Capacity
<1>1. s \notin Queued /\ Queued \cup {s} \subseteq primary \cup fallback
  <2>1. \A x \in Queued : src[x] = "done" /\ x \in Sources
    BY DEF IInv, TypeOK, ChannelInv, Queued
  <2>2. Fired \subseteq primary \cup fallback
    BY DEF Fired
  <2> QED BY <2>1, <2>2 DEF IInv, SourcesInv
<1>2. IsFiniteSet(primary \cup fallback) /\ Cardinality(primary \cup fallback) = Capacity
  BY PoolsApart, SourcesFinite DEF IInv, Capacity
<1>3. Cardinality(Queued \cup {s}) = Len(resCh) + 1
  BY <1>1, QueueCounted, FS_AddElement
<1>4. Cardinality(Queued \cup {s}) <= Capacity
  BY <1>1, <1>2, FS_Subset
<1>5. Len(resCh) \in Nat /\ Capacity \in Nat
  BY <1>2, Queue, FS_CardinalityType DEF IInv
<1> QED BY <1>3, <1>4, <1>5

(* Query gives up early only when every source of both pools has failed,    *)
(* returns only a valid reply of a source that was asked, reports the       *)
(* deadline only when no goroutine is left, and no goroutine is ever kept   *)
(* by a full channel.                                                       *)
THEOREM ReturnsAreJustified == Spec => []QueryConsistent
<1>1. IInv => QueryConsistent
  <2>1. IInv => NobodyIsStuck
    BY SendsHaveRoom DEF IInv, RaceInv, NobodyIsStuck
  <2> QED BY <2>1 DEF IInv, QueryConsistent
<1> QED BY <1>1, Invariance, PTL

=============================================================================
