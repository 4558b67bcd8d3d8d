---------------------------- MODULE QuicForward ----------------------------
(***************************************************************************)
(* The UDP :443 forwarder (internal/proxy/quicforward): the read loop, the *)
(* setup workers it spawns, which become the relays of their sessions, the *)
(* gc loop and Shutdown, over the session table (a sync.Map that is not    *)
(* under resourceMu for deletions) and the resource accounts.              *)
(*                                                                         *)
(* A client address (4-tuple) is a key. Setup w is the w-th worker that    *)
(* was spawned; it is also the generation of the session it establishes.   *)
(***************************************************************************)
EXTENDS Integers, FiniteSets

CONSTANTS
    Keys,                \* client addresses
    NoKey,               \* no client address
    IPs,                 \* normalized source addresses
    IpOf,                \* normalizedIP of each key
    MaxSessions,         \* cfg.MaxSessions
    MaxSessionsPerIP,    \* cfg.MaxSessionsPerIP
    MaxConcurrentSetups, \* cfg.MaxConcurrentSetups
    Datagrams,           \* first datagrams clients send
    MaxSetups            \* bound: setup workers spawned in a behaviour

ASSUME QuicAssumption ==
    /\ IsFiniteSet(Keys) /\ NoKey \notin Keys
    /\ IpOf \in [Keys -> IPs]
    /\ MaxSessions \in Nat \ {0}
    /\ MaxSessionsPerIP \in Nat \ {0}
    /\ MaxConcurrentSetups \in Nat \ {0}
    /\ MaxSetups \in Nat

Setups == 1..MaxSetups

VARIABLES
    listener,  \* s.listener
    closed,    \* s.closed
    reader,    \* readLoop: where it is and the key it handles
    gc,        \* gcLoop: where it is and the sessions reapIdle still has to drop
    halt,      \* Shutdown: where it is and the sessions it still has to drop
    busy,      \* the session gc and halt are dropping, 0 for none
    done,      \* s.done is closed
    sessions,  \* s.sessions: the generation stored for each key, 0 for none
    pending,   \* s.pending
    reserved,  \* s.reserved
    perIP,     \* s.perIP
    spawned,   \* number of workers spawned
    key,       \* the client address of each worker
    stage,     \* where setupSession is in each worker
    backend,   \* the upstream socket of each worker
    drop,      \* how far dropSession of each generation is
    idle       \* the stored sessions whose lastActivity is older than IdleTimeout

quicVars == <<listener, closed, reader, gc, halt, busy, done, sessions, pending,
              reserved, perIP, spawned, key, stage, backend, drop, idle>>

tables == <<sessions, pending, reserved, perIP>>
workers == <<spawned, key, stage, backend, drop, idle>>
loops == <<listener, closed, reader, gc, halt, busy, done>>

PendingStages == {"spawned", "resolve", "dial", "dialed", "written", "fail"}

QuicTypeOK ==
    /\ listener \in {"none", "open", "closed"}
    /\ closed \in BOOLEAN /\ done \in BOOLEAN
    /\ reader \in [at : {"off", "read", "miss", "exited"}, key : Keys \cup {NoKey}]
    /\ gc \in [at : {"off", "wait", "drop", "exited"}, left : SUBSET Setups]
    /\ halt \in [at : {"no", "closed", "stopped", "drop", "wait"}, left : SUBSET Setups]
    /\ busy \in [{"gc", "halt"} -> Setups \cup {0}]
    /\ sessions \in [Keys -> Setups \cup {0}]
    /\ pending \in SUBSET Keys
    /\ reserved \in Nat
    /\ perIP \in [IPs -> Nat]
    /\ spawned \in 0..MaxSetups
    /\ key \in [Setups -> Keys \cup {NoKey}]
    /\ stage \in [Setups -> PendingStages \cup {"new", "refused", "relay", "dropping", "end"}]
    /\ backend \in [Setups -> {"none", "open", "closed"}]
    /\ drop \in [Setups -> {"no", "deleted", "closed", "released"}]
    /\ idle \in SUBSET Setups

QuicInit ==
    /\ listener = "none" /\ closed = FALSE /\ done = FALSE
    /\ reader = [at |-> "off", key |-> NoKey]
    /\ gc = [at |-> "off", left |-> {}]
    /\ halt = [at |-> "no", left |-> {}]
    /\ busy = [a \in {"gc", "halt"} |-> 0]
    /\ sessions = [k \in Keys |-> 0]
    /\ pending = {} /\ reserved = 0 /\ perIP = [i \in IPs |-> 0]
    /\ spawned = 0
    /\ key = [w \in Setups |-> NoKey]
    /\ stage = [w \in Setups |-> "new"]
    /\ backend = [w \in Setups |-> "none"]
    /\ drop = [w \in Setups |-> "no"]
    /\ idle = {}

-----------------------------------------------------------------------------
(* What the first datagram says and where it goes.                          *)

\* The name classes resolveUpstream tells apart.
NoName == "none"

\* parseCryptoFrames finds the name when the walk over the frames comes to a CRYPTO
\* frame with the whole hello in it; the offsets are not read, so a hello in two frames
\* has no name. Left out: the length of a CRYPTO frame is compared before the offset has
\* moved past it, so a length that is a few bytes too long is an index out of range,
\* which nobody recovers: the process ends.
ParseCryptoFrames(d) == IF d.whole THEN d.name ELSE NoName

\* extractSNI: only a QUIC v1 Initial that decrypts has frames.
ExtractSNI(d) == IF d.initial THEN ParseCryptoFrames(d) ELSE NoName

\* resolveUpstream up to the lookup: "" for refused.
ResolveUpstream(name) ==
    CASE name = "panel" -> "dial"      \* PanelBackend, no lookup
      [] name = "site"  -> "resolve"   \* netguard.ResolvePublic of the name
      [] OTHER          -> "fail"      \* empty, port-bearing or bare-IP name

\* ResolvePublic, then the first IPv4 address: one non-public answer refuses all.
DialTarget(answers) ==
    IF answers /= {} /\ "private" \notin answers /\ "v4" \in answers THEN "dial" ELSE "fail"

-----------------------------------------------------------------------------
(* Accounts, under resourceMu.                                              *)

ReleaseCountLocked(ip) ==
    /\ reserved' = IF reserved > 0 THEN reserved - 1 ELSE reserved
    /\ perIP' = [perIP EXCEPT ![ip] = IF @ > 1 THEN @ - 1 ELSE 0]

MayReserve(k) ==
    /\ ~closed
    /\ k \notin pending
    /\ sessions[k] = 0
    /\ Cardinality(pending) < MaxConcurrentSetups
    /\ reserved < MaxSessions
    /\ perIP[IpOf[k]] < MaxSessionsPerIP

\* Mutant: the key is deleted whatever generation it holds.
DeleteAny(w) ==
    /\ sessions[key[w]] /= 0
    /\ sessions' = [sessions EXCEPT ![key[w]] = 0]
    /\ drop' = [drop EXCEPT ![w] = "deleted"]
    /\ idle' = idle \ {w}

\* dropSession: CompareAndDelete. Closing the socket and releasing the account
\* are the steps CloseBackend and ReleaseEstablished below.
CompareAndDelete(w) ==
    /\ sessions[key[w]] = w
    /\ sessions' = [sessions EXCEPT ![key[w]] = 0]
    /\ drop' = [drop EXCEPT ![w] = "deleted"]
    /\ idle' = idle \ {w}

-----------------------------------------------------------------------------
(* Start, the read loop                                                     *)

QuicStart ==
    /\ listener = "none" /\ ~closed
    /\ listener' = "open"
    /\ reader' = [reader EXCEPT !.at = "read"]
    /\ gc' = [gc EXCEPT !.at = "wait"]
    /\ UNCHANGED <<closed, halt, busy, done, tables, workers>>

\* A datagram of a session: forwarded inline, the session is active again.
HotPath(k) ==
    /\ reader.at = "read" /\ listener = "open"
    /\ sessions[k] /= 0
    /\ idle' = idle \ {sessions[k]}
    /\ UNCHANGED <<loops, tables, spawned, key, stage, backend, drop>>

\* A datagram of no session: the reservation is tried in a step of its own. The
\* guard on spawned is the bound of the model.
ColdPath(k) ==
    /\ reader.at = "read" /\ listener = "open"
    /\ sessions[k] = 0
    /\ spawned < MaxSetups
    /\ reader' = [at |-> "miss", key |-> k]
    /\ UNCHANGED <<listener, closed, gc, halt, busy, done, tables, workers>>

\* tryReserveSession succeeds and the worker is spawned.
TryReserveSession ==
    LET k == reader.key
        w == spawned + 1
    IN  /\ reader.at = "miss"
        /\ MayReserve(k)
        /\ pending' = pending \cup {k}
        /\ reserved' = reserved + 1
        /\ perIP' = [perIP EXCEPT ![IpOf[k]] = @ + 1]
        /\ spawned' = w
        /\ key' = [key EXCEPT ![w] = k]
        /\ stage' = [stage EXCEPT ![w] = "spawned"]
        /\ reader' = [at |-> "read", key |-> NoKey]
        /\ UNCHANGED <<listener, closed, gc, halt, busy, done, sessions, backend, drop, idle>>

\* The datagram is dropped: no capacity, or a setup of the same key is under way
\* or has just been promoted.
ReserveRefused ==
    /\ reader.at = "miss"
    /\ ~MayReserve(reader.key)
    /\ reader' = [at |-> "read", key |-> NoKey]
    /\ UNCHANGED <<listener, closed, gc, halt, busy, done, tables, workers>>

ReadLoopExits ==
    /\ reader.at = "read" /\ listener = "closed"
    /\ reader' = [reader EXCEPT !.at = "exited"]
    /\ UNCHANGED <<listener, closed, gc, halt, busy, done, tables, workers>>

-----------------------------------------------------------------------------
(* setupSession                                                             *)

Goto(w, s) == stage' = [stage EXCEPT ![w] = s]

\* closed, the gate (its verdict is free: the allowlist changes at run time), the
\* name and the choice of the upstream.
SetupChecks(w) ==
    /\ stage[w] = "spawned"
    /\ \E d \in Datagrams, admitted \in BOOLEAN :
          Goto(w, IF closed \/ ~admitted THEN "fail" ELSE ResolveUpstream(ExtractSNI(d)))
    /\ UNCHANGED <<loops, tables, spawned, key, backend, drop, idle>>

\* The lookup answers, or fails because the run context was cancelled.
Resolved(w) ==
    /\ stage[w] = "resolve"
    /\ \E answers \in SUBSET {"v4", "v6", "private"} : Goto(w, DialTarget(answers))
    /\ UNCHANGED <<loops, tables, spawned, key, backend, drop, idle>>

Dial(w) ==
    /\ stage[w] = "dial"
    /\ \/ Goto(w, "dialed") /\ backend' = [backend EXCEPT ![w] = "open"]
       \/ Goto(w, "fail") /\ UNCHANGED backend
    /\ UNCHANGED <<loops, tables, spawned, key, drop, idle>>

\* The second look at closed, then the first datagram is sent on.
WriteFirst(w) ==
    /\ stage[w] = "dialed"
    /\ \/ ~closed /\ Goto(w, "written") /\ UNCHANGED backend
       \/ Goto(w, "fail") /\ backend' = [backend EXCEPT ![w] = "closed"]
    /\ UNCHANGED <<loops, tables, spawned, key, drop, idle>>

\* Mutant: closed is not looked at again.
PromoteAlways(w) ==
    /\ stage[w] = "written"
    /\ pending' = pending \ {key[w]}
    /\ sessions' = [sessions EXCEPT ![key[w]] = w]
    /\ Goto(w, "relay")
    /\ UNCHANGED <<loops, reserved, perIP, spawned, key, backend, drop, idle>>

\* Under resourceMu: refused when the reservation is gone or the server closed.
PromoteSession(w) ==
    LET known == key[w] \in pending
        stored == known /\ ~closed
    IN  /\ stage[w] = "written"
        /\ pending' = pending \ {key[w]}
        /\ sessions' = IF stored THEN [sessions EXCEPT ![key[w]] = w] ELSE sessions
        /\ IF known /\ closed THEN ReleaseCountLocked(IpOf[key[w]])
                              ELSE UNCHANGED <<reserved, perIP>>
        /\ Goto(w, IF stored THEN "relay" ELSE "refused")
        /\ UNCHANGED <<loops, spawned, key, backend, drop, idle>>

\* promoteSession returned false: the socket is closed, then the deferred
\* releasePending runs.
CloseRefused(w) ==
    /\ stage[w] = "refused"
    /\ backend' = [backend EXCEPT ![w] = "closed"]
    /\ Goto(w, "fail")
    /\ UNCHANGED <<loops, tables, spawned, key, drop, idle>>

\* Mutant: the reservation is released again after a refused promotion.
ReleaseTwice(w) ==
    /\ stage[w] = "fail"
    /\ pending' = pending \ {key[w]} /\ ReleaseCountLocked(IpOf[key[w]])
    /\ Goto(w, "end")
    /\ UNCHANGED <<loops, sessions, spawned, key, backend, drop, idle>>

\* The deferred releasePending; a no-op when promoteSession has released already.
ReleasePending(w) ==
    /\ stage[w] = "fail"
    /\ IF key[w] \in pending
       THEN pending' = pending \ {key[w]} /\ ReleaseCountLocked(IpOf[key[w]])
       ELSE UNCHANGED <<pending, reserved, perIP>>
    /\ Goto(w, "end")
    /\ UNCHANGED <<loops, sessions, spawned, key, backend, drop, idle>>

-----------------------------------------------------------------------------
(* relayBackendToClient and dropSession                                     *)

\* A datagram of the upstream reaches the client.
Relay(w) ==
    /\ stage[w] = "relay" /\ backend[w] = "open" /\ listener = "open"
    /\ idle' = idle \ {w}
    /\ UNCHANGED <<loops, tables, spawned, key, stage, backend, drop>>

\* The read fails (socket closed, or refused by the upstream) or the listener no
\* longer takes the datagram: dropSession, which another goroutine may have
\* done already.
RelayEnds(w) ==
    /\ stage[w] = "relay"
    /\ \/ CompareAndDelete(w) /\ Goto(w, "dropping")
       \/ /\ sessions[key[w]] /= w
          /\ Goto(w, "end")
          /\ UNCHANGED <<sessions, drop, idle>>
    /\ UNCHANGED <<loops, pending, reserved, perIP, spawned, key, backend>>

CloseBackend(w) ==
    /\ drop[w] = "deleted"
    /\ backend' = [backend EXCEPT ![w] = "closed"]
    /\ drop' = [drop EXCEPT ![w] = "closed"]
    /\ UNCHANGED <<loops, tables, spawned, key, stage, idle>>

\* releaseEstablished; the goroutine that dropped w goes on.
ReleaseEstablished(w) ==
    /\ drop[w] = "closed"
    /\ drop' = [drop EXCEPT ![w] = "released"]
    /\ ReleaseCountLocked(IpOf[key[w]])
    /\ busy' = [a \in DOMAIN busy |-> IF busy[a] = w THEN 0 ELSE busy[a]]
    /\ stage' = [stage EXCEPT ![w] = IF @ = "dropping" THEN "end" ELSE @]
    /\ UNCHANGED <<listener, closed, reader, gc, halt, done, sessions, pending,
                   spawned, key, backend, idle>>

-----------------------------------------------------------------------------
(* gcLoop and Shutdown                                                      *)

\* IdleTimeout passes without a datagram.
Expires(w) ==
    /\ w \in {sessions[k] : k \in Keys} \ {0}
    /\ w \notin idle
    /\ idle' = idle \cup {w}
    /\ UNCHANGED <<loops, tables, spawned, key, stage, backend, drop>>

\* The ticker: reapIdle collects the idle sessions (a pass that finds none changes
\* nothing).
ReapIdle ==
    /\ gc.at = "wait"
    /\ closed \/ idle /= {}
    /\ gc' = IF closed THEN [gc EXCEPT !.at = "exited"] ELSE [at |-> "drop", left |-> idle]
    /\ UNCHANGED <<listener, closed, reader, halt, busy, done, tables, workers>>

GcLoopExits ==
    /\ gc.at = "wait" /\ halt.at \in {"stopped", "drop", "wait"}
    /\ gc' = [gc EXCEPT !.at = "exited"]
    /\ UNCHANGED <<listener, closed, reader, halt, busy, done, tables, workers>>

\* dropSession of one collected session by actor a, gc or halt.
DropCollected(a, w) ==
    /\ busy[a] = 0
    /\ \/ CompareAndDelete(w) /\ busy' = [busy EXCEPT ![a] = w]
       \/ sessions[key[w]] /= w /\ UNCHANGED <<sessions, drop, idle, busy>>

GcDrops(w) ==
    /\ gc.at = "drop" /\ w \in gc.left
    /\ DropCollected("gc", w)
    /\ gc' = [gc EXCEPT !.left = @ \ {w}]
    /\ UNCHANGED <<listener, closed, reader, halt, done, pending, reserved, perIP,
                   spawned, key, stage, backend>>

GcPassEnds ==
    /\ gc.at = "drop" /\ gc.left = {} /\ busy["gc"] = 0
    /\ gc' = [gc EXCEPT !.at = "wait"]
    /\ UNCHANGED <<listener, closed, reader, halt, busy, done, tables, workers>>

ShutdownCloses ==
    /\ halt.at = "no"
    /\ closed' = TRUE
    /\ halt' = [halt EXCEPT !.at = "closed"]
    /\ UNCHANGED <<listener, reader, gc, busy, done, tables, workers>>

\* The run context is cancelled, the listener and the stopped channel closed.
ShutdownStops ==
    /\ halt.at = "closed"
    /\ listener' = IF listener = "open" THEN "closed" ELSE listener
    /\ halt' = [halt EXCEPT !.at = "stopped"]
    /\ UNCHANGED <<closed, reader, gc, busy, done, tables, workers>>

\* The snapshot of the sessions, under resourceMu.
ShutdownSnapshot ==
    /\ halt.at = "stopped"
    /\ halt' = [at |-> "drop", left |-> {sessions[k] : k \in Keys} \ {0}]
    /\ UNCHANGED <<listener, closed, reader, gc, busy, done, tables, workers>>

ShutdownDrops(w) ==
    /\ halt.at = "drop" /\ w \in halt.left
    /\ DropCollected("halt", w)
    /\ halt' = [halt EXCEPT !.left = @ \ {w}]
    /\ UNCHANGED <<listener, closed, reader, gc, done, pending, reserved, perIP,
                   spawned, key, stage, backend>>

ShutdownWaits ==
    /\ halt.at = "drop" /\ halt.left = {} /\ busy["halt"] = 0
    /\ halt' = [halt EXCEPT !.at = "wait"]
    /\ UNCHANGED <<listener, closed, reader, gc, busy, done, tables, workers>>

\* Mutant: only the loops are waited for.
DoneWithWorkers ==
    /\ halt.at = "wait" /\ ~done
    /\ reader.at \in {"off", "exited"} /\ gc.at \in {"off", "exited"}
    /\ done' = TRUE
    /\ UNCHANGED <<listener, closed, reader, gc, halt, busy, tables, workers>>

\* loopWG, then workerWG: every worker that was spawned has returned.
ShutdownDone ==
    /\ halt.at = "wait" /\ ~done
    /\ reader.at \in {"off", "exited"} /\ gc.at \in {"off", "exited"}
    /\ \A w \in 1..spawned : stage[w] = "end"
    /\ done' = TRUE
    /\ UNCHANGED <<listener, closed, reader, gc, halt, busy, tables, workers>>

-----------------------------------------------------------------------------
Setup(w) ==
    \/ SetupChecks(w) \/ Resolved(w) \/ Dial(w) \/ WriteFirst(w)
    \/ PromoteSession(w) \/ CloseRefused(w) \/ ReleasePending(w)

DropStep(w) == CloseBackend(w) \/ ReleaseEstablished(w)

ReadLoop == TryReserveSession \/ ReserveRefused \/ ReadLoopExits

GcLoop == ReapIdle \/ GcLoopExits \/ (\E w \in Setups : GcDrops(w)) \/ GcPassEnds

\* The body of Shutdown after the call.
ShutdownSteps ==
    \/ ShutdownStops \/ ShutdownSnapshot \/ (\E w \in Setups : ShutdownDrops(w))
    \/ ShutdownWaits \/ ShutdownDone

\* What the clients, the upstreams and time do.
QuicTraffic ==
    \/ \E k \in Keys : HotPath(k) \/ ColdPath(k)
    \/ \E w \in Setups : Relay(w) \/ Expires(w)

QuicWork ==
    \/ ReadLoop \/ GcLoop \/ ShutdownSteps
    \/ \E w \in Setups : Setup(w) \/ RelayEnds(w) \/ DropStep(w)

QuicNext == QuicStart \/ ShutdownCloses \/ QuicTraffic \/ QuicWork

QuicSpec == QuicInit /\ [][QuicNext]_quicVars

\* The steps of worker w that wait for nobody: its setup, a drop of its session
\* that has begun, its relay when the socket is closed.
Worker(w) == Setup(w) \/ DropStep(w) \/ (backend[w] = "closed" /\ RelayEnds(w))

\* Every goroutine of the server runs on: lookups, dials and socket calls return
\* (each worker takes finitely many steps, so one condition per worker is enough).
\* Nothing is assumed of clients, upstreams and time.
QuicFairness ==
    /\ WF_quicVars(ReadLoop) /\ WF_quicVars(GcLoop) /\ WF_quicVars(ShutdownSteps)
    /\ \A w \in Setups : WF_quicVars(Worker(w))

-----------------------------------------------------------------------------
(* Properties                                                               *)

\* The setups that hold a reservation: pending, established, or dropped and not
\* yet released.
Holders ==
    {w \in Setups :
        \/ stage[w] \in PendingStages /\ key[w] \in pending
        \/ stage[w] = "relay" /\ sessions[key[w]] = w
        \/ drop[w] \in {"deleted", "closed"}}

\* Whatever drops a session (relay, gc or Shutdown, possibly at once) and however
\* a setup fails, reserved and perIP count exactly the setups that hold a
\* reservation: a double release would be hidden by the clamps of
\* releaseCountLocked and let the caps be exceeded, a lost one would shrink them.
Accounted ==
    /\ reserved = Cardinality(Holders)
    /\ \A i \in IPs : perIP[i] = Cardinality({w \in Holders : IpOf[key[w]] = i})

\* "MaxSessions caps pending plus established upstream UDP sockets": the sockets
\* that are really open, closing ones included, never exceed the caps.
SocketsBounded ==
    LET Open == {w \in Setups : backend[w] = "open"}
    IN  /\ Cardinality(Open) <= MaxSessions
        /\ \A i \in IPs :
              Cardinality({w \in Open : IpOf[key[w]] = i}) <= MaxSessionsPerIP
        /\ Cardinality(pending) <= MaxConcurrentSetups

\* A relay whose socket is open is the session of its client or is being dropped:
\* no cleanup of an older generation takes the replacement out of the table, where
\* neither gc nor Shutdown would find it again.
RelayIsStored ==
    \A w \in Setups :
        stage[w] = "relay" /\ backend[w] = "open" =>
            sessions[key[w]] = w \/ drop[w] = "deleted"

\* A setup that is under way when Shutdown takes its snapshot stores nothing after it:
\* every session in the table is one that Shutdown still has to drop, and when it
\* starts to wait there is none.
SnapshotComplete ==
    halt.at \in {"drop", "wait"} => \A k \in Keys : sessions[k] \in halt.left \cup {0}

\* Every session is found by whoever has to end it.
NoOrphanRelay == RelayIsStored /\ SnapshotComplete

\* When Shutdown returns nil no session, socket, worker or account is left, with
\* sessions promoted, dropped and reaped while it ran.
AllReleased ==
    done => /\ pending = {} /\ reserved = 0
            /\ \A k \in Keys : sessions[k] = 0
            /\ \A i \in IPs : perIP[i] = 0
            /\ \A w \in Setups : backend[w] /= "open"

\* Shutdown completes: a session promoted in a race with it is refused or is in its
\* snapshot, so no relay waits on an open socket for ever.
ShutdownCompletes == closed ~> done

\* A session nobody uses is dropped by the gc loop.
IdleReaped == \A w \in Setups : w \in idle ~> w \notin idle

=============================================================================
