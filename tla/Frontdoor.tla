----------------------------- MODULE Frontdoor -----------------------------
(***************************************************************************)
(* The DNS front door (internal/frontdoor): the plain :53 listeners and    *)
(* the supervisor that restarts them, the encrypted listeners next to them *)
(* and Status. A plain listener is one UDP or TCP server of miekg/dns.     *)
(*                                                                         *)
(* A server of miekg/dns that is shut down before ActivateAndServe has     *)
(* run answers with an error and keeps its socket (external). So the       *)
(* rollback of a bind leaves a socket to the garbage collector, and a      *)
(* server closed between go and ActivateAndServe serves on, an orphan.     *)
(***************************************************************************)
EXTENDS Integers, FiniteSets

CONSTANT MaxRestartsPerWindow

ASSUME FrontdoorAssumption == MaxRestartsPerWindow \in Nat

VARIABLES
    srv,       \* fd.udp and fd.tcp: the state of each plain server
    stray,     \* sockets the front door no longer knows of
    enc,       \* fd.dot, fd.doq, fd.doh3: the encrypted listeners that run
    task,      \* where Supervisor.Run and serveAll are
    waiting,   \* serve goroutines of this serveAll that have not returned
    recent,    \* len(sv.restarts)
    degraded,  \* fd.degraded
    cancelled  \* the run context is cancelled

fdVars == <<srv, stray, enc, task, waiting, recent, degraded, cancelled>>

Plain == {"udp53", "tcp53"}
Encrypted == {"dot", "doq", "doh3"}

FdTypeOK ==
    /\ srv \in [Plain -> {"none", "bound", "ready", "serving", "failed"}]
    /\ stray \in [Plain -> {"none", "leak", "orphan"}]
    /\ enc \in SUBSET Encrypted
    /\ task \in {"off", "call", "serve", "drain", "backoff", "ended"}
    /\ waiting \in SUBSET Plain
    /\ recent \in 0..(MaxRestartsPerWindow + 1)
    /\ degraded \in BOOLEAN /\ cancelled \in BOOLEAN

FdInit ==
    /\ srv = [p \in Plain |-> "none"] /\ stray = [p \in Plain |-> "none"]
    /\ enc = {} /\ task = "off" /\ waiting = {} /\ recent = 0
    /\ degraded = FALSE /\ cancelled = FALSE

-----------------------------------------------------------------------------
(* Binding and closing, under fd.mu.                                        *)

PortFree(p) == srv[p] = "none" /\ stray[p] = "none"

\* bindLocked, UDP before TCP; bad says which bind the system refuses, "none" for
\* neither. Bound: both sockets are there.
BindOk(bad) == bad = "none" /\ \A p \in Plain : PortFree(p)

\* The rollback: the UDP socket of a failed TCP bind is never closed.
BindRollback(bad) ==
    IF bad /= "udp53" /\ PortFree("udp53")
    THEN [stray EXCEPT !["udp53"] = "leak"] ELSE stray

\* ShutdownContext of each server: a server that serves or has failed is closed, one
\* whose goroutine has not got to ActivateAndServe stays, and so does one that has
\* no goroutine yet.
ClosePlain ==
    /\ srv' = [p \in Plain |-> "none"]
    /\ stray' = [p \in Plain |-> CASE srv[p] = "ready" -> "orphan"
                                   [] srv[p] = "bound" -> "leak"
                                   [] OTHER -> stray[p]]
    /\ waiting' = {p \in waiting : srv[p] = "ready"}

\* The finalizer of an unreachable socket runs.
Finalized(p) ==
    /\ stray[p] = "leak"
    /\ stray' = [stray EXCEPT ![p] = "none"]
    /\ UNCHANGED <<srv, enc, task, waiting, recent, degraded, cancelled>>

-----------------------------------------------------------------------------
(* Start                                                                    *)

\* Every socket is bound: the encrypted listeners accept, the supervisor starts.
Start(encrypted) ==
    /\ task = "off"
    /\ BindOk("none")
    /\ srv' = [p \in Plain |-> "bound"]
    /\ enc' = encrypted
    /\ degraded' = FALSE /\ recent' = 0
    /\ task' = "call"
    /\ UNCHANGED <<stray, waiting, cancelled>>

\* A plain bind fails: bindLocked rolls back.
StartPlainFails ==
    /\ task = "off"
    /\ \E bad \in Plain : stray' = BindRollback(bad)
    /\ UNCHANGED <<srv, enc, task, waiting, recent, degraded, cancelled>>

\* An encrypted listener does not start: startEncryptedLocked stops the others and
\* closeListenersLocked the plain ones, which have not been activated.
StartEncryptedFails ==
    /\ task = "off"
    /\ BindOk("none")
    /\ stray' = [p \in Plain |-> "leak"]
    /\ UNCHANGED <<srv, enc, task, waiting, recent, degraded, cancelled>>

-----------------------------------------------------------------------------
(* Supervisor.Run around serveAll                                           *)

\* Mutant: an error counts as a restart even when the budget is used up.
RestartsForEver ==
    /\ recent' = recent
    /\ task' = "backoff"
    /\ UNCHANGED degraded

\* recordRestart, then the give-up callback or the backoff.
RecordRestart ==
    /\ recent' = recent + 1
    /\ IF recent' <= MaxRestartsPerWindow
       THEN task' = "backoff" /\ UNCHANGED degraded
       ELSE task' = "ended" /\ degraded' = TRUE

\* The task has returned: a cancelled context ends Run before the error is looked at.
TaskReturned ==
    IF cancelled THEN task' = "ended" /\ UNCHANGED <<recent, degraded>> ELSE RecordRestart

\* serveAll binds unless Start has, and spawns the serve goroutines.
ServeAll ==
    /\ task = "call"
    /\ \A p \in Plain : srv[p] = "none" => PortFree(p)
    /\ srv' = [p \in Plain |-> "ready"]
    /\ waiting' = Plain
    /\ task' = "serve"
    /\ UNCHANGED <<stray, enc, recent, degraded, cancelled>>

\* The bind of a restart fails, because the system refuses it or a stray socket
\* still has the port.
ServeAllFails ==
    /\ task = "call"
    /\ \A p \in Plain : srv[p] = "none"
    /\ \E bad \in Plain \cup {"none"} : ~BindOk(bad) /\ stray' = BindRollback(bad)
    /\ TaskReturned
    /\ UNCHANGED <<srv, enc, waiting, cancelled>>

\* ActivateAndServe
Activate(p) ==
    /\ srv[p] = "ready"
    /\ srv' = [srv EXCEPT ![p] = "serving"]
    /\ UNCHANGED <<stray, enc, task, waiting, recent, degraded, cancelled>>

\* A serve goroutine returns with an error.
ServeFails(p) ==
    /\ srv[p] = "serving"
    /\ srv' = [srv EXCEPT ![p] = "failed"]
    /\ waiting' = waiting \ {p}
    /\ UNCHANGED <<stray, enc, task, recent, degraded, cancelled>>

\* Mutant: the encrypted listeners are torn down with the plain ones.
CloseEverything ==
    /\ task = "serve"
    /\ cancelled \/ \E p \in Plain : srv[p] = "failed"
    /\ ClosePlain
    /\ enc' = {}
    /\ task' = "drain"
    /\ UNCHANGED <<recent, degraded, cancelled>>

\* The select of serveAll: a server has failed or the context is cancelled.
CloseOnEvent ==
    /\ task = "serve"
    /\ cancelled \/ \E p \in Plain : srv[p] = "failed"
    /\ ClosePlain
    /\ task' = "drain"
    /\ UNCHANGED <<enc, recent, degraded, cancelled>>

\* allDone is closed and serveAll returns.
Drained ==
    /\ task = "drain" /\ waiting = {}
    /\ TaskReturned
    /\ UNCHANGED <<srv, stray, enc, waiting, cancelled>>

Backoff ==
    /\ task = "backoff"
    /\ task' = IF cancelled THEN "ended" ELSE "call"
    /\ UNCHANGED <<srv, stray, enc, waiting, recent, degraded, cancelled>>

\* A restart leaves the window. RestartWindow is longer than all backoffs together,
\* so it can only do so while the listeners serve.
WindowSlides ==
    /\ task = "serve" /\ \A p \in Plain : srv[p] = "serving"
    /\ recent > 0
    /\ recent' = recent - 1
    /\ UNCHANGED <<srv, stray, enc, task, waiting, degraded, cancelled>>

\* Shutdown up to the wait: encrypted listeners are stopped, the context cancelled.
FdShutdown ==
    /\ task /= "off" /\ ~cancelled
    /\ enc' = {}
    /\ cancelled' = TRUE
    /\ UNCHANGED <<srv, stray, task, waiting, recent, degraded>>

Supervise == ServeAll \/ ServeAllFails \/ CloseOnEvent \/ Drained \/ Backoff

-----------------------------------------------------------------------------
(* What Status says of a plain listener, as the panel shows it.             *)
Healthy(p) == srv[p] /= "none" /\ ~degraded

Orphaned == \E p \in Plain : stray[p] = "orphan"

\* The panel is told the truth through crashes, restarts and the give-up: a healthy
\* listener has a supervisor looking after it, and one that is gone is being
\* restarted or is reported degraded for good.
PlainStatusHonest ==
    /\ \A p \in Plain : Healthy(p) => task \in {"call", "serve"}
    /\ task = "ended" /\ ~cancelled => degraded
    /\ degraded => task = "ended" /\ \A p \in Plain : srv[p] = "none"

\* serveAll, once it has closed the servers, is kept only by one that it closed before
\* its goroutine had activated it, and by every such one: an orphan never comes back.
OnlyOrphansKeep ==
    \A p \in Plain : stray[p] = "orphan" <=> task = "drain" /\ p \in waiting

=============================================================================
