----------------------------- MODULE SniForward -----------------------------
(***************************************************************************)
(* The TCP :443 forwarder (internal/proxy/sniforward): the accept loop,    *)
(* one handler goroutine per connection with the two copying goroutines of *)
(* pipe, and Shutdown. The semaphore bounds the handlers.                  *)
(***************************************************************************)
EXTENDS Integers, FiniteSets

CONSTANTS
    MaxConns,       \* bound: client connections of a behaviour
    Hellos,         \* what clients send first
    MaxConcurrent   \* cfg.MaxConcurrent

ASSUME SniAssumption ==
    /\ MaxConns \in Nat
    /\ MaxConcurrent \in Nat \ {0}

\* Connections are numbered in the order in which they are accepted.
Conns == 1..MaxConns

VARIABLES
    sniListener,  \* s.listener
    sniClosed,    \* s.closed
    acceptLoop,   \* where acceptLoop is
    slots,        \* len(s.sem)
    conn,         \* where the handler of each connection is
    copied,       \* the copying goroutines of pipe that have ended
    client,       \* the client socket of each connection
    upstream,     \* the upstream socket of each connection
    sniDone       \* s.wg.Wait has returned after Shutdown

sniVars == <<sniListener, sniClosed, acceptLoop, slots, conn, copied, client, upstream, sniDone>>

Halves == {"toClient", "toUpstream"}

SniTypeOK ==
    /\ sniListener \in {"none", "open", "closed"}
    /\ sniClosed \in BOOLEAN /\ sniDone \in BOOLEAN
    /\ acceptLoop \in {"off", "accept", "exited"}
    /\ slots \in 0..MaxConcurrent
    /\ conn \in [Conns -> {"new", "accepted", "dial", "replay", "pipe", "unwind", "release", "end"}]
    /\ copied \in [Conns -> SUBSET Halves]
    /\ client \in [Conns -> {"none", "open", "closed"}]
    /\ upstream \in [Conns -> {"none", "open", "closed"}]

SniInit ==
    /\ sniListener = "none" /\ sniClosed = FALSE /\ sniDone = FALSE
    /\ acceptLoop = "off" /\ slots = 0
    /\ conn = [c \in Conns |-> "new"]
    /\ copied = [c \in Conns |-> {}]
    /\ client = [c \in Conns |-> "none"]
    /\ upstream = [c \in Conns |-> "none"]

-----------------------------------------------------------------------------
\* peekSNI: one complete TLS record that holds a ClientHello, then the first
\* host_name of its server_name extension. "slow" did not come before
\* HandshakePeekTimeout.
PeekSNI(h) ==
    IF h.record = "handshake" /\ h.message = "clienthello" THEN h.name ELSE "none"

\* selectUpstream: "" is a refusal.
SelectUpstream(name) ==
    CASE name = "panel" -> "panel"   \* PanelBackend
      [] name = "site"  -> "site"    \* name:443 through netguard.DialPublicContext
      [] OTHER          -> ""

-----------------------------------------------------------------------------
SniStart ==
    /\ sniListener = "none"
    /\ sniListener' = "open"
    /\ acceptLoop' = "accept"
    /\ UNCHANGED <<sniClosed, slots, conn, copied, client, upstream, sniDone>>

Accepted(c) ==
    /\ acceptLoop = "accept" /\ sniListener = "open"
    /\ conn[c] = "new" /\ \A d \in 1..(c - 1) : conn[d] /= "new"

\* A slot is free: the handler starts.
Accept(c) ==
    /\ Accepted(c)
    /\ slots < MaxConcurrent
    /\ slots' = slots + 1
    /\ conn' = [conn EXCEPT ![c] = "accepted"]
    /\ client' = [client EXCEPT ![c] = "open"]
    /\ UNCHANGED <<sniListener, sniClosed, acceptLoop, copied, upstream, sniDone>>

\* At the cap the connection is closed at once; accept does not block.
Refuse(c) ==
    /\ Accepted(c)
    /\ slots = MaxConcurrent
    /\ conn' = [conn EXCEPT ![c] = "end"]
    /\ client' = [client EXCEPT ![c] = "closed"]
    /\ UNCHANGED <<sniListener, sniClosed, acceptLoop, slots, copied, upstream, sniDone>>

AcceptLoopExits ==
    /\ acceptLoop = "accept" /\ sniListener = "closed"
    /\ acceptLoop' = "exited"
    /\ UNCHANGED <<sniListener, sniClosed, slots, conn, copied, client, upstream, sniDone>>

HandlerGoto(c, s) == conn' = [conn EXCEPT ![c] = s]

\* The gate, the peek (bounded by its deadline) and selectUpstream.
Peek(c) ==
    /\ conn[c] = "accepted"
    /\ \E h \in Hellos, admitted \in BOOLEAN :
          HandlerGoto(c, IF admitted /\ SelectUpstream(PeekSNI(h)) /= "" THEN "dial" ELSE "unwind")
    /\ UNCHANGED <<sniListener, sniClosed, acceptLoop, slots, copied, client, upstream, sniDone>>

\* dialUpstream, bounded by DialTimeout.
DialUpstream(c) ==
    /\ conn[c] = "dial"
    /\ \/ HandlerGoto(c, "replay") /\ upstream' = [upstream EXCEPT ![c] = "open"]
       \/ HandlerGoto(c, "unwind") /\ UNCHANGED upstream
    /\ UNCHANGED <<sniListener, sniClosed, acceptLoop, slots, copied, client, sniDone>>

Replay(c) ==
    /\ conn[c] = "replay"
    /\ HandlerGoto(c, "pipe") \/ HandlerGoto(c, "unwind")
    /\ UNCHANGED <<sniListener, sniClosed, acceptLoop, slots, copied, client, upstream, sniDone>>

\* One io.Copy of pipe ends: its source reached the end or one side failed. Only
\* the writing side of its target is shut; the other copy goes on.
CopyEnds(c, h) ==
    /\ conn[c] = "pipe" /\ h \notin copied[c]
    /\ copied' = [copied EXCEPT ![c] = @ \cup {h}]
    /\ UNCHANGED <<sniListener, sniClosed, acceptLoop, slots, conn, client, upstream, sniDone>>

PipeReturns(c) ==
    /\ conn[c] = "pipe" /\ copied[c] = Halves
    /\ HandlerGoto(c, "unwind")
    /\ UNCHANGED <<sniListener, sniClosed, acceptLoop, slots, copied, client, upstream, sniDone>>

\* The deferred calls of handleConn: upstream, then client.
HandlerReturns(c) ==
    /\ conn[c] = "unwind"
    /\ upstream' = [upstream EXCEPT ![c] = IF @ = "open" THEN "closed" ELSE @]
    /\ client' = [client EXCEPT ![c] = "closed"]
    /\ HandlerGoto(c, "release")
    /\ UNCHANGED <<sniListener, sniClosed, acceptLoop, slots, copied, sniDone>>

\* Then the slot, then wg.Done.
ReleaseSlot(c) ==
    /\ conn[c] = "release"
    /\ slots' = slots - 1
    /\ HandlerGoto(c, "end")
    /\ UNCHANGED <<sniListener, sniClosed, acceptLoop, copied, client, upstream, sniDone>>

\* Shutdown: the listener is closed; connections in flight are left to end.
SniShutdown ==
    /\ ~sniClosed
    /\ sniClosed' = TRUE
    /\ sniListener' = IF sniListener = "open" THEN "closed" ELSE sniListener
    /\ UNCHANGED <<acceptLoop, slots, conn, copied, client, upstream, sniDone>>

SniDrained ==
    /\ sniClosed /\ ~sniDone
    /\ acceptLoop /= "accept"
    /\ \A c \in Conns : conn[c] \in {"new", "end"}
    /\ sniDone' = TRUE
    /\ UNCHANGED <<sniListener, sniClosed, acceptLoop, slots, conn, copied, client, upstream>>

-----------------------------------------------------------------------------
Handler(c) ==
    \/ Peek(c) \/ DialUpstream(c) \/ Replay(c) \/ PipeReturns(c)
    \/ HandlerReturns(c) \/ ReleaseSlot(c)

SniTraffic ==
    \E c \in Conns : Accept(c) \/ Refuse(c) \/ (\E h \in Halves : CopyEnds(c, h))

SniWork == AcceptLoopExits \/ SniDrained \/ \E c \in Conns : Handler(c)

\* A handler is not stopped; clients and upstreams may keep a pipe open for ever.
SniFairness ==
    /\ WF_sniVars(AcceptLoopExits \/ SniDrained)
    /\ \A c \in Conns : WF_sniVars(Handler(c))

-----------------------------------------------------------------------------
(* Properties                                                               *)

\* The semaphore counts the handlers that have not returned, so the sockets of the
\* forwarder stay within two per slot whatever fails on the way.
SlotsAccounted ==
    /\ slots = Cardinality({c \in Conns : conn[c] \notin {"new", "end"}})
    /\ Cardinality({c \in Conns : upstream[c] = "open"}) <= slots
    /\ Cardinality({c \in Conns : client[c] = "open"}) <= slots

\* When Shutdown returns nil no socket is open.
SniAllClosed ==
    sniDone => /\ sniListener /= "open"
               /\ \A c \in Conns : client[c] /= "open" /\ upstream[c] /= "open"

\* A client that stalls before the pipe does not keep its slot: every handler gets
\* to the pipe or ends, and a pipe with both directions finished gives it back.
SlotComesBack ==
    \A c \in Conns :
        LET Piping == conn[c] = "pipe" /\ copied[c] /= Halves
        IN  (conn[c] \notin {"new", "end"} /\ ~Piping) ~> (conn[c] = "end" \/ Piping)

=============================================================================
