----------------------------- MODULE Forwarders -----------------------------
(***************************************************************************)
(* startProxyForwarders (cmd/5gpn/main.go): the two :443 forwarders as the *)
(* daemon starts and stops them. The TCP forwarder is started first and    *)
(* taken down again when the UDP one does not start; at the end of the     *)
(* daemon one goroutine shuts down the UDP, then the TCP forwarder, within *)
(* one timeout.                                                            *)
(***************************************************************************)
EXTENDS QuicForward, SniForward

CONSTANT MaxArrivals  \* bound: setups and connections of a behaviour

ASSUME ForwardersAssumption == MaxArrivals \in Nat

VARIABLES
    sniOn, quicOn,  \* the settings flags read at boot
    phase,          \* where the start and the stop are
    late            \* the timeout of the stop has run out

bootVars == <<sniOn, quicOn, phase, late>>
vars == <<bootVars, quicVars, sniVars>>

TypeOK ==
    /\ QuicTypeOK /\ SniTypeOK
    /\ sniOn \in BOOLEAN /\ quicOn \in BOOLEAN /\ late \in BOOLEAN
    /\ phase \in {"boot", "quic", "undo", "failed", "running", "stopQuic", "stopSni", "stopped"}

Init ==
    /\ QuicInit /\ SniInit
    /\ sniOn \in BOOLEAN /\ quicOn \in BOOLEAN
    /\ phase = "boot" /\ late = FALSE

-----------------------------------------------------------------------------
StartSni ==
    /\ phase = "boot"
    /\ \/ sniOn /\ SniStart /\ phase' = "quic"
       \/ sniOn /\ phase' = "failed" /\ UNCHANGED sniVars   \* the bind fails
       \/ ~sniOn /\ phase' = "quic" /\ UNCHANGED sniVars
    /\ UNCHANGED <<sniOn, quicOn, late, quicVars>>

StartQuic ==
    /\ phase = "quic"
    /\ \/ quicOn /\ QuicStart /\ phase' = "running" /\ UNCHANGED sniVars
       \/ quicOn /\ ~sniOn /\ phase' = "failed" /\ UNCHANGED <<quicVars, sniVars>>
       \/ quicOn /\ sniOn /\ SniShutdown /\ phase' = "undo" /\ UNCHANGED quicVars
       \/ ~quicOn /\ phase' = "running" /\ UNCHANGED <<quicVars, sniVars>>
    /\ UNCHANGED <<sniOn, quicOn, late>>

\* The compensating sni.Shutdown returns: drained, or after its five seconds.
UndoReturns ==
    /\ phase = "undo"
    /\ late' = ~sniDone
    /\ phase' = "failed"
    /\ UNCHANGED <<sniOn, quicOn, quicVars, sniVars>>

\* The daemon's context ends and the stopping goroutine wakes.
Stop ==
    /\ phase = "running"
    /\ sniOn \/ quicOn
    /\ IF quicOn THEN ShutdownCloses ELSE UNCHANGED quicVars
    /\ phase' = "stopQuic"
    /\ UNCHANGED <<sniOn, quicOn, late, sniVars>>

\* quicforward.Shutdown returns: its snapshot is dropped and done is closed, or
\* the timeout has run out.
StopSni ==
    /\ phase = "stopQuic"
    /\ quicOn => halt.at = "wait" /\ (done \/ late)
    /\ IF sniOn THEN SniShutdown ELSE UNCHANGED sniVars
    /\ phase' = "stopSni"
    /\ UNCHANGED <<sniOn, quicOn, late, quicVars>>

Stopped ==
    /\ phase = "stopSni"
    /\ sniOn => sniDone \/ late
    /\ phase' = "stopped"
    /\ UNCHANGED <<sniOn, quicOn, late, quicVars, sniVars>>

\* The timeout of the stopping goroutine runs out.
Timeout ==
    /\ phase \in {"stopQuic", "stopSni"} /\ ~late
    /\ late' = TRUE
    /\ UNCHANGED <<sniOn, quicOn, phase, quicVars, sniVars>>

-----------------------------------------------------------------------------
\* Each client arrival counts against the bound.
Arrived ==
    spawned + (IF reader.at = "miss" THEN 1 ELSE 0) + Cardinality({c \in Conns : conn[c] /= "new"})

QuicSteps ==
    /\ QuicTraffic \/ QuicWork
    /\ reader.at = "read" /\ reader'.at = "miss" => Arrived < MaxArrivals
    /\ UNCHANGED <<bootVars, sniVars>>

SniSteps ==
    /\ SniTraffic \/ SniWork
    /\ \A c \in Conns : conn[c] = "new" /\ conn'[c] /= "new" => Arrived < MaxArrivals
    /\ UNCHANGED <<bootVars, quicVars>>

Boot == StartSni \/ StartQuic \/ UndoReturns \/ StopSni \/ Stopped

Next == Boot \/ Stop \/ Timeout \/ QuicSteps \/ SniSteps

Spec == Init /\ [][Next]_vars

\* Goroutines run on; the daemon is not bound to stop.
LiveSpec == Spec /\ WF_vars(Boot) /\ QuicFairness /\ SniFairness

-----------------------------------------------------------------------------
(* Properties                                                               *)

\* Both forwarders keep to their accounts and caps while the other one and the boot
\* sequence run.
ForwardersAccounted == TypeOK /\ Accounted /\ SocketsBounded /\ SlotsAccounted

\* A forwarder that has drained has left nothing open, a stop that was not cut
\* short has drained both, and a start that reports an error has left neither :443
\* bound: the restart that follows finds the ports free.
StopLeavesNothing ==
    /\ AllReleased /\ SniAllClosed
    /\ phase = "stopped" /\ ~late => (quicOn => done) /\ (sniOn => sniDone)
    /\ phase = "failed" => listener /= "open" /\ sniListener /= "open"

\* Nobody waits for ever: Shutdown of the UDP forwarder completes, idle sessions
\* are reaped, TCP clients that stall early give their slot back.
NobodyWaits == ShutdownCompletes /\ IdleReaped /\ SlotComesBack

=============================================================================
