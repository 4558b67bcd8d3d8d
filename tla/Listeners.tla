----------------------------- MODULE Listeners -----------------------------
(***************************************************************************)
(* Who listens where: the last part of run (cmd/5gpn/main.go) with         *)
(* startFrontdoor, startProxyForwarders and Server.ListenAndServe. The     *)
(* panel leaves TCP :443 to the SNI forwarder and DoH3 leaves UDP :443 to  *)
(* the QUIC forwarder, before either is started; both then serve a backend *)
(* address. The settings are read once, at boot, and hardly any of them is *)
(* checked: the panel may be put on any port, a backend on any host:port.  *)
(*                                                                         *)
(* A host is "" as in ":443", the wildcard "all", the loopback, an address *)
(* of its "own" of the machine, or one it does not have ("bad"). A port    *)
(* number that is named is one some listener has by default; "invalid" is  *)
(* one that does not exist.                                                *)
(***************************************************************************)
EXTENDS Frontdoor

CONSTANT Confs  \* the settings a boot may find

Addrs == [host : {"", "all", "loop", "own", "bad"},
          num : {"0", "53", "80", "443", "853", "8444", "8445", "other", "invalid"}]

Configurations ==
    [tls : {"acme", "static", "none", "insecure"},  \* insecure: the flag of serve
     cert : BOOLEAN,                                \* the static certificate can be read
     spoof : BOOLEAN,                               \* the spoof settings make a policy
     panel : {a \in Addrs : a.host # "" /\ a.num \notin {"0", "invalid"}},
     dns : {"own", "all"},                          \* the host of the plain :53 binds
     sni : BOOLEAN, quic : BOOLEAN, doq : BOOLEAN, doh3 : BOOLEAN,
     backTCP : Addrs, backUDP : Addrs]

ASSUME ListenersAssumption == Confs \subseteq Configurations

VARIABLES
    conf,    \* the settings
    run,     \* where run is
    bound,   \* the listeners besides :53 that have their socket
    refused  \* the system has refused something the settings allow

listenersVars == <<fdVars, conf, run, bound, refused>>

PanelListeners == {"primary", "secondary"}
AllListeners == Encrypted \cup {"sni", "quic"} \cup PanelListeners
Datagram == {"doq", "doh3", "quic"}

Runs == {"ports", "frontdoor", "sni", "quic", "primary", "secondary", "up", "failed",
         "stopping", "exited"}

ListenersTypeOK ==
    /\ FdTypeOK
    /\ conf \in Confs
    /\ run \in Runs
    /\ bound \in SUBSET AllListeners
    /\ refused \in BOOLEAN

ListenersInit ==
    /\ FdInit
    /\ conf \in Confs
    /\ run = "ports"
    /\ bound = {}
    /\ refused = FALSE

-----------------------------------------------------------------------------
(* Addresses                                                                *)

\* panelTLSConfigured, and not the insecure flag
Secure == conf.tls \in {"acme", "static"}

Everywhere(num) == [host |-> "", num |-> num]

\* strings.HasSuffix(addr, suffix)
HasSuffix(addr, suffix) == addr.num = suffix.num /\ suffix.host \in {"", addr.host}

\* Mutant: the primary listener stays on :443.
PrimaryStays == conf.panel

\* The panel's own address, moved off :443 when the SNI forwarder takes it.
PrimaryAddr ==
    IF conf.sni /\ Secure /\ HasSuffix(conf.panel, Everywhere("443")) THEN conf.backTCP ELSE conf.panel

\* The second HTTPS listener, in ACME mode and on another address only.
SecondaryAddr == IF conf.sni THEN conf.backTCP ELSE Everywhere("443")
HasSecondary == conf.tls = "acme" /\ ~HasSuffix(PrimaryAddr, SecondaryAddr)

\* Mutant: DoH3 stays on the public port.
DoH3Stays == Everywhere("443")

DoH3Addr == IF conf.quic /\ conf.doh3 THEN conf.backUDP ELSE Everywhere("443")

AddrOf(l) ==
    CASE l \in {"dot", "doq"} -> Everywhere("853")
      [] l = "doh3" -> DoH3Addr
      [] l \in {"sni", "quic"} -> Everywhere("443")
      [] l = "primary" -> PrimaryAddr
      [] l = "secondary" -> SecondaryAddr

EncConfigured == {"dot"} \cup (IF conf.doq THEN {"doq"} ELSE {}) \cup (IF conf.doh3 THEN {"doh3"} ELSE {})

\* What bind(2) says of two addresses of one protocol (external).
Wild == {"", "all"}
Bindable(a) == a.host # "bad" /\ a.num # "invalid"
Overlap(a, b) ==
    /\ a.num = b.num /\ a.num # "0"
    /\ a.host = b.host \/ a.host \in Wild \/ b.host \in Wild

Collide(l, m) == (l \in Datagram <=> m \in Datagram) /\ Overlap(AddrOf(l), AddrOf(m))

OnPlain(l, p) ==
    (l \in Datagram <=> p = "udp53") /\ Overlap(AddrOf(l), [host |-> conf.dns, num |-> "53"])

CanBind(l) ==
    /\ Bindable(AddrOf(l))
    /\ \A m \in bound : ~Collide(l, m)
    /\ \A p \in Plain : OnPlain(l, p) => PortFree(p)

-----------------------------------------------------------------------------
(* Startup                                                                  *)

\* The fail-fast guard: plain HTTP on a TLS-standard port is refused. The front door
\* is started with panel TLS only.
CheckPorts ==
    /\ run = "ports"
    /\ run' = IF conf.tls = "none" /\ conf.panel.num \in {"80", "443"} THEN "failed"
              ELSE IF Secure THEN "frontdoor" ELSE "primary"
    /\ UNCHANGED <<conf, bound, refused, fdVars>>

CertLoads == conf.tls = "static" => conf.cert

EncryptedFit ==
    \A l \in EncConfigured :
        /\ Bindable(AddrOf(l))
        /\ \A m \in EncConfigured \ {l} : ~Collide(l, m)
        /\ \A p \in Plain : ~OnPlain(l, p)

\* startFrontdoor: Start binds everything, and the forwarders are next.
StartFrontdoor ==
    /\ run = "frontdoor"
    /\ conf.spoof /\ CertLoads /\ EncryptedFit
    /\ Start(EncConfigured)
    /\ bound' = bound \cup EncConfigured
    /\ run' = "sni"
    /\ UNCHANGED <<conf, refused>>

\* The spoof policy or the certificate is bad, two listeners have one address, or the
\* system refuses: a setting cannot be read, a bind fails. The forwarders are not
\* started either.
FrontdoorFails ==
    /\ run = "frontdoor"
    /\ \/ ~(conf.spoof /\ CertLoads) /\ UNCHANGED <<fdVars, refused>>
       \/ conf.spoof /\ CertLoads /\ ~EncryptedFit /\ StartEncryptedFails /\ UNCHANGED refused
       \/ (StartPlainFails \/ StartEncryptedFails \/ UNCHANGED fdVars) /\ refused' = TRUE
    /\ run' = "primary"
    /\ UNCHANGED <<conf, bound>>

\* The SNI forwarder is off; or a flag cannot be read or the port is refused, which
\* leaves out both.
SniSkipped ==
    /\ run = "sni"
    /\ \/ ~conf.sni /\ run' = "quic" /\ UNCHANGED refused
       \/ run' = "primary" /\ refused' = TRUE
    /\ UNCHANGED <<conf, bound, fdVars>>

StartSniForward ==
    /\ run = "sni" /\ conf.sni
    /\ CanBind("sni")
    /\ bound' = bound \cup {"sni"}
    /\ run' = "quic"
    /\ UNCHANGED <<conf, refused, fdVars>>

StartQuicForward ==
    /\ run = "quic"
    /\ IF conf.quic THEN CanBind("quic") /\ bound' = bound \cup {"quic"} ELSE UNCHANGED bound
    /\ run' = "primary"
    /\ UNCHANGED <<conf, refused, fdVars>>

\* The QUIC forwarder does not start: the port is taken or refused. The SNI
\* forwarder is shut down again.
QuicForwardFails ==
    /\ run = "quic" /\ conf.quic
    /\ refused' = (refused \/ CanBind("quic"))
    /\ bound' = bound \ {"sni"}
    /\ run' = "primary"
    /\ UNCHANGED <<conf, fdVars>>

\* runDual: the primary and the secondary HTTPS listener of the panel.
ListenPrimary ==
    /\ run = "primary"
    /\ CertLoads /\ CanBind("primary")
    /\ bound' = bound \cup {"primary"}
    /\ run' = "secondary"
    /\ UNCHANGED <<conf, refused, fdVars>>

ListenSecondary ==
    /\ run = "secondary"
    /\ IF HasSecondary THEN CanBind("secondary") /\ bound' = bound \cup {"secondary"}
                       ELSE UNCHANGED bound
    /\ run' = "up"
    /\ UNCHANGED <<conf, refused, fdVars>>

\* The certificate cannot be read or a listener of the panel cannot bind: run returns
\* and the process ends, which closes every socket.
ListenFails ==
    /\ \/ run = "primary" /\ refused' = (refused \/ (CertLoads /\ CanBind("primary")))
       \/ run = "secondary" /\ HasSecondary /\ refused' = (refused \/ CanBind("secondary"))
    /\ run' = "failed"
    /\ bound' = {}
    /\ UNCHANGED <<conf, fdVars>>

-----------------------------------------------------------------------------
(* The end of the daemon: its context is cancelled, which wakes the goroutine that *)
(* shuts the front door, the one that stops the forwarders, and runDual. run does  *)
(* not wait for the first two.                                                     *)

DaemonStops ==
    /\ run = "up"
    /\ run' = "stopping"
    /\ UNCHANGED <<conf, bound, refused, fdVars>>

FrontdoorStops ==
    /\ run = "stopping"
    /\ FdShutdown
    /\ bound' = bound \ Encrypted
    /\ UNCHANGED <<conf, run, refused>>

ForwardersStop ==
    /\ run = "stopping"
    /\ bound \cap {"sni", "quic"} # {}
    /\ bound' = bound \ {"sni", "quic"}
    /\ UNCHANGED <<conf, run, refused, fdVars>>

PanelStops ==
    /\ run = "stopping"
    /\ run' = "exited"
    /\ bound' = {}
    /\ UNCHANGED <<conf, refused, fdVars>>

-----------------------------------------------------------------------------
Startup ==
    \/ CheckPorts \/ StartFrontdoor \/ FrontdoorFails \/ SniSkipped \/ StartSniForward
    \/ StartQuicForward \/ QuicForwardFails \/ ListenPrimary \/ ListenSecondary \/ ListenFails

Ending == DaemonStops \/ FrontdoorStops \/ ForwardersStop \/ PanelStops

\* The goroutines of the front door end with the process.
Alive == run \notin {"failed", "exited"}

\* A listener that got port 53 while a plain one was down keeps it from coming back.
Kept53 == \E p \in Plain, l \in bound : srv[p] = "none" /\ OnPlain(l, p)

Supervised ==
    /\ Supervise
    /\ Kept53 => ~(task = "call" /\ task' = "serve")

FdSteps ==
    /\ Alive
    /\ \/ Supervised \/ WindowSlides
       \/ \E p \in Plain : Activate(p) \/ ServeFails(p) \/ Finalized(p)
    /\ UNCHANGED <<conf, run, bound, refused>>

ListenersNext == Startup \/ Ending \/ FdSteps

ListenersSpec == ListenersInit /\ [][ListenersNext]_listenersVars

\* The supervisor and the serve goroutines run on as long as the process does.
ListenersLiveSpec ==
    /\ ListenersSpec
    /\ WF_listenersVars(Alive /\ Supervised /\ UNCHANGED <<conf, run, bound, refused>>)
    /\ \A p \in Plain :
          WF_listenersVars(Alive /\ Activate(p) /\ UNCHANGED <<conf, run, bound, refused>>)

-----------------------------------------------------------------------------
(* Properties                                                               *)

\* What the operator has to avoid, in terms of the settings alone, for the panel to
\* listen: plain HTTP on 80 or 443, a certificate that cannot be read, an address the
\* machine does not have, the ports of DNS and DoT, and, with the SNI forwarder, a
\* backend on those, on 443 or on the panel's own port.
PanelFits ==
    /\ conf.tls = "none" => conf.panel.num \notin {"80", "443"}
    /\ CertLoads
    /\ Bindable(conf.panel)
    /\ Secure => conf.panel.num \notin {"53", "853"}
    /\ Secure /\ conf.sni =>
          /\ Bindable(conf.backTCP) /\ conf.backTCP.num \notin {"53", "443", "853"}
          /\ Overlap(conf.panel, conf.backTCP) => HasSuffix(conf.panel, conf.backTCP)

\* The same for all listeners.
SettingsFit ==
    /\ PanelFits
    /\ Secure => conf.spoof
    /\ Secure /\ conf.sni => conf.backTCP.num # "0"
    /\ Secure /\ conf.quic /\ conf.doh3 =>
          /\ Bindable(conf.backUDP) /\ conf.backUDP.num \notin {"0", "53", "443"}
          /\ conf.doq => conf.backUDP.num # "853"

\* A connection to the address reaches the listener.
Reaches(addr, l) ==
    /\ addr.num = AddrOf(l).num /\ addr.num # "0"
    /\ AddrOf(l).host \in Wild \cup {addr.host}

\* Settings that fit never end the daemon: it fails to listen only when the system
\* refuses. And if the system refused nothing, every configured listener has its
\* socket, the panel is on its port, and with a panel on every interface
\* https://domain/ reaches it: directly, or through the SNI forwarder and a backend
\* the panel serves. Not covered by the code: a panel with a static certificate on
\* another port has no listener on the backend.
PanelReachable ==
    /\ run = "failed" => refused \/ ~PanelFits
    /\ run = "up" /\ ~refused /\ SettingsFit =>
        /\ Secure => /\ EncConfigured \subseteq bound
                     /\ conf.quic => "quic" \in bound
                     /\ conf.sni => "sni" \in bound
        /\ "primary" \in bound
        /\ conf.panel.num # "443" => AddrOf("primary") = conf.panel
        /\ /\ conf.panel.host = "all"
           /\ conf.tls = "acme" \/ (conf.tls = "static" /\ conf.panel.num = "443")
           => \E l \in bound \cap PanelListeners :
                Reaches(IF conf.sni THEN conf.backTCP ELSE [host |-> "own", num |-> "443"], l)

\* Crashes, restarts and the give-up of the plain listeners leave the encrypted ones
\* alone: while the daemon is not stopping, every one that was started is there, and
\* it has its socket.
EncryptedSurvive ==
    task /= "off" /\ ~cancelled =>
        enc = EncConfigured /\ (enc \subseteq bound \/ ~Alive)

\* Types, the encrypted listeners, the truth of Status and what can keep serveAll.
FrontdoorConsistent ==
    ListenersTypeOK /\ EncryptedSurvive /\ PlainStatusHonest /\ OnlyOrphansKeep

\* A crash of a plain listener ends in both being served again or in the degraded
\* state, and a cancelled front door ends; unless a server was closed before its
\* goroutine had activated it, in which case serveAll waits for an orphan for ever,
\* or the process ends first.
PlainRecovers ==
    /\ (\E p \in Plain : srv[p] = "failed") ~>
          ((\A p \in Plain : srv[p] = "serving") \/ degraded \/ cancelled \/ Orphaned \/ ~Alive)
    /\ cancelled ~> (task = "ended" \/ Orphaned \/ ~Alive)

=============================================================================
