---------------------------- MODULE DaemonProofs ----------------------------
(***************************************************************************)
(* The listeners of the daemon.                                            *)
(*                                                                         *)
(* First the two :443 forwarders, for every number of clients, addresses,  *)
(* setups and connections and every value of the caps.  The properties     *)
(* speak of totals (accounts, open sockets) and of the end; the invariants *)
(* add what holds for each worker and each handler at each of its stages.  *)
(*                                                                         *)
(* Then who listens where, for every restart budget of the front door and  *)
(* all settings: the properties speak of the daemon that is up; the        *)
(* invariants say which listener may have its socket at each step of run   *)
(* and what the supervisor has left at each of its points, and the lemmas  *)
(* on addresses that settings which fit leave every bind a free port.      *)
(***************************************************************************)
EXTENDS Forwarders, Listeners, FiniteSetTheorems, TLAPS

----------------------------------------------------------------------------
(* The UDP forwarder *)

(* Before the promotion of worker w is decided and its failure is over. *)
SettingUp(w) == stage[w] \in PendingStages \cup {"refused"}

Dropped(w) == drop[w] \in {"deleted", "closed"}

(* What a worker has at each stage of setupSession. *)
SetupOK(w) ==
    /\ stage[w] = "new" <=> w > spawned
    /\ stage[w] = "new" => backend[w] = "none"
    /\ stage[w] # "new" => key[w] \in Keys
    /\ stage[w] \in {"new", "spawned", "resolve", "dial"} => backend[w] = "none"
    /\ stage[w] \in PendingStages \ {"fail"} => key[w] \in pending
    /\ stage[w] = "fail" => backend[w] # "open" /\ (key[w] \in pending \/ closed)
    /\ stage[w] = "refused" => closed /\ key[w] \notin pending
    /\ SettingUp(w) => sessions[key[w]] = 0
    /\ SettingUp(w) \/ stage[w] = "new" => drop[w] = "no"

(* How far the session of a worker is dropped, and by whom. *)
DropOK(w) ==
    /\ stage[w] = "relay" /\ drop[w] = "no" => sessions[key[w]] = w
    /\ stage[w] = "dropping" => Dropped(w)
    /\ stage[w] = "end" /\ drop[w] = "no" => backend[w] # "open"
    /\ drop[w] \in {"closed", "released"} => backend[w] # "open"
    /\ Dropped(w) => stage[w] = "dropping" \/ busy["gc"] = w \/ busy["halt"] = w

WorkersOK == \A w \in Setups : SetupOK(w) /\ DropOK(w)

(* The stored generation of a client is a relay that nobody drops. *)
StoredOK ==
    \A k \in Keys : sessions[k] # 0 =>
        LET w == sessions[k] IN key[w] = k /\ stage[w] = "relay" /\ drop[w] = "no"

(* A client has at most one setup, and a reservation belongs to one. *)
OneSetup ==
    \A v, w \in Setups : SettingUp(v) /\ SettingUp(w) /\ key[v] = key[w] => v = w

PendingHeld ==
    \A k \in pending : \E w \in Setups : stage[w] \in PendingStages /\ key[w] = k

LoopsOK ==
    /\ closed <=> halt.at # "no"
    /\ listener = "none" => reader.at = "off" /\ gc.at = "off"
    /\ reader.at = "miss" => reader.key \in Keys /\ spawned < MaxSetups
    /\ gc.at # "drop" => busy["gc"] = 0
    /\ halt.at # "drop" => busy["halt"] = 0
    /\ idle \subseteq 1..spawned /\ gc.left \subseteq 1..spawned /\ halt.left \subseteq 1..spawned

(* Shutdown has seen every goroutine return. *)
DoneOK ==
    done => /\ halt.at = "wait"
            /\ reader.at \in {"off", "exited"} /\ gc.at \in {"off", "exited"}
            /\ \A w \in Setups : stage[w] \in {"new", "end"}

(* The setups that may have a socket: a refused one has released its        *)
(* reservation and is about to close it, but then nobody reserves again.    *)
Sockets == Holders \cup {w \in Setups : stage[w] = "refused"}

SocketsOK ==
    /\ Cardinality(Sockets) <= MaxSessions
    /\ \A i \in IPs : Cardinality({w \in Sockets : IpOf[key[w]] = i}) <= MaxSessionsPerIP
    /\ Cardinality(pending) <= MaxConcurrentSetups

QuicShape == QuicTypeOK /\ WorkersOK /\ StoredOK /\ OneSetup /\ PendingHeld

QuicInv == QuicShape /\ LoopsOK /\ DoneOK /\ Accounted /\ SocketsOK

----------------------------------------------------------------------------
(* The TCP forwarder *)

Handling == {c \in Conns : conn[c] \notin {"new", "end"}}

SniInv ==
    /\ SniTypeOK
    /\ slots = Cardinality(Handling)
    /\ \A c \in Conns :
          /\ upstream[c] = "open" => conn[c] \in {"replay", "pipe", "unwind"}
          /\ client[c] = "open" => conn[c] \notin {"new", "release", "end"}
    /\ sniClosed => sniListener # "open"
    /\ sniDone => /\ sniClosed /\ acceptLoop # "accept"
                  /\ \A c \in Conns : conn[c] \in {"new", "end"}

----------------------------------------------------------------------------
(* The start and the stop *)

BootInv ==
    /\ sniOn \in BOOLEAN /\ quicOn \in BOOLEAN /\ late \in BOOLEAN
    /\ phase \in {"boot", "quic", "undo", "failed", "running", "stopQuic", "stopSni", "stopped"}
    /\ phase \in {"boot", "quic", "undo", "failed"} => listener = "none" /\ ~closed
    /\ phase = "boot" => sniListener = "none" /\ acceptLoop = "off"
    /\ phase \in {"boot", "quic", "running", "stopQuic"} => ~sniClosed
    /\ phase = "quic" /\ ~sniOn => sniListener = "none"
    /\ phase = "undo" => sniClosed
    /\ phase = "failed" => sniListener # "open"
    /\ phase = "running" => ~closed
    /\ phase \in {"stopSni", "stopped"} /\ quicOn => done \/ late
    /\ phase = "stopped" /\ sniOn => sniDone \/ late

IInv == QuicInv /\ SniInv /\ BootInv

(* Counting *)

LEMMA SetupsFinite ==
    IsFiniteSet(Setups) /\ \A S \in SUBSET Setups : IsFiniteSet(S) /\ Cardinality(S) \in Nat
<1>1. IsFiniteSet(Setups)
  BY QuicAssumption, FS_Interval DEF Setups
<1> QED BY <1>1, FS_Subset, FS_CardinalityType

LEMMA PendingFinite ==
    ASSUME QuicTypeOK
    PROVE  \A S \in SUBSET pending : IsFiniteSet(S) /\ Cardinality(S) \in Nat
                                     /\ Cardinality(S) <= Cardinality(pending)
<1>1. IsFiniteSet(pending)
  BY QuicAssumption, FS_Subset DEF QuicTypeOK
<1> QED BY <1>1, FS_Subset, FS_CardinalityType

Of(S, i) == {w \in S : IpOf[key[w]] = i}

LEMMA HolderSets ==
    /\ Holders \subseteq Setups /\ Sockets \subseteq Setups
    /\ \A i : Of(Holders, i) \subseteq Setups /\ Of(Sockets, i) \subseteq Setups
  BY DEF Holders, Sockets, Of

LEMMA HoldersSame ==
    ASSUME Accounted, Holders' = Holders, key' = key, UNCHANGED <<reserved, perIP>>
    PROVE  Accounted'
  BY DEF Accounted

LEMMA HolderLeaves ==
    ASSUME QuicTypeOK, Accounted, NEW w \in Holders, key[w] \in Keys,
           Holders' = Holders \ {w}, key' = key, ReleaseCountLocked(IpOf[key[w]])
    PROVE  Accounted'
<1> DEFINE H == Holders
           n == IpOf[key[w]]
<1>1. H \in SUBSET Setups /\ n \in IPs
  BY HolderSets, QuicAssumption
<1>2. IsFiniteSet(H) /\ \A i : IsFiniteSet(Of(H, i)) /\ Cardinality(Of(H, i)) \in Nat
  BY <1>1, SetupsFinite DEF Of
<1>3. Cardinality(H \ {w}) = Cardinality(H) - 1 /\ Cardinality(H) \in Nat /\ Cardinality(H) > 0
  BY <1>2, FS_RemoveElement, FS_CardinalityType, FS_EmptySet
<1>4. reserved' = Cardinality(Holders')
  BY <1>3 DEF Accounted, ReleaseCountLocked
<1>5. \A i \in IPs : i # n => {v \in Holders' : IpOf[key'[v]] = i} = Of(H, i)
  BY DEF Of
<1>6. {v \in Holders' : IpOf[key'[v]] = n} = Of(H, n) \ {w}
  BY DEF Of
<1>7. w \in Of(H, n)
  BY DEF Of
<1>8. /\ Cardinality(Of(H, n) \ {w}) = Cardinality(Of(H, n)) - 1
      /\ Cardinality(Of(H, n)) \in Nat /\ Cardinality(Of(H, n)) > 0
  <2> DEFINE S == Of(H, n)
  <2>1. w \in S /\ IsFiniteSet(S) /\ Cardinality(S) \in Nat
    BY <1>2, <1>7
  <2> HIDE DEF S
  <2>2. Cardinality(S \ {w}) = Cardinality(S) - 1 /\ Cardinality(S) > 0
    BY <2>1, FS_RemoveElement, FS_EmptySet
  <2> QED BY <2>1, <2>2 DEF S
<1>9. /\ perIP \in [IPs -> Nat] /\ \A i \in IPs : perIP[i] = Cardinality(Of(H, i))
      /\ perIP' = [perIP EXCEPT ![n] = IF perIP[n] > 1 THEN perIP[n] - 1 ELSE 0]
  BY DEF Accounted, QuicTypeOK, ReleaseCountLocked, Of
<1>10. \A i \in IPs : i # n => perIP'[i] = Cardinality({v \in Holders' : IpOf[key'[v]] = i})
  BY <1>5, <1>9
<1>11. perIP'[n] = Cardinality(Of(H, n)) - 1
  BY <1>1, <1>8, <1>9
<1>12. \A i \in IPs : perIP'[i] = Cardinality({v \in Holders' : IpOf[key'[v]] = i})
  BY <1>6, <1>8, <1>10, <1>11
<1> QED BY <1>4, <1>12 DEF Accounted

LEMMA HolderComes ==
    ASSUME QuicTypeOK, Accounted, NEW w \in Setups, w \notin Holders, NEW k \in Keys,
           key' = [key EXCEPT ![w] = k], Holders' = Holders \cup {w},
           reserved' = reserved + 1, perIP' = [perIP EXCEPT ![IpOf[k]] = @ + 1]
    PROVE  Accounted'
<1> DEFINE H == Holders
           n == IpOf[k]
<1>1. H \in SUBSET Setups /\ n \in IPs
  BY HolderSets, QuicAssumption
<1>2. IsFiniteSet(H) /\ \A i : IsFiniteSet(Of(H, i)) /\ Cardinality(Of(H, i)) \in Nat
  BY <1>1, SetupsFinite DEF Of
<1>3. Cardinality(H \cup {w}) = Cardinality(H) + 1
  BY <1>2, FS_AddElement
<1>4. reserved' = Cardinality(Holders')
  BY <1>3 DEF Accounted
<1>5. key'[w] = k /\ \A v \in H : key'[v] = key[v]
  BY <1>1 DEF QuicTypeOK
<1>6. \A i \in IPs : i # n => {v \in Holders' : IpOf[key'[v]] = i} = Of(H, i)
  BY <1>5 DEF Of
<1>7. {v \in Holders' : IpOf[key'[v]] = n} = Of(H, n) \cup {w}
  BY <1>5 DEF Of
<1>8. Cardinality(Of(H, n) \cup {w}) = Cardinality(Of(H, n)) + 1
  <2>1. w \notin Of(H, n)
    BY DEF Of
  <2> QED BY <1>2, <2>1, FS_AddElement
<1>9. /\ perIP \in [IPs -> Nat] /\ \A i \in IPs : perIP[i] = Cardinality(Of(H, i))
  BY DEF Accounted, QuicTypeOK, Of
<1>10. \A i \in IPs : i # n => perIP'[i] = Cardinality({v \in Holders' : IpOf[key'[v]] = i})
  BY <1>6, <1>9
<1>11. perIP'[n] = Cardinality(Of(H, n)) + 1
  BY <1>1, <1>9
<1>12. \A i \in IPs : perIP'[i] = Cardinality({v \in Holders' : IpOf[key'[v]] = i})
  BY <1>7, <1>8, <1>10, <1>11
<1> QED BY <1>4, <1>12 DEF Accounted

(* No socket is added: the caps stay kept. *)
LEMMA SocketsShrink ==
    ASSUME QuicTypeOK, SocketsOK, Sockets' \subseteq Sockets, key' = key, pending' \subseteq pending
    PROVE  SocketsOK'
<1> DEFINE S == Sockets
           T == Sockets'
<1>1. S \in SUBSET Setups /\ T \in SUBSET Setups
  BY HolderSets
<1>2. \A A \in SUBSET Setups : \A B \in SUBSET A : Cardinality(B) <= Cardinality(A) /\ Cardinality(B) \in Nat
                                            /\ Cardinality(A) \in Nat
  BY SetupsFinite, FS_Subset
<1>3. Cardinality(T) <= MaxSessions
  BY <1>1, <1>2, QuicAssumption DEF SocketsOK
<1>4. \A i \in IPs : Cardinality({v \in T : IpOf[key'[v]] = i}) <= MaxSessionsPerIP
  <2> SUFFICES ASSUME NEW i \in IPs
               PROVE  Cardinality({v \in T : IpOf[key'[v]] = i}) <= MaxSessionsPerIP
    OBVIOUS
  <2>1. {v \in T : IpOf[key'[v]] = i} \in SUBSET {v \in S : IpOf[key[v]] = i}
    OBVIOUS
  <2>2. {v \in S : IpOf[key[v]] = i} \in SUBSET Setups
    BY <1>1
  <2>3. Cardinality({v \in S : IpOf[key[v]] = i}) <= MaxSessionsPerIP
    BY DEF SocketsOK
  <2> QED BY <2>1, <2>2, <2>3, <1>2, QuicAssumption
<1>5. Cardinality(pending') <= MaxConcurrentSetups
  BY PendingFinite, QuicAssumption DEF SocketsOK
<1> QED BY <1>3, <1>4, <1>5 DEF SocketsOK

----------------------------------------------------------------------------
(* Steps that leave the workers and the tables alone *)

kept == <<tables, spawned, key, stage, backend, drop, busy>>

LEMMA KeptShape ==
    ASSUME QuicInv, UNCHANGED kept, closed => closed'
    PROVE  WorkersOK' /\ StoredOK' /\ OneSetup' /\ PendingHeld' /\ Accounted' /\ SocketsOK'
<1>1. /\ UNCHANGED <<sessions, pending, reserved, perIP, spawned, key, stage, backend, drop, busy>>
  BY DEF kept, tables
<1>2. WorkersOK'
  <2> SUFFICES ASSUME NEW w \in Setups PROVE SetupOK(w)' /\ DropOK(w)'
    BY DEF WorkersOK
  <2>1. SetupOK(w) /\ DropOK(w)
    BY DEF QuicInv, QuicShape, WorkersOK
  <2>2. SetupOK(w)'
    BY <1>1, <2>1 DEF SetupOK, SettingUp
  <2>3. DropOK(w)'
    BY <1>1, <2>1 DEF DropOK, Dropped
  <2> QED BY <2>2, <2>3
<1>3. StoredOK' /\ OneSetup' /\ PendingHeld'
  BY <1>1 DEF QuicInv, QuicShape, StoredOK, OneSetup, PendingHeld, SettingUp
<1>4. Holders' = Holders /\ Sockets' = Sockets
  BY <1>1 DEF Holders, Sockets
<1>5. Accounted'
  BY <1>1, <1>4, HoldersSame DEF QuicInv
<1>6. SocketsOK'
  BY <1>1, <1>4, SocketsShrink DEF QuicInv, QuicShape
<1> QED BY <1>2, <1>3, <1>5, <1>6

(* Types and the two loop invariants are what is left of such a step. *)
LEMMA KeptInv ==
    ASSUME QuicInv, UNCHANGED kept, closed => closed', QuicTypeOK', LoopsOK', DoneOK'
    PROVE  QuicInv'
  BY KeptShape DEF QuicInv, QuicShape

LEMMA QuicStutters == ASSUME QuicInv, UNCHANGED quicVars PROVE QuicInv'
<1>1. /\ UNCHANGED kept /\ UNCHANGED <<listener, closed, reader, gc, halt, done, idle>>
      /\ UNCHANGED <<sessions, pending, reserved, perIP, spawned, key, stage, backend, drop, busy>>
  BY DEF kept, quicVars, tables
<1>2. QuicTypeOK'
  BY <1>1 DEF QuicInv, QuicShape, QuicTypeOK
<1>3. LoopsOK' /\ DoneOK'
  BY <1>1 DEF QuicInv, LoopsOK, DoneOK
<1> QED BY <1>1, <1>2, <1>3, KeptInv

LEMMA SpawnedIdle == 
    ASSUME QuicInv
    PROVE  \A k \in Keys : sessions[k] # 0 => sessions[k] \in 1..spawned
<1> SUFFICES ASSUME NEW k \in Keys, sessions[k] # 0 PROVE sessions[k] \in 1..spawned
  OBVIOUS
<1>1. sessions[k] \in Setups /\ stage[sessions[k]] = "relay"
  BY DEF QuicInv, QuicShape, QuicTypeOK, StoredOK
<1>2. SetupOK(sessions[k])
  BY <1>1 DEF QuicInv, QuicShape, WorkersOK
<1>3. ~(sessions[k] > spawned)
  BY <1>1, <1>2 DEF SetupOK
<1> QED BY <1>1, <1>3, QuicAssumption DEF Setups, QuicInv, QuicShape, QuicTypeOK

(* The datagrams, the passing of time and the loops. *)
LEMMA TrafficInv ==
    ASSUME QuicInv,
           \/ \E k \in Keys : HotPath(k) \/ ColdPath(k)
           \/ \E w \in Setups : Relay(w) \/ Expires(w)
    PROVE  QuicInv'
<1>1. UNCHANGED kept /\ UNCHANGED <<listener, closed, gc, halt, done>>
  BY DEF HotPath, ColdPath, Relay, Expires, kept, loops, tables, workers
<1>2. UNCHANGED <<sessions, pending, reserved, perIP, spawned, key, stage, backend, drop, busy>>
  BY <1>1 DEF kept, tables
<1>3. idle' \subseteq idle \cup ({sessions[k] : k \in Keys} \ {0})
  BY DEF HotPath, ColdPath, Relay, Expires, workers
<1>4. idle' \subseteq 1..spawned
  BY <1>3, SpawnedIdle DEF QuicInv, LoopsOK
<1>5. idle' \in SUBSET Setups
  BY <1>4, QuicAssumption DEF Setups, QuicInv, QuicShape, QuicTypeOK
<1>6. CASE \E k \in Keys : ColdPath(k)
  <2>1. PICK k \in Keys : ColdPath(k)
    BY <1>6
  <2>2. /\ reader.at = "read" /\ listener = "open" /\ spawned < MaxSetups
        /\ reader' = [at |-> "miss", key |-> k]
    BY <2>1 DEF ColdPath
  <2>3. QuicTypeOK'
    BY <1>1, <1>2, <1>5, <2>2 DEF QuicInv, QuicShape, QuicTypeOK
  <2>4. LoopsOK' /\ DoneOK'
    BY <1>1, <1>2, <1>4, <2>2 DEF QuicInv, LoopsOK, DoneOK
  <2> QED BY <1>1, <2>3, <2>4, KeptInv
<1>7. CASE ~ \E k \in Keys : ColdPath(k)
  <2>1. UNCHANGED reader
    BY <1>7 DEF HotPath, Relay, Expires, loops
  <2>2. QuicTypeOK'
    BY <1>1, <1>2, <1>5, <2>1 DEF QuicInv, QuicShape, QuicTypeOK
  <2>3. LoopsOK' /\ DoneOK'
    BY <1>1, <1>2, <1>4, <2>1 DEF QuicInv, LoopsOK, DoneOK
  <2> QED BY <1>1, <2>2, <2>3, KeptInv
<1> QED BY <1>6, <1>7

LEMMA LoopInv ==
    ASSUME QuicInv,
           \/ QuicStart \/ ReserveRefused \/ ReadLoopExits \/ ReapIdle \/ GcLoopExits \/ GcPassEnds
           \/ ShutdownCloses \/ ShutdownStops \/ ShutdownSnapshot \/ ShutdownWaits \/ ShutdownDone
    PROVE  QuicInv'
<1> USE DEF tables, workers
<1>1. /\ UNCHANGED <<sessions, pending, reserved, perIP, busy>>
      /\ UNCHANGED <<spawned, key, stage, backend, drop, idle>>
  BY DEF QuicStart, ReserveRefused, ReadLoopExits, ReapIdle, GcLoopExits, GcPassEnds,
         ShutdownCloses, ShutdownStops, ShutdownSnapshot, ShutdownWaits, ShutdownDone
<1>2. UNCHANGED kept
  BY <1>1 DEF kept
<1>3. closed => closed'
  BY DEF QuicStart, ReserveRefused, ReadLoopExits, ReapIdle, GcLoopExits, GcPassEnds,
         ShutdownCloses, ShutdownStops, ShutdownSnapshot, ShutdownWaits, ShutdownDone
<1>4. /\ reader \in [at : {"off", "read", "miss", "exited"}, key : Keys \cup {NoKey}]
      /\ gc \in [at : {"off", "wait", "drop", "exited"}, left : SUBSET Setups]
      /\ halt \in [at : {"no", "closed", "stopped", "drop", "wait"}, left : SUBSET Setups]
      /\ idle \in SUBSET Setups
  BY DEF QuicInv, QuicShape, QuicTypeOK
<1>5. CASE QuicStart
  BY <1>1, <1>2, <1>3, <1>4, <1>5, KeptInv DEF QuicStart, QuicInv, QuicShape, QuicTypeOK, LoopsOK, DoneOK
<1>6. CASE ReserveRefused
  BY <1>1, <1>2, <1>3, <1>4, <1>6, KeptInv DEF ReserveRefused, QuicInv, QuicShape, QuicTypeOK, LoopsOK, DoneOK
<1>7. CASE ReadLoopExits
  BY <1>1, <1>2, <1>3, <1>4, <1>7, KeptInv DEF ReadLoopExits, QuicInv, QuicShape, QuicTypeOK, LoopsOK, DoneOK
<1>8. CASE ReapIdle
  BY <1>1, <1>2, <1>3, <1>4, <1>8, KeptInv DEF ReapIdle, QuicInv, QuicShape, QuicTypeOK, LoopsOK, DoneOK
<1>9. CASE GcLoopExits
  BY <1>1, <1>2, <1>3, <1>4, <1>9, KeptInv DEF GcLoopExits, QuicInv, QuicShape, QuicTypeOK, LoopsOK, DoneOK
<1>10. CASE GcPassEnds
  BY <1>1, <1>2, <1>3, <1>4, <1>10, KeptInv DEF GcPassEnds, QuicInv, QuicShape, QuicTypeOK, LoopsOK, DoneOK
<1>11. CASE ShutdownCloses
  BY <1>1, <1>2, <1>3, <1>4, <1>11, KeptInv DEF ShutdownCloses, QuicInv, QuicShape, QuicTypeOK, LoopsOK, DoneOK
<1>12. CASE ShutdownStops
  BY <1>1, <1>2, <1>3, <1>4, <1>12, KeptInv DEF ShutdownStops, QuicInv, QuicShape, QuicTypeOK, LoopsOK, DoneOK
<1>13. CASE ShutdownSnapshot
  <2>1. {sessions[k] : k \in Keys} \ {0} \subseteq 1..spawned
    BY SpawnedIdle
  <2>2. {sessions[k] : k \in Keys} \ {0} \in SUBSET Setups
    BY DEF QuicInv, QuicShape, QuicTypeOK
  <2>3. QuicTypeOK'
    BY <1>1, <1>4, <1>13, <2>2 DEF ShutdownSnapshot, QuicInv, QuicShape, QuicTypeOK
  <2>4. LoopsOK' /\ DoneOK'
    BY <1>1, <1>4, <1>13, <2>1 DEF ShutdownSnapshot, QuicInv, LoopsOK, DoneOK
  <2> QED BY <1>2, <1>3, <2>3, <2>4, KeptInv
<1>14. CASE ShutdownWaits
  BY <1>1, <1>2, <1>3, <1>4, <1>14, KeptInv DEF ShutdownWaits, QuicInv, QuicShape, QuicTypeOK, LoopsOK, DoneOK
<1>15. CASE ShutdownDone
  <2>1. \A w \in Setups : stage[w] \in {"new", "end"}
    <3> SUFFICES ASSUME NEW w \in Setups PROVE stage[w] \in {"new", "end"}
      OBVIOUS
    <3>1. SetupOK(w) /\ spawned \in 0..MaxSetups
      BY DEF QuicInv, QuicShape, WorkersOK, QuicTypeOK
    <3> QED BY <1>15, <3>1, QuicAssumption DEF ShutdownDone, SetupOK, Setups
  <2>2. QuicTypeOK' /\ LoopsOK'
    BY <1>1, <1>4, <1>15 DEF ShutdownDone, QuicInv, QuicShape, QuicTypeOK, LoopsOK
  <2>3. DoneOK'
    BY <1>1, <1>15, <2>1 DEF ShutdownDone, DoneOK
  <2> QED BY <1>2, <1>3, <2>2, <2>3, KeptInv
<1> QED BY <1>5, <1>6, <1>7, <1>8, <1>9, <1>10, <1>11, <1>12, <1>13, <1>14, <1>15

----------------------------------------------------------------------------
(* setupSession *)

(* A setup goes on, or fails: it keeps what it has reserved. *)
LEMMA SetupMoves ==
    ASSUME QuicInv, NEW w \in Setups, NEW s \in PendingStages, NEW b \in {"none", "open", "closed"},
           SettingUp(w), stage[w] # "fail",
           UNCHANGED <<loops, tables, spawned, key, drop, idle>>,
           stage' = [stage EXCEPT ![w] = s], backend' = [backend EXCEPT ![w] = b],
           s \in {"spawned", "resolve", "dial"} => b = "none",
           s = "fail" => b # "open",
           stage[w] = "refused" => s = "fail"
    PROVE  QuicInv'
<1>1. /\ UNCHANGED <<listener, closed, reader, gc, halt, busy, done, sessions, pending>>
      /\ UNCHANGED <<reserved, perIP, spawned, key, drop, idle>>
  BY DEF loops, tables
<1>2. /\ stage \in [Setups -> PendingStages \cup {"new", "refused", "relay", "dropping", "end"}]
      /\ backend \in [Setups -> {"none", "open", "closed"}]
      /\ WorkersOK /\ SetupOK(w) /\ DropOK(w)
  BY DEF QuicInv, QuicShape, QuicTypeOK, WorkersOK
<1>3. /\ stage'[w] = s /\ \A v \in Setups \ {w} : stage'[v] = stage[v]
      /\ backend'[w] = b /\ \A v \in Setups \ {w} : backend'[v] = backend[v]
  BY <1>2
<1>4. QuicTypeOK'
  BY <1>1, <1>2 DEF QuicInv, QuicShape, QuicTypeOK
<1>5. WorkersOK'
  <2> SUFFICES ASSUME NEW v \in Setups PROVE SetupOK(v)' /\ DropOK(v)'
    BY DEF WorkersOK
  <2>1. CASE v = w
    <3>1. SetupOK(w)'
      BY <1>1, <1>2, <1>3 DEF SetupOK, SettingUp, PendingStages
    <3>2. DropOK(w)'
      BY <1>1, <1>2, <1>3 DEF SetupOK, SettingUp, DropOK, Dropped, PendingStages
    <3> QED BY <2>1, <3>1, <3>2
  <2>2. CASE v # w
    BY <1>1, <1>2, <1>3, <2>2 DEF WorkersOK, SetupOK, SettingUp, DropOK, Dropped
  <2> QED BY <2>1, <2>2
<1>6. StoredOK'
  BY <1>1, <1>2, <1>3 DEF QuicInv, QuicShape, QuicTypeOK, StoredOK, SettingUp, PendingStages
<1>7. \A v \in Setups : SettingUp(v)' <=> SettingUp(v)
  BY <1>3 DEF SettingUp
<1>8. OneSetup'
  BY <1>1, <1>7 DEF QuicInv, QuicShape, OneSetup
<1>9. PendingHeld'
  <2> SUFFICES ASSUME NEW k \in pending
               PROVE  \E v \in Setups : stage'[v] \in PendingStages /\ key[v] = k
    BY <1>1 DEF PendingHeld
  <2>1. PICK v \in Setups : stage[v] \in PendingStages /\ key[v] = k
    BY DEF QuicInv, QuicShape, PendingHeld
  <2> QED BY <1>3, <2>1
<1>10. LoopsOK' /\ DoneOK'
  BY <1>1, <1>2, <1>3 DEF QuicInv, LoopsOK, DoneOK, SettingUp, PendingStages
<1>11. \A v \in Setups : v \in Holders' <=> v \in Holders
  <2> SUFFICES ASSUME NEW v \in Setups PROVE v \in Holders' <=> v \in Holders
    OBVIOUS
  <2>1. CASE v = w
    BY <1>1, <1>2, <1>3, <2>1 DEF Holders, SetupOK, SettingUp, PendingStages
  <2>2. CASE v # w
    BY <1>1, <1>3, <2>2 DEF Holders
  <2> QED BY <2>1, <2>2
<1>12. Holders' = Holders
  BY <1>11 DEF Holders
<1>13. Accounted'
  BY <1>1, <1>12, HoldersSame DEF QuicInv
<1>14. Sockets' \subseteq Sockets
  BY <1>3, <1>12 DEF Sockets, PendingStages
<1>15. SocketsOK'
  BY <1>1, <1>14, SocketsShrink DEF QuicInv, QuicShape
<1> QED BY <1>4, <1>5, <1>6, <1>8, <1>9, <1>10, <1>13, <1>15 DEF QuicInv, QuicShape

LEMMA SetupInv ==
    ASSUME QuicInv, NEW w \in Setups,
           SetupChecks(w) \/ Resolved(w) \/ Dial(w) \/ WriteFirst(w) \/ CloseRefused(w)
    PROVE  QuicInv'
<1>1. /\ backend \in [Setups -> {"none", "open", "closed"}] /\ SetupOK(w)
      /\ backend = [backend EXCEPT ![w] = backend[w]] /\ backend[w] \in {"none", "open", "closed"}
  BY DEF QuicInv, QuicShape, QuicTypeOK, WorkersOK
<1>2. CASE SetupChecks(w)
  <2>1. PICK d \in Datagrams, admitted \in BOOLEAN :
           stage' = [stage EXCEPT ![w] = IF closed \/ ~admitted THEN "fail"
                                         ELSE ResolveUpstream(ExtractSNI(d))]
    BY <1>2 DEF SetupChecks, Goto
  <2>2. PICK s : s = IF closed \/ ~admitted THEN "fail" ELSE ResolveUpstream(ExtractSNI(d))
    OBVIOUS
  <2>3. s \in {"dial", "resolve", "fail"} /\ s \in PendingStages
    BY <2>2 DEF ResolveUpstream, PendingStages
  <2>4. PICK b : b = backend[w]
    OBVIOUS
  <2>5. /\ SettingUp(w) /\ stage[w] = "spawned" /\ b = "none" /\ backend' = [backend EXCEPT ![w] = b]
        /\ UNCHANGED <<loops, tables, spawned, key, drop, idle>>
    BY <1>1, <1>2, <2>4 DEF SetupChecks, SettingUp, PendingStages, SetupOK
  <2> QED BY <2>1, <2>2, <2>3, <2>5, SetupMoves
<1>3. CASE Resolved(w)
  <2>1. PICK answers \in SUBSET {"v4", "v6", "private"} :
           stage' = [stage EXCEPT ![w] = DialTarget(answers)]
    BY <1>3 DEF Resolved, Goto
  <2>2. PICK s : s = DialTarget(answers)
    OBVIOUS
  <2>3. s \in {"dial", "fail"} /\ s \in PendingStages
    BY <2>2 DEF DialTarget, PendingStages
  <2>4. PICK b : b = backend[w]
    OBVIOUS
  <2>5. /\ SettingUp(w) /\ stage[w] = "resolve" /\ b = "none" /\ backend' = [backend EXCEPT ![w] = b]
        /\ UNCHANGED <<loops, tables, spawned, key, drop, idle>>
    BY <1>1, <1>3, <2>4 DEF Resolved, SettingUp, PendingStages, SetupOK
  <2> QED BY <2>1, <2>2, <2>3, <2>5, SetupMoves
<1>4. CASE Dial(w)
  <2>1. /\ SettingUp(w) /\ stage[w] = "dial" /\ backend[w] = "none"
        /\ UNCHANGED <<loops, tables, spawned, key, drop, idle>>
        /\ {"dialed", "fail"} \subseteq PendingStages
    BY <1>1, <1>4 DEF Dial, SettingUp, PendingStages, SetupOK
  <2>2. \/ stage' = [stage EXCEPT ![w] = "dialed"] /\ backend' = [backend EXCEPT ![w] = "open"]
        \/ stage' = [stage EXCEPT ![w] = "fail"] /\ backend' = [backend EXCEPT ![w] = "none"]
    BY <1>1, <1>4, <2>1 DEF Dial, Goto
  <2> QED BY <2>1, <2>2, SetupMoves
<1>5. CASE WriteFirst(w)
  <2>1. /\ SettingUp(w) /\ stage[w] = "dialed"
        /\ UNCHANGED <<loops, tables, spawned, key, drop, idle>>
        /\ {"written", "fail"} \subseteq PendingStages
    BY <1>1, <1>5 DEF WriteFirst, SettingUp, PendingStages, SetupOK
  <2>2. PICK b : b = backend[w]
    OBVIOUS
  <2>3. \/ stage' = [stage EXCEPT ![w] = "written"] /\ backend' = [backend EXCEPT ![w] = b]
        \/ stage' = [stage EXCEPT ![w] = "fail"] /\ backend' = [backend EXCEPT ![w] = "closed"]
    BY <1>1, <1>5, <2>2 DEF WriteFirst, Goto
  <2>4. b \in {"none", "open", "closed"}
    BY <1>1, <2>2
  <2> QED BY <2>1, <2>3, <2>4, SetupMoves
<1>6. CASE CloseRefused(w)
  <2>1. /\ SettingUp(w) /\ stage[w] = "refused" /\ "fail" \in PendingStages
        /\ UNCHANGED <<loops, tables, spawned, key, drop, idle>>
        /\ stage' = [stage EXCEPT ![w] = "fail"] /\ backend' = [backend EXCEPT ![w] = "closed"]
    BY <1>6 DEF CloseRefused, Goto, SettingUp, PendingStages
  <2> QED BY <2>1, SetupMoves
<1> QED BY <1>2, <1>3, <1>4, <1>5, <1>6

(* The reservation of w ends: it becomes a session, is refused because the *)
(* server closes, or is released.                                          *)
LEMMA ReservationEnds ==
    ASSUME QuicInv, NEW w \in Setups, NEW s \in {"relay", "refused", "end"},
           stage[w] \in {"written", "fail"},
           UNCHANGED <<loops, spawned, key, backend, drop, idle>>,
           pending' = pending \ {key[w]}, stage' = [stage EXCEPT ![w] = s],
           sessions' = IF s = "relay" THEN [sessions EXCEPT ![key[w]] = w] ELSE sessions,
           s = "refused" => closed,
           stage[w] = "written" <=> s # "end",
           reserved' \in Nat, perIP' \in [IPs -> Nat]
    PROVE  /\ QuicShape' /\ LoopsOK' /\ DoneOK'
           /\ Holders' = IF s = "relay" \/ key[w] \notin pending THEN Holders ELSE Holders \ {w}
           /\ key[w] \in pending => w \in Holders
           /\ Sockets' \subseteq Sockets /\ key[w] \in Keys
<1>1. /\ UNCHANGED <<listener, closed, reader, gc, halt, busy, done>>
      /\ UNCHANGED <<spawned, key, backend, drop, idle>>
  BY DEF loops
<1>2. /\ stage \in [Setups -> PendingStages \cup {"new", "refused", "relay", "dropping", "end"}]
      /\ sessions \in [Keys -> Setups \cup {0}] /\ pending \in SUBSET Keys
      /\ WorkersOK /\ SetupOK(w) /\ DropOK(w) /\ SettingUp(w) /\ StoredOK /\ OneSetup /\ PendingHeld
  BY DEF QuicInv, QuicShape, QuicTypeOK, WorkersOK, SettingUp, PendingStages
<1>3. /\ stage'[w] = s /\ \A v \in Setups \ {w} : stage'[v] = stage[v]
      /\ key[w] \in Keys /\ sessions[key[w]] = 0 /\ drop[w] = "no" /\ w # 0
      /\ stage[w] = "written" => key[w] \in pending
  BY <1>2, QuicAssumption DEF SetupOK, PendingStages, Setups
<1>4. /\ s = "relay" => sessions'[key[w]] = w
      /\ \A k \in Keys : k # key[w] \/ s # "relay" => sessions'[k] = sessions[k]
      /\ sessions' \in [Keys -> Setups \cup {0}]
  BY <1>2, <1>3
<1>5. QuicTypeOK'
  BY <1>1, <1>2, <1>4 DEF QuicInv, QuicShape, QuicTypeOK
<1>6. \A v \in Setups \ {w} : SettingUp(v) => key[v] # key[w]
  BY <1>2 DEF OneSetup
<1>7. \A v \in Setups \ {w} : stage[v] = "relay" /\ sessions[key[v]] = v => key[v] # key[w]
  BY <1>3, QuicAssumption DEF Setups
<1>8. WorkersOK'
  <2> SUFFICES ASSUME NEW v \in Setups PROVE SetupOK(v)' /\ DropOK(v)'
    BY DEF WorkersOK
  <2>1. CASE v = w
    <3>1. SetupOK(w)'
      BY <1>1, <1>2, <1>3, <1>4 DEF SetupOK, SettingUp, PendingStages
    <3>2. DropOK(w)'
      BY <1>1, <1>2, <1>3, <1>4 DEF SetupOK, DropOK, Dropped, SettingUp, PendingStages
    <3> QED BY <2>1, <3>1, <3>2
  <2>2. CASE v # w
    <3>1. SetupOK(v) /\ DropOK(v) /\ stage'[v] = stage[v]
      BY <1>2, <1>3, <2>2 DEF WorkersOK
    <3>2. SettingUp(v)' <=> SettingUp(v)
      BY <3>1 DEF SettingUp
    <3>3. SettingUp(v) => /\ sessions'[key[v]] = sessions[key[v]]
                          /\ key[v] \in pending <=> key[v] \in pending'
      BY <1>4, <1>6, <2>2, <3>1 DEF SetupOK, SettingUp, PendingStages
    <3>4. SetupOK(v)'
      <4>1. stage[v] \in PendingStages \cup {"refused"} <=> SettingUp(v)
        BY DEF SettingUp
      <4>2. "fail" \in PendingStages
        BY DEF PendingStages
      <4> QED BY <1>1, <3>1, <3>2, <3>3, <4>1, <4>2 DEF SetupOK
    <3>5. stage[v] = "relay" /\ drop[v] = "no" => sessions'[key[v]] = v
      BY <1>4, <1>7, <2>2, <3>1 DEF SetupOK, DropOK
    <3>6. DropOK(v)'
      BY <1>1, <3>1, <3>5 DEF DropOK, Dropped
    <3> QED BY <3>4, <3>6
  <2> QED BY <2>1, <2>2
<1>9. StoredOK'
  <2> SUFFICES ASSUME NEW k \in Keys, sessions'[k] # 0
               PROVE  /\ key[sessions'[k]] = k /\ stage'[sessions'[k]] = "relay"
                      /\ drop[sessions'[k]] = "no"
    BY <1>1 DEF StoredOK
  <2>1. CASE k = key[w] /\ s = "relay"
    BY <1>3, <1>4, <2>1
  <2>2. CASE ~(k = key[w] /\ s = "relay")
    <3>1. /\ sessions'[k] = sessions[k] /\ sessions[k] \in Setups
          /\ key[sessions[k]] = k /\ stage[sessions[k]] = "relay" /\ drop[sessions[k]] = "no"
      BY <1>2, <1>4, <2>2 DEF StoredOK
    <3>2. sessions[k] # w
      BY <3>1
    <3> QED BY <1>3, <3>1, <3>2
  <2> QED BY <2>1, <2>2
<1>10. OneSetup'
  <2>1. \A v \in Setups : SettingUp(v)' => SettingUp(v)
    BY <1>2, <1>3 DEF SettingUp
  <2> QED BY <1>1, <1>2, <2>1 DEF OneSetup
<1>11. PendingHeld'
  <2> SUFFICES ASSUME NEW k \in pending, k # key[w]
               PROVE  \E v \in Setups : stage'[v] \in PendingStages /\ key[v] = k
    BY <1>1 DEF PendingHeld
  <2>1. PICK v \in Setups : stage[v] \in PendingStages /\ key[v] = k
    BY <1>2 DEF PendingHeld
  <2> QED BY <1>3, <2>1
<1>12. LoopsOK' /\ DoneOK'
  BY <1>1 DEF QuicInv, LoopsOK, DoneOK
<1>13. /\ key[w] \in pending <=> w \in Holders
       /\ w \in Holders' <=> s = "relay"
  BY <1>1, <1>2, <1>3, <1>4 DEF Holders, PendingStages
<1>14. \A v \in Setups \ {w} : v \in Holders' <=> v \in Holders
  <2> SUFFICES ASSUME NEW v \in Setups, v # w PROVE v \in Holders' <=> v \in Holders
    OBVIOUS
  <2>1. stage[v] \in PendingStages => (key[v] \in pending <=> key[v] \in pending')
    BY <1>6 DEF SettingUp
  <2>2. stage[v] = "relay" => (sessions'[key[v]] = v <=> sessions[key[v]] = v)
    <3>1. SetupOK(v)
      BY <1>2 DEF WorkersOK
    <3>2. stage[v] = "relay" => key[v] \in Keys
      BY <3>1 DEF SetupOK
    <3> QED BY <1>3, <1>4, <1>7, <3>2
  <2> QED BY <1>1, <1>3, <2>1, <2>2 DEF Holders
<1>15. Holders' = IF s = "relay" \/ key[w] \notin pending THEN Holders ELSE Holders \ {w}
  <2>1. Holders \subseteq Setups /\ Holders' \subseteq Setups
    BY DEF Holders
  <2>2. s = "relay" => key[w] \in pending
    BY <1>3
  <2> QED BY <1>13, <1>14, <2>1, <2>2
<1>16. Sockets' \subseteq Sockets
  <2>1. s = "refused" => w \in Holders
    BY <1>3, <1>13
  <2>2. {v \in Setups : stage'[v] = "refused"} \subseteq Sockets
    BY <1>3, <2>1 DEF Sockets
  <2>3. Holders' \subseteq Sockets
    BY <1>15 DEF Sockets
  <2> QED BY <2>2, <2>3 DEF Sockets
<1> QED BY <1>2, <1>3, <1>5, <1>8, <1>9, <1>10, <1>11, <1>12, <1>13, <1>15, <1>16 DEF QuicShape

LEMMA ReleaseTypes ==
    ASSUME QuicTypeOK, NEW k \in Keys, ReleaseCountLocked(IpOf[k])
    PROVE  reserved' \in Nat /\ perIP' \in [IPs -> Nat]
<1>1. reserved \in Nat /\ perIP \in [IPs -> Nat] /\ IpOf[k] \in IPs /\ perIP[IpOf[k]] \in Nat
  BY QuicAssumption DEF QuicTypeOK
<1>2. (IF perIP[IpOf[k]] > 1 THEN perIP[IpOf[k]] - 1 ELSE 0) \in Nat
  BY <1>1
<1>3. perIP' = [perIP EXCEPT ![IpOf[k]] = IF perIP[IpOf[k]] > 1 THEN perIP[IpOf[k]] - 1 ELSE 0]
  BY DEF ReleaseCountLocked
<1>4. perIP' \in [IPs -> Nat]
  BY <1>1, <1>2, <1>3
<1>5. reserved' \in Nat
  BY <1>1 DEF ReleaseCountLocked
<1> QED BY <1>4, <1>5

LEMMA PromoteInv ==
    ASSUME QuicInv, NEW w \in Setups, PromoteSession(w)
    PROVE  QuicInv'
<1>1. stage[w] = "written" /\ key[w] \in pending /\ QuicTypeOK /\ key[w] \in Keys
  BY DEF PromoteSession, QuicInv, QuicShape, WorkersOK, SetupOK, PendingStages
<1>2. PICK s : s = IF closed THEN "refused" ELSE "relay"
  OBVIOUS
<1>3. /\ UNCHANGED <<loops, spawned, key, backend, drop, idle>>
      /\ pending' = pending \ {key[w]} /\ stage' = [stage EXCEPT ![w] = s]
      /\ sessions' = IF s = "relay" THEN [sessions EXCEPT ![key[w]] = w] ELSE sessions
      /\ s \in {"relay", "refused", "end"} /\ s # "end" /\ (s = "refused" => closed)
  BY <1>1, <1>2 DEF PromoteSession, Goto
<1>4. IF s = "refused" THEN ReleaseCountLocked(IpOf[key[w]]) ELSE UNCHANGED <<reserved, perIP>>
  BY <1>1, <1>2 DEF PromoteSession
<1>5. reserved' \in Nat /\ perIP' \in [IPs -> Nat]
  BY <1>1, <1>4, ReleaseTypes DEF QuicTypeOK
<1>6. /\ QuicShape' /\ LoopsOK' /\ DoneOK'
      /\ Holders' = IF s = "relay" \/ key[w] \notin pending THEN Holders ELSE Holders \ {w}
      /\ key[w] \in pending => w \in Holders
      /\ Sockets' \subseteq Sockets /\ key[w] \in Keys
  BY <1>1, <1>3, <1>5, ReservationEnds
<1>7. Accounted'
  <2>1. CASE s = "relay"
    BY <1>3, <1>4, <1>6, <2>1, HoldersSame DEF QuicInv
  <2>2. CASE s = "refused"
    BY <1>1, <1>3, <1>4, <1>6, <2>2, HolderLeaves DEF QuicInv
  <2> QED BY <1>2, <2>1, <2>2
<1>8. SocketsOK'
  BY <1>1, <1>3, <1>6, SocketsShrink DEF QuicInv
<1> QED BY <1>6, <1>7, <1>8 DEF QuicInv

LEMMA ReleasePendingInv ==
    ASSUME QuicInv, NEW w \in Setups, ReleasePending(w)
    PROVE  QuicInv'
<1>1. stage[w] = "fail" /\ QuicTypeOK /\ key[w] \in Keys
  BY DEF ReleasePending, QuicInv, QuicShape, WorkersOK, SetupOK
<1>2. /\ UNCHANGED <<loops, sessions, spawned, key, backend, drop, idle>>
      /\ pending' = pending \ {key[w]} /\ stage' = [stage EXCEPT ![w] = "end"]
      /\ IF key[w] \in pending THEN ReleaseCountLocked(IpOf[key[w]]) ELSE UNCHANGED <<reserved, perIP>>
  BY DEF ReleasePending, Goto
<1>3. reserved' \in Nat /\ perIP' \in [IPs -> Nat]
  BY <1>1, <1>2, ReleaseTypes DEF QuicTypeOK
<1>4. /\ QuicShape' /\ LoopsOK' /\ DoneOK'
      /\ Holders' = IF key[w] \notin pending THEN Holders ELSE Holders \ {w}
      /\ key[w] \in pending => w \in Holders
      /\ Sockets' \subseteq Sockets /\ key[w] \in Keys
  BY <1>1, <1>2, <1>3, ReservationEnds
<1>5. Accounted'
  <2>1. CASE key[w] \notin pending
    BY <1>2, <1>4, <2>1, HoldersSame DEF QuicInv
  <2>2. CASE key[w] \in pending
    BY <1>1, <1>2, <1>4, <2>2, HolderLeaves DEF QuicInv
  <2> QED BY <2>1, <2>2
<1>6. SocketsOK'
  BY <1>1, <1>2, <1>4, SocketsShrink DEF QuicInv
<1> QED BY <1>4, <1>5, <1>6 DEF QuicInv

(* tryReserveSession: worker number spawned + 1 begins. *)
LEMMA TryReserveInv ==
    ASSUME QuicInv, TryReserveSession
    PROVE  QuicInv'
<1>1. PICK w : w = spawned + 1
  OBVIOUS
<1>2. PICK k : k = reader.key
  OBVIOUS
<1>3. /\ reader.at = "miss" /\ MayReserve(k) /\ pending' = pending \cup {k}
      /\ reserved' = reserved + 1 /\ perIP' = [perIP EXCEPT ![IpOf[k]] = @ + 1]
      /\ spawned' = w /\ key' = [key EXCEPT ![w] = k] /\ stage' = [stage EXCEPT ![w] = "spawned"]
      /\ reader' = [at |-> "read", key |-> NoKey]
      /\ UNCHANGED <<listener, closed, gc, halt, busy, done, sessions, backend, drop, idle>>
  BY <1>1, <1>2 DEF TryReserveSession
<1>4. /\ k \in Keys /\ spawned \in 0..MaxSetups /\ spawned < MaxSetups
      /\ ~closed /\ k \notin pending /\ sessions[k] = 0 /\ ~done
  BY <1>2, <1>3 DEF QuicInv, QuicShape, QuicTypeOK, LoopsOK, DoneOK, MayReserve
<1>5. w \in Setups /\ w \in Nat /\ IpOf[k] \in IPs
  BY <1>1, <1>4, QuicAssumption DEF Setups
<1>6. /\ stage \in [Setups -> PendingStages \cup {"new", "refused", "relay", "dropping", "end"}]
      /\ key \in [Setups -> Keys \cup {NoKey}] /\ QuicTypeOK
      /\ sessions \in [Keys -> Setups \cup {0}] /\ pending \in SUBSET Keys
      /\ WorkersOK /\ SetupOK(w) /\ DropOK(w) /\ StoredOK /\ OneSetup /\ PendingHeld
  BY <1>5 DEF QuicInv, QuicShape, QuicTypeOK, WorkersOK
<1>7. /\ stage[w] = "new" /\ backend[w] = "none" /\ drop[w] = "no" 
      /\ stage'[w] = "spawned" /\ \A v \in Setups \ {w} : stage'[v] = stage[v]
      /\ key'[w] = k /\ \A v \in Setups \ {w} : key'[v] = key[v]
  BY <1>1, <1>3, <1>4, <1>5, <1>6 DEF SetupOK
<1>8. \A v \in Setups \ {w} : SettingUp(v) => key[v] \in pending /\ key[v] # k /\ stage[v] # "refused"
  <2> SUFFICES ASSUME NEW v \in Setups, v # w, SettingUp(v)
               PROVE  key[v] \in pending /\ stage[v] # "refused"
    BY <1>4
  <2>1. SetupOK(v)
    BY <1>6 DEF WorkersOK
  <2> QED BY <1>4, <2>1 DEF SetupOK, SettingUp, PendingStages
<1>9. QuicTypeOK'
  <2>1. reserved' \in Nat /\ perIP' \in [IPs -> Nat] /\ spawned' \in 0..MaxSetups
    BY <1>1, <1>3, <1>4, <1>5, <1>6, QuicAssumption DEF QuicTypeOK
  <2>2. stage' \in [Setups -> PendingStages \cup {"new", "refused", "relay", "dropping", "end"}]
    BY <1>3, <1>6 DEF PendingStages
  <2>3. key' \in [Setups -> Keys \cup {NoKey}] /\ pending' \in SUBSET Keys
    BY <1>3, <1>4, <1>6
  <2> QED BY <1>3, <1>6, <2>1, <2>2, <2>3 DEF QuicTypeOK
<1>10. WorkersOK'
  <2> SUFFICES ASSUME NEW v \in Setups PROVE SetupOK(v)' /\ DropOK(v)'
    BY DEF WorkersOK
  <2>1. CASE v = w
    <3>1. SetupOK(w)'
      BY <1>3, <1>4, <1>5, <1>7 DEF SetupOK, SettingUp, PendingStages
    <3>2. DropOK(w)'
      BY <1>3, <1>6, <1>7 DEF DropOK, Dropped
    <3> QED BY <2>1, <3>1, <3>2
  <2>2. CASE v # w
    <3>1. SetupOK(v) /\ DropOK(v) /\ stage'[v] = stage[v] /\ key'[v] = key[v]
      BY <1>6, <1>7, <2>2 DEF WorkersOK
    <3>2. v > spawned <=> v > spawned'
      BY <1>1, <1>3, <1>4, <2>2, QuicAssumption DEF Setups
    <3>3. SettingUp(v) => (key[v] \in pending /\ key[v] \in pending')
      BY <1>3, <1>8, <2>2
    <3>4. SetupOK(v)'
      BY <1>3, <1>4, <3>1, <3>2, <3>3 DEF SetupOK, SettingUp
    <3>5. DropOK(v)'
      BY <1>3, <3>1 DEF DropOK, Dropped
    <3> QED BY <3>4, <3>5
  <2> QED BY <2>1, <2>2
<1>11. StoredOK'
  <2> SUFFICES ASSUME NEW j \in Keys, sessions[j] # 0
               PROVE  /\ key'[sessions[j]] = j /\ stage'[sessions[j]] = "relay"
                      /\ drop[sessions[j]] = "no"
    BY <1>3 DEF StoredOK
  <2>1. /\ sessions[j] \in Setups
        /\ key[sessions[j]] = j /\ stage[sessions[j]] = "relay" /\ drop[sessions[j]] = "no"
    BY <1>6 DEF StoredOK
  <2>2. sessions[j] # w
    BY <1>7, <2>1
  <2> QED BY <1>7, <2>1, <2>2
<1>12. OneSetup'
  <2> SUFFICES ASSUME NEW u \in Setups, NEW v \in Setups, SettingUp(u)', SettingUp(v)', key'[u] = key'[v]
               PROVE  u = v
    BY DEF OneSetup
  <2>1. \A x \in Setups \ {w} : SettingUp(x)' => SettingUp(x) /\ key'[x] = key[x] /\ key[x] # k
    BY <1>7, <1>8 DEF SettingUp
  <2>2. CASE u # w /\ v # w
    BY <1>6, <2>1, <2>2 DEF OneSetup
  <2>3. CASE u = w \/ v = w
    BY <1>7, <2>1, <2>3
  <2> QED BY <2>2, <2>3
<1>13. PendingHeld'
  <2> SUFFICES ASSUME NEW j \in pending'
               PROVE  \E v \in Setups : stage'[v] \in PendingStages /\ key'[v] = j
    BY DEF PendingHeld
  <2>1. CASE j = k
    BY <1>5, <1>7, <2>1 DEF PendingStages
  <2>2. CASE j # k
    <3>1. PICK v \in Setups : stage[v] \in PendingStages /\ key[v] = j
      BY <1>3, <1>6, <2>2 DEF PendingHeld
    <3>2. v # w
      BY <1>7, <3>1 DEF PendingStages
    <3> QED BY <1>7, <3>1, <3>2
  <2> QED BY <2>1, <2>2
<1>14. LoopsOK' /\ DoneOK'
  <2>1. 1..spawned \subseteq 1..spawned'
    BY <1>1, <1>3, <1>4
  <2>2. listener # "none"
    BY <1>3 DEF QuicInv, LoopsOK
  <2> QED BY <1>3, <1>4, <2>1, <2>2 DEF QuicInv, LoopsOK, DoneOK
<1>15. \A v \in Setups \ {w} : v \in Holders' <=> v \in Holders
  <2> SUFFICES ASSUME NEW v \in Setups, v # w PROVE v \in Holders' <=> v \in Holders
    OBVIOUS
  <2>1. stage'[v] = stage[v] /\ key'[v] = key[v] /\ drop'[v] = drop[v] /\ sessions' = sessions
    BY <1>3, <1>7
  <2>2. stage[v] \in PendingStages => key[v] \in pending /\ key[v] \in pending'
    BY <1>3, <1>8 DEF SettingUp
  <2> QED BY <2>1, <2>2 DEF Holders
<1>16. w \notin Holders /\ w \in Holders'
  BY <1>3, <1>5, <1>7 DEF Holders, PendingStages
<1>17. Holders' = Holders \cup {w}
  <2>1. Holders \subseteq Setups /\ Holders' \subseteq Setups
    BY DEF Holders
  <2> QED BY <1>15, <1>16, <2>1
<1>18. Accounted'
  BY <1>3, <1>4, <1>5, <1>6, <1>16, <1>17, HolderComes DEF QuicInv
<1>19. Sockets' = Holders' /\ Sockets = Holders
  <2>1. \A v \in Setups : stage[v] # "refused" /\ stage'[v] # "refused"
    BY <1>7, <1>8 DEF SettingUp
  <2> QED BY <2>1 DEF Sockets
<1>20. /\ Cardinality(Sockets') <= MaxSessions
       /\ \A i \in IPs : Cardinality({v \in Sockets' : IpOf[key'[v]] = i}) <= MaxSessionsPerIP
  <2>1. /\ reserved' = Cardinality(Holders') /\ reserved' <= MaxSessions
    BY <1>3, <1>6, <1>18, QuicAssumption DEF Accounted, MayReserve, QuicTypeOK
  <2>2. \A i \in IPs : perIP[i] <= MaxSessionsPerIP
    <3>1. \A i \in IPs : perIP[i] = Cardinality({v \in Holders : IpOf[key[v]] = i})
      BY DEF QuicInv, Accounted
    <3> QED BY <1>19, <3>1 DEF QuicInv, SocketsOK
  <2>3. perIP \in [IPs -> Nat] /\ perIP[IpOf[k]] < MaxSessionsPerIP
    BY <1>3, <1>6 DEF MayReserve, QuicTypeOK
  <2>4. \A i \in IPs : perIP'[i] <= MaxSessionsPerIP
    BY <1>3, <1>5, <2>2, <2>3, QuicAssumption
  <2>5. \A i \in IPs : perIP'[i] = Cardinality({v \in Holders' : IpOf[key'[v]] = i})
    BY <1>18 DEF Accounted
  <2> QED BY <1>19, <2>1, <2>4, <2>5
<1>21. Cardinality(pending') <= MaxConcurrentSetups
  <2>1. IsFiniteSet(pending) /\ Cardinality(pending) \in Nat
    BY <1>6, PendingFinite
  <2>2. Cardinality(pending') = Cardinality(pending) + 1
    BY <1>3, <1>4, <2>1, FS_AddElement
  <2> QED BY <1>3, <2>1, <2>2, QuicAssumption DEF MayReserve
<1>22. SocketsOK'
  BY <1>20, <1>21 DEF SocketsOK
<1> QED BY <1>9, <1>10, <1>11, <1>12, <1>13, <1>14, <1>18, <1>22 DEF QuicInv, QuicShape

----------------------------------------------------------------------------
(* dropSession *)

(* Its steps leave the reservations alone. *)
LEMMA DropFrame ==
    ASSUME QuicInv, NEW w \in Setups, ~SettingUp(w),
           UNCHANGED <<closed, pending, spawned, key>>,
           \A v \in Setups \ {w} : stage'[v] = stage[v] /\ drop'[v] = drop[v] /\ backend'[v] = backend[v],
           stage'[w] \in {"relay", "dropping", "end"}, stage[w] \in {"relay", "dropping", "end"},
           \A k \in Keys : sessions'[k] = sessions[k] \/ (sessions[k] = w /\ sessions'[k] = 0),
           \A v \in Setups \ {w} : (busy["gc"] = v => busy'["gc"] = v) /\ (busy["halt"] = v => busy'["halt"] = v),
           stage'[w] # "relay" \/ drop'[w] # "no" => \A k \in Keys : sessions'[k] # w,
           backend'[w] \in {backend[w], "closed"}, DropOK(w)'
    PROVE  WorkersOK' /\ StoredOK' /\ OneSetup' /\ PendingHeld'
<1>1. /\ sessions \in [Keys -> Setups \cup {0}] /\ 0 \notin Setups
      /\ WorkersOK /\ SetupOK(w) /\ StoredOK /\ OneSetup /\ PendingHeld
  BY QuicAssumption DEF QuicInv, QuicShape, QuicTypeOK, WorkersOK, Setups
<1>2. \A v \in Setups : SettingUp(v)' <=> SettingUp(v)
  BY DEF SettingUp, PendingStages
<1>3. WorkersOK'
  <2> SUFFICES ASSUME NEW v \in Setups PROVE SetupOK(v)' /\ DropOK(v)'
    BY DEF WorkersOK
  <2>1. CASE v = w
    <3>1. SetupOK(w)'
      BY <1>1, <1>2 DEF SetupOK, PendingStages
    <3> QED BY <2>1, <3>1
  <2>2. CASE v # w
    <3>1. /\ SetupOK(v) /\ DropOK(v) /\ stage'[v] = stage[v] /\ drop'[v] = drop[v]
          /\ backend'[v] = backend[v]
      BY <1>1, <2>2 DEF WorkersOK
    <3>2. key[v] \in Keys => /\ sessions[key[v]] = v => sessions'[key[v]] = v
                             /\ sessions[key[v]] = 0 => sessions'[key[v]] = 0
      BY <1>1, <2>2
    <3>3. SetupOK(v)'
      BY <1>2, <3>1, <3>2 DEF SetupOK, SettingUp, PendingStages
    <3>4. DropOK(v)'
      BY <2>2, <3>1, <3>2 DEF SetupOK, DropOK, Dropped
    <3> QED BY <3>3, <3>4
  <2> QED BY <2>1, <2>2
<1>4. StoredOK'
  <2> SUFFICES ASSUME NEW k \in Keys, sessions'[k] # 0
               PROVE  /\ key[sessions'[k]] = k /\ stage'[sessions'[k]] = "relay"
                      /\ drop'[sessions'[k]] = "no"
    BY DEF StoredOK
  <2>1. /\ sessions'[k] = sessions[k] /\ sessions[k] \in Setups
        /\ key[sessions[k]] = k /\ stage[sessions[k]] = "relay" /\ drop[sessions[k]] = "no"
    BY <1>1 DEF StoredOK
  <2> QED BY <2>1
<1>5. OneSetup'
  BY <1>1, <1>2 DEF OneSetup
<1>6. PendingHeld'
  BY <1>1 DEF PendingHeld, PendingStages
<1> QED BY <1>3, <1>4, <1>5, <1>6

(* A stored session is taken out of the table, by whoever drops it. *)
LEMMA SessionDeleted ==
    ASSUME QuicInv, NEW w \in Setups, key[w] \in Keys, CompareAndDelete(w),
           UNCHANGED <<listener, closed, reader, done, pending, reserved, perIP, spawned, key, backend>>,
           stage'[w] \in {"relay", "dropping"}, \A v \in Setups \ {w} : stage'[v] = stage[v],
           stage' \in [Setups -> PendingStages \cup {"new", "refused", "relay", "dropping", "end"}],
           busy' \in [{"gc", "halt"} -> Setups \cup {0}],
           busy["gc"] # 0 => busy'["gc"] = busy["gc"],
           busy["halt"] # 0 => busy'["halt"] = busy["halt"],
           stage'[w] = "dropping" \/ busy'["gc"] = w \/ busy'["halt"] = w,
           gc' \in [at : {"off", "wait", "drop", "exited"}, left : SUBSET Setups],
           halt' \in [at : {"no", "closed", "stopped", "drop", "wait"}, left : SUBSET Setups],
           LoopsOK', DoneOK'
    PROVE  QuicInv'
<1>1. /\ sessions \in [Keys -> Setups \cup {0}] /\ drop \in [Setups -> {"no", "deleted", "closed", "released"}]
      /\ idle \in SUBSET Setups /\ 0 \notin Setups
      /\ WorkersOK /\ SetupOK(w) /\ DropOK(w) /\ StoredOK /\ QuicTypeOK
  BY QuicAssumption DEF QuicInv, QuicShape, QuicTypeOK, WorkersOK, Setups
<1>2. /\ sessions[key[w]] = w /\ sessions' = [sessions EXCEPT ![key[w]] = 0]
      /\ drop' = [drop EXCEPT ![w] = "deleted"] /\ idle' = idle \ {w}
  BY DEF CompareAndDelete
<1>3. stage[w] = "relay" /\ drop[w] = "no" /\ \A k \in Keys : sessions[k] = w => k = key[w]
  BY <1>1, <1>2 DEF StoredOK
<1>4. /\ drop'[w] = "deleted" /\ \A v \in Setups \ {w} : drop'[v] = drop[v]
      /\ sessions'[key[w]] = 0 /\ \A k \in Keys \ {key[w]} : sessions'[k] = sessions[k]
  BY <1>1, <1>2
<1>5. QuicTypeOK'
  <2>1. /\ sessions' \in [Keys -> Setups \cup {0}]
        /\ drop' \in [Setups -> {"no", "deleted", "closed", "released"}] /\ idle' \in SUBSET Setups
    BY <1>1, <1>2
  <2> QED BY <1>1, <2>1 DEF QuicTypeOK
<1>6. DropOK(w)' /\ ~SettingUp(w)
  BY <1>3, <1>4 DEF DropOK, Dropped, SettingUp, PendingStages
<1>7. \A k \in Keys : sessions'[k] # w
  BY <1>1, <1>3, <1>4
<1>8. \A v \in Setups : (busy["gc"] = v => busy'["gc"] = v) /\ (busy["halt"] = v => busy'["halt"] = v)
  BY <1>1
<1>9. \A k \in Keys : sessions'[k] = sessions[k] \/ (sessions[k] = w /\ sessions'[k] = 0)
  BY <1>2, <1>4
<1>10. WorkersOK' /\ StoredOK' /\ OneSetup' /\ PendingHeld'
  BY <1>3, <1>4, <1>6, <1>7, <1>8, <1>9, DropFrame
<1>11. Holders' = Holders
  <2>1. \A v \in Setups : v \in Holders' <=> v \in Holders
    <3> SUFFICES ASSUME NEW v \in Setups PROVE v \in Holders' <=> v \in Holders
      OBVIOUS
    <3>1. CASE v = w
      BY <1>2, <1>3, <1>4, <3>1 DEF Holders
    <3>2. CASE v # w
      <4>1. SetupOK(v)
        BY <1>1 DEF WorkersOK
      <4>2. stage[v] = "relay" => (sessions'[key[v]] = v <=> sessions[key[v]] = v)
        BY <1>1, <1>2, <1>4, <3>2, <4>1 DEF SetupOK
      <4> QED BY <1>4, <3>2, <4>2 DEF Holders
    <3> QED BY <3>1, <3>2
  <2> QED BY <2>1 DEF Holders
<1>12. Sockets' = Sockets
  BY <1>3, <1>11 DEF Sockets
<1>13. Accounted'
  BY <1>11, HoldersSame DEF QuicInv
<1>14. SocketsOK'
  BY <1>1, <1>12, SocketsShrink DEF QuicInv
<1> QED BY <1>5, <1>10, <1>13, <1>14 DEF QuicInv, QuicShape

LEMMA RelayEndsInv ==
    ASSUME QuicInv, NEW w \in Setups, RelayEnds(w)
    PROVE  QuicInv'
<1>1. /\ stage \in [Setups -> PendingStages \cup {"new", "refused", "relay", "dropping", "end"}]
      /\ QuicTypeOK /\ SetupOK(w) /\ DropOK(w) /\ stage[w] = "relay" /\ key[w] \in Keys
  BY DEF QuicInv, QuicShape, QuicTypeOK, WorkersOK, SetupOK, RelayEnds
<1>2. /\ UNCHANGED <<listener, closed, reader, gc, halt, busy, done>>
      /\ UNCHANGED <<pending, reserved, perIP, spawned, key, backend>>
  BY DEF RelayEnds, loops
<1>3. ~done
  BY <1>1 DEF QuicInv, DoneOK
<1>4. CASE CompareAndDelete(w) /\ Goto(w, "dropping")
  <2>1. /\ stage' = [stage EXCEPT ![w] = "dropping"] /\ idle' \subseteq idle
        /\ stage' \in [Setups -> PendingStages \cup {"new", "refused", "relay", "dropping", "end"}]
    BY <1>1, <1>4 DEF Goto, CompareAndDelete
  <2>2. LoopsOK' /\ DoneOK'
    BY <1>2, <1>3, <2>1 DEF QuicInv, LoopsOK, DoneOK
  <2>3. /\ gc' \in [at : {"off", "wait", "drop", "exited"}, left : SUBSET Setups]
        /\ halt' \in [at : {"no", "closed", "stopped", "drop", "wait"}, left : SUBSET Setups]
        /\ busy' \in [{"gc", "halt"} -> Setups \cup {0}]
    BY <1>1, <1>2 DEF QuicTypeOK
  <2>4. stage'[w] = "dropping" /\ \A v \in Setups \ {w} : stage'[v] = stage[v]
    BY <1>1, <2>1
  <2> QED BY <1>1, <1>2, <1>4, <2>1, <2>2, <2>3, <2>4, SessionDeleted
<1>5. CASE sessions[key[w]] # w /\ Goto(w, "end") /\ UNCHANGED <<sessions, drop, idle>>
  <2>1. /\ stage' = [stage EXCEPT ![w] = "end"] /\ drop[w] # "no"
        /\ stage'[w] = "end" /\ \A v \in Setups \ {w} : stage'[v] = stage[v]
    BY <1>1, <1>5 DEF Goto, DropOK
  <2>2. QuicTypeOK'
    BY <1>1, <1>2, <1>5, <2>1 DEF QuicTypeOK
  <2>3. LoopsOK' /\ DoneOK'
    BY <1>2, <1>3, <1>5 DEF QuicInv, LoopsOK, DoneOK
  <2>4. DropOK(w)' /\ ~SettingUp(w)
    BY <1>1, <1>2, <1>5, <2>1 DEF DropOK, Dropped, SettingUp, PendingStages
  <2>5. \A k \in Keys : sessions[k] # w
    BY <2>1, QuicAssumption DEF QuicInv, QuicShape, StoredOK, Setups
  <2>6. WorkersOK' /\ StoredOK' /\ OneSetup' /\ PendingHeld'
    BY <1>1, <1>2, <1>5, <2>1, <2>4, <2>5, DropFrame
  <2>7. Holders' = Holders /\ Sockets' = Sockets
    <3>1. \A v \in Setups : v \in Holders' <=> v \in Holders
      BY <1>1, <1>2, <1>5, <2>1 DEF Holders, PendingStages
    <3>2. Holders' = Holders
      BY <3>1 DEF Holders
    <3> QED BY <1>1, <2>1, <3>2 DEF Sockets
  <2>8. Accounted'
    BY <1>2, <2>7, HoldersSame DEF QuicInv
  <2>9. SocketsOK'
    BY <1>1, <1>2, <2>7, SocketsShrink DEF QuicInv
  <2> QED BY <2>2, <2>3, <2>6, <2>8, <2>9 DEF QuicInv, QuicShape
<1> QED BY <1>4, <1>5 DEF RelayEnds

LEMMA CollectedKey ==
    ASSUME QuicInv, NEW w \in 1..spawned
    PROVE  w \in Setups /\ key[w] \in Keys
<1>1. w \in Setups
  BY QuicAssumption DEF QuicInv, QuicShape, QuicTypeOK, Setups
<1>2. SetupOK(w) /\ spawned \in Nat
  BY <1>1, QuicAssumption DEF QuicInv, QuicShape, WorkersOK, QuicTypeOK
<1> QED BY <1>1, <1>2 DEF SetupOK

LEMMA GcDropsInv ==
    ASSUME QuicInv, NEW w \in Setups, GcDrops(w)
    PROVE  QuicInv'
<1>1. /\ QuicTypeOK /\ w \in gc.left /\ gc.at = "drop" /\ busy["gc"] = 0
      /\ gc \in [at : {"off", "wait", "drop", "exited"}, left : SUBSET Setups]
      /\ gc' = [gc EXCEPT !.left = @ \ {w}] /\ busy \in [{"gc", "halt"} -> Setups \cup {0}]
      /\ UNCHANGED <<listener, closed, reader, halt, done, pending, reserved, perIP>>
      /\ UNCHANGED <<spawned, key, stage, backend>>
  BY DEF GcDrops, DropCollected, QuicInv, QuicShape, QuicTypeOK
<1>2. /\ gc' \in [at : {"off", "wait", "drop", "exited"}, left : SUBSET Setups]
      /\ gc'.at = "drop" /\ gc'.left \subseteq gc.left
  BY <1>1
<1>3. key[w] \in Keys
  BY <1>1, CollectedKey DEF QuicInv, LoopsOK
<1>4. ~done
  BY <1>1 DEF QuicInv, DoneOK
<1>5. CASE CompareAndDelete(w) /\ busy' = [busy EXCEPT !["gc"] = w]
  <2>1. /\ busy' \in [{"gc", "halt"} -> Setups \cup {0}] /\ busy'["gc"] = w /\ busy'["halt"] = busy["halt"]
        /\ idle' \subseteq idle
    BY <1>1, <1>5 DEF CompareAndDelete
  <2>2. LoopsOK' /\ DoneOK'
    BY <1>1, <1>2, <1>4, <2>1 DEF QuicInv, LoopsOK, DoneOK
  <2>3. stage[w] = "relay"
    BY <1>3, <1>5, QuicAssumption DEF CompareAndDelete, QuicInv, QuicShape, StoredOK, Setups
  <2>4. stage' \in [Setups -> PendingStages \cup {"new", "refused", "relay", "dropping", "end"}]
        /\ halt' \in [at : {"no", "closed", "stopped", "drop", "wait"}, left : SUBSET Setups]
    BY <1>1 DEF QuicTypeOK
  <2> QED BY <1>1, <1>2, <1>3, <1>5, <2>1, <2>2, <2>3, <2>4, SessionDeleted
<1>6. CASE UNCHANGED <<sessions, drop, idle, busy>>
  <2>1. UNCHANGED kept
    BY <1>1, <1>6 DEF kept, tables
  <2>2. QuicTypeOK' /\ LoopsOK' /\ DoneOK'
    BY <1>1, <1>2, <1>4, <1>6 DEF QuicInv, QuicTypeOK, LoopsOK, DoneOK
  <2> QED BY <1>1, <2>1, <2>2, KeptInv
<1> QED BY <1>5, <1>6 DEF GcDrops, DropCollected

LEMMA ShutdownDropsInv ==
    ASSUME QuicInv, NEW w \in Setups, ShutdownDrops(w)
    PROVE  QuicInv'
<1>1. /\ QuicTypeOK /\ w \in halt.left /\ halt.at = "drop" /\ busy["halt"] = 0
      /\ halt \in [at : {"no", "closed", "stopped", "drop", "wait"}, left : SUBSET Setups]
      /\ halt' = [halt EXCEPT !.left = @ \ {w}] /\ busy \in [{"gc", "halt"} -> Setups \cup {0}]
      /\ UNCHANGED <<listener, closed, reader, gc, done, pending, reserved, perIP>>
      /\ UNCHANGED <<spawned, key, stage, backend>>
  BY DEF ShutdownDrops, DropCollected, QuicInv, QuicShape, QuicTypeOK
<1>2. /\ halt' \in [at : {"no", "closed", "stopped", "drop", "wait"}, left : SUBSET Setups]
      /\ halt'.at = "drop" /\ halt'.left \subseteq halt.left
  BY <1>1
<1>3. key[w] \in Keys
  BY <1>1, CollectedKey DEF QuicInv, LoopsOK
<1>4. ~done
  BY <1>1 DEF QuicInv, DoneOK
<1>5. CASE CompareAndDelete(w) /\ busy' = [busy EXCEPT !["halt"] = w]
  <2>1. /\ busy' \in [{"gc", "halt"} -> Setups \cup {0}] /\ busy'["halt"] = w /\ busy'["gc"] = busy["gc"]
        /\ idle' \subseteq idle
    BY <1>1, <1>5 DEF CompareAndDelete
  <2>2. LoopsOK' /\ DoneOK'
    BY <1>1, <1>2, <1>4, <2>1 DEF QuicInv, LoopsOK, DoneOK
  <2>3. stage[w] = "relay"
    BY <1>3, <1>5, QuicAssumption DEF CompareAndDelete, QuicInv, QuicShape, StoredOK, Setups
  <2>4. stage' \in [Setups -> PendingStages \cup {"new", "refused", "relay", "dropping", "end"}]
        /\ gc' \in [at : {"off", "wait", "drop", "exited"}, left : SUBSET Setups]
    BY <1>1 DEF QuicTypeOK
  <2> QED BY <1>1, <1>2, <1>3, <1>5, <2>1, <2>2, <2>3, <2>4, SessionDeleted
<1>6. CASE UNCHANGED <<sessions, drop, idle, busy>>
  <2>1. UNCHANGED kept
    BY <1>1, <1>6 DEF kept, tables
  <2>2. QuicTypeOK' /\ LoopsOK' /\ DoneOK'
    BY <1>1, <1>2, <1>4, <1>6 DEF QuicInv, QuicTypeOK, LoopsOK, DoneOK
  <2> QED BY <1>1, <2>1, <2>2, KeptInv
<1> QED BY <1>5, <1>6 DEF ShutdownDrops, DropCollected

(* The socket is closed, then the account released. *)
LEMMA CloseBackendInv ==
    ASSUME QuicInv, NEW w \in Setups, CloseBackend(w)
    PROVE  QuicInv'
<1>1. /\ QuicTypeOK /\ SetupOK(w) /\ DropOK(w) /\ drop[w] = "deleted"
      /\ drop \in [Setups -> {"no", "deleted", "closed", "released"}]
      /\ backend \in [Setups -> {"none", "open", "closed"}]
      /\ backend' = [backend EXCEPT ![w] = "closed"] /\ drop' = [drop EXCEPT ![w] = "closed"]
      /\ UNCHANGED <<listener, closed, reader, gc, halt, busy, done, sessions, pending, reserved, perIP>>
      /\ UNCHANGED <<spawned, key, stage, idle>>
  BY DEF QuicInv, QuicShape, QuicTypeOK, WorkersOK, CloseBackend, loops, tables
<1>2. /\ drop'[w] = "closed" /\ \A v \in Setups \ {w} : drop'[v] = drop[v]
      /\ backend'[w] = "closed" /\ \A v \in Setups \ {w} : backend'[v] = backend[v]
  BY <1>1
<1>3. stage[w] \in {"relay", "dropping", "end"} /\ ~SettingUp(w)
  <2>1. stage[w] \in PendingStages \cup {"new", "refused", "relay", "dropping", "end"}
    BY <1>1 DEF QuicTypeOK
  <2> QED BY <1>1, <2>1 DEF SetupOK, SettingUp
<1>4. QuicTypeOK'
  BY <1>1 DEF QuicTypeOK
<1>5. LoopsOK' /\ DoneOK'
  BY <1>1 DEF QuicInv, LoopsOK, DoneOK
<1>6. DropOK(w)'
  BY <1>1, <1>2 DEF DropOK, Dropped
<1>7. \A k \in Keys : sessions[k] # w
  BY <1>1, QuicAssumption DEF QuicInv, QuicShape, StoredOK, Setups
<1>8. WorkersOK' /\ StoredOK' /\ OneSetup' /\ PendingHeld'
  BY <1>1, <1>2, <1>3, <1>6, <1>7, DropFrame
<1>9. Holders' = Holders
  <2>1. \A v \in Setups : v \in Holders' <=> v \in Holders
    BY <1>1, <1>2 DEF Holders
  <2> QED BY <2>1 DEF Holders
<1>10. Sockets' = Sockets
  BY <1>1, <1>9 DEF Sockets
<1>11. Accounted'
  BY <1>1, <1>9, HoldersSame DEF QuicInv
<1>12. SocketsOK'
  BY <1>1, <1>10, SocketsShrink DEF QuicInv
<1> QED BY <1>4, <1>5, <1>8, <1>11, <1>12 DEF QuicInv, QuicShape

LEMMA ReleaseEstablishedInv ==
    ASSUME QuicInv, NEW w \in Setups, ReleaseEstablished(w)
    PROVE  QuicInv'
<1>1. /\ QuicTypeOK /\ SetupOK(w) /\ DropOK(w) /\ drop[w] = "closed" /\ 0 \notin Setups
      /\ drop \in [Setups -> {"no", "deleted", "closed", "released"}]
      /\ stage \in [Setups -> PendingStages \cup {"new", "refused", "relay", "dropping", "end"}]
      /\ busy \in [{"gc", "halt"} -> Setups \cup {0}]
      /\ drop' = [drop EXCEPT ![w] = "released"] /\ ReleaseCountLocked(IpOf[key[w]])
      /\ UNCHANGED <<listener, closed, reader, gc, halt, done, sessions, pending>>
      /\ UNCHANGED <<spawned, key, backend, idle>>
  BY QuicAssumption DEF QuicInv, QuicShape, QuicTypeOK, WorkersOK, ReleaseEstablished, Setups
<1>2. stage' = [stage EXCEPT ![w] = IF stage[w] = "dropping" THEN "end" ELSE stage[w]]
      /\ busy' = [a \in {"gc", "halt"} |-> IF busy[a] = w THEN 0 ELSE busy[a]]
  BY <1>1 DEF ReleaseEstablished
<1>3. /\ drop'[w] = "released" /\ \A v \in Setups \ {w} : drop'[v] = drop[v]
      /\ \A v \in Setups \ {w} : stage'[v] = stage[v]
      /\ stage'[w] = IF stage[w] = "dropping" THEN "end" ELSE stage[w]
      /\ busy'["gc"] = IF busy["gc"] = w THEN 0 ELSE busy["gc"]
      /\ busy'["halt"] = IF busy["halt"] = w THEN 0 ELSE busy["halt"]
  BY <1>1, <1>2
<1>4. stage[w] \in {"relay", "dropping", "end"} /\ ~SettingUp(w) /\ key[w] \in Keys
  <2>1. stage[w] \in PendingStages \cup {"new", "refused", "relay", "dropping", "end"}
    BY <1>1
  <2> QED BY <1>1, <2>1 DEF SetupOK, SettingUp
<1>5. QuicTypeOK'
  <2>1. reserved' \in Nat /\ perIP' \in [IPs -> Nat]
    BY <1>1, <1>4, ReleaseTypes
  <2>2. /\ drop' \in [Setups -> {"no", "deleted", "closed", "released"}]
        /\ busy' \in [{"gc", "halt"} -> Setups \cup {0}]
    BY <1>1, <1>2
  <2>3. stage' \in [Setups -> PendingStages \cup {"new", "refused", "relay", "dropping", "end"}]
    BY <1>1, <1>2
  <2> QED BY <1>1, <2>1, <2>2, <2>3 DEF QuicTypeOK
<1>6. LoopsOK' /\ DoneOK'
  BY <1>1, <1>3 DEF QuicInv, LoopsOK, DoneOK
<1>7. DropOK(w)'
  BY <1>1, <1>3, <1>4 DEF DropOK, Dropped
<1>8. \A k \in Keys : sessions[k] # w
  BY <1>1, QuicAssumption DEF QuicInv, QuicShape, StoredOK, Setups
<1>9. WorkersOK' /\ StoredOK' /\ OneSetup' /\ PendingHeld'
  BY <1>1, <1>3, <1>4, <1>7, <1>8, DropFrame
<1>10. w \in Holders /\ w \notin Holders'
  <2>1. sessions'[key'[w]] # w
    BY <1>1, <1>4, <1>8
  <2> QED BY <1>1, <1>3, <1>4, <2>1 DEF Holders, SettingUp, PendingStages
<1>11. Holders' = Holders \ {w}
  <2>1. \A v \in Setups \ {w} : v \in Holders' <=> v \in Holders
    BY <1>1, <1>3 DEF Holders
  <2>2. Holders \subseteq Setups /\ Holders' \subseteq Setups
    BY DEF Holders
  <2> QED BY <1>10, <2>1, <2>2
<1>12. Sockets' \subseteq Sockets
  BY <1>3, <1>4, <1>11 DEF Sockets
<1>13. Accounted'
  BY <1>1, <1>4, <1>10, <1>11, HolderLeaves DEF QuicInv
<1>14. SocketsOK'
  BY <1>1, <1>12, SocketsShrink DEF QuicInv
<1> QED BY <1>5, <1>6, <1>9, <1>13, <1>14 DEF QuicInv, QuicShape

LEMMA QuicInitInv == QuicInit => QuicInv
<1> SUFFICES ASSUME QuicInit PROVE QuicInv
  OBVIOUS
<1>1. QuicTypeOK
  <2>1. /\ reader \in [at : {"off", "read", "miss", "exited"}, key : Keys \cup {NoKey}]
        /\ gc \in [at : {"off", "wait", "drop", "exited"}, left : SUBSET Setups]
        /\ halt \in [at : {"no", "closed", "stopped", "drop", "wait"}, left : SUBSET Setups]
    BY DEF QuicInit
  <2>2. /\ busy \in [{"gc", "halt"} -> Setups \cup {0}] /\ sessions \in [Keys -> Setups \cup {0}]
        /\ perIP \in [IPs -> Nat] /\ key \in [Setups -> Keys \cup {NoKey}]
        /\ backend \in [Setups -> {"none", "open", "closed"}]
        /\ drop \in [Setups -> {"no", "deleted", "closed", "released"}]
    BY DEF QuicInit
  <2>3. stage \in [Setups -> PendingStages \cup {"new", "refused", "relay", "dropping", "end"}]
    BY DEF QuicInit
  <2>4. spawned \in 0..MaxSetups
    BY QuicAssumption DEF QuicInit
  <2> QED BY <2>1, <2>2, <2>3, <2>4 DEF QuicInit, QuicTypeOK
<1>2. WorkersOK
  BY QuicAssumption DEF QuicInit, WorkersOK, SetupOK, DropOK, SettingUp, Dropped, PendingStages, Setups
<1>3. StoredOK /\ OneSetup /\ PendingHeld
  BY DEF QuicInit, StoredOK, OneSetup, PendingHeld, SettingUp, PendingStages
<1>4. LoopsOK /\ DoneOK
  BY DEF QuicInit, LoopsOK, DoneOK
<1>5. Holders = {} /\ Sockets = {} /\ pending = {}
  BY DEF QuicInit, Holders, Sockets, PendingStages
<1>6. Accounted /\ SocketsOK
  <2>1. \A i : {w \in Holders : IpOf[key[w]] = i} = {} /\ {w \in Sockets : IpOf[key[w]] = i} = {}
    BY <1>5
  <2> QED BY <1>5, <2>1, FS_EmptySet, QuicAssumption DEF Accounted, SocketsOK, QuicInit
<1> QED BY <1>1, <1>2, <1>3, <1>4, <1>6 DEF QuicInv, QuicShape

LEMMA QuicNextInv ==
    ASSUME QuicInv, QuicNext
    PROVE  QuicInv'
<1>1. CASE QuicTraffic
  BY <1>1, TrafficInv DEF QuicTraffic
<1>2. CASE QuicStart \/ ShutdownCloses
  BY <1>2, LoopInv
<1>3. CASE ReadLoop
  BY <1>3, LoopInv, TryReserveInv DEF ReadLoop
<1>4. CASE GcLoop
  BY <1>4, LoopInv, GcDropsInv DEF GcLoop
<1>5. CASE ShutdownSteps
  BY <1>5, LoopInv, ShutdownDropsInv DEF ShutdownSteps
<1>6. ASSUME NEW w \in Setups, Setup(w) PROVE QuicInv'
  BY <1>6, SetupInv, PromoteInv, ReleasePendingInv DEF Setup
<1>7. ASSUME NEW w \in Setups, RelayEnds(w) PROVE QuicInv'
  BY <1>7, RelayEndsInv
<1>8. ASSUME NEW w \in Setups, DropStep(w) PROVE QuicInv'
  BY <1>8, CloseBackendInv, ReleaseEstablishedInv DEF DropStep
<1> QED BY <1>1, <1>2, <1>3, <1>4, <1>5, <1>6, <1>7, <1>8 DEF QuicNext, QuicWork

(* What QuicInv says of the sockets and of the end. *)
LEMMA OpenSockets ==
    ASSUME QuicInv
    PROVE  SocketsBounded
<1> DEFINE Open == {w \in Setups : backend[w] = "open"}
<1>1. Open \in SUBSET Sockets
  <2> SUFFICES ASSUME NEW w \in Setups, backend[w] = "open" PROVE w \in Sockets
    OBVIOUS
  <2>1. /\ SetupOK(w) /\ DropOK(w)
        /\ stage[w] \in PendingStages \cup {"new", "refused", "relay", "dropping", "end"}
        /\ drop[w] \in {"no", "deleted", "closed", "released"}
    BY DEF QuicInv, QuicShape, QuicTypeOK, WorkersOK
  <2>2. CASE stage[w] \in PendingStages
    BY <2>1, <2>2 DEF SetupOK, PendingStages, Sockets, Holders
  <2>3. CASE stage[w] \in {"new", "refused"}
    BY <2>1, <2>3 DEF SetupOK, Sockets
  <2>4. CASE stage[w] \in {"relay", "dropping", "end"}
    BY <2>1, <2>4 DEF DropOK, Dropped, Sockets, Holders
  <2> QED BY <2>1, <2>2, <2>3, <2>4
<1>2. Sockets \in SUBSET Setups
  BY HolderSets
<1>3. \A A \in SUBSET Setups : \A B \in SUBSET A : Cardinality(B) <= Cardinality(A) /\ Cardinality(B) \in Nat
                                            /\ Cardinality(A) \in Nat
  BY SetupsFinite, FS_Subset
<1>4. Cardinality(Open) <= MaxSessions
  BY <1>1, <1>2, <1>3, QuicAssumption DEF QuicInv, SocketsOK
<1>5. \A i \in IPs : Cardinality({w \in Open : IpOf[key[w]] = i}) <= MaxSessionsPerIP
  <2> SUFFICES ASSUME NEW i \in IPs
               PROVE  Cardinality({w \in Open : IpOf[key[w]] = i}) <= MaxSessionsPerIP
    OBVIOUS
  <2>1. {w \in Open : IpOf[key[w]] = i} \in SUBSET {w \in Sockets : IpOf[key[w]] = i}
    BY <1>1
  <2>2. {w \in Sockets : IpOf[key[w]] = i} \in SUBSET Setups
    BY <1>2
  <2>3. Cardinality({w \in Sockets : IpOf[key[w]] = i}) <= MaxSessionsPerIP
    BY DEF QuicInv, SocketsOK
  <2> QED BY <1>3, <2>1, <2>2, <2>3, QuicAssumption
<1> QED BY <1>4, <1>5 DEF SocketsBounded, QuicInv, SocketsOK

LEMMA DoneReleased ==
    ASSUME QuicInv
    PROVE  AllReleased
<1> SUFFICES ASSUME done
             PROVE  /\ pending = {} /\ reserved = 0
                    /\ \A k \in Keys : sessions[k] = 0
                    /\ \A i \in IPs : perIP[i] = 0
                    /\ \A w \in Setups : backend[w] # "open"
  BY DEF AllReleased
<1>1. /\ halt.at = "wait" /\ gc.at \in {"off", "exited"}
      /\ \A w \in Setups : stage[w] \in {"new", "end"}
  BY DEF QuicInv, DoneOK
<1>2. busy["gc"] = 0 /\ busy["halt"] = 0 /\ 0 \notin Setups
  BY <1>1, QuicAssumption DEF QuicInv, LoopsOK, Setups
<1>3. \A w \in Setups : ~Dropped(w) /\ backend[w] # "open"
  <2> SUFFICES ASSUME NEW w \in Setups PROVE ~Dropped(w) /\ backend[w] # "open"
    OBVIOUS
  <2>1. SetupOK(w) /\ DropOK(w) /\ drop[w] \in {"no", "deleted", "closed", "released"}
    BY DEF QuicInv, QuicShape, WorkersOK, QuicTypeOK
  <2>2. stage[w] \in {"new", "end"} /\ busy["gc"] # w /\ busy["halt"] # w
    BY <1>1, <1>2
  <2>3. ~Dropped(w)
    BY <2>1, <2>2 DEF DropOK
  <2> QED BY <2>1, <2>2, <2>3 DEF DropOK, Dropped, SetupOK
<1>4. pending = {}
  BY <1>1 DEF QuicInv, QuicShape, PendingHeld, PendingStages
<1>5. \A k \in Keys : sessions[k] = 0
  BY <1>1 DEF QuicInv, QuicShape, QuicTypeOK, StoredOK
<1>6. Holders = {}
  BY <1>1, <1>3 DEF Holders, Dropped, PendingStages
<1>7. \A i \in IPs : {w \in Holders : IpOf[key[w]] = i} = {}
  BY <1>6
<1>8. reserved = 0 /\ \A i \in IPs : perIP[i] = 0
  BY <1>6, <1>7, FS_EmptySet DEF QuicInv, Accounted
<1> QED BY <1>3, <1>4, <1>5, <1>8

LEMMA RelaysStored ==
    ASSUME QuicInv
    PROVE  RelayIsStored
<1> SUFFICES ASSUME NEW w \in Setups, stage[w] = "relay", backend[w] = "open"
             PROVE  sessions[key[w]] = w \/ drop[w] = "deleted"
  BY DEF RelayIsStored
<1>1. DropOK(w) /\ drop[w] \in {"no", "deleted", "closed", "released"}
  BY DEF QuicInv, QuicShape, WorkersOK, QuicTypeOK
<1> QED BY <1>1 DEF DropOK

(* Only promoteSession adds to the table, and only before Shutdown has      *)
(* closed the server.                                                       *)
LEMMA SnapshotKept ==
    ASSUME QuicInv, SnapshotComplete, QuicNext
    PROVE  SnapshotComplete'
<1> USE DEF tables, workers, loops
<1>1. /\ closed <=> halt.at # "no"
      /\ \A k \in Keys : sessions[k] # 0 => key[sessions[k]] = k
      /\ sessions \in [Keys -> Setups \cup {0}]
  BY DEF QuicInv, LoopsOK, QuicShape, StoredOK, QuicTypeOK
<1>2. ASSUME UNCHANGED <<halt, sessions>> PROVE SnapshotComplete'
  BY <1>2 DEF SnapshotComplete
<1>3. CASE QuicStart \/ QuicTraffic \/ ReadLoop
  BY <1>2, <1>3 DEF QuicStart, QuicTraffic, HotPath, ColdPath, Relay, Expires, ReadLoop,
                    TryReserveSession, ReserveRefused, ReadLoopExits
<1>4. CASE ShutdownCloses \/ ShutdownStops
  <2>1. halt'.at \notin {"drop", "wait"}
    BY <1>4 DEF ShutdownCloses, ShutdownStops, QuicInv, QuicShape, QuicTypeOK
  <2> QED BY <2>1 DEF SnapshotComplete
<1>5. CASE ReapIdle \/ GcLoopExits \/ GcPassEnds \/ ShutdownDone
  BY <1>2, <1>5 DEF ReapIdle, GcLoopExits, GcPassEnds, ShutdownDone
<1>6. CASE ShutdownSnapshot
  BY <1>1, <1>6 DEF ShutdownSnapshot, SnapshotComplete
<1>7. CASE ShutdownWaits
  <2>1. halt.at = "drop" /\ halt'.left = halt.left /\ sessions' = sessions
    BY <1>7 DEF ShutdownWaits, QuicInv, QuicShape, QuicTypeOK
  <2> QED BY <2>1 DEF SnapshotComplete
<1>8. ASSUME NEW w \in Setups, sessions' = [sessions EXCEPT ![key[w]] = 0] \/ sessions' = sessions,
             halt' = halt
      PROVE  SnapshotComplete'
  BY <1>1, <1>8 DEF SnapshotComplete
<1>9. ASSUME NEW w \in Setups, RelayEnds(w) \/ GcDrops(w) PROVE SnapshotComplete'
  BY <1>8, <1>9 DEF RelayEnds, GcDrops, DropCollected, CompareAndDelete
<1>10. ASSUME NEW w \in Setups, ShutdownDrops(w) PROVE SnapshotComplete'
  <2>1. /\ halt.at = "drop" /\ halt'.left = halt.left \ {w}
        /\ \/ sessions' = [sessions EXCEPT ![key[w]] = 0]
           \/ sessions' = sessions /\ sessions[key[w]] # w
    BY <1>10 DEF ShutdownDrops, DropCollected, CompareAndDelete, QuicInv, QuicShape, QuicTypeOK
  <2>2. \A k \in Keys : sessions'[k] # 0 => sessions'[k] = sessions[k] /\ sessions[k] # w
    BY <1>1, <2>1
  <2> QED BY <2>1, <2>2 DEF SnapshotComplete
<1>11. ASSUME NEW w \in Setups, Setup(w) \/ DropStep(w) PROVE SnapshotComplete'
  <2>1. CASE PromoteSession(w)
    <3>1. CASE closed
      BY <1>2, <2>1, <3>1 DEF PromoteSession
    <3>2. CASE ~closed
      BY <1>1, <2>1, <3>2 DEF PromoteSession, SnapshotComplete
    <3> QED BY <3>1, <3>2
  <2>2. CASE ~PromoteSession(w)
    BY <1>2, <1>11, <2>2 DEF Setup, SetupChecks, Resolved, Dial, WriteFirst, CloseRefused,
         ReleasePending, DropStep, CloseBackend, ReleaseEstablished
  <2> QED BY <2>1, <2>2
<1> QED BY <1>3, <1>4, <1>5, <1>6, <1>7, <1>9, <1>10, <1>11
        DEF QuicNext, QuicWork, GcLoop, ShutdownSteps

----------------------------------------------------------------------------
(* The TCP forwarder *)

LEMMA ConnsFinite ==
    \A S \in SUBSET Conns : IsFiniteSet(S) /\ Cardinality(S) \in Nat
<1>1. IsFiniteSet(Conns)
  BY SniAssumption, FS_Interval DEF Conns
<1> QED BY <1>1, FS_Subset, FS_CardinalityType

HandlerOK(c) ==
    /\ upstream[c] = "open" => conn[c] \in {"replay", "pipe", "unwind"}
    /\ client[c] = "open" => conn[c] \notin {"new", "release", "end"}

LEMMA SniHandlers == SniInv => \A c \in Conns : HandlerOK(c)
  BY DEF SniInv, HandlerOK

(* A handler goes on: it keeps its slot. *)
LEMMA HandlerGoesOn ==
    ASSUME SniInv, NEW c \in Conns, c \in Handling, c \in Handling',
           conn' \in [Conns -> {"accepted", "dial", "replay", "pipe", "unwind", "release", "new", "end"}],
           copied' \in [Conns -> SUBSET Halves],
           client' \in [Conns -> {"none", "open", "closed"}],
           upstream' \in [Conns -> {"none", "open", "closed"}],
           \A d \in Conns \ {c} : /\ conn'[d] = conn[d] /\ client'[d] = client[d]
                                  /\ upstream'[d] = upstream[d],
           HandlerOK(c)', UNCHANGED <<sniListener, sniClosed, acceptLoop, slots, sniDone>>
    PROVE  SniInv'
<1>1. Handling' = Handling
  BY DEF Handling
<1>2. ~sniDone
  BY DEF Handling, SniInv
<1>3. SniTypeOK'
  BY DEF SniInv, SniTypeOK
<1>4. \A d \in Conns : HandlerOK(d)'
  BY SniHandlers DEF HandlerOK
<1> QED BY <1>1, <1>2, <1>3, <1>4 DEF SniInv, HandlerOK

LEMMA HandlerInv ==
    ASSUME SniInv, NEW c \in Conns,
           Peek(c) \/ DialUpstream(c) \/ Replay(c) \/ PipeReturns(c) \/ HandlerReturns(c)
             \/ \E h \in Halves : CopyEnds(c, h)
    PROVE  SniInv'
<1>1. /\ conn \in [Conns -> {"new", "accepted", "dial", "replay", "pipe", "unwind", "release", "end"}]
      /\ copied \in [Conns -> SUBSET Halves]
      /\ client \in [Conns -> {"none", "open", "closed"}]
      /\ upstream \in [Conns -> {"none", "open", "closed"}] /\ HandlerOK(c)
  BY SniHandlers DEF SniInv, SniTypeOK
<1>2. CASE Peek(c)
  <2>1. PICK s \in {"dial", "unwind"} : conn' = [conn EXCEPT ![c] = s]
    BY <1>2 DEF Peek, HandlerGoto
  <2>2. /\ UNCHANGED <<sniListener, sniClosed, acceptLoop, slots, copied, client, upstream, sniDone>>
        /\ conn[c] = "accepted"
    BY <1>2 DEF Peek
  <2> QED BY <1>1, <2>1, <2>2, HandlerGoesOn DEF Handling, HandlerOK
<1>3. CASE DialUpstream(c)
  BY <1>1, <1>3, HandlerGoesOn DEF DialUpstream, HandlerGoto, Handling, HandlerOK
<1>4. CASE Replay(c)
  BY <1>1, <1>4, HandlerGoesOn DEF Replay, HandlerGoto, Handling, HandlerOK
<1>5. CASE PipeReturns(c)
  BY <1>1, <1>5, HandlerGoesOn DEF PipeReturns, HandlerGoto, Handling, HandlerOK
<1>6. CASE HandlerReturns(c)
  BY <1>1, <1>6, HandlerGoesOn DEF HandlerReturns, HandlerGoto, Handling, HandlerOK
<1>7. ASSUME NEW h \in Halves, CopyEnds(c, h) PROVE SniInv'
  BY <1>1, <1>7, HandlerGoesOn DEF CopyEnds, Handling, HandlerOK
<1> QED BY <1>2, <1>3, <1>4, <1>5, <1>6, <1>7

LEMMA AcceptInv ==
    ASSUME SniInv, NEW c \in Conns, Accept(c)
    PROVE  SniInv'
<1>1. SniTypeOK' /\ ~sniDone
  BY SniAssumption DEF SniInv, SniTypeOK, Accept, Accepted
<1>2. c \notin Handling /\ Handling' = Handling \cup {c} /\ Handling \in SUBSET Conns
  BY DEF SniInv, SniTypeOK, Accept, Accepted, Handling
<1>3. Cardinality(Handling \cup {c}) = Cardinality(Handling) + 1
  BY <1>2, ConnsFinite, FS_AddElement
<1>4. slots' = Cardinality(Handling')
  BY <1>2, <1>3 DEF SniInv, Accept
<1>5. \A d \in Conns : HandlerOK(d)'
  BY SniHandlers DEF SniInv, SniTypeOK, Accept, Accepted, HandlerOK
<1> QED BY <1>1, <1>4, <1>5 DEF SniInv, Accept, HandlerOK

LEMMA RefuseInv ==
    ASSUME SniInv, NEW c \in Conns, Refuse(c)
    PROVE  SniInv'
<1>1. SniTypeOK' /\ ~sniDone
  BY DEF SniInv, SniTypeOK, Refuse, Accepted
<1>2. Handling' = Handling
  BY DEF SniInv, SniTypeOK, Refuse, Accepted, Handling
<1>3. \A d \in Conns : HandlerOK(d)'
  BY SniHandlers DEF SniInv, SniTypeOK, Refuse, Accepted, HandlerOK
<1> QED BY <1>1, <1>2, <1>3 DEF SniInv, Refuse, HandlerOK

LEMMA ReleaseSlotInv ==
    ASSUME SniInv, NEW c \in Conns, ReleaseSlot(c)
    PROVE  SniInv'
<1>1. c \in Handling /\ Handling' = Handling \ {c} /\ Handling \in SUBSET Conns
  BY DEF SniInv, SniTypeOK, ReleaseSlot, HandlerGoto, Handling
<1>2. Cardinality(Handling \ {c}) = Cardinality(Handling) - 1 /\ Cardinality(Handling) > 0
  BY <1>1, ConnsFinite, FS_RemoveElement, FS_EmptySet
<1>3. slots' = Cardinality(Handling') /\ slots > 0
  BY <1>1, <1>2 DEF SniInv, ReleaseSlot
<1>4. SniTypeOK' /\ ~sniDone
  BY <1>3, SniAssumption DEF SniInv, SniTypeOK, ReleaseSlot, HandlerGoto
<1>5. \A d \in Conns : HandlerOK(d)'
  BY SniHandlers DEF SniInv, SniTypeOK, ReleaseSlot, HandlerGoto, HandlerOK
<1> QED BY <1>3, <1>4, <1>5 DEF SniInv, ReleaseSlot, HandlerOK

LEMMA ListenerInv ==
    ASSUME SniInv,
           (SniStart /\ ~sniClosed) \/ AcceptLoopExits \/ SniShutdown \/ SniDrained \/ UNCHANGED sniVars
    PROVE  SniInv'
<1>1. UNCHANGED <<slots, conn, copied, client, upstream>>
  BY DEF SniStart, AcceptLoopExits, SniShutdown, SniDrained, sniVars
<1>2. Handling' = Handling /\ \A d \in Conns : HandlerOK(d)'
  BY <1>1, SniHandlers DEF Handling, HandlerOK
<1>3. SniTypeOK'
  BY <1>1 DEF SniStart, AcceptLoopExits, SniShutdown, SniDrained, sniVars, SniInv, SniTypeOK
<1>4. (sniClosed => sniListener # "open")'
  BY DEF SniStart, AcceptLoopExits, SniShutdown, SniDrained, sniVars, SniInv, SniTypeOK
<1>5. (sniDone => /\ sniClosed /\ acceptLoop # "accept"
                  /\ \A c \in Conns : conn[c] \in {"new", "end"})'
  BY <1>1 DEF SniStart, AcceptLoopExits, SniShutdown, SniDrained, sniVars, SniInv, SniTypeOK
<1> QED BY <1>1, <1>2, <1>3, <1>4, <1>5 DEF SniInv, HandlerOK

(* What SniInv says of the sockets. *)
LEMMA SniSockets ==
    ASSUME SniInv
    PROVE  SlotsAccounted /\ SniAllClosed
<1>1. /\ {c \in Conns : upstream[c] = "open"} \in SUBSET Handling
      /\ {c \in Conns : client[c] = "open"} \in SUBSET Handling
      /\ Handling \in SUBSET Conns
  BY DEF SniInv, Handling
<1>2. \A S \in SUBSET Handling : Cardinality(S) <= Cardinality(Handling)
  BY <1>1, ConnsFinite, FS_Subset
<1>3. SlotsAccounted
  BY <1>1, <1>2 DEF SlotsAccounted, SniInv, Handling
<1>4. SniAllClosed
  BY DEF SniAllClosed, SniInv
<1> QED BY <1>3, <1>4

----------------------------------------------------------------------------
(* The composition *)

LEMMA InitIInv == Init => IInv
<1> SUFFICES ASSUME Init PROVE IInv
  OBVIOUS
<1>1. QuicInv
  BY QuicInitInv DEF Init
<1>2. SniInv
  <2>1. SniTypeOK
    <3>1. slots \in 0..MaxConcurrent
      BY SniAssumption DEF Init, SniInit
    <3> QED BY <3>1 DEF Init, SniInit, SniTypeOK
  <2>2. Handling = {}
    BY DEF Init, SniInit, Handling
  <2> QED BY <2>1, <2>2, FS_EmptySet DEF Init, SniInit, SniInv
<1>3. BootInv
  BY DEF Init, QuicInit, SniInit, BootInv
<1> QED BY <1>1, <1>2, <1>3 DEF IInv

LEMMA BootStepInv ==
    ASSUME IInv, Boot \/ Stop \/ Timeout
    PROVE  IInv'
<1>1. QuicInv /\ SniInv /\ BootInv
  BY DEF IInv
<1>2. QuicInv'
  BY <1>1, QuicStutters, LoopInv
     DEF Boot, StartSni, StartQuic, UndoReturns, StopSni, Stopped, Stop, Timeout
<1>3. SniInv'
  BY <1>1, ListenerInv
     DEF Boot, StartSni, StartQuic, UndoReturns, StopSni, Stopped, Stop, Timeout, BootInv
<1>4. BootInv'
  <2>1. CASE StartSni
    BY <1>1, <2>1 DEF StartSni, SniStart, BootInv, quicVars, sniVars
  <2>2. CASE StartQuic
    BY <1>1, <2>2 DEF StartQuic, QuicStart, SniShutdown, BootInv, quicVars, sniVars, SniInv, SniTypeOK
  <2>3. CASE UndoReturns
    BY <1>1, <2>3 DEF UndoReturns, BootInv, quicVars, sniVars, SniInv, SniTypeOK
  <2>4. CASE StopSni
    BY <1>1, <2>4 DEF StopSni, SniShutdown, BootInv, quicVars, sniVars
  <2>5. CASE Stopped
    BY <1>1, <2>5 DEF Stopped, BootInv, quicVars, sniVars
  <2>6. CASE Stop
    BY <1>1, <2>6 DEF Stop, ShutdownCloses, BootInv, quicVars, sniVars
  <2>7. CASE Timeout
    BY <1>1, <2>7 DEF Timeout, BootInv, quicVars, sniVars
  <2> QED BY <2>1, <2>2, <2>3, <2>4, <2>5, <2>6, <2>7 DEF Boot
<1> QED BY <1>2, <1>3, <1>4 DEF IInv

(* Neither forwarder opens a listener or closes itself: only the boot does. *)
LEMMA QuicStepsInv ==
    ASSUME IInv, QuicSteps
    PROVE  IInv'
<1>1. QuicInv /\ SniInv /\ BootInv /\ UNCHANGED bootVars /\ UNCHANGED sniVars
  BY DEF IInv, QuicSteps
<1>2. QuicInv'
  BY <1>1, QuicNextInv DEF QuicSteps, QuicNext
<1>3. SniInv'
  BY <1>1, ListenerInv
<1>4. closed' = closed /\ (done => done') /\ (listener = "none" => listener' = "none")
  <2> USE DEF tables, workers, loops
  <2>1. CASE QuicTraffic
    BY <2>1 DEF QuicTraffic, HotPath, ColdPath, Relay, Expires
  <2>2. CASE ReadLoop
    BY <2>2 DEF ReadLoop, TryReserveSession, ReserveRefused, ReadLoopExits
  <2>3. CASE GcLoop
    BY <2>3 DEF GcLoop, ReapIdle, GcLoopExits, GcDrops, GcPassEnds
  <2>4. CASE ShutdownSteps
    BY <2>4 DEF ShutdownSteps, ShutdownStops, ShutdownSnapshot, ShutdownDrops, ShutdownWaits, ShutdownDone
  <2>5. ASSUME NEW w \in Setups, Setup(w) \/ RelayEnds(w) \/ DropStep(w)
        PROVE  UNCHANGED <<closed, done, listener>>
    BY <2>5 DEF Setup, SetupChecks, Resolved, Dial, WriteFirst, PromoteSession, CloseRefused,
                ReleasePending, RelayEnds, DropStep, CloseBackend, ReleaseEstablished
  <2> QED BY <2>1, <2>2, <2>3, <2>4, <2>5 DEF QuicSteps, QuicWork
<1>5. BootInv'
  BY <1>1, <1>4 DEF BootInv, bootVars, sniVars
<1> QED BY <1>2, <1>3, <1>5 DEF IInv

LEMMA SniStepsInv ==
    ASSUME IInv, SniSteps
    PROVE  IInv'
<1>1. QuicInv /\ SniInv /\ BootInv /\ UNCHANGED bootVars /\ UNCHANGED quicVars
  BY DEF IInv, SniSteps
<1>2. QuicInv'
  BY <1>1, QuicStutters
<1>3. SniInv'
  <2>1. ASSUME NEW c \in Conns, Accept(c) \/ Refuse(c) \/ Handler(c) \/ \E h \in Halves : CopyEnds(c, h)
        PROVE  SniInv'
    BY <1>1, <2>1, AcceptInv, RefuseInv, HandlerInv, ReleaseSlotInv DEF Handler
  <2>2. ASSUME AcceptLoopExits \/ SniDrained PROVE SniInv'
    BY <1>1, <2>2, ListenerInv
  <2> QED BY <2>1, <2>2 DEF SniSteps, SniTraffic, SniWork
<1>4. /\ UNCHANGED <<sniListener, sniClosed>> /\ (sniDone => sniDone')
      /\ acceptLoop = "off" => acceptLoop' = "off"
  <2>1. ASSUME NEW c \in Conns, Accept(c) \/ Refuse(c) \/ \E h \in Halves : CopyEnds(c, h)
        PROVE  UNCHANGED <<sniListener, sniClosed, sniDone, acceptLoop>>
    BY <2>1 DEF Accept, Refuse, CopyEnds
  <2>2. ASSUME NEW c \in Conns, Handler(c)
        PROVE  UNCHANGED <<sniListener, sniClosed, sniDone, acceptLoop>>
    BY <2>2 DEF Handler, Peek, DialUpstream, Replay, PipeReturns, HandlerReturns, ReleaseSlot
  <2>3. CASE AcceptLoopExits \/ SniDrained
    BY <2>3 DEF AcceptLoopExits, SniDrained
  <2> QED BY <2>1, <2>2, <2>3 DEF SniSteps, SniTraffic, SniWork
<1>5. BootInv'
  BY <1>1, <1>4 DEF BootInv, bootVars, quicVars
<1> QED BY <1>2, <1>3, <1>5 DEF IInv

(* The inductive invariant of the composition: every step of the start, the *)
(* stop and both forwarders keeps it.                                       *)
THEOREM Invariance == Spec => []IInv
<1>1. IInv /\ [Next]_vars => IInv'
  <2> SUFFICES ASSUME IInv, [Next]_vars PROVE IInv'
    OBVIOUS
  <2>1. CASE Next
    BY <2>1, BootStepInv, QuicStepsInv, SniStepsInv DEF Next
  <2>2. CASE UNCHANGED vars
    <3>1. UNCHANGED bootVars /\ UNCHANGED quicVars /\ UNCHANGED sniVars
      BY <2>2 DEF vars
    <3>2. QuicInv' /\ SniInv'
      BY <3>1, QuicStutters, ListenerInv DEF IInv
    <3>3. BootInv'
      BY <3>1 DEF IInv, BootInv, bootVars, quicVars, sniVars
    <3> QED BY <3>2, <3>3 DEF IInv
  <2> QED BY <2>1, <2>2
<1> QED BY <1>1, InitIInv, PTL DEF Spec

(* Whatever drops a session, and however often drops, failing setups and    *)
(* Shutdown race, the accounts count exactly the setups that hold a         *)
(* reservation (releaseCountLocked never clamps), the sockets that are open *)
(* stay within the caps, and the semaphore of the TCP forwarder counts the  *)
(* handlers that run.                                                       *)
THEOREM AccountsAreExact == Spec => []ForwardersAccounted
<1>1. IInv => ForwardersAccounted
  BY OpenSockets, SniSockets
     DEF IInv, ForwardersAccounted, TypeOK, QuicInv, QuicShape, SniInv, BootInv
<1> QED BY <1>1, Invariance, PTL

(* No cleanup of an older generation of a session takes its successor out   *)
(* of the table: a relay with an open socket is stored or being dropped.    *)
(* And a setup that Shutdown overtakes stores nothing after the snapshot.   *)
THEOREM NoRelayIsOrphaned == Spec => []NoOrphanRelay
<1>1. IInv => RelayIsStored
  BY RelaysStored DEF IInv
<1>2. Init => SnapshotComplete
  BY DEF Init, QuicInit, SnapshotComplete
<1>3. IInv /\ SnapshotComplete /\ [Next]_vars => SnapshotComplete'
  <2> SUFFICES ASSUME IInv, SnapshotComplete, [Next]_vars PROVE SnapshotComplete'
    OBVIOUS
  <2> USE DEF tables, workers, loops
  <2>1. CASE QuicSteps
    <3>1. QuicInv /\ QuicNext
      BY <2>1 DEF IInv, QuicSteps, QuicNext
    <3> QED BY <3>1, SnapshotKept
  <2>2. CASE UNCHANGED quicVars
    BY <2>2 DEF quicVars, SnapshotComplete
  <2>3. CASE (QuicStart \/ ShutdownCloses)
    <3>1. QuicInv /\ QuicNext
      BY <2>3 DEF IInv, QuicNext
    <3> QED BY <3>1, SnapshotKept
  <2> QED BY <2>1, <2>2, <2>3
      DEF Next, Boot, StartSni, StartQuic, UndoReturns, StopSni, Stopped, Stop, Timeout, SniSteps, vars
<1>4. Spec => []SnapshotComplete
  BY <1>2, <1>3, Invariance, PTL DEF Spec
<1> QED BY <1>1, <1>4, Invariance, PTL DEF NoOrphanRelay

(* A forwarder that has drained has no session, socket or account left; a   *)
(* stop that was not cut short has drained both; a failed start leaves      *)
(* neither port bound.                                                      *)
THEOREM StopsAreClean == Spec => []StopLeavesNothing
<1>1. IInv => StopLeavesNothing
  BY DoneReleased, SniSockets DEF IInv, StopLeavesNothing, BootInv
<1> QED BY <1>1, Invariance, PTL

----------------------------------------------------------------------------
(* Who listens where *)

(* The serve goroutines that serveAll waits for. *)
WaitInv ==
    /\ OnlyOrphansKeep
    /\ task = "serve" => \A p \in Plain : p \in waiting <=> srv[p] # "failed"
    /\ task \notin {"serve", "drain"} => waiting = {}

(* What the front door has at each point of the supervisor. *)
FdInv ==
    /\ WaitInv
    /\ task = "off" => ~cancelled /\ recent = 0
    /\ task \in {"off", "drain", "backoff", "ended"} => \A p \in Plain : srv[p] = "none"
    /\ task = "call" => \A p \in Plain : srv[p] \in {"none", "bound"}
    /\ task = "serve" => \A p \in Plain : srv[p] \in {"ready", "serving", "failed"}
    /\ recent <= MaxRestartsPerWindow \/ task = "ended"
    /\ degraded => task = "ended"
    /\ task = "ended" => degraded \/ cancelled

(* A listener has its socket only if the settings ask for it, and only      *)
(* after the step of run that binds it.                                     *)
BoundInv ==
    /\ bound \cap Encrypted \subseteq EncConfigured
    /\ bound \cap Encrypted # {} => task # "off"
    /\ "sni" \in bound => conf.sni /\ Secure
    /\ "quic" \in bound => conf.quic /\ Secure
    /\ "primary" \in bound => run \in {"secondary", "up", "stopping"}
    /\ "secondary" \in bound => run \in {"up", "stopping"}
    /\ run \in {"secondary", "up"} => "primary" \in bound
    /\ run = "up" /\ HasSecondary => "secondary" \in bound
    /\ run \in {"ports", "frontdoor"} => bound = {}
    /\ run \in {"sni", "quic"} => "quic" \notin bound

(* How far run has got. *)
RunInv ==
    /\ run \in {"frontdoor", "sni", "quic"} => Secure
    /\ run \in {"ports", "frontdoor"} => task = "off"
    /\ cancelled => run \in {"stopping", "exited"}
    /\ task # "off" => Secure
    /\ ~Secure => \A p \in Plain : stray[p] = "none"

(* A listener that is missing was refused by the system, or the settings do *)
(* not fit.                                                                 *)
NothingMissing ==
    /\ run = "failed" => refused \/ ~PanelFits
    /\ ~refused /\ SettingsFit /\ Secure =>
          /\ run \in {"sni", "quic", "primary", "secondary", "up"} => task # "off"
          /\ run \in {"quic", "primary", "secondary", "up"} /\ conf.sni => "sni" \in bound
          /\ run \in {"primary", "secondary", "up"} /\ conf.quic => "quic" \in bound

ListenersIInv ==
    ListenersTypeOK /\ EncryptedSurvive /\ FdInv /\ BoundInv /\ RunInv /\ NothingMissing

----------------------------------------------------------------------------
(* The supervisor and the servers *)

LEMMA TaskReturnedInv ==
    ASSUME FdTypeOK, FdInv, task \in {"call", "drain"}, TaskReturned, cancelled' = cancelled
    PROVE  /\ task' \in {"backoff", "ended"} /\ recent' \in 0..(MaxRestartsPerWindow + 1)
           /\ degraded' \in BOOLEAN
           /\ recent' <= MaxRestartsPerWindow \/ task' = "ended"
           /\ degraded' => task' = "ended"
           /\ task' = "ended" => degraded' \/ cancelled'
<1>1. recent \in 0..MaxRestartsPerWindow /\ MaxRestartsPerWindow \in Nat
  BY FrontdoorAssumption DEF FdTypeOK, FdInv
<1>2. ~degraded /\ degraded \in BOOLEAN
  BY DEF FdTypeOK, FdInv
<1>3. CASE cancelled
  <2>1. task' = "ended" /\ recent' = recent /\ degraded' = degraded
    BY <1>3 DEF TaskReturned
  <2>2. recent' \in 0..(MaxRestartsPerWindow + 1)
    BY <1>1, <2>1
  <2>3. cancelled'
    BY <1>3
  <2> QED BY <1>2, <2>1, <2>2, <2>3, Zenon
<1>4. CASE ~cancelled
  <2>1. recent' = recent + 1 /\ recent' \in 0..(MaxRestartsPerWindow + 1)
    BY <1>1, <1>4 DEF TaskReturned, RecordRestart
  <2>2. CASE recent' <= MaxRestartsPerWindow
    <3>1. task' = "backoff" /\ degraded' = degraded
      BY <1>4, <2>2 DEF TaskReturned, RecordRestart
    <3>2. task' # "ended"
      BY <3>1
    <3> QED BY <1>2, <2>1, <2>2, <3>1, <3>2, Zenon
  <2>3. CASE ~(recent' <= MaxRestartsPerWindow)
    <3>1. task' = "ended" /\ degraded' = TRUE
      BY <1>4, <2>3 DEF TaskReturned, RecordRestart
    <3> QED BY <2>1, <3>1, Zenon
  <2> QED BY <2>2, <2>3
<1> QED BY <1>3, <1>4

LEMMA RollbackType ==
    ASSUME FdTypeOK, NEW b
    PROVE  BindRollback(b) \in [Plain -> {"none", "leak", "orphan"}]
  BY DEF FdTypeOK, BindRollback, Plain

(* The rollback of a bind leaves no orphan. *)
LEMMA RollbackLeaks ==
    ASSUME FdTypeOK, NEW b, NEW p \in Plain, BindRollback(b)[p] = "orphan"
    PROVE  stray[p] = "orphan"
  BY DEF FdTypeOK, BindRollback, Plain

LEMMA WaitKept ==
    ASSUME WaitInv, UNCHANGED <<srv, stray, task, waiting>>
    PROVE  WaitInv'
  BY DEF WaitInv, OnlyOrphansKeep

(* Nothing is waited for, before and after. *)
LEMMA NobodyWaitedFor ==
    ASSUME WaitInv, waiting = {}, waiting' = waiting, task' \notin {"serve", "drain"},
           \A p \in Plain : stray'[p] = "orphan" => stray[p] = "orphan"
    PROVE  WaitInv'
  BY DEF WaitInv, OnlyOrphansKeep

(* What a step of the front door leaves to the daemon. *)
FdKept ==
    /\ FdTypeOK' /\ FdInv' /\ UNCHANGED <<enc, cancelled>>
    /\ (task' = "off" <=> task = "off")

LEMMA ServeAllInv ==
    ASSUME FdTypeOK, FdInv, ServeAll
    PROVE  FdKept
<1>1. FdTypeOK'
  BY DEF FdTypeOK, ServeAll
<1>2. WaitInv'
  <2>1. task = "call" /\ task' = "serve" /\ waiting' = Plain /\ stray' = stray
        /\ \A p \in Plain : srv'[p] = "ready"
    BY DEF ServeAll
  <2>2. \A p \in Plain : stray[p] # "orphan"
    BY <2>1 DEF FdInv, WaitInv, OnlyOrphansKeep
  <2> QED BY <2>1, <2>2 DEF WaitInv, OnlyOrphansKeep
<1>3. FdInv'
  BY <1>2 DEF FdInv, ServeAll
<1> QED BY <1>1, <1>3 DEF ServeAll, FdKept

LEMMA ServeAllFailsInv ==
    ASSUME FdTypeOK, FdInv, ServeAllFails
    PROVE  FdKept
<1>1. task = "call" /\ UNCHANGED <<srv, enc, waiting, cancelled>> /\ TaskReturned
      /\ \A p \in Plain : srv[p] = "none"
  BY DEF ServeAllFails
<1>2. stray' \in [Plain -> {"none", "leak", "orphan"}]
  BY RollbackType DEF ServeAllFails
<1>3. /\ task' \in {"backoff", "ended"} /\ recent' \in 0..(MaxRestartsPerWindow + 1)
      /\ degraded' \in BOOLEAN
      /\ recent' <= MaxRestartsPerWindow \/ task' = "ended"
      /\ degraded' => task' = "ended"
      /\ task' = "ended" => degraded' \/ cancelled'
  BY <1>1, TaskReturnedInv
<1>4. FdTypeOK'
  BY <1>1, <1>2, <1>3 DEF FdTypeOK
<1>5. WaitInv'
  <2>1. waiting = {} /\ WaitInv
    BY <1>1 DEF FdInv, WaitInv
  <2>2. \A p \in Plain : stray'[p] = "orphan" => stray[p] = "orphan"
    BY RollbackLeaks DEF ServeAllFails
  <2>3. task' \notin {"serve", "drain"}
    BY <1>3
  <2> QED BY <1>1, <2>1, <2>2, <2>3, NobodyWaitedFor
<1>6. FdInv'
  BY <1>1, <1>3, <1>5 DEF FdInv
<1> QED BY <1>1, <1>3, <1>4, <1>6 DEF FdKept

LEMMA DrainedInv ==
    ASSUME FdTypeOK, FdInv, Drained
    PROVE  FdKept
<1>1. task = "drain" /\ UNCHANGED <<srv, stray, enc, waiting, cancelled>> /\ TaskReturned
  BY DEF Drained
<1>2. /\ task' \in {"backoff", "ended"} /\ recent' \in 0..(MaxRestartsPerWindow + 1)
      /\ degraded' \in BOOLEAN
      /\ recent' <= MaxRestartsPerWindow \/ task' = "ended"
      /\ degraded' => task' = "ended"
      /\ task' = "ended" => degraded' \/ cancelled'
  BY <1>1, TaskReturnedInv
<1>3. FdTypeOK'
  BY <1>1, <1>2 DEF FdTypeOK
<1>4. WaitInv'
  <2>1. waiting = {} /\ WaitInv /\ task' \notin {"serve", "drain"}
    BY <1>2 DEF FdInv, Drained
  <2> QED BY <1>1, <2>1, NobodyWaitedFor
<1>5. FdInv'
  BY <1>1, <1>2, <1>4 DEF FdInv
<1> QED BY <1>1, <1>2, <1>3, <1>5 DEF FdKept

LEMMA CloseOnEventInv ==
    ASSUME FdTypeOK, FdInv, CloseOnEvent
    PROVE  FdKept
<1>1. stray' \in [Plain -> {"none", "leak", "orphan"}]
  BY DEF FdTypeOK, CloseOnEvent, ClosePlain
<1>2. srv' = [p \in Plain |-> "none"] /\ waiting' \in SUBSET Plain
  BY DEF FdTypeOK, CloseOnEvent, ClosePlain
<1>3. task = "serve" /\ task' = "drain" /\ UNCHANGED <<enc, recent, degraded, cancelled>>
  BY DEF CloseOnEvent
<1>4. FdTypeOK'
  BY <1>1, <1>2, <1>3 DEF FdTypeOK
<1>5. WaitInv'
  <2>1. \A p \in Plain : /\ p \in waiting' <=> p \in waiting /\ srv[p] = "ready"
                         /\ stray'[p] = "orphan" <=> srv[p] = "ready" \/ (srv[p] # "bound" /\ stray[p] = "orphan")
    BY DEF CloseOnEvent, ClosePlain
  <2>2. \A p \in Plain : stray[p] # "orphan" /\ (srv[p] = "ready" => p \in waiting)
    BY <1>3 DEF FdInv, WaitInv, OnlyOrphansKeep
  <2> QED BY <1>3, <2>1, <2>2 DEF WaitInv, OnlyOrphansKeep
<1>6. FdInv'
  BY <1>2, <1>3, <1>5 DEF FdInv
<1> QED BY <1>3, <1>4, <1>6 DEF FdKept

LEMMA BackoffInv ==
    ASSUME FdTypeOK, FdInv, Backoff
    PROVE  FdKept
<1>1. FdTypeOK'
  BY DEF FdTypeOK, Backoff
<1>2. WaitInv'
  <2>1. waiting = {} /\ WaitInv /\ waiting' = waiting /\ stray' = stray
        /\ task' \notin {"serve", "drain"}
    BY DEF FdInv, WaitInv, Backoff
  <2> QED BY <2>1, NobodyWaitedFor
<1>3. FdInv'
  BY <1>2 DEF FdInv, Backoff
<1> QED BY <1>1, <1>3 DEF Backoff, FdKept

LEMMA WindowSlidesInv ==
    ASSUME FdTypeOK, FdInv, WindowSlides
    PROVE  FdKept
<1>1. recent' \in 0..MaxRestartsPerWindow /\ UNCHANGED <<srv, stray, enc, task, waiting, degraded, cancelled>>
      /\ task = "serve" /\ MaxRestartsPerWindow \in Nat
  BY FrontdoorAssumption DEF FdTypeOK, FdInv, WindowSlides
<1>2. FdTypeOK'
  BY <1>1 DEF FdTypeOK
<1>3. WaitInv'
  BY <1>1, WaitKept DEF FdInv
<1>4. FdInv'
  BY <1>1, <1>3 DEF FdInv
<1> QED BY <1>1, <1>2, <1>4 DEF FdKept

(* A server is activated, fails, or its lost socket is collected. *)
LEMMA ServerInv ==
    ASSUME FdTypeOK, FdInv, NEW p \in Plain, Activate(p) \/ ServeFails(p) \/ Finalized(p)
    PROVE  FdKept
<1>1. CASE Activate(p)
  <2>1. task = "serve" /\ UNCHANGED <<stray, enc, task, waiting, recent, degraded, cancelled>>
    BY <1>1 DEF Activate, FdInv, FdTypeOK
  <2>2. srv' \in [Plain -> {"none", "bound", "ready", "serving", "failed"}]
    BY <1>1 DEF Activate, FdTypeOK
  <2>3. \A q \in Plain : srv'[q] \in {"ready", "serving", "failed"}
    BY <1>1, <2>1 DEF Activate, FdInv, FdTypeOK
  <2>4. FdTypeOK'
    BY <2>1, <2>2 DEF FdTypeOK
  <2>5. WaitInv'
    <3>1. \A q \in Plain : srv'[q] # "failed" <=> srv[q] # "failed"
      BY <1>1 DEF Activate, FdTypeOK
    <3> QED BY <2>1, <3>1 DEF FdInv, WaitInv, OnlyOrphansKeep
  <2>6. FdInv'
    BY <2>1, <2>3, <2>5 DEF FdInv
  <2> QED BY <2>1, <2>4, <2>6 DEF FdKept
<1>2. CASE ServeFails(p)
  <2>1. task = "serve" /\ UNCHANGED <<stray, enc, task, recent, degraded, cancelled>>
    BY <1>2 DEF ServeFails, FdInv, FdTypeOK
  <2>2. srv' \in [Plain -> {"none", "bound", "ready", "serving", "failed"}] /\ waiting' \in SUBSET Plain
    BY <1>2 DEF ServeFails, FdTypeOK
  <2>3. \A q \in Plain : srv'[q] \in {"ready", "serving", "failed"}
    BY <1>2, <2>1 DEF ServeFails, FdInv, FdTypeOK
  <2>4. FdTypeOK'
    BY <2>1, <2>2 DEF FdTypeOK
  <2>5. WaitInv'
    <3>1. \A q \in Plain : /\ srv'[q] # "failed" <=> srv[q] # "failed" /\ q # p
                           /\ q \in waiting' <=> q \in waiting /\ q # p
      BY <1>2 DEF ServeFails, FdTypeOK
    <3> QED BY <2>1, <3>1 DEF FdInv, WaitInv, OnlyOrphansKeep
  <2>6. FdInv'
    BY <2>1, <2>3, <2>5 DEF FdInv
  <2> QED BY <2>1, <2>4, <2>6 DEF FdKept
<1>3. CASE Finalized(p)
  <2>1. stray' \in [Plain -> {"none", "leak", "orphan"}]
        /\ UNCHANGED <<srv, enc, task, waiting, recent, degraded, cancelled>>
    BY <1>3 DEF Finalized, FdTypeOK
  <2>2. FdTypeOK'
    BY <2>1 DEF FdTypeOK
  <2>3. WaitInv'
    <3>1. \A q \in Plain : stray'[q] = "orphan" <=> stray[q] = "orphan"
      BY <1>3 DEF Finalized, FdTypeOK
    <3> QED BY <2>1, <3>1 DEF FdInv, WaitInv, OnlyOrphansKeep
  <2>4. FdInv'
    BY <2>1, <2>3 DEF FdInv
  <2> QED BY <2>1, <2>2, <2>4 DEF FdKept
<1> QED BY <1>1, <1>2, <1>3

(* What the settings decide does not change. *)
SettingsSame ==
    /\ UNCHANGED <<Secure, EncConfigured, PrimaryAddr, SecondaryAddr, HasSecondary, PanelFits,
                   SettingsFit>>
    /\ \A l : AddrOf(l)' = AddrOf(l)

LEMMA SettingsKept ==
    ASSUME conf' = conf
    PROVE  SettingsSame
<1>1. UNCHANGED <<Secure, EncConfigured, PrimaryAddr, SecondaryAddr, DoH3Addr>>
  BY DEF Secure, EncConfigured, PrimaryAddr, SecondaryAddr, DoH3Addr, HasSuffix, Everywhere
<1>2. UNCHANGED HasSecondary /\ \A l : AddrOf(l)' = AddrOf(l)
  BY <1>1 DEF HasSecondary, AddrOf, HasSuffix, Everywhere
<1>3. UNCHANGED PanelFits
  BY <1>1 DEF PanelFits, CertLoads, Bindable, Overlap, HasSuffix, Wild
<1>4. UNCHANGED SettingsFit
  BY <1>1, <1>3 DEF SettingsFit, Bindable
<1> QED BY <1>1, <1>2, <1>3, <1>4 DEF SettingsSame

LEMMA FdStepsInv ==
    ASSUME ListenersIInv, FdSteps
    PROVE  ListenersIInv'
<1>1. FdTypeOK /\ FdInv
  BY DEF ListenersIInv, ListenersTypeOK
<1>2. FdKept
  <2>1. CASE Supervise
    BY <1>1, <2>1, ServeAllInv, ServeAllFailsInv, CloseOnEventInv, DrainedInv, BackoffInv DEF Supervise
  <2>2. CASE WindowSlides
    BY <1>1, <2>2, WindowSlidesInv
  <2>3. CASE \E p \in Plain : Activate(p) \/ ServeFails(p) \/ Finalized(p)
    BY <1>1, <2>3, ServerInv
  <2> QED BY <2>1, <2>2, <2>3 DEF FdSteps, Supervised
<1>3. UNCHANGED <<conf, run, bound, refused>>
  BY DEF FdSteps
<1>4. SettingsSame
  BY <1>3, SettingsKept
<1>5. ListenersTypeOK'
  BY <1>2, <1>3 DEF ListenersIInv, ListenersTypeOK, FdKept
<1>6. EncryptedSurvive'
  BY <1>2, <1>3, <1>4 DEF ListenersIInv, EncryptedSurvive, FdKept, Alive, SettingsSame
<1>7. BoundInv'
  BY <1>2, <1>3, <1>4 DEF ListenersIInv, BoundInv, FdKept, SettingsSame
<1>8. Secure
  <2>1. SUFFICES ASSUME task = "off", \A p \in Plain : stray[p] = "none"
                 PROVE  FALSE
    BY DEF ListenersIInv, RunInv
  <2>2. \A p \in Plain : srv[p] = "none"
    BY <1>1, <2>1 DEF FdInv
  <2>3. ~Supervise /\ ~WindowSlides
    BY <2>1 DEF Supervise, ServeAll, ServeAllFails, CloseOnEvent, Drained, Backoff, WindowSlides
  <2>4. \A p \in Plain : ~Activate(p) /\ ~ServeFails(p) /\ ~Finalized(p)
    BY <2>1, <2>2 DEF Activate, ServeFails, Finalized
  <2> QED BY <2>3, <2>4 DEF FdSteps, Supervised
<1>9. RunInv' /\ NothingMissing'
  BY <1>2, <1>3, <1>4, <1>8 DEF ListenersIInv, RunInv, NothingMissing, FdKept, SettingsSame
<1> QED BY <1>2, <1>5, <1>6, <1>7, <1>9 DEF ListenersIInv, FdKept

----------------------------------------------------------------------------
(* Addresses *)

(* The settings are what their types say. *)
LEMMA Conf ==
    ASSUME ListenersTypeOK
    PROVE  /\ conf.tls \in {"acme", "static", "none", "insecure"}
           /\ conf.panel \in Addrs /\ conf.panel.host # "" /\ conf.panel.num \notin {"0", "invalid"}
           /\ conf.backTCP \in Addrs /\ conf.backUDP \in Addrs /\ conf.dns \in {"own", "all"}
           /\ EncConfigured \in SUBSET Encrypted
           /\ "doq" \in EncConfigured <=> conf.doq
           /\ "doh3" \in EncConfigured <=> conf.doh3
<1>1. conf \in Configurations
  BY ListenersAssumption DEF ListenersTypeOK
<1>2. EncConfigured \in SUBSET Encrypted
  BY DEF EncConfigured, Encrypted
<1>3. ("doq" \in EncConfigured <=> conf.doq) /\ ("doh3" \in EncConfigured <=> conf.doh3)
  BY DEF EncConfigured
<1> QED BY <1>1, <1>2, <1>3 DEF Configurations

LEMMA AddressOf ==
    /\ AddrOf("dot") = Everywhere("853") /\ AddrOf("doq") = Everywhere("853")
    /\ AddrOf("doh3") = DoH3Addr
    /\ AddrOf("sni") = Everywhere("443") /\ AddrOf("quic") = Everywhere("443")
    /\ AddrOf("primary") = PrimaryAddr /\ AddrOf("secondary") = SecondaryAddr
  BY DEF AddrOf

LEMMA NumberOf ==
    /\ AddrOf("dot").num = "853" /\ AddrOf("doq").num = "853"
    /\ AddrOf("doh3").num = DoH3Addr.num
    /\ AddrOf("sni").num = "443" /\ AddrOf("quic").num = "443"
    /\ Bindable(AddrOf("dot")) /\ Bindable(AddrOf("doq")) /\ Bindable(AddrOf("quic"))
<1>1. \A n : Everywhere(n).num = n /\ Everywhere(n).host = ""
  BY DEF Everywhere
<1> QED BY <1>1, AddressOf DEF Bindable

(* Addresses with different numbers do not meet. *)
LEMMA Apart ==
    ASSUME NEW l, NEW m, AddrOf(l).num # AddrOf(m).num
    PROVE  ~Collide(l, m)
  BY DEF Collide, Overlap

LEMMA OffPlain ==
    ASSUME NEW l, AddrOf(l).num # "53"
    PROVE  \A p \in Plain : ~OnPlain(l, p)
  BY DEF OnPlain, Overlap

(* Settings that fit give every encrypted listener an address of its own.   *)
LEMMA FitEncrypted ==
    ASSUME ListenersTypeOK, SettingsFit, Secure
    PROVE  EncryptedFit
<1>1. DoH3Addr.num \notin {"53", "invalid"} /\ DoH3Addr.host # "bad"
  <2>1. CASE conf.quic /\ conf.doh3
    BY <2>1, Conf DEF DoH3Addr, SettingsFit, Bindable
  <2>2. CASE ~(conf.quic /\ conf.doh3)
    BY <2>2 DEF DoH3Addr, Everywhere
  <2> QED BY <2>1, <2>2
<1>2. "doq" \in EncConfigured /\ "doh3" \in EncConfigured => DoH3Addr.num # "853"
  <2>1. SUFFICES ASSUME conf.doq, conf.doh3 PROVE DoH3Addr.num # "853"
    BY Conf
  <2>2. CASE conf.quic
    BY <2>1, <2>2 DEF DoH3Addr, SettingsFit
  <2>3. CASE ~conf.quic
    BY <2>3 DEF DoH3Addr, Everywhere
  <2> QED BY <2>2, <2>3
<1>3. SUFFICES ASSUME NEW l \in EncConfigured
               PROVE  /\ Bindable(AddrOf(l))
                      /\ \A m \in EncConfigured \ {l} : ~Collide(l, m)
                      /\ \A p \in Plain : ~OnPlain(l, p)
  BY DEF EncryptedFit
<1>4. l \in {"dot", "doq", "doh3"}
  BY Conf DEF Encrypted
<1>5. Bindable(AddrOf(l)) /\ AddrOf(l).num # "53"
  BY <1>1, <1>4, AddressOf, NumberOf DEF Bindable
<1>6. ASSUME NEW m \in EncConfigured, m # l
      PROVE  ~Collide(l, m)
  <2>1. m \in {"dot", "doq", "doh3"}
    BY Conf DEF Encrypted
  <2>2. CASE l = "dot" \/ m = "dot"
    BY <1>4, <1>6, <2>1, <2>2 DEF Collide, Datagram
  <2>3. CASE l # "dot" /\ m # "dot"
    <3>1. {l, m} = {"doq", "doh3"}
      BY <1>4, <1>6, <2>1, <2>3
    <3>2. DoH3Addr.num # "853"
      BY <1>2, <3>1
    <3>3. AddrOf(l).num # AddrOf(m).num
      BY <1>4, <1>6, <2>1, <2>3, <3>2, NumberOf
    <3> QED BY <3>3, Apart
  <2> QED BY <2>2, <2>3
<1> QED BY <1>5, <1>6, OffPlain

(* Then the QUIC forwarder finds its port free as well. *)
LEMMA FitQuic ==
    ASSUME ListenersIInv, SettingsFit, run = "quic", conf.quic
    PROVE  CanBind("quic")
<1>1. ListenersTypeOK /\ BoundInv /\ Secure
  BY DEF ListenersIInv, RunInv
<1>3. ASSUME NEW m \in bound
      PROVE  ~Collide("quic", m)
  <2>1. m \in AllListeners /\ m # "quic"
    BY <1>1 DEF ListenersTypeOK, BoundInv
  <2>2. CASE m \notin Datagram
    BY <2>2 DEF Collide, Datagram
  <2>3. CASE m \in Datagram
    <3>1. m \in {"doq", "doh3"}
      BY <2>1, <2>3 DEF Datagram
    <3>2. CASE m = "doq"
      BY <3>2, NumberOf, Apart
    <3>3. CASE m = "doh3"
      <4>1. conf.doh3
        BY <1>1, <3>3, Conf DEF BoundInv, Encrypted
      <4>2. DoH3Addr.num # "443"
        BY <1>1, <4>1 DEF DoH3Addr, SettingsFit
      <4> QED BY <3>3, <4>2, NumberOf, Apart
    <3> QED BY <3>1, <3>2, <3>3
  <2> QED BY <2>2, <2>3
<1>4. Bindable(AddrOf("quic")) /\ AddrOf("quic").num # "53"
  BY NumberOf
<1> QED BY <1>3, <1>4, OffPlain DEF CanBind

(* What the panel asks for, when it fits. *)
LEMMA PanelAddrs ==
    ASSUME ListenersTypeOK, PanelFits
    PROVE  /\ Bindable(PrimaryAddr)
           /\ Secure => PrimaryAddr.num \notin {"53", "853"}
           /\ Secure /\ conf.sni => PrimaryAddr.num # "443"
           /\ conf.tls = "acme" => Bindable(SecondaryAddr) /\ SecondaryAddr.num \notin {"53", "853"}
           /\ conf.tls = "acme" /\ conf.sni => SecondaryAddr.num # "443"
<1>1. PrimaryAddr = conf.panel \/ (conf.sni /\ Secure /\ PrimaryAddr = conf.backTCP)
  BY DEF PrimaryAddr
<1>2. Bindable(PrimaryAddr) /\ (Secure => PrimaryAddr.num \notin {"53", "853"})
  BY <1>1 DEF PanelFits
<1>3. Secure /\ conf.sni => PrimaryAddr.num # "443"
  BY DEF PrimaryAddr, HasSuffix, Everywhere, PanelFits
<1>4. conf.tls = "acme" =>
        /\ Bindable(SecondaryAddr) /\ SecondaryAddr.num \notin {"53", "853"}
        /\ conf.sni => SecondaryAddr.num # "443"
  BY DEF SecondaryAddr, Everywhere, PanelFits, Bindable, Secure
<1> QED BY <1>2, <1>3, <1>4

(* A listener of the panel whose address fits meets no DNS listener and no  *)
(* forwarder.                                                               *)
LEMMA PanelApart ==
    ASSUME ListenersIInv, NEW l \in PanelListeners,
           Secure => AddrOf(l).num \notin {"53", "853"},
           Secure /\ conf.sni => AddrOf(l).num # "443",
           ~Secure => task = "off"
    PROVE  \A m \in bound \ PanelListeners : ~Collide(l, m)
<1>1. SUFFICES ASSUME NEW m \in bound, m \notin PanelListeners PROVE ~Collide(l, m)
  OBVIOUS
<1>2. m \in {"dot", "doq", "doh3", "sni", "quic"} /\ BoundInv
  BY <1>1 DEF ListenersIInv, ListenersTypeOK, AllListeners, Encrypted
<1>3. CASE m \in {"doq", "doh3", "quic"}
  BY <1>3 DEF Collide, Datagram, PanelListeners
<1>4. CASE m = "dot"
  <2>1. Secure
    BY <1>1, <1>2, <1>4 DEF BoundInv, Encrypted
  <2> QED BY <1>4, <2>1, NumberOf, Apart
<1>5. CASE m = "sni"
  <2>1. Secure /\ conf.sni
    BY <1>1, <1>2, <1>5 DEF BoundInv
  <2> QED BY <1>5, <2>1, NumberOf, Apart
<1> QED BY <1>2, <1>3, <1>4, <1>5

(* Without panel TLS no front door is started, so port 53 is free too. *)
LEMMA PanelOffPlain ==
    ASSUME ListenersIInv, NEW l, Secure => AddrOf(l).num # "53"
    PROVE  \A p \in Plain : OnPlain(l, p) => PortFree(p)
<1>1. CASE Secure
  BY <1>1, OffPlain
<1>2. CASE ~Secure
  BY <1>2 DEF ListenersIInv, RunInv, FdInv, PortFree
<1> QED BY <1>1, <1>2

(* Settings that fit let the panel bind both its listeners. *)
LEMMA FitPrimary ==
    ASSUME ListenersIInv, PanelFits, run = "primary"
    PROVE  CertLoads /\ CanBind("primary")
<1>1. ListenersTypeOK /\ BoundInv /\ RunInv /\ FdInv
  BY DEF ListenersIInv
<1>2. AddrOf("primary") = PrimaryAddr
  BY AddressOf
<1>3. bound \cap PanelListeners = {}
  BY <1>1 DEF BoundInv, PanelListeners
<1>4. \A m \in bound : ~Collide("primary", m)
  <2>1. \A m \in bound \ PanelListeners : ~Collide("primary", m)
    BY <1>1, <1>2, PanelAddrs, PanelApart DEF PanelListeners, RunInv
  <2> QED BY <1>3, <2>1
<1>5. \A p \in Plain : OnPlain("primary", p) => PortFree(p)
  BY <1>1, <1>2, PanelAddrs, PanelOffPlain DEF RunInv
<1> QED BY <1>1, <1>2, <1>4, <1>5, PanelAddrs DEF CanBind, PanelFits

LEMMA FitSecondary ==
    ASSUME ListenersIInv, PanelFits, run = "secondary", HasSecondary
    PROVE  CanBind("secondary")
<1>1. ListenersTypeOK /\ BoundInv /\ RunInv /\ FdInv
  BY DEF ListenersIInv
<1>2. /\ AddrOf("secondary") = SecondaryAddr /\ AddrOf("primary") = PrimaryAddr
      /\ conf.tls = "acme" /\ Secure /\ ~HasSuffix(PrimaryAddr, SecondaryAddr)
  BY AddressOf DEF HasSecondary, Secure
<1>3. bound \cap PanelListeners \subseteq {"primary"}
  BY <1>1 DEF BoundInv, PanelListeners
<1>4. ~Overlap(SecondaryAddr, PrimaryAddr)
  <2>1. CASE conf.sni
    <3>1. SecondaryAddr = conf.backTCP
      BY <2>1 DEF SecondaryAddr
    <3>2. PrimaryAddr # conf.backTCP
      BY <1>2, <3>1 DEF HasSuffix
    <3>3. PrimaryAddr = conf.panel
      BY <3>2 DEF PrimaryAddr
    <3> QED BY <1>2, <2>1, <3>1, <3>3 DEF PanelFits, Overlap
  <2>2. CASE ~conf.sni
    BY <1>2, <2>2 DEF SecondaryAddr, Overlap, HasSuffix, Everywhere
  <2> QED BY <2>1, <2>2
<1>5. \A m \in bound : ~Collide("secondary", m)
  <2>1. \A m \in bound \ PanelListeners : ~Collide("secondary", m)
    BY <1>1, <1>2, PanelAddrs, PanelApart DEF PanelListeners
  <2>2. ~Collide("secondary", "primary")
    BY <1>2, <1>4 DEF Collide
  <2> QED BY <1>3, <2>1, <2>2
<1>6. \A p \in Plain : OnPlain("secondary", p) => PortFree(p)
  BY <1>1, <1>2, PanelAddrs, PanelOffPlain
<1> QED BY <1>1, <1>2, <1>5, <1>6, PanelAddrs DEF CanBind

----------------------------------------------------------------------------
(* The steps of run *)

(* The front door is left alone, and so are the encrypted listeners. *)
LEMMA FrontdoorKept ==
    ASSUME ListenersIInv, UNCHANGED fdVars, conf' = conf, run' \in Runs, refused' \in BOOLEAN,
           bound' \in SUBSET AllListeners,
           bound \cap Encrypted \subseteq bound' \/ run' \in {"failed", "exited"},
           Alive' => Alive
    PROVE  /\ ListenersTypeOK' /\ EncryptedSurvive' /\ FdInv' /\ SettingsSame
           /\ UNCHANGED <<enc, task, cancelled, srv, stray>>
<1>1. UNCHANGED <<srv, stray, enc, task, waiting, recent, degraded, cancelled>>
  BY DEF fdVars
<1>2. FdTypeOK' /\ FdInv'
  BY <1>1, WaitKept DEF ListenersIInv, ListenersTypeOK, FdTypeOK, FdInv
<1>3. ListenersTypeOK'
  BY <1>2 DEF ListenersIInv, ListenersTypeOK
<1>4. SettingsSame
  BY SettingsKept
<1>5. EncryptedSurvive'
  <2>1. SUFFICES ASSUME task # "off", ~cancelled
                 PROVE  enc = EncConfigured /\ (enc \subseteq bound' \/ ~Alive')
    BY <1>1, <1>4 DEF EncryptedSurvive, SettingsSame
  <2>2. enc = EncConfigured /\ (enc \subseteq bound \/ ~Alive)
    BY <2>1 DEF ListenersIInv, EncryptedSurvive
  <2>3. enc \in SUBSET Encrypted
    BY DEF ListenersIInv, ListenersTypeOK, FdTypeOK
  <2> QED BY <2>2, <2>3 DEF Alive
<1> QED BY <1>1, <1>2, <1>3, <1>4, <1>5

LEMMA CheckPortsInv ==
    ASSUME ListenersIInv, CheckPorts
    PROVE  ListenersIInv'
<1> USE DEF ListenersIInv
<1>1. /\ run = "ports" /\ run' \in {"failed", "frontdoor", "primary"}
      /\ UNCHANGED <<conf, bound, refused>> /\ UNCHANGED fdVars
      /\ run' = "failed" => ~PanelFits
      /\ run' = "frontdoor" => Secure
      /\ run' = "primary" => ~Secure
  <2>1. conf.tls = "none" => ~Secure
    BY DEF Secure
  <2> QED BY <2>1 DEF CheckPorts, PanelFits
<1>2. bound' = {} /\ task = "off" /\ refused' \in BOOLEAN
  BY <1>1 DEF BoundInv, RunInv, ListenersTypeOK
<1>3. /\ ListenersTypeOK' /\ EncryptedSurvive' /\ FdInv' /\ SettingsSame
      /\ UNCHANGED <<enc, task, cancelled, srv, stray>>
  BY <1>1, <1>2, FrontdoorKept DEF Runs, Alive, ListenersTypeOK
<1>4. BoundInv'
  BY <1>1, <1>2 DEF BoundInv
<1>5. RunInv'
  BY <1>1, <1>2, <1>3 DEF RunInv, SettingsSame
<1>6. NothingMissing'
  BY <1>1, <1>3 DEF NothingMissing, SettingsSame
<1> QED BY <1>3, <1>4, <1>5, <1>6

(* Everything that was started is bound. *)
LEMMA StartFrontdoorInv ==
    ASSUME ListenersIInv, StartFrontdoor
    PROVE  ListenersIInv'
<1> USE DEF ListenersIInv
<1>1. /\ run = "frontdoor" /\ run' = "sni" /\ UNCHANGED <<conf, refused>> /\ UNCHANGED <<stray, waiting, cancelled>>
      /\ srv' = [p \in Plain |-> "bound"] /\ enc' = EncConfigured /\ degraded' = FALSE
      /\ recent' = 0 /\ task' = "call" /\ task = "off" /\ bound' = bound \cup EncConfigured
  BY DEF StartFrontdoor, Start
<1>2. Secure /\ ~cancelled /\ bound = {}
  BY <1>1 DEF RunInv, FdInv, BoundInv
<1>3. SettingsSame
  BY <1>1, SettingsKept
<1>4. EncConfigured \in SUBSET Encrypted /\ bound' = EncConfigured /\ "sni" \notin Encrypted
      /\ Encrypted \subseteq AllListeners /\ bound' \cap {"sni", "quic", "primary", "secondary"} = {}
  BY <1>1, <1>2, Conf DEF Encrypted, AllListeners
<1>5. FdTypeOK'
  <2>1. EncConfigured \in SUBSET Encrypted /\ 0 \in 0..(MaxRestartsPerWindow + 1)
    BY <1>4, FrontdoorAssumption
  <2> QED BY <1>1, <2>1 DEF ListenersTypeOK, FdTypeOK
<1>6. ListenersTypeOK'
  BY <1>1, <1>4, <1>5 DEF ListenersTypeOK, Runs
<1>7. FdInv'
  <2>1. WaitInv'
    <3>1. waiting = {} /\ WaitInv
      BY <1>1 DEF FdInv, WaitInv
    <3> QED BY <1>1, <3>1, NobodyWaitedFor
  <2> QED BY <1>1, <2>1, FrontdoorAssumption DEF FdInv
<1>8. EncryptedSurvive'
  BY <1>1, <1>3, <1>4 DEF EncryptedSurvive, SettingsSame
<1>9. BoundInv'
  BY <1>1, <1>3, <1>4 DEF BoundInv, SettingsSame
<1>10. RunInv' /\ NothingMissing'
  BY <1>1, <1>2, <1>3 DEF RunInv, NothingMissing, SettingsSame
<1> QED BY <1>6, <1>7, <1>8, <1>9, <1>10

LEMMA FrontdoorFailsInv ==
    ASSUME ListenersIInv, FrontdoorFails
    PROVE  ListenersIInv'
<1> USE DEF ListenersIInv
<1>1. run = "frontdoor" /\ run' = "primary" /\ UNCHANGED <<conf, bound>>
  BY DEF FrontdoorFails
<1>2. stray' \in [Plain -> {"none", "leak", "orphan"}]
      /\ UNCHANGED <<srv, enc, task, waiting, recent, degraded, cancelled>>
      /\ \A p \in Plain : stray'[p] = "orphan" => stray[p] = "orphan"
  <2>1. CASE StartPlainFails
    BY <2>1, RollbackType, RollbackLeaks DEF StartPlainFails, ListenersTypeOK
  <2>2. CASE StartEncryptedFails
    BY <2>2 DEF StartEncryptedFails
  <2>3. CASE UNCHANGED fdVars
    BY <2>3 DEF fdVars, ListenersTypeOK, FdTypeOK
  <2> QED BY <2>1, <2>2, <2>3 DEF FrontdoorFails
<1>3. SettingsSame
  BY <1>1, SettingsKept
<1>4. task = "off" /\ bound = {} /\ Secure
  BY <1>1 DEF RunInv, BoundInv
<1>5. refused' \in BOOLEAN
  BY DEF FrontdoorFails, ListenersTypeOK
<1>6. refused' \/ ~SettingsFit
  <2>1. SettingsFit => conf.spoof /\ CertLoads /\ EncryptedFit
    BY <1>4, FitEncrypted DEF SettingsFit, PanelFits
  <2> QED BY <2>1 DEF FrontdoorFails
<1>7. FdTypeOK' /\ FdInv'
  <2>1. FdTypeOK'
    BY <1>2 DEF ListenersTypeOK, FdTypeOK
  <2>2. waiting = {} /\ WaitInv
    BY <1>4 DEF FdInv, WaitInv
  <2>3. WaitInv'
    BY <1>2, <1>4, <2>2, NobodyWaitedFor
  <2> QED BY <1>2, <2>1, <2>3 DEF FdInv
<1>8. ListenersTypeOK'
  BY <1>1, <1>5, <1>7 DEF ListenersTypeOK, Runs
<1>9. EncryptedSurvive'
  BY <1>2, <1>4 DEF EncryptedSurvive
<1>10. BoundInv'
  BY <1>1, <1>4 DEF BoundInv
<1>11. RunInv'
  BY <1>1, <1>2, <1>3 DEF RunInv, SettingsSame
<1>12. NothingMissing'
  BY <1>1, <1>3, <1>6 DEF NothingMissing, SettingsSame
<1> QED BY <1>7, <1>8, <1>9, <1>10, <1>11, <1>12

LEMMA SniSkippedInv ==
    ASSUME ListenersIInv, SniSkipped
    PROVE  ListenersIInv'
<1> USE DEF ListenersIInv
<1>1. run = "sni" /\ run' \in {"quic", "primary"} /\ UNCHANGED <<conf, bound>> /\ UNCHANGED fdVars
  BY DEF SniSkipped
<1>2. refused' \in BOOLEAN /\ (refused => refused') /\ (refused' \/ (run' = "quic" /\ ~conf.sni))
  <2>1. CASE ~conf.sni /\ run' = "quic" /\ refused' = refused
    BY <2>1 DEF ListenersTypeOK
  <2>2. CASE refused' = TRUE
    BY <2>2
  <2> QED BY <2>1, <2>2 DEF SniSkipped
<1>3. bound' \in SUBSET AllListeners
  BY <1>1 DEF ListenersTypeOK
<1>4. /\ ListenersTypeOK' /\ EncryptedSurvive' /\ FdInv' /\ SettingsSame
      /\ UNCHANGED <<enc, task, cancelled, srv, stray>>
  BY <1>1, <1>2, <1>3, FrontdoorKept DEF Runs, Alive
<1>5. "quic" \notin bound
  BY <1>1 DEF BoundInv
<1>6. BoundInv'
  BY <1>1, <1>4, <1>5 DEF BoundInv, SettingsSame
<1>7. RunInv'
  BY <1>1, <1>4 DEF RunInv, SettingsSame
<1>8. NothingMissing'
  BY <1>1, <1>2, <1>4 DEF NothingMissing, SettingsSame
<1> QED BY <1>4, <1>6, <1>7, <1>8

LEMMA StartSniForwardInv ==
    ASSUME ListenersIInv, StartSniForward
    PROVE  ListenersIInv'
<1> USE DEF ListenersIInv
<1>1. /\ run = "sni" /\ run' = "quic" /\ UNCHANGED <<conf, refused>> /\ UNCHANGED fdVars /\ conf.sni
      /\ bound' = bound \cup {"sni"}
  BY DEF StartSniForward
<1>2. bound' \in SUBSET AllListeners /\ refused' \in BOOLEAN /\ "sni" \notin Encrypted
  BY <1>1 DEF ListenersTypeOK, AllListeners, Encrypted
<1>3. /\ ListenersTypeOK' /\ EncryptedSurvive' /\ FdInv' /\ SettingsSame
      /\ UNCHANGED <<enc, task, cancelled, srv, stray>>
  BY <1>1, <1>2, FrontdoorKept DEF Runs, Alive
<1>4. Secure /\ "quic" \notin bound
  BY <1>1 DEF RunInv, BoundInv
<1>5. BoundInv'
  BY <1>1, <1>2, <1>3, <1>4 DEF BoundInv, SettingsSame
<1>6. RunInv' /\ NothingMissing'
  BY <1>1, <1>3 DEF RunInv, NothingMissing, SettingsSame
<1> QED BY <1>3, <1>5, <1>6

LEMMA StartQuicForwardInv ==
    ASSUME ListenersIInv, StartQuicForward
    PROVE  ListenersIInv'
<1> USE DEF ListenersIInv
<1>1. run = "quic" /\ run' = "primary" /\ UNCHANGED <<conf, refused>> /\ UNCHANGED fdVars
  BY DEF StartQuicForward
<1>2. (conf.quic /\ bound' = bound \cup {"quic"}) \/ (~conf.quic /\ bound' = bound)
  BY DEF StartQuicForward
<1>3. bound' \in SUBSET AllListeners /\ refused' \in BOOLEAN /\ "quic" \notin Encrypted
  BY <1>1, <1>2 DEF ListenersTypeOK, AllListeners, Encrypted
<1>4. /\ ListenersTypeOK' /\ EncryptedSurvive' /\ FdInv' /\ SettingsSame
      /\ UNCHANGED <<enc, task, cancelled, srv, stray>>
  BY <1>1, <1>2, <1>3, FrontdoorKept DEF Runs, Alive
<1>5. Secure
  BY <1>1 DEF RunInv
<1>6. BoundInv'
  BY <1>1, <1>2, <1>3, <1>4, <1>5 DEF BoundInv, SettingsSame
<1>7. RunInv' /\ NothingMissing'
  BY <1>1, <1>2, <1>4 DEF RunInv, NothingMissing, SettingsSame
<1> QED BY <1>4, <1>6, <1>7

LEMMA QuicForwardFailsInv ==
    ASSUME ListenersIInv, QuicForwardFails
    PROVE  ListenersIInv'
<1> USE DEF ListenersIInv
<1>1. run = "quic" /\ run' = "primary" /\ conf' = conf /\ UNCHANGED fdVars /\ bound' = bound \ {"sni"}
      /\ conf.quic
  BY DEF QuicForwardFails
<1>2. refused' \in BOOLEAN /\ (refused' \/ ~SettingsFit)
  BY <1>1, FitQuic DEF QuicForwardFails, ListenersTypeOK
<1>3. bound' \in SUBSET AllListeners /\ "sni" \notin Encrypted
  BY <1>1 DEF ListenersTypeOK, Encrypted
<1>4. /\ ListenersTypeOK' /\ EncryptedSurvive' /\ FdInv' /\ SettingsSame
      /\ UNCHANGED <<enc, task, cancelled, srv, stray>>
  BY <1>1, <1>2, <1>3, FrontdoorKept DEF Runs, Alive
<1>5. BoundInv'
  BY <1>1, <1>4 DEF BoundInv, SettingsSame
<1>6. RunInv' /\ NothingMissing'
  BY <1>1, <1>2, <1>4 DEF RunInv, NothingMissing, SettingsSame
<1> QED BY <1>4, <1>5, <1>6

LEMMA ListenPrimaryInv ==
    ASSUME ListenersIInv, ListenPrimary
    PROVE  ListenersIInv'
<1> USE DEF ListenersIInv
<1>1. /\ run = "primary" /\ run' = "secondary" /\ UNCHANGED <<conf, refused>> /\ UNCHANGED fdVars
      /\ bound' = bound \cup {"primary"}
  BY DEF ListenPrimary
<1>2. bound' \in SUBSET AllListeners /\ refused' \in BOOLEAN /\ "primary" \notin Encrypted
  BY <1>1 DEF ListenersTypeOK, AllListeners, PanelListeners, Encrypted
<1>3. /\ ListenersTypeOK' /\ EncryptedSurvive' /\ FdInv' /\ SettingsSame
      /\ UNCHANGED <<enc, task, cancelled, srv, stray>>
  BY <1>1, <1>2, FrontdoorKept DEF Runs, Alive
<1>4. BoundInv'
  BY <1>1, <1>2, <1>3 DEF BoundInv, SettingsSame
<1>5. RunInv' /\ NothingMissing'
  BY <1>1, <1>3 DEF RunInv, NothingMissing, SettingsSame
<1> QED BY <1>3, <1>4, <1>5

LEMMA ListenSecondaryInv ==
    ASSUME ListenersIInv, ListenSecondary
    PROVE  ListenersIInv'
<1> USE DEF ListenersIInv
<1>1. run = "secondary" /\ run' = "up" /\ UNCHANGED <<conf, refused>> /\ UNCHANGED fdVars
  BY DEF ListenSecondary
<1>2. (HasSecondary /\ bound' = bound \cup {"secondary"}) \/ (~HasSecondary /\ bound' = bound)
  BY DEF ListenSecondary
<1>3. bound' \in SUBSET AllListeners /\ refused' \in BOOLEAN /\ "secondary" \notin Encrypted
  BY <1>1, <1>2 DEF ListenersTypeOK, AllListeners, PanelListeners, Encrypted
<1>4. /\ ListenersTypeOK' /\ EncryptedSurvive' /\ FdInv' /\ SettingsSame
      /\ UNCHANGED <<enc, task, cancelled, srv, stray>>
  BY <1>1, <1>2, <1>3, FrontdoorKept DEF Runs, Alive
<1>5. BoundInv'
  BY <1>1, <1>2, <1>3, <1>4 DEF BoundInv, SettingsSame
<1>6. RunInv' /\ NothingMissing'
  BY <1>1, <1>2, <1>4 DEF RunInv, NothingMissing, SettingsSame
<1> QED BY <1>4, <1>5, <1>6

(* The process has ended. *)
LEMMA ProcessEnds ==
    ASSUME ListenersIInv, UNCHANGED fdVars, conf' = conf, run' \in {"failed", "exited"},
           refused' \in BOOLEAN, run' = "failed" => (refused' \/ ~PanelFits) /\ ~cancelled,
           bound' = {}, run \notin {"ports", "frontdoor", "failed"}
    PROVE  ListenersIInv'
<1> USE DEF ListenersIInv
<1>1. /\ ListenersTypeOK' /\ EncryptedSurvive' /\ FdInv' /\ SettingsSame
      /\ UNCHANGED <<enc, task, cancelled, srv, stray>>
  BY FrontdoorKept DEF Runs, Alive
<1>2. BoundInv'
  BY DEF BoundInv
<1>3. RunInv'
  BY <1>1 DEF RunInv, SettingsSame
<1>4. NothingMissing'
  BY <1>1 DEF NothingMissing, SettingsSame
<1> QED BY <1>1, <1>2, <1>3, <1>4

LEMMA ListenFailsInv ==
    ASSUME ListenersIInv, ListenFails
    PROVE  ListenersIInv'
<1>1. run \in {"primary", "secondary"} /\ run' = "failed" /\ UNCHANGED fdVars /\ conf' = conf
      /\ bound' = {}
  BY DEF ListenFails
<1>2. refused' \in BOOLEAN /\ (refused' \/ ~PanelFits)
  <2>1. CASE run = "primary"
    BY <2>1, FitPrimary DEF ListenFails, ListenersIInv, ListenersTypeOK
  <2>2. CASE run = "secondary"
    BY <2>2, FitSecondary DEF ListenFails, ListenersIInv, ListenersTypeOK
  <2> QED BY <1>1, <2>1, <2>2
<1>3. ~cancelled
  BY <1>1 DEF ListenersIInv, RunInv
<1> QED BY <1>1, <1>2, <1>3, ProcessEnds

LEMMA PanelStopsInv ==
    ASSUME ListenersIInv, PanelStops
    PROVE  ListenersIInv'
<1>1. run = "stopping" /\ run' = "exited" /\ UNCHANGED fdVars /\ conf' = conf /\ refused' = refused
      /\ bound' = {}
  BY DEF PanelStops
<1>2. refused' \in BOOLEAN
  BY <1>1 DEF ListenersIInv, ListenersTypeOK
<1> QED BY <1>1, <1>2, ProcessEnds

LEMMA DaemonStopsInv ==
    ASSUME ListenersIInv, DaemonStops
    PROVE  ListenersIInv'
<1> USE DEF ListenersIInv
<1>1. run = "up" /\ run' = "stopping" /\ UNCHANGED <<conf, bound, refused>> /\ UNCHANGED fdVars
  BY DEF DaemonStops
<1>2. bound' \in SUBSET AllListeners /\ refused' \in BOOLEAN
  BY <1>1 DEF ListenersTypeOK
<1>3. /\ ListenersTypeOK' /\ EncryptedSurvive' /\ FdInv' /\ SettingsSame
      /\ UNCHANGED <<enc, task, cancelled, srv, stray>>
  BY <1>1, <1>2, FrontdoorKept DEF Runs, Alive
<1>4. BoundInv'
  BY <1>1, <1>3 DEF BoundInv, SettingsSame
<1>5. RunInv' /\ NothingMissing'
  BY <1>1, <1>3 DEF RunInv, NothingMissing, SettingsSame
<1> QED BY <1>3, <1>4, <1>5

(* The front door and the forwarders are given up while the daemon stops. *)
LEMMA FrontdoorStopsInv ==
    ASSUME ListenersIInv, FrontdoorStops
    PROVE  ListenersIInv'
<1> USE DEF ListenersIInv
<1>1. /\ run = "stopping" /\ UNCHANGED <<conf, run, refused>> /\ bound' = bound \ Encrypted
      /\ enc' = {} /\ cancelled' = TRUE
      /\ task # "off" /\ UNCHANGED <<srv, stray, task, waiting, recent, degraded>>
  BY DEF FrontdoorStops, FdShutdown
<1>2. SettingsSame
  BY <1>1, SettingsKept
<1>3. FdTypeOK' /\ FdInv'
  BY <1>1, WaitKept DEF ListenersTypeOK, FdTypeOK, FdInv
<1>4. ListenersTypeOK' /\ EncryptedSurvive'
  BY <1>1, <1>3 DEF ListenersTypeOK, EncryptedSurvive
<1>5. BoundInv'
  BY <1>1, <1>2 DEF BoundInv, SettingsSame
<1>6. RunInv' /\ NothingMissing'
  BY <1>1, <1>2 DEF RunInv, NothingMissing, SettingsSame
<1> QED BY <1>3, <1>4, <1>5, <1>6

LEMMA ForwardersStopInv ==
    ASSUME ListenersIInv, ForwardersStop
    PROVE  ListenersIInv'
<1> USE DEF ListenersIInv
<1>1. /\ run = "stopping" /\ UNCHANGED <<conf, run, refused>> /\ bound' = bound \ {"sni", "quic"}
      /\ UNCHANGED fdVars
  BY DEF ForwardersStop
<1>2. bound' \in SUBSET AllListeners /\ refused' \in BOOLEAN /\ bound \cap Encrypted \subseteq bound'
  BY <1>1 DEF ListenersTypeOK, Encrypted
<1>3. /\ ListenersTypeOK' /\ EncryptedSurvive' /\ FdInv' /\ SettingsSame
      /\ UNCHANGED <<enc, task, cancelled, srv, stray>>
  BY <1>1, <1>2, FrontdoorKept DEF Runs, Alive
<1>4. BoundInv'
  BY <1>1, <1>3 DEF BoundInv, SettingsSame
<1>5. RunInv' /\ NothingMissing'
  BY <1>1, <1>3 DEF RunInv, NothingMissing, SettingsSame
<1> QED BY <1>3, <1>4, <1>5

----------------------------------------------------------------------------
LEMMA ListenersInitInv == ListenersInit => ListenersIInv
<1> SUFFICES ASSUME ListenersInit PROVE ListenersIInv
  OBVIOUS
<1>1. FdTypeOK /\ FdInv
  <2>1. 0 \in 0..(MaxRestartsPerWindow + 1) /\ 0 <= MaxRestartsPerWindow
    BY FrontdoorAssumption
  <2>2. FdTypeOK
    BY <2>1 DEF ListenersInit, FdInit, FdTypeOK
  <2>3. FdInv
    BY <2>1 DEF ListenersInit, FdInit, FdInv, WaitInv, OnlyOrphansKeep
  <2> QED BY <2>2, <2>3
<1>2. ListenersTypeOK
  BY <1>1 DEF ListenersInit, ListenersTypeOK, Runs
<1>3. EncryptedSurvive
  BY DEF ListenersInit, FdInit, EncryptedSurvive
<1>4. BoundInv
  BY DEF ListenersInit, BoundInv
<1>5. RunInv
  BY DEF ListenersInit, FdInit, RunInv
<1>6. NothingMissing
  BY DEF ListenersInit, NothingMissing
<1> QED BY <1>1, <1>2, <1>3, <1>4, <1>5, <1>6 DEF ListenersIInv

(* Who has a socket, how far run has got and what the supervisor has left   *)
(* agree at every step, whatever the settings.                              *)
THEOREM ListenersInvariance == ListenersSpec => []ListenersIInv
<1>1. ListenersIInv /\ [ListenersNext]_listenersVars => ListenersIInv'
  <2> SUFFICES ASSUME ListenersIInv, [ListenersNext]_listenersVars PROVE ListenersIInv'
    OBVIOUS
  <2>1. CASE Startup
    BY <2>1, CheckPortsInv, StartFrontdoorInv, FrontdoorFailsInv, SniSkippedInv, StartSniForwardInv,
       StartQuicForwardInv, QuicForwardFailsInv, ListenPrimaryInv, ListenSecondaryInv,
       ListenFailsInv DEF Startup
  <2>2. CASE Ending
    BY <2>2, DaemonStopsInv, FrontdoorStopsInv, ForwardersStopInv, PanelStopsInv DEF Ending
  <2>3. CASE FdSteps
    BY <2>3, FdStepsInv
  <2>4. CASE UNCHANGED listenersVars
    <3>1. UNCHANGED <<conf, run, bound, refused>> /\ UNCHANGED fdVars
      BY <2>4 DEF listenersVars
    <3>2. UNCHANGED <<srv, stray, enc, task, waiting, recent, degraded, cancelled>>
      BY <3>1 DEF fdVars
    <3>3. SettingsSame
      BY <3>1, SettingsKept
    <3>4. ListenersTypeOK' /\ FdInv'
      BY <3>1, <3>2, WaitKept DEF ListenersIInv, ListenersTypeOK, FdTypeOK, FdInv
    <3>5. EncryptedSurvive'
      BY <3>1, <3>2, <3>3 DEF ListenersIInv, EncryptedSurvive, Alive, SettingsSame
    <3>6. BoundInv'
      BY <3>1, <3>2, <3>3 DEF ListenersIInv, BoundInv, SettingsSame
    <3>7. RunInv' /\ NothingMissing'
      BY <3>1, <3>2, <3>3 DEF ListenersIInv, RunInv, NothingMissing, SettingsSame
    <3> QED BY <3>4, <3>5, <3>6, <3>7 DEF ListenersIInv
  <2> QED BY <2>1, <2>2, <2>3, <2>4 DEF ListenersNext
<1> QED BY <1>1, ListenersInitInv, PTL DEF ListenersSpec

(* Crashes, restarts and the give-up of the plain listeners leave the       *)
(* encrypted ones and the truth of Status alone, for every restart budget,  *)
(* and nothing but a server closed before its activation keeps serveAll     *)
(* (frontdoor.go, supervisor.go).                                           *)
THEOREM StatusIsHonest == ListenersSpec => []FrontdoorConsistent
<1>1. ListenersIInv => FrontdoorConsistent
  <2> SUFFICES ASSUME ListenersIInv PROVE FrontdoorConsistent
    OBVIOUS
  <2>1. task \in {"off", "call", "serve", "drain", "backoff", "ended"} /\ FdInv /\ ListenersTypeOK
        /\ EncryptedSurvive
    BY DEF ListenersIInv, ListenersTypeOK, FdTypeOK
  <2>2. \A p \in Plain : Healthy(p) => task \in {"call", "serve"}
    BY <2>1 DEF FdInv, Healthy
  <2>3. (task = "ended" /\ ~cancelled => degraded) /\ (degraded => task = "ended")
    BY <2>1 DEF FdInv
  <2>4. degraded => \A p \in Plain : srv[p] = "none"
    BY <2>1, <2>3 DEF FdInv
  <2>5. OnlyOrphansKeep
    BY <2>1 DEF FdInv, WaitInv
  <2> QED BY <2>1, <2>2, <2>3, <2>4, <2>5 DEF FrontdoorConsistent, PlainStatusHonest
<1> QED BY <1>1, ListenersInvariance, PTL

(* Settings that fit never end the daemon, and what the system did not      *)
(* refuse listens where it is looked for (main.go, run): for every set of   *)
(* settings, the ones that collide included.                                *)
THEOREM PanelIsReachable == ListenersSpec => []PanelReachable
<1>1. ListenersIInv => PanelReachable
  <2> SUFFICES ASSUME ListenersIInv PROVE PanelReachable
    OBVIOUS
  <2> DEFINE target == IF conf.sni THEN conf.backTCP ELSE [host |-> "own", num |-> "443"]
  <2>1. run = "failed" => refused \/ ~PanelFits
    BY DEF ListenersIInv, NothingMissing
  <2>2. SUFFICES ASSUME run = "up", ~refused, SettingsFit
                 PROVE  /\ Secure => /\ EncConfigured \subseteq bound
                                     /\ conf.quic => "quic" \in bound
                                     /\ conf.sni => "sni" \in bound
                        /\ "primary" \in bound
                        /\ conf.panel.num # "443" => AddrOf("primary") = conf.panel
                        /\ /\ conf.panel.host = "all"
                           /\ conf.tls = "acme" \/ (conf.tls = "static" /\ conf.panel.num = "443")
                           => \E l \in bound \cap PanelListeners : Reaches(target, l)
    BY <2>1 DEF PanelReachable
  <2>3. ASSUME Secure
        PROVE  /\ EncConfigured \subseteq bound
               /\ conf.quic => "quic" \in bound
               /\ conf.sni => "sni" \in bound
    <3>1. task # "off" /\ Alive /\ ~cancelled
      BY <2>2, <2>3 DEF ListenersIInv, NothingMissing, RunInv, Alive
    <3>2. EncConfigured \subseteq bound
      BY <3>1 DEF ListenersIInv, EncryptedSurvive
    <3> QED BY <2>2, <2>3, <3>2 DEF ListenersIInv, NothingMissing
  <2>4. "primary" \in bound /\ (HasSecondary => "secondary" \in bound)
    BY <2>2 DEF ListenersIInv, BoundInv
  <2>5. conf.panel.num # "443" => AddrOf("primary") = conf.panel
    BY AddressOf DEF PrimaryAddr, HasSuffix, Everywhere
  <2>6. ASSUME conf.panel.host = "all",
               conf.tls = "acme" \/ (conf.tls = "static" /\ conf.panel.num = "443")
        PROVE  \E l \in bound \cap PanelListeners : Reaches(target, l)
    <3>1. Secure /\ PanelFits /\ (conf.sni => conf.backTCP.num # "0")
      BY <2>2, <2>6 DEF Secure, SettingsFit
    <3>2. target.num # "0" /\ SecondaryAddr.num = target.num
          /\ SecondaryAddr.host \in Wild \cup {target.host}
      BY <3>1 DEF SecondaryAddr, Everywhere, Wild
    <3>3. CASE HasSecondary
      <4>1. Reaches(target, "secondary")
        BY <3>2, AddressOf DEF Reaches
      <4> QED BY <2>4, <3>3, <4>1 DEF PanelListeners
    <3>4. CASE ~HasSecondary
      <4>1. PrimaryAddr.num = target.num /\ PrimaryAddr.host \in Wild \cup {target.host}
        <5>1. CASE conf.sni /\ conf.panel.num = "443"
          BY <3>1, <5>1 DEF PrimaryAddr, HasSuffix, Everywhere
        <5>2. CASE ~conf.sni /\ conf.panel.num = "443"
          BY <2>6, <5>2 DEF PrimaryAddr, Wild
        <5>3. CASE conf.panel.num # "443"
          <6>1. conf.tls = "acme" /\ PrimaryAddr = conf.panel /\ HasSuffix(conf.panel, SecondaryAddr)
            BY <2>6, <3>4, <5>3, <2>5, AddressOf DEF HasSecondary
          <6> QED BY <2>6, <3>2, <6>1 DEF HasSuffix, Wild
        <5> QED BY <5>1, <5>2, <5>3
      <4>2. Reaches(target, "primary")
        BY <3>2, <4>1, AddressOf DEF Reaches
      <4> QED BY <2>4, <4>2 DEF PanelListeners
    <3> QED BY <3>3, <3>4
  <2> QED BY <2>3, <2>4, <2>5, <2>6
<1> QED BY <1>1, ListenersInvariance, PTL

=============================================================================
