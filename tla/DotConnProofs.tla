--------------------------- MODULE DotConnProofs ---------------------------
(***************************************************************************)
(* The safety of the multiplexed connection, for every number of queries,  *)
(* connections and message ids.  PendingIsCurrent, NoOrphan and OwnAnswer  *)
(* say nothing of a reply that is still on its way, so the invariant adds, *)
(* for each place a reply or a nil can be in, whose it is.                 *)
(***************************************************************************)
EXTENDS DotConn, TLAPS

(* Connections are numbered in the order they were installed: a new one is *)
(* neither the active one nor the one any query is pinned to.              *)
Numbered ==
    /\ conn <= dialled
    /\ \A q \in Queries : at[q] <= dialled

(* A query is pinned to a connection when it is registered, and before     *)
(* that nothing is on the way to it.                                       *)
Pinned ==
    \A q \in Queries :
        IF pc[q] \in {"start", "dial"}
          THEN /\ ch[q] = Empty /\ q \notin unsent
               /\ \A c \in Conns : reader[c] = "deliver" => held[c].to # q
          ELSE pc[q] = "done" \/ at[q] # NoConn

(* A query has one place at a time: while it is in the map, no reply and   *)
(* no nil is on the way to it.                                             *)
OnePlace ==
    \A i \in Ids : ~Free(i) =>
        /\ ch[pending[i]] = Empty
        /\ pending[i] \notin unsent
        /\ \A c \in Conns : reader[c] = "deliver" => held[c].to # pending[i]

(* Under its id q is in the map, or the id was given up on its connection,  *)
(* or the connection is no longer the active one.                          *)
Accounted(q) ==
    \/ pending[id[q]] = q
    \/ <<at[q], id[q]>> \in forgotten
    \/ conn # at[q]

(* A reply that is owed belongs to a query that was written there. *)
Outstanding(c, i, q) ==
    /\ at[q] = c /\ id[q] = i
    /\ pc[q] \in {"wait", "done"}
    /\ Accounted(q)

RepliesAccounted ==
    /\ \A q \in Queries : pc[q] = "write" => Accounted(q)
    /\ \A c \in Conns :
          /\ \A r \in server[c] : Outstanding(c, r[1], r[2])
          /\ reader[c] = "match" =>
                /\ held[c].of \in Queries
                /\ Outstanding(c, held[c].id, held[c].of)
                /\ <<held[c].id, held[c].of>> \notin server[c]

(* A reply that was matched goes to a query of the same connection. *)
DeliveriesOwn ==
    \A c \in Conns : reader[c] = "deliver" =>
        /\ held[c].to \in Queries
        /\ at[held[c].to] = c
        /\ held[c].of = held[c].to \/ <<c, id[held[c].to]>> \in forgotten

(* Nil is sent for connections that are closed or about to be. *)
NilsOwn ==
    \A q \in unsent : at[q] \in retiring \/ sock[at[q]] = "closed"

IInv ==
    /\ TypeOK /\ Numbered /\ Pinned
    /\ PendingIsCurrent /\ OnePlace /\ NoOrphan
    /\ RepliesAccounted /\ DeliveriesOwn /\ NilsOwn
    /\ OwnAnswer /\ OpenIsCurrent

(* Accounts outlive every step that keeps the entries of written queries.  *)
LEMMA AccountsKept ==
    ASSUME TypeOK, Pinned, RepliesAccounted,
           \A p \in Queries : at[p] # NoConn /\ pc[p] \in {"write", "wait", "done"} =>
              /\ at'[p] = at[p] /\ id'[p] = id[p]
              /\ Accounted(p) /\ (pc'[p] = "write" \/ Owed(p)') => Accounted(p)',
           \A p \in Queries : pc'[p] = "write" => pc[p] = "write" \/ Accounted(p)',
           \A p \in Queries : pc[p] \in {"wait", "done"} => pc'[p] \in {"wait", "done"},
           \A x \in Conns : /\ server'[x] \subseteq server[x]
                            /\ reader'[x] = "match" => reader[x] = "match" /\ held'[x] = held[x]
    PROVE  RepliesAccounted'
<1>1. \A q \in Queries : pc'[q] = "write" => Accounted(q)'
  <2> SUFFICES ASSUME NEW q \in Queries, pc'[q] = "write" PROVE Accounted(q)'
    OBVIOUS
  <2>1. pc[q] = "write" => Accounted(q) /\ at[q] # NoConn
    BY DEF RepliesAccounted, Pinned
  <2> QED BY <2>1
<1>2. ASSUME NEW c \in Conns, NEW i \in Ids, NEW q \in Queries, Outstanding(c, i, q), Owed(q)'
      PROVE  Outstanding(c, i, q)'
  BY <1>2 DEF Outstanding, Conns, NoConn
<1>3. ASSUME NEW c \in Conns, NEW r \in server'[c]
      PROVE  Outstanding(c, r[1], r[2])'
  <2>1. r \in server[c] /\ r \in Ids \X Queries
    BY DEF TypeOK
  <2>2. r[1] \in Ids /\ r[2] \in Queries /\ r = <<r[1], r[2]>>
    BY <2>1
  <2>3. Outstanding(c, r[1], r[2])
    BY <2>1 DEF RepliesAccounted
  <2>4. at'[r[2]] = c /\ id'[r[2]] = r[1]
    BY <2>2, <2>3 DEF Outstanding, Conns, NoConn
  <2>5. Owed(r[2])'
    BY <2>2, <2>4 DEF Owed
  <2> QED BY <2>2, <2>3, <2>5, <1>2
<1>4. ASSUME NEW c \in Conns, reader'[c] = "match"
      PROVE  /\ held'[c].of \in Queries
             /\ Outstanding(c, held[c].id, held[c].of)'
             /\ <<held'[c].id, held'[c].of>> \notin server'[c]
  <2>1. reader[c] = "match" /\ held'[c] = held[c] /\ held[c].id \in Ids
    BY <1>4 DEF TypeOK
  <2>2. /\ held[c].of \in Queries /\ Outstanding(c, held[c].id, held[c].of)
        /\ <<held[c].id, held[c].of>> \notin server[c]
    BY <2>1 DEF RepliesAccounted
  <2>3. Owed(held[c].of)'
    BY <1>4, <2>1, <2>2 DEF Outstanding, Owed, Conns, NoConn
  <2>4. Outstanding(c, held[c].id, held[c].of)'
    BY <2>1, <2>2, <2>3, <1>2
  <2> QED BY <2>1, <2>2, <2>4
<1> QED BY <1>1, <1>3, <1>4 DEF RepliesAccounted

(* Retiring the active connection empties the map into unsent; retiring    *)
(* another one changes neither.                                            *)
LEMMA RetireEffect ==
    ASSUME TypeOK, PendingIsCurrent, NEW c \in Conns, Retire(c)
    PROVE  /\ c = conn => conn' = NoConn /\ pending' = [i \in Ids |-> NoQuery]
           /\ c # conn => conn' = conn /\ pending' = pending
           /\ \A p \in Queries : p \in unsent' <=>
                 p \in unsent \/ (c = conn /\ \E i \in Ids : pending[i] = p)
           /\ unsent' \subseteq Queries
           /\ retiring' = retiring \cup {c}
           /\ nextID' = nextID /\ closed' = closed
<1>1. \A p \in Queries : p \in WaitersOf(c) <=> c = conn /\ \E i \in Ids : pending[i] = p
  BY DotConnAssumption DEF WaitersOf, PendingIsCurrent, Free, TypeOK
<1>2. WaitersOf(c) \subseteq Queries /\ NoQuery \notin WaitersOf(c)
  BY DotConnAssumption DEF WaitersOf
<1>3. c = conn => pending' = [i \in Ids |-> NoQuery]
  BY <1>1, <1>2 DEF Retire, Fail, TypeOK
<1>4. c # conn => pending' = pending
  BY <1>1, <1>2 DEF Retire, Fail, TypeOK
<1> QED BY <1>1, <1>2, <1>3, <1>4 DEF Retire, Fail, TypeOK

(* close empties the map into unsent. *)
LEMMA CloseEffect ==
    ASSUME TypeOK, Close
    PROVE  /\ conn' = NoConn /\ pending' = [i \in Ids |-> NoQuery]
           /\ \A p \in Queries : p \in unsent' <=>
                 p \in unsent \/ \E i \in Ids : pending[i] = p
           /\ unsent' \subseteq Queries
<1>1. pending' = [i \in Ids |-> NoQuery]
  BY DEF Close, Fail, TypeOK
<1> QED BY <1>1 DEF Close, Fail, TypeOK

(* A query that loses its entry to retire has lost its connection too. *)
LEMMA RetireKeepsAccount ==
    ASSUME TypeOK, PendingIsCurrent, NEW c \in Conns, Retire(c),
           UNCHANGED <<at, id, forgotten>>, NEW p \in Queries, at[p] # NoConn, Accounted(p)
    PROVE  Accounted(p)'
<1>1. CASE pending[id[p]] = p
  <2>1. at[p] = conn /\ conn # NoConn
    BY <1>1, DotConnAssumption DEF TypeOK, PendingIsCurrent, Free
  <2>2. CASE c = conn
    BY <2>1, <2>2, RetireEffect DEF Accounted
  <2>3. CASE c # conn
    BY <1>1, <2>3, RetireEffect DEF Accounted
  <2> QED BY <2>2, <2>3
<1>2. CASE <<at[p], id[p]>> \in forgotten
  BY <1>2 DEF Accounted
<1>3. CASE conn # at[p]
  BY <1>3, RetireEffect DEF Accounted, TypeOK
<1> QED BY <1>1, <1>2, <1>3 DEF Accounted

(* The requests a server has not answered are pairs of an id and a query. *)
LEMMA ServerPairs ==
    ASSUME TypeOK, NEW c \in Conns, NEW r \in server[c]
    PROVE  r[1] \in Ids /\ r[2] \in Queries /\ r = <<r[1], r[2]>>
<1>1. r \in Ids \X Queries
  BY DEF TypeOK
<1> QED BY <1>1

(* The reader of c takes one of the replies that are owed on c. *)
LEMMA ReadEffect ==
    ASSUME IInv, NEW c \in Conns, ReaderReads(c)
    PROVE  \E r \in server[c] :
              /\ r[1] \in Ids /\ r[2] \in Queries /\ r = <<r[1], r[2]>>
              /\ server' = [server EXCEPT ![c] = @ \ {r}]
              /\ held'[c].id = r[1] /\ held'[c].of = r[2]
              /\ held' \in [Conns -> [id : Ids, of : Queries \cup {NoQuery},
                                      to : Queries \cup {NoQuery}]]
              /\ \A x \in Conns : x # c => held'[x] = held[x] /\ server'[x] = server[x]
<1>1. PICK r \in server[c] :
         /\ server' = [server EXCEPT ![c] = @ \ {r}]
         /\ held' = [held EXCEPT ![c] = [NoReply EXCEPT !.id = r[1], !.of = r[2]]]
  BY DEF ReaderReads
<1> DEFINE h == [NoReply EXCEPT !.id = r[1], !.of = r[2]]
<1>2. r[1] \in Ids /\ r[2] \in Queries /\ r = <<r[1], r[2]>>
  BY DEF IInv, TypeOK
<1>3. h \in [id : Ids, of : Queries \cup {NoQuery}, to : Queries \cup {NoQuery}]
  BY <1>2 DEF NoReply
<1>4. h.id = r[1] /\ h.of = r[2]
  OBVIOUS
<1>5. held' = [held EXCEPT ![c] = h]
  BY <1>1
<1> HIDE DEF h
<1>6. /\ held' \in [Conns -> [id : Ids, of : Queries \cup {NoQuery},
                              to : Queries \cup {NoQuery}]]
      /\ held'[c] = h
      /\ \A x \in Conns : x # c => held'[x] = held[x]
  BY <1>3, <1>5 DEF IInv, TypeOK
<1>7. \A x \in Conns : x # c => server'[x] = server[x]
  BY <1>1 DEF IInv, TypeOK
<1> QED BY <1>1, <1>2, <1>4, <1>6, <1>7

(* A query that is not registered moves on without touching anything. *)
LEMMA UnregisteredIInv ==
    ASSUME IInv, NEW q \in Queries, pc[q] \in {"start", "dial"},
           NEW l \in {"start", "dial", "done"}, Goto(q, l),
           UNCHANGED <<connVars, wireVars, at, id, ch, unsent, forgotten, displaced>>
    PROVE  IInv'
<1>1. TypeOK'
  BY DEF IInv, connVars, wireVars, Goto, TypeOK
<1>2. Numbered'
  BY DEF IInv, connVars, wireVars, Numbered, TypeOK
<1>3. Pinned'
  BY DEF IInv, wireVars, Goto, Pinned, TypeOK
<1>4. PendingIsCurrent'
  BY DEF IInv, connVars, Goto, PendingIsCurrent, TypeOK, Free
<1>5. OnePlace'
  BY DEF IInv, connVars, wireVars, OnePlace, TypeOK, Free
<1>6. NoOrphan'
  BY DEF IInv, connVars, wireVars, Goto, NoOrphan, TypeOK, Served
<1>7. RepliesAccounted'
  <2>1. \A p \in Queries : at[p] # NoConn /\ pc[p] \in {"write", "wait", "done"} =>
           /\ at'[p] = at[p] /\ id'[p] = id[p]
           /\ Accounted(p) /\ (pc'[p] = "write" \/ Owed(p)') => Accounted(p)'
    BY DEF IInv, connVars, TypeOK, Accounted
  <2>2. \A p \in Queries : pc'[p] = "write" => pc[p] = "write" \/ Accounted(p)'
    BY DEF IInv, Goto, TypeOK
  <2>3. \A p \in Queries : pc[p] \in {"wait", "done"} => pc'[p] \in {"wait", "done"}
    BY DEF IInv, Goto, TypeOK
  <2>4. \A x \in Conns : /\ server'[x] \subseteq server[x]
                         /\ reader'[x] = "match" => reader[x] = "match" /\ held'[x] = held[x]
    BY DEF IInv, wireVars, TypeOK
  <2> QED BY <2>1, <2>2, <2>3, <2>4, AccountsKept DEF IInv
<1>8. DeliveriesOwn'
  BY DEF IInv, wireVars, DeliveriesOwn, TypeOK
<1>9. NilsOwn'
  BY DEF IInv, wireVars, NilsOwn, TypeOK
<1>10. OwnAnswer'
  BY DEF IInv, wireVars, OwnAnswer, TypeOK
<1>11. OpenIsCurrent'
  BY DEF IInv, connVars, wireVars, OpenIsCurrent, TypeOK
<1> QED
  BY <1>1, <1>2, <1>3, <1>4, <1>5, <1>6, <1>7, <1>8, <1>9, <1>10, <1>11 DEF IInv

(* A query is registered under a free id of the active connection. *)
LEMMA RegisterIInv ==
    ASSUME IInv, NEW q \in Queries, Register(q)
    PROVE  IInv'
<1>1. TypeOK'
  <2>1. PICK i \in Ids : /\ nextID' = i
                         /\ pending' = [pending EXCEPT ![i] = q]
                         /\ id' = [id EXCEPT ![q] = i]
    BY DEF Register, CountTo
  <2> QED
    BY <2>1 DEF IInv, Register, Goto, wireVars, TypeOK
<1>2. Numbered'
  BY DEF IInv, Register, wireVars, Numbered, TypeOK
<1>3. Pinned'
  BY DEF IInv, Register, wireVars, Goto, Pinned, TypeOK
<1>4. PendingIsCurrent'
  BY DEF IInv, Register, Free, Goto, PendingIsCurrent, TypeOK
<1>5. OnePlace'
  BY DEF IInv, Register, Free, wireVars, OnePlace, TypeOK, Pinned
<1>6. NoOrphan'
  BY DotConnAssumption DEF IInv, Register, Picked, Free, wireVars, Goto, NoOrphan,
     TypeOK, Served
<1>7. RepliesAccounted'
  <2>1. PICK i \in Ids : /\ Free(i)
                         /\ pending' = [pending EXCEPT ![i] = q]
                         /\ id' = [id EXCEPT ![q] = i]
    BY DEF Register, Picked
  <2>2. \A p \in Queries : at[p] # NoConn /\ pc[p] \in {"write", "wait", "done"} =>
           /\ at'[p] = at[p] /\ id'[p] = id[p]
           /\ Accounted(p) /\ (pc'[p] = "write" \/ Owed(p)') => Accounted(p)'
    <3> SUFFICES ASSUME NEW p \in Queries, pc[p] \in {"write", "wait", "done"}
                 PROVE  /\ at'[p] = at[p] /\ id'[p] = id[p]
                        /\ Accounted(p) => Accounted(p)'
      OBVIOUS
    <3>1. at'[p] = at[p] /\ id'[p] = id[p] /\ id[p] \in Ids
      BY <2>1 DEF IInv, Register, TypeOK
    <3>2. pending[id[p]] = p => pending'[id[p]] = p
      BY <2>1, <3>1, DotConnAssumption DEF IInv, TypeOK, Free
    <3> QED BY <3>1, <3>2 DEF Register, Accounted
  <2>3. \A p \in Queries : pc'[p] = "write" => pc[p] = "write" \/ Accounted(p)'
    BY <2>1 DEF IInv, Register, Goto, TypeOK, Accounted
  <2>4. \A p \in Queries : pc[p] \in {"wait", "done"} => pc'[p] \in {"wait", "done"}
    BY DEF IInv, Register, Goto, TypeOK
  <2>5. \A x \in Conns : /\ server'[x] \subseteq server[x]
                         /\ reader'[x] = "match" => reader[x] = "match" /\ held'[x] = held[x]
    BY DEF Register, wireVars
  <2> QED BY <2>2, <2>3, <2>4, <2>5, AccountsKept DEF IInv
<1>8. DeliveriesOwn'
  BY DotConnAssumption DEF IInv, Register, Picked, CountTo, Free, wireVars, Goto,
     DeliveriesOwn, TypeOK, Pinned
<1>9. NilsOwn'
  BY DEF IInv, Register, wireVars, NilsOwn, TypeOK, Pinned
<1>10. OwnAnswer'
  BY DEF IInv, Register, wireVars, OwnAnswer, TypeOK, Empty, Pinned
<1>11. OpenIsCurrent'
  BY DEF IInv, Register, wireVars, OpenIsCurrent, TypeOK
<1> QED
  BY <1>1, <1>2, <1>3, <1>4, <1>5, <1>6, <1>7, <1>8, <1>9, <1>10, <1>11 DEF IInv

(* A new connection has no waiters and owes no reply. *)
LEMMA InstallIInv ==
    ASSUME IInv, NEW q \in Queries, Install(q)
    PROVE  IInv'
<1>1. TypeOK'
  <2>1. dialled' \in Conns /\ dialled' \in 0..MaxConns
    BY DotConnAssumption DEF IInv, Install, MayInstall, TypeOK, Conns
  <2>2. /\ sock' \in [Conns -> {"none", "open", "broken", "closed"}]
        /\ reader' \in [Conns -> {"none", "read", "match", "deliver", "exited"}]
        /\ pc' \in [Queries -> {"start", "dial", "write", "wait", "done"}]
    BY <2>1 DEF IInv, Install, Goto, TypeOK
  <2> QED BY <2>1, <2>2 DEF IInv, Install, TypeOK
<1>2. Numbered'
  BY DEF IInv, Install, Goto, Numbered, TypeOK, NoConn, Conns
<1>3. Pinned'
  BY DEF IInv, Install, Goto, Pinned, TypeOK
<1>4. PendingIsCurrent'
  BY DEF IInv, Install, MayInstall, PendingIsCurrent, TypeOK, Free
<1>5. OnePlace'
  BY DEF IInv, Install, OnePlace, TypeOK, Free
<1>6. NoOrphan'
  <2>1. \A x \in Conns : reader[x] = "deliver" => x <= dialled
    BY DEF IInv, DeliveriesOwn, Numbered
  <2>2. \A x \in Conns : reader[x] = "deliver" => reader'[x] = "deliver" /\ held'[x] = held[x]
    BY <2>1 DEF IInv, Install, TypeOK
  <2>3. \A p \in Queries : Served(p) => Served(p)'
    BY <2>2 DEF Install, Served
  <2> QED BY <2>3 DEF IInv, Install, Goto, NoOrphan, TypeOK
<1>7. RepliesAccounted'
  <2>1. \A p \in Queries : at[p] # NoConn /\ pc[p] \in {"write", "wait", "done"} =>
           /\ at'[p] = at[p] /\ id'[p] = id[p]
           /\ Accounted(p) /\ (pc'[p] = "write" \/ Owed(p)') => Accounted(p)'
    BY DEF IInv, Install, TypeOK, Accounted, Numbered
  <2>2. \A p \in Queries : pc'[p] = "write" => pc[p] = "write" \/ Accounted(p)'
    BY DEF IInv, Install, Goto, TypeOK
  <2>3. \A p \in Queries : pc[p] \in {"wait", "done"} => pc'[p] \in {"wait", "done"}
    BY DEF IInv, Install, Goto, TypeOK
  <2>4. \A x \in Conns : /\ server'[x] \subseteq server[x]
                         /\ reader'[x] = "match" => reader[x] = "match" /\ held'[x] = held[x]
    BY DEF IInv, Install, TypeOK
  <2> QED BY <2>1, <2>2, <2>3, <2>4, AccountsKept DEF IInv
<1>8. DeliveriesOwn'
  BY DEF IInv, Install, DeliveriesOwn, TypeOK
<1>9. NilsOwn'
  BY DEF IInv, Install, NilsOwn, TypeOK, Numbered
<1>10. OwnAnswer'
  BY DEF IInv, Install, OwnAnswer, TypeOK, Numbered
<1>11. OpenIsCurrent'
  <2>1. dialled + 1 \in Conns
    BY DotConnAssumption DEF IInv, Install, MayInstall, TypeOK, Conns
  <2> QED
    BY <2>1 DEF IInv, Install, MayInstall, OpenIsCurrent, TypeOK, Conns, NoConn
<1> QED
  BY <1>1, <1>2, <1>3, <1>4, <1>5, <1>6, <1>7, <1>8, <1>9, <1>10, <1>11 DEF IInv

(* The query is written: its reply is owed from now on. *)
LEMMA WriteIInv ==
    ASSUME IInv, NEW q \in Queries, Write(q)
    PROVE  IInv'
<1>1. TypeOK'
  <2>1. at[q] \in Conns
    BY DEF IInv, Write, Pinned, TypeOK
  <2>2. <<id[q], q>> \in Ids \X Queries
    BY DEF IInv, TypeOK
  <2>3. server' \in [Conns -> SUBSET (Ids \X Queries)]
    BY <2>1, <2>2 DEF IInv, Write, TypeOK
  <2> QED
    BY <2>3 DEF IInv, Write, Goto, connVars, TypeOK
<1>2. Numbered'
  BY DEF IInv, Write, connVars, Numbered, TypeOK
<1>3. Pinned'
  BY DEF IInv, Write, Goto, Pinned, TypeOK
<1>4. PendingIsCurrent'
  BY DEF IInv, Write, connVars, Goto, PendingIsCurrent, TypeOK, Free
<1>5. OnePlace'
  BY DEF IInv, Write, connVars, OnePlace, TypeOK, Free
<1>6. NoOrphan'
  BY DEF IInv, Write, connVars, Goto, NoOrphan, TypeOK, Served
<1>7. RepliesAccounted'
  <2>1. Accounted(q) /\ q \in Queries /\ pc[q] = "write"
    BY DEF IInv, Write, RepliesAccounted
  <2>2. \A p \in Queries : Accounted(p) => Accounted(p)'
    BY DEF Write, connVars, Accounted
  <2>3. \A x \in Conns, i \in Ids, p \in Queries :
           Outstanding(x, i, p) => Outstanding(x, i, p)'
    BY <2>1, <2>2 DEF IInv, Write, Goto, Outstanding, TypeOK
  <2>4. Outstanding(at[q], id[q], q)'
    BY <2>1, <2>2 DEF IInv, Write, Goto, Outstanding, TypeOK
  <2>5. ASSUME NEW x \in Conns, NEW r \in server'[x]
        PROVE  Outstanding(x, r[1], r[2])'
    <3>1. CASE r \in server[x]
      <4>1. r[1] \in Ids /\ r[2] \in Queries /\ Outstanding(x, r[1], r[2])
        BY <3>1, ServerPairs DEF IInv, RepliesAccounted
      <4> QED BY <4>1, <2>3
    <3>2. CASE r \notin server[x]
      <4>1. x = at[q] /\ r = <<id[q], q>>
        BY <3>2 DEF IInv, Write, TypeOK
      <4>2. at'[q] = at[q] /\ id'[q] = id[q] /\ r[1] = id[q] /\ r[2] = q
        BY <4>1 DEF Write
      <4> QED BY <4>1, <4>2, <2>4
    <3> QED BY <3>1, <3>2
  <2>6. ASSUME NEW x \in Conns, reader'[x] = "match"
        PROVE  /\ held'[x].of \in Queries
               /\ Outstanding(x, held[x].id, held[x].of)'
               /\ <<held'[x].id, held'[x].of>> \notin server'[x]
    <3>1. reader[x] = "match" /\ held'[x] = held[x] /\ held[x].id \in Ids
      BY <2>6 DEF IInv, Write, TypeOK
    <3>2. /\ held[x].of \in Queries /\ Outstanding(x, held[x].id, held[x].of)
          /\ <<held[x].id, held[x].of>> \notin server[x]
      BY <3>1 DEF IInv, RepliesAccounted
    <3>3. held[x].of # q
      BY <3>2, <2>1 DEF Outstanding
    <3>4. <<held[x].id, held[x].of>> \notin server'[x]
      BY <3>2, <3>3 DEF IInv, Write, TypeOK
    <3> QED BY <3>1, <3>2, <3>4, <2>3
  <2>7. \A p \in Queries : pc'[p] = "write" => Accounted(p)'
    BY <2>2 DEF IInv, Write, Goto, RepliesAccounted, TypeOK
  <2>8. held' = held
    BY DEF Write
  <2> QED BY <2>5, <2>6, <2>7, <2>8 DEF RepliesAccounted
<1>8. DeliveriesOwn'
  BY DEF IInv, Write, DeliveriesOwn, TypeOK
<1>9. NilsOwn'
  BY DEF IInv, Write, NilsOwn, TypeOK
<1>10. OwnAnswer'
  BY DEF IInv, Write, OwnAnswer, TypeOK
<1>11. OpenIsCurrent'
  BY DEF IInv, Write, connVars, OpenIsCurrent, TypeOK
<1> QED
  BY <1>1, <1>2, <1>3, <1>4, <1>5, <1>6, <1>7, <1>8, <1>9, <1>10, <1>11 DEF IInv

(* A query gives its connection up, after an error or at its deadline. *)
LEMMA GivesUpIInv ==
    ASSUME IInv, NEW q \in Queries, pc[q] \in {"write", "wait"}, Retire(at[q]),
           Goto(q, "done"),
           UNCHANGED <<closing, dialled, sock, server, reader, held, at, id, ch,
                       forgotten, displaced>>
    PROVE  IInv'
<1>1. TypeOK'
  <2>1. at[q] \in Conns
    BY DEF IInv, Pinned, TypeOK
  <2> QED
    BY <2>1, RetireEffect DEF IInv, Goto, TypeOK
<1>2. Numbered'
  BY DEF IInv, Retire, Numbered, TypeOK, NoConn
<1>3. Pinned'
  BY DotConnAssumption DEF IInv, Retire, Fail, WaitersOf, Goto, Pinned, TypeOK,
     PendingIsCurrent, Free
<1>4. PendingIsCurrent'
  BY DEF IInv, Retire, Fail, WaitersOf, Goto, PendingIsCurrent, TypeOK, Free
<1>5. OnePlace'
  BY DEF IInv, Retire, Fail, OnePlace, TypeOK, Free
<1>6. NoOrphan'
  BY DEF IInv, Retire, Fail, Goto, NoOrphan, TypeOK, Served
<1>7. RepliesAccounted'
  <2>1. at[q] \in Conns
    BY DEF IInv, Pinned, TypeOK
  <2>2. \A p \in Queries : at[p] # NoConn /\ pc[p] \in {"write", "wait", "done"} =>
           /\ at'[p] = at[p] /\ id'[p] = id[p]
           /\ Accounted(p) /\ (pc'[p] = "write" \/ Owed(p)') => Accounted(p)'
    BY <2>1, RetireKeepsAccount DEF IInv
  <2>3. \A p \in Queries : pc'[p] = "write" => pc[p] = "write" \/ Accounted(p)'
    BY DEF IInv, Goto, TypeOK
  <2>4. \A p \in Queries : pc[p] \in {"wait", "done"} => pc'[p] \in {"wait", "done"}
    BY DEF IInv, Goto, TypeOK
  <2>5. \A x \in Conns : /\ server'[x] \subseteq server[x]
                         /\ reader'[x] = "match" => reader[x] = "match" /\ held'[x] = held[x]
    OBVIOUS
  <2> QED BY <2>2, <2>3, <2>4, <2>5, AccountsKept DEF IInv
<1>8. DeliveriesOwn'
  BY DEF IInv, DeliveriesOwn, TypeOK
<1>9. NilsOwn'
  BY DEF IInv, Retire, Fail, WaitersOf, NilsOwn, TypeOK
<1>10. OwnAnswer'
  BY DEF IInv, OwnAnswer, TypeOK
<1>11. OpenIsCurrent'
  BY DEF IInv, Retire, OpenIsCurrent, TypeOK
<1> QED
  BY <1>1, <1>2, <1>3, <1>4, <1>5, <1>6, <1>7, <1>8, <1>9, <1>10, <1>11 DEF IInv

(* What is received leaves the map alone. *)
LEMMA ReceiveIInv ==
    ASSUME IInv, NEW q \in Queries, Receive(q)
    PROVE  IInv'
<1>1. TypeOK'
  BY DEF IInv, Receive, connVars, wireVars, Goto, TypeOK
<1>2. Numbered'
  BY DEF IInv, Receive, connVars, wireVars, Numbered, TypeOK
<1>3. Pinned'
  BY DEF IInv, Receive, wireVars, Goto, Pinned, TypeOK
<1>4. PendingIsCurrent'
  BY DEF IInv, Receive, connVars, Goto, PendingIsCurrent, TypeOK, Free, OnePlace
<1>5. OnePlace'
  BY DEF IInv, Receive, connVars, wireVars, OnePlace, TypeOK, Free
<1>6. NoOrphan'
  BY DEF IInv, Receive, connVars, wireVars, Goto, NoOrphan, TypeOK, Served
<1>7. RepliesAccounted'
  <2>1. \A p \in Queries : at[p] # NoConn /\ pc[p] \in {"write", "wait", "done"} =>
           /\ at'[p] = at[p] /\ id'[p] = id[p]
           /\ Accounted(p) /\ (pc'[p] = "write" \/ Owed(p)') => Accounted(p)'
    BY DEF IInv, Receive, connVars, TypeOK, Accounted
  <2>2. \A p \in Queries : pc'[p] = "write" => pc[p] = "write" \/ Accounted(p)'
    BY DEF IInv, Receive, Goto, TypeOK
  <2>3. \A p \in Queries : pc[p] \in {"wait", "done"} => pc'[p] \in {"wait", "done"}
    BY DEF IInv, Receive, Goto, TypeOK
  <2>4. \A x \in Conns : /\ server'[x] \subseteq server[x]
                         /\ reader'[x] = "match" => reader[x] = "match" /\ held'[x] = held[x]
    BY DEF IInv, Receive, wireVars, TypeOK
  <2> QED BY <2>1, <2>2, <2>3, <2>4, AccountsKept DEF IInv
<1>8. DeliveriesOwn'
  BY DEF IInv, Receive, wireVars, DeliveriesOwn, TypeOK
<1>9. NilsOwn'
  BY DEF IInv, Receive, wireVars, NilsOwn, TypeOK
<1>10. OwnAnswer'
  BY DEF IInv, Receive, wireVars, OwnAnswer, TypeOK
<1>11. OpenIsCurrent'
  BY DEF IInv, Receive, connVars, wireVars, OpenIsCurrent, TypeOK
<1> QED
  BY <1>1, <1>2, <1>3, <1>4, <1>5, <1>6, <1>7, <1>8, <1>9, <1>10, <1>11 DEF IInv

(* A cancelled query forgets its entry, or that of a successor. *)
LEMMA CancelIInv ==
    ASSUME IInv, NEW q \in Queries, Cancel(q)
    PROVE  IInv'
<1>1. TypeOK'
  <2>1. at[q] \in Conns /\ <<at[q], id[q]>> \in Conns \X Ids
    BY DEF IInv, Cancel, Pinned, TypeOK
  <2>2. forgotten' \subseteq Conns \X Ids
    BY <2>1 DEF IInv, Cancel, TypeOK
  <2>3. displaced' \subseteq Queries
    BY DEF IInv, Cancel, Forget, Displaced, Match, Free, TypeOK
  <2>4. pending' \in [Ids -> Queries \cup {NoQuery}]
    BY DEF IInv, Cancel, Forget, TypeOK
  <2> QED
    BY <2>2, <2>3, <2>4 DEF IInv, Cancel, Goto, wireVars, TypeOK
<1>2. Numbered'
  BY DEF IInv, Cancel, wireVars, Numbered, TypeOK
<1>3. Pinned'
  BY DEF IInv, Cancel, wireVars, Goto, Pinned, TypeOK
<1>4. PendingIsCurrent'
  BY DEF IInv, Cancel, Forget, Match, Goto, PendingIsCurrent, TypeOK, Free
<1>5. OnePlace'
  BY DEF IInv, Cancel, Forget, wireVars, OnePlace, TypeOK, Free
<1>6. NoOrphan'
  BY DEF IInv, Cancel, Forget, Displaced, wireVars, Goto, NoOrphan, TypeOK, Served
<1>7. RepliesAccounted'
  <2>1. Owed(q)' => Owed(q)
    BY DEF Cancel, wireVars, Owed
  <2>2. Owed(q) \/ Displaced(q) # {} => <<at[q], id[q]>> \in forgotten'
    BY DEF Cancel
  <2>3. ASSUME NEW p \in Queries, at[p] # NoConn, pc[p] \in {"write", "wait", "done"},
               Accounted(p), pc'[p] = "write" \/ Owed(p)'
        PROVE  Accounted(p)'
    <3>1. CASE pending'[id[p]] = pending[id[p]]
      BY <3>1, <2>3 DEF IInv, Cancel, Accounted
    <3>2. CASE pending'[id[p]] # pending[id[p]]
      <4>1. Match(at[q], id[q]) /\ id[p] = id[q]
        BY <3>2 DEF IInv, Cancel, Forget, TypeOK
      <4>2. CASE p = q
        BY <4>2, <2>1, <2>2, <2>3 DEF IInv, Cancel, Goto, TypeOK, Accounted
      <4>3. CASE p # q /\ pending[id[p]] = p
        <5>1. Displaced(q) # {} /\ at[p] = at[q]
          BY <4>1, <4>3 DEF Displaced, Match
        <5> QED BY <5>1, <4>1, <2>2 DEF Cancel, Accounted
      <4>4. CASE p # q /\ pending[id[p]] # p
        BY <4>4, <2>3 DEF IInv, Cancel, Accounted
      <4> QED BY <4>2, <4>3, <4>4
    <3> QED BY <3>1, <3>2
  <2>4. \A p \in Queries : at'[p] = at[p] /\ id'[p] = id[p]
    BY DEF Cancel
  <2>5. \A p \in Queries : pc'[p] = "write" => pc[p] = "write" \/ Accounted(p)'
    BY DEF IInv, Cancel, Goto, TypeOK
  <2>6. \A p \in Queries : pc[p] \in {"wait", "done"} => pc'[p] \in {"wait", "done"}
    BY DEF IInv, Cancel, Goto, TypeOK
  <2>7. \A x \in Conns : /\ server'[x] \subseteq server[x]
                         /\ reader'[x] = "match" => reader[x] = "match" /\ held'[x] = held[x]
    BY DEF Cancel, wireVars
  <2> QED BY <2>3, <2>4, <2>5, <2>6, <2>7, AccountsKept DEF IInv
<1>8. DeliveriesOwn'
  BY DEF IInv, Cancel, wireVars, DeliveriesOwn, TypeOK
<1>9. NilsOwn'
  BY DEF IInv, Cancel, wireVars, NilsOwn, TypeOK
<1>10. OwnAnswer'
  BY DEF IInv, Cancel, wireVars, OwnAnswer, TypeOK
<1>11. OpenIsCurrent'
  BY DEF IInv, Cancel, wireVars, OpenIsCurrent, TypeOK
<1> QED
  BY <1>1, <1>2, <1>3, <1>4, <1>5, <1>6, <1>7, <1>8, <1>9, <1>10, <1>11 DEF IInv

(* A retired connection is closed. *)
LEMMA CloseSocketIInv ==
    ASSUME IInv, NEW c \in Conns, CloseSocket(c)
    PROVE  IInv'
<1>1. TypeOK'
  BY DEF IInv, CloseSocket, CloseConn, connVars, callVars, TypeOK
<1>2. Numbered'
  BY DEF IInv, CloseSocket, connVars, callVars, Numbered, TypeOK
<1>3. Pinned'
  BY DEF IInv, CloseSocket, callVars, Pinned, TypeOK
<1>4. PendingIsCurrent'
  BY DEF IInv, CloseSocket, connVars, callVars, PendingIsCurrent, TypeOK, Free
<1>5. OnePlace'
  BY DEF IInv, CloseSocket, connVars, callVars, OnePlace, TypeOK, Free
<1>6. NoOrphan'
  BY DEF IInv, CloseSocket, connVars, callVars, NoOrphan, TypeOK, Served
<1>7. RepliesAccounted'
  <2>1. \A p \in Queries : at[p] # NoConn /\ pc[p] \in {"write", "wait", "done"} =>
           /\ at'[p] = at[p] /\ id'[p] = id[p]
           /\ Accounted(p) /\ (pc'[p] = "write" \/ Owed(p)') => Accounted(p)'
    BY DEF IInv, CloseSocket, callVars, connVars, TypeOK, Accounted
  <2>2. \A p \in Queries : pc'[p] = "write" => pc[p] = "write" \/ Accounted(p)'
    BY DEF IInv, CloseSocket, callVars, TypeOK
  <2>3. \A p \in Queries : pc[p] \in {"wait", "done"} => pc'[p] \in {"wait", "done"}
    BY DEF IInv, CloseSocket, callVars, TypeOK
  <2>4. \A x \in Conns : /\ server'[x] \subseteq server[x]
                         /\ reader'[x] = "match" => reader[x] = "match" /\ held'[x] = held[x]
    BY DEF IInv, CloseSocket, TypeOK
  <2> QED BY <2>1, <2>2, <2>3, <2>4, AccountsKept DEF IInv
<1>8. DeliveriesOwn'
  BY DEF IInv, CloseSocket, callVars, DeliveriesOwn, TypeOK
<1>9. NilsOwn'
  BY DEF IInv, CloseSocket, CloseConn, callVars, NilsOwn, TypeOK
<1>10. OwnAnswer'
  BY DEF IInv, CloseSocket, CloseConn, callVars, OwnAnswer, TypeOK
<1>11. OpenIsCurrent'
  BY DEF IInv, CloseSocket, CloseConn, connVars, OpenIsCurrent, TypeOK
<1> QED
  BY <1>1, <1>2, <1>3, <1>4, <1>5, <1>6, <1>7, <1>8, <1>9, <1>10, <1>11 DEF IInv

(* Nil reaches a query whose connection is closed. *)
LEMMA SendNilIInv ==
    ASSUME IInv, NEW q \in Queries, SendNil(q)
    PROVE  IInv'
<1>1. TypeOK'
  BY DEF IInv, SendNil, Send, connVars, wireVars, TypeOK, Empty, Nil
<1>2. Numbered'
  BY DEF IInv, SendNil, connVars, wireVars, Numbered, TypeOK
<1>3. Pinned'
  BY DEF IInv, SendNil, Send, wireVars, Pinned, TypeOK
<1>4. PendingIsCurrent'
  BY DEF IInv, SendNil, connVars, PendingIsCurrent, TypeOK, Free
<1>5. OnePlace'
  BY DEF IInv, SendNil, Send, connVars, wireVars, OnePlace, TypeOK, Free
<1>6. NoOrphan'
  <2>1. \A p \in Queries : Served(p) => Served(p)'
    BY DEF IInv, SendNil, Send, connVars, wireVars, Served, Empty, Nil, TypeOK
  <2> QED BY <2>1 DEF IInv, SendNil, NoOrphan
<1>7. RepliesAccounted'
  <2>1. \A p \in Queries : at[p] # NoConn /\ pc[p] \in {"write", "wait", "done"} =>
           /\ at'[p] = at[p] /\ id'[p] = id[p]
           /\ Accounted(p) /\ (pc'[p] = "write" \/ Owed(p)') => Accounted(p)'
    BY DEF IInv, SendNil, connVars, TypeOK, Accounted
  <2>2. \A p \in Queries : pc'[p] = "write" => pc[p] = "write" \/ Accounted(p)'
    BY DEF IInv, SendNil, TypeOK
  <2>3. \A p \in Queries : pc[p] \in {"wait", "done"} => pc'[p] \in {"wait", "done"}
    BY DEF IInv, SendNil, TypeOK
  <2>4. \A x \in Conns : /\ server'[x] \subseteq server[x]
                         /\ reader'[x] = "match" => reader[x] = "match" /\ held'[x] = held[x]
    BY DEF IInv, SendNil, wireVars, TypeOK
  <2> QED BY <2>1, <2>2, <2>3, <2>4, AccountsKept DEF IInv
<1>8. DeliveriesOwn'
  BY DEF IInv, SendNil, wireVars, DeliveriesOwn, TypeOK
<1>9. NilsOwn'
  BY DEF IInv, SendNil, wireVars, NilsOwn, TypeOK
<1>10. OwnAnswer'
  BY DEF IInv, SendNil, Send, wireVars, OwnAnswer, TypeOK, NilsOwn, Nil
<1>11. OpenIsCurrent'
  BY DEF IInv, SendNil, connVars, wireVars, OpenIsCurrent, TypeOK
<1> QED
  BY <1>1, <1>2, <1>3, <1>4, <1>5, <1>6, <1>7, <1>8, <1>9, <1>10, <1>11 DEF IInv

(* A reply moves from the wire to its reader. *)
LEMMA ReaderReadsIInv ==
    ASSUME IInv, NEW c \in Conns, ReaderReads(c)
    PROVE  IInv'
<1>1. TypeOK'
  <2>1. PICK r \in server[c] :
           /\ server' = [server EXCEPT ![c] = @ \ {r}]
           /\ held' \in [Conns -> [id : Ids, of : Queries \cup {NoQuery},
                                   to : Queries \cup {NoQuery}]]
    BY ReadEffect
  <2> QED
    BY <2>1 DEF IInv, ReaderReads, connVars, callVars, TypeOK
<1>2. Numbered'
  BY DEF IInv, ReaderReads, connVars, callVars, Numbered, TypeOK
<1>3. Pinned'
  BY DEF IInv, ReaderReads, callVars, Pinned, TypeOK
<1>4. PendingIsCurrent'
  BY DEF IInv, ReaderReads, connVars, callVars, PendingIsCurrent, TypeOK, Free
<1>5. OnePlace'
  BY DEF IInv, ReaderReads, connVars, callVars, OnePlace, TypeOK, Free
<1>6. NoOrphan'
  BY DEF IInv, ReaderReads, connVars, callVars, NoOrphan, TypeOK, Served
<1>7. RepliesAccounted'
  <2>1. PICK r \in server[c] :
           /\ r[1] \in Ids /\ r[2] \in Queries /\ r = <<r[1], r[2]>>
           /\ server' = [server EXCEPT ![c] = @ \ {r}]
           /\ held'[c].id = r[1] /\ held'[c].of = r[2]
           /\ \A x \in Conns : x # c => held'[x] = held[x] /\ server'[x] = server[x]
    BY ReadEffect
  <2>2. \A p \in Queries : Accounted(p) => Accounted(p)'
    BY DEF ReaderReads, connVars, callVars, Accounted
  <2>3. \A x \in Conns, i \in Ids, p \in Queries :
           Outstanding(x, i, p) => Outstanding(x, i, p)'
    BY <2>2 DEF ReaderReads, callVars, Outstanding
  <2>4. ASSUME NEW x \in Conns, NEW s \in server'[x]
        PROVE  Outstanding(x, s[1], s[2])'
    <3>1. s \in server[x]
      BY <2>1 DEF IInv, TypeOK
    <3>2. s[1] \in Ids /\ s[2] \in Queries /\ Outstanding(x, s[1], s[2])
      BY <3>1, ServerPairs DEF IInv, RepliesAccounted
    <3> QED BY <3>2, <2>3
  <2>5. \A p \in Queries : pc'[p] = "write" => Accounted(p)'
    BY <2>2 DEF IInv, ReaderReads, callVars, RepliesAccounted
  <2>6. ASSUME NEW x \in Conns, reader'[x] = "match"
        PROVE  /\ held'[x].of \in Queries
               /\ (Outstanding(x, held[x].id, held[x].of))'
               /\ <<held'[x].id, held'[x].of>> \notin server'[x]
    <3>1. CASE x = c
      <4>1. Outstanding(c, r[1], r[2])
        BY <2>1 DEF IInv, RepliesAccounted
      <4>2. r \notin server'[c]
        BY <2>1 DEF IInv, TypeOK
      <4> QED
        BY <3>1, <4>1, <4>2, <2>1, <2>2 DEF ReaderReads, callVars, Outstanding
    <3>2. CASE x # c
      <4>1. /\ reader[x] = "match" /\ held'[x] = held[x] /\ held[x].id \in Ids
            /\ server'[x] = server[x]
        BY <2>1, <2>6, <3>2 DEF IInv, ReaderReads, TypeOK
      <4>2. /\ held[x].of \in Queries /\ Outstanding(x, held[x].id, held[x].of)
            /\ <<held[x].id, held[x].of>> \notin server[x]
        BY <4>1 DEF IInv, RepliesAccounted
      <4> QED BY <4>1, <4>2, <2>2 DEF ReaderReads, callVars, Outstanding
    <3> QED BY <3>1, <3>2
  <2> QED BY <2>4, <2>5, <2>6 DEF RepliesAccounted
<1>8. DeliveriesOwn'
  BY DEF IInv, ReaderReads, callVars, DeliveriesOwn, TypeOK
<1>9. NilsOwn'
  BY DEF IInv, ReaderReads, callVars, NilsOwn, TypeOK
<1>10. OwnAnswer'
  BY DEF IInv, ReaderReads, callVars, OwnAnswer, TypeOK
<1>11. OpenIsCurrent'
  BY DEF IInv, ReaderReads, connVars, OpenIsCurrent, TypeOK
<1> QED
  BY <1>1, <1>2, <1>3, <1>4, <1>5, <1>6, <1>7, <1>8, <1>9, <1>10, <1>11 DEF IInv

(* A reply finds the waiter under its id, or none. *)
LEMMA ReaderMatchesIInv ==
    ASSUME IInv, NEW c \in Conns, ReaderMatches(c)
    PROVE  IInv'
<1>1. TypeOK'
  <2>1. CASE Match(c, held[c].id)
    <3> DEFINE w == pending[held[c].id]
    <3>1. /\ held[c].id \in Ids /\ w \in Queries
          /\ held' = [held EXCEPT ![c].to = w]
          /\ pending' = [pending EXCEPT ![held[c].id] = NoQuery]
          /\ reader' = [reader EXCEPT ![c] = "deliver"]
      BY <2>1 DEF IInv, ReaderMatches, Match, Free, TypeOK
    <3> HIDE DEF w
    <3> DEFINE h == [held[c] EXCEPT !.to = w]
    <3>2. h \in [id : Ids, of : Queries \cup {NoQuery}, to : Queries \cup {NoQuery}]
      <4>1. held[c] \in [id : Ids, of : Queries \cup {NoQuery}, to : Queries \cup {NoQuery}]
        BY DEF IInv, TypeOK
      <4> QED BY <3>1, <4>1
    <3>3. held' = [held EXCEPT ![c] = h]
      BY <3>1
    <3> HIDE DEF h
    <3>4. held' \in [Conns -> [id : Ids, of : Queries \cup {NoQuery},
                               to : Queries \cup {NoQuery}]]
      BY <3>2, <3>3 DEF IInv, TypeOK
    <3>5. pending' \in [Ids -> Queries \cup {NoQuery}]
      BY <3>1 DEF IInv, TypeOK
    <3> QED
      BY <3>1, <3>4, <3>5 DEF IInv, ReaderMatches, callVars, TypeOK
  <2>2. CASE ~Match(c, held[c].id)
    BY <2>2 DEF IInv, ReaderMatches, callVars, TypeOK
  <2> QED BY <2>1, <2>2
<1>2. Numbered'
  BY DEF IInv, ReaderMatches, callVars, Numbered, TypeOK
<1>3. Pinned'
  BY DotConnAssumption DEF IInv, ReaderMatches, callVars, Pinned, TypeOK, Empty,
     PendingIsCurrent, Free
<1>4. PendingIsCurrent'
  BY DotConnAssumption DEF IInv, ReaderMatches, callVars, PendingIsCurrent, TypeOK,
     Free, OnePlace
<1>5. OnePlace'
  <2>1. CASE Match(c, held[c].id)
    <3> DEFINE i == held[c].id
               w == pending[i]
    <3>1. /\ i \in Ids /\ w \in Queries /\ id[w] = i
          /\ pending' = [pending EXCEPT ![i] = NoQuery]
          /\ held' = [held EXCEPT ![c].to = w]
          /\ reader' = [reader EXCEPT ![c] = "deliver"]
      BY <2>1 DEF IInv, ReaderMatches, Match, Free, TypeOK, PendingIsCurrent
    <3>2. ASSUME NEW j \in Ids, pending'[j] # NoQuery
          PROVE  pending'[j] = pending[j] /\ pending[j] # w /\ pending[j] # NoQuery
      BY <3>1, <3>2 DEF IInv, TypeOK, PendingIsCurrent, Free
    <3>3. \A x \in Conns : x # c => held'[x] = held[x] /\ reader'[x] = reader[x]
      BY <3>1 DEF IInv, TypeOK
    <3>4. held'[c].to = w
      BY <3>1 DEF IInv, TypeOK
    <3> QED
      BY <3>2, <3>3, <3>4 DEF IInv, ReaderMatches, callVars, OnePlace, Free
  <2>2. CASE ~Match(c, held[c].id)
    BY <2>2 DEF IInv, ReaderMatches, callVars, TypeOK, OnePlace, Free
  <2> QED BY <2>1, <2>2
<1>6. NoOrphan'
  <2>1. CASE Match(c, held[c].id)
    <3> DEFINE i == held[c].id
    <3>1. /\ i \in Ids /\ id[pending[i]] = i
          /\ pending' = [pending EXCEPT ![i] = NoQuery]
          /\ held' = [held EXCEPT ![c].to = pending[i]]
          /\ reader' = [reader EXCEPT ![c] = "deliver"] /\ reader[c] = "match"
      BY <2>1 DEF IInv, ReaderMatches, Match, Free, TypeOK, PendingIsCurrent
    <3>2. ASSUME NEW p \in Queries, Served(p)
          PROVE  Served(p)'
      BY <3>1, <3>2 DEF IInv, ReaderMatches, callVars, TypeOK, Served
    <3> QED BY <3>2 DEF IInv, ReaderMatches, callVars, NoOrphan
  <2>2. CASE ~Match(c, held[c].id)
    <3>1. \A p \in Queries : Served(p) => Served(p)'
      BY <2>2 DEF IInv, ReaderMatches, callVars, TypeOK, Served
    <3> QED BY <2>2, <3>1 DEF IInv, ReaderMatches, callVars, NoOrphan
  <2> QED BY <2>1, <2>2
<1>7. RepliesAccounted'
  <2>1. ASSUME NEW p \in Queries, at[p] # NoConn, pc[p] \in {"write", "wait", "done"},
               Accounted(p), pc'[p] = "write" \/ Owed(p)'
        PROVE  Accounted(p)'
    <3>1. CASE pending'[id[p]] = pending[id[p]]
      BY <3>1, <2>1 DEF ReaderMatches, callVars, Accounted
    <3>2. CASE pending'[id[p]] # pending[id[p]] /\ pending[id[p]] # p
      BY <3>2, <2>1 DEF ReaderMatches, callVars, Accounted
    <3>3. CASE pending'[id[p]] # pending[id[p]] /\ pending[id[p]] = p
      <4>1. /\ Match(c, held[c].id) /\ id[p] = held[c].id /\ reader[c] = "match"
            /\ reader' = [reader EXCEPT ![c] = "deliver"] /\ server' = server
        BY <3>3 DEF IInv, ReaderMatches, TypeOK
      <4>2. at[p] = c /\ conn = c
        BY <3>3, <4>1 DEF IInv, Match, PendingIsCurrent, TypeOK
      <4>3. /\ held[c].of \in Queries /\ Outstanding(c, held[c].id, held[c].of)
            /\ <<held[c].id, held[c].of>> \notin server[c]
        BY <4>1 DEF IInv, RepliesAccounted
      <4>4. CASE held[c].of = p
        <5>1. pc[p] # "write" /\ ~Owed(p)'
          BY <4>1, <4>2, <4>3, <4>4 DEF IInv, ReaderMatches, callVars, Outstanding,
             Owed, TypeOK
        <5> QED BY <5>1, <2>1 DEF ReaderMatches, callVars
      <4>5. CASE held[c].of # p
        <5>1. <<c, held[c].id>> \in forgotten
          BY <3>3, <4>1, <4>2, <4>3, <4>5 DEF Outstanding, Accounted
        <5> QED BY <5>1, <4>1, <4>2 DEF ReaderMatches, callVars, Accounted
      <4> QED BY <4>4, <4>5
    <3> QED BY <3>1, <3>2, <3>3
  <2>2. UNCHANGED <<at, id, pc>> /\ server' = server
    BY DEF ReaderMatches, callVars
  <2>3. \A x \in Conns : reader'[x] = "match" => reader[x] = "match" /\ held'[x] = held[x]
    BY DEF IInv, ReaderMatches, TypeOK
  <2> QED BY <2>1, <2>2, <2>3, AccountsKept DEF IInv
<1>8. DeliveriesOwn'
  <2>1. CASE Match(c, held[c].id)
    <3> DEFINE i == held[c].id
               w == pending[i]
    <3>1. /\ i \in Ids /\ w \in Queries /\ id[w] = i /\ at[w] = c /\ conn = c
          /\ reader' = [reader EXCEPT ![c] = "deliver"]
          /\ held' = [held EXCEPT ![c].to = w]
      BY <2>1 DEF IInv, ReaderMatches, Match, Free, TypeOK, PendingIsCurrent
    <3>2. held'[c].to = w /\ held'[c].of = held[c].of
      BY <3>1 DEF IInv, TypeOK
    <3>3. held[c].of = w \/ <<c, i>> \in forgotten
      BY <3>1 DEF IInv, ReaderMatches, RepliesAccounted, Outstanding, Accounted
    <3>4. \A x \in Conns : x # c => held'[x] = held[x] /\ reader'[x] = reader[x]
      BY <3>1 DEF IInv, TypeOK
    <3> QED
      BY <3>1, <3>2, <3>3, <3>4 DEF IInv, ReaderMatches, callVars, DeliveriesOwn
  <2>2. CASE ~Match(c, held[c].id)
    BY <2>2 DEF IInv, ReaderMatches, callVars, TypeOK, DeliveriesOwn
  <2> QED BY <2>1, <2>2
<1>9. NilsOwn'
  BY DEF IInv, ReaderMatches, callVars, NilsOwn, TypeOK
<1>10. OwnAnswer'
  BY DEF IInv, ReaderMatches, callVars, OwnAnswer, TypeOK
<1>11. OpenIsCurrent'
  BY DEF IInv, ReaderMatches, OpenIsCurrent, TypeOK
<1> QED
  BY <1>1, <1>2, <1>3, <1>4, <1>5, <1>6, <1>7, <1>8, <1>9, <1>10, <1>11 DEF IInv

(* A reply reaches its waiter. *)
LEMMA ReaderDeliversIInv ==
    ASSUME IInv, NEW c \in Conns, ReaderDelivers(c)
    PROVE  IInv'
<1>1. TypeOK'
  BY DEF IInv, ReaderDelivers, Send, Reply, connVars, TypeOK
<1>2. Numbered'
  BY DEF IInv, ReaderDelivers, connVars, Numbered, TypeOK
<1>3. Pinned'
  BY DEF IInv, ReaderDelivers, Send, Pinned, TypeOK
<1>4. PendingIsCurrent'
  BY DEF IInv, ReaderDelivers, connVars, PendingIsCurrent, TypeOK, Free
<1>5. OnePlace'
  BY DEF IInv, ReaderDelivers, Send, connVars, OnePlace, TypeOK, Free
<1>6. NoOrphan'
  <2>1. ch'[held[c].to] # Empty
    BY DEF IInv, ReaderDelivers, Send, Reply, Empty, DeliveriesOwn, TypeOK
  <2>2. \A p \in Queries : Served(p) => Served(p)'
    BY <2>1 DEF IInv, ReaderDelivers, Send, connVars, Served, TypeOK
  <2> QED BY <2>2 DEF IInv, ReaderDelivers, NoOrphan
<1>7. RepliesAccounted'
  <2>1. \A p \in Queries : at[p] # NoConn /\ pc[p] \in {"write", "wait", "done"} =>
           /\ at'[p] = at[p] /\ id'[p] = id[p]
           /\ Accounted(p) /\ (pc'[p] = "write" \/ Owed(p)') => Accounted(p)'
    BY DEF IInv, ReaderDelivers, connVars, TypeOK, Accounted
  <2>2. \A p \in Queries : pc'[p] = "write" => pc[p] = "write" \/ Accounted(p)'
    BY DEF IInv, ReaderDelivers, TypeOK
  <2>3. \A p \in Queries : pc[p] \in {"wait", "done"} => pc'[p] \in {"wait", "done"}
    BY DEF IInv, ReaderDelivers, TypeOK
  <2>4. \A x \in Conns : /\ server'[x] \subseteq server[x]
                         /\ reader'[x] = "match" => reader[x] = "match" /\ held'[x] = held[x]
    BY DEF IInv, ReaderDelivers, TypeOK
  <2> QED BY <2>1, <2>2, <2>3, <2>4, AccountsKept DEF IInv
<1>8. DeliveriesOwn'
  BY DEF IInv, ReaderDelivers, DeliveriesOwn, TypeOK
<1>9. NilsOwn'
  BY DEF IInv, ReaderDelivers, NilsOwn, TypeOK
<1>10. OwnAnswer'
  <2> DEFINE w == held[c].to
  <2>1. /\ w \in Queries /\ at[w] = c
        /\ held[c].of = w \/ <<c, id[w]>> \in forgotten
    BY DEF IInv, ReaderDelivers, DeliveriesOwn
  <2>2. ch' = [ch EXCEPT ![w] = IF @ = Empty THEN Reply(c, held[c].of) ELSE @]
    BY DEF ReaderDelivers, Send
  <2>3. \A p \in Queries : ch'[p] = ch[p] \/ (p = w /\ ch'[p] = Reply(c, held[c].of))
    BY <2>1, <2>2 DEF IInv, TypeOK
  <2> QED
    BY <2>1, <2>3 DEF IInv, ReaderDelivers, OwnAnswer, Reply
<1>11. OpenIsCurrent'
  BY DEF IInv, ReaderDelivers, connVars, OpenIsCurrent, TypeOK
<1> QED
  BY <1>1, <1>2, <1>3, <1>4, <1>5, <1>6, <1>7, <1>8, <1>9, <1>10, <1>11 DEF IInv

(* A reader ends and retires its connection. *)
LEMMA ReaderFailsIInv ==
    ASSUME IInv, NEW c \in Conns, ReaderFails(c)
    PROVE  IInv'
<1>1. TypeOK'
  BY DEF IInv, ReaderFails, Retire, Fail, WaitersOf, TypeOK
<1>2. Numbered'
  BY DEF IInv, ReaderFails, Retire, Numbered, TypeOK, NoConn
<1>3. Pinned'
  BY DotConnAssumption DEF IInv, ReaderFails, Retire, Fail, WaitersOf, Pinned, TypeOK,
     Empty, PendingIsCurrent, Free
<1>4. PendingIsCurrent'
  BY DEF IInv, ReaderFails, Retire, Fail, WaitersOf, PendingIsCurrent, TypeOK, Free
<1>5. OnePlace'
  BY DEF IInv, ReaderFails, Retire, Fail, OnePlace, TypeOK, Free
<1>6. NoOrphan'
  BY DEF IInv, ReaderFails, Retire, Fail, NoOrphan, TypeOK, Served
<1>7. RepliesAccounted'
  <2>1. \A p \in Queries : at[p] # NoConn /\ pc[p] \in {"write", "wait", "done"} =>
           /\ at'[p] = at[p] /\ id'[p] = id[p]
           /\ Accounted(p) /\ (pc'[p] = "write" \/ Owed(p)') => Accounted(p)'
    BY RetireKeepsAccount DEF IInv, ReaderFails
  <2>2. \A p \in Queries : pc'[p] = pc[p]
    BY DEF ReaderFails
  <2>3. \A x \in Conns : /\ server'[x] \subseteq server[x]
                         /\ reader'[x] = "match" => reader[x] = "match" /\ held'[x] = held[x]
    BY DEF IInv, ReaderFails, TypeOK
  <2> QED BY <2>1, <2>2, <2>3, AccountsKept DEF IInv
<1>8. DeliveriesOwn'
  BY DEF IInv, ReaderFails, DeliveriesOwn, TypeOK
<1>9. NilsOwn'
  BY DEF IInv, ReaderFails, Retire, Fail, WaitersOf, NilsOwn, TypeOK
<1>10. OwnAnswer'
  BY DEF IInv, ReaderFails, OwnAnswer, TypeOK
<1>11. OpenIsCurrent'
  BY DEF IInv, ReaderFails, Retire, OpenIsCurrent, TypeOK
<1> QED
  BY <1>1, <1>2, <1>3, <1>4, <1>5, <1>6, <1>7, <1>8, <1>9, <1>10, <1>11 DEF IInv

(* close fails every waiter. *)
LEMMA CloseIInv ==
    ASSUME IInv, Close
    PROVE  IInv'
<1>1. TypeOK'
  BY DEF IInv, Close, Fail, TypeOK
<1>2. Numbered'
  BY DEF IInv, Close, Numbered, TypeOK, NoConn
<1>3. Pinned'
  BY DotConnAssumption DEF IInv, Close, Fail, Pinned, TypeOK, PendingIsCurrent, Free
<1>4. PendingIsCurrent'
  BY DEF IInv, Close, Fail, PendingIsCurrent, TypeOK, Free
<1>5. OnePlace'
  BY DEF IInv, Close, Fail, OnePlace, TypeOK, Free
<1>6. NoOrphan'
  BY DEF IInv, Close, Fail, NoOrphan, TypeOK, Served
<1>7. RepliesAccounted'
  <2>1. \A p \in Queries : at[p] # NoConn /\ pc[p] \in {"write", "wait", "done"} =>
           /\ at'[p] = at[p] /\ id'[p] = id[p]
           /\ Accounted(p) /\ (pc'[p] = "write" \/ Owed(p)') => Accounted(p)'
    BY DEF IInv, Close, Accounted
  <2>2. \A p \in Queries : pc'[p] = pc[p]
    BY DEF Close
  <2>3. \A x \in Conns : /\ server'[x] \subseteq server[x]
                         /\ reader'[x] = "match" => reader[x] = "match" /\ held'[x] = held[x]
    BY DEF IInv, Close, TypeOK
  <2> QED BY <2>1, <2>2, <2>3, AccountsKept DEF IInv
<1>8. DeliveriesOwn'
  BY DEF IInv, Close, DeliveriesOwn, TypeOK
<1>9. NilsOwn'
  BY DotConnAssumption DEF IInv, Close, Fail, NilsOwn, TypeOK, PendingIsCurrent, Free
<1>10. OwnAnswer'
  BY DEF IInv, Close, OwnAnswer, TypeOK
<1>11. OpenIsCurrent'
  BY DEF IInv, Close, OpenIsCurrent, TypeOK
<1> QED
  BY <1>1, <1>2, <1>3, <1>4, <1>5, <1>6, <1>7, <1>8, <1>9, <1>10, <1>11 DEF IInv

(* A connection that breaks keeps its place. *)
LEMMA BreaksIInv ==
    ASSUME IInv, NEW c \in Conns, Breaks(c)
    PROVE  IInv'
<1>1. TypeOK'
  BY DEF IInv, Breaks, connVars, callVars, TypeOK
<1>2. Numbered'
  BY DEF IInv, Breaks, connVars, callVars, Numbered, TypeOK
<1>3. Pinned'
  BY DEF IInv, Breaks, callVars, Pinned, TypeOK
<1>4. PendingIsCurrent'
  BY DEF IInv, Breaks, connVars, callVars, PendingIsCurrent, TypeOK, Free
<1>5. OnePlace'
  BY DEF IInv, Breaks, connVars, callVars, OnePlace, TypeOK, Free
<1>6. NoOrphan'
  BY DEF IInv, Breaks, connVars, callVars, NoOrphan, TypeOK, Served
<1>7. RepliesAccounted'
  <2>1. \A p \in Queries : at[p] # NoConn /\ pc[p] \in {"write", "wait", "done"} =>
           /\ at'[p] = at[p] /\ id'[p] = id[p]
           /\ Accounted(p) /\ (pc'[p] = "write" \/ Owed(p)') => Accounted(p)'
    BY DEF IInv, Breaks, callVars, connVars, TypeOK, Accounted
  <2>2. \A p \in Queries : pc'[p] = "write" => pc[p] = "write" \/ Accounted(p)'
    BY DEF IInv, Breaks, callVars, TypeOK
  <2>3. \A p \in Queries : pc[p] \in {"wait", "done"} => pc'[p] \in {"wait", "done"}
    BY DEF IInv, Breaks, callVars, TypeOK
  <2>4. \A x \in Conns : /\ server'[x] \subseteq server[x]
                         /\ reader'[x] = "match" => reader[x] = "match" /\ held'[x] = held[x]
    BY DEF IInv, Breaks, TypeOK
  <2> QED BY <2>1, <2>2, <2>3, <2>4, AccountsKept DEF IInv
<1>8. DeliveriesOwn'
  BY DEF IInv, Breaks, callVars, DeliveriesOwn, TypeOK
<1>9. NilsOwn'
  BY DEF IInv, Breaks, callVars, NilsOwn, TypeOK
<1>10. OwnAnswer'
  BY DEF IInv, Breaks, callVars, OwnAnswer, TypeOK
<1>11. OpenIsCurrent'
  BY DEF IInv, Breaks, connVars, OpenIsCurrent, TypeOK
<1> QED
  BY <1>1, <1>2, <1>3, <1>4, <1>5, <1>6, <1>7, <1>8, <1>9, <1>10, <1>11 DEF IInv

(* The end of close and stuttering touch no waiter. *)
LEMMA IdleIInv ==
    ASSUME IInv, CloseReturns \/ UNCHANGED vars
    PROVE  IInv'
<1>1. TypeOK'
  BY DEF IInv, CloseReturns, vars, connVars, wireVars, callVars, TypeOK
<1>2. Numbered'
  BY DEF IInv, CloseReturns, vars, connVars, wireVars, callVars, Numbered, TypeOK
<1>3. Pinned'
  BY DEF IInv, CloseReturns, vars, wireVars, callVars, Pinned, TypeOK
<1>4. PendingIsCurrent'
  BY DEF IInv, CloseReturns, vars, connVars, callVars, PendingIsCurrent, TypeOK, Free
<1>5. OnePlace'
  BY DEF IInv, CloseReturns, vars, connVars, wireVars, callVars, OnePlace, TypeOK, Free
<1>6. NoOrphan'
  BY DEF IInv, CloseReturns, vars, connVars, wireVars, callVars, NoOrphan, TypeOK, Served
<1>7. RepliesAccounted'
  <2>1. \A p \in Queries : at[p] # NoConn /\ pc[p] \in {"write", "wait", "done"} =>
           /\ at'[p] = at[p] /\ id'[p] = id[p]
           /\ Accounted(p) /\ (pc'[p] = "write" \/ Owed(p)') => Accounted(p)'
    BY DEF CloseReturns, vars, connVars, callVars, Accounted
  <2>2. \A p \in Queries : pc'[p] = pc[p]
    BY DEF CloseReturns, vars, callVars
  <2>3. \A x \in Conns : /\ server'[x] \subseteq server[x]
                         /\ reader'[x] = "match" => reader[x] = "match" /\ held'[x] = held[x]
    BY DEF IInv, CloseReturns, vars, wireVars, TypeOK
  <2> QED BY <2>1, <2>2, <2>3, AccountsKept DEF IInv
<1>8. DeliveriesOwn'
  BY DEF IInv, CloseReturns, vars, wireVars, callVars, DeliveriesOwn, TypeOK
<1>9. NilsOwn'
  BY DEF IInv, CloseReturns, vars, wireVars, callVars, NilsOwn, TypeOK
<1>10. OwnAnswer'
  BY DEF IInv, CloseReturns, vars, wireVars, callVars, OwnAnswer, TypeOK
<1>11. OpenIsCurrent'
  BY DEF IInv, CloseReturns, vars, connVars, wireVars, OpenIsCurrent, TypeOK
<1> QED
  BY <1>1, <1>2, <1>3, <1>4, <1>5, <1>6, <1>7, <1>8, <1>9, <1>10, <1>11 DEF IInv


----------------------------------------------------------------------------
(* newDotConn: no query is registered. *)
LEMMA InitIInv == Init => IInv
<1> SUFFICES ASSUME Init PROVE IInv
  OBVIOUS
<1>1. TypeOK
  <2>1. 0 \in Ids /\ NoReply \in [id : Ids, of : Queries \cup {NoQuery},
                                  to : Queries \cup {NoQuery}]
    BY DotConnAssumption DEF Ids, NoReply
  <2>2. Empty \in [kind : {"empty", "nil", "reply"}, conn : Conns \cup {NoConn},
                   of : Queries \cup {NoQuery}]
    BY DEF Empty
  <2>3. dialled \in 0..MaxConns
    BY DotConnAssumption DEF Init
  <2> QED BY <2>1, <2>2, <2>3 DEF Init, TypeOK
<1>2. Numbered /\ Pinned
  BY DEF Init, Numbered, Pinned, NoConn
<1>3. PendingIsCurrent /\ OnePlace /\ NoOrphan
  BY DEF Init, PendingIsCurrent, OnePlace, NoOrphan, Free
<1>4. RepliesAccounted /\ DeliveriesOwn /\ NilsOwn
  BY DEF Init, RepliesAccounted, DeliveriesOwn, NilsOwn
<1>5. OwnAnswer /\ OpenIsCurrent
  BY DEF Init, OwnAnswer, OpenIsCurrent, Empty
<1> QED BY <1>1, <1>2, <1>3, <1>4, <1>5 DEF IInv

(* Every step of a query, a reader or close keeps the invariant. *)
LEMMA NextIInv == IInv /\ [Next]_vars => IInv'
<1> SUFFICES ASSUME IInv, [Next]_vars PROVE IInv'
  OBVIOUS
<1>1. ASSUME NEW q \in Queries,
             NeedsDial(q) \/ Refused(q) \/ Discard(q) \/ CtxDone(q)
      PROVE  IInv'
  <2>1. \E l \in {"start", "dial", "done"} : Goto(q, l)
    BY <1>1 DEF NeedsDial, Refused, Discard, CtxDone
  <2>2. pc[q] \in {"start", "dial"}
    BY <1>1 DEF NeedsDial, Refused, Discard, CtxDone
  <2>3. UNCHANGED <<connVars, wireVars, at, id, ch, unsent, forgotten, displaced>>
    BY <1>1 DEF NeedsDial, Refused, Discard, CtxDone
  <2> QED BY <2>1, <2>2, <2>3, UnregisteredIInv
<1>2. ASSUME NEW q \in Queries, WriteFails(q) \/ Deadline(q)
      PROVE  IInv'
  <2>1. pc[q] \in {"write", "wait"} /\ Retire(at[q]) /\ Goto(q, "done")
    BY <1>2 DEF WriteFails, Deadline
  <2>2. UNCHANGED <<closing, dialled, sock, server, reader, held, at, id, ch,
                    forgotten, displaced>>
    BY <1>2 DEF WriteFails, Deadline
  <2> QED BY <2>1, <2>2, GivesUpIInv
<1>3. ASSUME NEW q \in Queries,
             Register(q) \/ Install(q) \/ Write(q) \/ Receive(q) \/ Cancel(q) \/ SendNil(q)
      PROVE  IInv'
  BY <1>3, RegisterIInv, InstallIInv, WriteIInv, ReceiveIInv, CancelIInv, SendNilIInv
<1>4. ASSUME NEW c \in Conns, ReaderReads(c) \/ ReaderStep(c)
      PROVE  IInv'
  BY <1>4, ReaderReadsIInv, ReaderMatchesIInv, ReaderDeliversIInv, ReaderFailsIInv DEF
     ReaderStep
<1>5. ASSUME NEW c \in Conns, CloseSocket(c) \/ Breaks(c)
      PROVE  IInv'
  BY <1>5, CloseSocketIInv, BreaksIInv
<1>6. CASE Close
  BY <1>6, CloseIInv
<1>7. CASE CloseReturns \/ Done \/ UNCHANGED vars
  BY <1>7, IdleIInv DEF Done
<1> QED BY <1>1, <1>2, <1>3, <1>4, <1>5, <1>6, <1>7 DEF Next, QueryStep

----------------------------------------------------------------------------
(* The inductive invariant holds at every step, however many queries share *)
(* the connection and whatever the size of the id space.                   *)
THEOREM Invariance == Spec => []IInv
<1> QED BY InitIInv, NextIInv, PTL DEF Spec

----------------------------------------------------------------------------
(* The active connection has not been given up, and what has not been       *)
(* installed yet has neither a reader nor anybody to close it.              *)
LiveInv ==
    /\ conn # NoConn => /\ ~closed /\ conn \notin retiring
                        /\ sock[conn] \in {"open", "broken"}
    /\ \A c \in Conns : c > dialled => reader[c] = "none" /\ c \notin retiring

(* Giving up a connection that was installed: it is not the active one any  *)
(* more.                                                                    *)
LEMMA RetireLive ==
    ASSUME IInv, LiveInv, NEW c \in Conns, c <= dialled, Retire(c), UNCHANGED <<sock, dialled>>,
           \A x \in Conns : reader[x] = "none" => reader'[x] = "none"
    PROVE  LiveInv'
<1>1. /\ conn' \in {conn, NoConn} /\ (conn' # c \/ conn' = NoConn)
      /\ retiring' = retiring \cup {c} /\ closed' = closed
  BY DEF Retire
<1>2. (conn # NoConn => ~closed /\ conn \notin retiring /\ sock[conn] \in {"open", "broken"})'
  BY <1>1 DEF LiveInv
<1>3. (\A x \in Conns : x > dialled => reader[x] = "none" /\ x \notin retiring)'
  <2> SUFFICES ASSUME NEW x \in Conns, x > dialled
               PROVE  reader'[x] = "none" /\ x \notin retiring'
    OBVIOUS
  <2>1. x # c
    BY DEF Conns, IInv, TypeOK
  <2> QED BY <1>1, <2>1 DEF LiveInv
<1> QED BY <1>2, <1>3 DEF LiveInv

LEMMA LiveStep ==
    ASSUME IInv, LiveInv, [Next]_vars
    PROVE  LiveInv'
<1> USE DEF connVars, wireVars, callVars
<1>1. ASSUME UNCHANGED <<conn, closed, retiring, sock, dialled>>,
             \A c \in Conns : reader[c] = "none" => reader'[c] = "none"
      PROVE  LiveInv'
  BY <1>1 DEF LiveInv
<1>2. ASSUME NEW q \in Queries,
             \/ NeedsDial(q) \/ Refused(q) \/ Discard(q) \/ CtxDone(q)
             \/ Register(q) \/ Write(q) \/ Receive(q) \/ Cancel(q) \/ SendNil(q)
      PROVE  LiveInv'
  BY <1>1, <1>2 DEF NeedsDial, Refused, Discard, CtxDone, Register, Write, Receive, Cancel, SendNil
<1>3. ASSUME NEW q \in Queries, Install(q) PROVE LiveInv'
  <2>1. /\ dialled' = dialled + 1 /\ conn' = dialled' /\ ~closed /\ dialled < MaxConns
        /\ sock' = [sock EXCEPT ![dialled'] = "open"] /\ reader' = [reader EXCEPT ![dialled'] = "read"]
        /\ UNCHANGED <<closed, retiring>>
    BY <1>3 DEF Install, MayInstall
  <2>2. dialled \in Nat /\ dialled' \in Conns /\ dialled' > dialled
    BY <2>1, DotConnAssumption DEF IInv, TypeOK, Conns
  <2>3. sock'[dialled'] = "open" /\ \A c \in Conns : c # dialled' => reader'[c] = reader[c]
    BY <2>1, <2>2 DEF IInv, TypeOK
  <2>4. conn' \notin retiring'
    BY <2>1, <2>2 DEF LiveInv
  <2>5. \A c \in Conns : c > dialled' => c > dialled /\ c # dialled'
    BY <2>1, <2>2 DEF Conns
  <2> QED BY <2>1, <2>3, <2>4, <2>5 DEF LiveInv
<1>4. ASSUME NEW q \in Queries, WriteFails(q) \/ Deadline(q) PROVE LiveInv'
  <2>1. at[q] \in Conns /\ at[q] <= dialled
    BY <1>4 DEF WriteFails, Deadline, IInv, Pinned, Numbered, TypeOK
  <2>2. Retire(at[q]) /\ UNCHANGED <<sock, dialled, reader>>
    BY <1>4 DEF WriteFails, Deadline
  <2> QED BY <2>1, <2>2, RetireLive
<1>5. ASSUME NEW c \in Conns, ReaderReads(c) \/ ReaderMatches(c) \/ ReaderDelivers(c) PROVE LiveInv'
  <2>1. UNCHANGED <<conn, closed, retiring, sock, dialled>>
    BY <1>5 DEF ReaderReads, ReaderMatches, ReaderDelivers
  <2>2. \A x \in Conns : reader[x] = "none" => reader'[x] = "none"
    BY <1>5 DEF ReaderReads, ReaderMatches, ReaderDelivers, IInv, TypeOK
  <2> QED BY <1>1, <2>1, <2>2
<1>6. ASSUME NEW c \in Conns, ReaderFails(c) PROVE LiveInv'
  <2>1. reader[c] = "read" /\ Retire(c) /\ UNCHANGED <<sock, dialled>>
    BY <1>6 DEF ReaderFails
  <2>2. \A x \in Conns : reader[x] = "none" => reader'[x] = "none"
    BY <1>6 DEF ReaderFails, IInv, TypeOK
  <2>3. c <= dialled
    BY <2>1 DEF LiveInv, Conns, IInv, TypeOK
  <2> QED BY <2>1, <2>2, <2>3, RetireLive
<1>7. ASSUME NEW c \in Conns, CloseSocket(c) \/ Breaks(c) PROVE LiveInv'
  <2>1. UNCHANGED <<conn, closed, dialled, reader>> /\ retiring' \subseteq retiring
    BY <1>7 DEF CloseSocket, Breaks
  <2>2. conn # NoConn => sock'[conn] \in {"open", "broken"}
    BY <1>7 DEF CloseSocket, CloseConn, Breaks, LiveInv, IInv, TypeOK, NoConn, Conns
  <2> QED BY <2>1, <2>2 DEF LiveInv
<1>8. CASE Close
  <2>1. conn' = NoConn /\ UNCHANGED <<dialled, reader>> /\ retiring' = retiring \cup ({conn} \ {NoConn})
    BY <1>8 DEF Close
  <2>2. \A c \in Conns : c > dialled => c # conn
    BY DEF IInv, Numbered, TypeOK, Conns, NoConn
  <2> QED BY <2>1, <2>2 DEF LiveInv
<1>9. CASE CloseReturns \/ Done \/ UNCHANGED vars
  BY <1>1, <1>9 DEF CloseReturns, Done, vars
<1> QED BY <1>2, <1>3, <1>4, <1>5, <1>6, <1>7, <1>8, <1>9 DEF Next, QueryStep, ReaderStep

(* The map of waiters, the connections and the waiters belong together: an *)
(* entry is that of a query of the active connection under its own id, no  *)
(* waiter is orphaned by the reader, retire or close, and no connection is *)
(* leaked by concurrent reconnects (dotconn.go:75-80, 191-208, 226-239,    *)
(* 254-302).  None of the entries outlives its connection or close.        *)
THEOREM MapIsConsistent == Spec => []Consistent
<1>1. Init => LiveInv
  BY DotConnAssumption DEF Init, LiveInv
<1>2. IInv /\ LiveInv /\ [Next]_vars => LiveInv'
  BY LiveStep
<1>3. IInv /\ LiveInv => Consistent
  <2>1. IInv /\ LiveInv => NoWaiterLeft
    BY DEF IInv, PendingIsCurrent, LiveInv, NoWaiterLeft
  <2> QED BY <2>1 DEF IInv, Consistent
<1> QED BY <1>1, <1>2, <1>3, Invariance, PTL DEF Spec

(* A query gets a reply only from the connection it was written on, to its *)
(* own question unless its id was given up there with a reply to come, and *)
(* fails only with that connection (dotconn.go:38-41).                     *)
THEOREM AnswersAreOwn == Spec => []OwnAnswer
<1>1. IInv => OwnAnswer
  BY DEF IInv
<1> QED BY <1>1, Invariance, PTL
=============================================================================
