------------------------------ MODULE DotConn ------------------------------
(***************************************************************************)
(* One multiplexed DNS-over-TLS connection of the resolver                 *)
(* (internal/resolver/dotconn.go): queries share a connection, each under  *)
(* its own message id; a reader goroutine per connection hands replies to  *)
(* waiters by id; a connection that fails is retired and redialled.        *)
(*                                                                         *)
(* The server may answer in any order, late or never; a connection may     *)
(* break at any time; a caller's context may be cancelled or time out.     *)
(* A query is named by the call that makes it.                             *)
(***************************************************************************)
EXTENDS Naturals

CONSTANTS
    Queries,   \* the calls of query
    NoQuery,   \* no call
    MaxConns,  \* bound: connections that are dialled
    IdSpace    \* number of message ids; 65536 in the code

ASSUME DotConnAssumption ==
    /\ NoQuery \notin Queries
    /\ MaxConns \in Nat
    /\ IdSpace \in Nat \ {0}

Conns == 1..MaxConns
NoConn == 0
Ids == 0..(IdSpace - 1)

VARIABLES
    conn,      \* c.conn
    pending,   \* c.pending: the query that waits under an id, or NoQuery
    nextID,    \* c.nextID
    closed,    \* c.closed
    closing,   \* close: "none", "wait" for the reader, "done"
    dialled,   \* connections installed so far; readerCh is that of the last
    sock,      \* per connection: "none", "open", "broken" or "closed"
    retiring,  \* connections that are given up and still to be closed
    server,    \* per connection: the requests the server has not answered
    reader,    \* per connection: "none", "read", "match", "deliver", "exited"
    held,      \* per connection: the reply its reader holds, and for whom
    pc,        \* per query: "start", "dial", "write", "wait" or "done"
    at,        \* per query: the connection it is pinned to
    id,        \* per query: its message id
    ch,        \* per query: its channel, of capacity one
    unsent,    \* queries whose nil is still to be sent
    forgotten, \* history: <<connection, id>> given up with the reply to come
    displaced  \* history: queries whose entry another query's forget removed

connVars == <<conn, pending, nextID, closed>>
wireVars == <<closing, dialled, sock, retiring, server, reader, held>>
callVars == <<pc, at, id, ch, unsent, forgotten, displaced>>
vars == <<connVars, wireVars, callVars>>

(* What a channel can hold: nothing, nil, or the reply to some query that   *)
(* came from some connection.                                               *)
Empty == [kind |-> "empty", conn |-> NoConn, of |-> NoQuery]
Nil == [Empty EXCEPT !.kind = "nil"]
Reply(c, q) == [kind |-> "reply", conn |-> c, of |-> q]

NoReply == [id |-> 0, of |-> NoQuery, to |-> NoQuery]

TypeOK ==
    /\ conn \in Conns \cup {NoConn}
    /\ pending \in [Ids -> Queries \cup {NoQuery}]
    /\ nextID \in Ids
    /\ closed \in BOOLEAN
    /\ closing \in {"none", "wait", "done"}
    /\ dialled \in 0..MaxConns
    /\ sock \in [Conns -> {"none", "open", "broken", "closed"}]
    /\ retiring \subseteq Conns
    /\ server \in [Conns -> SUBSET (Ids \X Queries)]
    /\ reader \in [Conns -> {"none", "read", "match", "deliver", "exited"}]
    /\ held \in [Conns -> [id : Ids, of : Queries \cup {NoQuery},
                           to : Queries \cup {NoQuery}]]
    /\ pc \in [Queries -> {"start", "dial", "write", "wait", "done"}]
    /\ at \in [Queries -> Conns \cup {NoConn}]
    /\ id \in [Queries -> Ids]
    /\ ch \in [Queries -> [kind : {"empty", "nil", "reply"},
                           conn : Conns \cup {NoConn},
                           of : Queries \cup {NoQuery}]]
    /\ unsent \subseteq Queries
    /\ forgotten \subseteq Conns \X Ids
    /\ displaced \subseteq Queries

(* newDotConn *)
Init ==
    /\ conn = NoConn
    /\ pending = [i \in Ids |-> NoQuery]
    /\ nextID = 0
    /\ closed = FALSE
    /\ closing = "none"
    /\ dialled = 0
    /\ sock = [c \in Conns |-> "none"]
    /\ retiring = {}
    /\ server = [c \in Conns |-> {}]
    /\ reader = [c \in Conns |-> "none"]
    /\ held = [c \in Conns |-> NoReply]
    /\ pc = [q \in Queries |-> "start"]
    /\ at = [q \in Queries |-> NoConn]
    /\ id = [q \in Queries |-> 0]
    /\ ch = [q \in Queries |-> Empty]
    /\ unsent = {}
    /\ forgotten = {}
    /\ displaced = {}

----------------------------------------------------------------------------
(* Pieces of the methods. *)

Goto(q, l) == pc' = [pc EXCEPT ![q] = l]

(* Mutant: the socket is left open. *)
CloseNoConn(c) == UNCHANGED sock

CloseConn(c) == sock' = [sock EXCEPT ![c] = "closed"]

(* The queries registered on connection c. *)
WaitersOf(c) == {q \in Queries : at[q] = c /\ \E i \in Ids : pending[i] = q}

(* Queries leave the map; nil reaches them after c.mu has been released. *)
Fail(failed) ==
    /\ pending' = [i \in Ids |-> IF pending[i] \in failed THEN NoQuery ELSE pending[i]]
    /\ unsent' = unsent \cup failed

(* retire, under c.mu: the queries of c are failed and c is no longer the   *)
(* active connection, if it still was.  Closing it follows.                 *)
Retire(c) ==
    /\ conn' = IF conn = c THEN NoConn ELSE conn
    /\ Fail(WaitersOf(c))
    /\ retiring' = retiring \cup {c}
    /\ UNCHANGED <<nextID, closed>>

Free(i) == pending[i] = NoQuery

(* Mutant: the id alone decides who gets a reply. *)
MatchById(c, i) == ~Free(i)

(* The waiter under id i wrote its query on connection c. *)
Match(c, i) == ~Free(i) /\ at[pending[i]] = c

(* The query that has q's id on q's connection by now, if it is another one. *)
Displaced(q) == IF Match(at[q], id[q]) THEN {pending[id[q]]} \ {q} ELSE {}

(* forget: the entry under q's id is deleted if it belongs to q's           *)
(* connection.                                                              *)
Forget(q) ==
    /\ pending' = IF Match(at[q], id[q]) THEN [pending EXCEPT ![id[q]] = NoQuery]
                  ELSE pending
    /\ displaced' = displaced \cup Displaced(q)

(* How far nextID counts, wrapping around, until it reaches i. *)
Distance(i) == IF i > nextID THEN i - nextID ELSE i + IdSpace - nextID

(* pickID stops at the first id that is not in use. *)
Picked(i) == Free(i) /\ \A j \in Ids : Free(j) => Distance(i) <= Distance(j)

(* Mutant: the id is taken before counting, from a counter that is wider. *)
CountWide(i) == nextID' = i + 1

CountTo(i) == nextID' = i

----------------------------------------------------------------------------
(* query: register and reconnect *)

(* A live connection and a free id: the query is pinned to them. *)
Register(q) ==
    /\ pc[q] = "start" /\ ~closed /\ conn # NoConn
    /\ \E i \in Ids : /\ Picked(i)
                      /\ CountTo(i)
                      /\ pending' = [pending EXCEPT ![i] = q]
                      /\ id' = [id EXCEPT ![q] = i]
    /\ at' = [at EXCEPT ![q] = conn]
    /\ Goto(q, "write")
    /\ UNCHANGED <<conn, closed, wireVars, ch, unsent, forgotten, displaced>>

(* No connection: reconnect dials, holding no lock. *)
NeedsDial(q) ==
    /\ pc[q] = "start" /\ ~closed /\ conn = NoConn
    /\ Goto(q, "dial")
    /\ UNCHANGED <<connVars, wireVars, at, id, ch, unsent, forgotten,
                   displaced>>

(* query returns an error: the upstream is closed, every id is taken (the   *)
(* counter is then back where it was), or the dial fails.                   *)
Refused(q) ==
    /\ \/ pc[q] = "start" /\ closed
       \/ pc[q] = "start" /\ conn # NoConn /\ \A i \in Ids : ~Free(i)
       \/ pc[q] = "dial"
    /\ Goto(q, "done")
    /\ UNCHANGED <<connVars, wireVars, at, id, ch, unsent, forgotten,
                   displaced>>

(* Mutant: the second check of the double-checked lock is missing. *)
MayInstallAny == ~closed /\ dialled < MaxConns

MayInstall == ~closed /\ conn = NoConn /\ dialled < MaxConns

(* The dialled connection becomes the active one and gets a reader; the     *)
(* query starts over, as the connection may already have died again.        *)
Install(q) ==
    /\ pc[q] = "dial"
    /\ MayInstall
    /\ dialled' = dialled + 1
    /\ conn' = dialled'
    /\ sock' = [sock EXCEPT ![dialled'] = "open"]
    /\ reader' = [reader EXCEPT ![dialled'] = "read"]
    /\ Goto(q, "start")
    /\ UNCHANGED <<pending, nextID, closed, closing, retiring, server, held, at, id, ch,
                   unsent, forgotten, displaced>>

(* Another caller was faster: the new connection is closed again. *)
Discard(q) ==
    /\ pc[q] = "dial" /\ ~closed /\ conn # NoConn
    /\ Goto(q, "start")
    /\ UNCHANGED <<connVars, wireVars, at, id, ch, unsent, forgotten,
                   displaced>>

(* query: the request and the wait for its reply *)

(* The frame is handed to the connection; a broken one loses it. *)
Write(q) ==
    /\ pc[q] = "write" /\ sock[at[q]] # "closed"
    /\ server' = IF sock[at[q]] = "open"
                 THEN [server EXCEPT ![at[q]] = @ \cup {<<id[q], q>>}] ELSE server
    /\ Goto(q, "wait")
    /\ UNCHANGED <<connVars, closing, dialled, sock, retiring, reader, held, at, id,
                   ch, unsent, forgotten, displaced>>

(* dropOnError *)
WriteFails(q) ==
    /\ pc[q] = "write" /\ sock[at[q]] # "open"
    /\ Retire(at[q])
    /\ Goto(q, "done")
    /\ UNCHANGED <<closing, dialled, sock, server, reader, held, at, id, ch,
                   forgotten, displaced>>

(* The reply, or the nil of a retired connection, is received. *)
Receive(q) ==
    /\ pc[q] = "wait" /\ ch[q] # Empty
    /\ Goto(q, "done")
    /\ UNCHANGED <<connVars, wireVars, at, id, ch, unsent, forgotten,
                   displaced>>

(* The context is done before the query is registered. *)
CtxDone(q) ==
    /\ pc[q] \in {"start", "dial"}
    /\ Goto(q, "done")
    /\ UNCHANGED <<connVars, wireVars, at, id, ch, unsent, forgotten,
                   displaced>>

(* The deadline passes: a connection that stayed silent is a black hole. *)
Deadline(q) ==
    /\ pc[q] = "wait"
    /\ Retire(at[q])
    /\ Goto(q, "done")
    /\ UNCHANGED <<closing, dialled, sock, server, reader, held, at, id, ch,
                   forgotten, displaced>>

(* The server, or the reader of its connection, still has the reply to q. *)
Owed(q) ==
    \/ <<id[q], q>> \in server[at[q]]
    \/ reader[at[q]] = "match" /\ held[at[q]].of = q

(* The caller is cancelled: another upstream has answered. *)
Cancel(q) ==
    /\ pc[q] = "wait"
    /\ Forget(q)
    /\ Goto(q, "done")
    /\ forgotten' = forgotten \cup
         (IF Owed(q) \/ Displaced(q) # {} THEN {<<at[q], id[q]>>} ELSE {})
    /\ UNCHANGED <<conn, nextID, closed, wireVars, at, id, ch, unsent>>

(* Mutant: a failed waiter is told nothing. *)
Drop(q, signal) == UNCHANGED ch

(* A send with a default branch: a full channel is left as it is. *)
Send(q, signal) == ch' = [ch EXCEPT ![q] = IF @ = Empty THEN signal ELSE @]

(* retire and close close the connection, then send nil, outside the lock. *)
CloseSocket(c) ==
    /\ c \in retiring
    /\ retiring' = retiring \ {c}
    /\ CloseConn(c)
    /\ UNCHANGED <<connVars, closing, dialled, server, reader, held, callVars>>

SendNil(q) ==
    /\ q \in unsent /\ at[q] \notin retiring
    /\ unsent' = unsent \ {q}
    /\ Send(q, Nil)
    /\ UNCHANGED <<connVars, wireVars, pc, at, id, forgotten, displaced>>

----------------------------------------------------------------------------
(* reader *)

(* A reply has been read from the connection, perhaps the last before EOF. *)
ReaderReads(c) ==
    /\ reader[c] = "read" /\ sock[c] \in {"open", "broken"}
    /\ \E r \in server[c] :
          /\ server' = [server EXCEPT ![c] = @ \ {r}]
          /\ held' = [held EXCEPT ![c] = [NoReply EXCEPT !.id = r[1], !.of = r[2]]]
    /\ reader' = [reader EXCEPT ![c] = "match"]
    /\ UNCHANGED <<connVars, closing, dialled, sock, retiring, callVars>>

(* The waiter leaves the map, or the reply is stray and dropped: since it   *)
(* was read the connection may have been retired and its ids reused.        *)
ReaderMatches(c) ==
    LET i == held[c].id
    IN  /\ reader[c] = "match"
        /\ IF Match(c, i)
             THEN /\ held' = [held EXCEPT ![c].to = pending[i]]
                  /\ pending' = [pending EXCEPT ![i] = NoQuery]
                  /\ reader' = [reader EXCEPT ![c] = "deliver"]
             ELSE /\ reader' = [reader EXCEPT ![c] = "read"]
                  /\ UNCHANGED <<held, pending>>
        /\ UNCHANGED <<conn, nextID, closed, closing, dialled, sock, retiring, server,
                       callVars>>

(* The reply is sent to the waiter outside the lock. *)
ReaderDelivers(c) ==
    /\ reader[c] = "deliver"
    /\ Send(held[c].to, Reply(c, held[c].of))
    /\ reader' = [reader EXCEPT ![c] = "read"]
    /\ UNCHANGED <<connVars, closing, dialled, sock, retiring, server, held, pc, at, id,
                   unsent, forgotten, displaced>>

(* A read error, also because the connection was closed: terminate. *)
ReaderFails(c) ==
    /\ reader[c] = "read" /\ sock[c] # "open"
    /\ Retire(c)
    /\ reader' = [reader EXCEPT ![c] = "exited"]
    /\ UNCHANGED <<closing, dialled, sock, server, held, pc, at, id, ch, forgotten,
                   displaced>>

----------------------------------------------------------------------------
(* close: no query is served any more; the last reader is waited for. *)
Close ==
    /\ ~closed
    /\ closed' = TRUE
    /\ conn' = NoConn
    /\ Fail({q \in Queries : \E i \in Ids : pending[i] = q})
    /\ retiring' = retiring \cup ({conn} \ {NoConn})
    /\ closing' = "wait"
    /\ UNCHANGED <<nextID, dialled, sock, server, reader, held, pc, at, id, ch,
                   forgotten, displaced>>

CloseReturns ==
    /\ closing = "wait"
    /\ dialled # 0 => reader[dialled] = "exited" /\ dialled \notin retiring
    /\ closing' = "done"
    /\ UNCHANGED <<connVars, dialled, sock, retiring, server, reader, held, callVars>>

(* The network or the server breaks an open connection. *)
Breaks(c) ==
    /\ sock[c] = "open"
    /\ sock' = [sock EXCEPT ![c] = "broken"]
    /\ UNCHANGED <<connVars, closing, dialled, retiring, server, reader, held, callVars>>

----------------------------------------------------------------------------
(* What a query does by itself, while its context is live. *)
QueryStep(q) ==
    \/ Register(q) \/ NeedsDial(q) \/ Refused(q) \/ Install(q) \/ Discard(q)
    \/ Write(q) \/ WriteFails(q) \/ Receive(q)

(* A reader that holds a reply, or whose connection fails, goes on. *)
ReaderStep(c) == ReaderMatches(c) \/ ReaderDelivers(c) \/ ReaderFails(c)

Done ==
    /\ closing = "done" /\ \A q \in Queries : pc[q] = "done"
    /\ UNCHANGED vars

Next ==
    \/ \E q \in Queries : \/ QueryStep(q) \/ SendNil(q)
                          \/ CtxDone(q) \/ Deadline(q) \/ Cancel(q)
    \/ \E c \in Conns : ReaderReads(c) \/ ReaderStep(c) \/ CloseSocket(c) \/ Breaks(c)
    \/ Close \/ CloseReturns \/ Done

Spec == Init /\ [][Next]_vars

(* Goroutines are scheduled.  Nothing is assumed of the server, of the      *)
(* network or of the callers' contexts: a reply may never come.             *)
Fairness ==
    /\ \A q \in Queries : WF_vars(QueryStep(q)) /\ WF_vars(SendNil(q))
    /\ \A c \in Conns : WF_vars(ReaderStep(c)) /\ WF_vars(CloseSocket(c))
    /\ WF_vars(CloseReturns)

LiveSpec == Spec /\ Fairness

----------------------------------------------------------------------------
(* Only the active connection has waiters, each under its own id: what a    *)
(* stale reader or a late retire finds in the map is never its own          *)
(* (dotconn.go:38-45, 254-258).                                             *)
PendingIsCurrent ==
    \A i \in Ids : ~Free(i) =>
        /\ at[pending[i]] = conn /\ conn # NoConn
        /\ id[pending[i]] = i
        /\ pc[pending[i]] \in {"write", "wait"}

(* The query is in the map, or its reply or its nil is on the way. *)
Served(q) ==
    \/ pending[id[q]] = q
    \/ ch[q] # Empty
    \/ q \in unsent
    \/ \E c \in Conns : reader[c] = "deliver" /\ held[c].to = q

(* No waiter is orphaned, whichever of the reader, retire and close took it *)
(* from the map (dotconn.go:75-80, 226-239, 263-280), except by a cancelled *)
(* query that had its id before it on the same connection.                  *)
NoOrphan ==
    \A q \in Queries : pc[q] \in {"write", "wait"} => Served(q) \/ q \in displaced

(* A query is answered from the connection it was written on, and fails     *)
(* only with that connection, although ids are reused (dotconn.go:38-41).   *)
(* The reply is the one to its own question, unless its id had been given   *)
(* up on the same connection with its reply still to come.                  *)
OwnAnswer ==
    \A q \in Queries :
        /\ ch[q].kind = "reply" =>
              /\ ch[q].conn = at[q]
              /\ ch[q].of = q \/ <<at[q], id[q]>> \in forgotten
        /\ ch[q].kind = "nil" => sock[at[q]] = "closed"

(* Concurrent reconnects leak nothing: a connection that has not been       *)
(* closed has its reader and is the active one, or is about to be closed    *)
(* (dotconn.go:191-208).                                                    *)
OpenIsCurrent ==
    \A c \in Conns : sock[c] \in {"open", "broken"} =>
        \/ c = conn /\ reader[c] \in {"read", "match", "deliver"}
        \/ c \in retiring

(* No query stays in the map when its connection has been given up or close *)
(* has begun: by NoOrphan it has been told, or is about to be, and no later *)
(* reconnect puts one there (dotconn.go:254-302).                           *)
NoWaiterLeft ==
    \A i \in Ids : ~Free(i) =>
        /\ ~closed
        /\ at[pending[i]] \notin retiring
        /\ sock[at[pending[i]]] \in {"open", "broken"}

(* The map of waiters, the connections and the waiters themselves belong    *)
(* together at every step.                                                  *)
Consistent == TypeOK /\ PendingIsCurrent /\ NoOrphan /\ OpenIsCurrent /\ NoWaiterLeft

(* A query on a connection that is gone returns, without its deadline       *)
(* (dotconn.go:212-215), unless another query's forget has displaced it.    *)
ReleasedWithConnection ==
    \A q \in Queries :
        pc[q] = "wait" /\ sock[at[q]] # "open" ~> pc[q] = "done" \/ q \in displaced

(* close returns, and every query with it (dotconn.go:280-283), unless      *)
(* another query's forget has displaced it.                                 *)
CloseEnds ==
    closed ~> closing = "done" /\ \A q \in Queries : pc[q] = "done" \/ q \in displaced
=============================================================================
