------------------------------ MODULE Assocket ------------------------------
(***************************************************************************)
(* An async server socket (network/assocket.c): a listen socket and a pool *)
(* of async sockets (network/asocket.c), all objects of one network chain, *)
(* the server socket last.  Every callback runs in the chain thread, as in *)
(* the daemons of the repository: OnConnect may ask for a disconnection    *)
(* (the credential check of dispatcher/daemon/serviceserver.c), OnData     *)
(* consumes the full requests of the buffer and sends a response to each.  *)
(* The peers connect, send and close at any time; none raises the          *)
(* exceptional condition of select's third set, so that an accepted        *)
(* connection, set up from the start, never leaves bFinConnect.            *)
(***************************************************************************)
EXTENDS Integers, Sequences, FiniteSets, FiniteSetsExt, ListArray

CONSTANTS
    Conns,      \* the connections peers make, each once
    PoolSizes,  \* the values of jnacp_u32MaxConn
    BufSize,    \* ia_sBuffer
    Kinds,      \* the peers there are: [uid, size], whether the credential is
                \* the service's, and the size of a request; a size above
                \* BufSize never fits
    RespSize,   \* size of a response
    MaxBytes,   \* bound on the bytes the peers send
    NoConn      \* NULL

ASSUME AssocketAssumption ==
    /\ {BufSize, RespSize} \cup PoolSizes \subseteq Nat \ {0}
    /\ Kinds \subseteq [uid : BOOLEAN, size : Nat \ {0}]
    /\ MaxBytes \in Nat
    /\ NoConn \notin Conns

VARIABLES
    maxConn,    \* ia_u32MaxConn, the size of the pool
    pool,       \* ia_pjlAsocket, the free list
    as,         \* the async sockets
    utimer,     \* _asUtimerDisconnect items of each async socket's utimer
    listening,  \* ia_bListening
    chain,      \* the chain thread: [at, i], the object it is at
    fds,        \* the read and write sets, and "listen" in the read set
    conn,       \* the connections, as the kernel sees them
    app         \* what the upper layer was told of each connection

vars == <<maxConn, pool, as, utimer, listening, chain, fds, conn, app>>

Nodes == 0 .. maxConn - 1
NoFds == [read |-> {}, write |-> {}, listen |-> FALSE]

FreshAsocket ==
    [bFree |-> TRUE, sock |-> NoConn, pUser |-> FALSE,
     send |-> <<>>, wait |-> <<>>, end |-> 0]

Init ==
    /\ maxConn \in PoolSizes
    /\ pool = InitListArray(maxConn)
    /\ as = [i \in Nodes |-> FreshAsocket]
    /\ utimer = [i \in Nodes |-> 0]
    /\ listening = FALSE
    /\ chain = [at |-> "pre", i |-> 0]
    /\ fds = NoFds
    /\ conn \in [Conns -> {[st |-> "idle", uid |-> k.uid, size |-> k.size, in |-> 0,
                            sent |-> 0, eof |-> FALSE] : k \in Kinds}]
    /\ app = [c \in Conns |-> [up |-> 0, down |-> 0, got |-> 0, asked |-> 0,
                               told |-> 0, out |-> <<>>]]
-----------------------------------------------------------------------------
(* The peers. *)

PeerConnects(c) ==
    /\ listening
    /\ conn[c].st = "idle"
    /\ conn' = [conn EXCEPT ![c].st = "backlog"]
    /\ UNCHANGED <<pool, as, utimer, listening, chain, fds, app>>

PeerSends(c) ==
    /\ conn[c].st \in {"backlog", "open"}
    /\ ~conn[c].eof
    /\ MapThenSumSet(LAMBDA d : conn[d].sent, Conns) < MaxBytes
    /\ conn' = [conn EXCEPT ![c].in = @ + 1, ![c].sent = @ + 1]
    /\ UNCHANGED <<pool, as, utimer, listening, chain, fds, app>>

PeerCloses(c) ==
    /\ conn[c].st \in {"backlog", "open"}
    /\ ~conn[c].eof
    /\ conn' = [conn EXCEPT ![c].eof = TRUE]
    /\ UNCHANGED <<pool, as, utimer, listening, chain, fds, app>>
-----------------------------------------------------------------------------
(* The chain thread: the pre-select handlers. *)

At(p, i) == chain.at = p /\ chain.i = i
GoTo(p, i) == chain' = [at |-> p, i |-> i]
\* A callback dereferences the NULL of a freed async socket, or the assertion
\* of _postSelectAssocket fails: the process is gone.
Crash == GoTo("crash", 0)

\* _freeAsocket
FreeAsocket(a) ==
    [a EXCEPT !.bFree = TRUE, !.pUser = FALSE, !.end = 0]

\* Mutant: only the wait list is cleared.
ClearWaitOnly(a) == [a EXCEPT !.wait = <<>>]

\* _clearPendingSendOfAsocket empties both lists ...
ClearPending(a) == [a EXCEPT !.send = <<>>, !.wait = <<>>]

\* ... and reports each datum by OnSendData.
ReportPending(a) == Len(a.send) + Len(a.wait)

\* _assOnDisconnect puts the node back when it has told the upper layer.
OnDisconnect(i) == PutNodeListArray(pool, i)

\* _asDisconnect: the pending data is cleared, the socket closed, the upper
\* layer told, and at last the async socket is freed.
AsDisconnect(i, p, q) ==
    LET a == as[i]
        c == a.sock
    IN  IF ~a.pUser
        THEN Crash /\ UNCHANGED <<as, pool, conn, app>>
        ELSE /\ as' = [as EXCEPT ![i] = FreeAsocket([ClearPending(a) EXCEPT !.sock = NoConn])]
             /\ pool' = OnDisconnect(i)
             /\ conn' = [conn EXCEPT ![c].st = "shut", ![c].in = 0]
             /\ app' = [app EXCEPT ![c].down = @ + 1, ![c].told = @ + ReportPending(a)]
             /\ GoTo(p, q)

\* _asUtimerDisconnect, fired by _checkUtimer: the utimer of an async socket
\* comes right before it in the chain, and an item of delay 0 is always due.
UtimerDisconnect(i) ==
    /\ At("pre", 0)
    /\ utimer[i] > 0
    /\ \A j \in 0 .. i - 1 : utimer[j] = 0
    /\ utimer' = [utimer EXCEPT ![i] = @ - 1]
    /\ AsDisconnect(i, "pre", 0)
    /\ UNCHANGED <<listening, fds>>

\* _preSelectAsocket: what waits is sent next, ...
Splice(a) ==
    IF a.sock # NoConn THEN [a EXCEPT !.send = @ \o a.wait, !.wait = <<>>] ELSE a

\* Mutant: the listen socket is polled only until the pool is full.
ListenOnce == ~listening

\* _preSelectAssocket: the listen socket is polled at first, then only while
\* the pool has a free async socket.
Listen == ~listening \/ ~IsEndListArray(pool, maxConn)

\* ... and the socket is polled for reading, and for writing if there is
\* something to send: the pre-select handlers of all the async sockets, and of
\* the server socket.
PreSelect ==
    /\ At("pre", 0)
    /\ \A i \in Nodes : utimer[i] = 0
    /\ as' = [i \in Nodes |-> Splice(as[i])]
    /\ fds' = [read   |-> {c \in Conns : \E i \in Nodes : as'[i].sock = c},
                write  |-> {c \in Conns : \E i \in Nodes : as'[i].sock = c /\ as'[i].send # <<>>},
                listen |-> Listen]
    /\ listening' = TRUE
    /\ GoTo("select", 0)
    /\ UNCHANGED <<pool, utimer, conn, app>>

\* jf_network_select; which sockets are writable is the peers' choice.  It
\* returns with empty sets after BASIC_CHAIN_MAX_WAIT.
Select ==
    /\ chain.at = "select"
    /\ GoTo("write", 0)
    /\ \E w \in SUBSET fds.write :
         fds' = [read   |-> {c \in fds.read : conn[c].in > 0 \/ conn[c].eof},
                 write  |-> w,
                 listen |-> fds.listen /\ \E c \in Conns : conn[c].st = "backlog"]
    /\ UNCHANGED <<pool, as, utimer, listening, conn, app>>
-----------------------------------------------------------------------------
(* The post-select handlers. *)

CanWrite(i) ==
    /\ as[i].sock # NoConn
    /\ as[i].sock \in fds.write
    /\ as[i].send # <<>>

AllSent(d, k) == k = d.left

\* One round of the loop of _asPostSelectSendData: the rest of the first
\* datum is sent and reported, or part of it is (EAGAIN is 0 bytes), or
\* send() fails, which only a closed connection makes it.
SendData(i) ==
    /\ At("write", i)
    /\ CanWrite(i)
    /\ \/ \E k \in 0 .. Head(as[i].send).left :
            LET d == Head(as[i].send)
                c == as[i].sock
                done == AllSent(d, k)
            IN  /\ as' = [as EXCEPT ![i].send =
                            IF done THEN Tail(@) ELSE <<[d EXCEPT !.left = @ - k]>> \o Tail(@)]
                /\ app' = [app EXCEPT ![c].out = @ \o [b \in 1 .. k |-> [c |-> d.c, n |-> d.n]],
                                      ![c].told = IF done THEN @ + 1 ELSE @]
                /\ GoTo(IF done THEN "write" ELSE "read", i)
                /\ UNCHANGED <<pool, conn>>
       \/ conn[as[i].sock].eof /\ AsDisconnect(i, "read", i)
    /\ UNCHANGED <<utimer, listening, fds>>

\* The loop has ended: the rest of _postSelectAsocket.
ReadTurn(i) == At("read", i) \/ (At("write", i) /\ ~CanWrite(i))

NextAsocket(i) ==
    IF i + 1 < maxConn THEN GoTo("write", i + 1) ELSE GoTo("accept", 0)

Readable(i) ==
    as[i].sock # NoConn /\ as[i].sock \in fds.read

\* What _processAsocket leaves in the buffer when OnData consumed `used` bytes
\* and left `rest`: it is moved to the front, and a full buffer is cleared.
KeepInBuffer(rest, used) ==
    IF used = 0 /\ rest = BufSize THEN 0 ELSE rest

\* The space _processAsocket offers to recv.
Room(i) == BufSize - as[i].end

\* _processAsocket: recv takes what there is and fits; the upper layer
\* consumes the full requests and sends a response to each.
ReadData(i) ==
    /\ ReadTurn(i)
    /\ Readable(i)
    /\ conn[as[i].sock].in > 0
    /\ Room(i) > 0
    /\ LET c == as[i].sock
           k == IF conn[c].in < Room(i) THEN conn[c].in ELSE Room(i)
           n == (as[i].end + k) \div conn[c].size
           used == n * conn[c].size
           resp == [r \in 1 .. n |-> [c |-> c, n |-> app[c].asked + r, left |-> RespSize]]
       IN  IF ~as[i].pUser
           THEN Crash /\ UNCHANGED <<as, conn, app>>
           ELSE /\ conn' = [conn EXCEPT ![c].in = @ - k]
                /\ as' = [as EXCEPT ![i].end = KeepInBuffer(as[i].end + k - used, used),
                                    ![i].wait = @ \o resp]
                /\ app' = [app EXCEPT ![c].got = @ + n, ![c].asked = @ + n]
                /\ NextAsocket(i)
    /\ UNCHANGED <<pool, utimer, listening, fds>>

\* recv returns 0: the peer has closed, or there is no room to read into.
ReadFails(i) ==
    /\ ReadTurn(i)
    /\ Readable(i)
    /\ conn[as[i].sock].in = 0 \/ Room(i) = 0
    /\ AsDisconnect(i, "read", i)
    /\ UNCHANGED <<utimer, listening, fds>>

NothingToRead(i) ==
    /\ ReadTurn(i)
    /\ ~Readable(i)
    /\ NextAsocket(i)
    /\ UNCHANGED <<pool, as, utimer, listening, fds, conn, app>>

\* Mutant: a refused peer is disconnected twice.
OnConnectTwice(c) == IF conn[c].uid THEN 0 ELSE 2

\* _onDispatcherServiceServerConnect: the disconnections it asks for.
OnConnect(c) == IF conn[c].uid THEN 0 ELSE 1

\* One round of the loop of _postSelectAssocket: accept, take a node, use the
\* socket for it and tell the upper layer, which disconnects a peer whose
\* user is not the service's.
Accept(c) ==
    /\ chain.at = "accept"
    /\ fds.listen
    /\ conn[c].st = "backlog"
    /\ ~IsEndListArray(pool, maxConn)
    /\ LET i == HeadListArray(pool)
       IN  IF ~as[i].bFree
           THEN Crash /\ UNCHANGED <<pool, as, utimer, conn, app>>
           ELSE /\ pool' = GetNodeListArray(pool)
                /\ as' = [as EXCEPT ![i].bFree = FALSE, ![i].sock = c,
                                    ![i].pUser = TRUE]
                /\ conn' = [conn EXCEPT ![c].st = "open"]
                /\ app' = [app EXCEPT ![c].up = @ + 1]
                /\ utimer' = [utimer EXCEPT ![i] = @ + OnConnect(c)]
                /\ UNCHANGED chain
    /\ UNCHANGED <<listening, fds>>

\* No free async socket: the accepted connection is closed, the loop ends.
AcceptNoRoom(c) ==
    /\ chain.at = "accept"
    /\ fds.listen
    /\ conn[c].st = "backlog"
    /\ IsEndListArray(pool, maxConn)
    /\ conn' = [conn EXCEPT ![c].st = "shut", ![c].in = 0]
    /\ GoTo("pre", 0)
    /\ fds' = NoFds
    /\ UNCHANGED <<pool, as, utimer, listening, app>>

\* accept fails: nobody waits.
AcceptEnds ==
    /\ chain.at = "accept"
    /\ ~fds.listen \/ \A c \in Conns : conn[c].st # "backlog"
    /\ GoTo("pre", 0)
    /\ fds' = NoFds
    /\ UNCHANGED <<pool, as, utimer, listening, conn, app>>
-----------------------------------------------------------------------------
Chain ==
    /\ \/ \E i \in Nodes :
            \/ UtimerDisconnect(i) \/ SendData(i)
            \/ ReadData(i) \/ ReadFails(i) \/ NothingToRead(i)
       \/ PreSelect
       \/ Select
       \/ \E c \in Conns : Accept(c) \/ AcceptNoRoom(c)
       \/ AcceptEnds
    /\ UNCHANGED maxConn

Peer(c) == (PeerConnects(c) \/ PeerSends(c) \/ PeerCloses(c)) /\ UNCHANGED maxConn

Next == Chain \/ \E c \in Conns : Peer(c)

Spec == Init /\ [][Next]_vars

\* The chain thread keeps running; a peer does not stay for ever.
FairSpec ==
    /\ Spec
    /\ WF_vars(Chain)
    /\ \A c \in Conns : WF_vars(PeerCloses(c) /\ UNCHANGED maxConn)
-----------------------------------------------------------------------------
Datum == [c : Conns, n : Nat, left : 1 .. RespSize]

\* The fields have their types, and the buffer its bounds.
TypeOK ==
    /\ maxConn \in PoolSizes
    /\ pool.head \in 0 .. maxConn
    /\ pool.next \in [Nodes -> 0 .. maxConn]
    /\ \A i \in Nodes :
         /\ as[i].bFree \in BOOLEAN /\ as[i].pUser \in BOOLEAN
         /\ as[i].sock \in Conns \cup {NoConn}
         /\ as[i].send \in Seq(Datum) /\ as[i].wait \in Seq(Datum)
         /\ as[i].end \in 0 .. BufSize
    /\ utimer \in [Nodes -> Nat]
    /\ chain.at \in {"pre", "select", "write", "read", "accept", "crash"}
    /\ fds.read \cup fds.write \subseteq Conns

Carrier(c) == {i \in Nodes : as[i].sock = c}
Pending(c) ==
    LET Mine(s) == Len(SelectSeq(s, LAMBDA d : d.c = c))
    IN  MapThenSumSet(LAMBDA i : Mine(as[i].send) + Mine(as[i].wait), Nodes)

\* The free list of the pool ends, holds every free async socket once and no
\* other, an async socket is free exactly when it has no connection, and no two
\* carry the same one.
PoolExact ==
      /\ AcyclicListArray(pool, maxConn)
      /\ NodesOfListArray(pool, maxConn) = {i \in Nodes : as[i].bFree}
      /\ \A i \in Nodes : as[i].bFree <=> as[i].sock = NoConn
      /\ \A c \in Conns : Cardinality(Carrier(c)) = app[c].up - app[c].down
      /\ \A c \in Conns : app[c].up <= 1

\* A peer whose credential the upper layer refuses does no harm, although the
\* refusal only takes effect by a utimer: none of its data is given to the
\* upper layer, and the disconnect queued for it never meets an async socket
\* that was freed or used again before.  No callback is made with a user
\* pointer that was cleared, and the assertion that a node taken from the pool
\* is free holds.
RefusedIsHarmless ==
    /\ chain.at # "crash"
    /\ \A c \in Conns : ~conn[c].uid =>
         app[c].asked = 0 /\ \A i \in Carrier(c) : as[i].end = 0

\* A response is only ever queued on, and sent over, the connection of the
\* request, whole and in the order of the requests, whatever connection used
\* the async socket before.
RightPeer ==
      /\ \A i \in Nodes : \A d \in {as[i].send[k] : k \in DOMAIN as[i].send} \cup
                                   {as[i].wait[k] : k \in DOMAIN as[i].wait} :
           d.c = as[i].sock
      /\ \A c \in Conns : \A k \in DOMAIN app[c].out :
           app[c].out[k] = [c |-> c, n |-> (k - 1) \div RespSize + 1]

\* OnSendData is called exactly once for every datum sendAsocketData took: when
\* it is sent, or when the connection ends.
AnsweredOnce ==
      \A c \in Conns : app[c].asked = app[c].told + Pending(c)

\* No byte of a stream of requests that fit the buffer is lost or read twice,
\* and the buffer is never full when the socket is read: recv into an empty
\* space would pass for a closed connection.
NoByteLost ==
      /\ \A i \in Nodes : Room(i) > 0
      /\ \A c \in Conns : \A i \in Carrier(c) : conn[c].size <= BufSize =>
           conn[c].sent = conn[c].in + as[i].end + app[c].got * conn[c].size

\* The pool of async sockets of a server (assocket.c, asocket.c): free list and
\* connections agree, and every byte and every answer belongs to its peer.
ServerSound == TypeOK /\ PoolExact /\ RightPeer /\ AnsweredOnce /\ NoByteLost

\* A connection whose peer has closed is released, and one that waits in the
\* backlog of a full pool is accepted or turned away.
ServedAndReleased ==
    \A c \in Conns :
      /\ (conn[c].st = "open" /\ conn[c].eof) ~> (conn[c].st = "shut")
      /\ (conn[c].st = "backlog") ~> (conn[c].st # "backlog")
-----------------------------------------------------------------------------
\* Peers with requests of one and of two bytes, with requests of three bytes
\* that never fit a buffer of two, and peers the service refuses.
MCKinds == {[uid |-> TRUE, size |-> 1], [uid |-> TRUE, size |-> 2],
            [uid |-> TRUE, size |-> 3], [uid |-> FALSE, size |-> 1]}
=============================================================================
