------------------------------ MODULE WebClient ------------------------------
(***************************************************************************)
(* The web client (webclient/webclient.c, dataobjectpool.c,                *)
(* webclientrequest.c) on the async client socket it owns                  *)
(* (network/acsocket.c) and the connecting side of the async socket        *)
(* (network/asocket.c).                                                    *)
(*                                                                         *)
(* Callers put requests in a queue; the chain thread takes them to the     *)
(* data object of their server, whose state machine connects, sends one    *)
(* request at a time and waits for its answer.  All callbacks run in the   *)
(* chain thread, so a chain step takes the state b of the client, a record,*)
(* through the callbacks in their order and ends with Commit.              *)
(*                                                                         *)
(* Abstracted: a response arrives whole and parses (HttpParser models the  *)
(* parser), memory never runs out, and a timer of seconds fires in any     *)
(* later pass, earlier ones first.                                         *)
(***************************************************************************)
EXTENDS Naturals, Sequences, ListArray

CONSTANTS
    Servers, NoServer,
    Reqs,           \* the calls of jf_webclient_sendHttpPacket ...
    Deletes,        \* ... and of jf_webclient_deleteRequest
    Target,         \* the server of each call
    PoolSize,       \* jwcp_u32PoolSize, the async sockets of the client
    NoObject, NoConn,
    MayRefuse,      \* the servers that may refuse a connection
    MaxFaults       \* bound: closed connections, exceptional conditions and sockets
                    \* that cannot be created

VARIABLES
    call,           \* the calling threads: [at, wakeup]
    wq,             \* iw_jqReqeustQueue
    obj,            \* iwdp_jhDataobject: the data object of each server
    timer,          \* iwdp_pjnuUtimer: the items of each data object
    pool,           \* ia_pjlAsocket, the free nodes
    as,             \* ia_pjnaAsockets
    wake,           \* the chain's wakeup pipe holds something
    chain,          \* where the chain thread is: [at, i]
    ready,          \* what select reported of each async socket
    net,            \* each async socket's connection, at the kernel and the server
    faults,
    event           \* the events passed up for each request, in order

vars == <<call, wq, obj, timer, pool, as, wake, chain, ready, net, faults, event>>

Nodes == 0 .. PoolSize - 1
Calls == Reqs \cup Deletes

WEBCLIENT_CONNECT_RETRY_COUNT == 3

\* The transition table of _createWebclientDataobject.
Row(from, e, guard, action, to) ==
    [from |-> from, event |-> e, guard |-> guard, action |-> action, to |-> to]

TransitionTable ==
    << Row("INITIAL",    "SEND_DATA",    "always", "StartConn",    "CONNECTING"),
       Row("CONNECTING", "CONNECTED",    "always", "SendData",     "OPERATIVE"),
       Row("OPERATIVE",  "DATA_SENT",    "empty",  "none",         "IDLE"),
       Row("OPERATIVE",  "DATA_SENT",    "queued", "DataSent",     "OPERATIVE"),
       Row("OPERATIVE",  "DISCONNECTED", "always", "Disconnected", "INITIAL"),
       Row("IDLE",       "DISCONNECTED", "always", "Disconnected", "INITIAL"),
       Row("IDLE",       "SEND_DATA",    "queued", "SendData",     "OPERATIVE") >>

HSM == INSTANCE Hsm WITH
          Tables <- [top |-> TransitionTable], InitialState <- [top |-> "INITIAL"],
          Callbacks <- {"IDLE", "INITIAL"}, TopState <- "top", NoState <- "none",
          Events <- {}, MaxEvents <- 0, cur <- 0, log <- 0, seen <- 0

\* _createWebclientDataobject: a new object, in its initial state without having
\* entered it, so with no timer.
CreateDataobject ==
    [st |-> "INITIAL", pipe |-> "UNKNOWN", backoff |-> 0, q |-> <<>>, conn |-> NoConn]

FreshAsocket ==
    [free |-> TRUE, user |-> NoServer, sock |-> FALSE, fin |-> FALSE,
     wait |-> <<>>, send |-> <<>>, ut |-> <<>>]

NoNet == [up |-> "none", srv |-> <<>>, in |-> <<>>, err |-> FALSE]

\* jf_network_createAcsocket: every async socket is in the pool.
CreateAcsocket ==
    /\ pool = InitListArray(PoolSize)
    /\ as = [i \in Nodes |-> FreshAsocket]

\* createWebclientDataobjectPool
CreateDataobjectPool ==
    /\ CreateAcsocket
    /\ obj = [s \in Servers |-> NoObject]
    /\ timer = [s \in Servers |-> {}]

\* jf_webclient_create
Create ==
    /\ wq = <<>>
    /\ CreateDataobjectPool

Init ==
    /\ Create
    /\ call = [c \in Calls |-> [at |-> "new", wakeup |-> FALSE]]
    /\ wake = FALSE
    /\ chain = [at |-> "web", i |-> 0]
    /\ ready = [i \in Nodes |-> {}]
    /\ net = [i \in Nodes |-> NoNet]
    /\ faults = 0
    /\ event = [r \in Reqs |-> <<>>]

\* createWebclientRequestSendData, createWebclientRequestDeleteRequest
CreateRequest(c) ==
    [op |-> IF c \in Reqs THEN "SEND_DATA" ELSE "DELETE_REQUEST", call |-> c]

(* The calling threads ****************************************************)

\* createWebclientRequest..., then _isWakeupChainRequired under the lock.
CheckWakeup(c) ==
    /\ call[c].at = "new"
    /\ call' = [call EXCEPT ![c] = [at |-> "checked", wakeup |-> wq = <<>>]]
    /\ UNCHANGED <<wq, obj, timer, pool, as, wake, chain, ready, net, faults, event>>

\* _enqueueWebclientRequestToQueue, under the lock taken again.
Enqueue(c) ==
    /\ call[c].at = "checked"
    /\ wq' = Append(wq, CreateRequest(c))
    /\ call' = [call EXCEPT ![c].at = IF call[c].wakeup THEN "wakes" ELSE "done"]
    /\ UNCHANGED <<obj, timer, pool, as, wake, chain, ready, net, faults, event>>

WakeupChain(c) ==
    /\ call[c].at = "wakes"
    /\ call' = [call EXCEPT ![c].at = "done"]
    /\ wake' = TRUE
    /\ UNCHANGED <<wq, obj, timer, pool, as, chain, ready, net, faults, event>>

(* The callbacks of the chain thread, as functions of its state ***********)

B == [obj |-> obj, timer |-> timer, pool |-> pool, as |-> as, wake |-> wake,
      event |-> event]

Commit(b) ==
    /\ obj' = b.obj /\ timer' = b.timer /\ pool' = b.pool /\ as' = b.as
    /\ wake' = b.wake /\ event' = b.event

\* jf_network_addUtimerItem wakes the chain.
AddUtimerItem(b, s, k) == [b EXCEPT !.timer[s] = @ \cup {k}, !.wake = TRUE]

\* connectAsocketTo
ConnectAsocketTo(b, i, s) ==
    IF ~b.as[i].free THEN b                                 \* ASOCKET_IN_USE
    ELSE [b EXCEPT !.as[i].free = FALSE, !.as[i].user = s,
                   !.as[i].ut = Append(@, "connect"), !.wake = TRUE]

\* jf_network_connectAcsocketTo; the pool may be empty.
StartConn(b, s) ==
    IF IsEndListArray(b.pool, PoolSize) THEN b              \* SOCKET_POOL_EMPTY
    ELSE ConnectAsocketTo([b EXCEPT !.pool = GetNodeListArray(@)],
                          HeadListArray(b.pool), s)

\* sendAsocketData through _sendWebclientRequestData.
SendRequestData(b, s) ==
    LET o == b.obj[s]
    IN  IF o.q = <<>> \/ b.as[o.conn].free THEN b
        ELSE [b EXCEPT !.as[o.conn].wait = Append(@, Head(o.q)), !.wake = TRUE]

\* disconnectAsocket
DisconnectAsocket(b, i) ==
    IF b.as[i].free THEN b                                  \* ALREADY_CLOSED
    ELSE [b EXCEPT !.as[i].ut = Append(@, "disconnect"), !.wake = TRUE]

\* _fnEventActionDataSent
DataSent(b, s) ==
    IF b.obj[s].pipe = "NO" THEN DisconnectAsocket(b, b.obj[s].conn)
    ELSE SendRequestData([b EXCEPT !.obj[s].pipe = "YES"], s)

\* _fnEventActionDisconnected
Disconnected(b, s) ==
    LET c == [b EXCEPT !.obj[s].conn = NoConn]
    IN  IF c.obj[s].q = <<>> THEN c
        ELSE AddUtimerItem([c EXCEPT !.obj[s].pipe = "NO"], s, "retry")

EventAction(a, b, s) ==
    CASE a = "StartConn"    -> StartConn(b, s)
      [] a = "SendData"     -> SendRequestData(b, s)
      [] a = "DataSent"     -> DataSent(b, s)
      [] a = "Disconnected" -> Disconnected(b, s)
      [] OTHER              -> b

\* Mutant: the utimer items of the state survive it.
OnExitKeepsTimers(b, s) == b

\* _onExitWds...State remove every item of the object ...
OnExit(b, s) == IF b.obj[s].st \in {"IDLE", "INITIAL"} THEN [b EXCEPT !.timer[s] = {}] ELSE b

\* ... and _onEntryWds...State add one.
OnEntry(b, s) ==
    CASE b.obj[s].st = "IDLE"    -> AddUtimerItem(b, s, "idle")
      [] b.obj[s].st = "INITIAL" -> AddUtimerItem(b, s, "free")
      [] OTHER                   -> b

\* jf_hsm_processEvent on the object: the action, the exit callback, the new state
\* and the entry callback, whatever the action returns.
Transit(b, s, row) ==
    LET c == EventAction(row.action, b, s)
    IN  IF HSM!Leaves(row) THEN OnEntry([OnExit(c, s) EXCEPT !.obj[s].st = row.to], s)
        ELSE c

ProcessEvent(b, s, e) ==
    LET holds == {"always", IF b.obj[s].q = <<>> THEN "empty" ELSE "queued"}
        rows == HSM!Chosen(TransitionTable, b.obj[s].st, e, holds)
    IN  IF rows = {} THEN b ELSE Transit(b, s, TransitionTable[CHOOSE i \in rows : TRUE])

\* HTTP_REQ_DELETED for every request of the object's queue.
AbortRequests(b, s) ==
    [b EXCEPT !.event = [r \in Reqs |->
        IF \E n \in DOMAIN b.obj[s].q : b.obj[s].q[n] = r THEN Append(@[r], "deleted")
                                                         ELSE @[r]]]

\* jf_hashtree_deleteEntry and _destroyWebclientDataobject.
DestroyDataobject(b, s) ==
    [AbortRequests(b, s) EXCEPT !.obj[s] = NoObject, !.timer[s] = {}]

(* The chain thread *******************************************************)

GoTo(p, i) == chain' = [at |-> p, i |-> i]

\* _processWebclientRequestSendData
ProcessSend(r) ==
    LET s == Target[r]
        b == IF obj[s] = NoObject THEN [B EXCEPT !.obj[s] = CreateDataobject] ELSE B
    IN  Commit(ProcessEvent([b EXCEPT !.obj[s].q = Append(@, r)], s, "SEND_DATA"))

\* _processWebclientRequestDeleteRequest
ProcessDelete(d) ==
    LET s == Target[d]
    IN  Commit(IF obj[s] = NoObject THEN B
               ELSE [AbortRequests(B, s) EXCEPT !.obj[s].q = <<>>])

\* processWebclientRequest
ProcessRequest(w) ==
    IF w.op = "SEND_DATA" THEN ProcessSend(w.call) ELSE ProcessDelete(w.call)

\* _preWebclientProcess
PreWebclient ==
    /\ chain.at = "web"
    /\ IF wq = <<>> THEN /\ GoTo("timer", 0)
                         /\ UNCHANGED <<wq, obj, timer, pool, as, wake, event>>
       ELSE /\ wq' = Tail(wq)
            /\ ProcessRequest(Head(wq))
            /\ UNCHANGED chain
    /\ UNCHANGED <<call, ready, net, faults>>

NextBackoff(n) == IF n = 0 THEN 1 ELSE 2 * n

\* _webclientDataobjectRetryConnect
RetryConnect(s) ==
    LET b == [B EXCEPT !.obj[s].backoff = NextBackoff(@), !.timer[s] = @ \ {"retry"}]
    IN  IF b.obj[s].backoff >= 2 ^ WEBCLIENT_CONNECT_RETRY_COUNT
        THEN DestroyDataobject(b, s)
        ELSE ProcessEvent(b, s, "SEND_DATA")

\* _webclientDataOjectFreeTimerHandler
FreeTimer(s) ==
    LET b == [B EXCEPT !.timer[s] = @ \ {"free"}]
    IN  IF obj[s].q = <<>> THEN DestroyDataobject(b, s) ELSE b

\* _webclientDataobjectIdleTimerHandler
IdleTimer(s) ==
    LET b == [B EXCEPT !.timer[s] = @ \ {"idle"}]
    IN  IF obj[s].q = <<>> THEN DisconnectAsocket(b, obj[s].conn) ELSE b

\* _checkUtimer of the data objects' utimer.  The retry of at most 4 seconds is
\* never overtaken by the 30 seconds of the free timer added with it.
FireTimer(s, k) ==
    /\ chain.at = "timer"
    /\ k \in timer[s]
    /\ k = "free" => "retry" \notin timer[s]
    /\ Commit(CASE k = "retry" -> RetryConnect(s)
                [] k = "free"  -> FreeTimer(s)
                [] k = "idle"  -> IdleTimer(s))
    /\ UNCHANGED <<call, wq, chain, ready, net, faults>>

TimersDone ==
    /\ chain.at = "timer"
    /\ GoTo("pre", 0)
    /\ UNCHANGED <<call, wq, obj, timer, pool, as, wake, ready, net, faults, event>>

\* _clearPendingSendOfAsocket, _acsOnDisconnect (the node goes back first, then the
\* web client is told), _freeAsocket.
AcsOnDisconnect(b, i) ==
    ProcessEvent([b EXCEPT !.pool = PutNodeListArray(@, i)], b.as[i].user, "DISCONNECTED")

AsDisconnect(b, i) ==
    LET c == AcsOnDisconnect([b EXCEPT !.as[i].wait = <<>>, !.as[i].send = <<>>,
                                       !.as[i].sock = FALSE], i)
    IN  [c EXCEPT !.as[i] = [FreshAsocket EXCEPT !.ut = c.as[i].ut]]

\* _asConnectTo.  A connect that fails at once is like one refused at once.  When
\* there is no socket, _asUtimerConnect returns an error that nobody looks at.
AsConnectTo(b, i) ==
    \/ /\ Commit([b EXCEPT !.as[i].sock = TRUE])
       /\ net' = [net EXCEPT ![i] = [NoNet EXCEPT !.up = "connecting"]]
       /\ UNCHANGED faults
    \/ /\ faults < MaxFaults /\ faults' = faults + 1
       /\ Commit(b)
       /\ UNCHANGED net

\* An async socket's utimer and then its _preSelectAsocket: the connection is begun
\* or ended, and what waits is moved to the send list of a connection that is up.
PreSelect ==
    LET i == chain.i
        a == as[i]
    IN  /\ chain.at = "pre"
        /\ IF i \notin Nodes
           THEN GoTo("select", 0) /\ UNCHANGED <<obj, timer, pool, as, wake, net, faults, event>>
           ELSE IF a.ut = <<>>
           THEN /\ GoTo("pre", i + 1)
                /\ as' = IF a.fin THEN [as EXCEPT ![i].send = a.send \o a.wait, ![i].wait = <<>>]
                                  ELSE as
                /\ UNCHANGED <<obj, timer, pool, wake, net, faults, event>>
           ELSE /\ UNCHANGED chain
                /\ LET b == [B EXCEPT !.as[i].ut = Tail(@)]
                   IN  IF Head(a.ut) = "connect" THEN AsConnectTo(b, i)
                       ELSE /\ Commit(AsDisconnect(b, i))
                            /\ net' = [net EXCEPT ![i] = NoNet]
                            /\ UNCHANGED faults
        /\ UNCHANGED <<call, wq, ready>>

\* What select finds of an async socket: a connection is writable once it is
\* decided, refused ones too.
Ready(i) ==
    (IF as[i].sock /\ net[i].up # "connecting" /\ (as[i].fin => as[i].send # <<>>)
        THEN {"write"} ELSE {})
    \cup
    (IF as[i].sock /\ as[i].fin /\ (net[i].in # <<>> \/ net[i].up \in {"refused", "closed"})
        THEN {"read"} ELSE {})
    \cup
    (IF as[i].sock /\ net[i].err THEN {"error"} ELSE {})

Select ==
    /\ chain.at = "select"
    /\ \/ wake
       \/ \E s \in Servers : timer[s] # {}
       \/ \E i \in Nodes : Ready(i) # {}
    /\ wake' = FALSE
    /\ ready' = [i \in Nodes |-> Ready(i)]
    /\ GoTo("post", 0)
    /\ UNCHANGED <<call, wq, obj, timer, pool, as, net, faults, event>>

\* _asPostSelectSendData: the send list goes to the server, or sending fails; a
\* closed connection may still take it.
SendList(i, ok) ==
    IF ok THEN /\ as' = [as EXCEPT ![i].send = <<>>]
               /\ net' = IF net[i].up = "open" THEN [net EXCEPT ![i].srv = @ \o as[i].send] ELSE net
               /\ UNCHANGED <<obj, timer, pool, wake, event>>
          ELSE /\ net[i].up \in {"refused", "closed"}
               /\ Commit(AsDisconnect(B, i))
               /\ net' = [net EXCEPT ![i] = NoNet]

PostWrite(i) ==
    /\ chain.at = "post" /\ chain.i = i /\ i \in Nodes
    /\ as[i].fin /\ "write" \in ready[i]
    /\ ready' = [ready EXCEPT ![i] = @ \ {"write"}]
    /\ \E ok \in BOOLEAN : (ok => net[i].up # "refused") /\ SendList(i, ok)
    /\ UNCHANGED <<call, wq, chain, faults>>

\* _webclientDataobjectOnConnect with no error; a refused connection looks like any
\* other, but to a select that has it in the exceptional set.
OnConnect(i) ==
    LET s == as[i].user
    IN  ProcessEvent([B EXCEPT !.as[i].fin = TRUE, !.obj[s].conn = i], s, "CONNECTED")

\* _webclientDataobjectOnConnect with an error, and _freeAsocket, which neither closes
\* the socket nor puts the node back.
OnConnectFailed(i) ==
    LET s == as[i].user
    IN  AddUtimerItem([B EXCEPT !.obj[s].pipe = "UNKNOWN", !.as[i].free = TRUE,
                                !.as[i].user = NoServer, !.as[i].fin = FALSE], s, "retry")

\* _webclientDataobjectOnData and _finishWebclientDataobjectResponse: the answer x
\* goes to the first request, if there is one.
OnData(i, x) ==
    LET s == as[i].user
        q == obj[s].q
    IN  IF q = <<>> THEN B
        ELSE ProcessEvent([B EXCEPT !.event[Head(q)] = Append(@, x), !.obj[s].q = Tail(@)],
                          s, "DATA_SENT")

\* The rest of _postSelectAsocket and _processAsocket.  The callbacks of a socket left
\* behind by _freeAsocket have a null pointer for the user.
PostConnectOrRead(i) ==
    /\ chain.at = "post" /\ chain.i = i /\ i \in Nodes
    /\ ~(as[i].fin /\ "write" \in ready[i])
    /\ IF as[i].sock /\ as[i].user = NoServer /\ ready[i] # {} THEN GoTo("crashed", 0)
       ELSE GoTo("post", i + 1)
    /\ IF ~as[i].sock \/ as[i].user = NoServer
            THEN UNCHANGED <<obj, timer, pool, as, wake, event, net>>
       ELSE IF "error" \in ready[i]
            THEN Commit(OnConnectFailed(i)) /\ UNCHANGED net
       ELSE IF ~as[i].fin /\ "write" \in ready[i]
            THEN Commit(OnConnect(i)) /\ UNCHANGED net
       ELSE IF "read" \in ready[i] /\ net[i].in # <<>>
            THEN /\ Commit(OnData(i, Head(net[i].in)))
                 /\ net' = [net EXCEPT ![i].in = Tail(@)]
       ELSE IF "read" \in ready[i]
            THEN Commit(AsDisconnect(B, i)) /\ net' = [net EXCEPT ![i] = NoNet]
       ELSE UNCHANGED <<obj, timer, pool, as, wake, event, net>>
    /\ UNCHANGED <<call, wq, ready, faults>>

PostEnds ==
    /\ chain.at = "post" /\ chain.i \notin Nodes
    /\ GoTo("web", 0)
    /\ UNCHANGED <<call, wq, obj, timer, pool, as, wake, ready, net, faults, event>>

\* jf_network_stopChain, between two passes.
StopChain ==
    /\ chain.at = "select"
    /\ \A c \in Calls : call[c].at = "done"
    /\ GoTo("stopped", 0)
    /\ UNCHANGED <<call, wq, obj, timer, pool, as, wake, ready, net, faults, event>>

\* jf_webclient_destroy, destroyWebclientDataobjectPool: the async sockets, which
\* tell nobody, then the data objects; what is still in the queue just goes.
Destroy ==
    /\ chain.at = "stopped"
    /\ GoTo("destroyed", 0)
    /\ as' = [i \in Nodes |-> FreshAsocket]
    /\ net' = [i \in Nodes |-> NoNet]
    /\ obj' = [s \in Servers |-> NoObject]
    /\ timer' = [s \in Servers |-> {}]
    /\ event' = [r \in Reqs |->
          IF \E s \in Servers : obj[s] # NoObject /\ \E n \in DOMAIN obj[s].q : obj[s].q[n] = r
          THEN Append(event[r], "deleted") ELSE event[r]]
    /\ wq' = <<>>
    /\ UNCHANGED <<call, pool, wake, ready, faults>>

(* The servers and the network ********************************************)

Decide(i) ==
    /\ net[i].up = "connecting"
    /\ \E u \in {"open"} \cup (IF as[i].user \in MayRefuse THEN {"refused"} ELSE {}) :
          net' = [net EXCEPT ![i].up = u]
    /\ UNCHANGED <<call, wq, obj, timer, pool, as, wake, chain, ready, faults, event>>

Answer(i) ==
    /\ net[i].up = "open" /\ net[i].srv # <<>>
    /\ net' = [net EXCEPT ![i].srv = Tail(@), ![i].in = Append(@, Head(net[i].srv))]
    /\ UNCHANGED <<call, wq, obj, timer, pool, as, wake, chain, ready, faults, event>>

Close(i) ==
    /\ net[i].up = "open" /\ faults < MaxFaults
    /\ faults' = faults + 1
    /\ net' = [net EXCEPT ![i].up = "closed", ![i].srv = <<>>]
    /\ UNCHANGED <<call, wq, obj, timer, pool, as, wake, chain, ready, event>>

\* The exceptional set of select reports urgent data of the server, and on Windows a
\* connection that failed.
Except(i) ==
    /\ net[i].up \in {"open"} \cup (IF as[i].fin THEN {} ELSE {"refused"})
    /\ ~net[i].err /\ faults < MaxFaults
    /\ faults' = faults + 1
    /\ net' = [net EXCEPT ![i].err = TRUE]
    /\ UNCHANGED <<call, wq, obj, timer, pool, as, wake, chain, ready, event>>

Chain ==
    \/ PreWebclient \/ TimersDone \/ PreSelect \/ Select \/ PostEnds
    \/ \E s \in Servers, k \in {"retry", "free", "idle"} : FireTimer(s, k)
    \/ \E i \in Nodes : PostWrite(i) \/ PostConnectOrRead(i)

Next ==
    \/ Chain \/ StopChain \/ Destroy
    \/ \E c \in Calls : CheckWakeup(c) \/ Enqueue(c) \/ WakeupChain(c)
    \/ \E i \in Nodes : Decide(i) \/ Answer(i) \/ Close(i) \/ Except(i)

Spec == Init /\ [][Next]_vars

Live == {s \in Servers : obj[s] # NoObject}

\* Node lists, data objects and async sockets have the shapes of their structures.
TypeOK ==
    /\ \A s \in Live :
          /\ obj[s].st \in {"INITIAL", "CONNECTING", "OPERATIVE", "IDLE"}
          /\ obj[s].backoff \in {0, 1, 2, 4}
          /\ obj[s].conn \in Nodes \cup {NoConn}
    /\ \A i \in Nodes : as[i].user \in Servers \cup {NoServer} /\ Len(as[i].ut) <= 1
    /\ \A s \in Servers \ Live : timer[s] = {}

\* _freeAsocket left the socket of a connection that an exceptional condition ended.
LeftBehind == \E i \in Nodes : as[i].free /\ as[i].sock

\* Between the steps of the chain thread the three views of a connection agree: a
\* node is on the free list exactly if its async socket is free; one in use serves
\* a live data object, and it is the object's iwd_pjnaConn exactly once it is
\* connected; two nodes never serve one object.  So no callback reaches a destroyed
\* data object, no data goes to another server's connection, and connectAsocketTo
\* never finds the async socket it got from the pool in use.  An exceptional condition
\* of a socket ends this: its node is free and not on the list (ExceptionSurvived).
ConnectionsAgree ==
    chain.at # "destroyed" /\ ~LeftBehind =>
       /\ AcyclicListArray(pool, PoolSize)
       /\ \A i \in Nodes :
             /\ as[i].free <=> i \in NodesOfListArray(pool, PoolSize)
             /\ ~as[i].free =>
                   /\ as[i].user \in Live
                   /\ obj[as[i].user].conn = (IF as[i].fin THEN i ELSE NoConn)
       /\ \A s \in Live : obj[s].conn # NoConn => as[obj[s].conn].user = s

\* Every request that the chain has taken is in exactly one place: once in the
\* queue of its server's data object with no event passed up, or out of it with
\* exactly one event, its answer or HTTP_REQ_DELETED.
AccountedOnce ==
    \A r \in Reqs :
       LET q == IF Target[r] \in Live THEN obj[Target[r]].q ELSE <<>>
           queued == Len(SelectSeq(q, LAMBDA x : x = r))
           waiting == Len(SelectSeq(wq, LAMBDA x : x.call = r))
       IN  queued + waiting + Len(event[r]) =
             (IF call[r].at \in {"wakes", "done"} /\ ~(chain.at = "destroyed" /\ event[r] = <<>>)
              THEN 1 ELSE 0)

\* Nothing will wake the chain, and no server owes anything.
Quiescent ==
    /\ chain.at = "select" /\ ~wake
    /\ \A c \in Calls : call[c].at = "done"
    /\ \A s \in Servers : timer[s] = {}
    /\ \A i \in Nodes : Ready(i) = {} /\ net[i].up # "connecting" /\ net[i].srv = <<>>

\* The chain never goes to sleep on a request that a data object has: no refused or
\* closed connection, retry, timer or late event leaves one behind.  Three things of
\* this code do strand one, and are excepted: a data object that found the pool
\* empty waits in CONNECTING, where no event is awaited; so does one whose socket
\* could not be created, and keeps its node; and jf_webclient_deleteRequest leaves a
\* connection OPERATIVE with nothing to send.
NotStranded ==
    Quiescent =>
       \A s \in Live :
          \/ obj[s].q = <<>>
          \/ obj[s].st = "CONNECTING" /\ \A i \in Nodes : as[i].user = s => ~as[i].sock
          \/ obj[s].st = "OPERATIVE" /\ \E d \in Deletes : Target[d] = s

\* "if the request queue is empty, chain should be waken up": not so when the chain
\* empties it between _isWakeupChainRequired and the enqueueing; the request, and
\* with it every later one, waits for something else to wake the chain.
NeverSleptOn == Quiescent => wq = <<>>

\* "Set a timed callback, and try again", says _webclientDataobjectOnConnect of a failed
\* connection: not so, as the state machine stays where it is and the next pass calls
\* back about the socket that _freeAsocket left, with a null pointer for its user.
ExceptionSurvived == chain.at # "crashed"

\* _destroyWebclientDataobject asserts that the connection is gone: not so when the
\* client is destroyed with a connection up.
NoConnAtDestroy == chain.at = "stopped" => \A s \in Live : obj[s].conn = NoConn

\* The answer passed up for a request is the server's answer to that request: not so
\* after jf_webclient_deleteRequest, whose requests the server may still answer.
OwnAnswer == \A r \in Reqs : event[r] \in {<<>>, <<"deleted">>, <<r>>}

=============================================================================
