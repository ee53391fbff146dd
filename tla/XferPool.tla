------------------------------ MODULE XferPool ------------------------------
(***************************************************************************)
(* The dispatcher xfer object pool (dispatcher/xfer/xferpool.c): it sends  *)
(* the messages of one priority queue over a stream socket.                *)
(*                                                                         *)
(* Producers (application threads) call sendMsg, pause and resume.  One    *)
(* thread runs the network chain (network/chain.c), which calls back, in   *)
(* every iteration and in this order, the pool's utimer, the pool and its  *)
(* objects before select(), and the objects after it.  The chain thread    *)
(* alone touches the objects, idxop_pdmMsg and idxop_sBytesSent; producers *)
(* share with it the queue, the utimer's list and the wakeup socket.       *)
(***************************************************************************)
EXTENDS PrioQueueOps, FiniteSets

CONSTANTS
    Producers,      \* threads that call sendMsgByDispatcherXferObjectPool
    NumOfObject,    \* idxop_u32NumOfObject, one object per remote address
    RetryCount,     \* DISPATCHER_XFER_CONNECT_RETRY_COUNT
    MsgSize,        \* dm_sMsg of every message, in units send() may split
    NoMsg,          \* NULL
    \* The environment, and its bounds.
    MaxMsgs,        \* messages ever sent by the producers
    MaxFaults,      \* failed connects, closed connections, failed selects
    MaxPartials,    \* calls of send() that take a part of the bytes only
    MaxPauses,      \* calls of pause, and of resume
    SocketMayFail   \* may jf_network_createTypeStreamSocket fail?

ASSUME XferPoolAssumption ==
    /\ NumOfObject \in Nat \ {0}
    /\ RetryCount \in Nat
    /\ MsgSize \in Nat \ {0}
    /\ {MaxMsgs, MaxFaults, MaxPartials, MaxPauses} \subseteq Nat
    /\ SocketMayFail \in BOOLEAN
    /\ NoMsg \notin [id : Nat, prio : Prios]

Objects == 1 .. NumOfObject

VARIABLES
    pool,       \* state of the state machine idxop_pjhPool
    pq,         \* idxop_pdpqMsg
    pdmMsg,     \* idxop_pdmMsg, the message being sent, or NoMsg
    bytesSent,  \* idxop_sBytesSent
    bInUse,     \* idxo_bInUse of every object
    bFin,       \* idxo_bFinConnect
    backoff,    \* idxo_u32ExponentialBackoff
    sock,       \* idxo_pjnsSocket: "none", or what the kernel knows of it
    due,        \* the utimer's expired items, in the order of the list
    waiting,    \* per object, the number of retry items not yet expired
    wakeup,     \* bytes are waiting in the chain's wakeup socket
    chain,      \* where the chain thread is: [at, firing, cur]
    sets,       \* the fd sets passed to select: [read, write, error]
    prod,       \* where every producer is: [at, bWakeup]
    env,        \* what the environment did: [msgs, faults, partials, pauses, resumes]
    wire        \* what reached the peer: [part, last, torn]

objVars == <<bInUse, bFin, backoff, sock>>
timerVars == <<due, waiting>>
vars == <<pool, pq, pdmMsg, bytesSent, objVars, timerVars, wakeup, chain, sets,
          prod, env, wire>>

NoSets == [read |-> {}, write |-> {}, error |-> {}]

Init ==
    /\ pool = "operative"
    /\ pq = EmptyPrioQueue
    /\ pdmMsg = NoMsg
    /\ bytesSent = 0
    /\ bInUse = [o \in Objects |-> FALSE]
    /\ bFin = [o \in Objects |-> FALSE]
    /\ backoff = [o \in Objects |-> 0]
    /\ sock = [o \in Objects |-> "none"]
    /\ due = <<>>
    /\ waiting = [o \in Objects |-> 0]
    /\ wakeup = FALSE
    /\ chain = [at |-> "utimer", firing |-> <<>>, cur |-> 1]
    /\ sets = NoSets
    /\ prod = [p \in Producers |-> [at |-> "idle", bWakeup |-> FALSE]]
    /\ env = [msgs |-> 0, faults |-> 0, partials |-> 0, pauses |-> 0,
              resumes |-> 0]
    /\ wire = [part |-> 0, last |-> 0, torn |-> FALSE]

Fault == env.faults < MaxFaults /\ env' = [env EXCEPT !.faults = @ + 1]
-----------------------------------------------------------------------------
(* The producers. *)

\* _enqueueDispatcherXferMsgToQueue looks at the queue first, ...
CheckEmpty(p) ==
    /\ prod[p].at = "idle"
    /\ prod' = [prod EXCEPT ![p] = [at |-> "checked", bWakeup |-> IsEmpty(pq)]]
    /\ env.msgs + Cardinality({r \in Producers : prod[r].at = "checked"}) < MaxMsgs
    /\ UNCHANGED <<pool, pq, pdmMsg, bytesSent, objVars, timerVars, wakeup,
                   chain, sets, env, wire>>

\* ... and enqueues the message after it, under the lock of the queue.
EnqueueMsg(p, prio) ==
    LET m == [id |-> env.msgs + 1, prio |-> prio]
    IN  /\ prod[p].at = "checked"
        /\ env' = [env EXCEPT !.msgs = @ + 1]
        /\ \/ /\ CanBeQueued(pq, prio)
              /\ pq' = Enqueue(pq, m)
              /\ prod' = [prod EXCEPT ![p].at = IF prod[p].bWakeup THEN "queued" ELSE "idle"]
           \/ /\ ~CanBeQueued(pq, prio)
              /\ prod' = [prod EXCEPT ![p].at = "idle"]
              /\ UNCHANGED pq
        /\ UNCHANGED <<pool, pdmMsg, bytesSent, objVars, timerVars, wakeup,
                       chain, sets, wire>>

\* The wakeupChain of sendMsgByDispatcherXferObjectPool.
WakeupChain(p) ==
    /\ prod[p].at = "queued"
    /\ prod' = [prod EXCEPT ![p].at = "idle"]
    /\ wakeup' = TRUE
    /\ UNCHANGED <<pool, pq, pdmMsg, bytesSent, objVars, timerVars, chain,
                   sets, env, wire>>

\* pauseDispatcherXferObjectPool: jf_network_addUtimerItem with no delay,
\* which wakes the chain up.
PausePool ==
    /\ env.pauses < MaxPauses
    /\ env' = [env EXCEPT !.pauses = @ + 1]
    /\ due' = Append(due, [cb |-> "pause", obj |-> 0])
    /\ wakeup' = TRUE
    /\ UNCHANGED <<pool, pq, pdmMsg, bytesSent, objVars, waiting, chain, sets,
                   prod, wire>>

\* resumeDispatcherXferObjectPool.
ResumePool ==
    /\ env.resumes < MaxPauses
    /\ env' = [env EXCEPT !.resumes = @ + 1]
    /\ due' = Append(due, [cb |-> "resume", obj |-> 0])
    /\ wakeup' = TRUE
    /\ UNCHANGED <<pool, pq, pdmMsg, bytesSent, objVars, waiting, chain, sets,
                   prod, wire>>
-----------------------------------------------------------------------------
(* The network: sockets the kernel changes on its own, and time. *)

\* A connection in progress is established, or refused.
ConnectEnds(o) ==
    /\ sock[o] = "connecting"
    /\ \/ sock' = [sock EXCEPT ![o] = "open"] /\ UNCHANGED env
       \/ sock' = [sock EXCEPT ![o] = "refused"] /\ Fault
    /\ UNCHANGED <<pool, pq, pdmMsg, bytesSent, bInUse, bFin, backoff, timerVars,
                   wakeup, chain, sets, prod, wire>>

\* The peer closes the connection, or dies.
PeerCloses(o) ==
    /\ sock[o] = "open"
    /\ sock' = [sock EXCEPT ![o] = "closed"]
    /\ Fault
    /\ UNCHANGED <<pool, pq, pdmMsg, bytesSent, bInUse, bFin, backoff, timerVars,
                   wakeup, chain, sets, prod, wire>>

\* The backoff of a retry has elapsed.
TimePasses(o) ==
    /\ waiting[o] > 0
    /\ waiting' = [waiting EXCEPT ![o] = @ - 1]
    /\ due' = Append(due, [cb |-> "retry", obj |-> o])
    /\ UNCHANGED <<pool, pq, pdmMsg, bytesSent, objVars, wakeup, chain, sets,
                   prod, env, wire>>
-----------------------------------------------------------------------------
(* The chain thread: the callbacks before select. *)

\* _startConnInDispatcherXferObject; its callers ignore what it returns.  A
\* second connect on a socket changes nothing unless the first one failed.
StartConnInDispatcherXferObject(o) ==
    \/ /\ sock[o] = "none"
       /\ SocketMayFail
       /\ Fault
       /\ UNCHANGED sock
    \/ /\ sock[o] \in {"none", "refused"}
       /\ \E s \in {"connecting", "open"} : sock' = [sock EXCEPT ![o] = s]
       /\ UNCHANGED env
    \/ /\ sock[o] \in {"none", "refused"}
       /\ sock' = [sock EXCEPT ![o] = "refused"]
       /\ Fault
    \/ /\ sock[o] \in {"connecting", "open", "closed"}
       /\ UNCHANGED <<sock, env>>

\* The next backoff, rolled back to 0 after RetryCount doublings.
NextBackoff(b) ==
    LET n == IF b = 0 THEN 1 ELSE b * 2
    IN  IF n >= 2 ^ RetryCount THEN 0 ELSE n

\* _checkUtimer takes the expired items off the list, ...
CheckUtimer ==
    /\ chain.at = "utimer"
    /\ chain' = [chain EXCEPT !.at = "fire", !.firing = due]
    /\ due' = <<>>
    /\ UNCHANGED <<pool, pq, pdmMsg, bytesSent, objVars, waiting, wakeup, sets,
                   prod, env, wire>>

\* ... and fires them in order: _fnUtimerRetryConnInDispatcherXferObject, ...
FireRetry(o) ==
    /\ backoff' = [backoff EXCEPT ![o] = NextBackoff(@)]
    /\ StartConnInDispatcherXferObject(o)
    /\ UNCHANGED <<pool, bytesSent, bInUse, bFin, wakeup, wire>>

\* Mutant: a pause that keeps the position in the pending message.
FirePauseKeepsBytes ==
    IF pool = "operative"
    THEN /\ pool' = "paused"
         /\ bInUse' = [o \in Objects |-> FALSE]
         /\ bFin' = [o \in Objects |-> FALSE]
         /\ sock' = [o \in Objects |-> "none"]
         /\ wire' = [wire EXCEPT !.part = 0]
         /\ UNCHANGED <<bytesSent, backoff, wakeup, env>>
    ELSE UNCHANGED <<pool, bytesSent, objVars, wakeup, env, wire>>

\* ... _fnUtimerPauseDispatcherXferPool with _fnDxopEventActionPausePool, ...
FirePause ==
    IF pool = "operative"
    THEN /\ pool' = "paused"
         /\ bInUse' = [o \in Objects |-> FALSE]
         /\ bFin' = [o \in Objects |-> FALSE]
         /\ sock' = [o \in Objects |-> "none"]
         /\ wire' = [wire EXCEPT !.part = 0]
         /\ bytesSent' = 0
         /\ UNCHANGED <<backoff, wakeup, env>>
    ELSE UNCHANGED <<pool, bytesSent, objVars, wakeup, env, wire>>

\* ... _fnUtimerResumeDispatcherXferPool with _fnDxopEventActionResumePool.
FireResume ==
    /\ IF pool = "paused"
       THEN pool' = "operative" /\ wakeup' = TRUE
       ELSE UNCHANGED <<pool, wakeup>>
    /\ UNCHANGED <<bytesSent, objVars, env, wire>>

FireUtimerItem ==
    /\ chain.at = "fire"
    /\ chain.firing # <<>>
    /\ chain' = [chain EXCEPT !.firing = Tail(@)]
    /\ LET item == Head(chain.firing)
       IN  \/ item.cb = "retry" /\ FireRetry(item.obj)
           \/ item.cb = "pause" /\ FirePause
           \/ item.cb = "resume" /\ FireResume
    /\ UNCHANGED <<pq, pdmMsg, timerVars, sets, prod>>

\* _isPendingDispatcherXferMsg and not _hasInUseDispatcherXferObject.
NeedsConn ==
    /\ pdmMsg # NoMsg \/ ~IsEmpty(pq)
    /\ \A o \in Objects : ~bInUse[o]

\* _getFreeDispatcherXferObject: the first one that is not in use.
FirstFree == CHOOSE o \in Objects : ~bInUse[o] /\ \A r \in 1 .. o - 1 : bInUse[r]

\* _preSelectDispatcherXferObjectPool: the state machine takes DXOPE_SEND_MSG
\* in DXOPS_OPERATIVE only.
PreSelectPool ==
    /\ chain.at = "fire"
    /\ chain.firing = <<>>
    /\ chain' = [chain EXCEPT !.at = "preselect"]
    /\ IF pool = "operative" /\ NeedsConn /\ \E o \in Objects : ~bInUse[o]
       THEN /\ bInUse' = [bInUse EXCEPT ![FirstFree] = TRUE]
            /\ StartConnInDispatcherXferObject(FirstFree)
       ELSE UNCHANGED <<bInUse, sock, env>>
    /\ UNCHANGED <<pool, pq, pdmMsg, bytesSent, bFin, backoff, timerVars, wakeup,
                   sets, prod, wire>>

\* Mutant: the read set is left out, a dead connection goes unnoticed.
PreSelectUnread ==
    LET has == {o \in Objects : sock[o] # "none"}
    IN  [read  |-> {},
         write |-> {o \in has : ~bFin[o] \/ ~IsEmpty(pq)},
         error |-> has]

\* Mutant: the write set is left out once the object is connected.
PreSelectUnwritten ==
    LET has == {o \in Objects : sock[o] # "none"}
    IN  [read  |-> {o \in has : bFin[o]},
         write |-> {o \in has : ~bFin[o]},
         error |-> has]

\* _preSelectDispatcherXferObject of every object.
PreSelectSets ==
    LET has == {o \in Objects : sock[o] # "none"}
    IN  [read  |-> {o \in has : bFin[o]},
         write |-> {o \in has : ~bFin[o] \/ ~IsEmpty(pq)},
         error |-> has]

PreSelectObjects ==
    /\ chain.at = "preselect"
    /\ chain' = [chain EXCEPT !.at = "select"]
    /\ sets' = PreSelectSets
    /\ UNCHANGED <<pool, pq, pdmMsg, bytesSent, objVars, timerVars, wakeup, prod,
                   env, wire>>

\* select: a socket with a connection is writable, one without (refused, or
\* closed by the peer) is readable and writable and, on some systems, has an
\* exceptional condition.
ReadySets(withError) ==
    LET dead == {o \in Objects : sock[o] \in {"refused", "closed"}}
        conn == {o \in Objects : sock[o] = "open"}
    IN  [read  |-> sets.read \cap dead,
         write |-> sets.write \cap (dead \cup conn),
         error |-> IF withError THEN sets.error \cap dead ELSE {}]

\* select in startChain returns for a socket, for an expired item, or because
\* of the wakeup socket, which _readWakeupSocket empties; or it fails, and no
\* callback runs.
Select ==
    /\ chain.at = "select"
    /\ \E withError \in BOOLEAN :
         LET ready == ReadySets(withError)
         IN  \/ /\ wakeup \/ due # <<>> \/ ready # NoSets
                /\ sets' = ready
                /\ wakeup' = FALSE
                /\ chain' = [chain EXCEPT !.at = "write", !.cur = 1]
                /\ UNCHANGED env
             \/ /\ Fault
                /\ chain' = [chain EXCEPT !.at = "utimer"]
                /\ sets' = NoSets
                /\ UNCHANGED wakeup
    /\ UNCHANGED <<pool, pq, pdmMsg, bytesSent, objVars, timerVars, prod, wire>>
-----------------------------------------------------------------------------
(* The chain thread: _postSelectDispatcherXferObject, object after object. *)

cur == chain.cur

\* The write handling, for a connected object that is writable.
PostSelectWrite ==
    /\ chain.at = "write"
    /\ chain' = [chain EXCEPT !.at =
                   IF sock[cur] # "none" /\ bFin[cur] /\ cur \in sets.write
                   THEN "send" ELSE "read"]
    /\ UNCHANGED <<pool, pq, pdmMsg, bytesSent, objVars, timerVars, wakeup, sets,
                   prod, env, wire>>

\* _sendMsgInDispatcherPrioQueue takes the next message off the queue, ...
DequeueNext ==
    /\ chain.at = "send"
    /\ pdmMsg = NoMsg
    /\ IF IsEmpty(pq)
       THEN /\ chain' = [chain EXCEPT !.at = "read"]
            /\ UNCHANGED <<pq, pdmMsg>>
       ELSE /\ pdmMsg' = Head(pq.msgs)
            /\ pq' = Dequeue(pq)
            /\ UNCHANGED chain
    /\ UNCHANGED <<pool, bytesSent, objVars, timerVars, wakeup, sets, prod, env,
                   wire>>

\* The message is complete: it is freed.
Sent(k) ==
    /\ pdmMsg' = NoMsg
    /\ bytesSent' = 0
    /\ wire' = [part |-> 0, last |-> pdmMsg.id,
                torn |-> wire.torn \/ wire.part + k # MsgSize]
    /\ UNCHANGED <<chain, env>>

\* A part of it was sent (JF_ERR_MSG_PARTIAL_SENT): the loop stops.
PartlySent(k) ==
    /\ env.partials < MaxPartials
    /\ env' = [env EXCEPT !.partials = @ + 1]
    /\ bytesSent' = bytesSent + k
    /\ wire' = [wire EXCEPT !.part = @ + k]
    /\ chain' = [chain EXCEPT !.at = "read"]
    /\ UNCHANGED pdmMsg

\* ... and _sendPendingMsgInDispatcherXferObjectPool sends what is left of it;
\* on a dead connection send() fails and the message stays.
SendPending ==
    /\ chain.at = "send"
    /\ pdmMsg # NoMsg
    /\ \/ /\ sock[cur] = "open"
          /\ \E k \in 0 .. MsgSize - bytesSent :
               IF bytesSent + k = MsgSize THEN Sent(k) ELSE PartlySent(k)
       \/ /\ sock[cur] # "open"
          /\ chain' = [chain EXCEPT !.at = "read"]
          /\ UNCHANGED <<pdmMsg, bytesSent, env, wire>>
    /\ UNCHANGED <<pool, pq, objVars, timerVars, wakeup, sets, prod>>

NextObject ==
    chain' = IF cur < NumOfObject
             THEN [chain EXCEPT !.at = "write", !.cur = @ + 1]
             ELSE [chain EXCEPT !.at = "utimer", !.cur = 1]

\* Mutant: the lost connection is closed, and no retry is scheduled.
DisconnectNoRetry ==
    /\ sock' = [sock EXCEPT ![cur] = "none"]
    /\ bFin' = [bFin EXCEPT ![cur] = FALSE]
    /\ wire' = [wire EXCEPT !.part = 0]
    /\ UNCHANGED <<due, waiting, wakeup>>

\* _disconnectDispatcherXferObject and _retryConnInDispatcherXferObject, whose
\* jf_network_addUtimerItem wakes the chain up.
DisconnectAndRetry ==
    /\ sock' = [sock EXCEPT ![cur] = "none"]
    /\ bFin' = [bFin EXCEPT ![cur] = FALSE]
    /\ wire' = [wire EXCEPT !.part = 0]
    /\ wakeup' = TRUE
    /\ IF backoff[cur] = 0
       THEN due' = Append(due, [cb |-> "retry", obj |-> cur]) /\ UNCHANGED waiting
       ELSE waiting' = [waiting EXCEPT ![cur] = @ + 1] /\ UNCHANGED due

\* The connection and read handling.
PostSelectRead ==
    /\ chain.at = "read"
    /\ NextObject
    /\ \/ /\ sock[cur] # "none"
          /\ cur \in sets.error
          /\ DisconnectAndRetry
       \/ /\ sock[cur] # "none"
          /\ cur \notin sets.error
          /\ ~bFin[cur] /\ cur \in sets.write
          /\ bFin' = [bFin EXCEPT ![cur] = TRUE]
          /\ UNCHANGED <<sock, timerVars, wakeup, wire>>
       \/ /\ sock[cur] # "none"
          /\ cur \notin sets.error
          /\ bFin[cur] \/ cur \notin sets.write
          /\ IF cur \in sets.read
             THEN DisconnectAndRetry
             ELSE UNCHANGED <<sock, bFin, timerVars, wakeup, wire>>
       \/ /\ sock[cur] = "none"
          /\ UNCHANGED <<sock, bFin, timerVars, wakeup, wire>>
    /\ UNCHANGED <<pool, pq, pdmMsg, bytesSent, bInUse, backoff, sets, prod, env>>

Chain ==
    \/ CheckUtimer \/ FireUtimerItem \/ PreSelectPool \/ PreSelectObjects
    \/ Select \/ PostSelectWrite \/ DequeueNext \/ SendPending \/ PostSelectRead

Producer(p) ==
    CheckEmpty(p) \/ EnqueueMsg(p, LOW) \/ WakeupChain(p)

Network(o) == ConnectEnds(o) \/ PeerCloses(o) \/ TimePasses(o)

Next ==
    \/ Chain
    \/ \E p \in Producers : Producer(p)
    \/ PausePool
    \/ ResumePool
    \/ \E o \in Objects : Network(o)

Spec == Init /\ [][Next]_vars

\* The chain thread and a producer in the middle of a call keep running,
\* connects end, and time passes.
Fairness ==
    /\ WF_vars(Chain)
    /\ \A p \in Producers :
         WF_vars(EnqueueMsg(p, LOW)) /\ WF_vars(WakeupChain(p))
    /\ \A o \in Objects : WF_vars(ConnectEnds(o)) /\ WF_vars(TimePasses(o))

FairSpec == Spec /\ Fairness
-----------------------------------------------------------------------------
Message == [id : Nat, prio : Prios]
Item == [cb : {"retry", "pause", "resume"}, obj : 0 .. NumOfObject]
SocketStates == {"none", "connecting", "open", "refused", "closed"}
ChainType == [at : {"utimer", "fire", "preselect", "select", "write", "send", "read"},
              firing : Seq(Item), cur : Objects]
SetsType == [read : SUBSET Objects, write : SUBSET Objects, error : SUBSET Objects]
ProdType == [at : {"idle", "checked", "queued"}, bWakeup : BOOLEAN]
EnvType == [msgs : Nat, faults : Nat, partials : Nat, pauses : Nat, resumes : Nat]
WireType == [part : Nat, last : Nat, torn : BOOLEAN]

\* The pool's fields have their types; the backoff stays below its limit.
TypeOK ==
    /\ pool \in {"operative", "paused"}
    /\ pq \in QueueOf(Message)
    /\ pdmMsg \in Message \cup {NoMsg}
    /\ bytesSent \in 0 .. MsgSize - 1
    /\ bInUse \in [Objects -> BOOLEAN]
    /\ bFin \in [Objects -> BOOLEAN]
    /\ backoff \in [Objects -> Nat]
    /\ \A o \in Objects : backoff[o] = 0 \/ backoff[o] < 2 ^ RetryCount
    /\ sock \in [Objects -> SocketStates]
    /\ due \in Seq(Item)
    /\ waiting \in [Objects -> Nat]
    /\ wakeup \in BOOLEAN
    /\ chain \in ChainType
    /\ sets \in SetsType
    /\ prod \in [Producers -> ProdType]
    /\ env \in EnvType
    /\ wire \in WireType

\* Messages are completed in the order in which they were queued, and none
\* twice, across partial sends, lost connections, retries and pauses.
InOrder ==
    /\ pdmMsg # NoMsg => /\ wire.last < pdmMsg.id
                         /\ \A i \in DOMAIN pq.msgs : pdmMsg.id < pq.msgs[i].id
    /\ \A i \in DOMAIN pq.msgs : wire.last < pq.msgs[i].id

RetryPending(o) ==
    \/ waiting[o] > 0
    \/ \E i \in DOMAIN due : due[i] = [cb |-> "retry", obj |-> o]
    \/ \E i \in DOMAIN chain.firing : chain.firing[i] = [cb |-> "retry", obj |-> o]

\* "Check if we have in use xfer object which is making a connetion or has
\* established a connection" (_hasInUseDispatcherXferObject): an object in use
\* has a socket or a retry to come.
InUseIsConnecting ==
    \A o \in Objects : bInUse[o] => sock[o] # "none" \/ RetryPending(o)

\* _hasInUseDispatcherXferObject keeps the pool to one connection at a time,
\* the one of the first object, and "After pause, all connections are closed,
\* messages remain" (_fnDxopEventActionPausePool): a paused pool has none, as
\* long as no connection failed before.  After a failure a retry that was
\* scheduled before the pause opens one: the pause does not remove it from the
\* utimer.
ConnectionsMatchState ==
    \A o \in Objects :
        /\ bInUse[o] \/ sock[o] # "none" => o = 1
        /\ pool = "paused" /\ env.faults = 0 => sock[o] = "none"

\* A message is sent in full on one connection ("the pending message will
\* send later with full message", _fnDxopEventActionPausePool): the peer never
\* gets the rest of a message whose beginning went to another connection.
NotTorn == ~wire.torn

\* The same across pauses and resumes, when no connection is lost.
NotTornByPause == env.faults = 0 => NotTorn

\* What the chain thread of xferpool.c keeps true whatever the producers, the
\* peer and the timers do: the order of the messages, a way on for the object
\* in use, one connection at most, and whole messages across pauses.
PoolSound ==
    TypeOK /\ InOrder /\ InUseIsConnecting /\ ConnectionsMatchState /\ NotTornByPause

\* The chain thread is in select and nothing will ever end it but a producer.
Asleep ==
    /\ chain.at = "select"
    /\ ~wakeup /\ due = <<>> /\ ReadySets(TRUE) = NoSets
    /\ \A o \in Objects : waiting[o] = 0 /\ sock[o] # "connecting"
    /\ \A p \in Producers : prod[p].at = "idle"

\* "If the request queue is empty, chain should be waken up"
\* (_enqueueDispatcherXferMsgToQueue), and "If there is pending data to be
\* sent, then we need to check when the socket is writable"
\* (_preSelectDispatcherXferObject): the chain of an operative pool does not
\* sleep while a message is queued or partly sent.
NeverSleptOn == Asleep /\ pool = "operative" => IsEmpty(pq) /\ pdmMsg = NoMsg

\* A wakeup is worth its name: messages queued in an operative pool when the
\* chain has been woken up all leave the queue, or the pool is paused.
WakeupDrains ==
    (wakeup /\ ~IsEmpty(pq) /\ pool = "operative")
        ~> (IsEmpty(pq) \/ pool = "paused")

\* Whatever the failures before, an object in use gets its connection once
\* they stop, or is given up by a pause: the retries go on.
ConnectionRecovers ==
    \A o \in Objects :
        bInUse[o] ~> (sock[o] = "open" /\ bFin[o]) \/ ~bInUse[o]
=============================================================================
