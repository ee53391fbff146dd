--------------------------- MODULE XferPoolProofs ---------------------------
(***************************************************************************)
(* Proofs about the xfer object pool, for any number of objects, producers *)
(* and messages and any environment: messages are completed in order and   *)
(* none twice, the pool keeps to one connection, a message is not torn by  *)
(* pauses and resumes, and, unless a socket cannot even be created, the    *)
(* object in use has a connection, or an attempt, or a retry to come.      *)
(*                                                                         *)
(* None of these is inductive.  The order of the sent messages needs the   *)
(* order inside the queue and below the newest id handed out.  One         *)
(* connection needs that every retry, wherever it is, is one of the first  *)
(* object.  What holds while no connection was lost needs that there is no *)
(* dead socket, no retry, and nothing to read after select.  The way on of *)
(* the object in use needs that the items being fired are only those that  *)
(* _checkUtimer took in this iteration.                                    *)
(***************************************************************************)
EXTENDS XferPool, PrioQueueOpsProofs

\* An item of the utimer that connects the object again.
Retry(o) == [cb |-> "retry", obj |-> o]

\* The items that are not fired yet.
Pending == Items(due) \cup Items(chain.firing)

\* The id of the message taken off the queue last.
Newest == IF pdmMsg = NoMsg THEN wire.last ELSE pdmMsg.id

\* The queue holds, in order, messages newer than the one taken last, which
\* is newer than the one completed last.
OrderOK ==
    /\ QueueInv(pq, Message)
    /\ Ascending(pq.msgs, Newest, env.msgs)
    /\ Newest <= env.msgs
    /\ wire.last <= Newest
    /\ pdmMsg # NoMsg => wire.last < pdmMsg.id

\* Only the first object is ever used, or retried.
FirstOK ==
    /\ \A o \in Objects : bInUse[o] \/ sock[o] # "none" \/ waiting[o] > 0 => o = 1
    /\ \A x \in Pending : x.cb = "retry" => x.obj = 1

\* The state of the pool while no connection was lost: nothing to retry, no
\* dead socket, none at all when it is paused, and the peer has got what the
\* pool has counted.
CalmOK ==
    env.faults = 0 =>
        /\ \A o \in Objects : /\ waiting[o] = 0
                              /\ sock[o] \in {"none", "connecting", "open"}
                              /\ pool = "paused" => sock[o] = "none"
        /\ \A x \in Pending : x.cb # "retry"
        /\ chain.at \in {"write", "send", "read"} => sets.read = {} /\ sets.error = {}
        /\ wire.part = bytesSent
        /\ ~wire.torn

\* A message that is not there has no bytes sent; items are fired in the
\* first callback only.
ChainOK ==
    /\ pdmMsg = NoMsg => bytesSent = 0
    /\ chain.at # "fire" => chain.firing = <<>>

\* An object in use has a socket or a retry to come.
InUseOK ==
    ~SocketMayFail =>
        \A o \in Objects :
            bInUse[o] => \/ sock[o] # "none"
                         \/ waiting[o] > 0
                         \/ Retry(o) \in Pending

\* The inductive invariant.
Inv == TypeOK /\ OrderOK /\ FirstOK /\ CalmOK /\ ChainOK /\ InUseOK

-----------------------------------------------------------------------------
(* The steps that several actions share.                                   *)

\* The items that the pool adds.
LEMMA ItemTypes ==
    /\ \A o \in Objects : Retry(o) \in Item
    /\ [cb |-> "pause", obj |-> 0] \in Item /\ [cb |-> "resume", obj |-> 0] \in Item
  BY XferPoolAssumption DEF Retry, Item, Objects

\* Something fails in the environment.
LEMMA FaultStep ==
    ASSUME env \in EnvType, Fault
    PROVE  env' \in EnvType /\ env'.msgs = env.msgs /\ env'.faults > 0
  BY DEF Fault, EnvType

\* _startConnInDispatcherXferObject touches the socket of its object only,
\* which it has afterwards unless no socket could be created.
LEMMA StartConnStep ==
    ASSUME TypeOK, NEW o \in Objects, StartConnInDispatcherXferObject(o)
    PROVE  /\ sock' \in [Objects -> SocketStates]
           /\ \A r \in Objects : r # o => sock'[r] = sock[r]
           /\ SocketMayFail \/ sock'[o] # "none"
           /\ env' \in EnvType /\ env'.msgs = env.msgs
           /\ env'.faults = 0 => /\ env.faults = 0
                                 /\ sock[o] \in {"none", "connecting", "open"} =>
                                      sock'[o] \in {"none", "connecting", "open"}
  <1>0. sock \in [Objects -> SocketStates] /\ env \in EnvType
    BY DEF TypeOK
  <1>1. CASE SocketMayFail /\ Fault /\ UNCHANGED sock
    BY <1>0, <1>1, FaultStep DEF EnvType
  <1>2. CASE \E s \in {"connecting", "open"} : sock' = [sock EXCEPT ![o] = s] /\ UNCHANGED env
    BY <1>0, <1>2 DEF SocketStates
  <1>3. CASE sock' = [sock EXCEPT ![o] = "refused"] /\ Fault
    BY <1>0, <1>3, FaultStep DEF SocketStates, EnvType
  <1>4. CASE sock[o] # "none" /\ UNCHANGED <<sock, env>>
    BY <1>0, <1>4
  <1> QED
    BY <1>1, <1>2, <1>3, <1>4 DEF StartConnInDispatcherXferObject

-----------------------------------------------------------------------------
(* The types.                                                              *)

\* createDispatcherXferObjectPool.
LEMMA InitInv == Init => Inv
  <1> SUFFICES ASSUME Init PROVE Inv
    OBVIOUS
  <1> USE XferPoolAssumption, MaxNumMsgAssumption
  <1>0. /\ chain \in ChainType /\ sets \in SetsType /\ env \in EnvType /\ wire \in WireType
        /\ prod \in [Producers -> ProdType]
    BY ItemsEmpty
    DEF Init, ChainType, SetsType, NoSets, EnvType, WireType, ProdType, Objects
  <1>1. pq \in QueueOf(Message)
    BY DEF Init, EmptyPrioQueue, QueueOf, Counter
  <1>2. TypeOK
    <2>1. bytesSent \in 0 .. MsgSize - 1 /\ pool \in {"operative", "paused"}
      BY DEF Init
    <2>2. /\ bInUse \in [Objects -> BOOLEAN] /\ bFin \in [Objects -> BOOLEAN]
          /\ sock \in [Objects -> SocketStates]
      BY DEF Init, SocketStates
    <2>3. /\ backoff \in [Objects -> Nat] /\ waiting \in [Objects -> Nat]
          /\ \A o \in Objects : backoff[o] = 0
      BY DEF Init
    <2>4. due \in Seq(Item) /\ wakeup \in BOOLEAN /\ pdmMsg \in Message \cup {NoMsg}
      BY ItemsEmpty DEF Init
    <2> QED
      BY <1>0, <1>1, <2>1, <2>2, <2>3, <2>4, Zenon DEF TypeOK
  <1>3. OrderOK
    <2>1. NumOfMsg(pq) = 0 /\ pq.msgs = <<>>
      BY ModSmall DEF Init, EmptyPrioQueue, NumOfMsg
    <2> QED
      BY <1>1, <2>1 DEF Init, OrderOK, QueueInv, Ascending, Newest
  <1>4. Items(due) = {} /\ Items(chain.firing) = {}
    BY ItemsEmpty DEF Init
  <1>5. FirstOK /\ CalmOK /\ ChainOK /\ InUseOK
    BY <1>4 DEF Init, FirstOK, CalmOK, ChainOK, InUseOK, Pending
  <1> QED
    BY <1>2, <1>3, <1>5 DEF Inv

\* The producers, and the calls of pause and resume, keep the types ...
LEMMA ProducerTypes ==
    ASSUME Inv,
           \/ \E p \in Producers : Producer(p)
           \/ PausePool
           \/ ResumePool
    PROVE  TypeOK'
  <1> USE DEF objVars, timerVars
  <1>0. TypeOK /\ QueueInv(pq, Message)
    BY DEF Inv, OrderOK
  <1>1. ASSUME NEW p \in Producers, CheckEmpty(p) PROVE TypeOK'
    <2>1. prod' \in [Producers -> ProdType]
      BY <1>0, <1>1 DEF CheckEmpty, TypeOK, ProdType, IsEmpty
    <2> QED
      BY <1>0, <1>1, <2>1 DEF CheckEmpty, TypeOK
  <1>2. ASSUME NEW p \in Producers, EnqueueMsg(p, LOW) PROVE TypeOK'
    <2> DEFINE m == [id |-> env.msgs + 1, prio |-> LOW]
    <2>1. env \in EnvType /\ env' = [env EXCEPT !.msgs = @ + 1]
      BY <1>0, <1>2 DEF EnqueueMsg, TypeOK
    <2>2. env' \in EnvType /\ env.msgs \in Nat
      BY <2>1 DEF EnvType
    <2>3. m \in Message /\ m.prio = LOW /\ LOW \in Prios
      BY <2>2 DEF Message, Prios
    <2>4. prod' \in [Producers -> ProdType]
      <3>1. \E a \in {"queued", "idle"} : prod' = [prod EXCEPT ![p].at = a]
        BY <1>2 DEF EnqueueMsg
      <3>2. prod \in [Producers -> ProdType]
        BY <1>0 DEF TypeOK
      <3> QED
        BY <3>1, <3>2 DEF ProdType
    <2>5. CASE CanBeQueued(pq, LOW) /\ pq' = Enqueue(pq, m)
      <3> HIDE DEF m
      <3>1. QueueInv(Enqueue(pq, m), Message)
        BY <1>0, <2>3, <2>5, EnqueueStep
      <3>2. pq' \in QueueOf(Message)
        BY <2>5, <3>1 DEF QueueInv
      <3> QED
        BY <1>0, <1>2, <2>2, <2>4, <3>2 DEF EnqueueMsg, TypeOK
    <2>6. CASE UNCHANGED pq
      BY <1>0, <1>2, <2>2, <2>4, <2>6 DEF EnqueueMsg, TypeOK
    <2> QED
      BY <1>2, <2>5, <2>6 DEF EnqueueMsg
  <1>3. ASSUME NEW p \in Producers, WakeupChain(p) PROVE TypeOK'
    <2>1. prod' \in [Producers -> ProdType]
      BY <1>0, <1>3 DEF WakeupChain, TypeOK, ProdType
    <2> QED
      BY <1>0, <1>3, <2>1 DEF WakeupChain, TypeOK
  <1>4. CASE PausePool
    <2>0. env \in EnvType
      BY <1>0 DEF TypeOK
    <2>1. env' \in EnvType
      BY <1>4, <2>0 DEF PausePool, EnvType
    <2>2. due' \in Seq(Item)
      BY <1>0, <1>4, ItemsAppend, ItemTypes DEF PausePool, TypeOK
    <2> QED
      BY <1>0, <1>4, <2>1, <2>2 DEF PausePool, TypeOK
  <1>5. CASE ResumePool
    <2>0. env \in EnvType
      BY <1>0 DEF TypeOK
    <2>1. env' \in EnvType
      BY <1>5, <2>0 DEF ResumePool, EnvType
    <2>2. due' \in Seq(Item)
      BY <1>0, <1>5, ItemsAppend, ItemTypes DEF ResumePool, TypeOK
    <2> QED
      BY <1>0, <1>5, <2>1, <2>2 DEF ResumePool, TypeOK
  <1> QED
    BY <1>1, <1>2, <1>3, <1>4, <1>5 DEF Producer

\* ... so do the network and the passing of time ...
LEMMA NetworkTypes ==
    ASSUME Inv, NEW o \in Objects, Network(o)
    PROVE  TypeOK'
  <1> USE DEF objVars, timerVars
  <1>0. TypeOK /\ env \in EnvType /\ sock \in [Objects -> SocketStates]
    BY DEF Inv, TypeOK
  <1>1. CASE ConnectEnds(o)
    <2>1. sock' \in [Objects -> SocketStates]
      BY <1>0, <1>1 DEF ConnectEnds, SocketStates
    <2>2. env' \in EnvType
      BY <1>0, <1>1, FaultStep DEF ConnectEnds
    <2> QED
      BY <1>0, <1>1, <2>1, <2>2 DEF ConnectEnds, TypeOK
  <1>2. CASE PeerCloses(o)
    <2>1. sock' \in [Objects -> SocketStates]
      BY <1>0, <1>2 DEF PeerCloses, SocketStates
    <2>2. env' \in EnvType
      BY <1>0, <1>2, FaultStep DEF PeerCloses
    <2> QED
      BY <1>0, <1>2, <2>1, <2>2 DEF PeerCloses, TypeOK
  <1>3. CASE TimePasses(o)
    <2>1. waiting' \in [Objects -> Nat]
      BY <1>0, <1>3 DEF TimePasses, TypeOK
    <2>2. due' \in Seq(Item)
      BY <1>0, <1>3, ItemsAppend, ItemTypes DEF TimePasses, TypeOK, Retry
    <2> QED
      BY <1>0, <1>3, <2>1, <2>2 DEF TimePasses, TypeOK
  <1> QED
    BY <1>1, <1>2, <1>3 DEF Network

\* The next backoff is below the limit, or rolled back.
LEMMA NextBackoffStep ==
    ASSUME NEW b \in Nat
    PROVE  NextBackoff(b) \in Nat /\ (NextBackoff(b) = 0 \/ NextBackoff(b) < 2 ^ RetryCount)
  <1>1. 2 ^ RetryCount \in Int
    BY XferPoolAssumption
  <1> QED
    BY <1>1 DEF NextBackoff

\* A retry that is fired is one of the first object.
LEMMA FiredItem ==
    ASSUME Inv, chain.firing # <<>>
    PROVE  /\ Head(chain.firing).cb = "retry" =>
                Head(chain.firing).obj = 1 /\ Head(chain.firing) = Retry(1)
           /\ Tail(chain.firing) \in Seq(Item)
           /\ Items(chain.firing) = Items(Tail(chain.firing)) \cup {Head(chain.firing)}
           /\ 1 \in Objects
  <1>1. chain.firing \in Seq(Item)
    BY DEF Inv, TypeOK, ChainType
  <1>2. /\ Tail(chain.firing) \in Seq(Item) /\ Head(chain.firing) \in Item
        /\ Items(chain.firing) = Items(Tail(chain.firing)) \cup {Head(chain.firing)}
    BY <1>1, ItemsTail
  <1>3. Head(chain.firing).cb = "retry" => Head(chain.firing).obj = 1
    BY <1>2 DEF Inv, FirstOK, Pending
  <1>4. 1 \in Objects
    BY XferPoolAssumption DEF Objects
  <1>5. Head(chain.firing).cb = "retry" => Head(chain.firing) = Retry(1)
    BY <1>2, <1>3 DEF Item, Retry
  <1> QED
    BY <1>2, <1>3, <1>4, <1>5

\* _getFreeDispatcherXferObject finds the first object when none is in use.
LEMMA FirstFreeIsOne ==
    ASSUME TypeOK, NeedsConn
    PROVE  FirstFree = 1 /\ 1 \in Objects
  <1>1. 1 \in Objects /\ Objects \subseteq Nat
    BY XferPoolAssumption DEF Objects
  <1>2. \A o \in Objects : ~bInUse[o]
    BY DEF NeedsConn
  <1>3. ~bInUse[1] /\ \A r \in 1 .. 1 - 1 : bInUse[r]
    BY <1>1, <1>2
  <1>4. /\ FirstFree \in Objects /\ ~bInUse[FirstFree]
        /\ \A r \in 1 .. FirstFree - 1 : bInUse[r]
    BY <1>1, <1>3 DEF FirstFree
  <1>5. FirstFree \in 1 .. NumOfObject
    BY <1>4 DEF Objects
  <1>6. FirstFree > 1 => 1 \in 1 .. FirstFree - 1
    BY <1>5
  <1> QED
    BY <1>1, <1>2, <1>4, <1>5, <1>6

\* ... and the chain thread.  The callbacks before select:
LEMMA BeforeSelectTypes ==
    ASSUME Inv, CheckUtimer \/ FireUtimerItem \/ PreSelectPool \/ PreSelectObjects
    PROVE  TypeOK'
  <1> USE DEF objVars, timerVars
  <1>0. TypeOK /\ chain \in ChainType /\ due \in Seq(Item) /\ <<>> \in Seq(Item)
    BY ItemsEmpty DEF Inv, TypeOK
  <1>1. CASE CheckUtimer
    <2>1. chain' \in ChainType
      BY <1>0, <1>1 DEF CheckUtimer, ChainType
    <2> QED
      BY <1>0, <1>1, <2>1 DEF CheckUtimer, TypeOK
  <1>2. CASE FireUtimerItem
    <2> DEFINE item == Head(chain.firing)
    <2>1. chain' \in ChainType
      <3>1. Tail(chain.firing) \in Seq(Item)
        BY <1>2, FiredItem DEF FireUtimerItem
      <3> QED
        BY <1>0, <1>2, <3>1 DEF FireUtimerItem, ChainType
    <2>2. CASE item.cb = "retry" /\ FireRetry(item.obj)
      <3>1. item.obj = 1 /\ 1 \in Objects
        BY <1>2, <2>2, FiredItem DEF FireUtimerItem
      <3>2. FireRetry(1)
        BY <2>2, <3>1
      <3>3. sock' \in [Objects -> SocketStates] /\ env' \in EnvType
        BY <1>0, <3>1, <3>2, StartConnStep DEF FireRetry
      <3>4. backoff \in [Objects -> Nat] /\ backoff' = [backoff EXCEPT ![1] = NextBackoff(@)]
        BY <1>0, <3>2 DEF FireRetry, TypeOK
      <3>5. /\ backoff' \in [Objects -> Nat]
            /\ \A o \in Objects : backoff'[o] = 0 \/ backoff'[o] < 2 ^ RetryCount
        BY <1>0, <3>1, <3>4, NextBackoffStep DEF TypeOK
      <3> QED
        BY <1>0, <1>2, <2>1, <3>2, <3>3, <3>5 DEF FireUtimerItem, FireRetry, TypeOK
    <2>3. CASE FirePause
      <3>1. CASE pool = "operative"
        <4>1. bInUse' \in [Objects -> BOOLEAN] /\ bFin' \in [Objects -> BOOLEAN]
          BY <2>3, <3>1 DEF FirePause
        <4>2. sock' \in [Objects -> SocketStates]
          BY <2>3, <3>1 DEF FirePause, SocketStates
        <4>3. wire' \in WireType
          BY <1>0, <2>3, <3>1 DEF FirePause, TypeOK, WireType
        <4>4. bytesSent' \in 0 .. MsgSize - 1
          BY <2>3, <3>1, XferPoolAssumption DEF FirePause
        <4> QED
          BY <1>0, <1>2, <2>1, <2>3, <3>1, <4>1, <4>2, <4>3, <4>4
          DEF FireUtimerItem, FirePause, TypeOK
      <3>2. CASE pool # "operative"
        BY <1>0, <1>2, <2>1, <2>3, <3>2 DEF FireUtimerItem, FirePause, TypeOK
      <3> QED
        BY <3>1, <3>2
    <2>4. CASE FireResume
      <3>1. pool' \in {"operative", "paused"} /\ wakeup' \in BOOLEAN
        BY <1>0, <2>4 DEF FireResume, TypeOK
      <3> QED
        BY <1>0, <1>2, <2>1, <2>4, <3>1 DEF FireUtimerItem, FireResume, TypeOK
    <2> QED
      BY <1>2, <2>2, <2>3, <2>4 DEF FireUtimerItem
  <1>3. CASE PreSelectPool
    <2>1. chain' \in ChainType
      BY <1>0, <1>3 DEF PreSelectPool, ChainType
    <2>2. CASE UNCHANGED <<bInUse, sock, env>>
      BY <1>0, <1>3, <2>1, <2>2 DEF PreSelectPool, TypeOK
    <2>3. CASE /\ NeedsConn /\ bInUse' = [bInUse EXCEPT ![FirstFree] = TRUE]
               /\ StartConnInDispatcherXferObject(FirstFree)
      <3>1. FirstFree = 1 /\ 1 \in Objects
        BY <1>0, <2>3, FirstFreeIsOne
      <3>2. sock' \in [Objects -> SocketStates] /\ env' \in EnvType
        BY <1>0, <2>3, <3>1, StartConnStep
      <3>3. bInUse' \in [Objects -> BOOLEAN]
        BY <1>0, <2>3, <3>1 DEF TypeOK
      <3> QED
        BY <1>0, <1>3, <2>1, <3>2, <3>3 DEF PreSelectPool, TypeOK
    <2> QED
      BY <1>3, <2>2, <2>3 DEF PreSelectPool
  <1>4. CASE PreSelectObjects
    <2>1. chain' \in ChainType
      BY <1>0, <1>4 DEF PreSelectObjects, ChainType
    <2>2. sets' \in SetsType
      BY <1>4 DEF PreSelectObjects, PreSelectSets, SetsType
    <2> QED
      BY <1>0, <1>4, <2>1, <2>2 DEF PreSelectObjects, TypeOK
  <1> QED
    BY <1>1, <1>2, <1>3, <1>4

\* What select reports are sets of objects.
LEMMA ReadySetsType ==
    ASSUME NEW e \in BOOLEAN
    PROVE  ReadySets(e) \in SetsType /\ NoSets \in SetsType
  BY DEF ReadySets, SetsType, NoSets

\* The current object.
LEMMA CurType ==
    ASSUME TypeOK
    PROVE  cur \in Objects /\ cur \in Nat /\ cur >= 1 /\ cur <= NumOfObject
  <1>1. cur \in Objects
    BY DEF TypeOK, ChainType, cur
  <1> QED
    BY <1>1, XferPoolAssumption DEF Objects

\* A connection is closed: only the current object, its retry and the part of
\* a message that the peer has got are touched.
LEMMA DisconnectStep ==
    ASSUME TypeOK, DisconnectAndRetry
    PROVE  /\ sock' \in [Objects -> SocketStates] /\ bFin' \in [Objects -> BOOLEAN]
           /\ wire' \in WireType /\ wire'.last = wire.last /\ wire'.torn = wire.torn
           /\ due' \in Seq(Item) /\ waiting' \in [Objects -> Nat] /\ wakeup' \in BOOLEAN
           /\ sock' = [sock EXCEPT ![cur] = "none"]
           /\ \/ Items(due') = Items(due) \cup {Retry(cur)} /\ waiting' = waiting
              \/ UNCHANGED due /\ waiting' = [waiting EXCEPT ![cur] = @ + 1]
  <1>0. cur \in Objects
    BY CurType
  <1>1. sock' \in [Objects -> SocketStates] /\ sock' = [sock EXCEPT ![cur] = "none"]
    BY <1>0 DEF DisconnectAndRetry, TypeOK, SocketStates
  <1>2. bFin' \in [Objects -> BOOLEAN]
    BY <1>0 DEF DisconnectAndRetry, TypeOK
  <1>3. wire \in WireType /\ wire' = [wire EXCEPT !.part = 0] /\ wakeup' = TRUE
    BY DEF DisconnectAndRetry, TypeOK
  <1>4. wire' \in WireType /\ wire'.last = wire.last /\ wire'.torn = wire.torn
    BY <1>3 DEF WireType
  <1>5. Retry(cur) \in Item /\ due \in Seq(Item) /\ waiting \in [Objects -> Nat]
    BY <1>0, ItemTypes DEF TypeOK
  <1>6. CASE due' = Append(due, Retry(cur)) /\ UNCHANGED waiting
    <2>1. due' \in Seq(Item) /\ Items(due') = Items(due) \cup {Retry(cur)}
      BY <1>5, <1>6, ItemsAppend
    <2> QED
      BY <1>1, <1>2, <1>3, <1>4, <1>5, <1>6, <2>1
  <1>7. CASE waiting' = [waiting EXCEPT ![cur] = @ + 1] /\ UNCHANGED due
    BY <1>0, <1>1, <1>2, <1>3, <1>4, <1>5, <1>7
  <1> QED
    BY <1>6, <1>7 DEF DisconnectAndRetry, Retry

\* A piece of a message goes to the peer: all that is left of it, or less.
LEMMA PieceStep ==
    ASSUME TypeOK, NEW k \in 0 .. MsgSize - bytesSent
    PROVE  /\ k \in Nat /\ bytesSent \in Nat /\ bytesSent < MsgSize
           /\ bytesSent + k # MsgSize => bytesSent + k \in 0 .. MsgSize - 1
           /\ bytesSent + k \in Nat
  BY XferPoolAssumption DEF TypeOK

\* Select and the callbacks after it.
LEMMA AfterSelectTypes ==
    ASSUME Inv, Select \/ PostSelectWrite \/ DequeueNext \/ PostSelectRead
    PROVE  TypeOK'
  <1> USE DEF objVars, timerVars
  <1>0. TypeOK /\ chain \in ChainType /\ env \in EnvType /\ QueueInv(pq, Message)
    BY DEF Inv, TypeOK, OrderOK
  <1>a. 1 \in Objects
    BY XferPoolAssumption DEF Objects
  <1>1. CASE Select
    <2>1. env' \in EnvType
      BY <1>0, <1>1, FaultStep DEF Select
    <2>2. sets' \in SetsType
      BY <1>1, ReadySetsType DEF Select
    <2>3. chain' \in ChainType /\ wakeup' \in BOOLEAN
      BY <1>0, <1>a, <1>1 DEF Select, ChainType, TypeOK
    <2> QED
      BY <1>0, <1>1, <2>1, <2>2, <2>3 DEF Select, TypeOK
  <1>2. CASE PostSelectWrite
    <2>1. \E a \in {"send", "read"} : chain' = [chain EXCEPT !.at = a]
      BY <1>2 DEF PostSelectWrite
    <2>2. chain' \in ChainType
      BY <1>0, <2>1 DEF ChainType
    <2> QED
      BY <1>0, <1>2, <2>2 DEF PostSelectWrite, TypeOK
  <1>3. CASE DequeueNext
    <2>1. CASE IsEmpty(pq)
      <3>1. chain' \in ChainType
        BY <1>0, <1>3, <2>1 DEF DequeueNext, ChainType
      <3> QED
        BY <1>0, <1>3, <2>1, <3>1 DEF DequeueNext, TypeOK
    <2>2. CASE ~IsEmpty(pq)
      <3>1. \A m \in Message : m.prio \in Prios
        BY DEF Message
      <3>2. pq' \in QueueOf(Message)
        <4>1. QueueInv(Dequeue(pq), Message)
          BY <1>0, <2>2, <3>1, DequeueStep
        <4> QED
          BY <1>3, <2>2, <4>1 DEF DequeueNext, QueueInv
      <3>3. Head(pq.msgs) \in Message
        <4>1. pq.msgs \in Seq(Message) /\ pq.msgs # <<>>
          BY <1>0, <2>2 DEF QueueInv, QueueOf, IsEmpty
        <4> QED
          BY <4>1, TailFacts
      <3> QED
        BY <1>0, <1>3, <2>2, <3>2, <3>3 DEF DequeueNext, TypeOK
    <2> QED
      BY <2>1, <2>2
  <1>4. CASE PostSelectRead
    <2>1. chain' \in ChainType
      <3>1. cur < NumOfObject => cur + 1 \in Objects
        BY <1>0, CurType, XferPoolAssumption DEF Objects
      <3>2. \/ cur < NumOfObject /\ chain' = [chain EXCEPT !.at = "write", !.cur = cur + 1]
            \/ chain' = [chain EXCEPT !.at = "utimer", !.cur = 1]
        BY <1>4 DEF PostSelectRead, NextObject, cur
      <3> HIDE DEF cur
      <3> QED
        BY <1>0, <1>a, <3>1, <3>2 DEF ChainType
    <2>2. CASE DisconnectAndRetry
      BY <1>0, <1>4, <2>1, <2>2, DisconnectStep DEF PostSelectRead, TypeOK
    <2>3. CASE bFin' = [bFin EXCEPT ![cur] = TRUE] /\ UNCHANGED <<sock, timerVars, wakeup, wire>>
      <3>1. bFin' \in [Objects -> BOOLEAN]
        BY <1>0, <2>3, CurType DEF TypeOK
      <3> QED
        BY <1>0, <1>4, <2>1, <2>3, <3>1 DEF PostSelectRead, TypeOK
    <2>4. CASE UNCHANGED <<sock, bFin, timerVars, wakeup, wire>>
      BY <1>0, <1>4, <2>1, <2>4 DEF PostSelectRead, TypeOK
    <2> QED
      BY <1>4, <2>2, <2>3, <2>4 DEF PostSelectRead
  <1> QED
    BY <1>1, <1>2, <1>3, <1>4

\* The sending of the pending message.
LEMMA SendPendingTypes ==
    ASSUME Inv, SendPending
    PROVE  TypeOK'
  <1> USE DEF objVars, timerVars
  <1>0. /\ TypeOK /\ chain \in ChainType /\ env \in EnvType /\ wire \in WireType
        /\ pdmMsg \in Message
    BY DEF Inv, TypeOK, SendPending
  <1>1. [chain EXCEPT !.at = "read"] \in ChainType
    BY <1>0 DEF ChainType
  <1>2. ASSUME NEW k \in 0 .. MsgSize - bytesSent, bytesSent + k = MsgSize, Sent(k)
        PROVE  TypeOK'
    <2>1. wire' \in WireType
      BY <1>0, <1>2 DEF Sent, WireType, Message
    <2>2. bytesSent' \in 0 .. MsgSize - 1 /\ pdmMsg' = NoMsg
      BY <1>2, XferPoolAssumption DEF Sent
    <2> QED
      BY <1>0, <1>2, <2>1, <2>2 DEF Sent, SendPending, TypeOK
  <1>3. ASSUME NEW k \in 0 .. MsgSize - bytesSent, bytesSent + k # MsgSize, PartlySent(k)
        PROVE  TypeOK'
    <2>0. /\ k \in Nat /\ bytesSent + k \in 0 .. MsgSize - 1
      BY <1>0, <1>3, PieceStep
    <2>1. wire' \in WireType
      BY <1>0, <1>3, <2>0 DEF PartlySent, WireType
    <2>2. env' \in EnvType
      BY <1>0, <1>3 DEF PartlySent, EnvType
    <2> QED
      BY <1>0, <1>1, <1>3, <2>0, <2>1, <2>2 DEF PartlySent, SendPending, TypeOK
  <1>4. CASE /\ chain' = [chain EXCEPT !.at = "read"]
             /\ UNCHANGED <<pdmMsg, bytesSent, env, wire>>
    BY <1>0, <1>1, <1>4 DEF SendPending, TypeOK
  <1> QED
    BY <1>2, <1>3, <1>4 DEF SendPending

\* Every step keeps the types.
LEMMA NextTypes == ASSUME Inv, Next PROVE TypeOK'
  BY ProducerTypes, NetworkTypes, BeforeSelectTypes, AfterSelectTypes, SendPendingTypes
  DEF Next, Chain

-----------------------------------------------------------------------------
(* The order of the messages.                                              *)

\* Only an enqueue, a dequeue and the end of a message touch the messages.
LEMMA MessagesStay ==
    ASSUME Inv, Next, ~DequeueNext, ~SendPending,
           \A p \in Producers : ~EnqueueMsg(p, LOW)
    PROVE  UNCHANGED <<pq, pdmMsg>> /\ wire'.last = wire.last /\ env'.msgs = env.msgs
  <1>0. TypeOK /\ wire \in WireType /\ env \in EnvType
    BY DEF Inv, TypeOK
  <1>1. ASSUME NEW o \in Objects, Network(o)
        PROVE  UNCHANGED <<pq, pdmMsg, wire>> /\ env'.msgs = env.msgs
    BY <1>0, <1>1, FaultStep DEF Network, ConnectEnds, PeerCloses, TimePasses
  <1>2. ASSUME NEW p \in Producers, Producer(p)
        PROVE  UNCHANGED <<pq, pdmMsg, wire, env>>
    BY <1>2 DEF Producer, CheckEmpty, WakeupChain
  <1>3. CASE PausePool \/ ResumePool
    BY <1>0, <1>3 DEF PausePool, ResumePool, EnvType
  <1>4. CASE CheckUtimer \/ PreSelectObjects \/ PostSelectWrite
    BY <1>4 DEF CheckUtimer, PreSelectObjects, PostSelectWrite
  <1>5. CASE FireUtimerItem
    <2>1. UNCHANGED <<pq, pdmMsg>>
      BY <1>5 DEF FireUtimerItem
    <2>2. CASE FireRetry(Head(chain.firing).obj) /\ Head(chain.firing).cb = "retry"
      BY <1>0, <1>5, <2>1, <2>2, FiredItem, StartConnStep DEF FireUtimerItem, FireRetry
    <2>3. CASE FirePause
      BY <1>0, <2>1, <2>3 DEF FirePause, WireType
    <2>4. CASE FireResume
      BY <2>1, <2>4 DEF FireResume
    <2> QED
      BY <1>5, <2>2, <2>3, <2>4 DEF FireUtimerItem
  <1>6. CASE PreSelectPool
    BY <1>0, <1>6, FirstFreeIsOne, StartConnStep DEF PreSelectPool
  <1>7. CASE Select
    BY <1>0, <1>7, FaultStep DEF Select
  <1>8. CASE PostSelectRead
    <2>1. UNCHANGED <<pq, pdmMsg, env>>
      BY <1>8 DEF PostSelectRead
    <2>2. CASE DisconnectAndRetry
      BY <1>0, <2>1, <2>2, DisconnectStep
    <2>3. CASE UNCHANGED wire
      BY <2>1, <2>3
    <2> QED
      BY <1>8, <2>2, <2>3 DEF PostSelectRead
  <1> QED
    BY <1>1, <1>2, <1>3, <1>4, <1>5, <1>6, <1>7, <1>8 DEF Next, Chain

\* Messages enter the queue with new ids, leave it in order, and are
\* completed in order.
LEMMA NextOrder == ASSUME Inv, Next PROVE OrderOK'
  <1>0. /\ TypeOK /\ OrderOK /\ QueueInv(pq, Message) /\ wire \in WireType
        /\ env \in EnvType /\ pq.msgs \in Seq(Message)
    BY DEF Inv, TypeOK, OrderOK, QueueOf
  <1>a. \A m \in Message : m.id \in Nat /\ m.prio \in Prios
    BY DEF Message
  <1>b. /\ Newest \in Nat /\ env.msgs \in Nat /\ wire.last \in Nat /\ Newest <= env.msgs
        /\ Ascending(pq.msgs, Newest, env.msgs) /\ wire.last <= Newest
    BY <1>0, <1>a DEF Newest, TypeOK, OrderOK, WireType, EnvType
  <1>1. ASSUME NEW p \in Producers, EnqueueMsg(p, LOW) PROVE OrderOK'
    <2> DEFINE m == [id |-> env.msgs + 1, prio |-> LOW]
    <2>1. m \in Message /\ m.prio = LOW /\ LOW \in Prios /\ m.id = env.msgs + 1
      BY <1>b DEF Message, Prios
    <2>2. env'.msgs = env.msgs + 1 /\ UNCHANGED <<pdmMsg, wire>> /\ Newest' = Newest
      BY <1>0, <1>1 DEF EnqueueMsg, EnvType, Newest
    <2>3. CASE CanBeQueued(pq, LOW) /\ pq' = Enqueue(pq, m)
      <3> HIDE DEF m
      <3>1. /\ QueueInv(pq', Message)
            /\ \/ pq'.msgs = Append(pq.msgs, m)
               \/ pq'.msgs = Append(Tail(pq.msgs), m) /\ pq.msgs # <<>>
        BY <1>0, <2>1, <2>3, EnqueueStep
      <3>2. Ascending(pq'.msgs, Newest, env.msgs + 1)
        BY <1>0, <1>a, <1>b, <2>1, <3>1, OrderKept
      <3> QED
        BY <1>0, <1>b, <2>2, <3>1, <3>2 DEF OrderOK
    <2>4. CASE UNCHANGED pq
      <3>1. Ascending(pq.msgs, Newest, env.msgs + 1)
        BY <1>0, <1>a, <1>b, <2>1, OrderKept
      <3> QED
        BY <1>0, <1>b, <2>2, <2>4, <3>1 DEF OrderOK
    <2> QED
      BY <1>1, <2>3, <2>4 DEF EnqueueMsg
  <1>2. CASE DequeueNext
    <2>1. UNCHANGED <<env, wire>> /\ pdmMsg = NoMsg /\ Newest = wire.last
      BY <1>2 DEF DequeueNext, Newest
    <2>2. CASE IsEmpty(pq)
      BY <1>0, <1>2, <2>1, <2>2 DEF DequeueNext, OrderOK, Newest
    <2>3. CASE ~IsEmpty(pq)
      <3>1. QueueInv(pq', Message) /\ pq'.msgs = Tail(pq.msgs) /\ pq.msgs # <<>>
        BY <1>0, <1>2, <1>a, <2>3, DequeueStep DEF DequeueNext, IsEmpty
      <3>2. pdmMsg' = Head(pq.msgs)
        BY <1>2, <2>3 DEF DequeueNext
      <3>3. /\ pdmMsg'.id \in Nat /\ Newest < pdmMsg'.id /\ pdmMsg'.id <= env.msgs
            /\ Ascending(pq'.msgs, pdmMsg'.id, env.msgs)
        BY <1>0, <1>a, <1>b, <3>1, <3>2, OrderTaken
      <3>4. pdmMsg' \in Message
        BY <1>0, <3>1, <3>2, TailFacts
      <3>5. CASE pdmMsg' # NoMsg
        <4>1. Newest' = pdmMsg'.id /\ wire.last < pdmMsg'.id
          BY <1>b, <2>1, <3>3, <3>5 DEF Newest
        <4> QED
          BY <1>b, <2>1, <3>1, <3>3, <4>1 DEF OrderOK
      <3> QED
        BY <3>4, <3>5, XferPoolAssumption DEF Message
    <2> QED
      BY <2>2, <2>3
  <1>3. CASE SendPending
    <2>1. UNCHANGED pq /\ pdmMsg # NoMsg /\ Newest = pdmMsg.id
      BY <1>3 DEF SendPending, Newest
    <2>2. ASSUME NEW k, Sent(k) PROVE OrderOK'
      <3>1. env' = env /\ pdmMsg' = NoMsg /\ wire'.last = pdmMsg.id
        BY <2>2 DEF Sent
      <3>2. Newest' = pdmMsg.id
        BY <3>1 DEF Newest
      <3> QED
        BY <1>0, <1>b, <2>1, <3>1, <3>2 DEF OrderOK
    <2>3. ASSUME NEW k, PartlySent(k) PROVE OrderOK'
      <3>1. UNCHANGED pdmMsg /\ wire'.last = wire.last /\ env'.msgs = env.msgs
        BY <1>0, <2>3 DEF PartlySent, WireType, EnvType
      <3> QED
        BY <1>0, <2>1, <3>1 DEF OrderOK, Newest
    <2>4. CASE UNCHANGED <<pdmMsg, env, wire>>
      BY <1>0, <2>1, <2>4 DEF OrderOK, Newest
    <2> QED
      BY <1>3, <2>2, <2>3, <2>4 DEF SendPending
  <1>4. CASE UNCHANGED <<pq, pdmMsg>> /\ wire'.last = wire.last /\ env'.msgs = env.msgs
    BY <1>0, <1>4 DEF OrderOK, Newest
  <1> QED
    BY <1>1, <1>2, <1>3, <1>4, MessagesStay

-----------------------------------------------------------------------------
(* The objects, their retries and the connection.                          *)

RestOK == FirstOK /\ CalmOK /\ ChainOK /\ InUseOK

\* A producer changes none of these.
LEMMA ProducerRest ==
    ASSUME Inv, NEW p \in Producers, Producer(p)
    PROVE  RestOK'
  <1>1. env'.faults = env.faults
    BY DEF Producer, CheckEmpty, EnqueueMsg, WakeupChain, Inv, TypeOK, EnvType
  <1>2. UNCHANGED <<pool, pdmMsg, bytesSent, bInUse, sock, due, waiting, chain, sets, wire>>
    BY DEF Producer, CheckEmpty, EnqueueMsg, WakeupChain, objVars, timerVars
  <1> QED
    BY <1>1, <1>2 DEF Inv, RestOK, FirstOK, CalmOK, ChainOK, InUseOK, Pending

\* Neither a pause nor a resume is a retry.
LEMMA PauseRest ==
    ASSUME Inv, PausePool \/ ResumePool
    PROVE  RestOK'
  <1>1. PICK x \in Item : x.cb # "retry" /\ due' = Append(due, x)
    BY ItemTypes DEF PausePool, ResumePool
  <1>2. Pending' = Pending \cup {x}
    <2>1. due \in Seq(Item) /\ UNCHANGED chain
      BY DEF Inv, TypeOK, PausePool, ResumePool
    <2> QED
      BY <1>1, <2>1, ItemsAppend DEF Pending
  <1>3. env'.faults = env.faults
    <2>1. env \in EnvType
      BY DEF Inv, TypeOK
    <2> QED
      BY <2>1 DEF PausePool, ResumePool, EnvType
  <1>4. UNCHANGED <<pool, pdmMsg, bytesSent, bInUse, sock, waiting, chain, sets, wire>>
    BY DEF PausePool, ResumePool, objVars
  <1>5. FirstOK' /\ ChainOK' /\ InUseOK'
    BY <1>1, <1>2, <1>4 DEF Inv, FirstOK, ChainOK, InUseOK
  <1>6. CalmOK'
    BY <1>1, <1>2, <1>3, <1>4 DEF Inv, CalmOK
  <1> QED
    BY <1>5, <1>6 DEF RestOK

\* A connection that dies is a fault; a retry that expires stays a retry.
LEMMA NetworkRest ==
    ASSUME Inv, NEW o \in Objects, Network(o)
    PROVE  RestOK'
  <1>0. env \in EnvType /\ due \in Seq(Item) /\ Retry(o) \in Item
        /\ sock \in [Objects -> SocketStates] /\ waiting \in [Objects -> Nat]
    BY ItemTypes DEF Inv, TypeOK
  <1>1. CASE ConnectEnds(o) \/ PeerCloses(o)
    <2>1. /\ UNCHANGED <<pool, pdmMsg, bytesSent, bInUse, due, waiting, chain, sets, wire>>
          /\ Pending' = Pending
      BY <1>1 DEF ConnectEnds, PeerCloses, timerVars, Pending
    <2>2. /\ sock[o] # "none" /\ sock'[o] # "none"
          /\ \A r \in Objects : r # o => sock'[r] = sock[r]
      BY <1>0, <1>1 DEF ConnectEnds, PeerCloses
    <2>3. env'.faults = 0 => env.faults = 0 /\ sock'[o] = "open" /\ sock[o] = "connecting"
      BY <1>0, <1>1, FaultStep DEF ConnectEnds, PeerCloses
    <2>4. FirstOK' /\ ChainOK' /\ InUseOK'
      BY <2>1, <2>2 DEF Inv, FirstOK, ChainOK, InUseOK
    <2>5. CalmOK'
      BY <2>1, <2>2, <2>3 DEF Inv, CalmOK
    <2> QED
      BY <2>4, <2>5 DEF RestOK
  <1>2. CASE TimePasses(o)
    <2>1. /\ UNCHANGED <<pool, pdmMsg, bytesSent, bInUse, sock, chain, sets, env, wire>>
          /\ waiting[o] > 0 /\ due' = Append(due, Retry(o))
      BY <1>2 DEF TimePasses, objVars, Retry
    <2>2. Pending' = Pending \cup {Retry(o)}
      BY <1>0, <2>1, ItemsAppend DEF Pending
    <2>3. \A r \in Objects : waiting'[r] > 0 => waiting[r] > 0
      BY <1>0, <1>2 DEF TimePasses
    <2>4. \A r \in Objects : r # o => waiting'[r] = waiting[r]
      BY <1>0, <1>2 DEF TimePasses
    <2>5. o = 1 /\ env.faults # 0 /\ Retry(o).obj = o
      BY <1>0, <2>1 DEF Inv, FirstOK, CalmOK, Retry
    <2>6. FirstOK' /\ CalmOK' /\ ChainOK'
      BY <2>1, <2>2, <2>3, <2>5 DEF Inv, FirstOK, CalmOK, ChainOK
    <2>7. InUseOK'
      BY <2>1, <2>2, <2>4 DEF Inv, InUseOK
    <2> QED
      BY <2>6, <2>7 DEF RestOK
  <1> QED
    BY <1>1, <1>2 DEF Network

\* _checkUtimer: the items only change their place.
LEMMA CheckUtimerRest == ASSUME Inv, CheckUtimer PROVE RestOK'
  <1>0. chain \in ChainType /\ chain.at = "utimer"
    BY DEF Inv, TypeOK, CheckUtimer
  <1>1. /\ UNCHANGED <<pool, pdmMsg, bytesSent, bInUse, sock, waiting, sets, env, wire>>
        /\ due' = <<>> /\ chain'.firing = due /\ chain'.at = "fire"
    BY <1>0 DEF CheckUtimer, objVars, ChainType
  <1>2. chain.firing = <<>>
    BY <1>0 DEF Inv, ChainOK
  <1>3. Pending' = Pending
    BY <1>1, <1>2, ItemsEmpty DEF Pending
  <1> QED
    BY <1>1, <1>3 DEF Inv, RestOK, FirstOK, CalmOK, ChainOK, InUseOK

\* A connect is started for the first object: it has a socket afterwards, or
\* no socket can be created.
LEMMA ConnectRest ==
    ASSUME Inv, 1 \in Objects, StartConnInDispatcherXferObject(1),
           UNCHANGED <<pool, pdmMsg, bytesSent, waiting, sets, wire>>,
           chain'.at \in {"fire", "preselect"},
           chain'.at # "fire" => chain'.firing = <<>>,
           \A o \in Objects : o # 1 => bInUse'[o] = bInUse[o],
           Pending' \subseteq Pending,
           \A x \in Pending \ Pending' : x = Retry(1),
           pool = "paused" => env.faults # 0
    PROVE  RestOK'
  <1>1. /\ \A r \in Objects : r # 1 => sock'[r] = sock[r]
        /\ SocketMayFail \/ sock'[1] # "none"
        /\ env'.faults = 0 =>
             /\ env.faults = 0
             /\ sock[1] \in {"none", "connecting", "open"} =>
                  sock'[1] \in {"none", "connecting", "open"}
    BY StartConnStep DEF Inv
  <1>2. FirstOK'
    BY <1>1 DEF Inv, FirstOK
  <1>3. CalmOK'
    BY <1>1 DEF Inv, CalmOK
  <1>4. ChainOK'
    BY DEF Inv, ChainOK
  <1>5. InUseOK'
    <2>1. \A o \in Objects : o # 1 => Retry(o) # Retry(1)
      BY DEF Retry
    <2> QED
      BY <1>1, <2>1 DEF Inv, InUseOK
  <1> QED
    BY <1>2, <1>3, <1>4, <1>5 DEF RestOK

\* The timer callbacks: a retry of the first object, a pause that closes
\* everything and gives up the object in use, a resume.
LEMMA FireUtimerItemRest == ASSUME Inv, FireUtimerItem PROVE RestOK'
  <1> DEFINE item == Head(chain.firing)
  <1>0. chain \in ChainType /\ wire \in WireType
    BY DEF Inv, TypeOK
  <1>1. /\ UNCHANGED <<pdmMsg, due, waiting, sets>>
        /\ chain'.firing = Tail(chain.firing) /\ chain'.at = "fire" /\ chain.at = "fire"
    BY <1>0 DEF FireUtimerItem, timerVars, ChainType
  <1>2. /\ item.cb = "retry" => item.obj = 1 /\ item = Retry(1)
        /\ Items(chain.firing) = Items(Tail(chain.firing)) \cup {item}
        /\ 1 \in Objects
    BY FiredItem DEF FireUtimerItem
  <1>3. /\ Pending' \subseteq Pending /\ \A x \in Pending \ Pending' : x = item
        /\ item \in Pending
    BY <1>1, <1>2 DEF Pending
  <1>4. CASE item.cb = "retry" /\ FireRetry(item.obj)
    <2>1. item = Retry(1) /\ FireRetry(1)
      BY <1>2, <1>4
    <2>2. /\ StartConnInDispatcherXferObject(1)
          /\ UNCHANGED <<pool, bytesSent, bInUse, wire>>
      BY <2>1 DEF FireRetry
    <2>3. env.faults # 0
      BY <1>3, <1>4 DEF Inv, CalmOK
    <2> HIDE DEF item
    <2> QED
      BY <1>1, <1>2, <1>3, <2>1, <2>2, <2>3, ConnectRest
  <1>5. CASE item.cb # "retry" /\ FirePause
    <2>1. CASE pool = "operative"
      <3>1. /\ pool' = "paused" /\ bytesSent' = 0 /\ UNCHANGED env
            /\ \A o \in Objects : bInUse'[o] = FALSE /\ sock'[o] = "none"
            /\ wire'.part = 0 /\ wire'.torn = wire.torn
        BY <1>0, <1>5, <2>1 DEF FirePause, WireType
      <3>2. FirstOK' /\ ChainOK' /\ InUseOK'
        BY <1>1, <1>3, <3>1 DEF Inv, FirstOK, ChainOK, InUseOK
      <3>3. CalmOK'
        BY <1>1, <1>3, <3>1 DEF Inv, CalmOK
      <3> QED
        BY <3>2, <3>3 DEF RestOK
    <2>2. CASE pool # "operative"
      <3>1. UNCHANGED <<pool, bytesSent, bInUse, sock, env, wire>>
        BY <1>5, <2>2 DEF FirePause, objVars
      <3>2. \A o : Retry(o).cb = "retry"
        BY DEF Retry
      <3>3. FirstOK' /\ ChainOK'
        BY <1>1, <1>3, <3>1 DEF Inv, FirstOK, ChainOK
      <3>4. CalmOK'
        BY <1>1, <1>3, <3>1 DEF Inv, CalmOK
      <3>5. InUseOK'
        BY <1>1, <1>3, <1>5, <3>1, <3>2 DEF Inv, InUseOK
      <3> QED
        BY <3>3, <3>4, <3>5 DEF RestOK
    <2> QED
      BY <2>1, <2>2
  <1>6. CASE item.cb # "retry" /\ FireResume
    <2>1. /\ UNCHANGED <<bytesSent, bInUse, sock, env, wire>>
          /\ pool' = "paused" => pool = "paused"
      BY <1>6 DEF FireResume, objVars
    <2>2. \A o : Retry(o).cb = "retry"
      BY DEF Retry
    <2>3. FirstOK' /\ ChainOK'
      BY <1>1, <1>3, <2>1 DEF Inv, FirstOK, ChainOK
    <2>4. CalmOK'
      BY <1>1, <1>3, <2>1 DEF Inv, CalmOK
    <2>5. InUseOK'
      BY <1>1, <1>3, <1>6, <2>1, <2>2 DEF Inv, InUseOK
    <2> QED
      BY <2>3, <2>4, <2>5 DEF RestOK
  <1> QED
    BY <1>4, <1>5, <1>6 DEF FireUtimerItem

\* The chain thread moves on, and touches neither objects nor timers.
LEMMA MoveRest ==
    ASSUME Inv, UNCHANGED <<pool, bInUse, sock, due, waiting>>,
           chain'.firing = chain.firing, chain.firing = <<>>,
           env'.faults = 0 => env.faults = 0,
           pdmMsg' = NoMsg => bytesSent' = 0,
           env'.faults = 0 => wire'.part = bytesSent' /\ ~wire'.torn,
           env'.faults = 0 /\ chain'.at \in {"write", "send", "read"} =>
               sets'.read = {} /\ sets'.error = {}
    PROVE  RestOK'
  <1>1. Pending' = Pending
    BY DEF Pending
  <1> QED
    BY <1>1 DEF Inv, RestOK, FirstOK, CalmOK, ChainOK, InUseOK

\* The callbacks of the pool and of its objects before select.
LEMMA PreSelectRest ==
    ASSUME Inv, PreSelectPool \/ PreSelectObjects
    PROVE  RestOK'
  <1>0. TypeOK /\ chain \in ChainType
    BY DEF Inv, TypeOK
  <1>1. CASE PreSelectPool
    <2>1. /\ UNCHANGED <<pool, pdmMsg, bytesSent, due, waiting, sets, wire>>
          /\ chain'.firing = <<>> /\ chain.firing = <<>> /\ chain'.at = "preselect"
      BY <1>0, <1>1 DEF PreSelectPool, timerVars, ChainType
    <2>2. CASE UNCHANGED <<bInUse, sock, env>>
      BY <2>1, <2>2, MoveRest DEF Inv, CalmOK, ChainOK
    <2>3. CASE /\ pool = "operative" /\ NeedsConn
               /\ bInUse' = [bInUse EXCEPT ![FirstFree] = TRUE]
               /\ StartConnInDispatcherXferObject(FirstFree)
      <3>1. FirstFree = 1 /\ 1 \in Objects
        BY <1>0, <2>3, FirstFreeIsOne
      <3>2. StartConnInDispatcherXferObject(1) /\ bInUse' = [bInUse EXCEPT ![1] = TRUE]
        BY <2>3, <3>1
      <3>3. \A o \in Objects : o # 1 => bInUse'[o] = bInUse[o]
        BY <1>0, <3>2 DEF TypeOK
      <3>4. Pending' = Pending
        BY <2>1 DEF Pending
      <3> QED
        BY <2>1, <2>3, <3>1, <3>2, <3>3, <3>4, ConnectRest
    <2> QED
      BY <1>1, <2>2, <2>3 DEF PreSelectPool
  <1>2. CASE PreSelectObjects
    <2>1. /\ UNCHANGED <<pool, pdmMsg, bytesSent, bInUse, sock, due, waiting, env, wire>>
          /\ chain'.firing = chain.firing /\ chain'.at = "select" /\ chain.at = "preselect"
      BY <1>0, <1>2 DEF PreSelectObjects, objVars, timerVars, ChainType
    <2> QED
      BY <2>1, MoveRest DEF Inv, CalmOK, ChainOK
  <1> QED
    BY <1>1, <1>2

\* Without a dead connection select reports nothing to read.
LEMMA SelectRest == ASSUME Inv, Select PROVE RestOK'
  <1>0. chain \in ChainType /\ env \in EnvType
    BY DEF Inv, TypeOK
  <1>1. /\ UNCHANGED <<pool, pdmMsg, bytesSent, bInUse, sock, due, waiting, wire>>
        /\ chain'.firing = chain.firing /\ chain.firing = <<>>
    BY <1>0 DEF Select, objVars, timerVars, ChainType, Inv, ChainOK
  <1>2. env'.faults = 0 =>
           /\ UNCHANGED env
           /\ \E e \in BOOLEAN : sets' = ReadySets(e)
    BY <1>0, FaultStep DEF Select
  <1>3. ASSUME NEW e \in BOOLEAN, env.faults = 0
        PROVE  ReadySets(e).read = {} /\ ReadySets(e).error = {}
    <2>1. {o \in Objects : sock[o] \in {"refused", "closed"}} = {}
      BY <1>3 DEF Inv, CalmOK
    <2> QED
      BY <2>1 DEF ReadySets
  <1>4. env'.faults = 0 => env.faults = 0 /\ sets'.read = {} /\ sets'.error = {}
    BY <1>2, <1>3
  <1> QED
    BY <1>1, <1>4, MoveRest DEF Inv, CalmOK, ChainOK

\* The write handling.  Without a fault the peer has got the bytes that the
\* pool counts, so that a message that is complete is whole.
LEMMA WriteRest ==
    ASSUME Inv, PostSelectWrite \/ DequeueNext \/ SendPending
    PROVE  RestOK'
  <1>0. /\ TypeOK /\ chain \in ChainType /\ env \in EnvType /\ wire \in WireType
        /\ chain.at \in {"write", "send"} /\ chain.firing = <<>>
    BY DEF Inv, TypeOK, ChainOK, PostSelectWrite, DequeueNext, SendPending
  <1>1. CASE PostSelectWrite
    <2>1. /\ UNCHANGED <<pool, pdmMsg, bytesSent, bInUse, sock, due, waiting, sets, env, wire>>
          /\ chain'.firing = chain.firing
      BY <1>0, <1>1 DEF PostSelectWrite, objVars, timerVars, ChainType
    <2> QED
      BY <1>0, <2>1, MoveRest DEF Inv, CalmOK, ChainOK
  <1>2. CASE DequeueNext
    <2>1. /\ UNCHANGED <<pool, bytesSent, bInUse, sock, due, waiting, sets, env, wire>>
          /\ chain'.firing = chain.firing /\ pdmMsg = NoMsg
      BY <1>0, <1>2 DEF DequeueNext, objVars, timerVars, ChainType
    <2> QED
      BY <1>0, <2>1, MoveRest DEF Inv, CalmOK, ChainOK
  <1>3. CASE SendPending
    <2>1. UNCHANGED <<pool, bInUse, sock, due, waiting, sets>> /\ pdmMsg # NoMsg
      BY <1>3 DEF SendPending, objVars, timerVars
    <2>2. ASSUME NEW k \in 0 .. MsgSize - bytesSent, bytesSent + k = MsgSize, Sent(k)
          PROVE  RestOK'
      <3>1. /\ UNCHANGED <<chain, env>> /\ bytesSent' = 0 /\ wire'.part = 0
            /\ wire'.torn = (wire.torn \/ wire.part + k # MsgSize)
        BY <2>2 DEF Sent
      <3>2. env.faults = 0 => ~wire'.torn
        BY <2>2, <3>1 DEF Inv, CalmOK
      <3> QED
        BY <1>0, <2>1, <3>1, <3>2, MoveRest DEF Inv, CalmOK
    <2>3. ASSUME NEW k \in 0 .. MsgSize - bytesSent, bytesSent + k # MsgSize, PartlySent(k)
          PROVE  RestOK'
      <3>1. /\ UNCHANGED pdmMsg /\ bytesSent' = bytesSent + k
            /\ wire'.part = wire.part + k /\ wire'.torn = wire.torn
            /\ env'.faults = env.faults /\ chain'.firing = chain.firing
        BY <1>0, <2>3 DEF PartlySent, WireType, EnvType, ChainType
      <3> QED
        BY <1>0, <2>1, <3>1, MoveRest DEF Inv, CalmOK
    <2>4. CASE /\ chain' = [chain EXCEPT !.at = "read"]
               /\ UNCHANGED <<pdmMsg, bytesSent, env, wire>>
      <3>1. chain'.firing = chain.firing
        BY <1>0, <2>4 DEF ChainType
      <3> QED
        BY <1>0, <2>1, <2>4, <3>1, MoveRest DEF Inv, CalmOK
    <2> QED
      BY <1>3, <2>2, <2>3, <2>4 DEF SendPending
  <1> QED
    BY <1>1, <1>2, <1>3

\* The read handling: a connection that is closed leaves a retry.
LEMMA ReadRest == ASSUME Inv, PostSelectRead PROVE RestOK'
  <1>0. /\ TypeOK /\ chain \in ChainType /\ chain.at = "read" /\ chain.firing = <<>>
        /\ sock \in [Objects -> SocketStates] /\ waiting \in [Objects -> Nat]
        /\ cur \in Objects
    BY CurType DEF Inv, TypeOK, ChainOK, PostSelectRead
  <1>1. /\ UNCHANGED <<pool, pdmMsg, bytesSent, bInUse, sets, env>>
        /\ chain'.firing = chain.firing
    BY <1>0 DEF PostSelectRead, NextObject, ChainType
  <1>2. CASE UNCHANGED <<sock, timerVars, wire>>
    BY <1>0, <1>1, <1>2, MoveRest DEF Inv, CalmOK, ChainOK, timerVars
  <1>3. CASE /\ sock[cur] # "none" /\ cur \in sets.error \cup sets.read
             /\ DisconnectAndRetry
    <2>1. cur = 1 /\ env.faults # 0
      BY <1>0, <1>3 DEF Inv, FirstOK, CalmOK
    <2>2. /\ sock' = [sock EXCEPT ![cur] = "none"]
          /\ \/ Items(due') = Items(due) \cup {Retry(cur)} /\ waiting' = waiting
             \/ UNCHANGED due /\ waiting' = [waiting EXCEPT ![cur] = @ + 1]
      BY <1>0, <1>3, DisconnectStep
    <2>3. \A o \in Objects : o # cur => sock'[o] = sock[o] /\ waiting'[o] = waiting[o]
      BY <1>0, <2>2
    <2>4. waiting'[cur] > 0 \/ Retry(cur) \in Pending'
      BY <1>0, <2>2 DEF Pending
    <2>5. Pending' \subseteq Pending \cup {Retry(cur)} /\ Pending \subseteq Pending'
      BY <1>1, <2>2 DEF Pending
    <2>6. Retry(cur).obj = cur
      BY DEF Retry
    <2>7. FirstOK' /\ CalmOK' /\ ChainOK'
      BY <1>0, <1>1, <2>1, <2>3, <2>5, <2>6 DEF Inv, FirstOK, CalmOK, ChainOK
    <2>8. InUseOK'
      BY <1>1, <2>3, <2>4, <2>5 DEF Inv, InUseOK
    <2> QED
      BY <2>7, <2>8 DEF RestOK
  <1> QED
    BY <1>2, <1>3 DEF PostSelectRead

-----------------------------------------------------------------------------
(* The theorems.                                                           *)

\* Every step of the producers, the network and the chain thread keeps the
\* invariant.
LEMMA NextInv == Inv /\ [Next]_vars => Inv'
  <1> SUFFICES ASSUME Inv, [Next]_vars PROVE Inv'
    OBVIOUS
  <1>1. CASE Next
    <2>1. TypeOK' /\ OrderOK'
      BY <1>1, NextTypes, NextOrder
    <2>2. RestOK'
      BY <1>1, ProducerRest, PauseRest, NetworkRest, CheckUtimerRest, FireUtimerItemRest,
         PreSelectRest, SelectRest, WriteRest, ReadRest
      DEF Next, Chain
    <2> QED
      BY <2>1, <2>2 DEF Inv, RestOK
  <1>2. CASE UNCHANGED vars
    BY <1>2
    DEF vars, objVars, timerVars, Inv, TypeOK, OrderOK, Newest, FirstOK, CalmOK, ChainOK,
        InUseOK, Pending
  <1> QED
    BY <1>1, <1>2

\* The invariant of the pool of xferpool.c, whatever the numbers of objects,
\* messages, faults and pauses.
THEOREM Invariance == Spec => []Inv
  BY InitInv, NextInv, PTL DEF Spec

\* The messages of the pool are completed in the order in which they were
\* queued, none twice; it has one connection, none when it is paused and no
\* connection failed; and no message is torn by pauses and resumes
\* (xferpool.c).
LEMMA InvSound == Inv => InOrder /\ ConnectionsMatchState /\ NotTornByPause /\ TypeOK
  <1> SUFFICES ASSUME Inv PROVE InOrder /\ ConnectionsMatchState /\ NotTornByPause
    BY DEF Inv
  <1>1. InOrder
    <2>1. DOMAIN pq.msgs = 1 .. Len(pq.msgs) /\ \A i \in DOMAIN pq.msgs : pq.msgs[i] \in Message
      BY DEF Inv, TypeOK, QueueOf
    <2>2. /\ wire.last \in Nat
          /\ pdmMsg # NoMsg => pdmMsg.id \in Nat
          /\ \A i \in DOMAIN pq.msgs : pq.msgs[i].id \in Nat
      BY <2>1 DEF Inv, TypeOK, WireType, Message
    <2>3. \A i \in DOMAIN pq.msgs : Newest < pq.msgs[i].id
      BY <2>1 DEF Inv, OrderOK, Ascending
    <2>4. CASE pdmMsg = NoMsg
      BY <2>3, <2>4 DEF Newest, InOrder
    <2>5. CASE pdmMsg # NoMsg
      <3>1. Newest = pdmMsg.id /\ wire.last < pdmMsg.id
        BY <2>5 DEF Newest, Inv, OrderOK
      <3>2. \A i \in DOMAIN pq.msgs : wire.last < pq.msgs[i].id
        BY <2>2, <2>3, <2>5, <3>1
      <3> QED
        BY <2>3, <3>1, <3>2 DEF InOrder
    <2> QED
      BY <2>4, <2>5
  <1>2. ConnectionsMatchState /\ NotTornByPause
    BY DEF Inv, FirstOK, CalmOK, ConnectionsMatchState, NotTornByPause, NotTorn
  <1> QED
    BY <1>1, <1>2

\* The object in use is on its way.
LEMMA InvInUse == ASSUME ~SocketMayFail PROVE Inv => InUseIsConnecting
  BY DEF Inv, InUseOK, InUseIsConnecting, RetryPending, Pending, Items, Retry

\* The order of the messages, the one connection and the whole messages do
\* not depend on whether sockets can be created.
THEOREM PoolKeepsOrder ==
    Spec => [](TypeOK /\ InOrder /\ ConnectionsMatchState /\ NotTornByPause)
  BY Invariance, InvSound, PTL

\* As long as jf_network_createTypeStreamSocket does not fail (its callers
\* ignore what _startConnInDispatcherXferObject returns), the object in use
\* has a connection, is connecting, or has a retry to come: the pool never
\* waits for nothing.
THEOREM PoolSoundAlways ==
    ASSUME ~SocketMayFail
    PROVE  Spec => []PoolSound
  <1>1. Inv => PoolSound
    BY InvSound, InvInUse DEF PoolSound
  <1> QED
    BY <1>1, Invariance, PTL
=============================================================================
