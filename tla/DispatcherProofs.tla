-------------------------- MODULE DispatcherProofs --------------------------
(***************************************************************************)
(* Proofs about the dispatcher daemon, whatever the services, their        *)
(* messages and the interleaving of its three threads.                     *)
(*                                                                         *)
(* It never sleeps on a queued message.  The count of WakeupsCoverQueue is *)
(* inductive once the types of the variables it names are known: an        *)
(* enqueue is followed by its up (the server chain is at "semUp" in        *)
(* between), a down is followed by a dequeue (the dispatcher thread is at  *)
(* "first" in between) that takes a message or finds the queue empty, and  *)
(* everything else leaves the count alone or makes the queue shorter.      *)
(*                                                                         *)
(* It routes every message to its subscribers, in order.  A message is     *)
(* numbered when it arrives, and the daemon's queue and the records of the *)
(* threads hold the last numbers without a gap; so one number, Limit(s),   *)
(* says which messages the client of s has been offered, and it goes up by *)
(* one exactly when the dispatcher thread comes to that client.  What the  *)
(* client holds (sent, being sent, queued) is ascending and below Limit(s),*)
(* is meant for s, and together with what a full queue has lost it is all  *)
(* that was for everybody.                                                 *)
(***************************************************************************)
EXTENDS Dispatcher, PrioQueueOpsProofs

\* What the count needs to know of the state: a message that is created is
\* one, in particular it is numbered within the bound.
CountTypes ==
    /\ inq \in Seq(Messages)
    /\ sem \in Nat
    /\ srv.at = "enqueue" => srv.m \in Messages
    /\ log \in Seq(Messages)
    /\ owner \in Seq(Service)
    /\ Len(Services) <= Len(owner)
    /\ Len(log) + Len(owner) <= Len(Services) + MaxEvents

Inv == CountTypes /\ WakeupsCoverQueue

\* The thread sleeps in jf_sem_down, or is about to, with no up on its way,
\* only when the queue of the daemon is empty.
NoneStranded ==
    disp.at = "semDown" /\ sem = 0 /\ srv.at # "semUp" => inq = <<>>

\* The invariant holds when the daemon starts.
LEMMA InitInv == Init => Inv
  <1> SUFFICES ASSUME Init PROVE Inv
    OBVIOUS
  <1>1. CountTypes
    BY DispatcherAssumption DEF Init, CountTypes
  <1>2. WakeupsCoverQueue
    BY DEF Init, WakeupsCoverQueue, If
  <1> QED
    BY <1>1, <1>2 DEF Inv

\* A message that _processServiceServerMsg creates has its type.
LEMMA CreatedMessage ==
    ASSUME Inv, NEW s \in Service, NEW src \in Pids, NEW k \in Kinds,
           NEW dest \in Pids \cup {0}, MoreEvents
    PROVE  [id |-> Len(log) + 1, mid |-> k.mid, src |-> src, dest |-> dest,
            prio |-> k.prio] \in Messages
  <1>1. k.mid \in MsgId /\ k.prio \in Prios
    BY DispatcherAssumption
  <1>2. Len(log) + 1 \in 1 .. MaxEvents
    BY DispatcherAssumption DEF Inv, CountTypes, MoreEvents
  <1> QED
    BY <1>1, <1>2 DEF Messages

\* Every step of the daemon, of its services and of stopDispatcher preserves
\* the invariant.
LEMMA NextInv == Inv /\ [Next]_vars => Inv'
  <1> SUFFICES ASSUME Inv, [Next]_vars PROVE Inv'
    OBVIOUS
  <1> USE DEF Inv, CountTypes, WakeupsCoverQueue, If
  <1>1. ASSUME NEW s \in Service, Restart(s) PROVE Inv'
    BY <1>1, DispatcherAssumption DEF Restart, MoreEvents
  <1>2. ASSUME NEW s \in Service, NEW src \in Pids, NEW k \in Kinds,
               NEW dest \in Pids \cup {0}, ProcessServerMsg(s, src, k, dest)
        PROVE  Inv'
    <2> DEFINE m == [id |-> Len(log) + 1, mid |-> k.mid, src |-> src, dest |-> dest,
                     prio |-> k.prio]
    <2>1. MoreEvents
      BY <1>2 DEF ProcessServerMsg
    <2>2. m \in Messages
      BY <2>1, CreatedMessage
    <2>3. /\ srv' = [at |-> "enqueue", m |-> m] /\ log' = Append(log, m)
          /\ srv.at = "idle"
          /\ UNCHANGED <<owner, inq, sem, disp>>
      BY <1>2 DEF ProcessServerMsg
    <2> HIDE DEF m
    <2>4. CountTypes'
      <3>1. log' \in Seq(Messages) /\ Len(log') = Len(log) + 1
        BY <2>2, <2>3
      <3>2. Len(log') + Len(owner') <= Len(Services) + MaxEvents
        BY <2>1, <2>3, <3>1, DispatcherAssumption DEF MoreEvents
      <3>3. srv'.at = "enqueue" => srv'.m \in Messages
        BY <2>2, <2>3
      <3> QED
        BY <2>3, <3>1, <3>2, <3>3
    <2>5. WakeupsCoverQueue'
      BY <2>3
    <2> QED
      BY <2>4, <2>5
  <1>3. CASE EnqueueMsg
    <2>1. inq' \in Seq(Messages) /\ Len(inq') = Len(inq) + 1
      BY <1>3 DEF EnqueueMsg
    <2> QED
      BY <1>3, <2>1 DEF EnqueueMsg
  <1>4. CASE SemUp
    BY <1>4 DEF SemUp
  <1>5. CASE DispStep
    <2>1. CASE DispTop
      BY <2>1 DEF DispTop
    <2>2. CASE SemDown
      BY <2>2 DEF SemDown
    <2>3. CASE DispDequeue
      <3>1. CASE inq = <<>>
        BY <2>3, <3>1 DEF DispDequeue
      <3>2. CASE inq # <<>>
        <4>1. inq' = Tail(inq)
          BY <2>3, <3>2 DEF DispDequeue
        <4>2. inq' \in Seq(Messages) /\ Len(inq') = Len(inq) - 1
          BY <4>1, <3>2
        <4>3. CountTypes'
          BY <2>3, <3>2, <4>2 DEF DispDequeue
        <4>4. UNCHANGED <<sem, srv>>
          BY <2>3, <3>2 DEF DispDequeue
        <4> QED
          BY <4>2, <4>3, <4>4
      <3> QED
        BY <3>1, <3>2
    <2>4. CASE DispSkip
      BY <2>4 DEF DispSkip
    <2>5. CASE DispSend
      <3>1. UNCHANGED <<inq, sem, srv, log, owner>> /\ disp.at = "next"
        BY <2>5 DEF DispSend
      <3>2. disp'.at # "first"
        BY <2>5 DEF DispSend
      <3> QED
        BY <3>1, <3>2
    <2>6. CASE DispFull
      BY <2>6 DEF DispFull
    <2>7. CASE DispDone
      BY <2>7 DEF DispDone
    <2> QED
      BY <1>5, <2>1, <2>2, <2>3, <2>4, <2>5, <2>6, <2>7 DEF DispStep
  <1>6. ASSUME NEW s \in Service, CliDequeue(s) \/ CliSent(s) PROVE Inv'
    BY <1>6 DEF CliDequeue, CliSent
  <1>7. CASE SetTerminate
    BY <1>7 DEF SetTerminate
  <1>8. CASE StopSemUp
    BY <1>8 DEF StopSemUp
  <1>9. CASE UNCHANGED vars
    BY <1>9 DEF vars
  <1> QED
    BY <1>1, <1>2, <1>3, <1>4, <1>5, <1>6, <1>7, <1>8, <1>9 DEF Next, CliStep

\* In every state of the daemon the semaphore covers the queue, for any
\* services, messages, bounds and behaviour of the clients.
THEOREM WakeupsCoverQueueAlways == Spec => []WakeupsCoverQueue
  <1>1. Init => Inv
    BY InitInv
  <1>2. Inv /\ [Next]_vars => Inv'
    BY NextInv
  <1>3. Inv => WakeupsCoverQueue
    BY DEF Inv
  <1> QED
    BY <1>1, <1>2, <1>3, PTL DEF Spec

\* The dispatcher thread never sleeps on a message: when it is in jf_sem_down
\* with the semaphore at 0 and no jf_sem_up on its way, nothing is queued.
THEOREM NeverSleepsOnMessage == Spec => []NoneStranded
  <1>1. Init => Inv
    BY InitInv
  <1>2. Inv /\ [Next]_vars => Inv'
    BY NextInv
  <1>3. Inv => NoneStranded
    BY DEF Inv, CountTypes, WakeupsCoverQueue, If, NoneStranded
  <1> QED
    BY <1>1, <1>2, <1>3, PTL DEF Spec

-----------------------------------------------------------------------------
(* The routing.                                                            *)

\* The messages that the dispatcher thread has taken out of the queue of the
\* daemon: messages wait there, and in the server chain, in their order.
Done == Len(log) - If(srv.at = "enqueue") - Len(inq)

\* A message goes through the server chain, the queue and the dispatcher
\* thread under its number.
PipeOK ==
    /\ \A i \in 1 .. Len(log) : log[i].id = i
    /\ Done \in Nat
    /\ \A i \in 1 .. Len(inq) : inq[i] = log[Done + i]
    /\ IF srv.at = "enqueue" THEN Len(log) >= 1 /\ srv.m = log[Len(log)] ELSE srv.m = NoMsg
    /\ IF disp.at = "next" THEN Done >= 1 /\ disp.m = log[Done] ELSE disp.m = NoMsg
    /\ sem + If(srv.at # "idle") <= Len(log) + If(main = "stopped")

\* The dispatcher thread comes to every client once.
TodoOK == \A i, j \in DOMAIN disp.todo : disp.todo[i] = disp.todo[j] => i = j

\* The id that is saved for a service is that of a process of it.
IdsOK ==
    \A s \in Service :
        servId[s] # 0 => /\ servId[s] \in DOMAIN owner /\ owner[servId[s]] = s
                         /\ s \notin paused

\* The newest message that the client of a service may have got.
Limit(s) == IF disp.at = "next" /\ s \in Items(disp.todo) THEN Done - 1 ELSE Done

\* The numbers of the message sent last, and of the one taken last.
LastSent(s) == IF sent[s] = <<>> THEN 0 ELSE sent[s][Len(sent[s])].id
Taken(s) == IF pdmMsg[s] = NoMsg THEN LastSent(s) ELSE pdmMsg[s].id

\* What a client has got, in any of the three places.
Got(s) ==
    Items(sent[s]) \cup Items(q[s].msgs) \cup (IF pdmMsg[s] = NoMsg THEN {} ELSE {pdmMsg[s]})

\* The messages in the three places follow each other.
LineOf(s) ==
    /\ QueueInv(q[s], Messages)
    /\ Ascending(sent[s], 0, LastSent(s))
    /\ Ascending(q[s].msgs, Taken(s), Limit(s))
    /\ LastSent(s) <= Taken(s)
    /\ pdmMsg[s] # NoMsg => LastSent(s) < Taken(s)
    /\ Taken(s) <= Limit(s)

\* A client has got only what is meant for its service, ...
MeantFor(s) ==
    \A x \in Got(s) : /\ x.mid \in Subscribed[s]
                      /\ x.dest # 0 => x.dest \in DOMAIN owner /\ owner[x.dest] = s

\* ... and of the messages for everybody all those the dispatcher thread has
\* come to it with, but for those that a full queue has lost.
GotBy(s) ==
    \A n \in 1 .. Limit(s) :
        log[n].dest = 0 /\ log[n].mid \in Subscribed[s]
            => <<n, s>> \in dropped \/ \E x \in Got(s) : x.id = n

LinesOK == \A s \in Service : LineOf(s) /\ MeantFor(s) /\ GotBy(s)

\* The inductive invariant of the routing.
RouteInv ==
    Inv /\ TypeOK /\ PipeOK /\ TodoOK /\ IdsOK /\ LinesOK

\* The messages are numbered, and none of them is NULL.
LEMMA MessageFields ==
    /\ \A x \in Messages : x # NoMsg /\ x.id \in Nat /\ x.id >= 1 /\ x.prio \in Prios
    /\ \A x \in Messages : x.dest \in Pids \cup {0}
    /\ 0 \notin Pids
  <1>1. \A x \in Messages : x # NoMsg
    BY NoMsgAssumption
  <1>2. \A x \in Messages : x.id \in Nat /\ x.id >= 1 /\ x.prio \in Prios
    BY DispatcherAssumption DEF Messages
  <1>3. \A x \in Messages : x.dest \in Pids \cup {0}
    BY DEF Messages
  <1>4. 0 \notin Pids
    BY DispatcherAssumption DEF Pids
  <1> QED
    BY <1>1, <1>2, <1>3, <1>4

\* The messages that wait before the dispatcher thread are the last ones of
\* those that arrived.
LEMMA PipeFacts ==
    ASSUME RouteInv
    PROVE  /\ log \in Seq(Messages) /\ Len(log) \in Nat /\ Len(log) <= MaxEvents
           /\ inq \in Seq(Messages) /\ Len(inq) \in Nat
           /\ sem \in Nat
           /\ Done \in Nat /\ Done + Len(inq) + If(srv.at = "enqueue") = Len(log)
           /\ Done + Len(inq) <= Len(log)
           /\ \A i \in 1 .. Len(log) : log[i] \in Messages
  <1>1. /\ log \in Seq(Messages) /\ inq \in Seq(Messages) /\ sem \in Nat
        /\ owner \in Seq(Service) /\ Len(Services) \in Nat /\ MaxEvents \in Nat
        /\ Len(Services) <= Len(owner)
        /\ Len(log) + Len(owner) <= Len(Services) + MaxEvents
    BY DispatcherAssumption DEF RouteInv, Inv, CountTypes
  <1>2. Len(log) \in Nat /\ Len(log) <= MaxEvents /\ Len(inq) \in Nat
    BY <1>1
  <1>3. Done \in Nat
    BY DEF RouteInv, PipeOK
  <1>4. If(srv.at = "enqueue") \in {0, 1}
    BY DEF If
  <1>5. Done + Len(inq) + If(srv.at = "enqueue") = Len(log) /\ Done + Len(inq) <= Len(log)
    BY <1>2, <1>3, <1>4 DEF Done
  <1> QED
    BY <1>1, <1>2, <1>3, <1>5

\* The routing starts with nothing on its way.
LEMMA InitRoute == Init => RouteInv
  <1> SUFFICES ASSUME Init PROVE RouteInv
    OBVIOUS
  <1>1. Inv
    BY InitInv
  <1>2. /\ \A s \in Service : q[s] = EmptyPrioQueue /\ pdmMsg[s] = NoMsg /\ sent[s] = <<>>
        /\ log = <<>> /\ inq = <<>> /\ disp.at = "top" /\ disp.m = NoMsg /\ disp.todo = <<>>
        /\ srv.at = "idle" /\ srv.m = NoMsg /\ sem = 0 /\ main = "run"
        /\ \A s \in Service : servId[s] = 0
    BY DEF Init
  <1>3. EmptyPrioQueue \in QueueOf(Messages) /\ EmptyPrioQueue.msgs = <<>>
    BY MaxNumMsgAssumption DEF EmptyPrioQueue, QueueOf, Counter
  <1>4. TypeOK
    <2>1. owner \in Seq(Service) /\ paused \subseteq Service /\ main = "run"
      BY DispatcherAssumption DEF Init
    <2>2. /\ srv \in [at : {"idle", "enqueue", "semUp"}, m : MaybeMessage]
          /\ disp \in [at : {"top", "semDown", "first", "more", "next", "end"},
                        m : MaybeMessage, todo : Seq(Service), err : BOOLEAN]
      BY DEF Init, MaybeMessage
    <2>3. /\ servId \in [Service -> Pids \cup {0}]
          /\ pdmMsg \in [Service -> MaybeMessage]
          /\ sent \in [Service -> Seq(Messages)]
          /\ q \in [Service -> QueueOf(Messages)]
      BY <1>3 DEF Init, MaybeMessage
    <2>4. /\ inq \in Seq(Messages) /\ log \in Seq(Messages) /\ sem \in 0 .. MaxEvents + 1
          /\ Len(log) + Len(owner) <= Len(Services) + MaxEvents
      BY DispatcherAssumption DEF Init
    <2> QED
      BY <2>1, <2>2, <2>3, <2>4, Zenon DEF TypeOK
  <1>5. Done = 0 /\ \A s \in Service : Limit(s) = 0
    BY <1>2 DEF Done, Limit, If
  <1>6. PipeOK
    BY <1>2, <1>5 DEF PipeOK, If
  <1>7. TodoOK /\ IdsOK
    BY <1>2 DEF TodoOK, IdsOK
  <1>8. \A s \in Service : LastSent(s) = 0 /\ Taken(s) = 0 /\ Got(s) = {}
    BY <1>2, <1>3, ItemsEmpty DEF LastSent, Taken, Got
  <1>9. QueueInv(EmptyPrioQueue, Messages)
    BY <1>3, ModSmall, MaxNumMsgAssumption DEF QueueInv, NumOfMsg, EmptyPrioQueue
  <1>10. Ascending(<<>>, 0, 0)
    BY DEF Ascending
  <1>11. LinesOK
    BY <1>2, <1>3, <1>5, <1>8, <1>9, <1>10 DEF LinesOK, LineOf, MeantFor, GotBy
  <1> QED
    BY <1>1, <1>4, <1>6, <1>7, <1>11 DEF RouteInv

\* The steps that leave the queue of the daemon alone.
LEMMA PipeStays ==
    ASSUME RouteInv, UNCHANGED <<log, inq>>,
           srv'.at = "enqueue" <=> srv.at = "enqueue", srv'.m = srv.m,
           IF disp'.at = "next" THEN disp.at = "next" /\ disp'.m = disp.m ELSE disp'.m = NoMsg,
           sem' + If(srv'.at # "idle") <= Len(log) + If(main' = "stopped")
    PROVE  PipeOK' /\ Done' = Done
  <1>1. Done' = Done
    BY DEF Done, If
  <1>2. /\ \A i \in 1 .. Len(log) : log[i].id = i
        /\ Done \in Nat
        /\ \A i \in 1 .. Len(inq) : inq[i] = log[Done + i]
        /\ IF srv.at = "enqueue" THEN Len(log) >= 1 /\ srv.m = log[Len(log)] ELSE srv.m = NoMsg
        /\ IF disp.at = "next" THEN Done >= 1 /\ disp.m = log[Done] ELSE disp.m = NoMsg
    BY DEF RouteInv, PipeOK
  <1> QED
    BY <1>1, <1>2 DEF PipeOK

\* _processServiceServerMsg adds a message behind the others.
LEMMA ProcessPipe ==
    ASSUME RouteInv, NEW s \in Service, NEW src \in Pids, NEW k \in Kinds,
           NEW dest \in Pids \cup {0}, ProcessServerMsg(s, src, k, dest)
    PROVE  /\ PipeOK' /\ Done' = Done
           /\ Len(log') = Len(log) + 1
           /\ \A i \in 1 .. Len(log) : log'[i] = log[i]
           /\ log' \in Seq(Messages) /\ srv'.m \in Messages /\ srv'.at = "enqueue"
           /\ srv' \in [at : {"idle", "enqueue", "semUp"}, m : MaybeMessage]
  <1> DEFINE m == [id |-> Len(log) + 1, mid |-> k.mid, src |-> src, dest |-> dest,
                   prio |-> k.prio]
  <1>1. /\ srv.at = "idle" /\ MoreEvents
        /\ log' = Append(log, m) /\ srv' = [at |-> "enqueue", m |-> m]
        /\ UNCHANGED <<inq, sem, main, disp>>
    BY DEF ProcessServerMsg
  <1>2. m \in Messages /\ m.id = Len(log) + 1
    BY <1>1, CreatedMessage DEF RouteInv
  <1> HIDE DEF m
  <1>3. /\ Len(log') = Len(log) + 1 /\ log' \in Seq(Messages)
        /\ \A i \in 1 .. Len(log) : log'[i] = log[i]
        /\ log'[Len(log) + 1] = m
    BY <1>1, <1>2, PipeFacts
  <1>4. Done' = Done
    BY <1>1, <1>3, PipeFacts DEF Done, If
  <1>5. \A i \in 1 .. Len(log') : log'[i].id = i
    <2>1. \A i \in 1 .. Len(log) : log[i].id = i
      BY DEF RouteInv, PipeOK
    <2>2. \A i \in 1 .. Len(log) + 1 : i \in 1 .. Len(log) \/ i = Len(log) + 1
      BY PipeFacts
    <2> QED
      BY <1>2, <1>3, <2>1, <2>2
  <1>6. \A i \in 1 .. Len(inq') : inq'[i] = log'[Done' + i]
    <2>1. \A i \in 1 .. Len(inq) : inq[i] = log[Done + i]
      BY DEF RouteInv, PipeOK
    <2>2. \A i \in 1 .. Len(inq) : Done + i \in 1 .. Len(log)
      BY PipeFacts
    <2> QED
      BY <1>1, <1>3, <1>4, <2>1, <2>2
  <1>7. IF disp'.at = "next" THEN Done' >= 1 /\ disp'.m = log'[Done'] ELSE disp'.m = NoMsg
    <2>1. IF disp.at = "next" THEN Done >= 1 /\ disp.m = log[Done] ELSE disp.m = NoMsg
      BY DEF RouteInv, PipeOK
    <2>2. Done >= 1 => Done \in 1 .. Len(log)
      BY PipeFacts
    <2> QED
      BY <1>1, <1>3, <1>4, <2>1, <2>2
  <1>8. sem' + If(srv'.at # "idle") <= Len(log') + If(main' = "stopped")
    <2>1. sem + If(srv.at # "idle") <= Len(log) + If(main = "stopped")
      BY DEF RouteInv, PipeOK
    <2> QED
      BY <1>1, <1>3, <2>1, PipeFacts DEF If
  <1>9. Len(log') >= 1 /\ srv'.m = log'[Len(log')] /\ srv'.at = "enqueue" /\ srv'.m \in Messages
    BY <1>1, <1>2, <1>3, PipeFacts
  <1>10. PipeOK'
    BY <1>4, <1>5, <1>6, <1>7, <1>8, <1>9, PipeFacts DEF PipeOK
  <1> QED
    BY <1>1, <1>2, <1>3, <1>4, <1>9, <1>10 DEF MaybeMessage

\* _enqueueMsgInDispatcherMsgQueue moves it from the server chain to the queue.
LEMMA EnqueuePipe ==
    ASSUME RouteInv, EnqueueMsg
    PROVE  PipeOK' /\ Done' = Done /\ inq' \in Seq(Messages)
  <1>1. /\ srv.at = "enqueue" /\ inq' = Append(inq, srv.m)
        /\ srv' = [at |-> "semUp", m |-> NoMsg]
        /\ UNCHANGED <<sem, main, disp, log>>
    BY DEF EnqueueMsg
  <1>2. Len(log) >= 1 /\ srv.m = log[Len(log)] /\ Done + Len(inq) + 1 = Len(log)
    BY <1>1, PipeFacts DEF RouteInv, PipeOK, If
  <1>3. srv.m \in Messages
    BY <1>2, PipeFacts
  <1>4. /\ inq' \in Seq(Messages) /\ Len(inq') = Len(inq) + 1
        /\ \A i \in 1 .. Len(inq) : inq'[i] = inq[i]
        /\ inq'[Len(inq) + 1] = srv.m
    BY <1>1, <1>3, PipeFacts
  <1>5. Done' = Done
    BY <1>1, <1>4, PipeFacts DEF Done, If
  <1>6. \A i \in 1 .. Len(inq') : inq'[i] = log'[Done' + i]
    <2>1. \A i \in 1 .. Len(inq) : inq[i] = log[Done + i]
      BY DEF RouteInv, PipeOK
    <2>2. \A i \in 1 .. Len(inq) + 1 : i \in 1 .. Len(inq) \/ i = Len(inq) + 1
      BY PipeFacts
    <2>3. Done + (Len(inq) + 1) = Len(log)
      BY <1>2, PipeFacts
    <2> QED
      BY <1>1, <1>2, <1>4, <1>5, <2>1, <2>2, <2>3
  <1>7. sem' + If(srv'.at # "idle") <= Len(log') + If(main' = "stopped")
    BY <1>1 DEF RouteInv, PipeOK, If
  <1>8. /\ \A i \in 1 .. Len(log) : log[i].id = i
        /\ IF disp.at = "next" THEN Done >= 1 /\ disp.m = log[Done] ELSE disp.m = NoMsg
    BY DEF RouteInv, PipeOK
  <1> QED
    BY <1>1, <1>4, <1>5, <1>6, <1>7, <1>8, PipeFacts DEF PipeOK

\* The dispatcher thread takes the first one.
LEMMA DequeuePipe ==
    ASSUME RouteInv, DispDequeue, inq # <<>>
    PROVE  /\ PipeOK' /\ Done' = Done + 1 /\ inq' \in Seq(Messages)
           /\ disp'.at = "next" /\ disp'.todo = Bucket /\ disp'.m \in Messages
           /\ disp'.err = disp.err
  <1>0. disp \in [at : {"top", "semDown", "first", "more", "next", "end"},
                  m : MaybeMessage, todo : Seq(Service), err : BOOLEAN]
    BY DEF RouteInv, TypeOK
  <1>1. /\ disp' = [disp EXCEPT !.at = "next", !.m = Head(inq), !.todo = Bucket]
        /\ inq' = Tail(inq) /\ UNCHANGED <<sem, main, srv, log>>
    BY DEF DispDequeue
  <1>2. disp'.at = "next" /\ disp'.m = Head(inq) /\ disp'.todo = Bucket /\ disp'.err = disp.err
    BY <1>0, <1>1
  <1>3. /\ inq' \in Seq(Messages) /\ Len(inq) >= 1 /\ Len(inq') = Len(inq) - 1
        /\ Head(inq) \in Messages /\ Head(inq) = inq[1]
        /\ \A i \in 1 .. Len(inq) - 1 : inq'[i] = inq[i + 1]
    BY <1>1, PipeFacts, TailFacts
  <1>4. Done' = Done + 1
    BY <1>1, <1>3, PipeFacts DEF Done, If
  <1>5. \A i \in 1 .. Len(inq) : inq[i] = log[Done + i]
    BY DEF RouteInv, PipeOK
  <1>6. \A i \in 1 .. Len(inq') : inq'[i] = log'[Done' + i]
    <2>1. \A i \in 1 .. Len(inq) - 1 : i + 1 \in 1 .. Len(inq) /\ Done + (i + 1) = Done + 1 + i
      BY <1>3, PipeFacts
    <2> QED
      BY <1>1, <1>3, <1>4, <1>5, <2>1
  <1>7. Done' >= 1 /\ disp'.m = log'[Done']
    <2>1. 1 \in 1 .. Len(inq)
      BY <1>3, PipeFacts
    <2> QED
      <3>1. inq[1] = log[Done + 1]
        BY <1>5, <2>1
      <3>2. Done + 1 >= 1
        BY PipeFacts
      <3> QED
        BY <1>1, <1>2, <1>3, <1>4, <3>1, <3>2
  <1>8. /\ \A i \in 1 .. Len(log) : log[i].id = i
        /\ IF srv.at = "enqueue" THEN Len(log) >= 1 /\ srv.m = log[Len(log)] ELSE srv.m = NoMsg
        /\ sem + If(srv.at # "idle") <= Len(log) + If(main = "stopped")
    BY DEF RouteInv, PipeOK
  <1>9. PipeOK'
    BY <1>1, <1>2, <1>4, <1>6, <1>7, <1>8, PipeFacts DEF PipeOK
  <1> QED
    BY <1>2, <1>3, <1>4, <1>9

\* The bucket holds every client once.
LEMMA BucketFacts ==
    /\ Bucket \in Seq(Service) /\ Items(Bucket) = Service
    /\ \A i, j \in DOMAIN Bucket : Bucket[i] = Bucket[j] => i = j
  <1> DEFINE n == Len(Services)
  <1>1. /\ Services \in Seq(Service) /\ n \in Nat /\ DOMAIN Services = 1 .. n
        /\ \A i, j \in 1 .. n : Services[i] = Services[j] => i = j
    BY DispatcherAssumption
  <1>2. \A s \in Service : \E i \in 1 .. n : Services[i] = s
    BY <1>1 DEF Service, Range
  <1>3. Bucket = [i \in 1 .. n |-> Services[n + 1 - i]]
    BY <1>1 DEF Bucket
  <1> HIDE DEF n
  <1>4. \A i \in 1 .. n : n + 1 - i \in 1 .. n /\ n + 1 - (n + 1 - i) = i
    BY <1>1
  <1>5. \A i \in 1 .. n : Bucket[i] = Services[n + 1 - i] /\ Services[i] = Bucket[n + 1 - i]
    BY <1>3, <1>4
  <1>6. \A i \in 1 .. n : Services[i] \in Service
    BY <1>1
  <1>7. Bucket \in Seq(Service) /\ DOMAIN Bucket = 1 .. n
    BY <1>1, <1>3, <1>4, <1>6
  <1>8. Items(Bucket) = Service
    BY <1>2, <1>4, <1>5, <1>6, <1>7 DEF Items
  <1>9. ASSUME NEW i \in 1 .. n, NEW j \in 1 .. n, Bucket[i] = Bucket[j] PROVE i = j
    <2>1. n + 1 - i = n + 1 - j
      BY <1>1, <1>4, <1>5, <1>9
    <2> QED
      BY <1>1, <2>1
  <1> QED
    BY <1>7, <1>8, <1>9

\* The clients that the dispatcher thread has not come to are distinct: the
\* first one is not among the others.
LEMMA TodoFacts ==
    ASSUME RouteInv, disp.todo # <<>>
    PROVE  /\ Head(disp.todo) \in Service /\ Tail(disp.todo) \in Seq(Service)
           /\ Items(disp.todo) = Items(Tail(disp.todo)) \cup {Head(disp.todo)}
           /\ Head(disp.todo) \notin Items(Tail(disp.todo))
           /\ \A i, j \in DOMAIN Tail(disp.todo) :
                  Tail(disp.todo)[i] = Tail(disp.todo)[j] => i = j
  <1> DEFINE t == disp.todo
             u == Tail(t)
             n == Len(t)
  <1>1. t \in Seq(Service) /\ \A i, j \in DOMAIN t : t[i] = t[j] => i = j
    BY DEF RouteInv, TypeOK, TodoOK
  <1>2. /\ u \in Seq(Service) /\ n \in Nat /\ n >= 1 /\ Head(t) \in Service /\ Head(t) = t[1]
        /\ \A i \in 1 .. n - 1 : u[i] = t[i + 1]
        /\ Len(u) = n - 1
    BY <1>1, TailFacts
  <1>3. DOMAIN t = 1 .. n /\ DOMAIN u = 1 .. n - 1
    BY <1>1, <1>2
  <1>4. Items(t) = Items(u) \cup {Head(t)}
    BY <1>1, ItemsTail
  <1> HIDE DEF t, u, n
  <1>5. \A i \in 1 .. n - 1 : i + 1 \in 1 .. n /\ i + 1 # 1 /\ u[i] = t[i + 1]
    BY <1>2
  <1>5a. 1 \in 1 .. n
    BY <1>2
  <1>6. Head(t) \notin Items(u)
    <2> SUFFICES ASSUME Head(t) \in Items(u) PROVE FALSE
      OBVIOUS
    <2>1. PICK i \in 1 .. n - 1 : u[i] = Head(t)
      BY <1>3 DEF Items
    <2>2. i + 1 \in 1 .. n /\ i + 1 # 1 /\ t[i + 1] = t[1]
      BY <1>2, <1>5, <2>1
    <2> QED
      BY <1>1, <1>3, <1>5a, <2>2
  <1>7. ASSUME NEW i \in 1 .. n - 1, NEW j \in 1 .. n - 1, u[i] = u[j] PROVE i = j
    <2>1. i + 1 = j + 1
      BY <1>1, <1>3, <1>5, <1>7
    <2> QED
      BY <1>2, <2>1
  <1> QED
    BY <1>2, <1>3, <1>4, <1>6, <1>7 DEF t, u

\* The newest message that a client may have got is one that has arrived.
LEMMA LimitFacts ==
    ASSUME RouteInv, NEW s \in Service
    PROVE  Limit(s) \in Nat /\ Limit(s) <= Done /\ Limit(s) <= Len(log)
  BY PipeFacts DEF RouteInv, PipeOK, Limit

\* The shape of the dispatcher thread's record.
DispType == [at : {"top", "semDown", "first", "more", "next", "end"},
             m : MaybeMessage, todo : Seq(Service), err : BOOLEAN]

\* The dispatcher thread: what its steps do to its own state.
LEMMA DispMoves ==
    ASSUME RouteInv, DispTop \/ SemDown \/ DispDone \/ (DispDequeue /\ inq = <<>>)
    PROVE  /\ disp' \in DispType /\ disp'.at # "next" /\ disp'.todo = disp.todo
           /\ disp'.m = NoMsg /\ (disp.at = "next" => disp.todo = <<>>)
           /\ UNCHANGED <<log, inq, srv, main>> /\ sem' <= sem
           /\ sem' \in 0 .. MaxEvents + 1
  <1>0. disp \in DispType /\ sem \in 0 .. MaxEvents + 1 /\ MaxEvents \in Nat
    BY DispatcherAssumption DEF RouteInv, TypeOK, DispType
  <1>1. CASE DispTop
    BY <1>0, <1>1 DEF RouteInv, PipeOK, DispTop, DispType
  <1>2. CASE SemDown
    <2>1. /\ disp.at = "semDown" /\ sem > 0 /\ sem' = sem - 1
          /\ disp' = [disp EXCEPT !.at = "first", !.err = FALSE]
          /\ UNCHANGED <<log, inq, srv, main>>
      BY <1>2 DEF SemDown
    <2>2. disp.m = NoMsg
      BY <2>1 DEF RouteInv, PipeOK
    <2>3. /\ disp' \in DispType /\ disp'.at = "first" /\ disp'.todo = disp.todo
          /\ disp'.m = disp.m
      BY <1>0, <2>1 DEF DispType
    <2> QED
      BY <1>0, <2>1, <2>2, <2>3
  <1>3. CASE DispDone
    <2>1. /\ \E a \in {"top", "more"} : disp' = [disp EXCEPT !.at = a, !.m = NoMsg]
          /\ disp.todo = <<>>
          /\ UNCHANGED <<log, inq, srv, main, sem>>
      BY <1>3 DEF DispDone
    <2>2. NoMsg \in MaybeMessage
      BY DEF MaybeMessage
    <2>3. /\ disp' \in DispType /\ disp'.at # "next" /\ disp'.todo = disp.todo
          /\ disp'.m = NoMsg
      BY <1>0, <2>1, <2>2 DEF DispType
    <2> QED
      BY <1>0, <2>1, <2>3
  <1>4. CASE DispDequeue /\ inq = <<>>
    BY <1>0, <1>4 DEF RouteInv, PipeOK, DispDequeue, DispType
  <1> QED
    BY <1>1, <1>2, <1>3, <1>4

\* It goes from one client to the next.
LEMMA DispGoesOn ==
    ASSUME RouteInv, DispSkip \/ DispSend \/ DispFull
    PROVE  /\ disp' \in DispType /\ disp'.at = "next" /\ disp.at = "next"
           /\ disp.todo # <<>> /\ disp'.todo = Tail(disp.todo) /\ disp'.m = disp.m
           /\ UNCHANGED <<owner, servId, paused, log, inq, srv, main, sem, pdmMsg, sent>>
  <1>0. disp \in DispType
    BY DEF RouteInv, TypeOK, DispType
  <1>1. /\ disp.at = "next" /\ disp.todo # <<>>
        /\ UNCHANGED <<owner, servId, paused, log, inq, srv, main, sem, pdmMsg, sent>>
    BY DEF DispSkip, DispSend, DispFull
  <1>2. \E e \in BOOLEAN : disp' = [disp EXCEPT !.todo = Tail(@), !.err = e]
    <2>1. DispSkip => disp' = [disp EXCEPT !.todo = Tail(@), !.err = disp.err]
      BY <1>0 DEF DispSkip, DispType
    <2>2. DispSend => disp' = [disp EXCEPT !.todo = Tail(@), !.err = FALSE]
      BY DEF DispSend
    <2>3. DispFull => disp' = [disp EXCEPT !.todo = Tail(@), !.err = TRUE]
      BY DEF DispFull
    <2>4. disp.err \in BOOLEAN
      BY <1>0 DEF DispType
    <2> QED
      BY <2>1, <2>2, <2>3, <2>4
  <1>3. Tail(disp.todo) \in Seq(Service)
    BY <1>1, TodoFacts
  <1> QED
    BY <1>0, <1>1, <1>2, <1>3 DEF DispType

\* Messages and processes are only added.
Grown ==
    /\ Len(log) <= Len(log') /\ \A i \in 1 .. Len(log) : log'[i] = log[i]
    /\ DOMAIN owner \subseteq DOMAIN owner' /\ \A i \in DOMAIN owner : owner'[i] = owner[i]

\* No step takes back a message that has arrived, nor the service of a pid.
LEMMA GrownStep ==
    ASSUME RouteInv, Next
    PROVE  Grown
  <1>0. owner \in Seq(Service) /\ Len(log) \in Nat
    BY PipeFacts DEF RouteInv, TypeOK
  <1>1. ASSUME NEW s \in Service, Restart(s) PROVE Grown
    <2>1. owner' = Append(owner, s) /\ UNCHANGED log
      BY <1>1 DEF Restart
    <2>2. DOMAIN owner \subseteq DOMAIN owner' /\ \A i \in DOMAIN owner : owner'[i] = owner[i]
      BY <1>0, <2>1
    <2> QED
      BY <1>0, <2>1, <2>2 DEF Grown
  <1>2. ASSUME NEW s \in Service, NEW src \in Pids, NEW k \in Kinds,
               NEW dest \in Pids \cup {0}, ProcessServerMsg(s, src, k, dest)
        PROVE  Grown
    <2>1. UNCHANGED owner
      BY <1>2 DEF ProcessServerMsg
    <2> QED
      BY <1>0, <1>2, <2>1, ProcessPipe DEF Grown
  <1>3. CASE UNCHANGED <<log, owner>>
    BY <1>0, <1>3 DEF Grown
  <1>4. CASE EnqueueMsg \/ SemUp \/ SetTerminate \/ StopSemUp
    BY <1>3, <1>4 DEF EnqueueMsg, SemUp, SetTerminate, StopSemUp
  <1>5. CASE DispStep
    <2>1. CASE DispTop \/ SemDown \/ DispDequeue \/ DispDone
      BY <1>3, <2>1 DEF DispTop, SemDown, DispDequeue, DispDone
    <2> QED
      BY <1>3, <1>5, <2>1, DispGoesOn DEF DispStep
  <1>6. CASE CliStep
    BY <1>3, <1>6 DEF CliStep, CliDequeue, CliSent
  <1> QED
    BY <1>1, <1>2, <1>4, <1>5, <1>6 DEF Next

\* Every step keeps the order of the messages on their way.
LEMMA PipeStep ==
    ASSUME RouteInv, Next
    PROVE  PipeOK'
  <1>0. /\ sem + If(srv.at # "idle") <= Len(log) + If(main = "stopped")
        /\ IF disp.at = "next" THEN disp.m = disp.m ELSE disp.m = NoMsg
        /\ sem \in Nat /\ Len(log) \in Nat
    BY PipeFacts DEF RouteInv, PipeOK
  <1>1. ASSUME NEW s \in Service, NEW src \in Pids, NEW k \in Kinds,
               NEW dest \in Pids \cup {0}, ProcessServerMsg(s, src, k, dest)
        PROVE  PipeOK'
    BY <1>1, ProcessPipe
  <1>2. CASE EnqueueMsg
    BY <1>2, EnqueuePipe
  <1>3. CASE DispDequeue /\ inq # <<>>
    BY <1>3, DequeuePipe
  <1>4. CASE UNCHANGED <<log, inq, srv, disp, sem, main>>
    BY <1>0, <1>4, PipeStays
  <1>5. CASE CliStep \/ \E s \in Service : Restart(s)
    BY <1>4, <1>5 DEF CliStep, CliDequeue, CliSent, Restart
  <1>6. CASE SemUp
    <2>1. /\ srv.at = "semUp" /\ sem' = sem + 1 /\ srv' = [srv EXCEPT !.at = "idle"]
          /\ UNCHANGED <<log, inq, disp, main>>
      BY <1>6 DEF SemUp
    <2>2. srv'.at = "idle" /\ srv'.m = srv.m
      BY <2>1 DEF RouteInv, TypeOK
    <2>3. sem' + If(srv'.at # "idle") <= Len(log) + If(main' = "stopped")
      BY <1>0, <2>1, <2>2 DEF If
    <2> QED
      BY <1>0, <2>1, <2>2, <2>3, PipeStays
  <1>7. CASE SetTerminate \/ StopSemUp
    <2>1. /\ UNCHANGED <<log, inq, srv, disp>>
          /\ sem' + If(srv'.at # "idle") <= Len(log) + If(main' = "stopped")
      BY <1>0, <1>7 DEF SetTerminate, StopSemUp, If
    <2> QED
      BY <1>0, <2>1, PipeStays
  <1>8. CASE DispTop \/ SemDown \/ DispDone \/ (DispDequeue /\ inq = <<>>)
    <2>1. /\ disp'.at # "next" /\ disp'.m = NoMsg /\ UNCHANGED <<log, inq, srv, main>>
          /\ sem' <= sem /\ sem' \in 0 .. MaxEvents + 1
      BY <1>8, DispMoves
    <2>2. sem' + If(srv'.at # "idle") <= Len(log) + If(main' = "stopped")
      BY <1>0, <2>1, DispatcherAssumption DEF If
    <2> QED
      BY <2>1, <2>2, PipeStays
  <1>9. CASE DispSkip \/ DispSend \/ DispFull
    BY <1>0, <1>9, DispGoesOn, PipeStays
  <1> QED
    BY <1>1, <1>2, <1>3, <1>5, <1>6, <1>7, <1>8, <1>9 DEF Next, DispStep

\* And the bound of what a client may have got goes up by one when the
\* dispatcher thread comes to it, and only then.
LEMMA LimitStep ==
    ASSUME RouteInv, Next, NEW s \in Service
    PROVE  \/ Limit(s)' = Limit(s)
           \/ /\ DispSkip \/ DispSend \/ DispFull
              /\ s = Head(disp.todo)
              /\ Limit(s)' = Done /\ Limit(s) = Done - 1
  <1>1. ASSUME NEW t \in Service, NEW src \in Pids, NEW k \in Kinds,
               NEW dest \in Pids \cup {0}, ProcessServerMsg(t, src, k, dest)
        PROVE  Limit(s)' = Limit(s)
    <2>1. UNCHANGED disp
      BY <1>1 DEF ProcessServerMsg
    <2> QED
      BY <1>1, <2>1, ProcessPipe DEF Limit
  <1>2. CASE EnqueueMsg
    <2>1. UNCHANGED disp
      BY <1>2 DEF EnqueueMsg
    <2> QED
      BY <1>2, <2>1, EnqueuePipe DEF Limit
  <1>3. CASE DispDequeue /\ inq # <<>>
    <2>1. disp.at # "next"
      BY <1>3 DEF DispDequeue
    <2> QED
      BY <1>3, <2>1, DequeuePipe, BucketFacts, PipeFacts DEF Limit
  <1>4. CASE UNCHANGED <<log, inq, disp>> /\ (srv'.at = "enqueue" <=> srv.at = "enqueue")
    BY <1>4 DEF Limit, Done, If
  <1>5. CASE CliStep \/ SetTerminate \/ StopSemUp \/ \E t \in Service : Restart(t)
    BY <1>4, <1>5 DEF CliStep, CliDequeue, CliSent, Restart, SetTerminate, StopSemUp
  <1>6. CASE SemUp
    BY <1>4, <1>6 DEF SemUp, RouteInv, TypeOK
  <1>7. CASE DispTop \/ SemDown \/ DispDone \/ (DispDequeue /\ inq = <<>>)
    <2>1. /\ disp'.at # "next" /\ (disp.at = "next" => disp.todo = <<>>)
          /\ UNCHANGED <<log, inq, srv>>
      BY <1>7, DispMoves
    <2> QED
      BY <2>1, ItemsEmpty DEF Limit, Done
  <1>8. CASE DispSkip \/ DispSend \/ DispFull
    <2>1. /\ disp'.at = "next" /\ disp.at = "next" /\ disp'.todo = Tail(disp.todo)
          /\ disp.todo # <<>> /\ UNCHANGED <<log, inq, srv>>
      BY <1>8, DispGoesOn
    <2>2. Done' = Done
      BY <2>1 DEF Done
    <2> QED
      BY <1>8, <2>1, <2>2, TodoFacts DEF Limit
  <1> QED
    BY <1>1, <1>2, <1>3, <1>5, <1>6, <1>7, <1>8 DEF Next, DispStep

\* Which thread changes what: the clients' lines are written by the dispatcher
\* and the client chain thread, the ids by the server chain thread.
LEMMA Frames ==
    ASSUME Next
    PROVE  \/ /\ \E s \in Service : Restart(s)
              /\ UNCHANGED <<servId, paused, main, srv, disp, q, pdmMsg, sent, dropped>>
           \/ /\ \E s \in Service, src \in Pids, k \in Kinds, dest \in Pids \cup {0} :
                     ProcessServerMsg(s, src, k, dest)
              /\ UNCHANGED <<main, disp, q, pdmMsg, sent, dropped>>
           \/ /\ EnqueueMsg \/ SemUp
              /\ UNCHANGED <<servId, paused, main, disp, q, pdmMsg, sent, dropped>>
           \/ /\ DispStep
              /\ UNCHANGED <<servId, paused, main, srv>>
           \/ /\ CliStep
              /\ UNCHANGED <<servId, paused, main, srv, disp>>
           \/ /\ SetTerminate \/ StopSemUp
              /\ UNCHANGED <<servId, paused, srv, disp, q, pdmMsg, sent, dropped>>
  <1>1. ASSUME NEW s \in Service, Restart(s)
        PROVE  UNCHANGED <<servId, paused, main, srv, disp, q, pdmMsg, sent, dropped>>
    BY <1>1 DEF Restart
  <1>2. ASSUME NEW s \in Service, NEW src \in Pids, NEW k \in Kinds,
               NEW dest \in Pids \cup {0}, ProcessServerMsg(s, src, k, dest)
        PROVE  UNCHANGED <<main, disp, q, pdmMsg, sent, dropped>>
    BY <1>2 DEF ProcessServerMsg
  <1>3. ASSUME EnqueueMsg \/ SemUp
        PROVE  UNCHANGED <<servId, paused, main, disp, q, pdmMsg, sent, dropped>>
    BY <1>3 DEF EnqueueMsg, SemUp
  <1>4. ASSUME DispStep
        PROVE  UNCHANGED <<servId, paused, main, srv>>
    <2>1. CASE DispTop
      BY <2>1 DEF DispTop
    <2>2. CASE SemDown
      BY <2>2 DEF SemDown
    <2>3. CASE DispDequeue
      BY <2>3 DEF DispDequeue
    <2>4. CASE DispSkip
      BY <2>4 DEF DispSkip
    <2>5. CASE DispSend
      BY <2>5 DEF DispSend
    <2>6. CASE DispFull
      BY <2>6 DEF DispFull
    <2>7. CASE DispDone
      BY <2>7 DEF DispDone
    <2> QED
      BY <1>4, <2>1, <2>2, <2>3, <2>4, <2>5, <2>6, <2>7 DEF DispStep
  <1>5. ASSUME NEW s \in Service, CliDequeue(s) \/ CliSent(s)
        PROVE  UNCHANGED <<servId, paused, main, srv, disp>>
    BY <1>5 DEF CliDequeue, CliSent
  <1>6. ASSUME SetTerminate \/ StopSemUp
        PROVE  UNCHANGED <<servId, paused, srv, disp, q, pdmMsg, sent, dropped>>
    BY <1>6 DEF SetTerminate, StopSemUp
  <1> QED
    BY <1>1, <1>2, <1>3, <1>4, <1>5, <1>6 DEF Next, CliStep

\* The dispatcher thread still comes to every client at most once.
LEMMA TodoStep ==
    ASSUME RouteInv, Next
    PROVE  TodoOK'
  <1>1. CASE UNCHANGED disp.todo
    BY <1>1 DEF RouteInv, TodoOK
  <1>2. CASE ~DispStep
    BY <1>1, <1>2, Frames
  <1>3. CASE DispTop \/ SemDown \/ DispDone \/ (DispDequeue /\ inq = <<>>)
    BY <1>1, <1>3, DispMoves
  <1>4. CASE DispDequeue /\ inq # <<>>
    BY <1>4, DequeuePipe, BucketFacts DEF TodoOK
  <1>5. CASE DispSkip \/ DispSend \/ DispFull
    BY <1>5, DispGoesOn, TodoFacts DEF TodoOK
  <1> QED
    BY <1>2, <1>3, <1>4, <1>5 DEF DispStep

\* The client that is resumed when _processServiceServerMsg learns a new id is
\* the client of the service that sent it: no other client has that id.
LEMMA FoundIsSender ==
    ASSUME RouteInv, NEW s \in Service, NEW src \in Pids, src \in DOMAIN owner, owner[src] = s
    PROVE  s \in FindByServId([servId EXCEPT ![s] = src], src)
  <1> DEFINE ids == [servId EXCEPT ![s] = src]
             I == {i \in DOMAIN Services : ids[Services[i]] = src}
  <1>1. /\ servId \in [Service -> Pids \cup {0}]
        /\ Services \in Seq(Service) /\ DOMAIN Services \subseteq Int
        /\ \A i, j \in DOMAIN Services : Services[i] = Services[j] => i = j
        /\ src # 0
    BY DispatcherAssumption, MessageFields DEF RouteInv, TypeOK
  <1>2. \A t \in Service : ids[t] = src <=> t = s
    BY <1>1 DEF RouteInv, IdsOK
  <1>3. PICK k \in DOMAIN Services : Services[k] = s
    BY DEF Service, Range
  <1> HIDE DEF ids
  <1>4. \A i \in DOMAIN Services : Services[i] \in Service
    BY <1>1
  <1>5. k \in I /\ \A l \in I : l = k
    BY <1>1, <1>2, <1>3, <1>4
  <1>6. k <= k
    BY <1>1
  <1>7. s \in {Services[i] : i \in {j \in I : \A l \in I : j <= l}}
    BY <1>3, <1>5, <1>6
  <1>8. FindByServId(ids, src) = {Services[i] : i \in {j \in I : \A l \in I : j <= l}}
    BY DEF FindByServId
  <1> QED
    BY <1>7, <1>8 DEF ids

\* An id that is known belongs to the service, whose client is not paused.
LEMMA IdsStep ==
    ASSUME RouteInv, Next
    PROVE  IdsOK'
  <1>0. Grown
    BY GrownStep
  <1>1. CASE UNCHANGED <<servId, paused>>
    BY <1>0, <1>1 DEF Grown, RouteInv, IdsOK
  <1>2. CASE ~\E s \in Service, src \in Pids, k \in Kinds, dest \in Pids \cup {0} :
                 ProcessServerMsg(s, src, k, dest)
    BY <1>1, <1>2, Frames
  <1>3. ASSUME NEW s \in Service, NEW src \in Pids, NEW k \in Kinds,
               NEW dest \in Pids \cup {0}, ProcessServerMsg(s, src, k, dest)
        PROVE  IdsOK'
    <2>1. /\ src \in DOMAIN owner /\ owner[src] = s /\ UNCHANGED owner
          /\ servId' = [servId EXCEPT ![s] = src]
          /\ paused' = IF servId[s] # src THEN paused \ FindByServId(servId', src) ELSE paused
      BY <1>3 DEF ProcessServerMsg
    <2>2. s \in FindByServId(servId', src)
      BY <2>1, FoundIsSender
    <2>3. paused' \subseteq paused /\ servId'[s] = src /\ src # 0
          /\ \A t \in Service : t # s => servId'[t] = servId[t]
      BY <2>1, MessageFields DEF RouteInv, TypeOK
    <2>4. s \notin paused'
      BY <2>1, <2>2, <2>3 DEF RouteInv, IdsOK
    <2> QED
      BY <2>1, <2>3, <2>4 DEF RouteInv, IdsOK
  <1> QED
    BY <1>2, <1>3

\* A client that no step touches keeps what it has got.
LEMMA LineStays ==
    ASSUME RouteInv, Next, NEW s \in Service,
           q'[s] = q[s], pdmMsg'[s] = pdmMsg[s], sent'[s] = sent[s],
           Limit(s)' = Limit(s), dropped \subseteq dropped'
    PROVE  LineOf(s)' /\ MeantFor(s)' /\ GotBy(s)'
  <1>0. Grown /\ LineOf(s) /\ MeantFor(s) /\ GotBy(s)
    BY GrownStep DEF RouteInv, LinesOK
  <1>1. LastSent(s)' = LastSent(s) /\ Taken(s)' = Taken(s) /\ Got(s)' = Got(s)
    BY DEF LastSent, Taken, Got
  <1>2. LineOf(s)'
    BY <1>0, <1>1 DEF LineOf
  <1>3. MeantFor(s)'
    BY <1>0, <1>1 DEF MeantFor, Grown
  <1>4. \A n \in 1 .. Limit(s) : log'[n] = log[n]
    <2>1. Limit(s) \in Nat /\ Limit(s) <= Len(log) /\ Len(log) \in Nat
      BY LimitFacts, PipeFacts
    <2>2. \A n \in 1 .. Limit(s) : n \in 1 .. Len(log)
      BY <2>1
    <2> QED
      BY <1>0, <2>2 DEF Grown
  <1>5. GotBy(s)'
    BY <1>0, <1>1, <1>4 DEF GotBy
  <1> QED
    BY <1>2, <1>3, <1>5

\* The types of what a client holds.
LEMMA LineFacts ==
    ASSUME RouteInv, NEW s \in Service
    PROVE  /\ q[s] \in QueueOf(Messages) /\ q[s].msgs \in Seq(Messages)
           /\ sent[s] \in Seq(Messages) /\ pdmMsg[s] \in MaybeMessage
           /\ LastSent(s) \in Nat /\ Taken(s) \in Nat
           /\ q \in [Service -> QueueOf(Messages)] /\ pdmMsg \in [Service -> MaybeMessage]
           /\ sent \in [Service -> Seq(Messages)]
           /\ LineOf(s) /\ MeantFor(s) /\ GotBy(s)
  <1>1. /\ q \in [Service -> QueueOf(Messages)] /\ pdmMsg \in [Service -> MaybeMessage]
        /\ sent \in [Service -> Seq(Messages)]
        /\ LineOf(s) /\ MeantFor(s) /\ GotBy(s)
    BY DEF RouteInv, TypeOK, LinesOK
  <1>2. q[s] \in QueueOf(Messages) /\ sent[s] \in Seq(Messages) /\ pdmMsg[s] \in MaybeMessage
    BY <1>1
  <1>3. q[s].msgs \in Seq(Messages)
    BY <1>2 DEF QueueOf
  <1>4. LastSent(s) \in Nat
    <2>1. sent[s] # <<>> => sent[s][Len(sent[s])] \in Messages
      BY <1>2
    <2> QED
      BY <2>1, MessageFields DEF LastSent
  <1>5. Taken(s) \in Nat
    BY <1>2, <1>4, MessageFields DEF Taken, MaybeMessage
  <1> QED
    BY <1>1, <1>2, <1>3, <1>4, <1>5

\* The message that the dispatcher thread comes with is newer than all that
\* the client has got.
LEMMA NextMessage ==
    ASSUME RouteInv, disp.at = "next", NEW s \in Service, Limit(s) = Done - 1
    PROVE  /\ disp.m \in Messages /\ disp.m = log[Done] /\ disp.m.id = Done
           /\ Done = Limit(s) + 1 /\ disp.m.prio \in Prios
           /\ Done \in 1 .. Len(log)
  <1>1. Done >= 1 /\ disp.m = log[Done] /\ \A i \in 1 .. Len(log) : log[i].id = i
    BY DEF RouteInv, PipeOK
  <1>2. Done \in 1 .. Len(log)
    BY <1>1, PipeFacts
  <1>3. log[Done] \in Messages
    BY <1>2, PipeFacts
  <1> QED
    BY <1>1, <1>2, <1>3, PipeFacts, MessageFields

\* A client that is passed over, or whose queue refuses the message.
LEMMA PassedLine ==
    ASSUME RouteInv, Next, DispSkip \/ DispFull, NEW s \in Service, s = Head(disp.todo),
           Limit(s)' = Done, Limit(s) = Done - 1
    PROVE  LineOf(s)' /\ MeantFor(s)' /\ GotBy(s)'
  <1>1. /\ UNCHANGED <<owner, log, pdmMsg, sent>> /\ disp.at = "next"
        /\ UNCHANGED q /\ dropped \subseteq dropped'
    BY DispGoesOn DEF DispSkip, DispFull
  <1>2. /\ disp.m = log[Done] /\ disp.m.id = Done /\ Done = Limit(s) + 1
        /\ Done \in Nat /\ Limit(s) \in Nat
    BY <1>1, NextMessage, LimitFacts, PipeFacts
  <1>3. LastSent(s)' = LastSent(s) /\ Taken(s)' = Taken(s) /\ Got(s)' = Got(s)
    BY <1>1 DEF LastSent, Taken, Got
  <1>4. LineOf(s)'
    <2>1. Ascending(q[s].msgs, Taken(s), Limit(s)) /\ Taken(s) <= Limit(s)
      BY LineFacts DEF LineOf
    <2>2. \A x \in Messages : x.id \in Nat
      BY MessageFields
    <2>3. Limit(s) <= Done
      BY <1>2
    <2>4. Ascending(q[s].msgs, Taken(s), Done)
      BY <1>2, <2>1, <2>2, <2>3, LineFacts, OrderWeaker
    <2>5. Taken(s) <= Done
      <3>1. Taken(s) <= Limit(s) /\ Taken(s) \in Nat
        BY <2>1, LineFacts
      <3> QED
        BY <1>2, <3>1
    <2> QED
      BY <1>1, <1>3, <2>4, <2>5, LineFacts DEF LineOf
  <1>5. MeantFor(s)'
    BY <1>1, <1>3, LineFacts DEF MeantFor
  <1>6. log[Done].dest = 0 /\ log[Done].mid \in Subscribed[s] => <<Done, s>> \in dropped'
    BY <1>2 DEF DispSkip, DispFull, IsMatching
  <1>7. \A n \in 1 .. Done : n \in 1 .. Limit(s) \/ n = Done
    BY <1>2
  <1>8. GotBy(s)'
    <2> SUFFICES ASSUME NEW n \in 1 .. Done, log[n].dest = 0, log[n].mid \in Subscribed[s]
                 PROVE  <<n, s>> \in dropped' \/ \E x \in Got(s) : x.id = n
      BY <1>1, <1>3 DEF GotBy
    <2>1. GotBy(s)
      BY LineFacts
    <2>2. CASE n \in 1 .. Limit(s)
      BY <1>1, <2>1, <2>2 DEF GotBy
    <2>3. CASE n = Done
      BY <1>6, <2>3
    <2> QED
      BY <1>7, <2>2, <2>3
  <1> QED
    BY <1>4, <1>5, <1>8

\* The message that is one newer than the bound goes last, also after an
\* eviction.
LEMMA NewestLast ==
    ASSUME NEW u \in Seq(Messages), NEW k \in Nat, NEW n \in Nat, k <= n, Ascending(u, k, n),
           NEW m \in Messages, m.id = n + 1, NEW t,
           t = Append(u, m) \/ (t = Append(Tail(u), m) /\ u # <<>>)
    PROVE  Ascending(t, k, n + 1)
  <1>1. \A x \in Messages : x.id \in Nat
    BY MessageFields
  <1> QED
    BY <1>1, OrderKept

\* A client that is given the message.
LEMMA SentLine ==
    ASSUME RouteInv, Next, DispSend, NEW s \in Service, s = Head(disp.todo),
           Limit(s)' = Done, Limit(s) = Done - 1
    PROVE  LineOf(s)' /\ MeantFor(s)' /\ GotBy(s)' /\ q'[s] \in QueueOf(Messages)
  <1> DEFINE m == disp.m
             e == Evicted(q[s], m.prio)
  <1>1. /\ UNCHANGED <<owner, servId, log, pdmMsg, sent>> /\ disp.at = "next"
        /\ IsMatching(s, m) /\ CanBeQueued(q[s], m.prio)
        /\ q' = [q EXCEPT ![s] = Enqueue(q[s], m)]
        /\ dropped' = dropped \cup {<<x.id, s>> : x \in Range(e)}
    BY DispGoesOn DEF DispSend
  <1>2. /\ m \in Messages /\ m = log[Done] /\ m.id = Done /\ Done = Limit(s) + 1
        /\ m.prio \in Prios /\ Done \in Nat /\ Limit(s) \in Nat
    BY <1>1, NextMessage, LimitFacts, PipeFacts
  <1>3. q'[s] = Enqueue(q[s], m)
    BY <1>1, LineFacts
  <1>4. Range(e) = Items(e)
    BY DEF Range, Items
  <1> HIDE DEF m, e
  <1>5. LastSent(s)' = LastSent(s) /\ Taken(s)' = Taken(s)
    BY <1>1 DEF LastSent, Taken
  <1>6. /\ QueueInv(q[s], Messages) /\ Ascending(q[s].msgs, Taken(s), Limit(s))
        /\ Taken(s) <= Limit(s)
    BY LineFacts DEF LineOf
  <1>7. /\ QueueInv(q'[s], Messages)
        /\ \/ q'[s].msgs = Append(q[s].msgs, m)
           \/ q'[s].msgs = Append(Tail(q[s].msgs), m) /\ q[s].msgs # <<>>
    <2>1. /\ QueueInv(Enqueue(q[s], m), Messages)
          /\ \/ Enqueue(q[s], m).msgs = Append(q[s].msgs, m)
             \/ Enqueue(q[s], m).msgs = Append(Tail(q[s].msgs), m) /\ q[s].msgs # <<>>
      <3>1. CanBeQueued(q[s], m.prio) /\ m \in Messages /\ m.prio \in Prios
        BY <1>1, <1>2
      <3>2. QueueInv(q[s], Messages)
        BY <1>6
      <3> QED
        BY <3>1, <3>2, EnqueueStep
    <2> QED
      BY <1>3, <2>1
  <1>8. Items(q'[s].msgs) \cup Items(e) = Items(q[s].msgs) \cup {m}
    <2>1. CanBeQueued(q[s], m.prio) /\ m \in Messages /\ m.prio \in Prios
      BY <1>1, <1>2
    <2>2. QueueInv(q[s], Messages)
      BY <1>6
    <2>3. Items(Enqueue(q[s], m).msgs) \cup Items(Evicted(q[s], m.prio)) = Items(q[s].msgs) \cup {m}
      BY <2>1, <2>2, EnqueueItems, SMTT(60)
    <2> QED
      BY <1>3, <2>3 DEF e
  <1>9. LineOf(s)'
    <2>1. Ascending(q'[s].msgs, Taken(s), Limit(s) + 1)
      <3>1. q[s].msgs \in Seq(Messages) /\ Taken(s) \in Nat
        BY LineFacts
      <3>2. m.id = Limit(s) + 1 /\ m \in Messages /\ Limit(s) \in Nat
        BY <1>2
      <3> QED
        <4>1. Ascending(q[s].msgs, Taken(s), Limit(s)) /\ Taken(s) <= Limit(s)
          BY <1>6
        <4>2. \/ q'[s].msgs = Append(q[s].msgs, m)
              \/ q'[s].msgs = Append(Tail(q[s].msgs), m) /\ q[s].msgs # <<>>
          BY <1>7
        <4> QED
          BY <3>1, <3>2, <4>1, <4>2, NewestLast
    <2>2. Taken(s) <= Done
      <3>1. Taken(s) \in Nat /\ Taken(s) <= Limit(s)
        BY <1>6, LineFacts
      <3>2. Done = Limit(s) + 1 /\ Limit(s) \in Nat
        BY <1>2
      <3> QED
        BY <3>1, <3>2
    <2> QED
      BY <1>1, <1>2, <1>5, <1>7, <2>1, <2>2, LineFacts DEF LineOf
  <1>10. Got(s)' \subseteq Got(s) \cup {m}
    BY <1>1, <1>8 DEF Got
  <1>11. Got(s) \cup {m} \subseteq Got(s)' \cup Items(e)
    BY <1>1, <1>8 DEF Got
  <1>12. MeantFor(s)'
    <2>1. m.mid \in Subscribed[s] /\ (m.dest # 0 => m.dest \in DOMAIN owner /\ owner[m.dest] = s)
      BY <1>1 DEF IsMatching, RouteInv, IdsOK
    <2> QED
      BY <1>1, <1>10, <2>1, LineFacts DEF MeantFor
  <1>13. GotBy(s)'
    <2>1. \A x \in Got(s) \cup {m} : <<x.id, s>> \in dropped' \/ x \in Got(s)'
      BY <1>1, <1>4, <1>11
    <2>2. \A n \in 1 .. Done : n \in 1 .. Limit(s) \/ n = m.id
      BY <1>2
    <2>3. dropped \subseteq dropped'
      BY <1>1
    <2> QED
      BY <1>1, <2>1, <2>2, <2>3, LineFacts DEF GotBy
  <1> QED
    BY <1>7, <1>9, <1>12, <1>13 DEF QueueInv

\* The client chain takes the oldest message out of the queue of a client.
LEMMA DequeueLine ==
    ASSUME RouteInv, Next, NEW s \in Service, CliDequeue(s), Limit(s)' = Limit(s)
    PROVE  /\ LineOf(s)' /\ MeantFor(s)' /\ GotBy(s)'
           /\ q'[s] \in QueueOf(Messages) /\ pdmMsg'[s] \in MaybeMessage
  <1> DEFINE m == Head(q[s].msgs)
  <1>1. /\ pdmMsg[s] = NoMsg /\ ~IsEmpty(q[s])
        /\ pdmMsg' = [pdmMsg EXCEPT ![s] = m] /\ q' = [q EXCEPT ![s] = Dequeue(q[s])]
        /\ UNCHANGED <<owner, log, sent, dropped>>
    BY DEF CliDequeue
  <1>2. pdmMsg'[s] = m /\ q'[s] = Dequeue(q[s])
    BY <1>1, LineFacts
  <1>3. /\ QueueInv(q[s], Messages) /\ Ascending(q[s].msgs, Taken(s), Limit(s))
        /\ Taken(s) = LastSent(s) /\ q[s].msgs \in Seq(Messages) /\ q[s].msgs # <<>>
        /\ Taken(s) \in Nat /\ Limit(s) \in Nat
    BY <1>1, LineFacts, LimitFacts DEF LineOf, Taken, IsEmpty
  <1>4. \A x \in Messages : x.id \in Nat /\ x.prio \in Prios /\ x # NoMsg
    BY MessageFields
  <1>5. QueueInv(q'[s], Messages) /\ q'[s].msgs = Tail(q[s].msgs)
    <2>1. \A x \in Messages : x.prio \in Prios
      BY <1>4
    <2>2. QueueInv(q[s], Messages) /\ ~IsEmpty(q[s])
      BY <1>1, <1>3
    <2>3. QueueInv(Dequeue(q[s]), Messages) /\ Dequeue(q[s]).msgs = Tail(q[s].msgs)
      BY <2>1, <2>2, DequeueStep
    <2> QED
      BY <1>2, <2>3
  <1>6. /\ m.id \in Nat /\ Taken(s) < m.id /\ m.id <= Limit(s)
        /\ Ascending(Tail(q[s].msgs), m.id, Limit(s))
    <2>1. \A x \in Messages : x.id \in Nat
      BY <1>4
    <2> QED
      BY <1>3, <2>1, OrderTaken
  <1>7. m \in Messages /\ Items(q[s].msgs) = Items(Tail(q[s].msgs)) \cup {m}
    BY <1>3, ItemsTail
  <1> HIDE DEF m
  <1>8. LastSent(s)' = LastSent(s) /\ Taken(s)' = m.id /\ Got(s)' = Got(s)
    <2>1. LastSent(s)' = LastSent(s)
      BY <1>1 DEF LastSent
    <2>2. Taken(s)' = m.id
      BY <1>2, <1>4, <1>7 DEF Taken
    <2>3. Got(s)' = Got(s)
      BY <1>1, <1>2, <1>4, <1>5, <1>7 DEF Got
    <2> QED
      BY <2>1, <2>2, <2>3
  <1>9. LineOf(s)'
    <2>1. LastSent(s) \in Nat /\ Ascending(sent[s], 0, LastSent(s))
      BY LineFacts DEF LineOf
    <2>2. LastSent(s) <= m.id /\ LastSent(s) < m.id
      <3>1. LastSent(s) < m.id /\ LastSent(s) \in Nat /\ m.id \in Nat
        BY <1>3, <1>6, <2>1
      <3> QED
        BY <3>1
    <2> QED
      BY <1>1, <1>5, <1>6, <1>8, <2>1, <2>2 DEF LineOf
  <1>10. MeantFor(s)' /\ GotBy(s)'
    <2>1. MeantFor(s) /\ GotBy(s)
      BY LineFacts
    <2>2. MeantFor(s)'
      BY <1>1, <1>8, <2>1 DEF MeantFor
    <2>3. GotBy(s)'
      BY <1>1, <1>8, <2>1 DEF GotBy
    <2> QED
      BY <2>2, <2>3
  <1> QED
    BY <1>2, <1>5, <1>7, <1>9, <1>10 DEF QueueInv, MaybeMessage

\* And sends it.
LEMMA SendLine ==
    ASSUME RouteInv, Next, NEW s \in Service, CliSent(s), Limit(s)' = Limit(s)
    PROVE  /\ LineOf(s)' /\ MeantFor(s)' /\ GotBy(s)'
           /\ sent'[s] \in Seq(Messages)
  <1> DEFINE m == pdmMsg[s]
  <1>1. /\ m # NoMsg /\ sent' = [sent EXCEPT ![s] = Append(sent[s], m)]
        /\ pdmMsg' = [pdmMsg EXCEPT ![s] = NoMsg]
        /\ UNCHANGED <<owner, log, q, dropped>>
    BY DEF CliSent
  <1>2. pdmMsg'[s] = NoMsg /\ sent'[s] = Append(sent[s], m)
    BY <1>1, LineFacts
  <1>3. /\ m \in Messages /\ Taken(s) = m.id /\ LastSent(s) < m.id
        /\ Ascending(sent[s], 0, LastSent(s)) /\ sent[s] \in Seq(Messages)
        /\ LastSent(s) \in Nat /\ m.id \in Nat
    BY <1>1, LineFacts DEF LineOf, Taken, MaybeMessage
  <1>4. Items(sent'[s]) = Items(sent[s]) \cup {m} /\ sent'[s] \in Seq(Messages)
    <2>1. /\ Append(sent[s], m) \in Seq(Messages)
          /\ Items(Append(sent[s], m)) = Items(sent[s]) \cup {m}
      BY <1>3, ItemsAppend
    <2> QED
      BY <1>2, <2>1
  <1> HIDE DEF m
  <1>5. LastSent(s)' = m.id
    <2>1. sent'[s] # <<>> /\ sent'[s][Len(sent'[s])] = m
      BY <1>2, <1>3
    <2> QED
      BY <2>1 DEF LastSent
  <1>6. Taken(s)' = m.id
    BY <1>2, <1>5 DEF Taken
  <1>7. Got(s)' = Got(s)
    BY <1>1, <1>2, <1>4 DEF Got, m
  <1>8. Ascending(sent'[s], 0, m.id)
    <2>1. \A x \in Messages : x.id \in Nat
      BY MessageFields
    <2>2. m.id - 1 \in Nat /\ LastSent(s) <= m.id - 1 /\ m.id = (m.id - 1) + 1
      BY <1>3
    <2>3. Ascending(sent[s], 0, m.id - 1)
      BY <1>3, <2>1, <2>2, OrderWeaker
    <2>4. Ascending(sent'[s], 0, (m.id - 1) + 1)
      <3>1. m \in Messages /\ sent[s] \in Seq(Messages) /\ 0 <= m.id - 1
        BY <1>3, <2>2
      <3> QED
        BY <1>2, <2>1, <2>2, <2>3, <3>1, OrderKept
    <2> QED
      BY <2>2, <2>4
  <1>9. LineOf(s)'
    <2>1. /\ QueueInv(q[s], Messages) /\ Ascending(q[s].msgs, Taken(s), Limit(s))
          /\ Taken(s) <= Limit(s)
      BY LineFacts DEF LineOf
    <2>2. m.id <= m.id /\ Taken(s) = m.id
      BY <1>3
    <2> QED
      BY <1>1, <1>2, <1>5, <1>6, <1>8, <2>1, <2>2 DEF LineOf
  <1>10. MeantFor(s)' /\ GotBy(s)'
    <2>1. MeantFor(s) /\ GotBy(s)
      BY LineFacts
    <2>2. MeantFor(s)'
      BY <1>1, <1>7, <2>1 DEF MeantFor
    <2>3. GotBy(s)'
      BY <1>1, <1>7, <2>1 DEF GotBy
    <2> QED
      BY <2>2, <2>3
  <1> QED
    BY <1>4, <1>9, <1>10

\* Every step keeps the lines of all clients, and their types.
LEMMA LinesStep ==
    ASSUME RouteInv, Next
    PROVE  /\ LinesOK'
           /\ q' \in [Service -> QueueOf(Messages)] /\ pdmMsg' \in [Service -> MaybeMessage]
           /\ sent' \in [Service -> Seq(Messages)]
  <1> DEFINE Lines == /\ LinesOK'
                      /\ q' \in [Service -> QueueOf(Messages)]
                      /\ pdmMsg' \in [Service -> MaybeMessage]
                      /\ sent' \in [Service -> Seq(Messages)]
  <1>0. /\ q \in [Service -> QueueOf(Messages)] /\ pdmMsg \in [Service -> MaybeMessage]
        /\ sent \in [Service -> Seq(Messages)]
    BY DEF RouteInv, TypeOK
  <1>1. ASSUME ~(DispSkip \/ DispSend \/ DispFull), UNCHANGED <<q, pdmMsg, sent, dropped>>
        PROVE  Lines
    BY <1>0, <1>1, LimitStep, LineStays DEF LinesOK
  <1>2. CASE DispSkip \/ DispFull
    <2>1. UNCHANGED <<pdmMsg, sent, q>> /\ dropped \subseteq dropped'
      BY <1>2, DispGoesOn DEF DispSkip, DispFull
    <2>2. ASSUME NEW s \in Service PROVE LineOf(s)' /\ MeantFor(s)' /\ GotBy(s)'
      <3>1. CASE Limit(s)' = Limit(s)
        BY <2>1, <3>1, LineStays
      <3>2. CASE Limit(s)' # Limit(s)
        BY <1>2, <3>2, LimitStep, PassedLine
      <3> QED
        BY <3>1, <3>2
    <2> QED
      BY <1>0, <2>1, <2>2 DEF LinesOK
  <1>3. CASE DispSend
    <2>0. PICK t \in Service : t = Head(disp.todo)
      BY <1>3, DispGoesOn, TodoFacts
    <2>1. /\ UNCHANGED <<pdmMsg, sent>> /\ dropped \subseteq dropped'
          /\ \A s \in Service : s # t => q'[s] = q[s]
          /\ q' = [q EXCEPT ![t] = Enqueue(q[t], disp.m)]
      BY <1>0, <1>3, <2>0 DEF DispSend
    <2>2. t \notin Items(disp'.todo) /\ t \in Items(disp.todo)
      BY <1>3, <2>0, DispGoesOn, TodoFacts
    <2>3. Limit(t) = Done - 1 /\ Limit(t)' = Done
      <3>1. /\ disp.at = "next" /\ disp'.at = "next"
            /\ UNCHANGED <<log, inq, srv>>
        BY <1>3, DispGoesOn
      <3>2. Done' = Done
        BY <3>1 DEF Done
      <3> QED
        BY <2>2, <3>1, <3>2 DEF Limit
    <2>4. LineOf(t)' /\ MeantFor(t)' /\ GotBy(t)' /\ q'[t] \in QueueOf(Messages)
      BY <1>3, <2>0, <2>3, SentLine
    <2>5. ASSUME NEW s \in Service, s # t PROVE LineOf(s)' /\ MeantFor(s)' /\ GotBy(s)'
      <3>1. Limit(s)' = Limit(s)
        BY <2>0, <2>5, LimitStep
      <3> QED
        BY <2>1, <2>5, <3>1, LineStays
    <2>6. q' \in [Service -> QueueOf(Messages)]
      BY <1>0, <2>1, <2>2, <2>4
    <2> QED
      BY <1>0, <2>1, <2>4, <2>5, <2>6 DEF LinesOK
  <1>4. ASSUME NEW t \in Service, CliDequeue(t) \/ CliSent(t), ~(DispSkip \/ DispSend \/ DispFull)
        PROVE  Lines
    <2>1. \A s \in Service : Limit(s)' = Limit(s)
      BY <1>4, LimitStep
    <2>2. LineOf(t)' /\ MeantFor(t)' /\ GotBy(t)'
      BY <1>4, <2>1, DequeueLine, SendLine
    <2>3. /\ \A s \in Service : s # t => /\ q'[s] = q[s] /\ pdmMsg'[s] = pdmMsg[s]
                                        /\ sent'[s] = sent[s]
          /\ UNCHANGED dropped
      BY <1>0, <1>4 DEF CliDequeue, CliSent
    <2>4. /\ q' \in [Service -> QueueOf(Messages)] /\ pdmMsg' \in [Service -> MaybeMessage]
          /\ sent' \in [Service -> Seq(Messages)]
      <3>1. NoMsg \in MaybeMessage
        BY DEF MaybeMessage
      <3>2. CASE CliDequeue(t)
        BY <1>0, <2>1, <3>2, DequeueLine DEF CliDequeue
      <3>3. CASE CliSent(t)
        BY <1>0, <2>1, <3>1, <3>3, SendLine DEF CliSent
      <3> QED
        BY <1>4, <3>2, <3>3
    <2>5. \A s \in Service : s # t => LineOf(s)' /\ MeantFor(s)' /\ GotBy(s)'
      BY <2>1, <2>3, LineStays
    <2> QED
      BY <2>2, <2>4, <2>5 DEF LinesOK
  <1>5. CASE ~(DispSkip \/ DispSend \/ DispFull) /\ ~CliStep
    <2>1. UNCHANGED <<q, pdmMsg, sent, dropped>>
      <3>1. CASE DispTop \/ SemDown
        BY <3>1 DEF DispTop, SemDown
      <3>2. CASE DispDequeue
        BY <3>2 DEF DispDequeue
      <3>3. CASE DispDone
        BY <3>3 DEF DispDone
      <3> QED
        BY <1>5, <3>1, <3>2, <3>3, Frames DEF DispStep
    <2> QED
      BY <1>1, <1>5, <2>1
  <1> QED
    BY <1>2, <1>3, <1>4, <1>5 DEF CliStep

\* Every step keeps the types: the count of the semaphore is bounded by the
\* messages, which are numbered within the bound.
LEMMA TypesStep ==
    ASSUME RouteInv, Next
    PROVE  TypeOK'
  <1>0. /\ servId \in [Service -> Pids \cup {0}] /\ paused \subseteq Service
        /\ main \in {"run", "stopping", "stopped"}
        /\ srv \in [at : {"idle", "enqueue", "semUp"}, m : MaybeMessage]
        /\ disp \in DispType
    BY DEF RouteInv, TypeOK, DispType
  <1>1. CountTypes' /\ PipeOK'
    BY NextInv, PipeStep DEF RouteInv, Inv
  <1>2. sem' \in 0 .. MaxEvents + 1
    <2>1. sem' + If(srv'.at # "idle") <= Len(log') + If(main' = "stopped") /\ sem' \in Nat
      BY <1>1 DEF PipeOK, CountTypes
    <2>2. Len(log') \in Nat /\ Len(log') <= MaxEvents /\ MaxEvents \in Nat
      BY <1>1, DispatcherAssumption DEF CountTypes
    <2> QED
      BY <2>1, <2>2 DEF If
  <1>3. servId' \in [Service -> Pids \cup {0}] /\ paused' \subseteq Service
    <2>1. CASE UNCHANGED <<servId, paused>>
      BY <1>0, <2>1
    <2>3. ASSUME NEW s \in Service, NEW src \in Pids, NEW k \in Kinds,
                 NEW dest \in Pids \cup {0}, ProcessServerMsg(s, src, k, dest)
          PROVE  servId' \in [Service -> Pids \cup {0}] /\ paused' \subseteq Service
      BY <1>0, <2>3 DEF ProcessServerMsg
    <2> QED
      BY <2>1, <2>3, Frames
  <1>4. main' \in {"run", "stopping", "stopped"}
    <2>1. CASE UNCHANGED main
      BY <1>0, <2>1
    <2>2. CASE SetTerminate \/ StopSemUp
      BY <2>2 DEF SetTerminate, StopSemUp
    <2> QED
      BY <2>1, <2>2, Frames
  <1>5. srv' \in [at : {"idle", "enqueue", "semUp"}, m : MaybeMessage]
    <2>1. CASE UNCHANGED srv
      BY <1>0, <2>1
    <2>3. CASE EnqueueMsg \/ SemUp
      BY <1>0, <2>3 DEF EnqueueMsg, SemUp, MaybeMessage
    <2> QED
      BY <2>1, <2>3, ProcessPipe, Frames
  <1>6. disp' \in DispType
    <2>1. CASE UNCHANGED disp
      BY <1>0, <2>1
    <2>2. CASE DispDequeue /\ inq # <<>>
      <3>1. disp' = [disp EXCEPT !.at = "next", !.m = Head(inq), !.todo = Bucket]
        BY <2>2 DEF DispDequeue
      <3>2. Head(inq) \in MaybeMessage /\ Bucket \in Seq(Service)
        BY <2>2, PipeFacts, TailFacts, BucketFacts DEF MaybeMessage
      <3> QED
        BY <1>0, <3>1, <3>2 DEF DispType
    <2>3. CASE ~DispStep
      BY <2>1, <2>3, Frames
    <2> QED
      BY <2>2, <2>3, DispMoves, DispGoesOn DEF DispStep
  <1>7. /\ owner' \in Seq(Service) /\ inq' \in Seq(Messages) /\ log' \in Seq(Messages)
        /\ Len(log') + Len(owner') <= Len(Services) + MaxEvents
    BY <1>1 DEF CountTypes
  <1>8. /\ q' \in [Service -> QueueOf(Messages)] /\ pdmMsg' \in [Service -> MaybeMessage]
        /\ sent' \in [Service -> Seq(Messages)]
    BY LinesStep
  <1> QED
    BY <1>2, <1>3, <1>4, <1>5, <1>6, <1>7, <1>8, Zenon DEF TypeOK, DispType

\* Every step of the daemon, of its services and of stopDispatcher preserves
\* the invariant of the routing.
LEMMA NextRoute == RouteInv /\ [Next]_vars => RouteInv'
  <1> SUFFICES ASSUME RouteInv, [Next]_vars PROVE RouteInv'
    OBVIOUS
  <1>1. CASE Next
    BY <1>1, NextInv, TypesStep, PipeStep, TodoStep, IdsStep, LinesStep DEF RouteInv
  <1>2. CASE UNCHANGED vars
    <2>1. Inv'
      BY NextInv DEF RouteInv
    <2>2. TypeOK'
      BY <1>2 DEF RouteInv, TypeOK, vars
    <2>3. Done' = Done
      BY <1>2 DEF Done, vars
    <2>4. PipeOK'
      BY <1>2, <2>3 DEF RouteInv, PipeOK, vars
    <2>5. TodoOK' /\ IdsOK'
      BY <1>2 DEF RouteInv, TodoOK, IdsOK, vars
    <2>6. ASSUME NEW s \in Service
          PROVE  /\ Limit(s)' = Limit(s) /\ LastSent(s)' = LastSent(s) /\ Taken(s)' = Taken(s)
                 /\ Got(s)' = Got(s)
      BY <1>2, <2>3 DEF Limit, LastSent, Taken, Got, vars
    <2>7. ASSUME NEW s \in Service PROVE LineOf(s)' /\ MeantFor(s)' /\ GotBy(s)'
      <3>1. LineOf(s) /\ MeantFor(s) /\ GotBy(s)
        BY DEF RouteInv, LinesOK
      <3>2. UNCHANGED <<q, pdmMsg, sent, owner, log, dropped>>
        BY <1>2 DEF vars
      <3>3. LineOf(s)'
        BY <2>6, <3>1, <3>2 DEF LineOf
      <3>4. MeantFor(s)'
        BY <2>6, <3>1, <3>2 DEF MeantFor
      <3>5. GotBy(s)'
        BY <2>6, <3>1, <3>2 DEF GotBy
      <3> QED
        BY <3>3, <3>4, <3>5
    <2> QED
      BY <2>1, <2>2, <2>4, <2>5, <2>7 DEF RouteInv, LinesOK
  <1> QED
    BY <1>1, <1>2

\* The line of a client is what it has got, in the order of arrival.
LEMMA LineInOrder ==
    ASSUME RouteInv, NEW s \in Service
    PROVE  /\ Line(s) \in Seq(Messages) /\ Items(Line(s)) = Got(s)
           /\ Ascending(Line(s), 0, Limit(s))
  <1> DEFINE p == IF pdmMsg[s] = NoMsg THEN <<>> ELSE <<pdmMsg[s]>>
  <1>1. /\ sent[s] \in Seq(Messages) /\ q[s].msgs \in Seq(Messages)
        /\ pdmMsg[s] \in MaybeMessage
        /\ LastSent(s) \in Nat /\ Taken(s) \in Nat /\ Limit(s) \in Nat
    BY LineFacts, LimitFacts
  <1>2. /\ Ascending(sent[s], 0, LastSent(s)) /\ Ascending(q[s].msgs, Taken(s), Limit(s))
        /\ LastSent(s) <= Taken(s) /\ Taken(s) <= Limit(s)
        /\ pdmMsg[s] # NoMsg => LastSent(s) < Taken(s)
    BY LineFacts DEF LineOf
  <1>3. \A x \in Messages : x.id \in Nat
    BY MessageFields
  <1>4. /\ p \in Seq(Messages) /\ Ascending(p, LastSent(s), Taken(s))
        /\ Items(p) = IF pdmMsg[s] = NoMsg THEN {} ELSE {pdmMsg[s]}
    <2>1. CASE pdmMsg[s] = NoMsg
      <3>1. p = <<>> /\ Len(p) = 0
        BY <2>1
      <3>2. Ascending(p, LastSent(s), Taken(s))
        BY <3>1 DEF Ascending
      <3> QED
        BY <2>1, <3>1, <3>2, ItemsEmpty
    <2>2. CASE pdmMsg[s] # NoMsg
      <3>1. pdmMsg[s] \in Messages /\ Taken(s) = pdmMsg[s].id
        BY <1>1, <2>2 DEF MaybeMessage, Taken
      <3>2. p = <<pdmMsg[s]>> /\ Len(p) = 1 /\ p[1] = pdmMsg[s]
        BY <2>2
      <3>3. Ascending(p, LastSent(s), Taken(s))
        <4>1. \A i \in 1 .. Len(p) : i = 1
          BY <3>2
        <4>2. LastSent(s) < p[1].id /\ p[1].id <= Taken(s)
          <5>1. p[1].id = Taken(s) /\ LastSent(s) < Taken(s) /\ Taken(s) \in Nat
            BY <1>1, <1>2, <2>2, <3>1, <3>2
          <5> QED
            BY <5>1
        <4> QED
          BY <4>1, <4>2 DEF Ascending
      <3>4. p \in Seq(Messages) /\ Items(p) = {pdmMsg[s]}
        BY <3>1, <3>2 DEF Items
      <3> QED
        BY <2>2, <3>3, <3>4
    <2> QED
      BY <2>1, <2>2
  <1> HIDE DEF p
  <1>5. /\ sent[s] \o p \in Seq(Messages) /\ Ascending(sent[s] \o p, 0, Taken(s))
        /\ Items(sent[s] \o p) = Items(sent[s]) \cup Items(p)
    <2>1. 0 \in Nat /\ 0 <= LastSent(s)
      BY <1>1
    <2> QED
      <3>1. p \in Seq(Messages) /\ Ascending(p, LastSent(s), Taken(s))
        BY <1>4
      <3>2. Ascending(sent[s], 0, LastSent(s)) /\ LastSent(s) <= Taken(s)
        BY <1>2
      <3> QED
        BY <1>1, <1>3, <2>1, <3>1, <3>2, OrderConcat, SMTT(60)
  <1> DEFINE a == sent[s] \o p
  <1>6. a \in Seq(Messages) /\ Ascending(a, 0, Taken(s))
    BY <1>5
  <1>7. Items(a) = Items(sent[s]) \cup Items(p)
    BY <1>5
  <1>8. Line(s) = a \o q[s].msgs
    BY DEF Line, p
  <1> HIDE DEF a
  <1>9. /\ a \o q[s].msgs \in Seq(Messages) /\ Ascending(a \o q[s].msgs, 0, Limit(s))
        /\ Items(a \o q[s].msgs) = Items(a) \cup Items(q[s].msgs)
    <2>1. 0 \in Nat /\ 0 <= Taken(s)
      BY <1>1
    <2> QED
      <3>1. Ascending(q[s].msgs, Taken(s), Limit(s)) /\ Taken(s) <= Limit(s)
        BY <1>2
      <3> QED
        BY <1>1, <1>3, <1>6, <2>1, <3>1, OrderConcat, SMTT(60)
  <1> QED
    BY <1>4, <1>7, <1>8, <1>9 DEF Got

\* A message that the dispatcher thread is done with is within the bound of
\* every client.
LEMMA DispatchedWithin ==
    ASSUME RouteInv, NEW n \in DOMAIN log, Dispatched(n), NEW s \in Service
    PROVE  n \in 1 .. Limit(s)
  <1>1. n \in 1 .. Len(log) /\ n \in Nat
    BY PipeFacts
  <1>2. /\ \A i \in 1 .. Len(log) : log[i].id = i
        /\ \A i \in 1 .. Len(inq) : inq[i] = log[Done + i]
        /\ srv.at = "enqueue" => Len(log) >= 1 /\ srv.m = log[Len(log)]
        /\ disp.at = "next" => Done >= 1 /\ disp.m = log[Done]
    BY DEF RouteInv, PipeOK
  <1>3. srv.at = "enqueue" => n # Len(log)
    <2> SUFFICES ASSUME srv.at = "enqueue" PROVE n # Len(log)
      OBVIOUS
    <2>1. Len(log) \in 1 .. Len(log)
      <3>1. Len(log) >= 1 /\ Len(log) \in Nat
        BY <1>2, PipeFacts
      <3> QED
        BY <3>1
    <2>2. srv.m \in Messages /\ srv.m.id = Len(log)
      BY <1>2, <2>1, PipeFacts
    <2> QED
      BY <2>2, MessageFields DEF Dispatched
  <1>4. disp.at = "next" => n # Done
    <2> SUFFICES ASSUME disp.at = "next" PROVE n # Done
      OBVIOUS
    <2>1. Done \in 1 .. Len(log)
      <3>1. Done >= 1 /\ Done \in Nat /\ Done <= Len(log) /\ Len(log) \in Nat
        BY <1>2, PipeFacts
      <3> QED
        BY <3>1
    <2>2. disp.m \in Messages /\ disp.m.id = Done
      BY <1>2, <2>1, PipeFacts
    <2> QED
      BY <2>2, MessageFields DEF Dispatched
  <1>5. ASSUME NEW i \in 1 .. Len(inq) PROVE n # Done + i
    <2>1. Done + i \in 1 .. Len(log) /\ i \in DOMAIN inq
      BY PipeFacts
    <2>2. inq[i].id = Done + i
      BY <1>2, <2>1
    <2> QED
      BY <2>1, <2>2 DEF Dispatched
  <1>6. n <= Done
    <2> SUFFICES ASSUME n > Done PROVE FALSE
      BY <1>1, PipeFacts
    <2>1. n - Done \in Nat /\ n - Done >= 1 /\ Done + (n - Done) = n
      BY <1>1, PipeFacts
    <2>2. n - Done > Len(inq)
      BY <1>5, <2>1, PipeFacts
    <2> QED
      BY <1>1, <1>3, <2>1, <2>2, PipeFacts DEF If
  <1> QED
    BY <1>1, <1>4, <1>6, PipeFacts DEF Limit

\* The invariant is what the routing promises.
LEMMA RouteSound == RouteInv => RoutingSound
  <1> SUFFICES ASSUME RouteInv PROVE RoutingSound
    OBVIOUS
  <1>1. TypeOK /\ KnownIsResumed
    BY DEF RouteInv, IdsOK, KnownIsResumed
  <1>2. ASSUME NEW s \in Service
        PROVE  /\ DOMAIN Line(s) = 1 .. Len(Line(s))
               /\ \A i \in DOMAIN Line(s) : Line(s)[i] \in Got(s)
               /\ \A x \in Got(s) : \E i \in DOMAIN Line(s) : Line(s)[i] = x
    <2>1. Line(s) \in Seq(Messages) /\ Items(Line(s)) = Got(s)
      BY LineInOrder
    <2>2. DOMAIN Line(s) = 1 .. Len(Line(s))
      BY <2>1
    <2> QED
      BY <2>1, <2>2, Zenon DEF Items
  <1>3. RoutedInOrder
    <2> SUFFICES ASSUME NEW s \in Service
                 PROVE  /\ \A i, j \in DOMAIN Line(s) : i < j => Line(s)[i].id < Line(s)[j].id
                        /\ \A i \in DOMAIN Line(s) :
                              /\ Line(s)[i].mid \in Subscribed[s]
                              /\ Line(s)[i].dest # 0 => owner[Line(s)[i].dest] = s
      BY DEF RoutedInOrder
    <2>1. \A i, j \in DOMAIN Line(s) : i < j => Line(s)[i].id < Line(s)[j].id
      BY <1>2, LineInOrder DEF Ascending
    <2>2. MeantFor(s)
      BY LineFacts
    <2> QED
      BY <1>2, <2>1, <2>2 DEF MeantFor
  <1>4. NobodyMissed
    <2> SUFFICES ASSUME NEW n \in DOMAIN log, NEW s \in Service, Dispatched(n),
                        log[n].dest = 0, log[n].mid \in Subscribed[s]
                 PROVE  \/ <<n, s>> \in dropped
                        \/ \E i \in DOMAIN Line(s) : Line(s)[i].id = n
      BY DEF NobodyMissed
    <2>1. n \in 1 .. Limit(s) /\ GotBy(s)
      BY DispatchedWithin, LineFacts
    <2> QED
      <3>1. <<n, s>> \in dropped \/ \E x \in Got(s) : x.id = n
        BY <2>1 DEF GotBy
      <3> QED
        BY <1>2, <3>1
  <1> QED
    BY <1>1, <1>3, <1>4 DEF RoutingSound

\* The routing of the daemon, for any services, messages, queue length, bounds
\* and interleaving of its threads: a client gets its messages in the order of
\* arrival and no others, _dispatchMsg, which gives up its loop when the queue
\* of the last client is full, costs no other client a message, and the client
\* of a service whose id is known is not paused.
THEOREM RoutingSoundAlways == Spec => []RoutingSound
  <1>1. Init => RouteInv
    BY InitRoute
  <1>2. RouteInv /\ [Next]_vars => RouteInv'
    BY NextRoute
  <1>3. RouteInv => RoutingSound
    BY RouteSound
  <1> QED
    BY <1>1, <1>2, <1>3, PTL DEF Spec
=============================================================================
