----------------------------- MODULE Dispatcher -----------------------------
(***************************************************************************)
(* The dispatcher daemon (dispatcher/daemon): services publish messages to *)
(* it, it hands every message to the services that subscribe to it.        *)
(*                                                                         *)
(* Three threads run it.  The server chain thread receives a message,      *)
(* checks it, learns the service's id from it, queues it and ups a         *)
(* semaphore.  The dispatcher thread downs the semaphore, drains the queue *)
(* and puts every message into the xfer queue of every matching client.    *)
(* The client chain thread takes the messages out of the xfer queues and   *)
(* sends them.  The reference number by which the threads share a message  *)
(* is the subject of MsgRef.                                               *)
(*                                                                         *)
(* The priority queue of a client is PrioQueueOps; connections, retries    *)
(* and the pause of a client's pool are the subject of XferPool, here a    *)
(* client that is not paused may send at any time.                         *)
(***************************************************************************)
EXTENDS PrioQueueOps, Functions

CONSTANTS
    Services,   \* ls_jlServiceConfig: a sequence of services
    Published,  \* dsc_jlPublishedMsg, a set of message ids, per service
    Subscribed, \* dsc_jlSubscribedMsg, a set of message ids, per service
    Kinds,      \* the messages sent: [mid : id, toAll : BOOLEAN, prio : priority]
    NoMsg,      \* NULL
    MaxEvents   \* the bound: messages accepted and services restarted, together

Service == Range(Services)
MsgId == UNION {Published[s] : s \in Service}

ASSUME DispatcherAssumption ==
    /\ Services \in Seq(Service)
    /\ \A i, j \in DOMAIN Services : Services[i] = Services[j] => i = j
    /\ Kinds \subseteq [mid : MsgId, toAll : BOOLEAN, prio : Prios]
    /\ MaxEvents \in Nat

\* Process ids are never reused; 0 is none.
Pids == 1 .. Len(Services) + MaxEvents

VARIABLES
    owner,      \* the service of every process started, a sequence: pid -> service
    servId,     \* dsc_u32ServiceId of every service, 0 at first
    paused,     \* the clients whose xfer is paused
    inq,        \* id_jqMsgQueue
    sem,        \* the value of id_jsMsgSem
    main,       \* the thread that runs stopDispatcher: "run", "stopping", "stopped"
    srv,        \* the server chain thread: [at, m]
    disp,       \* the dispatcher thread: [at, m, todo, err]
    q,          \* the xfer's priority queue, per service
    pdmMsg,     \* idxop_pdmMsg, the message being sent, per service
    \* Ghosts.
    log,        \* the messages log, in the order of arrival
    sent,       \* the messages sent to every service, in order
    dropped     \* <<message number, service>>: refused or evicted, queue full

vars == <<owner, servId, paused, inq, sem, main, srv, disp, q, pdmMsg, log, sent, dropped>>

\* A message: its number in the order of arrival, and the fields of its
\* header that the daemon reads; destination 0 is everybody.
Messages == [id : 1 .. MaxEvents, mid : MsgId, src : Pids, dest : Pids \cup {0}, prio : Prios]

\* NULL is no message.
ASSUME NoMsgAssumption == NoMsg \notin Messages

MaybeMessage == Messages \cup {NoMsg}

\* createDispatcherServiceClients: every client is created paused.
Init ==
    /\ owner = Services
    /\ servId = [s \in Service |-> 0]
    /\ paused = Service
    /\ inq = <<>>
    /\ sem = 0
    /\ main = "run"
    /\ srv = [at |-> "idle", m |-> NoMsg]
    /\ disp = [at |-> "top", m |-> NoMsg, todo |-> <<>>, err |-> FALSE]
    /\ q = [s \in Service |-> EmptyPrioQueue]
    /\ pdmMsg = [s \in Service |-> NoMsg]
    /\ log = <<>>
    /\ sent = [s \in Service |-> <<>>]
    /\ dropped = {}

-----------------------------------------------------------------------------
(* The services: a process dies and is started again, with a pid of its    *)
(* own.  Bytes of the dead process may still wait in its connection, and   *)
(* the server accepts two connections per service.                         *)

MoreEvents == Len(log) + (Len(owner) - Len(Services)) < MaxEvents

Restart(s) ==
    /\ MoreEvents
    /\ owner' = Append(owner, s)
    /\ UNCHANGED <<servId, paused, inq, sem, main, srv, disp, q, pdmMsg, log, sent, dropped>>

-----------------------------------------------------------------------------
(* The server chain thread.                                                *)

\* _findDispatcherServiceClientByServId: the first client with the id, if any.
FindByServId(ids, id) ==
    LET I == {i \in DOMAIN Services : ids[Services[i]] = id}
    IN  {Services[i] : i \in {k \in I : \A l \in I : k <= l}}

\* _isServiceServerMsgAllowed.
IsMsgAllowed(s, src, mid) == src # 0 /\ mid \in Published[s]

\* _processServiceServerMsg for a full message that is allowed (any other is
\* skipped and changes nothing), up to the call of
\* _fnDispatcherQueueServiceServerMsg, which creates the message.
ProcessServerMsg(s, src, k, dest) ==
    /\ srv.at = "idle"
    /\ MoreEvents
    /\ src \in DOMAIN owner /\ owner[src] = s
    /\ IF k.toAll THEN dest = 0 ELSE dest \in DOMAIN owner
    /\ IsMsgAllowed(s, src, k.mid)
    /\ servId' = [servId EXCEPT ![s] = src]
    /\ paused' = IF servId[s] # src THEN paused \ FindByServId(servId', src) ELSE paused
    /\ LET m == [id |-> Len(log) + 1, mid |-> k.mid, src |-> src, dest |-> dest, prio |-> k.prio]
       IN  /\ log' = Append(log, m)
           /\ srv' = [at |-> "enqueue", m |-> m]
    /\ UNCHANGED <<owner, inq, sem, main, disp, q, pdmMsg, sent, dropped>>

\* _enqueueMsgInDispatcherMsgQueue.
EnqueueMsg ==
    /\ srv.at = "enqueue"
    /\ inq' = Append(inq, srv.m)
    /\ srv' = [at |-> "semUp", m |-> NoMsg]
    /\ UNCHANGED <<owner, servId, paused, sem, main, disp, q, pdmMsg, log, sent, dropped>>

\* Mutant: the semaphore is upped for the first message in the queue only.
SemUpIfFirst ==
    /\ srv.at = "semUp"
    /\ sem' = IF Len(inq) <= 1 THEN sem + 1 ELSE sem
    /\ srv' = [srv EXCEPT !.at = "idle"]
    /\ UNCHANGED <<owner, servId, paused, inq, main, disp, q, pdmMsg, log, sent, dropped>>

\* The end of _fnDispatcherQueueServiceServerMsg.
SemUp ==
    /\ srv.at = "semUp"
    /\ sem' = sem + 1
    /\ srv' = [srv EXCEPT !.at = "idle"]
    /\ UNCHANGED <<owner, servId, paused, inq, main, disp, q, pdmMsg, log, sent, dropped>>

-----------------------------------------------------------------------------
(* The dispatcher thread.                                                  *)

\* id_bToTerminate.
bToTerminate == main # "run"

\* The bucket of the hash table that a message id falls into: every client is
\* added at its head.  A client with no entry for the id is passed over like
\* one with an entry for another id of the same hash.
Bucket == [i \in DOMAIN Services |-> Services[Len(Services) + 1 - i]]

\* _isMatchingDispatcherSubscribedMsg.
IsMatching(s, m) == /\ m.mid \in Subscribed[s]
                    /\ m.dest # 0 => servId[s] = m.dest

\* The loop condition of _dispatcherMsgThread.
DispTop ==
    /\ disp.at = "top"
    /\ disp' = [disp EXCEPT !.at = IF bToTerminate THEN "end" ELSE "semDown"]
    /\ UNCHANGED <<owner, servId, paused, inq, sem, main, srv, q, pdmMsg, log, sent, dropped>>

\* jf_sem_down, which blocks while the semaphore is 0.
SemDown ==
    /\ disp.at = "semDown"
    /\ sem > 0
    /\ sem' = sem - 1
    /\ disp' = [disp EXCEPT !.at = "first", !.err = FALSE]
    /\ UNCHANGED <<owner, servId, paused, inq, main, srv, q, pdmMsg, log, sent, dropped>>

\* _dequeueMsgInDispatcherMsgQueue, the first call and those in the loop of
\* _dispatchMsg.
DispDequeue ==
    /\ disp.at \in {"first", "more"}
    /\ IF inq = <<>>
       THEN /\ disp' = [disp EXCEPT !.at = "top"]
            /\ UNCHANGED inq
       ELSE /\ disp' = [disp EXCEPT !.at = "next", !.m = Head(inq),
                                    !.todo = Bucket]
            /\ inq' = Tail(inq)
    /\ UNCHANGED <<owner, servId, paused, sem, main, srv, q, pdmMsg, log, sent, dropped>>

\* dispatchMsgToServiceClients: the next entry does not match.
DispSkip ==
    /\ disp.at = "next" /\ disp.todo # <<>>
    /\ ~IsMatching(Head(disp.todo), disp.m)
    /\ disp' = [disp EXCEPT !.todo = Tail(@)]
    /\ UNCHANGED <<owner, servId, paused, inq, sem, main, srv, q, pdmMsg, log, sent, dropped>>

\* It matches, and _dispatchMsgToServ calls dispatcher_xfer_sendMsg: the
\* message is queued, the oldest one of a full queue evicted for it.
DispSend ==
    LET s == Head(disp.todo)
        m == disp.m
    IN  /\ disp.at = "next" /\ disp.todo # <<>>
        /\ IsMatching(s, m)
        /\ CanBeQueued(q[s], m.prio)
        /\ q' = [q EXCEPT ![s] = Enqueue(@, m)]
        /\ dropped' = dropped \cup {<<e.id, s>> : e \in Range(Evicted(q[s], m.prio))}
        /\ disp' = [disp EXCEPT !.todo = Tail(@), !.err = FALSE]
        /\ UNCHANGED <<owner, servId, paused, inq, sem, main, srv, pdmMsg, log, sent>>

\* Mutant: a full queue ends the loop over the clients.
DispFullBreaks ==
    LET s == Head(disp.todo)
    IN  /\ disp.at = "next" /\ disp.todo # <<>>
        /\ IsMatching(s, disp.m)
        /\ ~CanBeQueued(q[s], disp.m.prio)
        /\ dropped' = dropped \cup {<<disp.m.id, s>>}
        /\ disp' = [disp EXCEPT !.todo = <<>>, !.err = TRUE]
        /\ UNCHANGED <<owner, servId, paused, inq, sem, main, srv, q, pdmMsg, log, sent>>

\* It matches, but the queue is full and the message may evict none:
\* JF_ERR_MSG_QUEUE_FULL is the result of this client.
DispFull ==
    LET s == Head(disp.todo)
    IN  /\ disp.at = "next" /\ disp.todo # <<>>
        /\ IsMatching(s, disp.m)
        /\ ~CanBeQueued(q[s], disp.m.prio)
        /\ dropped' = dropped \cup {<<disp.m.id, s>>}
        /\ disp' = [disp EXCEPT !.todo = Tail(@), !.err = TRUE]
        /\ UNCHANGED <<owner, servId, paused, inq, sem, main, srv, q, pdmMsg, log, sent>>

\* Mutant: the thread ends after an error.
DispDoneQuits ==
    /\ disp.at = "next" /\ disp.todo = <<>>
    /\ disp' = [disp EXCEPT !.at = IF disp.err THEN "end" ELSE "more", !.m = NoMsg]
    /\ UNCHANGED <<owner, servId, paused, inq, sem, main, srv, q, pdmMsg, log, sent, dropped>>

\* After the last entry the message is released; the loop of _dispatchMsg
\* ends if the last client's result was an error, whatever is left in the
\* queue.
DispDone ==
    /\ disp.at = "next" /\ disp.todo = <<>>
    /\ disp' = [disp EXCEPT !.at = IF disp.err THEN "top" ELSE "more", !.m = NoMsg]
    /\ UNCHANGED <<owner, servId, paused, inq, sem, main, srv, q, pdmMsg, log, sent, dropped>>

DispStep ==
    DispTop \/ SemDown \/ DispDequeue \/ DispSkip \/ DispSend \/ DispFull \/ DispDone

-----------------------------------------------------------------------------
(* The client chain thread.                                                *)

\* _sendMsgInDispatcherPrioQueue: the next message is taken out of the queue.
CliDequeue(s) ==
    /\ s \notin paused
    /\ pdmMsg[s] = NoMsg
    /\ ~IsEmpty(q[s])
    /\ pdmMsg' = [pdmMsg EXCEPT ![s] = Head(q[s].msgs)]
    /\ q' = [q EXCEPT ![s] = Dequeue(@)]
    /\ UNCHANGED <<owner, servId, paused, inq, sem, main, srv, disp, log, sent, dropped>>

\* _sendPendingMsgInDispatcherXferObjectPool has sent its last byte.
CliSent(s) ==
    /\ s \notin paused
    /\ pdmMsg[s] # NoMsg
    /\ sent' = [sent EXCEPT ![s] = Append(@, pdmMsg[s])]
    /\ pdmMsg' = [pdmMsg EXCEPT ![s] = NoMsg]
    /\ UNCHANGED <<owner, servId, paused, inq, sem, main, srv, disp, q, log, dropped>>

CliStep == \E s \in Service : CliDequeue(s) \/ CliSent(s)

-----------------------------------------------------------------------------
(* stopDispatcher.                                                         *)

SetTerminate ==
    /\ main = "run"
    /\ main' = "stopping"
    /\ UNCHANGED <<owner, servId, paused, inq, sem, srv, disp, q, pdmMsg, log, sent, dropped>>

\* Mutant: the thread is not woken up.
StopSilently ==
    /\ main = "stopping"
    /\ main' = "stopped"
    /\ UNCHANGED <<owner, servId, paused, inq, sem, srv, disp, q, pdmMsg, log, sent, dropped>>

\* _stopMsgDispatcherThread ups the semaphore after the flag is set.
StopSemUp ==
    /\ main = "stopping"
    /\ main' = "stopped"
    /\ sem' = sem + 1
    /\ UNCHANGED <<owner, servId, paused, inq, srv, disp, q, pdmMsg, log, sent, dropped>>

Next ==
    \/ \E s \in Service : Restart(s)
    \/ \E s \in Service, src \in Pids, k \in Kinds, dest \in Pids \cup {0} :
           ProcessServerMsg(s, src, k, dest)
    \/ EnqueueMsg
    \/ SemUp
    \/ DispStep
    \/ CliStep
    \/ SetTerminate
    \/ StopSemUp

Spec == Init /\ [][Next]_vars

\* Threads that can run do run: the dispatcher thread, the server chain inside
\* a handler, and the thread that stops the daemon inside stopDispatcher.
FairSpec ==
    Spec /\ WF_vars(DispStep) /\ WF_vars(EnqueueMsg) /\ WF_vars(SemUp) /\ WF_vars(StopSemUp)

-----------------------------------------------------------------------------
(* Properties.                                                             *)

\* One if the condition holds, a message more or less in a count.
If(b) == IF b THEN 1 ELSE 0

\* The types of the daemon's state; the semaphore is upped once per message
\* and once by stopDispatcher, and never below 0.
TypeOK ==
    /\ owner \in Seq(Service)
    /\ servId \in [Service -> Pids \cup {0}]
    /\ paused \subseteq Service
    /\ inq \in Seq(Messages)
    /\ sem \in 0 .. MaxEvents + 1
    /\ main \in {"run", "stopping", "stopped"}
    /\ srv \in [at : {"idle", "enqueue", "semUp"}, m : MaybeMessage]
    /\ disp \in [at : {"top", "semDown", "first", "more", "next", "end"},
                 m : MaybeMessage, todo : Seq(Service), err : BOOLEAN]
    /\ q \in [Service -> QueueOf(Messages)]
    /\ sent \in [Service -> Seq(Messages)]
    /\ pdmMsg \in [Service -> MaybeMessage]
    /\ log \in Seq(Messages)
    /\ Len(log) + Len(owner) <= Len(Services) + MaxEvents

\* The semaphore, with the up that is still to come and the down that is not
\* yet used, covers the queued messages.  So the dispatcher thread never
\* sleeps in jf_sem_down on a message, although it drains the queue after one
\* down and leaves its loop early when the queue of a client is full.
WakeupsCoverQueue ==
    Len(inq) <= sem + If(srv.at = "semUp") + If(disp.at = "first")

\* Everything that went to the client of a service, oldest first.
Line(s) ==
    sent[s]
    \o (IF pdmMsg[s] = NoMsg THEN <<>> ELSE <<pdmMsg[s]>>)
    \o q[s].msgs

\* A client gets the messages in the order of arrival and none twice, only
\* those its service subscribes to, and a message with a destination only if
\* the destination is, or was, a process of that service.
RoutedInOrder ==
    \A s \in Service :
        LET l == Line(s)
        IN  /\ \A i, j \in DOMAIN l : i < j => l[i].id < l[j].id
            /\ \A i \in DOMAIN l : /\ l[i].mid \in Subscribed[s]
                                   /\ l[i].dest # 0 => owner[l[i].dest] = s

\* The dispatcher thread is done with message n.
Dispatched(n) ==
    /\ srv.m # NoMsg => srv.m.id # n
    /\ \A i \in DOMAIN inq : inq[i].id # n
    /\ disp.m # NoMsg => disp.m.id # n

\* Once the dispatcher thread is done with a message for everybody, every
\* subscriber has it, or lost it to a full queue: one client's full queue,
\* which ends the loop of _dispatchMsg, costs no other client a message.
NobodyMissed ==
    \A n \in DOMAIN log, s \in Service :
        Dispatched(n) /\ log[n].dest = 0 /\ log[n].mid \in Subscribed[s]
            => \/ <<n, s>> \in dropped
               \/ \E i \in DOMAIN Line(s) : Line(s)[i].id = n

\* The client of a service whose id is known is not paused: the client that
\* the id finds is the one of the service that sent it, across restarts.
KnownIsResumed == \A s \in Service : servId[s] # 0 => s \notin paused

\* The routing of the dispatcher daemon, from _dispatchMsg to the queue of each
\* client: every subscriber gets its messages, in order and no others.
RoutingSound == TypeOK /\ RoutedInOrder /\ NobodyMissed /\ KnownIsResumed

\* The dispatcher thread empties the queue again and again until the daemon is
\* stopped, so every message is dispatched, also behind one that found the
\* queue of a client full.
EventuallyDispatched == []<>(inq = <<>> \/ bToTerminate)

\* stopDispatcher ends the dispatcher thread.
ThreadStops == bToTerminate ~> disp.at = "end"
=============================================================================
