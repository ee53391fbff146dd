----------------------------- MODULE Messaging -----------------------------
(***************************************************************************)
(* The messaging library inside a service (dispatcher/messaging/) and the  *)
(* service configurations of the daemon (dispatcher/daemon/serviceconfig.c)*)
(*                                                                         *)
(* Side "service": a chain thread cuts the stream from the daemon into     *)
(* messages, application threads add messages of their own, a worker       *)
(* thread is woken by a semaphore and drains the queue.  A message is its  *)
(* header cell followed by its payload cells.                              *)
(*                                                                         *)
(* Side "config": the daemon reads the files of its configuration          *)
(* directory, one after the other, into a list.                            *)
(***************************************************************************)
EXTENDS Integers, Sequences, SequencesExt

CONSTANTS QueueSize,     \* jmip_u32MaxNumMsg
          U32Size,       \* the number of values of a u32
          BufSize,       \* jmip_sMaxMsg, in cells: the buffer of a connection
          PayloadSizes,  \* payloads of the messages, in cells
          PayloadReads,  \* what a payload may announce when it is taken for a header
          MaxSent,       \* bound: messages sent to the service
          FileKinds,     \* the files a configuration directory may hold
          MaxFiles,      \* bound: files of the directory
          MaxNumOfMsg, MaxMsgSize  \* limits of a service configuration

Q == INSTANCE PrioQueueOps WITH MaxNumMsg <- QueueSize, U32 <- U32Size

VARIABLES mside, sent, net, buf, queue, sem, prod, worker, life, entered, lost, done,
          configs, objects, dir

serviceVars == <<sent, net, buf, queue, sem, prod, worker, life, entered, lost, done>>
configVars == <<configs, objects, dir>>
vars == <<mside, serviceVars, configVars>>

Producers == {"chain", "app"}
NoMsg == [n |-> 0, prio |-> "low", payload |-> 0]

-----------------------------------------------------------------------------
(* initMessagingMsgHeader and getMessagingMsgSize.                         *)
Header(n, prio, payload) == [n |-> n, prio |-> prio, payload |-> payload]
MsgSize(h) == 1 + h.payload

(* The cells of a message; a payload cell that is taken for a header reads *)
(* as one that announces so many cells.                                    *)
Cells(h, reads) ==
    [i \in 1..MsgSize(h) |-> [h |-> IF i = 1 THEN h ELSE Header(0, h.prio, reads), i |-> i]]

(* isMessagingFullMsg: a whole header, and the payload it announces.       *)
IsFullMsg(b) == Len(b) >= 1 /\ Len(b) >= MsgSize(b[1].h)

(* The daemon's client sends to the service; it knows no limit but its own.*)
DaemonSends(prio, payload, reads) ==
    LET h == Header(Len(sent) + 1, prio, payload) IN
    /\ Len(sent) < MaxSent
    /\ sent' = Append(sent, h)
    /\ net' = net \o Cells(h, reads)
    /\ UNCHANGED <<mside, buf, queue, sem, prod, worker, life, entered, lost, done, configVars>>

(* _processAsocket: a full buffer of which nothing could be processed is   *)
(* cleared.                                                                *)
AfterData(b) == IF Len(b) = BufSize /\ ~IsFullMsg(b) THEN <<>> ELSE b

(* _onDispatcherMessagingServerData: more data is read, as far as there is *)
(* room, once no message in the buffer can be processed.                   *)
Receive(k) ==
    /\ life = "started" /\ prod["chain"] = "idle" /\ ~IsFullMsg(buf)
    /\ k <= Len(net) /\ Len(buf) + k <= BufSize
    /\ buf' = AfterData(buf \o SubSeq(net, 1, k)) /\ net' = SubSeq(net, k + 1, Len(net))
    /\ UNCHANGED <<mside, sent, queue, sem, prod, worker, life, entered, lost, done, configVars>>

(* enqueueDispatcherPrioQueue of _addDispatcherMessagingMsg; a message the *)
(* full queue refuses is freed.                                            *)
AddMessagingMsg(p, m) ==
    IF Q!CanBeQueued(queue, m.prio)
    THEN /\ queue' = Q!Enqueue(queue, m)
         /\ lost' = lost \cup ToSet(Q!Evicted(queue, m.prio))
         /\ entered' = Append(entered, m)
         /\ prod' = [prod EXCEPT ![p] = "up"]
    ELSE /\ lost' = lost \cup {m}
         /\ UNCHANGED <<queue, entered, prod>>

(* _processMessagingServerMsg: the message leaves the buffer, queued or    *)
(* not.                                                                    *)
ProcessMessagingServerMsg ==
    /\ life = "started" /\ prod["chain"] = "idle" /\ IsFullMsg(buf)
    /\ AddMessagingMsg("chain", buf[1].h)
    /\ buf' = SubSeq(buf, MsgSize(buf[1].h) + 1, Len(buf))
    /\ UNCHANGED <<mside, sent, net, sem, worker, life, done, configVars>>

(* jf_messaging_sendInternalMsg.                                           *)
SendInternalMsg(prio) ==
    /\ life = "started" /\ prod["app"] = "idle" /\ Len(sent) < MaxSent
    /\ sent' = Append(sent, Header(Len(sent) + 1, prio, 0))
    /\ AddMessagingMsg("app", Last(sent'))
    /\ UNCHANGED <<mside, net, buf, sem, worker, life, done, configVars>>

(* Mutant: a producer wakes the worker for the first message only.         *)
SemUpFirst(p) ==
    /\ prod[p] = "up"
    /\ sem' = IF Len(queue.msgs) = 1 THEN sem + 1 ELSE sem
    /\ prod' = [prod EXCEPT ![p] = "idle"]
    /\ UNCHANGED <<mside, sent, net, buf, queue, worker, life, entered, lost, done, configVars>>

(* jf_sem_up of _addDispatcherMessagingMsg.                                *)
SemUp(p) ==
    /\ prod[p] = "up"
    /\ sem' = sem + 1
    /\ prod' = [prod EXCEPT ![p] = "idle"]
    /\ UNCHANGED <<mside, sent, net, buf, queue, worker, life, entered, lost, done, configVars>>

(* _messagingServerWorkerThread: the flag, the semaphore, the drain.       *)
WorkerTop ==
    /\ worker.pc = "top"
    /\ worker' = [worker EXCEPT !.pc = IF life = "stopped" THEN "quit" ELSE "down"]
    /\ UNCHANGED <<mside, sent, net, buf, queue, sem, prod, life, entered, lost, done, configVars>>

WorkerDown ==
    /\ worker.pc = "down" /\ sem > 0
    /\ sem' = sem - 1
    /\ worker' = [worker EXCEPT !.pc = "drain"]
    /\ UNCHANGED <<mside, sent, net, buf, queue, prod, life, entered, lost, done, configVars>>

(* _processMsgInMessagingServer: dequeue, process, free, until empty.      *)
WorkerDrain ==
    /\ worker.pc = "drain"
    /\ \/ /\ queue.msgs = <<>> /\ worker' = [worker EXCEPT !.pc = "top"] /\ UNCHANGED queue
       \/ /\ queue.msgs # <<>>
          /\ queue' = Q!Dequeue(queue)
          /\ worker' = [pc |-> "process", msg |-> Head(queue.msgs)]
    /\ UNCHANGED <<mside, sent, net, buf, sem, prod, life, entered, lost, done, configVars>>

WorkerProcess ==
    /\ worker.pc = "process"
    /\ done' = Append(done, worker.msg)
    /\ worker' = [pc |-> "drain", msg |-> NoMsg]
    /\ UNCHANGED <<mside, sent, net, buf, queue, sem, prod, life, entered, lost, configVars>>

(* jf_messaging_init .. jf_messaging_start, which leave two threads running*)
(* and jf_messaging_stop, which sets the flag and stops the chain.         *)
StartMessaging ==
    /\ life = "init" /\ life' = "started"
    /\ worker' = [worker EXCEPT !.pc = "top"]
    /\ UNCHANGED <<mside, sent, net, buf, queue, sem, prod, entered, lost, done, configVars>>

StopMessaging ==
    /\ life = "started" /\ life' = "stopped"
    /\ UNCHANGED <<mside, sent, net, buf, queue, sem, prod, worker, entered, lost, done, configVars>>

Service ==
    \/ \E prio \in {"high", "low"} : \/ \E n \in PayloadSizes, r \in PayloadReads : DaemonSends(prio, n, r)
                                    \/ SendInternalMsg(prio)
    \/ \E k \in 1..BufSize : Receive(k)
    \/ ProcessMessagingServerMsg
    \/ \E p \in Producers : SemUp(p)
    \/ WorkerTop \/ WorkerDown \/ WorkerDrain \/ WorkerProcess
    \/ StartMessaging \/ StopMessaging

-----------------------------------------------------------------------------
(* A file: its kind and suffix, whether it is well formed, the nodes it    *)
(* has, the two limits and the ids of the two message lists, "bad" for one *)
(* that is missing or is not a number.                                     *)
Wanted == {"version", "serviceName", "userName", "messagingIn", "messagingOut", "maxNumMsg",
           "maxMsgSize", "publishedMessage", "subscribedMessage"}

(* _fnParseServMsg under jf_ptree_iterateNode: an object per message, the  *)
(* one that does not parse is freed and ends the list.                     *)
ParseServMsg(ids) ==
    LET bad == {i \in 1..Len(ids) : ids[i] = "bad"}
    IN [ok |-> bad = {},
        list |-> IF bad = {} THEN ids ELSE SubSeq(ids, 1, (CHOOSE i \in bad : \A j \in bad : i <= j) - 1)]

(* _getDispatcherServiceConfigVersion, _parseDispatcherServiceInfo and     *)
(* _parseDispatcherMessage, one after the other until one fails.           *)
ParseConfig(f) ==
    LET info == Wanted \ {"publishedMessage", "subscribedMessage"} \subseteq f.nodes
        none == [ok |-> FALSE, list |-> <<>>]
        pub == IF info /\ "publishedMessage" \in f.nodes THEN ParseServMsg(f.pub) ELSE none
        sub == IF pub.ok /\ "subscribedMessage" \in f.nodes THEN ParseServMsg(f.sub) ELSE none
    IN [ok |-> pub.ok /\ sub.ok, pub |-> pub.list, sub |-> sub.list]

(* _validateDispatcherServiceConfig.                                       *)
ValidConfig(f) == f.numMsg \in 1..MaxNumOfMsg /\ f.msgSize \in 1..MaxMsgSize

(* _fnFreeDispatcherServiceConfig frees both lists and the configuration.  *)
Freed(c) == Len(c.pub) + Len(c.sub) + 1

(* _handleDispatcherConfigDirEntry and _parseDispatcherServiceConfigFile:  *)
(* a file that is not a good configuration leaves nothing behind.          *)
HandleDirEntry(f) ==
    LET c == ParseConfig(f)
        made == Len(c.pub) + Len(c.sub) + 1 IN
    /\ Len(dir) < MaxFiles
    /\ dir' = Append(dir, f)
    /\ \/ /\ ~(f.regular /\ f.xml /\ f.wellFormed)
          /\ UNCHANGED <<configs, objects>>
       \/ /\ f.regular /\ f.xml /\ f.wellFormed /\ c.ok /\ ValidConfig(f)
          /\ configs' = Append(configs, [file |-> f, id |-> Len(configs), pub |-> c.pub, sub |-> c.sub])
          /\ objects' = objects + made
       \/ /\ f.regular /\ f.xml /\ f.wellFormed /\ ~(c.ok /\ ValidConfig(f))
          /\ objects' = objects + made - Freed(c)
          /\ UNCHANGED configs
    /\ UNCHANGED <<mside, serviceVars>>

(* destroyDispatcherServiceConfigList.                                     *)
DestroyConfigList ==
    /\ configs # <<>>
    /\ configs' = <<>> /\ dir' = <<>>
    /\ objects' = FoldSeq(LAMBDA c, n : n - Freed(c), objects, configs)
    /\ UNCHANGED <<mside, serviceVars>>

-----------------------------------------------------------------------------
MessagingInit ==
    /\ mside \in {"service", "config"}
    /\ sent = <<>> /\ net = <<>> /\ buf = <<>> /\ queue = Q!EmptyPrioQueue /\ sem = 0
    /\ prod = [p \in Producers |-> "idle"] /\ worker = [pc |-> "none", msg |-> NoMsg]
    /\ life = "init" /\ entered = <<>> /\ lost = {} /\ done = <<>>
    /\ configs = <<>> /\ objects = 0 /\ dir = <<>>

MessagingNext == \/ mside = "service" /\ Service
                 \/ mside = "config" /\ ((\E f \in FileKinds : HandleDirEntry(f)) \/ DestroyConfigList)

MessagingSpec == MessagingInit /\ [][MessagingNext]_vars

-----------------------------------------------------------------------------
(* The worker processes, in the order of the queue, every message that the *)
(* daemon or the service itself sent, once and whole, except the ones the  *)
(* full queue refused or evicted, as long as each fits the buffer of the   *)
(* service (OnlyOversizeLost); and it never sleeps on a queue that is not  *)
(* empty, although a producer adds first and wakes afterwards.             *)
WorkerServesAll ==
    LET pending == IF worker.pc = "process" THEN <<worker.msg>> ELSE <<>>
        coming == {c.h : c \in {d \in ToSet(buf \o net) : d.i = 1}}
        fits(m) == MsgSize(m) <= BufSize
    IN /\ (\A m \in ToSet(sent) : fits(m)) =>
            /\ done \o pending \o queue.msgs = SelectSeq(entered, LAMBDA m : m \notin lost)
            /\ IsInjective(entered)
            /\ ToSet(sent) = ToSet(entered) \cup lost \cup coming
            /\ (ToSet(entered) \cup lost) \cap coming = {}
            /\ Len(buf) > 0 => buf[1].i = 1
       /\ worker.pc = "down" /\ sem = 0 /\ queue.msgs # <<>> => \E p \in Producers : prod[p] = "up"

(* Every good file of the directory, whatever the bad ones before it, is   *)
(* in the list with its place as identifier; and the objects allocated are *)
(* the configurations of the list and their messages.                      *)
ConfigsExact ==
    LET good(f) == /\ f.regular /\ f.xml /\ f.wellFormed /\ Wanted \subseteq f.nodes
                   /\ "bad" \notin ToSet(f.pub \o f.sub)
                   /\ f.numMsg \in 1..MaxNumOfMsg /\ f.msgSize \in 1..MaxMsgSize
        files == SelectSeq(dir, good)
    IN /\ configs = [i \in 1..Len(files) |->
                       [file |-> files[i], id |-> i - 1, pub |-> files[i].pub, sub |-> files[i].sub]]
       /\ objects = FoldSeq(LAMBDA f, n : n + 1 + Len(f.pub) + Len(f.sub), 0, files)

(* A message larger than the buffer of the service costs nobody but itself.*)
(* VIOLATED: the full buffer is cleared, and what follows of the message   *)
(* is taken for messages that nobody sent.                                 *)
OnlyOversizeLost == ToSet(entered) \subseteq ToSet(sent)

(* jf_messaging_stop ends the worker thread.  VIOLATED: the flag is set    *)
(* and the semaphore is not raised, a worker without messages sleeps on.   *)
WorkerStops == (life = "stopped") ~> (worker.pc = "quit")
FairMessaging == MessagingSpec /\ WF_vars(WorkerTop \/ WorkerDown \/ WorkerDrain \/ WorkerProcess)
                 /\ \A p \in Producers : WF_vars(SemUp(p))
============================================================================
