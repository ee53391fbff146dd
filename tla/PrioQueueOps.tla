---------------------------- MODULE PrioQueueOps ----------------------------
(***************************************************************************)
(* The dispatcher priority queue (dispatcher/common/prioqueue.c on top of  *)
(* jiutai/jf_queue.c) as operators on its state, a record                  *)
(*                                                                         *)
(*   msgs            idpq_jqMsg, a FIFO list, oldest message first         *)
(*   high, mid, low  the three u32 counters of messages per priority       *)
(*                                                                         *)
(* Every operation of the code runs under idpq_jmMsg, hence is one step.   *)
(* A message is a record with a field prio (getDispatcherMsgPrio).         *)
(***************************************************************************)
EXTENDS Integers, Sequences

CONSTANTS
    MaxNumMsg,      \* idpq_u32MaxNumMsg
    U32             \* the number of values of a u32: 2^32 in the code

\* One message at least fits, and the limit is a u32 (the configuration
\* parser of the daemon accepts 1 to 500).
ASSUME MaxNumMsgAssumption ==
    /\ U32 \in Nat
    /\ MaxNumMsg \in 1 .. U32 - 1

HIGH == "high"
MID  == "mid"
LOW  == "low"
Prios == {HIGH, MID, LOW}

\* A queue of messages of the set M; the counters are u32 values.
Counter == 0 .. U32 - 1
QueueOf(M) == [msgs : Seq(M), high : Counter, mid : Counter, low : Counter]

\* jf_queue_init and ol_bzero in createDispatcherPrioQueue.
EmptyPrioQueue == [msgs |-> <<>>, high |-> 0, mid |-> 0, low |-> 0]

\* _getNumOfMsgInDispatcherPrioQueue: the sum wraps as a u32 does.
NumOfMsg(q) == (q.high + q.mid + q.low) % U32

\* _incNumOfMsgInDispatcherPrioQueue: any other priority counts as low.
IncNumOfMsg(q, p) ==
    [q EXCEPT !.high = IF p = HIGH THEN (@ + 1) % U32 ELSE @,
              !.mid  = IF p = MID  THEN (@ + 1) % U32 ELSE @,
              !.low  = IF p \notin {HIGH, MID} THEN (@ + 1) % U32 ELSE @]

\* _decNumOfMsgInDispatcherPrioQueue.
DecNumOfMsg(q, p) ==
    [q EXCEPT !.high = IF p = HIGH THEN (@ - 1) % U32 ELSE @,
              !.mid  = IF p = MID  THEN (@ - 1) % U32 ELSE @,
              !.low  = IF p \notin {HIGH, MID} THEN (@ - 1) % U32 ELSE @]

Full(q) == ~(NumOfMsg(q) < MaxNumMsg)

\* The condition under which _canDispatcherMsgBeQueued makes room (bDequeue)
\* in a full queue for a new message of priority p.
MayEvict(q, p) ==
    \/ p = HIGH
    \/ p = MID /\ q.high = 0
    \/ p \notin {HIGH, MID} /\ q.high = 0 /\ q.mid = 0

CanBeQueued(q, p) == Full(q) => MayEvict(q, p)

\* Mutant: an eviction that leaves the counters alone.
MakeRoomUncounted(q, p) ==
    IF Full(q) /\ MayEvict(q, p) THEN [q EXCEPT !.msgs = Tail(@)] ELSE q

\* The state _canDispatcherMsgBeQueued leaves: the oldest message is freed,
\* and the counter of the priority of the NEW message is decremented.
MakeRoom(q, p) ==
    IF Full(q) /\ MayEvict(q, p)
    THEN DecNumOfMsg([q EXCEPT !.msgs = Tail(@)], p)
    ELSE q

\* The message that MakeRoom frees, as a sequence of at most one.
Evicted(q, p) ==
    IF Full(q) /\ MayEvict(q, p) THEN <<Head(q.msgs)>> ELSE <<>>

\* Mutant: a high priority message jumps the queue.
EnqueueUrgentFirst(q, m) ==
    LET r == MakeRoom(q, m.prio)
    IN  IncNumOfMsg([r EXCEPT !.msgs = IF m.prio = HIGH THEN <<m>> \o @
                                                        ELSE Append(@, m)], m.prio)

\* enqueueDispatcherPrioQueue when it returns no error.
Enqueue(q, m) ==
    LET r == MakeRoom(q, m.prio)
    IN  IncNumOfMsg([r EXCEPT !.msgs = Append(@, m)], m.prio)

\* enqueueDispatcherPrioQueue when jf_queue_enqueue fails to allocate its
\* node: the room has been made all the same.
EnqueueFails(q, m) == MakeRoom(q, m.prio)

IsEmpty(q) == q.msgs = <<>>

\* Mutant: the counter is not decremented when a message is taken.
DequeueUncounted(q) == [q EXCEPT !.msgs = Tail(@)]

\* dequeueDispatcherPrioQueue of a queue that is not empty.
Dequeue(q) ==
    DecNumOfMsg([q EXCEPT !.msgs = Tail(@)], Head(q.msgs).prio)
=============================================================================
