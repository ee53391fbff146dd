----------------------------- MODULE PrioQueue ------------------------------
(***************************************************************************)
(* The dispatcher priority queue as a state machine: producers enqueue     *)
(* messages of any priority, a consumer dequeues.  The daemon has one such *)
(* queue per service (dispatcher/xfer/xferpool.c), the messaging library   *)
(* two (outgoing and incoming).                                            *)
(***************************************************************************)
EXTENDS PrioQueueOps

CONSTANT MaxMsgs        \* bound on the messages ever produced

VARIABLES
    pq,         \* internal_dispatcher_prio_queue_t
    sent,       \* number of messages produced so far, also the newest id
    taken,      \* id of the message dequeued last, 0 at first
    outcome     \* what the last call did: its result and what it freed

vars == <<pq, sent, taken, outcome>>

Message == [id : Nat, prio : Prios]

\* What a call reports or frees.
Outcome(call, prio, dropped) == [call |-> call, prio |-> prio, dropped |-> dropped]

Init ==
    /\ pq = EmptyPrioQueue
    /\ sent = 0
    /\ taken = 0
    /\ outcome = Outcome("create", LOW, <<>>)

\* enqueueDispatcherPrioQueue.  The caller's message is new.
EnqueueDispatcherPrioQueue(p) ==
    LET m == [id |-> sent + 1, prio |-> p]
    IN  /\ sent < MaxMsgs
        /\ sent' = sent + 1
        /\ \/ /\ CanBeQueued(pq, p)
              /\ pq' = Enqueue(pq, m)
              /\ outcome' = Outcome("queued", p, Evicted(pq, p))
           \/ /\ CanBeQueued(pq, p)
              /\ pq' = EnqueueFails(pq, m)
              /\ outcome' = Outcome("nomem", p, Evicted(pq, p))
           \/ /\ ~CanBeQueued(pq, p)
              /\ outcome' = Outcome("full", p, <<>>)
              /\ UNCHANGED pq
        /\ UNCHANGED taken

\* dequeueDispatcherPrioQueue; on an empty queue it changes nothing.
DequeueDispatcherPrioQueue ==
    /\ ~IsEmpty(pq)
    /\ pq' = Dequeue(pq)
    /\ taken' = Head(pq.msgs).id
    /\ outcome' = Outcome("dequeued", Head(pq.msgs).prio, <<>>)
    /\ UNCHANGED sent

Next ==
    \/ \E p \in Prios : EnqueueDispatcherPrioQueue(p)
    \/ DequeueDispatcherPrioQueue

Spec == Init /\ [][Next]_vars
-----------------------------------------------------------------------------
OutcomeType == [call : {"create", "queued", "nomem", "full", "dequeued"},
                prio : Prios, dropped : Seq(Message)]

\* The queue holds messages, its counters are u32 values.
TypeOK ==
    /\ pq \in QueueOf(Message)
    /\ sent \in Nat
    /\ taken \in Nat
    /\ outcome \in OutcomeType

\* The three counters add up, as u32, to the number of messages in the queue,
\* although an eviction decrements the counter of the wrong priority: this is
\* what makes the limit test of _canDispatcherMsgBeQueued right.
CountersAddUp == NumOfMsg(pq) = Len(pq.msgs)

\* The queue never holds more than idpq_u32MaxNumMsg messages.
Bounded == Len(pq.msgs) <= MaxNumMsg

\* Messages leave in the order in which they were accepted, whatever was
\* evicted or refused in between.
FifoOrder ==
    /\ \A i, j \in 1 .. Len(pq.msgs) : i < j => pq.msgs[i].id < pq.msgs[j].id
    /\ \A i \in 1 .. Len(pq.msgs) : taken < pq.msgs[i].id

\* The inductive strengthening of FifoOrder: ids in the queue were handed out.
IdsHandedOut ==
    /\ taken <= sent
    /\ \A i \in 1 .. Len(pq.msgs) : pq.msgs[i].id <= sent

\* A message is dropped or refused only when the queue really holds
\* idpq_u32MaxNumMsg messages, however far the counters have drifted.
DropOnlyWhenFull ==
    [][ outcome'.dropped # <<>> \/ outcome'.call = "full"
          => Len(pq.msgs) = MaxNumMsg ]_vars

\* The comments of _canDispatcherMsgBeQueued: a full queue drops its oldest
\* message for a middle priority message "if no high priority message in
\* queue", for a low priority one "if no high and middle priority message in
\* queue", for a high priority one always.
Has(q, p) == \E i \in 1 .. Len(q.msgs) : q.msgs[i].prio = p

DocumentedEviction ==
    [][ sent' # sent /\ Len(pq.msgs) = MaxNumMsg =>
          LET p == outcome'.prio
          IN  (outcome'.dropped # <<>>) <=>
                \/ p = HIGH
                \/ p = MID /\ ~Has(pq, HIGH)
                \/ p = LOW /\ ~Has(pq, HIGH) /\ ~Has(pq, MID) ]_vars
=============================================================================
