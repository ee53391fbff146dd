--------------------------- MODULE MessagesProofs ---------------------------
(***************************************************************************)
(* Proofs about the messages of the dispatcher.                            *)
(*                                                                         *)
(* The priority queue, for every limit and every counter width: the        *)
(* counters add up to the length of the queue, the queue never exceeds its *)
(* limit, messages keep their order, and a message is dropped or refused   *)
(* only when the queue is really full.                                     *)
(*                                                                         *)
(* The reference number of a message, for any finite set of services: as   *)
(* long as the two threads were never inside operations on it at once, it  *)
(* counts the references and the message is destroyed exactly when the     *)
(* last one is released.  RefsExact is not inductive.  A store uses what   *)
(* its thread loaded before, so the invariant also says that the loaded    *)
(* value is still the number, and that not both threads are inside an      *)
(* operation (or raced would be TRUE).  Which service the dispatcher       *)
(* thread is about to visit, and which one the client chain thread         *)
(* releases, keeps the sets of holders from counting a client twice.       *)
(***************************************************************************)
EXTENDS PrioQueue, MsgRef, PrioQueueOpsProofs, FiniteSetTheorems

\* The inductive invariant of the queue.
IInv == TypeOK /\ CountersAddUp /\ Bounded /\ FifoOrder /\ IdsHandedOut

\* A message has a number and a priority.
LEMMA MessageFields == \A m \in Message : m.id \in Nat /\ m.prio \in Prios
  BY DEF Message

\* A created queue satisfies the invariant.
LEMMA InitIInv == Init => IInv
<1> SUFFICES ASSUME Init PROVE IInv
  OBVIOUS
<1> USE MaxNumMsgAssumption DEF Init, EmptyPrioQueue
<1>1. TypeOK
  BY DEF TypeOK, QueueOf, Counter, Outcome, OutcomeType, Prios, LOW, HIGH, MID
<1>2. CountersAddUp /\ Bounded
  BY ModSmall DEF CountersAddUp, Bounded, NumOfMsg
<1> QED BY <1>1, <1>2 DEF IInv, FifoOrder, IdsHandedOut

\* Every call of the interface preserves it.
LEMMA NextIInv == IInv /\ [Next]_vars => IInv'
<1> SUFFICES ASSUME IInv, [Next]_vars PROVE IInv'
  OBVIOUS
<1> USE MaxNumMsgAssumption
<1>0. QueueInv(pq, Message)
  BY DEF IInv, TypeOK, CountersAddUp, Bounded, QueueInv
<1>1. ASSUME NEW p \in Prios, EnqueueDispatcherPrioQueue(p) PROVE IInv'
  <2> DEFINE m == [id |-> sent + 1, prio |-> p]
  <2>1. m \in Message /\ m.prio = p /\ m.id = sent + 1
    BY <1>1 DEF IInv, TypeOK, Message
  <2>2. sent < MaxMsgs /\ sent' = sent + 1 /\ taken' = taken /\ sent \in Nat
    BY <1>1 DEF EnqueueDispatcherPrioQueue, IInv, TypeOK
  <2>3. Evicted(pq, p) \in Seq(Message)
    BY <1>0, MakeRoomStep DEF Evicted, QueueInv, QueueOf
  <2>4. outcome' \in OutcomeType
    <3>1. \E c \in {"queued", "nomem", "full"} : \E d \in Seq(Message) :
             outcome' = Outcome(c, p, d)
      <4>1. <<>> \in Seq(Message)
        OBVIOUS
      <4>2. \/ outcome' = Outcome("queued", p, Evicted(pq, p))
            \/ outcome' = Outcome("nomem", p, Evicted(pq, p))
            \/ outcome' = Outcome("full", p, <<>>)
        BY <1>1 DEF EnqueueDispatcherPrioQueue
      <4> HIDE DEF m
      <4> QED BY <2>3, <4>1, <4>2, Zenon
    <3> QED BY <3>1 DEF Outcome, OutcomeType
  <2>5. /\ QueueInv(pq', Message)
        /\ \/ pq'.msgs = Append(pq.msgs, m)
           \/ pq'.msgs = Append(Tail(pq.msgs), m) /\ pq.msgs # <<>>
           \/ pq'.msgs = pq.msgs
           \/ pq'.msgs = Tail(pq.msgs) /\ pq.msgs # <<>>
    <3>1. CASE CanBeQueued(pq, p) /\ pq' = Enqueue(pq, m)
      BY <1>0, <2>1, <3>1, EnqueueStep
    <3>2. CASE CanBeQueued(pq, p) /\ pq' = EnqueueFails(pq, m)
      BY <1>0, <2>1, <3>2, MakeRoomStep DEF EnqueueFails
    <3>3. CASE pq' = pq
      BY <1>0, <3>3
    <3> QED BY <1>1, <3>1, <3>2, <3>3 DEF EnqueueDispatcherPrioQueue
  <2>6. FifoOrder' /\ IdsHandedOut'
    <3>1. /\ pq.msgs \in Seq(Message) /\ taken \in Nat /\ taken <= sent
          /\ Ascending(pq.msgs, taken, sent)
      BY DEF IInv, FifoOrder, IdsHandedOut, TypeOK, QueueOf, Ascending
    <3> HIDE DEF m
    <3>2. \A x \in Message : x.id \in Nat
      BY MessageFields
    <3>3. Ascending(pq'.msgs, taken, sent + 1)
      BY <2>1, <2>2, <2>5, <3>1, <3>2, OrderKept
    <3> QED BY <2>2, <3>1, <3>3 DEF FifoOrder, IdsHandedOut, Ascending
  <2> QED
    BY <2>2, <2>4, <2>5, <2>6
    DEF IInv, TypeOK, CountersAddUp, Bounded, QueueInv
<1>2. CASE DequeueDispatcherPrioQueue
  <2>1. /\ QueueInv(pq', Message) /\ pq'.msgs = Tail(pq.msgs) /\ pq.msgs # <<>>
        /\ sent' = sent /\ taken' = Head(pq.msgs).id
    BY <1>0, <1>2, MessageFields, DequeueStep DEF DequeueDispatcherPrioQueue, IsEmpty
  <2>2. outcome' = Outcome("dequeued", Head(pq.msgs).prio, <<>>)
    BY <1>2 DEF DequeueDispatcherPrioQueue
  <2>3. pq.msgs \in Seq(Message) /\ sent \in Nat
    BY DEF IInv, TypeOK, QueueOf
  <2>4. Head(pq.msgs) = pq.msgs[1] /\ pq.msgs[1] \in Message /\ Len(pq.msgs) >= 1
    BY <2>1, <2>3, TailFacts
  <2>5. outcome' \in OutcomeType /\ taken' \in Nat
    BY <2>1, <2>2, <2>3, <2>4 DEF IInv, IdsHandedOut, Outcome, OutcomeType, Message
  <2>6. FifoOrder' /\ IdsHandedOut'
    <3>1. taken \in Nat /\ Ascending(pq.msgs, taken, sent)
      BY DEF IInv, FifoOrder, IdsHandedOut, TypeOK, Ascending
    <3>2. \A x \in Message : x.id \in Nat
      BY MessageFields
    <3>3. taken' <= sent' /\ Ascending(pq'.msgs, taken', sent')
      BY <2>1, <2>3, <3>1, <3>2, OrderTaken
    <3> QED BY <3>3 DEF FifoOrder, IdsHandedOut, Ascending
  <2> QED
    BY <2>1, <2>5, <2>6 DEF IInv, TypeOK, CountersAddUp, Bounded, QueueInv
<1>3. CASE UNCHANGED vars
  BY <1>3 DEF IInv, TypeOK, CountersAddUp, Bounded, FifoOrder, IdsHandedOut, vars
<1> QED BY <1>1, <1>2, <1>3 DEF Next

\* For every limit, width and number of messages the invariant holds.
THEOREM Invariance == Spec => []IInv
BY InitIInv, NextIInv, PTL DEF Spec

\* _getNumOfMsgInDispatcherPrioQueue always returns the length of the queue,
\* however many evictions have decremented the wrong counter.
THEOREM CountersAddUpAlways == Spec => []CountersAddUp
<1>1. IInv => CountersAddUp
  BY DEF IInv
<1> QED BY <1>1, Invariance, PTL

\* The queue never exceeds idpq_u32MaxNumMsg.
THEOREM BoundedAlways == Spec => []Bounded
<1>1. IInv => Bounded
  BY DEF IInv
<1> QED BY <1>1, Invariance, PTL

\* Messages are dequeued in the order in which they were enqueued.
THEOREM FifoOrderAlways == Spec => []FifoOrder
<1>1. IInv => FifoOrder
  BY DEF IInv
<1> QED BY <1>1, Invariance, PTL

\* enqueueDispatcherPrioQueue drops or refuses a message only when the queue
\* holds idpq_u32MaxNumMsg messages.
THEOREM DropOnlyWhenFullAlways == Spec => DropOnlyWhenFull
<1>1. IInv /\ [Next]_vars =>
        [ outcome'.dropped # <<>> \/ outcome'.call = "full"
            => Len(pq.msgs) = MaxNumMsg ]_vars
  <2> SUFFICES ASSUME IInv, Next,
                      outcome'.dropped # <<>> \/ outcome'.call = "full"
               PROVE  Len(pq.msgs) = MaxNumMsg
    OBVIOUS
  <2>1. QueueInv(pq, Message)
    BY DEF IInv, TypeOK, CountersAddUp, Bounded, QueueInv
  <2>2. ASSUME NEW p \in Prios, EnqueueDispatcherPrioQueue(p)
        PROVE  Full(pq)
    BY <2>2 DEF EnqueueDispatcherPrioQueue, Outcome, Evicted, CanBeQueued
  <2>3. ASSUME DequeueDispatcherPrioQueue
        PROVE  FALSE
    BY <2>3 DEF DequeueDispatcherPrioQueue, Outcome
  <2>4. \E p \in Prios : EnqueueDispatcherPrioQueue(p)
    BY <2>3 DEF Next
  <2> QED BY <2>1, <2>2, <2>4, MakeRoomStep
<1> QED BY <1>1, Invariance, PTL DEF Spec, DropOnlyWhenFull
-----------------------------------------------------------------------------
(* The reference number of a message. *)

\* The dispatcher thread is about to queue the message for disp.s.
Visiting == disp.at \in {"incStore", "send", "undoStore"}

\* Who holds what: a subscriber still to be visited does not hold the message,
\* and the client chain thread releases the message of a pool that sends it.
Places ==
    /\ RefTypeOK
    /\ \A s \in todo : held[s] = "none"
    /\ disp.at \in {"decStore", "decCheck", "other"} => todo = {}
    /\ Visiting => held[disp.s] = "none" /\ disp.s \notin todo
    /\ CliInside => held[cli.s] = "pending"

\* What a thread loaded is still the number, which counts the references.
Counted ==
    ~raced =>
        /\ ~(DispInside /\ CliInside)
        /\ disp.at \in {"incStore", "undoStore", "decStore"} => disp.tmp = nRef
        /\ cli.at = "decStore" => cli.tmp = nRef
        /\ nRef = Holders
        /\ freed = If(Holders = 0 /\ ~DispInside /\ ~CliInside)

RefsInv == Places /\ Counted

\* The number of clients that hold the message is a natural number, and not 0
\* if one of them does.
LEMMA HoldingFinite ==
    /\ IsFiniteSet(HoldingClients)
    /\ Cardinality(HoldingClients) \in Nat
    /\ \A s \in HoldingClients : Cardinality(HoldingClients) > 0
  <1>1. HoldingClients \subseteq Service
    BY DEF HoldingClients
  <1>2. IsFiniteSet(HoldingClients)
    BY <1>1, ServiceAssumption, FS_Subset
  <1>3. Cardinality(HoldingClients) \in Nat
    BY <1>2, FS_CardinalityType
  <1>4. ASSUME NEW s \in HoldingClients PROVE Cardinality(HoldingClients) > 0
    BY <1>2, <1>3, FS_EmptySet
  <1> QED
    BY <1>2, <1>3, <1>4

\* A client that joins, or leaves, the holders counts one.
LEMMA HoldingStep ==
    ASSUME NEW s
    PROVE  /\ HoldingClients' = HoldingClients \cup {s} /\ s \notin HoldingClients
              => Cardinality(HoldingClients') = Cardinality(HoldingClients) + 1
           /\ HoldingClients' = HoldingClients \ {s} /\ s \in HoldingClients
              => Cardinality(HoldingClients') = Cardinality(HoldingClients) - 1
  <1> DEFINE H == HoldingClients
  <1>1. IsFiniteSet(H)
    BY HoldingFinite
  <1>2. s \notin H => Cardinality(H \cup {s}) = Cardinality(H) + 1
    BY <1>1, FS_AddElement
  <1>3. s \in H => Cardinality(H \ {s}) = Cardinality(H) - 1
    BY <1>1, FS_RemoveElement
  <1> QED
    BY <1>2, <1>3

\* A new message has one reference, that of the daemon's queue.
LEMMA InitRefs == RefInit => RefsInv
  <1> SUFFICES ASSUME RefInit PROVE RefsInv
    OBVIOUS
  <1>1. RefTypeOK
    <2> PICK s \in Service : /\ disp = [at |-> "idle", s |-> s, tmp |-> 0]
                             /\ cli = [at |-> "idle", s |-> s, tmp |-> 0]
      BY DEF RefInit
    <2>1. held \in [Service -> {"none", "queued", "pending"}] /\ todo \subseteq Service
      BY DEF RefInit
    <2>2. nRef \in Int /\ freed \in Nat
      BY DEF RefInit
    <2>3. raced \in BOOLEAN
      BY Zenon DEF RefInit
    <2> QED
      BY <2>1, <2>2, <2>3 DEF RefTypeOK
  <1>2. Places
    BY <1>1 DEF RefInit, Places, Visiting, CliInside
  <1>3. HoldingClients = {}
    BY DEF RefInit, HoldingClients
  <1>4. Holders = 1
    BY <1>3, FS_EmptySet DEF Holders, DispHolds, If, RefInit
  <1>5. Counted
    BY <1>4 DEF RefInit, Counted, If, DispInside, CliInside
  <1> QED
    BY <1>2, <1>5 DEF RefsInv

\* Every step keeps who holds what.
LEMMA NextPlaces == Places /\ [RefNext]_refVars => Places'
  <1> SUFFICES ASSUME Places, [RefNext]_refVars PROVE Places'
    OBVIOUS
  <1> USE DEF Places, RefTypeOK, Visiting, CliInside
  <1>1. CASE DispTake
    BY <1>1 DEF DispTake
  <1>2. ASSUME NEW s \in Service, IncLoad(s) PROVE Places'
    BY <1>2 DEF IncLoad, DispAccess
  <1>3. CASE IncStore
    BY <1>3 DEF IncStore, DispAccess
  <1>4. CASE Send
    BY <1>4 DEF Send
  <1>5. CASE Refuse
    BY <1>5 DEF Refuse, DispAccess
  <1>6. CASE UndoStore
    BY <1>6 DEF UndoStore, DispAccess
  <1>7. CASE DecLoad
    BY <1>7 DEF DecLoad, DispAccess
  <1>8. ASSUME NEW s \in Service, EvictLoad(s) PROVE Places'
    BY <1>8 DEF EvictLoad, DispAccess
  <1>9. CASE DecStore
    BY <1>9 DEF DecStore, DispAccess
  <1>10. CASE DecCheck
    BY <1>10 DEF DecCheck, DispAccess, CheckRef
  <1>11. ASSUME NEW s \in Service, CliDequeue(s) PROVE Places'
    BY <1>11 DEF CliDequeue
  <1>12. ASSUME NEW s \in Service, CliSent(s) PROVE Places'
    BY <1>12 DEF CliSent, CliAccess
  <1>13. CASE CliDecStore
    BY <1>13 DEF CliDecStore, CliAccess
  <1>14. CASE CliDecCheck
    BY <1>14 DEF CliDecCheck, CliAccess, CheckRef
  <1>15. CASE UNCHANGED refVars
    BY <1>15 DEF refVars
  <1> QED
    BY <1>1, <1>2, <1>3, <1>4, <1>5, <1>6, <1>7, <1>8, <1>9, <1>10, <1>11, <1>12, <1>13,
       <1>14, <1>15 DEF RefNext

\* Every step keeps the count.  The set of holding clients changes in four of
\* them: the message is queued, evicted, or released by the client chain.
LEMMA NextCounted == RefsInv /\ Places' /\ [RefNext]_refVars => Counted'
  <1> SUFFICES ASSUME RefsInv, Places', [RefNext]_refVars, ~raced' PROVE Counted'
    BY DEF Counted
  <1> DEFINE c == Cardinality(HoldingClients)
  <1> USE DEF Counted, Holders, DispHolds, If, DispInside, CliInside, RefTypeOK
  <1>a. Places /\ Counted
    BY DEF RefsInv
  <1>b. c \in Nat
    BY HoldingFinite
  <1>1. CASE DispTake
    <2>1. HoldingClients' = HoldingClients
      BY <1>1 DEF DispTake, HoldingClients
    <2> QED
      BY <1>1, <1>a, <1>b, <2>1 DEF DispTake, Places
  <1>2. ASSUME NEW s \in Service, IncLoad(s) PROVE Counted'
    <2>1. HoldingClients' = HoldingClients
      BY <1>2 DEF IncLoad, HoldingClients
    <2>2. ~raced /\ ~CliInside
      BY <1>2 DEF IncLoad, DispAccess
    <2>3. nRef = c + 1 /\ freed = 0
      BY <1>2, <1>a, <1>b, <2>2 DEF IncLoad
    <2>4. disp'.at = "incStore" /\ disp'.tmp = nRef /\ UNCHANGED <<nRef, cli, freed>>
      BY <1>2, <1>a DEF IncLoad, Places
    <2> QED
      BY <1>b, <2>1, <2>2, <2>3, <2>4
  <1>3. CASE IncStore
    <2>1. HoldingClients' = HoldingClients
      BY <1>3 DEF IncStore, HoldingClients
    <2>2. ~raced /\ ~CliInside
      BY <1>3 DEF IncStore, DispAccess
    <2>3. nRef = c + 1 /\ disp.tmp = nRef /\ freed = 0
      BY <1>3, <1>a, <1>b, <2>2 DEF IncStore
    <2>4. nRef' = c + 2 /\ disp'.at = "send" /\ UNCHANGED <<cli, freed>>
      BY <1>3, <1>a, <1>b, <2>3 DEF IncStore, Places
    <2> QED
      BY <1>b, <2>1, <2>2, <2>3, <2>4
  <1>4. CASE Send
    <2>1. HoldingClients' = HoldingClients \cup {disp.s} /\ disp.s \notin HoldingClients
      BY <1>4, <1>a DEF Send, HoldingClients, Places, Visiting
    <2>2. Cardinality(HoldingClients') = c + 1
      BY <2>1, HoldingStep
    <2> QED
      BY <1>4, <1>a, <1>b, <2>2 DEF Send, Places
  <1>5. CASE Refuse
    <2>1. HoldingClients' = HoldingClients
      BY <1>5 DEF Refuse, HoldingClients
    <2>2. ~raced /\ ~CliInside
      BY <1>5 DEF Refuse, DispAccess
    <2>3. nRef = c + 2 /\ freed = 0
      BY <1>5, <1>a, <1>b, <2>2 DEF Refuse
    <2>4. disp'.at = "undoStore" /\ disp'.tmp = nRef /\ UNCHANGED <<nRef, cli, freed>>
      BY <1>5, <1>a DEF Refuse, Places
    <2> QED
      BY <1>b, <2>1, <2>2, <2>3, <2>4
  <1>6. CASE UndoStore
    <2>1. HoldingClients' = HoldingClients
      BY <1>6 DEF UndoStore, HoldingClients
    <2>2. ~raced /\ ~CliInside
      BY <1>6 DEF UndoStore, DispAccess
    <2>3. nRef = c + 2 /\ disp.tmp = nRef /\ freed = 0
      BY <1>6, <1>a, <1>b, <2>2 DEF UndoStore
    <2>4. nRef' = c + 1 /\ disp'.at = "next" /\ UNCHANGED <<cli, freed>>
      BY <1>6, <1>a, <1>b, <2>3 DEF UndoStore, Places
    <2> QED
      BY <1>b, <2>1, <2>2, <2>3, <2>4
  <1>7. CASE DecLoad
    <2>1. HoldingClients' = HoldingClients
      BY <1>7 DEF DecLoad, HoldingClients
    <2>2. ~raced /\ ~CliInside
      BY <1>7 DEF DecLoad, DispAccess
    <2>3. nRef = c + 1 /\ freed = 0
      BY <1>7, <1>a, <1>b, <2>2 DEF DecLoad
    <2>4. disp'.at = "decStore" /\ disp'.tmp = nRef /\ UNCHANGED <<nRef, cli, freed>>
      BY <1>7, <1>a DEF DecLoad, Places
    <2> QED
      BY <1>b, <2>1, <2>2, <2>3, <2>4
  <1>8. ASSUME NEW s \in Service, EvictLoad(s) PROVE Counted'
    <2>1. HoldingClients' = HoldingClients \ {s} /\ s \in HoldingClients
      BY <1>8, <1>a DEF EvictLoad, HoldingClients, Places
    <2>2. Cardinality(HoldingClients') = c - 1 /\ c > 0
      BY <2>1, HoldingStep, HoldingFinite
    <2>3. ~raced /\ ~CliInside
      BY <1>8 DEF EvictLoad, DispAccess
    <2>4. nRef = c /\ freed = 0
      BY <1>8, <1>a, <1>b, <2>2, <2>3 DEF EvictLoad
    <2>5. disp'.at = "decStore" /\ disp'.tmp = nRef /\ UNCHANGED <<nRef, cli, freed>>
      BY <1>8 DEF EvictLoad
    <2> QED
      BY <1>b, <2>2, <2>3, <2>4, <2>5
  <1>9. CASE DecStore
    <2>1. HoldingClients' = HoldingClients
      BY <1>9 DEF DecStore, HoldingClients
    <2>2. ~raced /\ ~CliInside
      BY <1>9 DEF DecStore, DispAccess
    <2>3. nRef = c + 1 /\ disp.tmp = nRef /\ freed = 0
      BY <1>9, <1>a, <1>b, <2>2 DEF DecStore
    <2>4. nRef' = c /\ disp'.at = "decCheck" /\ UNCHANGED <<cli, freed>>
      BY <1>9, <1>a, <1>b, <2>3 DEF DecStore, Places
    <2> QED
      BY <1>b, <2>1, <2>2, <2>3, <2>4
  <1>10. CASE DecCheck
    <2>1. HoldingClients' = HoldingClients
      BY <1>10 DEF DecCheck, HoldingClients
    <2> QED
      BY <1>10, <1>a, <1>b, <2>1 DEF DecCheck, Places, DispAccess, CheckRef
  <1>11. ASSUME NEW s \in Service, CliDequeue(s) PROVE Counted'
    <2>1. HoldingClients' = HoldingClients
      BY <1>11, <1>a DEF CliDequeue, HoldingClients, Places
    <2> QED
      BY <1>11, <1>a, <1>b, <2>1 DEF CliDequeue, Places
  <1>12. ASSUME NEW s \in Service, CliSent(s) PROVE Counted'
    <2>1. HoldingClients' = HoldingClients /\ s \in HoldingClients
      BY <1>12, <1>a DEF CliSent, HoldingClients, Places
    <2>2. c > 0
      BY <2>1, HoldingFinite
    <2>3. ~raced /\ ~DispInside
      BY <1>12 DEF CliSent, CliAccess
    <2>4. nRef = Holders /\ freed = 0
      BY <1>12, <1>a, <1>b, <2>2, <2>3 DEF CliSent
    <2>5. cli'.at = "decStore" /\ cli'.tmp = nRef /\ UNCHANGED <<nRef, disp, freed>>
      BY <1>12 DEF CliSent
    <2> QED
      BY <1>b, <2>1, <2>2, <2>3, <2>4, <2>5
  <1>13. CASE CliDecStore
    <2>1. HoldingClients' = HoldingClients \ {cli.s} /\ cli.s \in HoldingClients
      BY <1>13, <1>a DEF CliDecStore, HoldingClients, Places
    <2>2. Cardinality(HoldingClients') = c - 1 /\ c > 0
      BY <2>1, HoldingStep, HoldingFinite
    <2>3. ~raced /\ ~DispInside
      BY <1>13 DEF CliDecStore, CliAccess
    <2>4. nRef = Holders /\ cli.tmp = nRef /\ freed = 0
      BY <1>13, <1>a, <1>b, <2>2, <2>3 DEF CliDecStore
    <2>5. nRef' = nRef - 1 /\ cli'.at = "decCheck" /\ UNCHANGED <<disp, freed>>
      BY <1>13, <1>a, <2>4 DEF CliDecStore, Places
    <2> QED
      BY <1>b, <2>2, <2>3, <2>4, <2>5
  <1>14. CASE CliDecCheck
    <2>1. HoldingClients' = HoldingClients
      BY <1>14, <1>a DEF CliDecCheck, HoldingClients, Places
    <2> QED
      BY <1>14, <1>a, <1>b, <2>1 DEF CliDecCheck, Places, CliAccess, CheckRef
  <1>15. CASE UNCHANGED refVars
    <2>1. HoldingClients' = HoldingClients
      BY <1>15 DEF refVars, HoldingClients
    <2> QED
      BY <1>15, <1>a, <2>1 DEF refVars
  <1> QED
    BY <1>1, <1>2, <1>3, <1>4, <1>5, <1>6, <1>7, <1>8, <1>9, <1>10, <1>11, <1>12, <1>13,
       <1>14, <1>15 DEF RefNext

\* Until the two threads meet inside operations on dm_nRef, it is the number
\* of references, and the message is destroyed once, with the last of them.
THEOREM RefsExactAlways == RefSpec => []RefsExact
  <1>1. RefInit => RefsInv
    BY InitRefs
  <1>2. RefsInv /\ [RefNext]_refVars => RefsInv'
    BY NextPlaces, NextCounted DEF RefsInv
  <1>3. RefsInv => RefsExact
    BY DEF RefsInv, Counted, RefsExact
  <1> QED
    BY <1>1, <1>2, <1>3, PTL DEF RefSpec

\* The state of the message and of the two threads keeps its types.
THEOREM MsgRefTypes == RefSpec => []RefTypeOK
  <1>1. RefInit => Places
    BY InitRefs DEF RefsInv
  <1>2. Places /\ [RefNext]_refVars => Places'
    BY NextPlaces
  <1>3. Places => RefTypeOK
    BY DEF Places
  <1> QED
    BY <1>1, <1>2, <1>3, PTL DEF RefSpec
=============================================================================
