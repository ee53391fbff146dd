------------------------------- MODULE Utimer -------------------------------
(***************************************************************************)
(* The network chain (network/chain.c) and a utimer on it                  *)
(* (network/utimer.c): a list of items sorted by expiry, filled and        *)
(* emptied by any thread under the utimer's lock; the chain thread, in     *)
(* every iteration of its loop, moves the expired items to a list of its   *)
(* own, fires them without the lock, and sleeps in select until the next   *)
(* expiry it saw or until a byte arrives in the wakeup socket.             *)
(***************************************************************************)
EXTENDS Integers, Sequences, FiniteSets

CONSTANTS
    Threads,        \* threads that add and remove items
    Data,           \* values of ui_pData
    Delays,         \* u32Seconds of the calls
    MaxWait,        \* BASIC_CHAIN_MAX_WAIT
    ReadMax,        \* bytes read from the wakeup socket at once, 100 in the code
    MaxTime,        \* bound on the clock: all timeouts have elapsed by then
    MaxItems,       \* bound on the items ever added
    MaxFaults       \* bound on the calls of select that fail

ASSUME UtimerAssumption ==
    /\ {MaxWait, MaxTime, MaxItems, MaxFaults} \subseteq Nat
    /\ ReadMax \in Nat \ {0}
    /\ Delays \subseteq Nat
    /\ IsFiniteSet(Threads)

VARIABLES
    now,        \* JF_TIME_CLOCK_MONOTONIC_RAW
    items,      \* iu_jlItem
    trigger,    \* jlTriggerItem of _checkUtimer: collected, not yet fired
    wakeup,     \* the bytes in the wakeup socket pair
    chain,      \* the chain thread: [at, current, block, deadline, lag]
    bToTerminate, \* ibc_bToTerminate
    thr,        \* the other threads: [at, item]
    added,      \* number of items inserted so far
    fired,      \* the items fired, in order
    removed,    \* ids of the items _removeUtimerItem has destroyed
    revoked,    \* ids of items it was asked to remove and did not find
    faults      \* failed calls of select so far

vars == <<now, items, trigger, wakeup, chain, bToTerminate, thr, added, fired,
          removed, revoked, faults>>

Item(id, d, e) == [id |-> id, data |-> d, expire |-> e]
NoItem == Item(0, 0, 0)
Ids(s) == {s[i].id : i \in DOMAIN s}
Inserting == {t \in Threads : thr[t].at = "insert"}

Init ==
    /\ now = 0
    /\ items = <<>>
    /\ trigger = <<>>
    /\ wakeup = <<>>
    /\ chain = [at |-> "top", current |-> 0, block |-> MaxWait, deadline |-> 0,
                lag |-> 0]
    /\ bToTerminate = FALSE
    /\ thr = [t \in Threads |-> [at |-> "idle", item |-> NoItem]]
    /\ added = 0
    /\ fired = <<>>
    /\ removed = {}
    /\ revoked = {}
    /\ faults = 0

Tick ==
    /\ now < MaxTime
    /\ now' = now + 1
    /\ UNCHANGED <<items, trigger, wakeup, chain, bToTerminate, thr, added, fired,
                   removed, revoked, faults>>
-----------------------------------------------------------------------------
(* The threads. *)

\* The number of items at the head of the list that expire by a time.
Expired(s, time) ==
    Cardinality({i \in DOMAIN s : \A j \in 1 .. i : s[j].expire <= time})

\* _insertUtimerItem: before the first item that expires later.
Insert(s, it) ==
    LET n == Expired(s, it.expire)
    IN  SubSeq(s, 1, n) \o <<it>> \o SubSeq(s, n + 1, Len(s))

\* jf_network_addUtimerItem reads the clock, ...
AddReadClock(t, d, delay) ==
    /\ thr[t].at = "idle"
    /\ added + Cardinality(Inserting) < MaxItems
    /\ now + delay <= MaxTime
    /\ thr' = [thr EXCEPT ![t] = [at |-> "insert", item |-> Item(0, d, now + delay)]]
    /\ UNCHANGED <<now, items, trigger, wakeup, chain, bToTerminate, added, fired,
                   removed, revoked, faults>>

\* ... inserts the item under the lock, ...
AddInsert(t) ==
    /\ thr[t].at = "insert"
    /\ items' = Insert(items, [thr[t].item EXCEPT !.id = added + 1])
    /\ added' = added + 1
    /\ thr' = [thr EXCEPT ![t] = [at |-> "wakeup", item |-> NoItem]]
    /\ UNCHANGED <<now, trigger, wakeup, chain, bToTerminate, fired, removed,
                   revoked, faults>>

\* Mutant: the chain is not woken up.
AddWakeupSilent(t) ==
    /\ thr[t].at = "wakeup"
    /\ thr' = [thr EXCEPT ![t].at = "idle"]
    /\ UNCHANGED <<now, items, trigger, wakeup, chain, bToTerminate, added, fired,
                   removed, revoked, faults>>

\* ... and wakes the chain up.
AddWakeup(t) ==
    /\ thr[t].at = "wakeup"
    /\ wakeup' = Append(wakeup, "W")
    /\ thr' = [thr EXCEPT ![t].at = "idle"]
    /\ UNCHANGED <<now, items, trigger, chain, bToTerminate, added, fired,
                   removed, revoked, faults>>

\* The walk of _removeUtimerItem along the list: what is kept of its first n
\* items.
Kept(s, d) ==
    LET kept[n \in 0 .. Len(s)] ==
          IF n = 0 THEN <<>>
          ELSE IF s[n].data = d THEN kept[n - 1] ELSE Append(kept[n - 1], s[n])
    IN  kept

IdsWith(s, d) == {s[i].id : i \in {j \in DOMAIN s : s[j].data = d}}

\* jf_network_removeUtimerItem: every item of the list with this data.
RemoveUtimerItem(t, d) ==
    /\ thr[t].at = "idle"
    /\ \E i \in DOMAIN items \cup DOMAIN trigger :
         \/ i \in DOMAIN items /\ items[i].data = d
         \/ i \in DOMAIN trigger /\ trigger[i].data = d
    /\ items' = Kept(items, d)[Len(items)]
    /\ removed' = removed \cup IdsWith(items, d)
    /\ revoked' = revoked \cup IdsWith(trigger, d)
    /\ UNCHANGED <<now, trigger, wakeup, chain, bToTerminate, thr, added, fired,
                   faults>>

\* jf_network_stopChain, called once.
StopChain ==
    /\ ~bToTerminate
    /\ \A i \in DOMAIN wakeup : wakeup[i] # "S"
    /\ wakeup' = Append(wakeup, "S")
    /\ UNCHANGED <<now, items, trigger, chain, bToTerminate, thr, added, fired,
                   removed, revoked, faults>>
-----------------------------------------------------------------------------
(* The chain thread. *)

\* The loop of jf_network_startChain, and the clock read by _checkUtimer.
LoopTop ==
    /\ chain.at = "top"
    /\ chain' = IF bToTerminate
                THEN [chain EXCEPT !.at = "done"]
                ELSE [chain EXCEPT !.at = "collect", !.current = now]
    /\ UNCHANGED <<now, items, trigger, wakeup, bToTerminate, thr, added, fired,
                   removed, revoked, faults>>

\* Mutant: collecting items cuts the rest of the list off.
CollectCuts ==
    LET n    == Expired(items, chain.current)
    IN  /\ chain.at = "collect"
        /\ trigger' = SubSeq(items, 1, n)
        /\ items' = IF n > 0 THEN <<>> ELSE items
        /\ chain' = [chain EXCEPT !.at = "fire"]
        /\ UNCHANGED <<now, wakeup, bToTerminate, thr, added, fired, removed,
                       revoked, faults>>

\* The critical section of _checkUtimer: the expired items are moved, and the
\* block time is the distance to the first one that is left.
Collect ==
    LET n    == Expired(items, chain.current)
        rest == SubSeq(items, n + 1, Len(items))
    IN  /\ chain.at = "collect"
        /\ trigger' = SubSeq(items, 1, n)
        /\ items' = rest
        /\ chain' = [chain EXCEPT !.at = "fire",
                       !.block = IF rest = <<>> \/ MaxWait < rest[1].expire - chain.current
                                 THEN MaxWait ELSE rest[1].expire - chain.current]
        /\ UNCHANGED <<now, wakeup, bToTerminate, thr, added, fired, removed,
                       revoked, faults>>

\* _destroyUtimerItems: the callback of the next collected item, which may
\* itself add an item.
Fire ==
    /\ chain.at = "fire"
    /\ trigger # <<>>
    /\ fired' = Append(fired, Head(trigger))
    /\ trigger' = Tail(trigger)
    /\ \/ UNCHANGED <<items, added, wakeup>>
       \/ /\ added + Cardinality(Inserting) < MaxItems
          /\ \E delay \in Delays :
               /\ now + delay <= MaxTime
               /\ items' = Insert(items, Item(added + 1, Head(trigger).data, now + delay))
          /\ added' = added + 1
          /\ wakeup' = Append(wakeup, "W")
    /\ UNCHANGED <<now, chain, bToTerminate, thr, removed, revoked, faults>>

EnterSelect ==
    /\ chain.at = "fire"
    /\ trigger = <<>>
    /\ chain' = [chain EXCEPT !.at = "select", !.deadline = now + chain.block,
                              !.lag = now - chain.current]
    /\ UNCHANGED <<now, items, trigger, wakeup, bToTerminate, thr, added, fired,
                   removed, revoked, faults>>

\* Mutant: the wakeup socket is emptied without a look at the bytes after the
\* first ones.
ReadWakeupSocketDrops ==
    LET n == IF Len(wakeup) < ReadMax THEN Len(wakeup) ELSE ReadMax
    IN  /\ bToTerminate' = (bToTerminate \/ \E i \in 1 .. n : wakeup[i] = "S")
        /\ wakeup' = <<>>

\* _readWakeupSocket.
ReadWakeupSocket ==
    LET n == IF Len(wakeup) < ReadMax THEN Len(wakeup) ELSE ReadMax
    IN  /\ bToTerminate' = (bToTerminate \/ \E i \in 1 .. n : wakeup[i] = "S")
        /\ wakeup' = SubSeq(wakeup, n + 1, Len(wakeup))

\* select returns: a byte has arrived, the time has elapsed, or it failed.
LeaveSelect ==
    /\ chain.at = "select"
    /\ \/ /\ wakeup # <<>>
          /\ ReadWakeupSocket
          /\ UNCHANGED faults
       \/ /\ wakeup = <<>>
          /\ now >= chain.deadline \/ now = MaxTime
          /\ UNCHANGED <<wakeup, bToTerminate, faults>>
       \/ /\ faults < MaxFaults
          /\ faults' = faults + 1
          /\ UNCHANGED <<wakeup, bToTerminate>>
    /\ chain' = [chain EXCEPT !.at = "top", !.block = MaxWait]
    /\ UNCHANGED <<now, items, trigger, thr, added, fired, removed, revoked>>

Chain == LoopTop \/ Collect \/ Fire \/ EnterSelect \/ LeaveSelect

Thread(t) ==
    \/ \E d \in Data, delay \in Delays : AddReadClock(t, d, delay)
    \/ AddInsert(t)
    \/ AddWakeup(t)
    \/ \E d \in Data : RemoveUtimerItem(t, d)

Next == Tick \/ Chain \/ (\E t \in Threads : Thread(t)) \/ StopChain

Spec == Init /\ [][Next]_vars

\* The chain thread runs, a call that has begun goes on, and time passes.
FairSpec ==
    /\ Spec
    /\ WF_vars(Chain)
    /\ WF_vars(Tick)
    /\ \A t \in Threads : WF_vars(AddInsert(t)) /\ WF_vars(AddWakeup(t))
-----------------------------------------------------------------------------
ItemType == [id : 0 .. MaxItems, data : Data \cup {0}, expire : 0 .. MaxTime]
ChainType == [at : {"top", "collect", "fire", "select", "done"}, current : 0 .. MaxTime,
              block : 0 .. MaxWait, deadline : 0 .. MaxTime + MaxWait, lag : 0 .. MaxTime]
ThreadType == [at : {"idle", "insert", "wakeup"}, item : ItemType]

\* The lists hold items; the chain thread and the others are at a point of
\* their code.
TypeOK ==
    /\ now \in 0 .. MaxTime
    /\ items \in Seq(ItemType)
    /\ trigger \in Seq(ItemType)
    /\ wakeup \in Seq({"W", "S"})
    /\ chain \in ChainType
    /\ bToTerminate \in BOOLEAN
    /\ thr \in [Threads -> ThreadType]
    /\ added \in 0 .. MaxItems
    /\ fired \in Seq(ItemType)
    /\ removed \subseteq 1 .. MaxItems
    /\ revoked \subseteq 1 .. MaxItems
    /\ faults \in 0 .. MaxFaults

\* Items fire in time and in order.  No item fires before its time, although
\* its expiry, the clock of the check and the lock are read at different
\* moments.  An item fires before the items inserted after it that do not
\* expire earlier: the pause and resume requests the dispatcher queues with no
\* delay take effect in the order of the calls.
FiresInOrder ==
    LET s == fired \o trigger \o items
    IN  /\ \A i \in DOMAIN trigger : trigger[i].expire <= now
        /\ \A i, j \in DOMAIN s :
              i < j /\ s[i].expire >= s[j].expire => s[i].id < s[j].id

\* Every item inserted is in one place and in one only: in the list, collected,
\* fired once, or removed.  No callback is lost or runs twice.
Once ==
    /\ Cardinality(Ids(items)) + Cardinality(Ids(trigger))
         + Cardinality(Ids(fired)) + Cardinality(removed) = added
    /\ Cardinality(Ids(fired)) = Len(fired)
    /\ Ids(items) \cup Ids(trigger) \cup Ids(fired) \cup removed = 1 .. added

\* The chain thread in select knows of the next expiry, late by no more than
\* the time its callbacks took, or a wakeup is on its way.
NoOversleep ==
    chain.at = "select" /\ items # <<>> =>
        \/ wakeup # <<>>
        \/ \E t \in Threads : thr[t].at = "wakeup"
        \/ chain.deadline <= items[1].expire + chain.lag

\* The utimer under several threads: its items fire in time, in order and once
\* each, and the chain thread (_checkUtimer, jf_network_startChain) never
\* sleeps past one.
TimersSound == TypeOK /\ Once /\ FiresInOrder /\ NoOversleep

\* "If there are multiple item pertaining to pData, all of them are removed"
\* (jf_network_removeUtimerItem): no item is fired after its removal.
RemovedForGood == Ids(fired) \cap revoked = {}

\* Every item fires or is removed, unless the chain is stopped.
EventuallyFires ==
    \A id \in 1 .. MaxItems :
        (id \in Ids(items)) ~> (id \in Ids(fired) \cup removed \/ bToTerminate)

\* jf_network_stopChain ends the loop, however many wakeups are ahead of its
\* byte in the socket.
StopEnds == (\E i \in DOMAIN wakeup : wakeup[i] = "S") ~> (chain.at = "done")
=============================================================================
