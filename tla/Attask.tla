------------------------------ MODULE Attask ------------------------------
(***************************************************************************)
(* jf_attask.c: timed tasks in a doubly linked list sorted by expiry, for  *)
(* one thread that calls jf_attask_check and then sleeps for the block     *)
(* time it returns. Items are nodes of a small heap; 0 is NULL. Callbacks  *)
(* run while the list is in use and may add a task themselves.             *)
(***************************************************************************)
EXTENDS Integers, Sequences, FiniteSets, SequencesExt

CONSTANTS
    Items,          \* nodes jf_jiukun_allocMemory can give: 1..n
    Tasks,          \* pData values
    Delays,         \* u32Milliseconds values
    AddsAgain,      \* tasks whose callback adds the task again, with delay 1
    DefBlockTime,   \* JF_ATTASK_DEF_BLOCK_TIME
    MaxTime         \* bound on the clock

VARIABLES
    item,           \* attask_item_t: [expire, data, prev, next], or Unused
    head,           \* ia_paiItems
    clock,
    block,          \* what is left of the block time the thread sleeps for, or Awake
    pending         \* tasks added and neither fired nor removed, as a set of items

attaskVars == <<item, head, clock, block, pending>>

Unused == [expire |-> 0, data |-> 0, prev |-> 0, next |-> 0]
Awake == -1

-----------------------------------------------------------------------------
(* Lists are values [item, head], so that callbacks can change them.       *)

\* The insertion after the loop of jf_attask_addItem reached node temp.
RECURSIVE InsertBefore(_, _, _)
InsertBefore(s, n, temp) ==
    LET it == s.item IN
    IF it[n].expire <= it[temp].expire
    THEN IF it[temp].prev = 0
         THEN [head |-> n, item |-> [it EXCEPT ![n].next = temp, ![temp].prev = n]]
         ELSE [s EXCEPT !.item = [it EXCEPT ![n].next = temp, ![n].prev = it[temp].prev,
                                            ![it[temp].prev].next = n, ![temp].prev = n]]
    ELSE IF it[temp].next = 0
    THEN [s EXCEPT !.item = [it EXCEPT ![n].prev = temp, ![temp].next = n]]
    ELSE InsertBefore(s, n, it[temp].next)

FreeItems(s) == {n \in Items : s.item[n] = Unused}

\* jf_attask_addItem; nothing happens when no memory is left.
AddItem(s, data, delay) ==
    IF FreeItems(s) = {} THEN s
    ELSE LET n == CHOOSE i \in FreeItems(s) : \A j \in FreeItems(s) : i <= j
             t == [s EXCEPT !.item[n] = [expire |-> clock + delay, data |-> data,
                                         prev |-> 0, next |-> 0]]
         IN  IF s.head = 0 THEN [t EXCEPT !.head = n] ELSE InsertBefore(t, n, s.head)

\* _freeAttaskItemList: the callbacks of a detached list, each item freed after
\* its own.
RECURSIVE FreeItemList(_, _, _)
FreeItemList(s, pai, bCallback) ==
    IF pai = 0 THEN s
    ELSE LET data == s.item[pai].data
             called == IF bCallback /\ data \in AddsAgain THEN AddItem(s, data, 1) ELSE s
         IN  FreeItemList([called EXCEPT !.item[pai] = Unused], s.item[pai].next, bCallback)

\* Nodes from n on.
RECURSIVE From(_, _)
From(it, n) == IF n = 0 THEN <<>> ELSE <<n>> \o From(it, it[n].next)

\* The loop of jf_attask_check that finds the expired nodes.
Due(s) == SelectSeq(From(s.item, s.head), LAMBDA n : s.item[n].expire <= clock)

\* Mutant: the previous pointer of the new first item is left alone.
DetachDueKeepsPrev(s) ==
    IF Due(s) = <<>> THEN s
    ELSE LET last == Due(s)[Len(Due(s))]
             temp == s.item[last].next
         IN  [item |-> [s.item EXCEPT ![last].next = 0], head |-> temp]

\* The expired nodes become a list of their own.
DetachDue(s) ==
    IF Due(s) = <<>> THEN s
    ELSE LET last == Due(s)[Len(Due(s))]
             temp == s.item[last].next
         IN  IF temp = 0 THEN [s EXCEPT !.head = 0]
             ELSE [head |-> temp, item |-> [s.item EXCEPT ![temp].prev = 0, ![last].next = 0]]

\* jf_attask_removeItem takes a matching node out. It then clears the node's
\* next pointer, by which its own loop goes on.
Unlinked(s, n) ==
    LET p == s.item[n].prev
        q == s.item[n].next
        it == [s.item EXCEPT ![n].prev = 0, ![n].next = 0]
    IN  IF p = 0
        THEN [head |-> q, item |-> IF q = 0 THEN it ELSE [it EXCEPT ![q].prev = 0]]
        ELSE [s EXCEPT !.item = IF q = 0 THEN [it EXCEPT ![p].next = 0]
                                ELSE [it EXCEPT ![p].next = q, ![q].prev = p]]

RECURSIVE RemoveFrom(_, _, _)
RemoveFrom(s, first, data) ==
    IF first = 0 THEN [s |-> s, removed |-> 0]
    ELSE IF s.item[first].data = data THEN [s |-> Unlinked(s, first), removed |-> first]
    ELSE RemoveFrom(s, s.item[first].next, data)

-----------------------------------------------------------------------------
List == [item |-> item, head |-> head]
Commit(s) == item' = s.item /\ head' = s.head
Reached(s) == ToSet(From(s.item, s.head))

Add(data, delay) ==
    LET s == AddItem(List, data, delay) IN
    /\ Commit(s)
    /\ pending' = pending \cup {n \in Items : item[n] = Unused /\ s.item[n] # Unused}
    /\ block' = Awake
    /\ UNCHANGED clock

Check ==
    LET due == Due(List)
        d == DetachDue(List)
        s == IF due = <<>> THEN d ELSE FreeItemList(d, due[1], TRUE)
    IN  /\ Commit(s)
        /\ block' = IF s.head = 0 THEN DefBlockTime ELSE s.item[s.head].expire - clock
        /\ pending' = (pending \ ToSet(due)) \cup
                      {n \in Items : s.item[n] # Unused /\ (n \in ToSet(due) \/ n \notin pending)}
        /\ UNCHANGED clock

RemoveItem(data) ==
    LET r == RemoveFrom(List, head, data) IN
    /\ r.removed # 0
    /\ Commit(FreeItemList(r.s, r.removed, FALSE))
    /\ pending' = pending \ {r.removed}
    /\ block' = Awake
    /\ UNCHANGED clock

\* _flushAttask, from jf_attask_destroy.
Flush ==
    /\ head # 0
    /\ Commit(FreeItemList([List EXCEPT !.head = 0], head, FALSE))
    /\ pending' = {} /\ block' = Awake
    /\ UNCHANGED clock

\* The thread sleeps no longer than the block time says.
Sleep ==
    /\ clock < MaxTime /\ block > 0
    /\ clock' = clock + 1 /\ block' = block - 1
    /\ UNCHANGED <<item, head, pending>>

AttaskInit ==
    /\ item = [n \in Items |-> Unused] /\ head = 0
    /\ clock = 1 /\ block = Awake /\ pending = {}

AttaskNext ==
    \/ \E d \in Tasks, t \in Delays : Add(d, t)
    \/ Check
    \/ \E d \in Tasks : RemoveItem(d)
    \/ Flush
    \/ Sleep

-----------------------------------------------------------------------------
\* The list holds exactly the pending tasks, sorted by expiry and linked both
\* ways, so that a check runs everything that is due and nothing twice, and a
\* thread that sleeps for the block time just returned is never late.
TasksExact ==
    LET s == From(item, head) IN
    /\ ToSet(s) = pending /\ Len(s) = Cardinality(pending)
    /\ pending = {n \in Items : item[n] # Unused}
    /\ \A i \in 1..Len(s) : item[s[i]].prev = (IF i = 1 THEN 0 ELSE s[i - 1])
    /\ \A i \in 2..Len(s) : item[s[i - 1]].expire <= item[s[i]].expire
    /\ block # Awake => \A n \in pending : item[n].expire >= clock + block

\* jf_attask.h of jf_attask_removeItem: "If there are multiple items pertaining
\* to task, all of them are removed."
AllRemoved ==
    [][\A d \in Tasks : RemoveItem(d) => \A n \in pending' : item'[n].data # d]_attaskVars
=============================================================================
