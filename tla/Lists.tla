------------------------------- MODULE Lists -------------------------------
(***************************************************************************)
(* The linked containers of jiutai, pointer by pointer.                    *)
(*   jf_listhead.h   circular doubly linked lists threaded through entries *)
(*   jf_hlisthead.h  lists with a one pointer head and a pointer to the    *)
(*                   previous next field                                   *)
(*   jf_dlinklist.c, jf_linklist.c, jf_queue.c, jf_stack.c, jf_array.c     *)
(*                   lists of allocated nodes that carry a data pointer    *)
(* One instance exercises one kind of container; seqs is what the caller   *)
(* believes to be in it.  Nodes are numbers and 0 is NULL.  A node is      *)
(* allocated while it is in the domain of mem, so that a step through a    *)
(* freed node is an error of the model.  Operations that fail because no   *)
(* memory is left change nothing and are not written down.                 *)
(***************************************************************************)
EXTENDS Integers, Sequences, FiniteSets, SequencesExt

CONSTANTS
    Entries,    \* entries of intrusive lists and nodes of the others
    Heads,      \* list heads, disjoint from Entries
    Data,       \* data pointers
    Kinds       \* the containers to exercise

VARIABLES
    kind,       \* the container of this behaviour
    link,       \* jl_pjlNext and jl_pjlPrev of listhead entries and heads
    hlink,      \* jh_pjhnFirst, jhn_pjhnNext and jhn_ppjhnPrev
    mem,        \* allocated nodes of the other containers
    lst,        \* head, tail and size fields of the other containers
    seqs        \* per head, the sequence of entries (or data) expected

listVars == <<kind, link, hlink, mem, lst, seqs>>

NULL == 0
Unlinked == <<"none", NULL>>
Main == CHOOSE h \in Heads : TRUE
InList(e) == \E h \in Heads : e \in ToSet(seqs[h])
ListOf(e) == CHOOSE h \in Heads : e \in ToSet(seqs[h])
Position(s, e) == CHOOSE i \in DOMAIN s : s[i] = e

(***************************************************************************)
(* jf_listhead: L is the memory of all links.                              *)
(***************************************************************************)
ListInit(L, h) == [L EXCEPT !.next[h] = h, !.prev[h] = h]

ListAddBetween(L, new, prev, next) ==
    [L EXCEPT !.prev[next] = new, !.next[new] = next, !.prev[new] = prev, !.next[prev] = new]

ListAdd(L, h, new) == ListAddBetween(L, new, h, L.next[h])

ListAddTail(L, h, new) == ListAddBetween(L, new, L.prev[h], h)

ListUnlink(L, e) == [L EXCEPT !.prev[L.next[e]] = L.prev[e], !.next[L.prev[e]] = L.next[e]]

ListDel(L, e) == [ListUnlink(L, e) EXCEPT !.next[e] = NULL, !.prev[e] = NULL]

ListReplace(L, old, new) ==
    [L EXCEPT !.next[new] = L.next[old], !.prev[L.next[old]] = new,
              !.prev[new] = L.prev[old], !.next[L.prev[old]] = new]

ListReplaceInit(L, old, new) == ListInit(ListReplace(L, old, new), old)

ListDelInit(L, e) == ListInit(ListUnlink(L, e), e)

ListMove(L, h, e) == ListAdd(ListUnlink(L, e), h, e)

ListMoveTail(L, h, e) == ListAddTail(ListUnlink(L, e), h, e)

ListIsEmpty(L, h) == L.next[h] = h

ListSplice(L, h, list) ==
    LET first == L.next[list]
        last  == L.prev[list]
        at    == L.next[h]
    IN  IF ListIsEmpty(L, list) THEN L
        ELSE ListInit([L EXCEPT !.prev[first] = h, !.next[h] = first,
                                !.next[last] = at, !.prev[at] = last], list)

ListSpliceTail(L, h, list) ==
    LET first == L.next[list]
        last  == L.prev[list]
        at    == L.prev[h]
    IN  IF ListIsEmpty(L, list) THEN L
        ELSE ListInit([L EXCEPT !.prev[first] = at, !.next[at] = first,
                                !.next[last] = h, !.prev[h] = last], list)

ListSplit(L, h, list, newhead) ==
    LET first == L.next[h]
        last  == L.prev[list]
    IN  [L EXCEPT !.next[h] = list, !.prev[list] = h, !.next[newhead] = first,
                  !.prev[first] = newhead, !.prev[newhead] = last, !.next[last] = newhead]

RECURSIVE ForEachFrom(_, _, _)
ForEachFrom(next, h, pos) == IF pos = h THEN <<>> ELSE <<pos>> \o ForEachFrom(next, h, next[pos])
ForEach(L, h) == ForEachFrom(L.next, h, L.next[h])
ForEachPrev(L, h) == ForEachFrom(L.prev, h, L.prev[h])

(***************************************************************************)
(* The operations a user of a listhead performs, with their effect on the  *)
(* sequences.  An entry is added only while it is on no list; split is     *)
(* called with an empty new head and an entry that is not the first, the   *)
(* function links the two heads into each other otherwise.                 *)
(***************************************************************************)
ListEffect(L, s) == link' = L /\ seqs' = s /\ UNCHANGED <<kind, hlink, mem, lst>>

ListheadAdd(h, e) ==
    /\ ~ InList(e)
    /\ \/ ListEffect(ListAdd(link, h, e), [seqs EXCEPT ![h] = <<e>> \o @])
       \/ ListEffect(ListAddTail(link, h, e), [seqs EXCEPT ![h] = Append(@, e)])

ListheadDel(e) ==
    /\ InList(e)
    /\ LET s == [seqs EXCEPT ![ListOf(e)] = Remove(@, e)] IN
       \/ ListEffect(ListDel(link, e), s)
       \/ ListEffect(ListDelInit(link, e), s)

ListheadReplace(old, new) ==
    /\ InList(old) /\ ~ InList(new)
    /\ LET s == [seqs EXCEPT ![ListOf(old)] = [@ EXCEPT ![Position(@, old)] = new]] IN
       \/ ListEffect(ListReplace(link, old, new), s)
       \/ ListEffect(ListReplaceInit(link, old, new), s)

ListheadMove(h, e) ==
    /\ InList(e)
    /\ LET s == [seqs EXCEPT ![ListOf(e)] = Remove(@, e)] IN
       \/ ListEffect(ListMove(link, h, e), [s EXCEPT ![h] = <<e>> \o @])
       \/ ListEffect(ListMoveTail(link, h, e), [s EXCEPT ![h] = Append(@, e)])

ListheadSplice(h, l) ==
    /\ h # l
    /\ \/ ListEffect(ListSplice(link, h, l), [seqs EXCEPT ![h] = seqs[l] \o @, ![l] = <<>>])
       \/ ListEffect(ListSpliceTail(link, h, l), [seqs EXCEPT ![h] = @ \o seqs[l], ![l] = <<>>])

ListheadSplit(h, e, newhead) ==
    /\ e \in ToSet(seqs[h]) /\ e # seqs[h][1]
    /\ newhead # h /\ ListIsEmpty(link, newhead)
    /\ LET i == Position(seqs[h], e) IN
       ListEffect(ListSplit(link, h, e, newhead),
                  [seqs EXCEPT ![h] = SubSeq(@, i, Len(@)), ![newhead] = SubSeq(seqs[h], 1, i - 1)])

ListheadNext ==
    /\ kind = "listhead"
    /\ \/ \E h \in Heads, e \in Entries : ListheadAdd(h, e) \/ ListheadMove(h, e)
       \/ \E e \in Entries : ListheadDel(e)
       \/ \E e, f \in Entries : ListheadReplace(e, f)
       \/ \E h, l \in Heads : ListheadSplice(h, l) \/ \E e \in Entries : ListheadSplit(h, e, l)

(***************************************************************************)
(* jf_hlisthead: a pprev pointer is <<"first", head>> or <<"next", node>>. *)
(***************************************************************************)
HlistSet(H, pprev, n) ==
    CASE pprev[1] = "first" -> [H EXCEPT !.first[pprev[2]] = n]
      [] pprev[1] = "next"  -> [H EXCEPT !.next[pprev[2]] = n]

HlistUnlink(H, n) ==
    LET next == H.next[n]
        U    == HlistSet(H, H.pprev[n], next)
    IN  IF next = NULL THEN U ELSE [U EXCEPT !.pprev[next] = H.pprev[n]]

HlistDel(H, n) == [HlistUnlink(H, n) EXCEPT !.next[n] = NULL, !.pprev[n] = Unlinked]

HlistDelInit(H, n) == IF H.pprev[n] = Unlinked THEN H ELSE HlistDel(H, n)

HlistAddHead(H, h, n) ==
    LET first == H.first[h]
        A     == [H EXCEPT !.next[n] = first]
        B     == IF first = NULL THEN A ELSE [A EXCEPT !.pprev[first] = <<"next", n>>]
    IN  [B EXCEPT !.first[h] = n, !.pprev[n] = <<"first", h>>]

RECURSIVE HlistFrom(_, _)
HlistFrom(H, n) == IF n = NULL THEN <<>> ELSE <<n>> \o HlistFrom(H, H.next[n])
HlistForEach(H, h) == HlistFrom(H, H.first[h])

HlistEffect(H, s) == hlink' = H /\ seqs' = s /\ UNCHANGED <<kind, link, mem, lst>>

HlistNext ==
    /\ kind = "hlist"
    /\ \/ \E h \in Heads, n \in Entries :
            ~ InList(n) /\ HlistEffect(HlistAddHead(hlink, h, n), [seqs EXCEPT ![h] = <<n>> \o @])
       \/ \E n \in Entries :
            InList(n) /\ HlistEffect(HlistDel(hlink, n), [seqs EXCEPT ![ListOf(n)] = Remove(@, n)])
       \/ \E n \in Entries :
            HlistEffect(HlistDelInit(hlink, n), [h \in Heads |-> Remove(seqs[h], n)])

(***************************************************************************)
(* Lists of allocated nodes.  M is the memory, l the container; both are   *)
(* returned together.                                                      *)
(***************************************************************************)
Free(M, n) == [k \in DOMAIN M \ {n} |-> M[k]]
New(M) == CHOOSE n \in Entries \ DOMAIN M : \A k \in Entries \ DOMAIN M : n <= k
Alloc(M, n, d, next, prev) == [k \in DOMAIN M \cup {n} |->
    IF k = n THEN [data |-> d, next |-> next, prev |-> prev] ELSE M[k]]
Empty == [head |-> NULL, tail |-> NULL, size |-> 0, live |-> TRUE]

RECURSIVE NodesFrom(_, _)
NodesFrom(M, n) == IF n = NULL THEN <<>> ELSE <<n>> \o NodesFrom(M, M[n].next)

RECURSIVE NodesBack(_, _)
NodesBack(M, n) == IF n = NULL THEN <<>> ELSE <<n>> \o NodesBack(M, M[n].prev)

\* jf_dlinklist_appendTo; the new tail points back at the old one.
DlinklistAppendTo(M, l, d) ==
    LET n == New(M) IN
    IF l.head = NULL
    THEN [mem |-> Alloc(M, n, d, NULL, NULL), lst |-> [l EXCEPT !.head = n, !.tail = n]]
    ELSE [mem |-> [Alloc(M, n, d, NULL, l.tail) EXCEPT ![l.tail].next = n],
          lst |-> [l EXCEPT !.tail = n]]

\* The finders stop at the first node whose data matches, from either end.
FirstMatch(M, nodes, d) ==
    LET hits == {i \in DOMAIN nodes : M[nodes[i]].data = d} IN
    IF hits = {} THEN NULL ELSE nodes[CHOOSE i \in hits : \A j \in hits : i <= j]
FindFirstNode(M, l, d) == FirstMatch(M, NodesFrom(M, l.head), d)
FindLastNode(M, l, d) == FirstMatch(M, NodesBack(M, l.tail), d)
FindNextNode(M, n, d) == FirstMatch(M, NodesFrom(M, M[n].next), d)
FindPrevNode(M, n, d) == FirstMatch(M, NodesBack(M, M[n].prev), d)

\* The iterate functions call back for node after node up to the first error.
Iterate(M, l, bad) ==
    LET nodes == NodesFrom(M, l.head)
        stop  == FirstMatch(M, nodes, bad)
    IN  IF stop = NULL THEN nodes ELSE SubSeq(nodes, 1, Position(nodes, stop))

\* The fini functions free node after node, each next pointer read first.
RECURSIVE FreeFrom(_, _)
FreeFrom(M, n) == IF n = NULL THEN M ELSE LET next == M[n].next IN FreeFrom(Free(M, n), next)
FiniAndInit(M, l) == [mem |-> FreeFrom(M, l.head), lst |-> Empty]

LinklistAppendTo(M, l, d) ==
    LET n     == New(M)
        nodes == NodesFrom(M, l.head)
    IN  IF l.head = NULL
        THEN [mem |-> Alloc(M, n, d, NULL, NULL), lst |-> [l EXCEPT !.head = n]]
        ELSE [mem |-> [Alloc(M, n, d, NULL, NULL) EXCEPT ![nodes[Len(nodes)]].next = n], lst |-> l]

LinklistInsertTo(M, l, d) ==
    LET n == New(M) IN [mem |-> Alloc(M, n, d, l.head, NULL), lst |-> [l EXCEPT !.head = n]]

\* Unlink and free a node of a singly linked list.
Unlink(M, l, n) ==
    IF l.head = n
    THEN [mem |-> Free(M, n), lst |-> [l EXCEPT !.head = M[n].next]]
    ELSE LET prev == CHOOSE p \in DOMAIN M : M[p].next = n
         IN  [mem |-> Free([M EXCEPT ![prev].next = M[n].next], n), lst |-> l]

LinklistRemove(M, l, d) ==
    LET n == FirstMatch(M, NodesFrom(M, l.head), d) IN
    IF n = NULL THEN [mem |-> M, lst |-> l] ELSE Unlink(M, l, n)

QueueEnqueue(M, l, d) ==
    LET n == New(M) IN
    IF l.head = NULL
    THEN [mem |-> Alloc(M, n, d, NULL, NULL), lst |-> [l EXCEPT !.head = n, !.tail = n]]
    ELSE [mem |-> [Alloc(M, n, d, NULL, NULL) EXCEPT ![l.tail].next = n],
          lst |-> [l EXCEPT !.tail = n]]

QueueDequeue(M, l) ==
    IF l.head = NULL THEN [mem |-> M, lst |-> l]
    ELSE LET next == M[l.head].next IN
         [mem |-> Free(M, l.head),
          lst |-> [l EXCEPT !.head = next, !.tail = IF next = NULL THEN NULL ELSE @]]

QueuePeek(M, l) == IF l.head = NULL THEN NULL ELSE M[l.head].data

\* jf_queue_fini frees the nodes and does not initialise the queue again.
QueueFini(M, l) == [mem |-> FreeFrom(M, l.head), lst |-> [l EXCEPT !.live = FALSE]]

StackPop(M, l) ==
    IF l.head = NULL THEN [mem |-> M, lst |-> l]
    ELSE [mem |-> Free(M, l.head), lst |-> [l EXCEPT !.head = M[l.head].next]]

RECURSIVE StackClear(_, _)
StackClear(M, l) ==
    LET p == StackPop(M, l) IN IF p.lst.head = NULL THEN p ELSE StackClear(p.mem, p.lst)

ArrayGetElementAt(M, l, i) == M[NodesFrom(M, l.head)[i + 1]].data

\* _insertElementAt walks at most to the end: a larger index appends.
ArrayInsertElementAt(M, l, i, d) ==
    LET nodes == NodesFrom(M, l.head)
        n     == New(M)
        pos   == IF i < Len(nodes) THEN i ELSE Len(nodes)
        next  == IF pos < Len(nodes) THEN nodes[pos + 1] ELSE NULL
    IN  IF pos = 0
        THEN [mem |-> Alloc(M, n, d, next, NULL), lst |-> [l EXCEPT !.head = n, !.size = @ + 1]]
        ELSE [mem |-> [Alloc(M, n, d, next, NULL) EXCEPT ![nodes[pos]].next = n],
              lst |-> [l EXCEPT !.size = @ + 1]]

ArrayRemoveElementAt(M, l, i) ==
    IF i >= l.size THEN [mem |-> M, lst |-> l]
    ELSE LET r == Unlink(M, l, NodesFrom(M, l.head)[i + 1]) IN [r EXCEPT !.lst.size = @ - 1]

ArrayRemoveElement(M, l, d) ==
    LET n == FirstMatch(M, NodesFrom(M, l.head), d) IN
    IF n = NULL THEN [mem |-> M, lst |-> l]
    ELSE LET r == Unlink(M, l, n) IN [r EXCEPT !.lst.size = @ - 1]

\* removeAllElements and destroyAllElements remove element 0, size times.
RECURSIVE ArrayRemoveFirst(_, _, _)
ArrayRemoveFirst(M, l, times) ==
    IF times = 0 THEN [mem |-> M, lst |-> l]
    ELSE LET r == ArrayRemoveElementAt(M, l, 0) IN ArrayRemoveFirst(r.mem, r.lst, times - 1)
ArrayRemoveAll(M, l) == ArrayRemoveFirst(M, l, l.size)

Effect(r, s) == mem' = r.mem /\ lst' = r.lst /\ seqs' = [seqs EXCEPT ![Main] = s]
                /\ UNCHANGED <<kind, link, hlink>>
Expected == seqs[Main]
Room == Entries \ DOMAIN mem # {}
RemoveFirstData(s, d) ==
    IF d \notin ToSet(s) THEN s
    ELSE RemoveAt(s, CHOOSE i \in DOMAIN s : s[i] = d /\ \A j \in 1..(i - 1) : s[j] # d)

DlinklistNext ==
    /\ kind = "dlinklist"
    /\ \/ \E d \in Data : Room /\ Effect(DlinklistAppendTo(mem, lst, d), Append(Expected, d))
       \/ Effect(FiniAndInit(mem, lst), <<>>)

LinklistNext ==
    /\ kind = "linklist"
    /\ \/ \E d \in Data : Room /\ Effect(LinklistAppendTo(mem, lst, d), Append(Expected, d))
       \/ \E d \in Data : Room /\ Effect(LinklistInsertTo(mem, lst, d), <<d>> \o Expected)
       \/ \E d \in Data : Effect(LinklistRemove(mem, lst, d), RemoveFirstData(Expected, d))
       \/ Effect(FiniAndInit(mem, lst), <<>>)

QueueNext ==
    /\ kind = "queue"
    /\ \/ lst.live /\ \E d \in Data : Room /\ Effect(QueueEnqueue(mem, lst, d), Append(Expected, d))
       \/ lst.live /\ Effect(QueueDequeue(mem, lst), IF Expected = <<>> THEN <<>> ELSE Tail(Expected))
       \/ lst.live /\ Effect(FiniAndInit(mem, lst), <<>>)
       \/ lst.live /\ Effect(QueueFini(mem, lst), <<>>)
       \/ Effect([mem |-> mem, lst |-> Empty], <<>>) /\ ~ lst.live

StackNext ==
    /\ kind = "stack"
    /\ \/ \E d \in Data : Room /\ Effect(LinklistInsertTo(mem, lst, d), <<d>> \o Expected)
       \/ Effect(StackPop(mem, lst), IF Expected = <<>> THEN <<>> ELSE Tail(Expected))
       \/ Effect(StackClear(mem, lst), <<>>)

ArrayNext ==
    /\ kind = "array"
    /\ \/ \E d \in Data, i \in 0..Cardinality(Entries) : Room
            /\ LET at == IF i < Len(Expected) THEN i ELSE Len(Expected)
               IN  Effect(ArrayInsertElementAt(mem, lst, i, d), InsertAt(Expected, at + 1, d))
       \/ \E i \in 0..Cardinality(Entries) :
            Effect(ArrayRemoveElementAt(mem, lst, i),
                   IF i < Len(Expected) THEN RemoveAt(Expected, i + 1) ELSE Expected)
       \/ \E d \in Data : Effect(ArrayRemoveElement(mem, lst, d), RemoveFirstData(Expected, d))
       \/ Effect(ArrayRemoveAll(mem, lst), <<>>)

ListsInit ==
    /\ kind \in Kinds
    /\ link = [next |-> [n \in Entries \cup Heads |-> IF n \in Heads THEN n ELSE NULL],
               prev |-> [n \in Entries \cup Heads |-> IF n \in Heads THEN n ELSE NULL]]
    /\ hlink = [first |-> [h \in Heads |-> NULL], next |-> [n \in Entries |-> NULL],
                pprev |-> [n \in Entries |-> Unlinked]]
    /\ mem = <<>>
    /\ lst = Empty
    /\ seqs = [h \in Heads |-> <<>>]

ListsNext == ListheadNext \/ HlistNext \/ DlinklistNext \/ LinklistNext \/ QueueNext \/ StackNext
             \/ ArrayNext

ListsSpec == ListsInit /\ [][ListsNext]_listVars

-----------------------------------------------------------------------------
(***************************************************************************)
(* Whatever the order of insertions, removals, moves, splices and splits,  *)
(* walking a container gives exactly the entries put there and not taken   *)
(* out, in order; walking it backwards gives the reverse; no allocated     *)
(* node is unreachable, and the size field of an array is its length.  An  *)
(* iteration goes no further than the first node its callback refuses.     *)
(***************************************************************************)
ListsExact ==
    /\ kind = "listhead" => \A h \in Heads :
         /\ ForEach(link, h) = seqs[h]
         /\ ForEachPrev(link, h) = Reverse(seqs[h])
    /\ kind = "hlist" => \A h \in Heads :
         /\ HlistForEach(hlink, h) = seqs[h]
         /\ \A i \in DOMAIN seqs[h] : hlink.pprev[seqs[h][i]] =
              IF i = 1 THEN <<"first", h>> ELSE <<"next", seqs[h][i - 1]>>
    /\ kind \notin {"listhead", "hlist"} /\ lst.live =>
         LET nodes == NodesFrom(mem, lst.head)
             data  == [i \in DOMAIN nodes |-> mem[nodes[i]].data]
         IN  /\ data = Expected
             /\ \A d \in Data : LET it == Iterate(mem, lst, d) IN
                  \A i \in DOMAIN it : mem[it[i]].data = d => i = Len(it)
             /\ ToSet(nodes) = DOMAIN mem
             /\ kind = "array" => lst.size = Len(Expected)
                    /\ \A i \in 0..(Len(Expected) - 1) : ArrayGetElementAt(mem, lst, i) = Expected[i + 1]
             /\ kind \in {"queue", "dlinklist"} =>
                  lst.tail = (IF nodes = <<>> THEN NULL ELSE nodes[Len(nodes)])
             /\ kind = "queue" => QueuePeek(mem, lst) = (IF data = <<>> THEN NULL ELSE data[1])
             /\ kind = "dlinklist" => \A d \in Data :
                  LET f == FindFirstNode(mem, lst, d)
                      b == FindLastNode(mem, lst, d)
                  IN  /\ NodesBack(mem, lst.tail) = Reverse(nodes)
                      /\ (f = NULL) <=> d \notin ToSet(data)
                      /\ f # NULL => /\ FindPrevNode(mem, f, d) = NULL
                                     /\ FindNextNode(mem, b, d) = NULL
                                     /\ f # b => FindNextNode(mem, f, d) # NULL

============================================================================
