----------------------------- MODULE ListArray ------------------------------
(***************************************************************************)
(* The list array of jiutai/jf_listarray.h: the free list of a pool kept   *)
(* as a head index and an array of next indices.  A list array is a record *)
(* [head, next] over the nodes 0 .. n - 1; the index n stands for          *)
(* JF_LISTARRAY_END.                                                       *)
(***************************************************************************)
EXTENDS Integers

ListArrayEnd(n) == n

\* jf_listarray_init
InitListArray(n) ==
    [head |-> 0, next |-> [i \in 0 .. n - 1 |-> i + 1]]

\* jf_listarray_isEnd
IsEndListArray(l, n) == l.head = ListArrayEnd(n)

\* jf_listarray_getNode returns the head of a list that has one ...
HeadListArray(l) == l.head

\* ... and leaves this list.
GetNodeListArray(l) == [l EXCEPT !.head = l.next[l.head]]

\* jf_listarray_putNode
PutNodeListArray(l, i) ==
    [head |-> i, next |-> [l.next EXCEPT ![i] = l.head]]

\* The nodes reached from the head in at most k steps, and the node reached.
WalkListArray(l, n, k) ==
    LET walk[j \in 0 .. k] ==
          IF j = 0 THEN [seen |-> {}, at |-> l.head]
          ELSE IF walk[j - 1].at = ListArrayEnd(n) THEN walk[j - 1]
          ELSE [seen |-> walk[j - 1].seen \cup {walk[j - 1].at},
                at   |-> l.next[walk[j - 1].at]]
    IN  walk[k]

\* The list ends after its nodes: it has no cycle.
AcyclicListArray(l, n) == WalkListArray(l, n, n).at = ListArrayEnd(n)
NodesOfListArray(l, n) == WalkListArray(l, n, n).seen
=============================================================================
