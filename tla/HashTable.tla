----------------------------- MODULE HashTable -----------------------------
(***************************************************************************)
(* jf_hashtable.c, an array of bucket chains that grows through a list of  *)
(* primes, and jf_hashtree.c, the list with hashed keys that keeps the     *)
(* name spaces of a property tree.  entries and tree are the maps a caller *)
(* expects to find.  A position returned by _getPositionOfKey is a slot    *)
(* and an index into its chain, one past the end when the key is absent.   *)
(***************************************************************************)
EXTENDS Integers, Sequences, FiniteSets, SequencesExt

CONSTANTS
    Keys,           \* keys of entries
    Entry,          \* distinguishes two entries with the same key
    HashKey,        \* jhcp_fnHashKey: an integer for each key, of either sign
    HashTreeValue,  \* _getHashValue: an integer for each key
    Primes,         \* ls_nHashTablePrimes, the part this instance can reach
    MaxMisfreed     \* bound: entries lost by removals and overwritings

VARIABLES
    table,          \* array, primes index and number of entries of the hash table
    entries,        \* key -> entry that should be in the table
    held,           \* how often each entry is held by the table
    misfreed,       \* entries that fnFreeEntry got as if they were their own address
    tree,           \* nodes of the hash tree from the root
    treeData        \* key -> data that should be in the hash tree

hashVars == <<table, entries, held, misfreed, tree, treeData>>

Absolute(n) == IF n < 0 THEN -n ELSE n
Size(t) == Primes[t.index]
Threshold(t) == (4 * Size(t) + 4) \div 5
EmptyArray(n) == [i \in 0..(n - 1) |-> <<>>]
\* owns: jhcp_fnFreeEntry was given; the default one leaves an entry alone.
Create(owns) ==
    [index |-> 1, num |-> 0, bucket |-> EmptyArray(Primes[1]), owns |-> owns]

\* A hash of either sign is made positive before the modulo.
GetPositionOfKey(t, key) ==
    LET slot  == Absolute(HashKey[key]) % Size(t)
        chain == t.bucket[slot]
        hits  == {i \in DOMAIN chain : chain[i].key = key}
    IN  [slot |-> slot, at |-> IF hits = {} THEN Len(chain) + 1 ELSE CHOOSE i \in hits : TRUE]

Occupied(t, p) == p.at <= Len(t.bucket[p.slot])
At(t, p) == t.bucket[p.slot][p.at]

\* Every bucket, in array and chain order, goes to the end of its new chain.
RECURSIVE Rehash(_, _)
Rehash(t, buckets) ==
    IF buckets = <<>> THEN t
    ELSE LET p == GetPositionOfKey(t, buckets[1].key)
         IN  Rehash([t EXCEPT !.bucket[p.slot] = Append(SubSeq(@, 1, p.at - 1), buckets[1])],
                    Tail(buckets))

AllBuckets(t) == FlattenSeq([i \in 1..Size(t) |-> t.bucket[i - 1]])

ResizeHashTable(t) ==
    Rehash([t EXCEPT !.index = @ + 1, !.bucket = EmptyArray(Primes[t.index + 1])], AllBuckets(t))

\* Mutant: the insertion goes on with the position found before the resize.
InsertAtOldPosition(t, p, e) ==
    LET r == IF t.num >= Threshold(t) THEN ResizeHashTable(t) ELSE t
    IN  [r EXCEPT !.bucket[p.slot] = InsertAt(@, IF p.at <= Len(@) THEN p.at ELSE Len(@) + 1, e),
                  !.num = @ + 1]

InsertAtPosition(t, p, e) ==
    LET r == IF t.num >= Threshold(t) THEN ResizeHashTable(t) ELSE t
        q == IF t.num >= Threshold(t) THEN GetPositionOfKey(r, e.key) ELSE p
    IN  [r EXCEPT !.bucket[q.slot] = InsertAt(@, q.at, e), !.num = @ + 1]

\* Memory may run out for the bucket after the array has grown; when the larger
\* array itself cannot be allocated the old one is put back.
InsertFailed(t) == IF t.num >= Threshold(t) THEN {t, ResizeHashTable(t)} ELSE {t}

CanGrow(t) == t.num >= Threshold(t) => t.index < Len(Primes)

InsertEntry(e) ==
    LET p == GetPositionOfKey(table, e.key) IN
    /\ CanGrow(table)
    /\ IF Occupied(table, p) THEN UNCHANGED <<table, entries, held>>
       ELSE \/ /\ table' = InsertAtPosition(table, p, e)
               /\ entries' = [k \in DOMAIN entries \cup {e.key} |-> IF k = e.key THEN e ELSE entries[k]]
               /\ held' = [held EXCEPT ![e] = @ + 1]
            \/ table' \in InsertFailed(table) /\ UNCHANGED <<entries, held>>
    /\ UNCHANGED <<misfreed, tree, treeData>>

\* fnFreeEntry takes the address of an entry, but a removal and an overwriting pass
\* the entry: what its first word points to is freed in its place, the entry is not.
FreeMisplaced(t, e) ==
    IF t.owns THEN Cardinality(misfreed) < MaxMisfreed /\ misfreed' = misfreed \cup {e}
    ELSE UNCHANGED misfreed

RemoveEntry(key) ==
    LET p == GetPositionOfKey(table, key) IN
    /\ IF Occupied(table, p)
       THEN /\ table' = [table EXCEPT !.bucket[p.slot] = RemoveAt(@, p.at), !.num = @ - 1]
            /\ held' = [held EXCEPT ![At(table, p)] = @ - 1]
            /\ FreeMisplaced(table, At(table, p))
            /\ entries' = [k \in DOMAIN entries \ {key} |-> entries[k]]
       ELSE UNCHANGED <<table, held, misfreed, entries>>
    /\ UNCHANGED <<tree, treeData>>

OverwriteEntry(e) ==
    LET p == GetPositionOfKey(table, e.key) IN
    /\ CanGrow(table)
    /\ \/ /\ Occupied(table, p)
          /\ table' = [table EXCEPT !.bucket[p.slot][p.at] = e]
          /\ held' = [held EXCEPT ![At(table, p)] = @ - 1, ![e] = @ + 1]
          /\ FreeMisplaced(table, At(table, p))
          /\ entries' = [entries EXCEPT ![e.key] = e]
       \/ /\ ~ Occupied(table, p)
          /\ table' = InsertAtPosition(table, p, e)
          /\ entries' = [k \in DOMAIN entries \cup {e.key} |-> IF k = e.key THEN e ELSE entries[k]]
          /\ held' = [held EXCEPT ![e] = @ + 1]
          /\ UNCHANGED misfreed
       \/ /\ ~ Occupied(table, p)
          /\ table' \in InsertFailed(table)
          /\ UNCHANGED <<entries, held, misfreed>>
    /\ UNCHANGED <<tree, treeData>>

\* jf_hashtable_destroy passes the address of every entry to fnFreeEntry; a new
\* table is created afterwards.
Destroy ==
    /\ \E owns \in BOOLEAN : table' = Create(owns)
    /\ held' = [e \in DOMAIN held |-> IF e \in ToSet(AllBuckets(table)) THEN held[e] - 1 ELSE held[e]]
    /\ entries' = <<>>
    /\ UNCHANGED <<misfreed, tree, treeData>>

GetEntry(t, key) ==
    LET p == GetPositionOfKey(t, key) IN IF Occupied(t, p) THEN {At(t, p)} ELSE {}

GetStat(t) ==
    LET used == {i \in 0..(Size(t) - 1) : t.bucket[i] # <<>>}
        len  == {Len(t.bucket[i]) : i \in used}
    IN  [entries    |-> t.num,
         collisions |-> FoldSet(LAMBDA i, a : a + Len(t.bucket[i]) - 1, 0, used),
         max        |-> IF used = {} THEN 0 ELSE CHOOSE n \in len : \A m \in len : m <= n]

\* The iterator: the slot and the place in its chain, 0 when at the end.
IncrementIterator(t, it) ==
    LET chain == IF it.pos \in 0..(Size(t) - 1) THEN t.bucket[it.pos] ELSE <<>>
        later == {i \in (it.pos + 1)..(Size(t) - 1) : t.bucket[i] # <<>>}
    IN  IF it.at > 0 /\ it.at < Len(chain) THEN [it EXCEPT !.at = @ + 1]
        ELSE IF later = {} THEN [pos |-> Size(t), at |-> 0]
        ELSE [pos |-> CHOOSE i \in later : \A j \in later : i <= j, at |-> 1]

SetupIterator(t) == IncrementIterator(t, [pos |-> -1, at |-> 0])

RECURSIVE Iterated(_, _)
Iterated(t, it) ==
    IF it.at = 0 THEN <<>>
    ELSE <<t.bucket[it.pos][it.at]>> \o Iterated(t, IncrementIterator(t, it))

-----------------------------------------------------------------------------
(***************************************************************************)
(* The hash tree: a new node becomes the root, an existing key keeps its   *)
(* node and gets the new data.                                             *)
(***************************************************************************)
FindHashtreeEntry(key) ==
    {i \in DOMAIN tree : tree[i].value = HashTreeValue[key] /\ tree[i].key = key}

AddHashtreeEntry(key, data) ==
    /\ tree' = IF FindHashtreeEntry(key) = {}
               THEN <<[key |-> key, value |-> HashTreeValue[key], data |-> data]>> \o tree
               ELSE [i \in DOMAIN tree |->
                       IF i \in FindHashtreeEntry(key) THEN [tree[i] EXCEPT !.data = data] ELSE tree[i]]
    /\ treeData' = [k \in DOMAIN treeData \cup {key} |-> IF k = key THEN data ELSE treeData[k]]
    /\ UNCHANGED <<table, entries, held, misfreed>>

DeleteHashtreeEntry(key) ==
    /\ tree' = SelectSeq(tree, LAMBDA n : ~ (n.value = HashTreeValue[key] /\ n.key = key))
    /\ treeData' = [k \in DOMAIN treeData \ {key} |-> treeData[k]]
    /\ UNCHANGED <<table, entries, held, misfreed>>

FiniHashtree == tree' = <<>> /\ treeData' = <<>> /\ UNCHANGED <<table, entries, held, misfreed>>

-----------------------------------------------------------------------------
HashInit ==
    /\ \E owns \in BOOLEAN : table = Create(owns)
    /\ misfreed = {} /\ entries = <<>> /\ held = [e \in [key : Keys, id : Entry] |-> 0]
    /\ tree = <<>> /\ treeData = <<>>

\* The two containers share nothing, so only one of them is filled at a time.  Who
\* gave an entry away does not use it again, freed as it was meant to be or not.
HashNext ==
    \/ \E e \in DOMAIN held \ misfreed :
          held[e] = 0 /\ tree = <<>> /\ (InsertEntry(e) \/ OverwriteEntry(e))
    \/ \E k \in Keys : RemoveEntry(k)
    \/ Destroy
    \/ \E k \in Keys, n \in Entry : AddHashtreeEntry(k, n) /\ table = Create(FALSE) /\ misfreed = {}
    \/ \E k \in Keys : DeleteHashtreeEntry(k)
    \/ FiniHashtree

HashSpec == HashInit /\ [][HashNext]_hashVars

-----------------------------------------------------------------------------
(***************************************************************************)
(* jf_hashtable_getEntry finds exactly the entry stored under each key,    *)
(* through every growth of the array; it holds each of them once, lets go  *)
(* of it once, and none that it holds was passed to fnFreeEntry; the       *)
(* iterator meets every entry once and the statistics count them.  The     *)
(* hash tree returns the data last added for a key and holds the key once. *)
(***************************************************************************)
TableExact ==
    LET all == Iterated(table, SetupIterator(table)) IN
    /\ \A k \in Keys : GetEntry(table, k) = IF k \in DOMAIN entries THEN {entries[k]} ELSE {}
    /\ \A e \in DOMAIN held : held[e] = IF e \in {entries[k] : k \in DOMAIN entries} THEN 1 ELSE 0
    /\ misfreed \cap {entries[k] : k \in DOMAIN entries} = {}
    /\ table.num = Cardinality(DOMAIN entries)
    /\ Len(all) = table.num /\ ToSet(all) = {entries[k] : k \in DOMAIN entries}
    /\ GetStat(table).collisions + Cardinality({i \in 0..(Size(table) - 1) : table.bucket[i] # <<>>})
         = table.num
    /\ \A k \in Keys :
         LET found == FindHashtreeEntry(k) IN
         /\ (found # {}) <=> k \in DOMAIN treeData
         /\ \A i \in found : tree[i].data = treeData[k] /\ found = {i}

(***************************************************************************)
(* jf_hashtable.h: fnFreeEntry gets the address of the entry to free.  So  *)
(* it does from jf_hashtable_destroy; violated by a removal and by an      *)
(* overwriting in a table that owns its entries.                           *)
(***************************************************************************)
RemovedIsFreed == misfreed = {}

============================================================================
