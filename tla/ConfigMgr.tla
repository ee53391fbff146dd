----------------------------- MODULE ConfigMgr ------------------------------
(***************************************************************************)
(* The configuration manager daemon jf_configmgr (configmgr/daemon) and    *)
(* what it keeps on disk (persistency, files/conffile.c).                  *)
(*                                                                         *)
(* The daemon loads the configuration into a tree, serves the requests of  *)
(* its clients one at a time in its chain thread, and saves the tree when  *)
(* it ends.  A transaction is a tree of its own in one slot of an array,   *)
(* found by the random id the client was given; it expires when it gets    *)
(* too old.  The file persistency writes a second file, removes the first  *)
(* and renames the second; the sqlite persistency uses a transaction of    *)
(* the database.  The daemon may be killed at any moment.                  *)
(*                                                                         *)
(* A tree or table is a function from the keys it has, the leaves of the   *)
(* tree, to their values.  Memory is never exhausted here.                 *)
(***************************************************************************)
EXTENDS Integers, Sequences, FiniteSets, FiniteSetsExt

CONSTANTS
    Clients,                \* each has at most one transaction
    Keys, Values,           \* of the configuration
    AsRead,                 \* value -> the part of it before '#'
    Quoted,                 \* the values with a quote in them
    InitFiles,              \* the configuration files there may be at first
    MaxNumOfTransaction,    \* icms_u16MaxNumOfTransaction
    Ids, InvalidId,         \* the values of jf_rand_getU32; the one that is none,
                            \* JF_CONFIG_INVALID_TRANSACTION_ID
    TimeOut,                \* ict_nTransactionTimeOut
    NoTree, NoFile, NoId, NoValue,  \* NULL, a missing file, no transaction
    Junk,                   \* a key or value glued together from two lines
    MaxTime, MaxRequests, MaxMishaps     \* bounds

Slots == 1 .. MaxNumOfTransaction

\* What stands in a file or a table: the keys, and the values AsRead knows.
AllKeys == Keys \cup {Junk}
AllValues == DOMAIN AsRead
Table == UNION {[S -> AllValues] : S \in SUBSET AllKeys}
LineType == [key : AllKeys, value : AllValues \cup {NoValue}, whole : BOOLEAN]

ASSUME ConfigAssumption ==
    /\ {MaxNumOfTransaction, TimeOut} \subseteq Nat
    /\ InvalidId \in Ids /\ NoId \notin Ids
    /\ Values \cup {Junk} \subseteq AllValues /\ NoValue \notin AllValues
    /\ \A v \in AllValues : AsRead[v] \in AllValues /\ AsRead[AsRead[v]] = AsRead[v]
    /\ NoTree \notin Table
    /\ NoFile \notin Seq(LineType)
    /\ \A f \in InitFiles \ {NoFile} : f \in Seq(LineType) /\ \A n \in DOMAIN f : f[n].whole

VARIABLES
    backend,    \* icms_u8ConfigPersistencyType
    at,         \* where the daemon is: "down", "up", or inside finiConfigTree
    tree,       \* ict_pjpConfig
    changed,    \* ict_bConfigChanged
    trans,      \* ict_picttTransaction
    disk,       \* the two files and the table: [conf, temp, db]
    now,        \* jf_time_getMonotonicRawTimeInSecond
    client,     \* per client the id of its transaction, and as ghosts what it
                \* wrote in it, when it began, and whether the daemon knew it
    reply,      \* the response of this step: [op, c, ok, key, value]
    collided,   \* ghost: an id was drawn that is invalid or in use already
    begun,      \* ghost: the transactions begun and neither committed nor rolled back
    durable,    \* ghost: the configuration saved last
    torn,       \* ghost: a save was cut off where the code does not recover
    spent       \* requests, and kills and failed writes, so far

vars == <<backend, at, tree, changed, trans, disk, now, client, reply, collided, begun,
          durable, torn, spent>>

NoConfig == <<>>            \* the function with the empty domain

\* jf_ptree_replaceNode and jf_ptree_merge: the values of g replace those of f.
Merge(f, g) ==
    [k \in DOMAIN f \cup DOMAIN g |-> IF k \in DOMAIN g THEN g[k] ELSE f[k]]

FreeSlot == [id |-> InvalidId, config |-> NoTree, start |-> 0]
NoTransaction == [id |-> NoId, wrote |-> NoConfig, began |-> 0, known |-> FALSE]
Reply(op, c, ok, k, v) == [op |-> op, c |-> c, ok |-> ok, key |-> k, value |-> v]
NoReply == Reply("none", NoId, FALSE, NoId, NoId)

-----------------------------------------------------------------------------
(* The configuration file.  A line is a key and a value, and whole or cut  *)
(* off by a crash, in its value or, without a value, in its key; what is   *)
(* appended continues it.                                                  *)

Line(k, v) == [key |-> k, value |-> v, whole |-> TRUE]
HasValue(l) == l.value # NoValue
CutLines(l) ==
    {[l EXCEPT !.value = Junk, !.whole = FALSE],
     [l EXCEPT !.key = Junk, !.value = NoValue, !.whole = FALSE]}

\* jf_filestream_open with "a+" creates a missing file.
Content(f) == IF f = NoFile THEN <<>> ELSE f

\* _readLineFromFile: the value goes up to a '#', which begins a comment.
Parsed(l) == Line(l.key, AsRead[l.value])

\* _traverseConfFile: only the lines with a "=" are configurations.
LinesOf(f, k) == {n \in DOMAIN f : HasValue(f[n]) /\ f[n].key = k}
KeysOf(f) == {k \in AllKeys : LinesOf(f, k) # {}}

\* Mutant: the first line of a key counts, as in jf_conffile_get.
LoadFirst(f) == [k \in KeysOf(f) |-> Parsed(f[Min(LinesOf(f, k))]).value]

\* _fnAddConfigToTree for every line: the last line of a key is what counts.
Load(f) == [k \in KeysOf(f) |-> Parsed(f[Max(LinesOf(f, k))]).value]

\* jf_conffile_write of several lines to a file opened with "a+".
AppendLines(f, lines) ==
    IF f = <<>> \/ lines = <<>> THEN f \o lines
    ELSE LET l == f[Len(f)]
             glued == IF l.value = NoValue
                      THEN [lines[1] EXCEPT !.key = Junk]
                      ELSE [lines[1] EXCEPT !.key = l.key, !.value = Junk]
         IN IF l.whole THEN f \o lines
            ELSE SubSeq(f, 1, Len(f) - 1) \o <<glued>> \o Tail(lines)

\* What reaches the file of the lines written when the writing stops early.
WrittenPrefixes(lines) ==
    {SubSeq(lines, 1, n) : n \in 0 .. Len(lines) - 1} \cup
    UNION {{SubSeq(lines, 1, n - 1) \o <<c>> : c \in CutLines(lines[n])} : n \in DOMAIN lines}

CutAtEnd(f) == f # NoFile /\ f # <<>> /\ ~f[Len(f)].whole

\* _fnSaveKeyValueToTempFile: a line of the file with the value it now has.
Updated(l, keyValue) ==
    IF l.key \in DOMAIN keyValue THEN Line(l.key, keyValue[l.key]) ELSE Parsed(l)

\* jf_conffile_traverse with it: what is written for the first n lines.
Rewritten(f, keyValue) ==
    LET saved[n \in 0 .. Len(f)] ==
          IF n = 0 THEN <<>>
          ELSE IF HasValue(f[n]) THEN Append(saved[n - 1], Updated(f[n], keyValue))
          ELSE saved[n - 1]
    IN  saved

\* jf_hashtree_initEnumerator and on: the members of a set in some order.
Enumerated(S) == CHOOSE s \in [1 .. Cardinality(S) -> S] : IsInjective(s)

\* The lines of a save, the last by _appendKeyValueToTempFile: the keys of the
\* transaction the file does not have.
SavedLines(f, keyValue) ==
    LET rest == Enumerated(DOMAIN keyValue \ KeysOf(f))
    IN  Rewritten(f, keyValue)[Len(f)]
        \o [n \in DOMAIN rest |-> Line(rest[n], keyValue[rest[n]])]
-----------------------------------------------------------------------------
(* The transactions.                                                       *)

\* Mutant: a transaction that is as old as the timeout is expired.
IsExpiredEarly(t) == t.id # InvalidId /\ t.start + TimeOut <= now

\* _isExpiredConfigTreeTransaction
IsExpired(t) == t.id # InvalidId /\ t.start + TimeOut < now

\* _findConfigTreeTransaction: the first slot with the id, 0 if there is none;
\* expired transactions are freed on the way to it.
Swept == [i \in Slots |-> IF IsExpired(trans[i]) THEN FreeSlot ELSE trans[i]]
Find(id) ==
    LET hits == {i \in Slots : Swept[i].id = id}
    IN IF hits = {} THEN 0 ELSE Min(hits)
SweptTo(n) == [i \in Slots |-> IF n # 0 /\ i > n THEN trans[i] ELSE Swept[i]]

Holds(c) == client[c].id # NoId
Request(c) == at = "up" /\ spent.requests < MaxRequests
              /\ spent' = [spent EXCEPT !.requests = @ + 1]

\* startConfigTreeTransaction: jf_rand_getU32 may draw any id.
StartTransaction(c) ==
    /\ Request(c) /\ ~Holds(c)
    /\ LET n == Find(InvalidId)
       IN IF n = 0
          THEN /\ trans' = SweptTo(n)
               /\ reply' = Reply("start", c, FALSE, NoId, NoId)
               /\ UNCHANGED <<client, collided, begun>>
          ELSE \E id \in Ids :
               /\ trans' = [SweptTo(n) EXCEPT ![n] =
                               [id |-> id, config |-> NoConfig, start |-> now]]
               /\ client' = [client EXCEPT ![c] =
                               [id |-> id, wrote |-> NoConfig, began |-> now, known |-> TRUE]]
               /\ collided' = (collided \/ id = InvalidId
                               \/ \E d \in Clients : client[d].id = id
                               \/ \E i \in Slots : SweptTo(n)[i].id = id)
               /\ begun' = begun \cup {[id |-> id, start |-> now]}
               /\ reply' = Reply("start", c, TRUE, NoId, NoId)
    /\ UNCHANGED <<backend, at, tree, changed, disk, now, durable, torn>>

\* setConfigIntoConfigTree outside a transaction.
SetDirect(c, k, v) ==
    /\ Request(c) /\ client[c].id \in {NoId, InvalidId}
    /\ IF k \in DOMAIN tree
       THEN tree' = [tree EXCEPT ![k] = v] /\ changed' = TRUE
       ELSE UNCHANGED <<tree, changed>>
    /\ reply' = Reply("set", c, k \in DOMAIN tree, k, v)
    /\ UNCHANGED <<backend, at, trans, disk, now, client, collided, begun, durable, torn>>

\* setConfigIntoConfigTree in a transaction: the tree must have the key.
SetInTransaction(c, k, v) ==
    /\ Request(c) /\ client[c].id \notin {NoId, InvalidId}
    /\ LET n == Find(client[c].id)
       IN /\ trans' = IF k \notin DOMAIN tree THEN trans
                      ELSE IF n = 0 THEN SweptTo(n)
                      ELSE [SweptTo(n) EXCEPT ![n].config = Merge(@, [x \in {k} |-> v])]
          /\ reply' = Reply("set", c, k \in DOMAIN tree /\ n # 0, k, v)
          /\ client' = IF reply'.ok
                       THEN [client EXCEPT ![c].wrote = Merge(@, [x \in {k} |-> v])]
                       ELSE client
    /\ UNCHANGED <<backend, at, tree, changed, disk, now, collided, begun, durable, torn>>

\* getConfigFromConfigTree: whatever fails in the transaction, the tree is asked.
Get(c, k) ==
    /\ Request(c)
    /\ LET id == client[c].id
           n == Find(id)
           found == /\ id \notin {NoId, InvalidId} /\ n # 0
                    /\ k \in DOMAIN trans[n].config
       IN /\ trans' = IF id \in {NoId, InvalidId} THEN trans ELSE SweptTo(n)
          /\ reply' = IF found THEN Reply("get", c, TRUE, k, trans[n].config[k])
                      ELSE IF k \in DOMAIN tree THEN Reply("get", c, TRUE, k, tree[k])
                      ELSE Reply("get", c, FALSE, k, NoId)
    /\ UNCHANGED <<backend, at, tree, changed, disk, now, client, collided, begun, durable, torn>>

\* The client forgets its transaction.
IsOver(c) ==
    /\ client' = [client EXCEPT ![c] = NoTransaction]
    /\ begun' = begun \ {[id |-> client[c].id, start |-> client[c].began]}

\* commitConfigTreeTransaction; jf_config_commitTransaction asserts the id.
CommitTransaction(c) ==
    /\ Request(c) /\ client[c].id \notin {NoId, InvalidId}
    /\ LET n == Find(client[c].id)
       IN /\ IF n = 0
             THEN trans' = SweptTo(n) /\ UNCHANGED <<tree, changed>>
             ELSE /\ tree' = Merge(tree, trans[n].config)
                  /\ changed' = TRUE
                  /\ trans' = [SweptTo(n) EXCEPT ![n] = FreeSlot]
          /\ reply' = Reply("commit", c, n # 0, NoId, NoId)
    /\ IsOver(c)
    /\ UNCHANGED <<backend, at, disk, now, collided, durable, torn>>

\* Mutant: the slot is not freed.
RollbackKeepsSlot(c) ==
    /\ Request(c) /\ Holds(c)
    /\ LET n == Find(client[c].id)
       IN trans' = SweptTo(n) /\ reply' = Reply("rollback", c, n # 0, NoId, NoId)
    /\ IsOver(c)
    /\ UNCHANGED <<backend, at, tree, changed, disk, now, collided, durable, torn>>

\* rollbackConfigTreeTransaction
RollbackTransaction(c) ==
    /\ Request(c) /\ Holds(c)
    /\ LET n == Find(client[c].id)
       IN /\ trans' = IF n = 0 THEN SweptTo(n) ELSE [SweptTo(n) EXCEPT ![n] = FreeSlot]
          /\ reply' = Reply("rollback", c, n # 0, NoId, NoId)
    /\ IsOver(c)
    /\ UNCHANGED <<backend, at, tree, changed, disk, now, collided, durable, torn>>

\* A client ends, or gives up a transaction, without a word to the daemon.
Abandon(c) ==
    /\ Holds(c)
    /\ client' = [client EXCEPT ![c] = NoTransaction]
    /\ reply' = NoReply
    /\ UNCHANGED <<backend, at, tree, changed, trans, disk, now, collided, begun, durable, torn,
                   spent>>

Tick ==
    /\ now < MaxTime
    /\ now' = now + 1
    /\ reply' = NoReply
    /\ UNCHANGED <<backend, at, tree, changed, trans, disk, client, collided, begun, durable,
                   torn, spent>>
-----------------------------------------------------------------------------
(* The daemon starts, ends and is killed.                                  *)

\* What a start of the daemon would load.
Stored == IF backend = "file" THEN Load(Content(disk.conf)) ELSE disk.db

\* _initConfigTree with loadConfigFromPersistency, which creates a missing file.
Start ==
    /\ at = "down"
    /\ at' = "up"
    /\ tree' = Stored
    /\ changed' = FALSE
    /\ trans' = [i \in Slots |-> FreeSlot]
    /\ disk' = IF backend = "file" THEN [disk EXCEPT !.conf = Content(@)] ELSE disk
    /\ reply' = NoReply
    /\ UNCHANGED <<backend, now, client, collided, begun, durable, torn, spent>>

\* The memory of the daemon is gone: it does not know its transactions any more.
Forget ==
    /\ tree' = NoTree
    /\ changed' = FALSE
    /\ trans' = [i \in Slots |-> FreeSlot]
    /\ client' = [c \in Clients |-> [client[c] EXCEPT !.known = FALSE]]
    /\ begun' = {}

\* finiConfigTree; saveConfigToPersistency is the steps below.
Stop ==
    /\ at = "up"
    /\ IF changed
       THEN /\ at' = "save"
            /\ trans' = [i \in Slots |-> FreeSlot]
            /\ client' = [c \in Clients |-> [client[c] EXCEPT !.known = FALSE]]
            /\ begun' = {}
            /\ UNCHANGED <<tree, changed>>
       ELSE at' = "down" /\ Forget
    /\ reply' = NoReply
    /\ UNCHANGED <<backend, disk, now, collided, durable, torn, spent>>

\* _writeKeyValueToFilePersistency up to the closing of the temporary file.  A
\* write may fail: then the save is given up, or, when the error only shows in the
\* fclose, whose result is ignored, it goes on.
WriteTemp ==
    LET lines == SavedLines(Content(disk.conf), tree)
        Written(ls) == [conf |-> Content(disk.conf), db |-> disk.db,
                        temp |-> AppendLines(Content(disk.temp), ls)]
    IN /\ at = "save" /\ backend = "file"
       /\ \/ /\ at' = "remove"
             /\ disk' = Written(lines)
             /\ UNCHANGED <<tree, changed, trans, client, begun, torn, spent>>
          \/ /\ spent.mishaps < MaxMishaps
             /\ spent' = [spent EXCEPT !.mishaps = @ + 1]
             /\ \E ls \in WrittenPrefixes(lines) : disk' = Written(ls)
             /\ \/ at' = "down" /\ Forget /\ torn' = (torn \/ CutAtEnd(disk'.temp))
                \/ at' = "remove" /\ torn' = TRUE
                   /\ UNCHANGED <<tree, changed, trans, client, begun>>
       /\ UNCHANGED <<backend, now, reply, collided, durable>>

\* jf_file_remove of the original file
RemoveConf ==
    /\ at = "remove"
    /\ at' = "rename"
    /\ disk' = [disk EXCEPT !.conf = NoFile]
    /\ UNCHANGED <<backend, tree, changed, trans, now, client, reply, collided, begun,
                   durable, torn, spent>>

\* jf_file_rename of the temporary file, and the end of finiConfigTree.
RenameTemp ==
    /\ at = "rename"
    /\ at' = "down" /\ Forget
    /\ disk' = [disk EXCEPT !.conf = disk.temp, !.temp = NoFile]
    /\ durable' = tree
    /\ UNCHANGED <<backend, now, reply, collided, torn, spent>>

\* _saveConfigToPersistency with sqlitepersistency.c: one transaction of the
\* database.  The statement built around a value with a quote fails, and with it
\* the transaction.
SaveSqlite ==
    /\ at = "save" /\ backend = "sqlite"
    /\ at' = "down" /\ Forget
    /\ IF \E k \in DOMAIN tree : tree[k] \in Quoted
       THEN UNCHANGED <<disk, durable>>
       ELSE disk' = [disk EXCEPT !.db = Merge(@, tree)] /\ durable' = Merge(disk.db, tree)
    /\ UNCHANGED <<backend, now, reply, collided, torn, spent>>

\* The process is killed.  The temporary file has what was flushed by then.
Crash ==
    /\ at # "down" /\ spent.mishaps < MaxMishaps
    /\ spent' = [spent EXCEPT !.mishaps = @ + 1]
    /\ at' = "down" /\ Forget
    /\ \/ UNCHANGED disk
       \/ /\ at = "save" /\ backend = "file"
          /\ \E ls \in WrittenPrefixes(SavedLines(Content(disk.conf), tree)) :
               disk' = [disk EXCEPT !.temp = AppendLines(Content(@), ls)]
    /\ torn' = (torn \/ at = "rename" \/ CutAtEnd(disk'.temp))
    /\ reply' = NoReply
    /\ UNCHANGED <<backend, now, collided, durable>>
-----------------------------------------------------------------------------
Init ==
    /\ backend \in {"file", "sqlite"}
    /\ at = "down"
    /\ tree = NoTree
    /\ changed = FALSE
    /\ trans = [i \in Slots |-> FreeSlot]
    /\ \E f \in InitFiles :
         disk = IF backend = "file" THEN [conf |-> f, temp |-> NoFile, db |-> NoTree]
                ELSE [conf |-> NoFile, temp |-> NoFile, db |-> Load(Content(f))]
    /\ now = 0
    /\ client = [c \in Clients |-> NoTransaction]
    /\ reply = NoReply
    /\ collided = FALSE
    /\ begun = {}
    /\ durable = Stored
    /\ torn = FALSE
    /\ spent = [requests |-> 0, mishaps |-> 0]

Serve ==
    \E c \in Clients :
      \/ StartTransaction(c) \/ CommitTransaction(c) \/ RollbackTransaction(c) \/ Abandon(c)
      \/ \E k \in Keys : Get(c, k)
      \/ \E k \in Keys, v \in Values : SetDirect(c, k, v) \/ SetInTransaction(c, k, v)

Save == WriteTemp \/ RemoveConf \/ RenameTemp \/ SaveSqlite

Next == Serve \/ Tick \/ Start \/ Stop \/ Save \/ Crash

Spec == Init /\ [][Next]_vars
-----------------------------------------------------------------------------
(* Properties.                                                             *)

Slot == [id : Ids, config : Table \cup {NoTree}, start : 0 .. now]
Transaction == [id : Ids \cup {NoId}, wrote : Table, began : 0 .. now, known : BOOLEAN]
File == Seq(LineType) \cup {NoFile}

\* The type invariant of the tree, the transactions and the files.
TypeOK ==
    /\ backend \in {"file", "sqlite"}
    /\ at \in {"down", "up", "save", "remove", "rename"}
    /\ tree \in Table \cup {NoTree} /\ (tree = NoTree <=> at = "down")
    /\ changed \in BOOLEAN /\ collided \in BOOLEAN /\ torn \in BOOLEAN
    /\ trans \in [Slots -> Slot]
    /\ disk \in [conf : File, temp : File, db : Table \cup {NoTree}]
    /\ now \in Nat
    /\ client \in [Clients -> Transaction]
    /\ durable \in Table
    /\ spent \in [requests : Nat, mishaps : Nat]

Live(c) == client[c].known /\ client[c].began + TimeOut >= now
Requested == spent'.requests # spent.requests

\* What a request answers and does to the tree, against what its client wrote.
IsolatedStep ==
    Requested /\ ~collided' =>
        LET c == reply'.c
            k == reply'.key
            seen == IF Live(c) /\ k \in DOMAIN client[c].wrote
                    THEN client[c].wrote[k] ELSE tree[k]
        IN /\ reply'.op = "commit" =>
                /\ reply'.ok = Live(c)
                /\ tree' = IF Live(c) THEN Merge(tree, client[c].wrote) ELSE tree
           /\ reply'.op = "rollback" => reply'.ok = Live(c)
           /\ reply'.op = "get" => /\ reply'.ok = (k \in DOMAIN tree)
                                   /\ reply'.ok => reply'.value = seen
           /\ reply'.op = "set" =>
                /\ reply'.ok = (k \in DOMAIN tree /\ (Holds(c) => Live(c)))
                /\ reply'.ok /\ ~Holds(c) => tree'[k] = reply'.value
           /\ tree' # tree => reply'.op = "commit" \/ (reply'.op = "set" /\ ~Holds(c))

\* Transactions are isolated and atomic: what a client set in its transaction is
\* seen by its own gets and by nobody else until its commit succeeds, and then all
\* of it is in the tree at once; commit, rollback and set succeed exactly until the
\* transaction is over or timed out.  Nothing else but a set outside a transaction
\* changes the tree.  This is so as long as no id is drawn twice, or drawn as 0.
Isolated == [][IsolatedStep]_vars

\* A refused start against the transactions that have begun.
RefusedStep ==
    Requested /\ reply'.op = "start" /\ ~reply'.ok /\ ~collided =>
        Cardinality({b \in begun : b.start + TimeOut >= now}) >= MaxNumOfTransaction

\* No slot is lost: a transaction is refused only while MaxNumOfTransaction others
\* have begun and are neither committed, nor rolled back, nor timed out, whatever
\* clients have gone away without a word.
RefusedOnlyWhenBusy == [][RefusedStep]_vars

\* What a restart would load is the configuration saved last, but for what the
\* comment sign cuts off, at every moment at which the daemon may be killed; all of
\* it or nothing.  Not covered: the moment between remove and rename, and a kill or
\* a failed write that leaves the temporary file with half a line.
AsSaved == [k \in DOMAIN durable |->
               IF backend = "file" THEN AsRead[durable[k]] ELSE durable[k]]
DiskIsDurable == at # "rename" /\ ~torn => Stored = AsSaved

\* The state of the daemon and the files it would be restarted from
\* (configtree.c, configpersistency.c).
ConfigSound == TypeOK /\ DiskIsDurable

\* Violated: what jf_persistency_commitTransaction saved is what is loaded.
SavedIsLoaded == at # "rename" /\ ~torn => Stored = durable
=============================================================================
