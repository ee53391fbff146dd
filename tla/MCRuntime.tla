----------------------------- MODULE MCRuntime ------------------------------
(***************************************************************************)
(* The parts of the library and of the daemons that live in memory, one by *)
(* one: the jiukun allocator, the containers, the locks, the timed tasks,  *)
(* the state machine, the web client, the messaging library and logging.   *)
(* They share no state here: a behaviour is one of one of them, which part *)
(* names.  The variables of jiukun have their own names; v1, v2, ... are   *)
(* those of the others.                                                    *)
(***************************************************************************)
EXTENDS Jiukun, TLC

VARIABLES
    part, \* the component, for a whole behaviour
    v1, v2, v3, v4, v5, v6, v7, v8, v9, v10, v11, v12, v13, v14, v15
                        \* its variables, in the order of its module

parts == <<v1, v2, v3, v4, v5, v6, v7, v8, v9, v10, v11, v12, v13, v14, v15>>
state == <<part, vars, parts>>

\* The sizes of the objects of the caches: a page holds the descriptors of the two
\* general caches and no other, and a large object has its slab_t off the slab.
Sizes == [cc |-> 27, small |-> 6, large |-> 128, user |-> 32]

Generals == <<"small", "large">>

ListKinds == {"listhead", "hlist", "dlinklist", "linklist", "queue", "stack", "array"}

\* The names a property tree is asked for, and the leaves of two files.
Field(ns, name) == [ns |-> ns, name |-> name]
PtKeys == {<<Field("", "a")>>, <<Field("", "a"), Field("", "b")>>}
PtAttrs == {[prefix |-> "", name |-> "xmlns"], [prefix |-> "xmlns", name |-> "n"]}
PtLeaves ==
    LET b == [key |-> <<Field("", "a"), Field("", "b")>>, value |-> 2]
        nb == [key |-> <<Field("", "a"), Field("n", "b")>>, value |-> 1]
    IN  {<<b, nb>>, <<nb, b>>}

\* A player: off or on, and while on idle or playing.
Row(from, event, guard, to) == [from |-> from, event |-> event, guard |-> guard, to |-> to]
HsmTables ==
    [top |-> <<Row("off", "power", "none", "on"), Row("on", "power", "g", "off"),
               Row("on", "reset", "none", "same")>>,
     on |-> <<Row("idle", "play", "g", "playing"), Row("playing", "play", "none", "idle"),
              Row("playing", "reset", "none", "idle")>>]

\* The config files of messaging services: a good one, and one for each refusal.
GoodFile ==
    [regular |-> TRUE, xml |-> TRUE, wellFormed |-> TRUE,
     nodes |-> {"version", "serviceName", "userName", "messagingIn", "messagingOut",
                "maxNumMsg", "maxMsgSize", "publishedMessage", "subscribedMessage"},
     numMsg |-> 5, msgSize |-> 9, pub |-> <<"1", "2">>, sub |-> <<"3">>]
ServiceFiles ==
    {GoodFile, [GoodFile EXCEPT !.regular = FALSE], [GoodFile EXCEPT !.xml = FALSE],
     [GoodFile EXCEPT !.wellFormed = FALSE], [GoodFile EXCEPT !.numMsg = 0],
     [GoodFile EXCEPT !.msgSize = 11], [GoodFile EXCEPT !.nodes = @ \ {"userName"}],
     [GoodFile EXCEPT !.nodes = @ \ {"subscribedMessage"}], [GoodFile EXCEPT !.sub = <<>>],
     [GoodFile EXCEPT !.sub = <<"bad">>], [GoodFile EXCEPT !.pub = <<"1", "bad", "2">>]}

\* How the log server starts: where it logs, the locations that cannot be opened, and
\* the step that fails.
LogStarts ==
    {[on |-> {"tty", "file"}, bad |-> {}, step |-> "none"],
     [on |-> {"file"}, bad |-> {"file"}, step |-> "none"]}
    \cup {[on |-> {"tty", "file"}, bad |-> {"tty"}, step |-> s] :
            s \in {"directory", "thread", "assocket"}}

-----------------------------------------------------------------------------

Li == INSTANCE Lists WITH
    Entries <- 1..3, Heads <- {11, 12}, Data <- {21, 22}, Kinds <- ListKinds,
    kind <- v1, link <- v2, hlink <- v3, mem <- v4, lst <- v5, seqs <- v6

Ht == INSTANCE HashTable WITH
    Keys <- 1..4, Entry <- {1, 2}, HashKey <- <<4, -7, 11, 25>>,
    HashTreeValue <- <<5, 5, 6, 6>>, Primes <- <<3, 7>>, MaxMisfreed <- 2,
    table <- v1, entries <- v2, held <- v3, misfreed <- v4, tree <- v5, treeData <- v6

Ve == INSTANCE Vectors WITH
    MaxEntry <- 3, BufSizes <- {1, 2}, MaxCopy <- 4, UnitBits <- 3, Units <- 2,
    vec <- v1, given <- v2, ba <- v3, bits <- v4, old <- v5, side <- v6

Pt == INSTANCE Ptree WITH
    Ids <- 1..3, Keys <- PtKeys, Values <- {1}, NoValue <- 0,
    AttrNames <- PtAttrs, MaxAttrCalls <- 4, MaxAttrNodes <- 2, AttrValues <- {1, 2},
    Leaves <- PtLeaves, mem <- v1, root <- v2, text <- v3, declared <- v4, built <- v5,
    changed <- v6, last <- v7, side <- v8, stored <- v9, calls <- v10

Sy == INSTANCE Sync WITH
    Threads <- {"t1", "t2", "t3"}, WritePriority <- TRUE, InitialCount <- 1,
    MinRes <- 1, MaxRes <- 2, Res <- 1..3, NoThread <- None, side <- v1, rw <- v2,
    at <- v3, sem <- v4, undo <- v5, sems <- v6, pool <- v7, pc <- v8, got <- v9

Ta == INSTANCE Attask WITH
    Items <- 1..3, Tasks <- {11, 12}, Delays <- 0..2, AddsAgain <- {12},
    DefBlockTime <- 5, MaxTime <- 4, item <- v1, head <- v2, clock <- v3, block <- v4,
    pending <- v5

Hs == INSTANCE Hsm WITH
    Tables <- HsmTables, InitialState <- [top |-> "off", on |-> "idle"],
    Callbacks <- {"off", "on"}, TopState <- "top", NoState <- "same",
    Events <- {"power", "play", "reset"}, MaxEvents <- 8, cur <- v1, log <- v2,
    seen <- v3

Wc == INSTANCE WebClient WITH
    Servers <- {"s1", "s2"}, NoServer <- None, Reqs <- {"r1", "r2"}, Deletes <- {},
    Target <- [r1 |-> "s1", r2 |-> "s2"], PoolSize <- 1, NoObject <- None,
    NoConn <- None, MayRefuse <- {}, MaxFaults <- 1, call <- v1, wq <- v2, obj <- v3,
    timer <- v4, pool <- v5, as <- v6, wake <- v7, chain <- v8, ready <- v9, net <- v10,
    faults <- v11, event <- v12

Wq == INSTANCE WebClient WITH
    Servers <- {"s1"}, NoServer <- None, Reqs <- {"r1", "r2"}, Deletes <- {},
    Target <- [r1 |-> "s1", r2 |-> "s1"], PoolSize <- 1, NoObject <- None,
    NoConn <- None, MayRefuse <- {"s1"}, MaxFaults <- 1, call <- v1, wq <- v2,
    obj <- v3, timer <- v4, pool <- v5, as <- v6, wake <- v7, chain <- v8, ready <- v9,
    net <- v10, faults <- v11, event <- v12

Wd == INSTANCE WebClient WITH
    Servers <- {"s1"}, NoServer <- None, Reqs <- {"r1"}, Deletes <- {"d1"},
    Target <- [r1 |-> "s1", d1 |-> "s1"], PoolSize <- 1, NoObject <- None,
    NoConn <- None, MayRefuse <- {"s1"}, MaxFaults <- 1, call <- v1, wq <- v2,
    obj <- v3, timer <- v4, pool <- v5, as <- v6, wake <- v7, chain <- v8, ready <- v9,
    net <- v10, faults <- v11, event <- v12

Ms == INSTANCE Messaging WITH
    QueueSize <- 2, U32Size <- 16, BufSize <- 3, PayloadSizes <- {0, 2, 3},
    PayloadReads <- {2}, MaxSent <- 3,
    FileKinds <- ServiceFiles, MaxFiles <- 2, MaxNumOfMsg <- 5, MaxMsgSize <- 10,
    mside <- v1, sent <- v2, net <- v3, buf <- v4, queue <- v5, sem <- v6, prod <- v7,
    worker <- v8, life <- v9, entered <- v10, lost <- v11, done <- v12, configs <- v13,
    objects <- v14, dir <- v15

Lg == INSTANCE Logging WITH
    Threads <- {"t1", "t2"}, Owner <- [t1 |-> "p", t2 |-> "q"],
    LogsPerThread <- [t1 |-> 1, t2 |-> 1], RetryCount <- 2, MsgCells <- 2,
    MaxConns <- 2, CacheTime <- 1, StopWait <- 2, MaxDelay <- 1, MaxTime <- 4,
    Starts <- LogStarts,
    LevelNames <- <<"NONE", "ERROR", "WARN", "INFO", "DEBUG", "DATA">>, MaxLocal <- 4,
    side <- v1, clock <- v2, thr <- v3, sock <- v4, made <- v5, conns <- v6, main <- v7,
    save <- v8, saved <- v9, accepted <- v10, logger <- v11

Lo == INSTANCE Logging WITH
    Threads <- {"t1", "t2"}, Owner <- [t1 |-> "p", t2 |-> "q"],
    LogsPerThread <- [t1 |-> 2, t2 |-> 0], RetryCount <- 2, MsgCells <- 2,
    MaxConns <- 2, CacheTime <- 1, StopWait <- 2, MaxDelay <- 1, MaxTime <- 4,
    Starts <- LogStarts,
    LevelNames <- <<"NONE", "ERROR", "WARN", "INFO", "DEBUG", "DATA">>, MaxLocal <- 4,
    side <- v1, clock <- v2, thr <- v3, sock <- v4, made <- v5, conns <- v6, main <- v7,
    save <- v8, saved <- v9, accepted <- v10, logger <- v11

-----------------------------------------------------------------------------
\* The component has the first n variables only.
Only(n) ==
    /\ IF n < 1 THEN v1 = 0 ELSE TRUE
    /\ IF n < 2 THEN v2 = 0 ELSE TRUE
    /\ IF n < 3 THEN v3 = 0 ELSE TRUE
    /\ IF n < 4 THEN v4 = 0 ELSE TRUE
    /\ IF n < 5 THEN v5 = 0 ELSE TRUE
    /\ IF n < 6 THEN v6 = 0 ELSE TRUE
    /\ IF n < 7 THEN v7 = 0 ELSE TRUE
    /\ IF n < 8 THEN v8 = 0 ELSE TRUE
    /\ IF n < 9 THEN v9 = 0 ELSE TRUE
    /\ IF n < 10 THEN v10 = 0 ELSE TRUE
    /\ IF n < 11 THEN v11 = 0 ELSE TRUE
    /\ IF n < 12 THEN v12 = 0 ELSE TRUE
    /\ IF n < 13 THEN v13 = 0 ELSE TRUE
    /\ IF n < 14 THEN v14 = 0 ELSE TRUE
    /\ IF n < 15 THEN v15 = 0 ELSE TRUE

MCInit ==
    /\ Init
    /\ \/ part = "jiukun" /\ Only(0)
       \/ part = "lists" /\ Li!ListsInit /\ Only(6)
       \/ part = "hash" /\ Ht!HashInit /\ Only(6)
       \/ part = "vectors" /\ Ve!VectorsInit /\ Only(6)
       \/ part = "ptree" /\ Pt!PtreeInit /\ Only(10)
       \/ part = "sync" /\ Sy!SyncInit /\ Only(9)
       \/ part = "attask" /\ Ta!AttaskInit /\ Only(5)
       \/ part = "hsm" /\ Hs!Init /\ Only(3)
       \/ part = "webclient" /\ Wc!Init /\ Only(12)
       \/ part = "web_queue" /\ Wq!Init /\ Only(12)
       \/ part = "web_delete" /\ Wd!Init /\ Only(12)
       \/ part = "messaging" /\ Ms!MessagingInit
       \/ part = "logging" /\ Lg!LoggingInit /\ Only(11)
       \/ part = "log_order" /\ Lo!LoggingInit /\ Only(11)

\* The variables that a component with so many variables does not have.
after3 == <<v4, v5, v6, v7, v8, v9, v10, v11, v12, v13, v14, v15>>
after5 == <<v6, v7, v8, v9, v10, v11, v12, v13, v14, v15>>
after6 == <<v7, v8, v9, v10, v11, v12, v13, v14, v15>>
after9 == <<v10, v11, v12, v13, v14, v15>>
after10 == <<v11, v12, v13, v14, v15>>
after11 == <<v12, v13, v14, v15>>
after12 == <<v13, v14, v15>>

MCNext ==
    \/ part = "jiukun" /\ Next /\ UNCHANGED <<part, parts>>
    \/ part = "lists" /\ Li!ListsNext /\ UNCHANGED <<part, vars, after6>>
    \/ part = "hash" /\ Ht!HashNext /\ UNCHANGED <<part, vars, after6>>
    \/ part = "vectors" /\ Ve!VectorsNext /\ UNCHANGED <<part, vars, after6>>
    \/ part = "ptree" /\ Pt!PtreeNext /\ UNCHANGED <<part, vars, after10>>
    \/ part = "sync" /\ Sy!SyncNext /\ UNCHANGED <<part, vars, after9>>
    \/ part = "attask" /\ Ta!AttaskNext /\ UNCHANGED <<part, vars, after5>>
    \/ part = "hsm" /\ Hs!Next /\ UNCHANGED <<part, vars, after3>>
    \/ part = "webclient" /\ Wc!Next /\ UNCHANGED <<part, vars, after12>>
    \/ part = "web_queue" /\ Wq!Next /\ UNCHANGED <<part, vars, after12>>
    \/ part = "web_delete" /\ Wd!Next /\ UNCHANGED <<part, vars, after12>>
    \/ part = "messaging" /\ Ms!MessagingNext /\ UNCHANGED <<part, vars>>
    \/ part = "logging" /\ Lg!LoggingNext /\ UNCHANGED <<part, vars, after11>>
    \/ part = "log_order" /\ Lo!LoggingNext /\ UNCHANGED <<part, vars, after11>>

MCSpec == MCInit /\ [][MCNext]_state

Symmetry == Permutations(Threads)

-----------------------------------------------------------------------------
\* The allocator: jf_jiukun_allocMemory, allocPage, the caches and the reaper keep
\* every page in one block and every object free or with one user, whatever two threads
\* do, unless a page was merged while its allocation was not finished (raced).
JiukunSound ==
    part = "jiukun" =>
        /\ TypeOK /\ PagesTiled /\ ObjectsExact /\ SlabOnItsList
        /\ NoFreeToDestroyed

\* The containers hold exactly what was put into them and in its order: the lists,
\* queues, stacks and arrays, the hash table with its rehash and the hash tree, the
\* vector with its growth, and the bit array.
ContainersExact ==
    /\ part = "lists" => Li!ListsExact
    /\ part = "hash" => Ht!TableExact
    /\ part = "vectors" => Ve!VectorExact /\ Ve!BitsExact

\* The property tree stays a tree whose links agree, and a lookup finds the node that
\* has the name (jf_ptree_findNode, replaceNode, changeNodeValue, deleteNode).
PtreeExact == part = "ptree" => Pt!PtreeShape /\ Pt!PtreeLookups

\* The read-write lock excludes writers, the semaphore counts, and the resource pool
\* gives a resource to one user at a time.
SyncSound == part = "sync" => Sy!RwlockSound /\ Sy!SemaphoreExact /\ Sy!PoolExact

\* The attask list is sorted by due time and has exactly the tasks that are pending
\* (jf_attask_addItem, removeItem, check).
TasksExact == part = "attask" => Ta!TasksExact

\* The state machine: callbacks follow the current state, and a state that is entered
\* starts its own table at the initial state (_postHsmStateTransition).
HsmSound ==
    [][part = "hsm" => Hs!CallbacksFollowState' /\ Hs!EntersAtInitial]_state

\* The web client: the pool's connections agree with its web data objects, a request
\* is answered or deleted once, and none is left behind without anyone to send it.
WebClientSound ==
    /\ part = "webclient" =>
        Wc!TypeOK /\ Wc!ConnectionsAgree /\ Wc!AccountedOnce /\ Wc!NotStranded
    /\ part = "web_queue" =>
        Wq!TypeOK /\ Wq!ConnectionsAgree /\ Wq!AccountedOnce /\ Wq!NotStranded
    /\ part = "web_delete" =>
        Wd!TypeOK /\ Wd!ConnectionsAgree /\ Wd!AccountedOnce /\ Wd!NotStranded

\* The messaging library: the worker is woken for every message that entered the
\* queue, and the config files that are accepted are exactly the good ones.
MessagingSound == part = "messaging" => Ms!WorkerServesAll /\ Ms!ConfigsExact

\* Logging: what a thread logs reaches the file in its order and once, the log server's
\* thread is gone before its data, and a local log is written exactly when the
\* trace level lets it through.
LoggingSound ==
    /\ part = "logging" =>
        /\ Lg!SavedInOrder /\ Lg!LogsExact /\ Lg!ThreadGoneAtFini /\ Lg!LocalLogsExact
    /\ part = "log_order" =>
        /\ Lo!SavedInOrder /\ Lo!LogsExact /\ Lo!ThreadGoneAtFini /\ Lo!LocalLogsExact

=============================================================================
