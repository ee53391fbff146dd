# A TLA+ model of Jiufeng

Jiufeng is a C base library with four daemons on top of it. This directory
models its concurrent core (the network chain and its timers, the pools of
asynchronous sockets, the message queues and transfers, the dispatcher, the
service management, the configuration and the log daemon, the web client and the
memory allocator) and the algorithms of its libraries (containers, locks, parsers,
encodings, dates, the command line engine, persistency and archives). TLC checks
the models on small instances; TLAPS proves the theorems in the `*Proofs` modules
for every value of the constants.

    tlc -config MCUtimer.cfg Utimer          # one run
    tlapm DispatcherProofs.tla               # one proof module

`PROJECT.json` lists the components, the runs, the hazards, the findings, the
theorems, and for each definition the source lines it stands for.

## 1. The system

| Part | Source | What it keeps | Who touches it |
|------|--------|---------------|----------------|
| network chain | `network/chain.c` | list of chain objects, wakeup socket pair, stop flag | the chain thread; any thread wakes it up or stops it |
| utimer | `network/utimer.c` | list of items sorted by expiry, lock | any thread adds and removes, the chain thread fires |
| async sockets | `network/asocket.c`, `assocket.c`, `acsocket.c`, `jiutai/jf_listarray.h` | pool with a free list, receive buffer, list of pending sends | the chain thread, and callbacks in it |
| priority queue | `dispatcher/common/prioqueue.c` | list of messages, three u32 counters, a limit | producers and the chain thread, under the owner's lock |
| dispatcher xfer | `dispatcher/xfer/` | queue, pool of connections with a state machine (`jiutai/jf_hsm.c`), pending message, retry timer | producers and the chain thread |
| dispatcher daemon | `dispatcher/daemon/`, `dispatcher/common/` | queue of messages, semaphore, service ids, one client per service | server chain thread, dispatcher thread, client chain thread |
| messaging library | `dispatcher/messaging/` | queues and threads of the application side | application threads |
| service management | `servmgmt/daemon/` | services with status, handle, restart count; setting file | main thread, signal thread, child processes |
| configuration manager | `configmgr/daemon/`, `persistency/`, `files/conffile.c` | configuration tree, transactions, configuration file | chain thread |
| log server, logger | `logserver/`, `logger/` | log files, sorted cache of logs, sockets of the processes | chain thread, saving thread, applications |
| web client, HTTP parser | `webclient/`, `httpparser/` | data objects per server, request queues, idle timers | application threads, chain thread |
| memory allocator | `jiukun/` | buddy zones, slab caches | any thread, under locks |
| containers, locks, tasks | `jiutai/` | lists, hash tables, trees, rwlock, resource pool, task queue | the caller, or several threads |
| the rest | `string/`, `encode/`, `crypto/`, `xmlparser/`, `files/`, `uuid/`, `ifmgmt/`, `archive/`, `clieng/`, `matrix/` | mostly pure conversions, calls of the operating system | the caller |

How they interact. A daemon owns one or two chains. Everything a daemon does
with sockets and timers happens in the thread that runs `jf_network_startChain`:
in each iteration the chain calls the pre-select handler of each object, calls
`select`, and calls the post-select handlers. Other threads put work into a list
under a lock and write one byte to the wakeup socket. In the dispatcher daemon a
message goes from an async server socket (server chain) through the daemon's
queue and a semaphore to the dispatcher thread, and from there into the priority
queue of each subscriber, whose xfer pool (client chain) sends it.

What is hard about it: wakeups that come between a test and `select`; items that
leave a list before they fire; connections lost in the middle of a message;
counters shared by threads without a lock; SIGCHLDs merged into one; delayed
restarts that race requests; and queues at their limit. `PROJECT.json` lists
these hazards with the lines at which they arise and the properties about them.

## 2. Modules and code

The daemons and the network core:

| Module | Models | State | Actions |
|--------|--------|-------|---------|
| `PrioQueueOps` | `prioqueue.c`, `jf_queue.c` | (operators) a record of the list and the three counters modulo `U32` | enqueue with eviction or refusal, dequeue, peek |
| `PrioQueue` | the queue as a machine | `pq`, messages sent and taken, outcome of the last call | `EnqueueMsg`, `DequeueMsg` |
| `MsgRef` | `dm_nRef` of one message | the counter, who holds the message, what each of two threads has loaded | load, store and re-read as separate steps of the dispatcher thread and the client chain thread |
| `XferPool` | `xferpool.c` on a chain | pool and object states, queue, pending message and bytes sent, timer items, wakeup bytes, the connection as seen from outside | one per handler of the chain loop, per producer call, and per event of the network |
| `Utimer` | `chain.c`, `utimer.c` | sorted list, collected list, clock, wakeup bytes, position of the chain thread | add and remove in their lock-sized steps, collect, fire, select, read wakeups |
| `ListArray` | `jf_listarray.h` | (operators) head and next indices | init, get, put |
| `Assocket` | `asocket.c`, `assocket.c` | free list, sockets of the pool, buffers, pending sends, peers | one per pre-select and post-select handler, connect, data and close of a peer |
| `WebClient` | `webclient/`, `acsocket.c`, the connecting side of `asocket.c` | data objects per server, their request queues and timers, the pool of connections, the wakeup flag, position of the callers | a caller's check, enqueue and wakeup as separate steps; the chain thread's pre-select, post-select and timers; outcome of a connect, answer, close; destruction |
| `Hsm` | `jf_hsm.c` | current state of each table, log of callbacks | `ProcessEvent`; `WebClient` uses its operators |
| `Dispatcher` | `dispatcher/daemon` | queue of the daemon, semaphore, service ids, clients with `PrioQueueOps` queues, log of what was sent and delivered | one per step of the three threads, restart of a service, stop |
| `Messaging` | `dispatcher/messaging`, `serviceconfig.c` | stream from the daemon, queue, semaphore, worker thread; list of configurations and allocated objects | receiving and cutting the stream, a producer's enqueue and up, the worker's steps, stop; one per file of the directory |
| `ServMgmt` | `servmgmt/daemon` | services with their processes, utimer items, SIGCHLD flag, setting file, position of the main thread | start of all, SIGCHLD, check of children, delayed start, three requests, the end of the daemon, exits |
| `ConfigMgr` | `configmgr/daemon`, the save of `persistency/` | configuration tree, array of transactions, the two files or the table, ids the clients hold | one per request, load at the start, the steps of a save at the end, a kill, the clock |
| `Logging` | `logger/`, `logserver/daemon` | sockets of the processes, connections, sorted queue of logs, saving thread, main thread; the local logger | stamp, connect, send and retry of a thread; receive, save, stop; open, log and close of a local logger |
| `Jiukun` | `jiukun/` | zones with free lists, caches with their slabs and locks, one stack of frames per thread | one per lock-sized step of allocating, freeing, growing, reaping, creating and destroying |
| `Sync` | `jf_rwlock.c`, `jf_sem.c`, `jf_respool.c` | counters and events of the lock, semaphore with undo counts, resources | one per critical section, timeouts, a dying process |

The libraries, each compared with what its caller expects (a ghost sequence, map or
tree) or with a reference definition:

| Module | Models | Compared with |
|--------|--------|---------------|
| `Lists` | seven kinds of lists in `jiutai/`, pointer by pointer | the sequence that was built |
| `HashTable` | `jf_hashtable.c` with rehashing, `jf_hashtree.c` | a map |
| `Vectors` | `jf_datavec.h`, `jf_bitarray.h` | a byte stream, a number |
| `Ptree` | `jf_ptree.c` | the paths of the tree |
| `Attask` | `jf_attask.c` with callbacks that add tasks | the set of pending tasks |
| `HttpParser` | `dataobject.c`, `chunkprocessor.c`, receive loops | the body that was sent |
| `HttpText` | packet headers, escaping and URIs of `httpparser.c` | what was set |
| `StringOps`, `Strings` | `string/`, `jf_option.c` | the text before an edit, definitions by position |
| `Xml` | `xmlparser/` | the trees of a grammar |
| `Codec` | `encode/`, `jf_hex.c` | the data; the optimal cost of a code |
| `Crypto` | blocking, padding and counting in `crypto/` | the message cut at once |
| `Calendar`, `Uuid` | `jf_date.c`, `jf_time.c`, `uuid/` | a calendar that runs day by day; the order of the ids |
| `Clieng` | `clieng/` | the line its keys make, the last commands, the words of a line |
| `Persistency` | `persistency/`, `jf_sqlite.c`, `conffile.c` | a store with transactions |
| `Archive` | `archive/` | the list of members that were added |

A step is what the code does without giving another thread a chance: a critical
section, a system call, or a handler whose data only its own thread sees. A
handler is one action with all its calls. Message contents, names, addresses and
log text are left out. An error of a system call is a choice, counted by
`MaxFaults`. u32 counters are taken modulo `U32`, and small values of `U32` let
TLC reach the wraparound. A pure function is an operator; one that can fail returns
a set, empty on failure.

Several components can share a run. `MCMessages`, `MCRuntime` and `MCData` have a
variable `part`, chosen in the initial state; only the chosen component moves, so
the components do not multiply each other's states. In `MCRuntime` and `MCData` the
components are instances over the generic variables `v1`, `v2`, and so on; `Jiukun`
is extended. `MCConfigMgr` uses `part` to choose between many requests to a daemon
that keeps running and fewer to one that ends and is killed.

## 3. Runs

| Run | Checks | Bounds |
|-----|--------|--------|
| `messages` | priority queue: `CountersAddUp`, `FifoOrder`, `DropOnlyWhenFull`; reference number: `RefsExact`; `MessagesSound`: the types, the bound of the queue, and for the xfer pool order, connections that match the state and messages that a pause does not tear | queue of 2, 7 messages (evictions take the counters through 0 and around), counters of 2 bits; 3 services; 2 producers, 2 addresses, 2 faults, 1 partial send, 1 pause |
| `xfer_pool` | `PoolSound`, `WakeupDrains`, `ConnectionRecovers` | 1 producer, 1 address, 2 messages, 2 faults, backoff of 2 steps |
| `utimer` | `TimersSound` (each item fires once, in order, never early, and the chain never oversleeps), `EventuallyFires`, `StopEnds` | 2 threads, 2 items, delays 0 and 1, clock to 2, one failing `select` |
| `assocket` | `ServerSound` (free list, right peer, one answer, no byte lost), `RefusedIsHarmless`, `ServedAndReleased` | 2 peers, pool of 1 or 2, buffer of 2, requests that fit and that never fit |
| `dispatcher` | `WakeupsCoverQueue`, `RoutingSound` (order, nobody missed, the right client resumed), `EventuallyDispatched`, `ThreadStops` | 2 services, 3 events (messages or restarts), queue of 1 |
| `serv_mgmt` | `ServicesSound` (one process per service, bounded restarts, all stopped at the end), `Restarted` | 2 services, 2 retries, 3 exits, 2 requests, 1 fault |
| `config_mgr` | `Isolated`, `RefusedOnlyWhenBusy`, `ConfigSound` (what is on disk is the last saved configuration) | 2 clients, 2 keys, 2 new values, 2 slots, 3 ids and the invalid one, 5 requests (3 when the daemon ends), 1 kill or failed write, timeout of 1 with a clock to 2 |
| `runtime` | `JiukunSound`, `ContainersExact`, `PtreeExact`, `SyncSound`, `TasksExact`, `HsmSound`, `WebClientSound`, `MessagingSound`, `LoggingSound` | allocator: 2 threads, 4 calls, zones of 8 pages; containers: 3 entries, 4 keys with collisions and one rehash, tables that own their entries and tables that do not; tree of 3 nodes, with 4 calls on the attributes of 2; 3 threads for the locks; tasks: 3 items, clock to 4; web client: three instances with 2 servers and 1 connection, 2 requests to one server, a request and a deletion, each with one connection that is closed, reports an exceptional condition or has no socket; messaging: queue of 2, 3 messages, a buffer of 3 cells, payloads that fit it and one that does not; logging: 2 processes, 2 logs, messages of 2 cells |
| `data` | `HttpParserExact`, `TextExact`, `XmlExact`, `DataExact`, `TimesExact`, `CliengExact`, `StoreExact`, `ArchiveExact` | all ways to cut a packet, read into buffers of 5, 7, 8 and 12 cells; documents of a few items; data of a few bytes; units of 8 for sizes in text, and files around the largest `olsize_t`, here below 20; days around leap years, centuries and the ends of the range; 4 uuids; lines of a few keys and a history of 2; a store of 2 keys; archives of up to 4 members (directories with siblings, steps of two levels up, a second name in the list, one long name) over a buffer of 2 blocks, with one size beyond a `u32`, here 6 |

The bounds are the smallest at which the cases of interest occur together: a
full queue with an eviction after an eviction; two threads inside one another's
operations; a connection lost after a partial send with a message behind it; a
pool with more peers than sockets; an immediate and a delayed restart of the
same service with a request between them; a save that appends to what an
interrupted save left; a slab that fills, empties and is reaped while another thread
allocates from it; a hash table that grows with a collision; a chunk header cut
between two reads; a member of an archive two directories up from the one before it.
Each property of a passing run is paired in `PROJECT.json` with a changed definition
(a dropped guard, a missing reset, a swapped order) under which TLC finds it violated.

Runs that show a disagreement between the code and its own comments:

| Run | Property | What happens |
|-----|----------|--------------|
| `msg_ref_freed` | `NotFreedInUse` | two threads decrement `dm_nRef`, both read 0, both free |
| `xfer_pool_slept` | `NeverSleptOn` | the chain sleeps on a partly sent message, or on one queued between the drain and `select` |
| `serv_mgmt_stop` | `StopSticks` | a delayed restart starts a service that was stopped on request |

`RefsExact` is therefore stated for executions in which the two threads have not
met inside operations on `dm_nRef`, and the part of `MessagesSound` about torn
messages for the one reset that the code has. Of `ConfigMgr`, `Isolated` is stated
for behaviours in which no transaction id is drawn as 0 or twice, and `ConfigSound`
leaves out a kill between remove and rename and half a line left in the temporary
file; without these exceptions TLC finds both violated. `ServicesSound` says that no
service is left running at an end in which no stop failed: `_stopAllServices` goes no
further after a failure.

More properties are stated in the modules, were found violated by TLC, and are not
runs; the checked properties are stated so as to leave these cases out:

| Module | Property | What happens |
|--------|----------|--------------|
| `PrioQueue` | `DocumentedEviction` | an eviction decrements the counter of the new message's priority, so a later message evicts although one of higher priority is queued |
| `XferPool` | `NotTorn` | after a lost connection the rest of a partly sent message goes first on the next one |
| `Utimer` | `RemovedForGood` | an item already collected fires after its removal |
| `ServMgmt` | `SavedSetting` | a request repeated after a failed save reports success |
| `ConfigMgr` | `SavedIsLoaded` | a value with a `#` comes back cut from the configuration file |
| `Persistency` | `OldValueGone` | a set that follows a failed commit, or lines it left behind, is not what the next get returns; a write that fails only in `fclose` is not noticed, and the file that was cut replaces the configuration |
| `Jiukun` | `ReapNoWait`, `HandedOutOnce` | a reaper asks for the mutex it holds; a page taken from its list but not yet marked is merged by a thread that frees its neighbour |
| `WebClient` | `NoConnAtDestroy`, `OwnAnswer`, `NeverSleptOn`, `ExceptionSurvived` | a client is destroyed with a connection up; the answer to a deleted request is taken for the next one's; the chain empties the queue between the wakeup decision and the enqueue; after an exceptional condition the socket stays with a null user, and the next call back about it ends the program |
| `Messaging` | `WorkerStops` (under `FairMessaging`), `OnlyOversizeLost` | the stop flag is set without an up of the semaphore; of a message larger than the buffer the rest is taken for new messages |
| `Logging` | `LocationsMade`; `LogsExact` with two threads in one process | a location that cannot be opened stays switched on; threads share a socket without a lock |
| `HttpParser` | `NoBodyIsFull`, `CutHeaderWaits` | a packet that announces no length ends in an error; so does a transfer whose first piece ends inside the header |
| `HashTable` | `RemovedIsFreed` | a removal and an overwriting pass the entry, not its address, to the callback that frees it |
| `Ptree`, `Attask` | `TraverseStops`, `ResolvedOrNull`; `AllRemoved` | a traversal goes on below the node that filled the result; a namespace is looked up as a string that was freed, or the result is not written; only one of several items of a task is removed |
| `Strings` | `OnlySpacesBreak`, `SizesReadBack`, `EmptyRefused` | a first word as long as the width loses its first character; a size below one kilobyte is printed in a form that the scan refuses; a scan of no characters passes a null pointer to `strlen` |
| `Xml` | `AttributesExact`, `EmptyHasNoContent` | a long prefix hides the `=`; an empty tag gets content |
| `Codec` | `HexStringFits` | the terminator is written behind an even length that is used up |
| `Crypto` | `PoolInBounds`, `LargeFilesRoundTrip` | the index of the pool reaches the byte reserved behind it; the size of a file of 2 GB or more is cast to a negative number |
| `Uuid` | `StampsUnique`, `OutputFits` | the last timestamp of a tick is the first of the next; the length of the hex format leaves out the terminator |
| `Clieng` | `DownUndoesUp`, `LineFits` | a down arrow gives an empty line while an older command is showing and a newer one exists; a line of exactly `JF_CLIENG_MAX_COMMAND_LINE_LEN` characters is accepted, and its terminator is written behind `ic_strInputBuffer` and `cmd_str` |
| `Archive` | `ExtractionEnds`, `AllExtracted`, `LargeFilesListed` | the end of an archive that fills its last buffer is not noticed; long names, sockets and files that grow while they are added are not extracted as they were; the list of an archive goes wrong behind a file of 4 GB, whose length is cast to 32 bits |

`CHECK_DEADLOCK FALSE` appears wherever the bounds, or a daemon that has ended,
let the system stop; in `config_mgr` clients may have nothing more to ask.

## 4. Fairness

Weak fairness is assumed of threads that the operating system schedules, of the
clock, and of calls that return:

- the chain thread (`WF(Chain)`): the loop of `jf_network_startChain` blocks in
  `select` only, with a timeout;
- a thread inside a library call (`AddInsert`, `AddWakeup`, `EnqueueMsg`,
  `SemUp`): between two steps it waits for locks only, which are held briefly;
- the clock (`Tick`, `TimePasses`), and a connect that is under way
  (`ConnectEnds`);
- in `Assocket`, each peer closes in the end; nothing else makes the code
  release a connection, as there is no idle timeout;
- in `Dispatcher`, the dispatcher thread and the second half of a send or stop
  that has begun; nobody is forced to send, to restart, or to stop;
- in `ServMgmt`, the signal thread, the main thread and the utimer items;
  processes need not end, requests need not come.

`runtime` and `data` check safety only and assume no fairness.

No property relies on a fair choice between outcomes: failures are bounded by
`MaxFaults`, and a liveness property that a failure excuses says so.

## 5. Proofs

Eight modules hold theorems. Each proof has the same shape: `Init` implies the
inductive invariant, each action keeps it (one lemma per action, and under it one
step per conjunct that the action can disturb), and it implies the property.

- **Priority queue** (`PrioQueueOpsProofs`, `MessagesProofs`). Assumption: the limit is
  a natural number below `U32`. Evictions decrement the wrong counter, so no single
  counter means anything. The inductive invariant is that the sum of the three, modulo
  `U32`, is the length of the list, together with the order of the ids in the list and
  the last one taken. The arithmetic rests on `ModStep`: adding or subtracting one
  inside a sum of remainders does so for the sum. From it follow
  `CountersAddUpAlways`, `BoundedAlways`, `FifoOrderAlways` and, as a statement about
  steps, `DropOnlyWhenFullAlways`. What the operations keep is stated for messages of
  any kind in `PrioQueueOpsProofs`, which the proofs about `XferPool` and
  `Dispatcher` use too.
- **Reference number** (`MessagesProofs`). Assumption: the services are a finite set.
  `RefsInv` joins `Places` (which thread may be at which step, and who then holds the
  message) and `Counted` (while the threads have not met, `nRef` is the number of
  holders, adjusted by a store still to come). Cardinalities change by one by
  `HoldingStep`. `RefsExactAlways` follows.
- **Dispatcher** (`DispatcherProofs`). Assumption: the services, messages and bounds
  have their types. `WakeupsCoverQueue` counts the semaphore, an up under way and a
  down not yet used against the messages in the queue; with the types of the counted
  variables (`CountTypes`) it is inductive. `NeverSleepsOnMessage` follows: the
  dispatcher thread does not sleep while a message waits and no up is on its way.
  `RoutingSoundAlways` rests on `RouteInv`. Messages are numbered as they arrive, and
  the daemon's queue and its threads hold the last numbers without a gap, so that one
  number per service, `Limit(s)`, says which messages its client has been offered. What
  a client has sent, is sending and has queued is ascending, below that number and meant
  for the service; with what its full queue dropped, it is all there was.
- **Transfer pool** (`XferPoolProofs`). Assumption: sizes and bounds are natural
  numbers, a message has at least one byte and a pool one object. The order of sent
  messages needs the order inside the queue; that there is one connection needs that
  each retry, wherever it is, is one of the first object (`FirstOK`); whole messages need
  that without a lost connection no socket is dead and nothing is to be retried
  (`CalmOK`). `PoolKeepsOrder` needs nothing more. `PoolSoundAlways` adds that the object
  in use has a connection, an attempt or a retry to come; it assumes that a socket can
  be created (`~SocketMayFail`), since the callers ignore that failure.
- **Utimer** (`UtimerProofs`). Assumption: finitely many threads, natural delays and
  bounds, and a wakeup read of at least one byte. `Placed` says of the items fired,
  collected and waiting that they are in order and account for each item ever inserted;
  there is one lemma for each thing that happens to the three lists. `Collected` is about
  the clock the chain thread has read. `Alarm` says what will end its sleep in time: a
  byte in the wakeup socket, a thread about to write one, or a block time short enough
  for the first item. `TimersSoundAlways` follows: items fire once, in order, never
  early, and the chain thread never oversleeps.
- **Service management** (`ServMgmtProofs`). Assumption: the numbers are natural. The
  routines work on one entry of the service array at a time. `ServOK` says what each
  keeps of one entry (the handle is that of the only process at work, automatic starts
  made and to come are within the count) and has a lemma per routine. `Inv` adds where
  the main thread is: services it has not come to were never started, those it has
  passed in `_stopAllServices` do not run. `ServicesSoundAlways` follows.
- **Configuration manager** (`ConfigServeProofs` for the requests, `ConfigMgrProofs` for
  the files and the theorems). Assumption: the invalid id is an id, what is read of a
  value is a value and is read back unchanged, and initial files have whole lines.
  `SlotsInv` links the clients' transactions to the slots: clients and slots in use have
  ids of their own, a slot with a client's id holds what that client wrote, and a known
  transaction that has not timed out has its slot (`Linked`); each slot in use belongs to
  a transaction begun and not over (`Recorded`), of which a refused start finds one per
  slot. `FilesInv` follows a save: a temporary file left behind has whole lines and no
  keys but those of the file, so a save that appends to it still ends with the whole
  tree (`Load` takes the last line of a key); before the temporary file replaces the
  other, it reads back as the tree. `IsolatedAlways`, `RefusedOnlyWhenBusyAlways` and
  `ConfigSoundAlways` follow.

Only model-checked, because it is beyond the prover: liveness and anything that needs
ENABLED, and what a recursive definition computes for every input. So the eight
properties of `data` and those of `runtime`, whose modules use RECURSIVE operators or
compare with such a reference, stay with TLC. `MessagesSound` is a property of the
composition `MCMessages`, in which `XferPool` is an instance; its conjuncts are proved
for the components (`BoundedAlways`, `MsgRefTypes`, `PoolKeepsOrder`). The invariants of
`Assocket` are model-checked only.

## 6. What is not modelled

`PROJECT.json` gives a reason for each component that has no module: wrappers of
operating system calls (sockets, files, directories, threads, network interfaces,
the dynamic loader), whose outcomes the other modules take as choices; client
libraries and front ends that format one request per call; floating point code
(`matrix/`); checksums driven by tables; utilities, templates and tests. The
compression functions of the hashes and AES are uninterpreted: what they compute is
data, not control, and test vectors check it better.

In the modelled components the following is left out: destroying a transfer pool,
chain or utimer while other threads use it; the exceptional set of `select` for
accepted connections; what is written to logs; the pause between two service starts;
memory exhaustion where it changes nothing but the return code. `ConfigMgr` leaves
out a configuration set on an inner node of the tree and values too long for a
message. In `ServMgmt` a SIGTERM before the daemon is initialised, and the repeated
cleanup after a failed initialisation, are left out. HTTP packets are well formed.
`Clieng` leaves out what is echoed to the terminal, and `Archive` file modes, owners
and times. The debug code of `DEBUG_JIUKUN`, which no makefile defines, is not in
`Jiukun`.

Known limits of the code that the models take as given: the daemon's queue is not
drained when it ends; stopped children are not waited for; a restart count is never
reset.

## 7. Open ends

1. Theorems about `Assocket` (its free list), `Hsm` (a state is entered at its initial
   state) and `Messaging`.
2. An abstract key-value store with transactions that `ConfigMgr` implements while
   no id is drawn twice and nothing is torn.
3. `Messaging` composed with `Dispatcher`, so that a message goes from one
   application to another through a restart of the daemon, which
   `doc/requirement/messaging.txt` asks for.
4. The async datagram socket.
