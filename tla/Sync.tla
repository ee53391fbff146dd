------------------------------- MODULE Sync -------------------------------
(***************************************************************************)
(* The locks of jiutai and the resource pool built on one of them.         *)
(*   jf_rwlock.c   the read-write lock written out for Windows: counters   *)
(*                 under a critical section and two auto-reset events      *)
(*   jf_sem.c      the System V semaphore; every operation has SEM_UNDO,   *)
(*                 so the kernel takes back what a dead process did        *)
(*   jf_mutex.c    acquire and release, as the lock of the pool            *)
(*   jf_respool.c  full time and part time resources, each search and each *)
(*                 creation under the lock, nothing held between them      *)
(* A behaviour uses one of the three (side).                               *)
(***************************************************************************)
EXTENDS Integers, FiniteSets, Sequences, SequencesExt

CONSTANTS
    Threads,
    WritePriority,      \* jr_bWritePriority, TRUE after jf_rwlock_init
    InitialCount,       \* u32InitialCount of the semaphore
    MinRes, MaxRes,     \* jrcp_u32MinResources, jrcp_u32MaxResources
    Res,                \* resources the create callback can make
    NoThread

VARIABLES
    side,
    rw,                 \* the counters and the events of the lock
    at,                 \* per thread: where it is in the lock
    sem,                \* [val, gone]: value, IPC_RMID done
    undo,               \* per process: semadj the kernel keeps for it
    sems,               \* per process: "idle", "waiting", "holds" or "failed"
    pool,               \* [full, part : sequences of resources, state, lock]
    pc,                 \* per thread: where it is in jf_respool_getResource
    got                 \* per thread: the resource it was given, or {}

rwVars == <<rw, at>>
semVars == <<sem, undo, sems>>
poolVars == <<pool, pc, got>>
syncVars == <<side, rwVars, semVars, poolVars>>

-----------------------------------------------------------------------------
(* The read-write lock. A thread is "out", at the top of the loop ("rtry", *)
(* "wtry"), waiting for its event ("rwait", "wwait"), woken by its timeout *)
(* ("rlate", "wlate"), or inside ("read", "write"). "counted" is the       *)
(* local variable wait.                                                    *)

ReadGreen(r, b) == [r EXCEPT !.readGreen = b]
WriteGreen(r, b) == [r EXCEPT !.writeGreen = b]

\* _acquireSyncReadlock, one round of the loop under the critical section.
ReadRound(t) ==
    /\ at[t].pc \in {"out", "rtry"}
    /\ IF rw.writeCount = 0 /\ (~WritePriority \/ rw.writeWaiting = 0)
       THEN /\ rw' = [rw EXCEPT !.readCount = @ + 1,
                                !.readWaiting = @ - (IF at[t].counted THEN 1 ELSE 0)]
            /\ at' = [at EXCEPT ![t] = [pc |-> "read", counted |-> FALSE]]
       ELSE /\ rw' = ReadGreen([rw EXCEPT !.readWaiting =
                                    @ + (IF at[t].counted THEN 0 ELSE 1)], FALSE)
            /\ at' = [at EXCEPT ![t] = [pc |-> "rwait", counted |-> TRUE]]

WriteRound(t) ==
    /\ at[t].pc \in {"out", "wtry"}
    /\ IF rw.readCount = 0 /\ rw.writeCount = 0 /\ (WritePriority \/ rw.readWaiting = 0)
       THEN /\ rw' = [rw EXCEPT !.writeCount = @ + 1,
                                !.writeWaiting = @ - (IF at[t].counted THEN 1 ELSE 0)]
            /\ at' = [at EXCEPT ![t] = [pc |-> "write", counted |-> FALSE]]
       ELSE /\ rw' = WriteGreen([rw EXCEPT !.writeWaiting =
                                     @ + (IF at[t].counted THEN 0 ELSE 1)], FALSE)
            /\ at' = [at EXCEPT ![t] = [pc |-> "wwait", counted |-> TRUE]]

\* WaitForSingleObject: an auto-reset event lets one thread through.
WakeReader(t) ==
    /\ at[t].pc = "rwait" /\ rw.readGreen
    /\ rw' = ReadGreen(rw, FALSE)
    /\ at' = [at EXCEPT ![t].pc = "rtry"]

WakeWriter(t) ==
    /\ at[t].pc = "wwait" /\ rw.writeGreen
    /\ rw' = WriteGreen(rw, FALSE)
    /\ at' = [at EXCEPT ![t].pc = "wtry"]

WaitTimeout(t) ==
    /\ at[t].pc \in {"rwait", "wwait"}
    /\ at' = [at EXCEPT ![t].pc = IF @ = "rwait" THEN "rlate" ELSE "wlate"]
    /\ UNCHANGED rw

\* Mutant: a timed out thread only leaves the count.
GiveUpQuietly(t) ==
    /\ at[t].pc \in {"rlate", "wlate"}
    /\ rw' = IF at[t].pc = "rlate" THEN [rw EXCEPT !.readWaiting = @ - 1]
                                   ELSE [rw EXCEPT !.writeWaiting = @ - 1]
    /\ at' = [at EXCEPT ![t] = [pc |-> "out", counted |-> FALSE]]

\* The timed out thread leaves the count and opens both events.
GiveUp(t) ==
    /\ at[t].pc \in {"rlate", "wlate"}
    /\ LET r == IF at[t].pc = "rlate" THEN [rw EXCEPT !.readWaiting = @ - 1]
                                      ELSE [rw EXCEPT !.writeWaiting = @ - 1]
       IN  rw' = WriteGreen(ReadGreen(r, TRUE), TRUE)
    /\ at' = [at EXCEPT ![t] = [pc |-> "out", counted |-> FALSE]]

\* Which event a release sets.
SignalNext(r) ==
    IF r.writeWaiting > 0 /\ (WritePriority \/ r.readWaiting = 0) THEN WriteGreen(r, TRUE)
    ELSE IF r.readWaiting > 0 THEN ReadGreen(r, TRUE)
    ELSE r

ReleaseReadlock(t) ==
    /\ at[t].pc = "read"
    /\ rw' = SignalNext([rw EXCEPT !.readCount = @ - 1])
    /\ at' = [at EXCEPT ![t].pc = "out"]

ReleaseWritelock(t) ==
    /\ at[t].pc = "write"
    /\ rw' = SignalNext([rw EXCEPT !.writeCount = @ - 1])
    /\ at' = [at EXCEPT ![t].pc = "out"]

RwlockNext ==
    /\ side = "rwlock"
    /\ \E t \in Threads : \/ ReadRound(t)
                          \/ WriteRound(t)
                          \/ WakeReader(t)
                          \/ WakeWriter(t)
                          \/ WaitTimeout(t)
                          \/ GiveUp(t)
                          \/ ReleaseReadlock(t)
                          \/ ReleaseWritelock(t)
    /\ UNCHANGED <<side, semVars, poolVars>>

-----------------------------------------------------------------------------
(* The semaphore, used by processes that down it and later up it.          *)

Taken(p) ==
    /\ sem' = [sem EXCEPT !.val = @ - 1]
    /\ undo' = [undo EXCEPT ![p] = @ + 1]
    /\ sems' = [sems EXCEPT ![p] = "holds"]

SemDown(p) ==
    /\ sems[p] \in {"idle", "waiting"}
    /\ IF sem.gone THEN sems' = [sems EXCEPT ![p] = "failed"] /\ UNCHANGED <<sem, undo>>
       ELSE IF sem.val > 0 THEN Taken(p)
       ELSE sems[p] = "idle" /\ sems' = [sems EXCEPT ![p] = "waiting"] /\ UNCHANGED <<sem, undo>>

\* IPC_NOWAIT: as SemDown, and refused where that waits.
SemTryDown(p) == sems[p] = "idle" /\ ~sem.gone /\ sem.val > 0 /\ Taken(p)

\* semtimedop that gave up: the caller is told and may call again.
SemDownTimeout(p) ==
    /\ sems[p] = "waiting"
    /\ sems' = [sems EXCEPT ![p] = "idle"]
    /\ UNCHANGED <<sem, undo>>

SemUp(p) ==
    /\ sems[p] = "holds" /\ ~sem.gone
    /\ sem' = [sem EXCEPT !.val = @ + 1]
    /\ undo' = [undo EXCEPT ![p] = @ - 1]
    /\ sems' = [sems EXCEPT ![p] = "idle"]

\* semctl IPC_RMID: waiting and later calls fail.
SemFini == ~sem.gone /\ sem' = [sem EXCEPT !.gone = TRUE] /\ UNCHANGED <<undo, sems>>

\* The process dies, is started again, and has no adjustments any more. The
\* kernel never lets the value go below zero.
ProcessExit(p) ==
    /\ sem' = IF sem.gone THEN sem
              ELSE [sem EXCEPT !.val = IF @ + undo[p] < 0 THEN 0 ELSE @ + undo[p]]
    /\ undo' = [undo EXCEPT ![p] = 0]
    /\ sems' = [sems EXCEPT ![p] = "idle"]

SemNext ==
    /\ side = "sem"
    /\ \/ SemFini
       \/ \E p \in Threads : \/ SemDown(p)
                             \/ SemTryDown(p)
                             \/ SemDownTimeout(p)
                             \/ SemUp(p)
                             \/ ProcessExit(p)
    /\ UNCHANGED <<side, rwVars, poolVars>>

-----------------------------------------------------------------------------
(* The resource pool. The body of each locked section is one step of the   *)
(* thread that holds the mutex.                                            *)

MutexAcquire(t) == pool.lock = NoThread /\ pool' = [pool EXCEPT !.lock = t]
Release(q) == [q EXCEPT !.lock = NoThread]

\* _isMaxPoolResourcesReached.
IsMaxReached(bFulltime) ==
    IF bFulltime THEN Len(pool.full) = MinRes ELSE Len(pool.part) = MaxRes - MinRes

\* jf_array_findElement with _fnFindArrayResource: the first free resource.
FreeIn(rs) == SelectSeq(rs, LAMBDA r : pool.state[r] = "free")

\* The order of the attempts of jf_respool_getResource: both searches, then
\* both creations, and both creations again after the first pair failed.
NextPc(p) ==
    CASE p = "findFull" -> "findPart"
      [] p = "findPart" -> "makeFull"
      [] p = "makeFull" -> "makePart"
      [] p = "makePart" -> "remakeFull"
      [] p = "remakeFull" -> "remakePart"
      [] p = "remakePart" -> "idle"

Given(t, r) == got' = [got EXCEPT ![t] = {r}] /\ pc' = [pc EXCEPT ![t] = "idle"]
NotGiven(t) == got' = got /\ pc' = [pc EXCEPT ![t] = NextPc(pc[t])]

GetResource(t) ==
    /\ pc[t] = "idle" /\ got[t] = {}
    /\ pc' = [pc EXCEPT ![t] = "findFull"]
    /\ UNCHANGED <<pool, got>>

Lock(t) ==
    /\ pc[t] # "idle"
    /\ MutexAcquire(t)
    /\ UNCHANGED <<pc, got>>

Find(t) ==
    /\ pc[t] \in {"findFull", "findPart"} /\ pool.lock = t
    /\ LET free == FreeIn(IF pc[t] = "findFull" THEN pool.full ELSE pool.part)
       IN  IF free = <<>> THEN NotGiven(t) /\ pool' = Release(pool)
           ELSE /\ Given(t, Head(free))
                /\ pool' = Release([pool EXCEPT !.state[Head(free)] = "busy"])

\* _createResourceInPoolArray; the callback may fail.
CreateResource(t) ==
    /\ pc[t] \in {"makeFull", "makePart", "remakeFull", "remakePart"} /\ pool.lock = t
    /\ LET bFull == pc[t] \in {"makeFull", "remakeFull"}
       IN  \/ NotGiven(t) /\ pool' = Release(pool)
           \/ \E r \in Res :
                /\ ~IsMaxReached(bFull)
                /\ pool.state[r] = "none"
                /\ \A q \in Res : pool.state[q] = "none" => r <= q
                /\ Given(t, r)
                /\ pool' = Release([pool EXCEPT !.state[r] = "busy",
                                                !.full = IF bFull THEN Append(@, r) ELSE @,
                                                !.part = IF bFull THEN @ ELSE Append(@, r)])

\* _putResourceInPool: a part time resource is destroyed at once
\* (irp_bImmediateRelease is always TRUE).
PutResource(t) ==
    /\ pc[t] = "idle" /\ pool.lock = NoThread
    /\ \E r \in got[t] :
         pool' = IF r \in ToSet(pool.full) THEN [pool EXCEPT !.state[r] = "free"]
                 ELSE [pool EXCEPT !.part = Remove(@, r), !.state[r] = "none"]
    /\ got' = [got EXCEPT ![t] = {}]
    /\ UNCHANGED pc

\* _reapResourceInPool.
ReapResource ==
    /\ pool.lock = NoThread
    /\ pool' = [pool EXCEPT !.part = SelectSeq(@, LAMBDA r : pool.state[r] # "free"),
                            !.state = [r \in Res |-> IF r \in ToSet(FreeIn(pool.part))
                                                     THEN "none" ELSE pool.state[r]]]
    /\ UNCHANGED <<pc, got>>

\* jf_respool_destroy by the owner once every user is done with the pool, and
\* jf_respool_create of the next one.
RecreatePool ==
    /\ \A t \in Threads : pc[t] = "idle" /\ got[t] = {}
    /\ pool' = [full |-> <<>>, part |-> <<>>, state |-> [r \in Res |-> "none"], lock |-> NoThread]
    /\ UNCHANGED <<pc, got>>

RespoolNext ==
    /\ side = "pool"
    /\ \/ ReapResource
       \/ RecreatePool
       \/ \E t \in Threads : \/ GetResource(t)
                             \/ Lock(t)
                             \/ Find(t)
                             \/ CreateResource(t)
                             \/ PutResource(t)
    /\ UNCHANGED <<side, rwVars, semVars>>

-----------------------------------------------------------------------------
SyncInit ==
    /\ side \in {"rwlock", "sem", "pool"}
    /\ rw = [readCount |-> 0, readWaiting |-> 0, writeCount |-> 0, writeWaiting |-> 0,
             readGreen |-> TRUE, writeGreen |-> TRUE]
    /\ at = [t \in Threads |-> [pc |-> "out", counted |-> FALSE]]
    /\ sem = [val |-> InitialCount, gone |-> FALSE]
    /\ undo = [p \in Threads |-> 0]
    /\ sems = [p \in Threads |-> "idle"]
    /\ pool = [full |-> <<>>, part |-> <<>>, state |-> [r \in Res |-> "none"], lock |-> NoThread]
    /\ pc = [t \in Threads |-> "idle"]
    /\ got = [t \in Threads |-> {}]

SyncNext == RwlockNext \/ SemNext \/ RespoolNext

-----------------------------------------------------------------------------
Where(S) == {t \in Threads : at[t].pc \in S}

\* Writers exclude everybody, and the lock is never free while every thread
\* that wants it sleeps: whoever waits has its event open, or another thread is
\* on its way through the loop, whatever timeouts and releases came before.
RwlockSound ==
    /\ Cardinality(Where({"read"})) = rw.readCount
    /\ Cardinality(Where({"write"})) = rw.writeCount
    /\ rw.writeCount > 0 => rw.writeCount = 1 /\ rw.readCount = 0
    /\ rw.readWaiting = Cardinality(Where({"rwait", "rtry", "rlate"}))
    /\ rw.writeWaiting = Cardinality(Where({"wwait", "wtry", "wlate"}))
    /\ rw.readCount + rw.writeCount = 0 /\ Where({"rwait", "wwait"}) # {} =>
         \/ Where({"rtry", "wtry", "rlate", "wlate"}) # {}
         \/ rw.writeGreen /\ Where({"wwait"}) # {}
         \/ rw.readGreen /\ Where({"rwait"}) # {}

\* Units of the semaphore are neither lost nor made, whichever processes die
\* between jf_sem_down and jf_sem_up or after them.
SemaphoreExact ==
    ~sem.gone => sem.val + Cardinality({p \in Threads : sems[p] = "holds"}) = InitialCount

\* A resource is with at most one user and busy exactly while it is, the pool
\* keeps its two limits, and a resource in use is never destroyed under its user.
PoolExact ==
    /\ \A t, u \in Threads : t # u => got[t] \cap got[u] = {}
    /\ \A r \in Res : (pool.state[r] = "busy") = (\E t \in Threads : r \in got[t])
    /\ {r \in Res : pool.state[r] # "none"} = ToSet(pool.full) \cup ToSet(pool.part)
    /\ Len(pool.full) <= MinRes /\ Len(pool.part) <= MaxRes - MinRes
    /\ Len(pool.full) + Len(pool.part) = Cardinality(ToSet(pool.full) \cup ToSet(pool.part))
=============================================================================
