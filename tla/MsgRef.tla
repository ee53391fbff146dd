------------------------------- MODULE MsgRef -------------------------------
(***************************************************************************)
(* The reference number of one message of the dispatcher daemon            *)
(* (dispatcher/common/dispatchercommon.c), from its arrival in the queue   *)
(* of the daemon to its release.                                           *)
(*                                                                         *)
(* The dispatcher thread refers to the message while it hands it to its    *)
(* subscribers, and every xfer queue, or pool that sends it, refers to it  *)
(* as well.  The dispatcher thread and the client chain thread release     *)
(* their references at their own pace, and dm_nRef is a plain integer that *)
(* no lock protects: an increment or a decrement is a load and a store,    *)
(* and freeDispatcherMsg reads dm_nRef once more to decide on the free.    *)
(* Each is a step of its own.                                              *)
(*                                                                         *)
(* The reference numbers of two messages have nothing to do with each      *)
(* other; all the other messages appear as the reason why a queue is full, *)
(* or why this message is evicted from one.                                *)
(***************************************************************************)
EXTENDS Integers, FiniteSets

CONSTANT Service    \* the services, each with the xfer of its client

ASSUME ServiceAssumption == IsFiniteSet(Service)

VARIABLES
    nRef,   \* dm_nRef
    todo,   \* the subscribers the dispatcher thread has still to visit
    disp,   \* the dispatcher thread: [at, s, tmp]; at "idle" before this
            \* message is taken, at "other" with other messages
    held,   \* per service: the message is "queued", "pending" (idxop_pdmMsg),
            \* or "none" of these
    cli,    \* the client chain thread: [at, s, tmp]
    freed,  \* ghost: how often destroyDispatcherMsg was called
    raced   \* ghost: the two threads were inside operations on dm_nRef at once

refVars == <<nRef, todo, disp, held, cli, freed, raced>>

\* createDispatcherMsg; the message is in the queue of the daemon.
RefInit ==
    /\ nRef = 1
    /\ todo \in SUBSET Service
    /\ \E s \in Service : /\ disp = [at |-> "idle", s |-> s, tmp |-> 0]
                          /\ cli = [at |-> "idle", s |-> s, tmp |-> 0]
    /\ held = [s \in Service |-> "none"]
    /\ freed = 0
    /\ raced = FALSE

\* A thread is inside an operation on dm_nRef.
DispInside == disp.at \notin {"idle", "next", "send", "other"}
CliInside == cli.at # "idle"

\* The dispatcher thread, or the client chain thread, accesses dm_nRef.
DispAccess == raced' = (raced \/ CliInside)
CliAccess == raced' = (raced \/ DispInside)

\* freeDispatcherMsg, after decDispatcherMsgRef.
CheckRef == freed' = IF nRef <= 0 THEN freed + 1 ELSE freed

-----------------------------------------------------------------------------
(* The dispatcher thread.                                                  *)

\* _dispatchMsg takes the message out of the daemon's queue.
DispTake ==
    /\ disp.at = "idle"
    /\ disp' = [disp EXCEPT !.at = "next"]
    /\ UNCHANGED <<nRef, todo, held, cli, freed, raced>>

\* incDispatcherMsgRef in _dispatchMsgToServ,
IncLoad(s) ==
    /\ disp.at = "next" /\ s \in todo
    /\ todo' = todo \ {s}
    /\ disp' = [at |-> "incStore", s |-> s, tmp |-> nRef]
    /\ DispAccess
    /\ UNCHANGED <<nRef, held, cli, freed>>

IncStore ==
    /\ disp.at = "incStore"
    /\ nRef' = disp.tmp + 1
    /\ disp' = [disp EXCEPT !.at = "send"]
    /\ DispAccess
    /\ UNCHANGED <<todo, held, cli, freed>>

\* ... dispatcher_xfer_sendMsg, which queues the message
Send ==
    /\ disp.at = "send"
    /\ held' = [held EXCEPT ![disp.s] = "queued"]
    /\ disp' = [disp EXCEPT !.at = "next"]
    /\ UNCHANGED <<nRef, todo, cli, freed, raced>>

\* Mutant: the reference of a client with a full queue is kept.
RefuseKeepsRef ==
    /\ disp.at = "send"
    /\ disp' = [disp EXCEPT !.at = "next"]
    /\ UNCHANGED <<nRef, todo, held, cli, freed, raced>>

\* ... or finds the queue full, and decDispatcherMsgRef.
Refuse ==
    /\ disp.at = "send"
    /\ disp' = [disp EXCEPT !.at = "undoStore", !.tmp = nRef]
    /\ DispAccess
    /\ UNCHANGED <<nRef, todo, held, cli, freed>>

UndoStore ==
    /\ disp.at = "undoStore"
    /\ nRef' = disp.tmp - 1
    /\ disp' = [disp EXCEPT !.at = "next"]
    /\ DispAccess
    /\ UNCHANGED <<todo, held, cli, freed>>

\* freeDispatcherMsg in _dispatchMsg,
DecLoad ==
    /\ disp.at = "next" /\ todo = {}
    /\ disp' = [disp EXCEPT !.at = "decStore", !.tmp = nRef]
    /\ DispAccess
    /\ UNCHANGED <<nRef, todo, held, cli, freed>>

\* ... and in _canDispatcherMsgBeQueued, which evicts the message for a later
\* one from the queue of a client.
EvictLoad(s) ==
    /\ disp.at = "other"
    /\ held[s] = "queued"
    /\ held' = [held EXCEPT ![s] = "none"]
    /\ disp' = [at |-> "decStore", s |-> s, tmp |-> nRef]
    /\ DispAccess
    /\ UNCHANGED <<nRef, todo, cli, freed>>

DecStore ==
    /\ disp.at = "decStore"
    /\ nRef' = disp.tmp - 1
    /\ disp' = [disp EXCEPT !.at = "decCheck"]
    /\ DispAccess
    /\ UNCHANGED <<todo, held, cli, freed>>

DecCheck ==
    /\ disp.at = "decCheck"
    /\ CheckRef
    /\ disp' = [disp EXCEPT !.at = "other"]
    /\ DispAccess
    /\ UNCHANGED <<nRef, todo, held, cli>>

-----------------------------------------------------------------------------
(* The client chain thread.                                                *)

\* dequeueDispatcherPrioQueue in _sendMsgInDispatcherPrioQueue.
CliDequeue(s) ==
    /\ cli.at = "idle"
    /\ held[s] = "queued"
    /\ held' = [held EXCEPT ![s] = "pending"]
    /\ UNCHANGED <<nRef, todo, disp, cli, freed, raced>>

\* _sendPendingMsgInDispatcherXferObjectPool has sent the last byte and calls
\* freeDispatcherMsg.
CliSent(s) ==
    /\ cli.at = "idle"
    /\ held[s] = "pending"
    /\ cli' = [at |-> "decStore", s |-> s, tmp |-> nRef]
    /\ CliAccess
    /\ UNCHANGED <<nRef, todo, disp, held, freed>>

CliDecStore ==
    /\ cli.at = "decStore"
    /\ nRef' = cli.tmp - 1
    /\ cli' = [cli EXCEPT !.at = "decCheck"]
    /\ CliAccess
    /\ UNCHANGED <<todo, disp, held, freed>>

CliDecCheck ==
    /\ cli.at = "decCheck"
    /\ CheckRef
    /\ held' = [held EXCEPT ![cli.s] = "none"]
    /\ cli' = [cli EXCEPT !.at = "idle"]
    /\ CliAccess
    /\ UNCHANGED <<nRef, todo, disp>>

RefNext ==
    \/ DispTake \/ IncStore \/ Send \/ Refuse \/ UndoStore \/ DecLoad \/ DecStore \/ DecCheck
    \/ \E s \in Service : IncLoad(s) \/ EvictLoad(s) \/ CliDequeue(s) \/ CliSent(s)
    \/ CliDecStore \/ CliDecCheck

RefSpec == RefInit /\ [][RefNext]_refVars

-----------------------------------------------------------------------------
(* Properties.                                                             *)

\* The types of the message's state and of the two threads.
RefTypeOK ==
    /\ nRef \in Int /\ freed \in Nat /\ raced \in BOOLEAN
    /\ todo \subseteq Service
    /\ disp \in [at : {"idle", "next", "incStore", "send", "undoStore", "decStore",
                       "decCheck", "other"}, s : Service, tmp : Int]
    /\ held \in [Service -> {"none", "queued", "pending"}]
    /\ cli \in [at : {"idle", "decStore", "decCheck"}, s : Service, tmp : Int]

If(b) == IF b THEN 1 ELSE 0

\* The clients that refer to the message and have not released it.
HoldingClients == {s \in Service : held[s] # "none" /\ ~(cli.at = "decCheck" /\ cli.s = s)}

\* The references of the daemon's queue and of the dispatcher thread, those
\* taken for a client or taken over from one included.
DispHolds ==
    If(disp.at \in {"idle", "next", "incStore", "send", "undoStore", "decStore"})
    + If(disp.at \in {"send", "undoStore"})

Holders == Cardinality(HoldingClients) + DispHolds

\* As long as the two threads were not inside operations on dm_nRef at once,
\* it counts the references, and the message is destroyed once, by the thread
\* that lets go of the last one: nothing leaks and nothing freed is in use,
\* whichever clients refuse, evict or send the message.
RefsExact ==
    ~raced => /\ nRef = Holders
              /\ freed = If(Holders = 0 /\ ~DispInside /\ ~CliInside)

\* What dm_nRef, the "Reference number", is for: the message is not destroyed
\* while someone refers to it, nor twice.
NotFreedInUse == freed <= 1 /\ (freed = 1 => Holders = 0)
=============================================================================
