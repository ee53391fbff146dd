----------------------------- MODULE MCMessages -----------------------------
(***************************************************************************)
(* What happens to the messages of the dispatcher wherever they are:       *)
(* queueing (PrioQueue), counting references (MsgRef), sending (XferPool). *)
(* The three share no state; a behaviour is one of one of them.            *)
(*                                                                         *)
(* Services are interchangeable, and so are producers; RefInit picks any   *)
(* service for the irrelevant one of an idle thread.                       *)
(***************************************************************************)
EXTENDS PrioQueue, MsgRef, TLC

CONSTANTS
    Producers, NumOfObject, RetryCount, MsgSize, NoMsg, MaxXferMsgs, MaxFaults,
    MaxPartials, MaxPauses, SocketMayFail

VARIABLES
    pool, xq, pdmMsg, bytesSent, bInUse, bFin, backoff, sock, due, waiting,
    wakeup, chain, sets, prod, env, wire,           \* the xfer object pool
    part                        \* "queue", "ref" or "xfer", for a whole behaviour

XP == INSTANCE XferPool WITH pq <- xq, MaxMsgs <- MaxXferMsgs

xpvars == <<pool, xq, pdmMsg, bytesSent, bInUse, bFin, backoff, sock, due, waiting,
            wakeup, chain, sets, prod, env, wire>>

MCInit == /\ part \in {"queue", "ref", "xfer"}
          /\ Init /\ RefInit /\ XP!Init
          /\ part # "ref" => todo = {}

MCNext == /\ \/ part = "ref" /\ RefNext /\ UNCHANGED vars /\ UNCHANGED xpvars
             \/ part = "queue" /\ Next /\ UNCHANGED refVars /\ UNCHANGED xpvars
             \/ part = "xfer" /\ XP!Next /\ UNCHANGED refVars /\ UNCHANGED vars
          /\ UNCHANGED part

MCSpec == MCInit /\ [][MCNext]_<<vars, refVars, xpvars, part>>

Symmetry == Permutations(Service) \cup Permutations(Producers)

\* The pool completes the messages in their order, none twice, and no message
\* is torn by pauses and resumes of the pool; it has one connection, and none
\* when it is paused (xferpool.c).  The queue stays within its limit
\* (prioqueue.c), and every variable keeps its type.
MessagesSound ==
    /\ TypeOK /\ RefTypeOK /\ Bounded
    /\ XP!TypeOK /\ XP!InOrder /\ XP!NotTornByPause /\ XP!ConnectionsMatchState

=============================================================================
