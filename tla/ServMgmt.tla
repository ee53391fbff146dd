------------------------------ MODULE ServMgmt ------------------------------
(***************************************************************************)
(* The service management daemon jf_dongyuan (servmgmt/daemon): it starts  *)
(* the services of its setting file, starts one again when its process has *)
(* ended, and starts, stops and configures services on request.            *)
(*                                                                         *)
(* The main thread starts the services and then runs the chain, in which   *)
(* the items of the utimer and the requests of jf_servctl are handled one  *)
(* at a time.  The signal thread turns SIGCHLD into an item of the utimer, *)
(* any number of ended children being one signal.  The processes end when  *)
(* they like.  The utimer fires its items in any order here: their delays  *)
(* differ.                                                                 *)
(***************************************************************************)
EXTENDS Integers, Sequences, FiniteSets

CONSTANTS
    NumOfService,       \* isms_u16NumOfService
    FailureRetryCount,  \* isms_u8FailureRetryCount
    MaxExits,           \* the bound on processes that end by themselves
    MaxRequests,        \* the bound on requests
    MaxFaults           \* the bound on failures of fork, of memory and of saving

ASSUME ServMgmtAssumption ==
    /\ NumOfService \in Nat
    /\ FailureRetryCount \in Nat
    /\ {MaxExits, MaxRequests, MaxFaults} \subseteq Nat

Servs == 1 .. NumOfService
Types == {"automatic", "manual"}
ProcStates == {"run", "told", "zombie", "gone"}

VARIABLES
    serv,       \* isms_isiService, and the processes of every service
    file,       \* the startup types in the setting file, "torn" where it is cut off
    checks,     \* the utimer items of _handleSigchldForChildProcess
    sigchld,    \* SIGCHLD is pending
    ignored,    \* SIGCHLD is ignored
    sigThread,  \* the signal thread runs
    toStop,     \* stopDongyuan was called: the stop byte is in the chain's socket
    main,       \* the main thread: [at, i, err]
    reply,      \* the response sent in the last step, if any
    exits, requests, faults

vars == <<serv, file, checks, sigchld, ignored, sigThread, toStop, main, reply,
          exits, requests, faults>>

daemon == <<checks, sigThread, toStop, main>>

\* An entry of the service array: isi_u8Status, isi_u8StartupType, the value
\* of isi_pjpnStartupType in the property tree, isi_u8RestartCount, isi_jphHandle as the number of a process (0 is no
\* handle), the processes started so far, and the items of
\* _utimerStartService.  Ghosts: the automatic starts, and what the user
\* asked for last.
Service == [status  : {"unknown", "stopped", "running", "error"},
            startup : Types,
            node    : Types \cup {"empty"},
            count   : 0 .. FailureRetryCount,
            handle  : Nat,
            proc    : Seq(ProcStates),
            timers  : Nat,
            autos   : Nat,
            wish    : {"none", "start", "stop"}]

NoReply == [req |-> "none", s |-> 0, ok |-> TRUE]

\* readServMgmtSetting: the services of the file; the rest is zero.
ReadServMgmtSetting(f) ==
    [s \in Servs |->
        [status |-> "unknown", startup |-> f[s], node |-> f[s], count |-> 0, handle |-> 0,
         proc |-> <<>>, timers |-> 0, autos |-> 0, wish |-> "none"]]

\* initDongyuan and initServMgmt.
Init ==
    /\ file \in [Servs -> Types]
    /\ serv = ReadServMgmtSetting(file)
    /\ checks = 0
    /\ sigchld = FALSE
    /\ ignored = FALSE
    /\ sigThread = TRUE
    /\ toStop = FALSE
    /\ main = [at |-> "start", i |-> 1, err |-> FALSE]
    /\ reply = NoReply
    /\ exits = 0 /\ requests = 0 /\ faults = 0

\* A call that may fail: it does so while the bound allows it.
MayFail(ok) ==
    /\ ok \/ faults < MaxFaults
    /\ faults' = IF ok THEN faults ELSE faults + 1

-----------------------------------------------------------------------------
(* The processes.                                                          *)

\* The k-th process of s ends.
Exit(s, k) ==
    /\ k \in DOMAIN serv[s].proc
    /\ \/ serv[s].proc[k] = "told" /\ exits' = exits
       \/ serv[s].proc[k] = "run" /\ exits < MaxExits /\ exits' = exits + 1
    /\ serv' = [serv EXCEPT ![s].proc[k] = IF ignored THEN "gone" ELSE "zombie"]
    /\ sigchld' = ~ignored
    /\ reply' = NoReply
    /\ UNCHANGED <<file, ignored, requests, faults>> /\ UNCHANGED daemon

\* _runCommandLine and jf_process_create: a new process, unless fork fails.
CreateProcess(v) == [v EXCEPT !.handle = Len(v.proc) + 1, !.proc = Append(@, "run")]

\* kill fails on a process that is gone only.
CanKill(v) == v.proc[v.handle] # "gone"

\* jf_process_terminate: SIGTERM, and the handle is cleared.
TerminateProcess(v) ==
    [v EXCEPT !.handle = 0, !.proc[v.handle] = IF @ = "run" THEN "told" ELSE @]

\* jf_process_waitForChildProcessTermination with no block time.
HasEnded(v) == v.handle # 0 /\ v.proc[v.handle] = "zombie"

-----------------------------------------------------------------------------
(* The routines on one service.                                            *)

\* _startServMgmtServ.
StartServMgmtServ(v, ok) ==
    IF ok THEN [CreateProcess(v) EXCEPT !.status = "running"]
          ELSE [v EXCEPT !.status = "error"]

\* _tryStartServMgmtServ: at once for the first time, by a utimer item after
\* a delay for the next ones; no item when there is no memory for it.
TryStartServMgmtServ(v, ok) ==
    LET w == [v EXCEPT !.count = @ + 1]
    IN  CASE v.count >= FailureRetryCount -> [v EXCEPT !.status = "error"]
          [] v.count < FailureRetryCount /\ v.count = 0 ->
                StartServMgmtServ([w EXCEPT !.autos = @ + 1], ok)
          [] v.count < FailureRetryCount /\ v.count > 0 ->
                [w EXCEPT !.timers = IF ok THEN @ + 1 ELSE @]

\* The body of the loop of _handleChildProcess.
CheckChildProcess(v, ok) ==
    IF v.status = "running" /\ HasEnded(v)
    THEN TryStartServMgmtServ([v EXCEPT !.status = "stopped", !.proc[v.handle] = "gone"], ok)
    ELSE v

\* _stopServMgmtServ.
StopServMgmtServ(v) ==
    IF CanKill(v) THEN [TerminateProcess(v) EXCEPT !.status = "stopped"]
                  ELSE [v EXCEPT !.status = "running"]

-----------------------------------------------------------------------------
(* The signal thread.                                                      *)

\* Mutant: SIGCHLD is dropped while the services are being started.
HandleSigchldOnce ==
    /\ sigThread /\ sigchld
    /\ sigchld' = FALSE
    /\ checks' = IF main.at = "start" THEN checks ELSE checks + 1
    /\ reply' = NoReply
    /\ UNCHANGED <<serv, file, ignored, sigThread, toStop, main, exits, requests, faults>>

\* _signalHandlerThread takes SIGCHLD and handleServMgmtSignal adds an item.
HandleSigchld ==
    /\ sigThread /\ sigchld
    /\ sigchld' = FALSE
    /\ checks' = checks + 1
    /\ reply' = NoReply
    /\ UNCHANGED <<serv, file, ignored, sigThread, toStop, main, exits, requests, faults>>

\* Another signal: stopDongyuan.  The thread ends with SIGTERM and SIGINT.
HandleStop ==
    /\ sigThread /\ ~toStop
    /\ main.at \in {"start", "chain"}
    /\ toStop' = TRUE
    /\ sigThread' \in BOOLEAN
    /\ reply' = NoReply
    /\ UNCHANGED <<serv, file, checks, sigchld, ignored, main, exits, requests, faults>>

-----------------------------------------------------------------------------
(* The main thread outside of the chain.                                   *)

\* The loop of _startAllServices, which ends with the first failure;
\* startDongyuan then leaves the chain out.
StartAllServices ==
    /\ main.at = "start"
    /\ IF main.i > NumOfService
       THEN /\ main' = [main EXCEPT !.at = "chain"]
            /\ UNCHANGED <<serv, faults>>
       ELSE LET v == [serv[main.i] EXCEPT !.status = "stopped"]
            IN  \E ok \in BOOLEAN :
                    /\ MayFail(ok)
                    /\ v.startup = "manual" => ok
                    /\ serv' = [serv EXCEPT ![main.i] =
                                   IF v.startup = "automatic" THEN StartServMgmtServ(v, ok) ELSE v]
                    /\ main' = [main EXCEPT !.i = @ + 1, !.at = IF ok THEN @ ELSE "fini"]
    /\ reply' = NoReply
    /\ UNCHANGED <<file, checks, sigchld, ignored, sigThread, toStop, exits, requests>>

\* The chain reads the stop byte and leaves its loop.
LeaveChain ==
    /\ main.at = "chain" /\ toStop
    /\ main' = [main EXCEPT !.at = "fini"]
    /\ reply' = NoReply
    /\ UNCHANGED <<serv, file, checks, sigchld, ignored, sigThread, toStop, exits, requests, faults>>

\* finiDongyuan and finiServMgmt up to _stopAllServices: the server, the
\* chain and the utimer are destroyed, SIGCHLD is ignored.
FiniServMgmt ==
    /\ main.at = "fini"
    /\ main' = [at |-> "stopAll", i |-> 1, err |-> FALSE]
    /\ serv' = [s \in Servs |-> [serv[s] EXCEPT !.timers = 0]]
    /\ checks' = 0
    /\ ignored' = TRUE /\ sigchld' = FALSE
    /\ reply' = NoReply
    /\ UNCHANGED <<file, sigThread, toStop, exits, requests, faults>>

\* The loop of _stopAllServices, which ends with the first failure.
StopAllServices ==
    /\ main.at = "stopAll"
    /\ IF main.i > NumOfService \/ main.err
       THEN /\ main' = [main EXCEPT !.at = "done"]
            /\ UNCHANGED serv
       ELSE LET v == serv[main.i]
                running == v.status = "running"
                w == IF running THEN StopServMgmtServ(v) ELSE v
            IN  /\ serv' = [serv EXCEPT ![main.i] = [w EXCEPT !.status = "stopped"]]
                /\ main' = [main EXCEPT !.i = @ + 1, !.err = running /\ ~CanKill(v)]
    /\ reply' = NoReply
    /\ UNCHANGED <<file, checks, sigchld, ignored, sigThread, toStop, exits, requests, faults>>

-----------------------------------------------------------------------------
(* The main thread in the chain: the items of the utimer.                  *)

\* _handleChildProcess, under the lock from the first service to the last;
\* one start at most fails.
HandleChildProcess ==
    /\ main.at = "chain" /\ checks > 0
    /\ checks' = checks - 1
    /\ \E failing \in Servs \cup {0} :
           /\ MayFail(failing = 0)
           /\ serv' = [s \in Servs |-> CheckChildProcess(serv[s], s # failing)]
    /\ reply' = NoReply
    /\ UNCHANGED <<file, sigchld, ignored, sigThread, toStop, main, exits, requests>>

\* Mutant: the service is started whatever its status.
UtimerStartAnyway(s) ==
    /\ main.at = "chain" /\ serv[s].timers > 0
    /\ LET v == [serv[s] EXCEPT !.timers = @ - 1]
       IN  \E ok \in BOOLEAN :
               /\ MayFail(ok)
               /\ serv' = [serv EXCEPT ![s] = StartServMgmtServ([v EXCEPT !.autos = @ + 1], ok)]
    /\ reply' = NoReply
    /\ UNCHANGED <<file, checks, sigchld, ignored, sigThread, toStop, main, exits, requests>>

\* _utimerStartService.
UtimerStartService(s) ==
    /\ main.at = "chain" /\ serv[s].timers > 0
    /\ LET v == [serv[s] EXCEPT !.timers = @ - 1]
       IN  IF v.status = "stopped"
           THEN \E ok \in BOOLEAN :
                    /\ MayFail(ok)
                    /\ serv' = [serv EXCEPT ![s] = StartServMgmtServ([v EXCEPT !.autos = @ + 1], ok)]
           ELSE /\ serv' = [serv EXCEPT ![s] = v]
                /\ UNCHANGED faults
    /\ reply' = NoReply
    /\ UNCHANGED <<file, checks, sigchld, ignored, sigThread, toStop, main, exits, requests>>

-----------------------------------------------------------------------------
(* The main thread in the chain: the requests.  A request for a service    *)
(* that is not in the setting, a request for information and one that is   *)
(* not valid change nothing.                                               *)

\* _procesServMgmtMsg has found a request it knows.
Request ==
    /\ main.at = "chain"
    /\ requests < MaxRequests
    /\ requests' = requests + 1
    /\ UNCHANGED <<checks, sigchld, ignored, sigThread, toStop, main, exits>>

\* startServMgmtServ: a service that runs is left alone.
StartOnRequest(v, ok) ==
    IF v.status # "running" THEN StartServMgmtServ(v, ok) ELSE v

\* _procesServMgmtMsgStartServ.
ProcesStartServ(s) ==
    /\ Request
    /\ LET v == [serv[s] EXCEPT !.wish = "start"]
       IN  \E ok \in BOOLEAN :
               /\ MayFail(ok)
               /\ v.status = "running" => ok
               /\ serv' = [serv EXCEPT ![s] = StartOnRequest(v, ok)]
               /\ reply' = [req |-> "start", s |-> s, ok |-> ok]
    /\ UNCHANGED file

\* stopServMgmtServ: only a service that runs is stopped.
StopOnRequest(v) ==
    IF v.status = "running" THEN StopServMgmtServ(v) ELSE v

\* _procesServMgmtMsgStopServ.
ProcesStopServ(s) ==
    /\ Request
    /\ LET v == [serv[s] EXCEPT !.wish = "stop"]
       IN  /\ serv' = [serv EXCEPT ![s] = StopOnRequest(v)]
           /\ reply' = [req |-> "stop", s |-> s, ok |-> v.status = "running" => CanKill(v)]
    /\ UNCHANGED <<file, faults>>

\* modifyServiceStartupType: the node in the tree, then the file.  The node
\* loses its value when there is no memory for the new one.
ModifyServiceStartupType(v, type, end) ==
    [v EXCEPT !.startup = type, !.node = IF end = "no memory" THEN "empty" ELSE type]

\* jf_xmlparser_saveXmlFile: the file is kept when it cannot be opened and
\* cut off by a write that fails.
SaveXmlFile(tree, end) ==
    CASE end = "saved" -> [s \in Servs |-> tree[s].node]
      [] end = "torn"  -> [s \in Servs |-> "torn"]
      [] OTHER         -> file

\* _procesServMgmtMsgSetStartupType and setServMgmtServStartupType: nothing
\* is saved when the type is the one in the service array.
ProcesSetStartupType(s, type) ==
    /\ Request
    /\ IF serv[s].startup = type
       THEN /\ reply' = [req |-> "set", s |-> s, ok |-> TRUE]
            /\ UNCHANGED <<serv, file, faults>>
       ELSE \E end \in {"saved", "no memory", "not opened", "torn"} :
                /\ MayFail(end = "saved")
                /\ serv' = [serv EXCEPT ![s] = ModifyServiceStartupType(@, type, end)]
                /\ file' = SaveXmlFile(serv', end)
                /\ reply' = [req |-> "set", s |-> s, ok |-> end = "saved"]

-----------------------------------------------------------------------------
MainThread == \/ StartAllServices \/ LeaveChain \/ FiniServMgmt \/ StopAllServices
              \/ HandleChildProcess
              \/ \E s \in Servs : UtimerStartService(s)

Requests == \E s \in Servs : \/ ProcesStartServ(s)
                             \/ ProcesStopServ(s)
                             \/ \E type \in Types : ProcesSetStartupType(s, type)

Next == \/ MainThread
        \/ Requests
        \/ HandleSigchld
        \/ HandleStop
        \/ \E s \in Servs : \E k \in DOMAIN serv[s].proc : Exit(s, k)

Spec == Init /\ [][Next]_vars

\* The two threads run and the utimer fires each of its items; processes
\* end and requests come when they like.
FairSpec ==
    /\ Spec
    /\ WF_vars(HandleSigchld)
    /\ WF_vars(StartAllServices) /\ WF_vars(LeaveChain)
    /\ WF_vars(FiniServMgmt) /\ WF_vars(StopAllServices)
    /\ WF_vars(HandleChildProcess)
    /\ \A s \in Servs : WF_vars(UtimerStartService(s))

-----------------------------------------------------------------------------
(* Properties.                                                             *)

\* Every variable keeps its type.
TypeOK ==
    /\ serv \in [Servs -> Service]
    /\ file \in [Servs -> Types \cup {"empty", "torn"}]
    /\ checks \in Nat
    /\ {sigchld, ignored, sigThread, toStop} \subseteq BOOLEAN
    /\ main \in [at : {"start", "chain", "fini", "stopAll", "done"},
                i : 1 .. NumOfService + 1, err : BOOLEAN]
    /\ reply \in [req : {"none", "start", "stop", "set"}, s : 0 .. NumOfService, ok : BOOLEAN]
    /\ {exits, requests, faults} \subseteq Nat

\* A service never has two processes at work: a process that runs and was
\* not told to stop is the one of the handle, and the status says "running",
\* whatever restarts, delayed restarts and requests come together
\* (_startServMgmtServ overwrites the handle).
Supervised ==
    \A s \in Servs : \A k \in DOMAIN serv[s].proc :
        serv[s].proc[k] = "run" => /\ serv[s].handle = k
                                   /\ serv[s].status = "running"

\* The daemon starts a service again by itself no more than
\* isms_u8FailureRetryCount times, the delayed starts that are still to come
\* included (_tryStartServMgmtServ).
RestartsBounded ==
    \A s \in Servs : serv[s].autos + serv[s].timers <= FailureRetryCount

\* When all services were stopped without a failure, no process is left
\* that was not told to stop (finiServMgmt).
AllStopped ==
    main.at = "done" /\ ~main.err =>
        \A s \in Servs : \A k \in DOMAIN serv[s].proc : serv[s].proc[k] # "run"

\* The supervision of servmgmt.c: one process per service, bounded restarts, and
\* none left behind.
ServicesSound == TypeOK /\ Supervised /\ RestartsBounded /\ AllStopped

\* Of a service that should run, no ended process goes unnoticed, SIGCHLDs
\* that were merged and SIGCHLDs during the start included: it runs again,
\* or has used up its restarts, or was stopped, or the daemon ends
\* (_handleChildProcess, handleServMgmtSignal).
Restarted ==
    \A s \in Servs :
        (serv[s].status = "running" /\ HasEnded(serv[s]))
            ~> \/ serv[s].status = "running" /\ ~HasEnded(serv[s])
               \/ serv[s].status = "error" \/ serv[s].wish = "stop"
               \/ toStop \/ main.at \notin {"start", "chain"}
               \/ faults > 0

\* A service that was stopped on request is not started by the daemon until
\* it is asked to start: "Start the service in "stopped" status, the service
\* is failed to be started before" (_utimerStartService).  Violated.
StopSticks ==
    [][\A s \in Servs : serv'[s].autos > serv[s].autos => serv[s].wish # "stop"]_vars

\* A startup type that was set with success is in the file: "Modify the
\* startup type of the service and save the new setting" (setStartupType).
\* Violated.
SavedSetting ==
    reply.req = "set" /\ reply.ok => file[reply.s] = serv[reply.s].startup

=============================================================================
