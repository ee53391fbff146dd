------------------------------ MODULE Logging ------------------------------
(***************************************************************************)
(* The logger library (logger/) and the log server (logserver/daemon/).    *)
(*                                                                         *)
(* Side "remote": the threads of some processes log to the server.  A log  *)
(* is stamped, then sent over the process's connection in at most          *)
(* JF_LOGGER_RETRY_COUNT attempts, each of which connects when there is no *)
(* socket, sends once, and closes the socket when the send was refused or  *)
(* short.  A connection carries cells: a message is its header cell and    *)
(* its payload cells.  The server cuts the stream into messages by the     *)
(* size in the header, keeps the logs sorted by their stamp and a thread   *)
(* writes those older than the cache time.                                 *)
(*                                                                         *)
(* Side "local": one process whose logger writes to a file, stdout, the    *)
(* system log and a tty.                                                   *)
(***************************************************************************)
EXTENDS Integers, Sequences, FiniteSets, SequencesExt

CONSTANTS Threads,       \* threads that log to the server
          Owner,         \* the process of a thread
          LogsPerThread, \* bound: logs of each thread
          RetryCount,    \* JF_LOGGER_RETRY_COUNT
          MsgCells,      \* cells of a message, the header first
          MaxConns,      \* bound: connections made in a behaviour
          CacheTime,     \* LOG_SAVE_CACHE_TIME
          StopWait,      \* the sleep before the server is finalized
          MaxDelay,      \* latency of a log between its stamp and the queue
          MaxTime,       \* bound: ticks
          Starts,        \* how the server is started: the locations asked for,
                         \* those that cannot be made, the step that fails
          LevelNames,    \* NONE, ERROR, WARN, INFO, DEBUG, DATA in this order
          MaxLocal       \* bound: logs of the local process

VARIABLES side, clock, thr, sock, made, conns, main, save, saved, accepted, logger

vars == <<side, clock, thr, sock, made, conns, main, save, saved, accepted, logger>>
clientVars == <<thr, sock, made, accepted>>
serverVars == <<main, save, saved>>
remoteVars == <<clock, thr, sock, made, conns, main, save, saved, accepted>>

Processes == {Owner[t] : t \in Threads}
ServerUp == main.pc \in {"running", "stopping"}

-----------------------------------------------------------------------------
(* A log: who wrote it, its number and its stamp.                          *)
Log(t) == [by |-> t, n |-> thr[t].n, time |-> thr[t].time]
Idle(n) == [pc |-> "idle", n |-> n, time |-> 0, retry |-> 0]
Cells(l) == [i \in 1..MsgCells |-> [log |-> l, i |-> i]]

(* logger.c, jf_logger_logInfoMsg and log2server.c, the head of            *)
(* _logToServer: stamp the log and start the attempts.                     *)
LogToServer(t) ==
    /\ thr[t].pc = "idle" /\ thr[t].n < LogsPerThread[t]
    /\ thr' = [thr EXCEPT ![t] = [pc |-> "try", n |-> @.n + 1, time |-> clock, retry |-> 0]]
    /\ UNCHANGED <<side, clock, sock, made, conns, accepted, logger, serverVars>>

(* _connectToLogServer: nothing to do when the process has a socket.  The  *)
(* location object is zeroed when it is created, so its first socket is    *)
(* descriptor 0, which nobody connected.                                   *)
ConnectToLogServer(p) ==
    IF sock[p] >= 0 THEN [sock |-> sock[p], made |-> made, conns |-> conns]
    ELSE IF ServerUp /\ made < MaxConns
    THEN [sock |-> made + 1, made |-> made + 1,
          conns |-> [conns EXCEPT ![made + 1] = [open |-> TRUE, cells |-> <<>>, buf |-> <<>>]]]
    ELSE [sock |-> -1, made |-> made, conns |-> conns]

(* Mutant: a short send is taken for a whole one.                          *)
SentAnything(k) == k > 0

(* _sendLogToServer: one send on a socket that does not block, of which    *)
(* only the whole message counts as sent.                                  *)
Sent(k) == k = MsgCells

(* An attempt of _logToServer: k cells of the message go out.              *)
Attempt(t, k) ==
    LET p == Owner[t]
        c == ConnectToLogServer(p) IN
    /\ thr[t].pc = "try"
    /\ k > 0 => c.sock > 0 /\ ServerUp
    /\ sock' = [sock EXCEPT ![p] = c.sock] /\ made' = c.made
    /\ conns' = IF k = 0 THEN c.conns
                ELSE [c.conns EXCEPT ![c.sock].cells = @ \o SubSeq(Cells(Log(t)), 1, k)]
    /\ accepted' = IF Sent(k) THEN accepted \cup {Log(t)} ELSE accepted
    /\ thr' = [thr EXCEPT ![t] = IF Sent(k) THEN Idle(@.n) ELSE [@ EXCEPT !.pc = "close"]]
    /\ UNCHANGED <<side, clock, logger, serverVars>>

(* The error handling of _logToServer: close the socket and try again, or  *)
(* give the log up.                                                        *)
CloseAndRetry(t) ==
    LET p == Owner[t]
        c == sock[p] IN
    /\ thr[t].pc = "close"
    /\ conns' = IF c > 0 THEN [conns EXCEPT ![c].open = FALSE] ELSE conns
    /\ sock' = [sock EXCEPT ![p] = -1]
    /\ thr' = [thr EXCEPT ![t] = IF @.retry + 1 < RetryCount
                                THEN [@ EXCEPT !.pc = "try", !.retry = @ + 1] ELSE Idle(@.n)]
    /\ UNCHANGED <<side, clock, made, accepted, logger, serverVars>>

-----------------------------------------------------------------------------
(* logsave.c.  The list is sorted by stamp; a log is its message's cells.  *)
Stamp(m) == m[1].log.time

(* _insertLogToList: before the first log that is later.                   *)
InsertLogToList(list, m) ==
    LET later == {i \in 1..Len(list) : Stamp(list[i]) > Stamp(m)}
        at == IF later = {} THEN Len(list) + 1 ELSE CHOOSE i \in later : \A j \in later : i <= j
    IN SubSeq(list, 1, at - 1) \o <<m>> \o SubSeq(list, at, Len(list))

(* _addLogToList and saveLogToQueue.                                       *)
SaveLogToQueue(s, m) ==
    IF s.init THEN [s EXCEPT !.list = InsertLogToList(@, m), !.num = @ + 1] ELSE s

(* The logs at the front of the list that are no later than expire.        *)
Expired(list, expire) ==
    LET later == {i \in 1..Len(list) : Stamp(list[i]) > expire}
    IN IF later = {} THEN list ELSE SubSeq(list, 1, (CHOOSE i \in later : \A j \in later : i <= j) - 1)

(* _flushSavedLog: written to every location that is switched on; the      *)
(* location object is taken for granted.                                   *)
FlushSavedLog(s, out, expire) ==
    LET due == Expired(s.list, expire) IN
    [s |-> [s EXCEPT !.list = SubSeq(@, Len(due) + 1, Len(@)),
                     !.num = @ - Len(due),
                     !.crashed = @ \/ (due # <<>> /\ ~(s.on \subseteq s.locs))],
     out |-> out \o due]

(* _tryFlushSavedLog and _saveLogThread.                                   *)
TryFlushSavedLog(s, out) ==
    IF s.list = <<>> \/ clock - CacheTime < Stamp(s.list[1]) THEN [s |-> s, out |-> out]
    ELSE FlushSavedLog(s, out, clock - CacheTime)

SaveLogThread ==
    LET f == TryFlushSavedLog(save, saved) IN
    /\ save.thread = "sleep" /\ save.wake <= clock /\ ~save.crashed
    /\ \/ /\ main.term /\ save' = [save EXCEPT !.thread = "quit"] /\ saved' = saved
       \/ /\ ~main.term /\ save' = [f.s EXCEPT !.wake = clock + CacheTime] /\ saved' = f.out
    /\ UNCHANGED <<side, clock, main, conns, clientVars, logger>>

(* _createSaveLogLocation: the result is that of the last location asked   *)
(* for, whatever became of the ones before.                                *)
LocationOrder == <<"tty", "stdout", "file">>
CreateSaveLogLocation(on, bad) ==
    [on |-> on, locs |-> on \ bad,
     ok |-> LET asked == SelectSeq(LocationOrder, LAMBDA x : x \in on)
            IN asked = <<>> \/ Last(asked) \notin bad]

(* finiLogSave: a list that was never initialized cannot be walked.        *)
FiniLogSave(s, out) ==
    LET f == FlushSavedLog(s, out, MaxTime + CacheTime) IN
    [s |-> [f.s EXCEPT !.crashed = @ \/ ~s.ready, !.list = <<>>, !.locs = {}, !.init = FALSE],
     out |-> f.out]

(* initLogSave: mutex, locations, thread.                                  *)
InitLogSave(on, bad, threadOk) ==
    LET l == CreateSaveLogLocation(on, bad)
        ok == l.ok /\ threadOk
        s == [init |-> ok, ready |-> TRUE, list |-> <<>>, num |-> 0, on |-> l.on, locs |-> l.locs,
              thread |-> IF ok THEN "sleep" ELSE "none", wake |-> clock, crashed |-> FALSE]
    IN [s |-> IF ok THEN s ELSE FiniLogSave(s, <<>>).s, ok |-> ok]

-----------------------------------------------------------------------------
(* logserver.c and main.c.                                                 *)

(* initLogServer: step names the one that fails.  A failure finalizes at   *)
(* once, and main finalizes again after its sleep.                         *)
InitLogServer(on, bad, step) ==
    LET i == InitLogSave(on, bad, step # "thread")
        s == IF step = "directory" THEN save ELSE i.s
        ok == i.ok /\ step = "none"
    IN /\ main.pc = "start"
       /\ save' = IF ok THEN s ELSE FiniLogSave(s, saved).s
       /\ main' = IF ok THEN [main EXCEPT !.pc = "running"]
                  ELSE [main EXCEPT !.pc = "wait", !.wake = clock + StopWait]
       /\ UNCHANGED <<side, clock, saved, conns, clientVars, logger>>

(* The chain reads some cells of a connection; every message they complete *)
(* is handled before it reads again.                                       *)
Complete(c) == Len(conns[c].buf) >= MsgCells
Receive(c, k) ==
    /\ ServerUp /\ k <= Len(conns[c].cells)
    /\ \A d \in 1..MaxConns : ~Complete(d)
    /\ conns' = [conns EXCEPT ![c].cells = SubSeq(@, k + 1, Len(@)),
                              ![c].buf = @ \o SubSeq(conns[c].cells, 1, k)]
    /\ UNCHANGED <<side, clock, serverVars, clientVars, logger>>

(* _validateLogServerReqMsg and _procesLogServerMsg: a message that does   *)
(* not start with the signature discards what was read.                    *)
ProcesLogServerMsg(c) ==
    LET buf == conns[c].buf
        valid == buf[1].i = 1 IN
    /\ ServerUp /\ Complete(c)
    /\ conns' = [conns EXCEPT ![c].buf = IF valid THEN SubSeq(@, MsgCells + 1, Len(@)) ELSE <<>>]
    /\ save' = IF valid THEN SaveLogToQueue(save, SubSeq(buf, 1, MsgCells)) ELSE save
    /\ UNCHANGED <<side, clock, main, saved, clientVars, logger>>

(* _onLogServerDisconnect: what was not a whole message goes with the      *)
(* connection.                                                             *)
Disconnect(c) ==
    /\ ServerUp /\ ~conns[c].open /\ conns[c].cells = <<>> /\ conns[c].buf # <<>> /\ ~Complete(c)
    /\ conns' = [conns EXCEPT ![c].buf = <<>>]
    /\ UNCHANGED <<side, clock, serverVars, clientVars, logger>>

(* _logServerSignalHandler and stopLogServer; the chain may still handle   *)
(* what it was at before it returns to main, which sleeps and finalizes.   *)
StopLogServer ==
    /\ main.pc = "running"
    /\ main' = [main EXCEPT !.pc = "stopping", !.stopped = TRUE, !.term = TRUE]
    /\ UNCHANGED <<side, clock, save, saved, conns, clientVars, logger>>

ChainReturns ==
    /\ main.pc = "stopping" /\ \A c \in 1..MaxConns : ~Complete(c)
    /\ main' = [main EXCEPT !.pc = "wait", !.wake = clock + StopWait]
    /\ UNCHANGED <<side, clock, save, saved, conns, clientVars, logger>>

FiniLogServer ==
    LET f == FiniLogSave(save, saved) IN
    /\ main.pc = "wait" /\ main.wake <= clock /\ ~save.crashed
    /\ save' = f.s /\ saved' = f.out
    /\ main' = [main EXCEPT !.pc = "exited"]
    /\ UNCHANGED <<side, clock, conns, clientVars, logger>>

(* A second passes: not while a thread that is due has not run, and not    *)
(* while a log on its way to a server that is up has used its latency.     *)
OnItsWay == {Log(t) : t \in {u \in Threads : thr[u].pc # "idle"}}
            \cup UNION {{x.log : x \in Range(conns[c].cells \o conns[c].buf)} : c \in 1..MaxConns}
Tick ==
    /\ clock < MaxTime
    /\ save.thread = "sleep" => save.wake > clock
    /\ main.pc = "wait" => main.wake > clock
    /\ main.pc \notin {"start", "stopping"}
    /\ ServerUp => \A l \in OnItsWay : clock < l.time + MaxDelay
    /\ clock' = clock + 1
    /\ UNCHANGED <<side, serverVars, conns, clientVars, logger>>

Remote ==
    \/ \E t \in Threads : \/ LogToServer(t) \/ CloseAndRetry(t)
                          \/ \E k \in 0..MsgCells : Attempt(t, k)
    \/ \E s \in Starts : InitLogServer(s.on, s.bad, s.step)
    \/ \E c \in 1..MaxConns : \/ \E k \in 1..MsgCells : Receive(c, k)
                              \/ ProcesLogServerMsg(c) \/ Disconnect(c)
    \/ SaveLogThread \/ StopLogServer \/ ChainReturns \/ FiniLogServer \/ Tick

-----------------------------------------------------------------------------
(* The logger of a process that does not log to the server.                *)
Level(name) == CHOOSE i \in 1..Len(LevelNames) : LevelNames[i] = name
LocalOrder == <<"file", "stdout", "systemlog", "tty">>

NoLogger == [init |-> FALSE, mask |-> {}, level |-> "WARN", locs |-> {}, file |-> "none",
             crashed |-> FALSE, n |-> 0, out |-> [x \in Range(LocalOrder) |-> <<>>],
             want |-> [x \in Range(LocalOrder) |-> <<>>]]

(* What a log at this level should reach, by the severities.               *)
Lets == [WARN |-> {"ERROR", "WARN"}, INFO |-> {"ERROR", "WARN", "INFO"}]
Wanted(l, level) ==
    [x \in DOMAIN l.want |->
        IF l.init /\ x \in l.mask /\ level \in Lets[l.level]
        THEN Append(l.want[x], [n |-> l.n + 1, level |-> level]) ELSE l.want[x]]

(* The destroy routines of jf_logger_fini.                                 *)
Destroyed(l) == [l EXCEPT !.init = FALSE, !.locs = {}, !.file = "none"]

(* _logToFile: a write that fails reopens the file, and one that cannot be *)
(* reopened leaves a null FILE for the next log.                           *)
FileOutcomes(l) ==
    IF l.file = "null" THEN {[wrote |-> FALSE, file |-> "null"]}
    ELSE {[wrote |-> TRUE, file |-> "open"], [wrote |-> FALSE, file |-> "open"],
          [wrote |-> FALSE, file |-> "null"]}

(* _logToTty: its tty is reopened on every failure, so that each log may   *)
(* be written or not.                                                      *)
TtyOutcomes == {TRUE, FALSE}

(* _logToLocation.                                                         *)
LogToLocation(l, log, f, tty) ==
    LET gets(x) == x \in l.mask /\ (x = "file" => f.wrote) /\ (x = "tty" => tty)
    IN [l EXCEPT !.out = [x \in DOMAIN @ |-> IF gets(x) THEN Append(@[x], log) ELSE @[x]],
                 !.crashed = @ \/ ("file" \in l.mask /\ l.file = "null"),
                 !.file = IF "file" \in l.mask THEN f.file ELSE @]

(* jf_logger_logErrMsg .. jf_logger_logDataMsg: nothing unless initialized *)
(* and let through by the trace level.                                     *)
LogMsg(l, level, f, tty) ==
    LET log == [n |-> l.n + 1, level |-> level] IN
    IF l.init /\ l.mask # {} /\ Level(l.level) >= Level(level)
    THEN [LogToLocation(l, log, f, tty) EXCEPT !.n = log.n]
    ELSE [l EXCEPT !.n = log.n]

(* createFileLogLocation: the object goes when the file is not opened.     *)
FileLocation(opened) == IF opened THEN "open" ELSE "none"

(* _createOtherLogLocation: the first failure ends it, with the mask bit   *)
(* of the failing location set.                                            *)
CreateOtherLogLocation(l, asked, bad) ==
    LET seq == SelectSeq(LocalOrder, LAMBDA x : x \in asked)
        fails == {i \in 1..Len(seq) : seq[i] \in bad}
        n == IF fails = {} THEN Len(seq) ELSE CHOOSE i \in fails : \A j \in fails : i <= j
        done == {seq[i] : i \in 1..n}
    IN [l |-> [l EXCEPT !.mask = done, !.locs = done \ bad,
                        !.file = FileLocation("file" \in done \ bad)],
        ok |-> fails = {}]

(* jf_logger_init, with its own first log; jf_logger_fini on failure.      *)
LoggerInit(asked, bad, level) ==
    LET c == CreateOtherLogLocation([logger EXCEPT !.level = level], asked, bad) IN
    /\ ~logger.init /\ ~logger.crashed /\ logger.n < MaxLocal
    /\ logger' = IF c.ok
                 THEN LET l == [c.l EXCEPT !.init = TRUE]
                      IN [LogMsg(l, "INFO", [wrote |-> TRUE, file |-> l.file], TRUE)
                             EXCEPT !.want = Wanted(l, "INFO")]
                 ELSE Destroyed(c.l)
    /\ UNCHANGED <<side, remoteVars>>

LoggerFini ==
    /\ ~logger.crashed /\ logger.n < MaxLocal
    /\ \E f \in FileOutcomes(logger), tty \in TtyOutcomes :
          logger' = [Destroyed(LogMsg(logger, "INFO", f, tty)) EXCEPT !.want = Wanted(logger, "INFO")]
    /\ UNCHANGED <<side, remoteVars>>

LocalLog(level) ==
    /\ ~logger.crashed /\ logger.n < MaxLocal
    /\ \E f \in FileOutcomes(logger), tty \in TtyOutcomes :
          logger' = [LogMsg(logger, level, f, tty) EXCEPT !.want = Wanted(logger, level)]
    /\ UNCHANGED <<side, remoteVars>>

Local ==
    \/ \E asked \in {{"stdout", "tty"}, {"file", "systemlog"}, {"file", "tty"}}, bad \in {{}, {"tty"}, {"file"}},
          level \in {"WARN", "INFO"} : LoggerInit(asked, bad, level)
    \/ LoggerFini
    \/ \E level \in {"ERROR", "WARN", "DEBUG"} : LocalLog(level)

-----------------------------------------------------------------------------
LoggingInit ==
    /\ side \in {"remote", "local"}
    /\ clock = CacheTime
    /\ thr = [t \in Threads |-> Idle(0)]
    /\ sock = [p \in Processes |-> 0] /\ made = 0
    /\ conns = [c \in 1..MaxConns |-> [open |-> FALSE, cells |-> <<>>, buf |-> <<>>]]
    /\ main = [pc |-> "start", stopped |-> FALSE, term |-> FALSE, wake |-> 0]
    /\ save = [init |-> FALSE, ready |-> FALSE, list |-> <<>>, num |-> 0, on |-> {}, locs |-> {},
               thread |-> "none", wake |-> 0, crashed |-> FALSE]
    /\ saved = <<>> /\ accepted = {} /\ logger = NoLogger

LoggingNext == \/ side = "remote" /\ Remote
               \/ side = "local" /\ Local

LoggingSpec == LoggingInit /\ [][LoggingNext]_vars

-----------------------------------------------------------------------------
(* The server writes the logs of all processes in the order of their       *)
(* stamps, although connections deliver them out of order: the cache time  *)
(* of _tryFlushSavedLog covers the latency.                                *)
SavedInOrder ==
    \A i, j \in 1..Len(saved) : i < j => Stamp(saved[i]) <= Stamp(saved[j])

(* What the server queues and writes are whole logs that a process wrote,  *)
(* each at most once whatever sends were short and retried; a log whose    *)
(* send went through is on its way, queued or written, also when it was    *)
(* queued after the stop and only finiLogSave wrote it; and the counter of *)
(* the list is its length.                                                 *)
LogsExact ==
    LET have == saved \o save.list IN
    /\ \A i \in 1..Len(have) : have[i] = Cells(have[i][1].log)
    /\ IsInjective(have)
    /\ save.num = Len(save.list)
    /\ ServerUp \/ main.pc = "wait" =>
          \A l \in accepted \ OnItsWay : Cells(l) \in Range(have)
    /\ main.pc = "exited" /\ ~save.crashed =>
          \A l \in accepted \ OnItsWay : Cells(l) \in Range(saved)

(* Once the server has been started, the saving thread has quit when       *)
(* finiLogServer destroys what the thread uses without taking its lock.    *)
ThreadGoneAtFini ==
    main.pc = "exited" /\ main.stopped => save.thread = "quit"

(* A process's logger writes exactly the logs its trace level lets         *)
(* through: stdout and the system log get all of them, the others some of  *)
(* them in the same order, and a location is in the mask of an initialized *)
(* logger only when it was made.                                           *)
LocalLogsExact ==
    /\ logger.init => logger.mask = logger.locs
    /\ ~logger.init => logger.locs = {}
    /\ \A x \in DOMAIN logger.out :
          \A i, j \in 1..Len(logger.out[x]) : i < j => logger.out[x][i].n < logger.out[x][j].n
    /\ \A x \in {"stdout", "systemlog"} : logger.out[x] = logger.want[x]
    /\ \A x \in {"file", "tty"} : Range(logger.out[x]) \subseteq Range(logger.want[x])

(* Every location that is switched on has its object.  VIOLATED: a tty     *)
(* that cannot be opened ("Failed to Initialize logger, cannot open tty",  *)
(* log2tty.c) is forgotten when a later location can be, the server starts *)
(* and the first log it flushes is written to a location that is not there.*)
LocationsMade == save.init => save.on \subseteq save.locs
============================================================================
