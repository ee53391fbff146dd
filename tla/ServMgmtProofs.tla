--------------------------- MODULE ServMgmtProofs ---------------------------
(***************************************************************************)
(* Proofs about the service management daemon: for any number of services, *)
(* any retry count and any order of requests, timers, signals and ends of  *)
(* processes, its supervision is sound.                                    *)
(*                                                                         *)
(* The routines of servmgmt.c work on one entry of the service array at a  *)
(* time, so the invariant has two layers.  ServOK says what every routine  *)
(* keeps of one entry; it has a lemma per routine.  Inv adds where the     *)
(* main thread is: services it has not come to yet were never started, and *)
(* those it has passed in _stopAllServices do not run.                     *)
(***************************************************************************)
EXTENDS ServMgmt, TLAPS

\* One entry of the service array is in order: the handle is that of a
\* process ever started, a running service has one, no other process is at
\* work, and the automatic starts, made or to come, are within the count.
ServOK(v) ==
    /\ v \in Service
    /\ v.handle \in 0 .. Len(v.proc)
    /\ v.status = "running" => v.handle # 0
    /\ \A k \in DOMAIN v.proc :
          v.proc[k] = "run" => v.handle = k /\ v.status = "running"
    /\ v.autos + v.timers <= v.count

\* The service array.
AllOK == serv \in [Servs -> Service] /\ \A s \in Servs : ServOK(serv[s])

\* The states of the main thread, and the answers to a request.
MainStates == [at : {"start", "chain", "fini", "stopAll", "done"},
               i : 1 .. NumOfService + 1, err : BOOLEAN]
Replies == [req : {"none", "start", "stop", "set"}, s : 0 .. NumOfService, ok : BOOLEAN]

\* The types of the other variables; _stopAllServices ends with a failure or
\* after the last service.
RestOK ==
    /\ file \in [Servs -> Types \cup {"empty", "torn"}]
    /\ checks \in Nat
    /\ sigchld \in BOOLEAN /\ ignored \in BOOLEAN
    /\ sigThread \in BOOLEAN /\ toStop \in BOOLEAN
    /\ main \in MainStates
    /\ reply \in Replies
    /\ exits \in Nat /\ requests \in Nat /\ faults \in Nat
    /\ main.at = "done" => main.err \/ main.i > NumOfService

\* The services the main thread has not come to yet, and those it has passed.
MainOK ==
    /\ main.at = "start" =>
          \A s \in Servs : s >= main.i => serv[s].status = "unknown"
    /\ main.at \in {"stopAll", "done"} =>
          \A s \in Servs : s < main.i => serv[s].status # "running"

\* The inductive invariant.
Inv == AllOK /\ RestOK /\ MainOK

-----------------------------------------------------------------------------
(* The routines on one service.                                            *)


\* The fields of an entry that is in order.
LEMMA FieldTypes ==
    ASSUME NEW v, ServOK(v)
    PROVE  /\ v \in Service
           /\ v.count \in Nat /\ v.count <= FailureRetryCount
           /\ v.handle \in Nat /\ v.handle <= Len(v.proc)
           /\ v.proc \in Seq(ProcStates) /\ Len(v.proc) \in Nat
           /\ DOMAIN v.proc = 1 .. Len(v.proc)
           /\ v.timers \in Nat /\ v.autos \in Nat
           /\ v.autos + v.timers <= v.count
  BY ServMgmtAssumption DEF ServOK, Service

\* A service that does not run has no process at work.
LEMMA NoneAtWork ==
    ASSUME NEW v, ServOK(v), v.status # "running"
    PROVE  \A k \in DOMAIN v.proc : v.proc[k] # "run"
  BY DEF ServOK

\* The status of a service with no process at work may be set to another
\* than "running".
LEMMA StatusKeepsOrder ==
    ASSUME NEW v, ServOK(v), \A k \in DOMAIN v.proc : v.proc[k] # "run",
           NEW status \in {"stopped", "error"}
    PROVE  ServOK([v EXCEPT !.status = status])
  <1> DEFINE w == [v EXCEPT !.status = status]
  <1>1. v \in Service
    BY DEF ServOK
  <1>2. w \in Service
    BY <1>1 DEF Service
  <1>3. /\ w.status = status /\ w.handle = v.handle /\ w.proc = v.proc
        /\ w.timers = v.timers /\ w.autos = v.autos /\ w.count = v.count
    BY <1>1 DEF Service
  <1> HIDE DEF w
  <1>4. ServOK(w)
    BY <1>2, <1>3 DEF ServOK
  <1> QED
    BY <1>4 DEF w

\* _startServMgmtServ, called for a service that does not run, keeps the
\* entry in order whether fork fails or not.
LEMMA StartKeepsOrder ==
    ASSUME NEW v, ServOK(v), v.status # "running", NEW ok \in BOOLEAN
    PROVE  ServOK(StartServMgmtServ(v, ok))
  <1>1. CASE ok
    <2> DEFINE n == Len(v.proc) + 1
               p == Append(v.proc, "run")
               w == StartServMgmtServ(v, ok)
    <2>1. w = [v EXCEPT !.handle = n, !.proc = p, !.status = "running"]
      BY <1>1, FieldTypes DEF StartServMgmtServ, CreateProcess, Service
    <2>2. p \in Seq(ProcStates) /\ Len(p) = n /\ n \in Nat /\ n # 0
      BY FieldTypes DEF ProcStates
    <2>3. \A k \in DOMAIN p : p[k] = "run" => n = k
      BY NoneAtWork, FieldTypes
    <2>4. v \in Service
      BY DEF ServOK
    <2> HIDE DEF n, p, w
    <2>5. w \in Service
      BY <2>1, <2>2, <2>4 DEF Service
    <2>6. /\ w.status = "running" /\ w.handle = n /\ w.proc = p
          /\ w.timers = v.timers /\ w.autos = v.autos /\ w.count = v.count
      BY <2>1, <2>4 DEF Service
    <2>7. ServOK(w)
      BY <2>2, <2>3, <2>5, <2>6 DEF ServOK
    <2> QED
      BY <2>7 DEF w
  <1>2. CASE ~ok
    <2>1. ServOK([v EXCEPT !.status = "error"])
      BY NoneAtWork, StatusKeepsOrder
    <2> QED
      BY <1>2, <2>1 DEF StartServMgmtServ
  <1> QED
    BY <1>1, <1>2

\* An attempt is counted.
LEMMA CountKeepsOrder ==
    ASSUME NEW v, ServOK(v), v.count < FailureRetryCount, NEW w, w = [v EXCEPT !.count = @ + 1]
    PROVE  ServOK(w) /\ w.status = v.status /\ w.autos + w.timers < w.count
  <1>1. v \in Service /\ v.count \in Nat
    BY FieldTypes
  <1>2. v.count + 1 \in 0 .. FailureRetryCount
    BY <1>1, ServMgmtAssumption
  <1>3. w \in Service
    BY <1>1, <1>2 DEF Service
  <1>4. /\ w.status = v.status /\ w.handle = v.handle /\ w.proc = v.proc
        /\ w.timers = v.timers /\ w.autos = v.autos /\ w.count = v.count + 1
    BY <1>1 DEF Service
  <1>5. w.autos + w.timers < w.count
    BY <1>4, FieldTypes
  <1> QED
    BY <1>3, <1>4, <1>5, FieldTypes DEF ServOK

\* A counted attempt is a start ...
LEMMA AutosKeepsOrder ==
    ASSUME NEW v, ServOK(v), v.autos + v.timers < v.count, NEW w, w = [v EXCEPT !.autos = @ + 1]
    PROVE  ServOK(w) /\ w.status = v.status
  <1>1. v \in Service /\ v.autos \in Nat /\ v.autos + 1 \in Nat
    BY FieldTypes
  <1>2. w \in Service
    BY <1>1 DEF Service
  <1>3. /\ w.status = v.status /\ w.handle = v.handle /\ w.proc = v.proc
        /\ w.timers = v.timers /\ w.autos = v.autos + 1 /\ w.count = v.count
    BY <1>1 DEF Service
  <1>4. w.autos + w.timers <= w.count
    BY <1>3, FieldTypes
  <1> QED
    BY <1>2, <1>3, <1>4 DEF ServOK

\* ... or an item of the utimer, which is taken off again.
LEMMA TimersKeepsOrder ==
    ASSUME NEW v, ServOK(v), NEW n \in Nat, v.autos + n <= v.count,
           NEW w, w = [v EXCEPT !.timers = n]
    PROVE  /\ ServOK(w) /\ w.status = v.status
           /\ w.autos = v.autos /\ w.timers = n /\ w.count = v.count
  <1>1. v \in Service
    BY FieldTypes
  <1>2. w \in Service
    BY <1>1 DEF Service
  <1>3. /\ w.status = v.status /\ w.handle = v.handle /\ w.proc = v.proc
        /\ w.timers = n /\ w.autos = v.autos /\ w.count = v.count
    BY <1>1 DEF Service
  <1> QED
    BY <1>2, <1>3 DEF ServOK

\* _tryStartServMgmtServ, called for a service that does not run: a start, or
\* an item of the utimer, for one count more, and none when the count is used
\* up.
LEMMA TryStartKeepsOrder ==
    ASSUME NEW v, ServOK(v), v.status # "running", NEW ok \in BOOLEAN
    PROVE  ServOK(TryStartServMgmtServ(v, ok))
  <1> DEFINE u == [v EXCEPT !.count = @ + 1]
  <1>0. v.count \in Nat
    BY FieldTypes
  <1>1. CASE v.count >= FailureRetryCount
    <2>1. TryStartServMgmtServ(v, ok) = [v EXCEPT !.status = "error"]
      BY <1>0, <1>1, ServMgmtAssumption DEF TryStartServMgmtServ
    <2> QED
      BY <2>1, NoneAtWork, StatusKeepsOrder
  <1>2. CASE v.count < FailureRetryCount /\ v.count = 0
    <2> DEFINE w == [u EXCEPT !.autos = @ + 1]
    <2>1. TryStartServMgmtServ(v, ok) = StartServMgmtServ(w, ok)
      BY <1>0, <1>2, ServMgmtAssumption DEF TryStartServMgmtServ
    <2>2. ServOK(u) /\ u.status = v.status /\ u.autos + u.timers < u.count
      BY <1>2, CountKeepsOrder
    <2> HIDE DEF u
    <2>3. ServOK(w) /\ w.status = v.status
      BY <2>2, AutosKeepsOrder
    <2> HIDE DEF w
    <2> QED
      BY <2>1, <2>3, StartKeepsOrder
  <1>3. CASE v.count < FailureRetryCount /\ v.count > 0
    <2>1. TryStartServMgmtServ(v, ok) = [u EXCEPT !.timers = IF ok THEN @ + 1 ELSE @]
      BY <1>0, <1>3, ServMgmtAssumption DEF TryStartServMgmtServ
    <2>2. ServOK(u) /\ u.autos + u.timers < u.count
      BY <1>3, CountKeepsOrder
    <2> HIDE DEF u
    <2> DEFINE n == IF ok THEN u.timers + 1 ELSE u.timers
               w == [u EXCEPT !.timers = n]
    <2>3. n \in Nat /\ u.autos + n <= u.count
      <3>1. u.timers \in Nat /\ u.autos \in Nat /\ u.count \in Nat
        BY <2>2, FieldTypes
      <3>2. CASE ok
        BY <2>2, <3>1, <3>2
      <3>3. CASE ~ok
        BY <2>2, <3>1, <3>3
      <3> QED
        BY <3>2, <3>3
    <2>4. TryStartServMgmtServ(v, ok) = w
      BY <2>1
    <2> HIDE DEF n
    <2>5. ServOK(w)
      BY <2>2, <2>3, TimersKeepsOrder
    <2> QED
      BY <2>4, <2>5
  <1> QED
    BY <1>0, <1>1, <1>2, <1>3, ServMgmtAssumption

\* The body of the loop of _handleChildProcess.
LEMMA CheckKeepsOrder ==
    ASSUME NEW v, ServOK(v), NEW ok \in BOOLEAN
    PROVE  ServOK(CheckChildProcess(v, ok))
  <1>1. CASE v.status = "running" /\ HasEnded(v)
    <2> DEFINE p == [v.proc EXCEPT ![v.handle] = "gone"]
               w == [v EXCEPT !.status = "stopped", !.proc[v.handle] = "gone"]
    <2>1. v.handle \in 1 .. Len(v.proc) /\ v.proc[v.handle] = "zombie"
      BY <1>1, FieldTypes DEF HasEnded
    <2>2. p \in Seq(ProcStates) /\ Len(p) = Len(v.proc) /\ DOMAIN p = DOMAIN v.proc
      BY <2>1, FieldTypes DEF ProcStates
    <2>3. \A k \in DOMAIN p : p[k] # "run"
      BY <2>1, <2>2, FieldTypes DEF ServOK
    <2>4. v \in Service
      BY DEF ServOK
    <2>5. w = [v EXCEPT !.status = "stopped", !.proc = p]
      BY <2>4 DEF Service
    <2>6. CheckChildProcess(v, ok) = TryStartServMgmtServ(w, ok)
      BY <1>1 DEF CheckChildProcess
    <2> HIDE DEF p, w
    <2>7. w \in Service
      BY <2>2, <2>4, <2>5 DEF Service
    <2>8. /\ w.status = "stopped" /\ w.handle = v.handle /\ w.proc = p
          /\ w.timers = v.timers /\ w.autos = v.autos /\ w.count = v.count
      BY <2>4, <2>5 DEF Service
    <2>9. ServOK(w)
      BY <2>2, <2>3, <2>7, <2>8 DEF ServOK
    <2> QED
      BY <2>6, <2>8, <2>9, TryStartKeepsOrder
  <1>2. CASE ~(v.status = "running" /\ HasEnded(v))
    BY <1>2 DEF CheckChildProcess
  <1> QED
    BY <1>1, <1>2

\* _stopServMgmtServ for a service that runs: no process of it is at work
\* afterwards.
LEMMA StopKeepsOrder ==
    ASSUME NEW v, ServOK(v), v.status = "running"
    PROVE  /\ ServOK(StopServMgmtServ(v))
           /\ \A k \in DOMAIN StopServMgmtServ(v).proc : StopServMgmtServ(v).proc[k] # "run"
  <1> DEFINE w == StopServMgmtServ(v)
  <1>0. v \in Service /\ v.handle \in 1 .. Len(v.proc) /\ v.handle \in DOMAIN v.proc
    BY FieldTypes DEF ServOK
  <1>1. CASE CanKill(v)
    <2> DEFINE e == IF v.proc[v.handle] = "run" THEN "told" ELSE v.proc[v.handle]
               p == [v.proc EXCEPT ![v.handle] = e]
    <2>1. w = [v EXCEPT !.handle = 0, !.proc = p, !.status = "stopped"]
      BY <1>0, <1>1 DEF StopServMgmtServ, TerminateProcess, Service
    <2>2. e \in ProcStates /\ e # "run"
      BY <1>0, FieldTypes DEF ProcStates
    <2> HIDE DEF e
    <2>3. p \in Seq(ProcStates) /\ Len(p) = Len(v.proc) /\ DOMAIN p = DOMAIN v.proc
      BY <1>0, <2>2, FieldTypes
    <2>4. \A k \in DOMAIN p : p[k] # "run"
      BY <1>0, <2>2, <2>3 DEF ServOK
    <2> HIDE DEF p, w
    <2>5. w \in Service
      BY <1>0, <2>1, <2>3 DEF Service
    <2>6. /\ w.status = "stopped" /\ w.handle = 0 /\ w.proc = p
          /\ w.timers = v.timers /\ w.autos = v.autos /\ w.count = v.count
      BY <1>0, <2>1 DEF Service
    <2>7. Len(p) \in Nat
      BY <2>3, FieldTypes
    <2>8. ServOK(w)
      BY <2>3, <2>4, <2>5, <2>6, <2>7 DEF ServOK
    <2> QED
      BY <2>4, <2>6, <2>8 DEF w
  <1>2. CASE ~CanKill(v)
    <2>1. w = v
      BY <1>0, <1>2 DEF StopServMgmtServ, Service
    <2>2. \A k \in DOMAIN v.proc : v.proc[k] # "run"
      BY <1>0, <1>2 DEF CanKill, ServOK
    <2> QED
      BY <2>1, <2>2
  <1> QED
    BY <1>1, <1>2

\* A process of the service ends.
LEMMA ExitKeepsOrder ==
    ASSUME NEW v, ServOK(v), NEW k \in DOMAIN v.proc, NEW e \in {"gone", "zombie"}
    PROVE  /\ ServOK([v EXCEPT !.proc[k] = e])
           /\ [v EXCEPT !.proc[k] = e].status = v.status
  <1> DEFINE p == [v.proc EXCEPT ![k] = e]
             w == [v EXCEPT !.proc[k] = e]
  <1>1. v \in Service
    BY DEF ServOK
  <1>2. p \in Seq(ProcStates) /\ Len(p) = Len(v.proc) /\ DOMAIN p = DOMAIN v.proc
    BY FieldTypes DEF ProcStates
  <1>3. \A j \in DOMAIN p : p[j] = "run" => v.handle = j /\ v.status = "running"
    BY <1>2 DEF ServOK
  <1>4. w = [v EXCEPT !.proc = p]
    BY <1>1 DEF Service
  <1> HIDE DEF p, w
  <1>5. w \in Service
    BY <1>1, <1>2, <1>4 DEF Service
  <1>6. /\ w.status = v.status /\ w.handle = v.handle /\ w.proc = p
        /\ w.timers = v.timers /\ w.autos = v.autos /\ w.count = v.count
    BY <1>1, <1>4 DEF Service
  <1>7. ServOK(w)
    BY <1>2, <1>3, <1>5, <1>6 DEF ServOK
  <1> QED
    BY <1>6, <1>7 DEF w

\* A request notes the wish of the user, or changes the startup type.
LEMMA WishKeepsOrder ==
    ASSUME NEW v, ServOK(v), NEW wish \in {"start", "stop"}, NEW w,
           w = [v EXCEPT !.wish = wish]
    PROVE  ServOK(w) /\ w.status = v.status
  <1>1. v \in Service
    BY DEF ServOK
  <1>2. w \in Service
    BY <1>1 DEF Service
  <1>3. /\ w.status = v.status /\ w.handle = v.handle /\ w.proc = v.proc
        /\ w.timers = v.timers /\ w.autos = v.autos /\ w.count = v.count
    BY <1>1 DEF Service
  <1> QED
    BY <1>2, <1>3 DEF ServOK

\* The startup type is no part of the order of an entry.
LEMMA ModifyKeepsOrder ==
    ASSUME NEW v, ServOK(v), NEW type \in Types, NEW end
    PROVE  /\ ServOK(ModifyServiceStartupType(v, type, end))
           /\ ModifyServiceStartupType(v, type, end).status = v.status
  <1> DEFINE n == IF end = "no memory" THEN "empty" ELSE type
             w == [v EXCEPT !.startup = type, !.node = n]
  <1>1. v \in Service
    BY DEF ServOK
  <1>2. n \in Types \cup {"empty"}
    OBVIOUS
  <1>3. ModifyServiceStartupType(v, type, end) = w
    BY DEF ModifyServiceStartupType
  <1> HIDE DEF n
  <1>4. w \in Service
    BY <1>1, <1>2 DEF Service
  <1>5. /\ w.status = v.status /\ w.handle = v.handle /\ w.proc = v.proc
        /\ w.timers = v.timers /\ w.autos = v.autos /\ w.count = v.count
    BY <1>1 DEF Service
  <1> HIDE DEF w
  <1> QED
    BY <1>3, <1>4, <1>5 DEF ServOK

-----------------------------------------------------------------------------
(* The service array.                                                      *)

\* A step that puts an entry in order into the array.
LEMMA OneEntry ==
    ASSUME AllOK, NEW s \in Servs, NEW w, ServOK(w), serv' = [serv EXCEPT ![s] = w]
    PROVE  /\ AllOK' /\ serv'[s] = w
           /\ \A r \in Servs : r # s => serv'[r] = serv[r]
  BY DEF AllOK, ServOK

\* A step in the chain, or one that leaves the status of every service
\* alone, leaves the main thread where it is.
LEMMA MainStays ==
    ASSUME MainOK, UNCHANGED main,
           \/ main.at = "chain"
           \/ \A s \in Servs : serv'[s].status = serv[s].status
    PROVE  MainOK'
  BY DEF MainOK

\* Before the first request there is an empty reply.
LEMMA NoReplyType == NoReply \in Replies
  BY ServMgmtAssumption DEF NoReply, Replies

-----------------------------------------------------------------------------
(* The steps.                                                              *)

\* readServMgmtSetting leaves every entry in order.
LEMMA InitInv == Init => Inv
  <1> SUFFICES ASSUME Init PROVE Inv
    OBVIOUS
  <1> USE ServMgmtAssumption
  <1>1. \A s \in Servs : ServOK(serv[s]) /\ serv[s].status = "unknown"
    <2> TAKE s \in Servs
    <2> DEFINE v == serv[s]
    <2>1. file[s] \in Types
      BY DEF Init
    <2>2. v = [status |-> "unknown", startup |-> file[s], node |-> file[s], count |-> 0,
               handle |-> 0, proc |-> <<>>, timers |-> 0, autos |-> 0, wish |-> "none"]
      BY DEF Init, ReadServMgmtSetting
    <2> HIDE DEF v
    <2>3. v \in Service
      BY <2>1, <2>2 DEF Service
    <2>4. ServOK(v) /\ v.status = "unknown"
      BY <2>2, <2>3 DEF ServOK
    <2> QED
      BY <2>4 DEF v
  <1>2. AllOK
    BY <1>1 DEF AllOK, Init, ReadServMgmtSetting, ServOK
  <1>3. RestOK
    <2>1. main \in MainStates /\ main.at # "done"
      BY DEF Init, MainStates
    <2> QED
      BY <2>1, NoReplyType DEF Init, RestOK
  <1>4. MainOK
    BY <1>1 DEF Init, MainOK
  <1> QED
    BY <1>2, <1>3, <1>4 DEF Inv

\* A process of a service ends.
LEMMA ExitInv ==
    ASSUME Inv, NEW s \in Servs, NEW k \in DOMAIN serv[s].proc, Exit(s, k)
    PROVE  Inv'
  <1>0. AllOK /\ RestOK /\ MainOK
    BY DEF Inv
  <1> DEFINE e == IF ignored THEN "gone" ELSE "zombie"
             w == [serv[s] EXCEPT !.proc[k] = e]
  <1>1. e \in {"gone", "zombie"} /\ ServOK(serv[s])
    BY <1>0 DEF AllOK
  <1>2. serv' = [serv EXCEPT ![s] = w]
    BY <1>0 DEF Exit, AllOK
  <1> HIDE DEF e
  <1>3. ServOK(w) /\ w.status = serv[s].status
    BY <1>1, ExitKeepsOrder
  <1> HIDE DEF w
  <1>4. AllOK' /\ \A r \in Servs : serv'[r].status = serv[r].status
    <2>1. /\ AllOK' /\ serv'[s] = w
          /\ \A r \in Servs : r # s => serv'[r] = serv[r]
      BY <1>0, <1>2, <1>3, OneEntry
    <2> QED
      BY <1>3, <2>1
  <1>5. MainOK'
    BY <1>0, <1>4, MainStays DEF Exit, daemon
  <1>6. RestOK'
    <2>1. sigchld' \in BOOLEAN /\ exits' \in Nat
      BY <1>0 DEF RestOK, Exit
    <2> QED
      BY <1>0, <2>1, NoReplyType DEF RestOK, Exit, daemon
  <1> QED
    BY <1>4, <1>5, <1>6 DEF Inv

\* The signal thread touches no service.
LEMMA SignalInv ==
    ASSUME Inv, HandleSigchld \/ HandleStop
    PROVE  Inv'
  <1>0. AllOK /\ RestOK /\ MainOK
    BY DEF Inv
  <1>1. UNCHANGED serv
    BY DEF HandleSigchld, HandleStop
  <1>2. RestOK'
    <2>1. CASE HandleSigchld
      <3>1. checks' \in Nat
        BY <1>0, <2>1 DEF RestOK, HandleSigchld
      <3> QED
        BY <1>0, <2>1, <3>1, NoReplyType DEF RestOK, HandleSigchld
    <2>2. CASE HandleStop
      BY <1>0, <2>2, NoReplyType DEF RestOK, HandleStop
    <2> QED
      BY <2>1, <2>2
  <1>3. UNCHANGED main
    BY DEF HandleSigchld, HandleStop
  <1> QED
    BY <1>0, <1>1, <1>2, <1>3 DEF Inv, AllOK, MainOK

\* The loop of _startAllServices comes to a service that was never started.
LEMMA StartAllInv ==
    ASSUME Inv, StartAllServices
    PROVE  Inv'
  <1> USE ServMgmtAssumption
  <1>0. AllOK /\ RestOK /\ MainOK /\ main \in MainStates /\ main.at = "start"
    BY DEF Inv, RestOK, StartAllServices
  <1>1. main.i \in 1 .. NumOfService + 1
    BY <1>0 DEF MainStates
  <1>2. CASE main.i > NumOfService
    <2>1. main' = [main EXCEPT !.at = "chain"] /\ UNCHANGED <<serv, faults>>
      BY <1>2 DEF StartAllServices
    <2>2. main' \in MainStates /\ main'.at = "chain"
      BY <1>0, <2>1 DEF MainStates
    <2>3. RestOK'
      BY <1>0, <2>1, <2>2, NoReplyType DEF RestOK, StartAllServices
    <2> QED
      BY <1>0, <2>1, <2>2, <2>3 DEF Inv, AllOK, MainOK
  <1>3. CASE ~(main.i > NumOfService)
    <2> DEFINE v == [serv[main.i] EXCEPT !.status = "stopped"]
    <2>1. main.i \in Servs
      BY <1>1, <1>3 DEF Servs
    <2>2. PICK ok \in BOOLEAN :
             /\ MayFail(ok)
             /\ serv' = [serv EXCEPT ![main.i] =
                            IF v.startup = "automatic" THEN StartServMgmtServ(v, ok) ELSE v]
             /\ main' = [main EXCEPT !.i = @ + 1, !.at = IF ok THEN @ ELSE "fini"]
      BY <1>3 DEF StartAllServices
    <2>3. ServOK(serv[main.i]) /\ serv[main.i].status = "unknown"
      BY <1>0, <1>1, <2>1 DEF AllOK, MainOK, MainStates
    <2>4. ServOK(v) /\ v.status # "running"
      <3>1. ServOK(v)
        BY <2>3, NoneAtWork, StatusKeepsOrder
      <3> QED
        BY <2>3, <3>1 DEF ServOK, Service
    <2> HIDE DEF v
    <2> DEFINE w == IF v.startup = "automatic" THEN StartServMgmtServ(v, ok) ELSE v
    <2>5. ServOK(w)
      BY <2>4, StartKeepsOrder
    <2>5a. serv' = [serv EXCEPT ![main.i] = w]
      BY <2>2
    <2> HIDE DEF w
    <2>6. AllOK' /\ \A r \in Servs : r # main.i => serv'[r] = serv[r]
      BY <1>0, <2>1, <2>5, <2>5a, OneEntry
    <2>7. /\ main' \in MainStates /\ main'.i = main.i + 1
          /\ main'.at \in {"start", "fini"}
      <3>1. main.i + 1 \in 1 .. NumOfService + 1
        BY <1>1, <1>3
      <3> QED
        BY <1>0, <2>2, <3>1 DEF MainStates
    <2>8. MainOK'
      BY <1>0, <1>1, <2>6, <2>7 DEF MainOK, Servs
    <2>9. RestOK'
      <3>1. faults' \in Nat
        BY <1>0, <2>2 DEF MayFail, RestOK
      <3> QED
        BY <1>0, <2>7, <3>1, NoReplyType DEF RestOK, StartAllServices
    <2> QED
      BY <2>6, <2>8, <2>9 DEF Inv
  <1> QED
    BY <1>2, <1>3

\* The main thread leaves the chain; finiServMgmt destroys the utimer.
LEMMA FiniInv ==
    ASSUME Inv, LeaveChain \/ FiniServMgmt
    PROVE  Inv'
  <1> USE ServMgmtAssumption
  <1>0. AllOK /\ RestOK /\ MainOK /\ main \in MainStates
    BY DEF Inv, RestOK
  <1>1. CASE LeaveChain
    <2>1. main' \in MainStates /\ main'.at = "fini"
      BY <1>0, <1>1 DEF MainStates, LeaveChain
    <2>2. RestOK'
      BY <1>0, <1>1, <2>1, NoReplyType DEF RestOK, LeaveChain
    <2> QED
      BY <1>0, <1>1, <2>1, <2>2 DEF Inv, AllOK, MainOK, LeaveChain
  <1>2. CASE FiniServMgmt
    <2>1. main' \in MainStates /\ main'.at = "stopAll" /\ main'.i = 1
      BY <1>2 DEF MainStates, FiniServMgmt
    <2>2. RestOK'
      BY <1>0, <1>2, <2>1, NoReplyType DEF RestOK, FiniServMgmt
    <2>3. \A s \in Servs : ServOK(serv'[s])
      <3> TAKE s \in Servs
      <3> DEFINE w == [serv[s] EXCEPT !.timers = 0]
      <3>1. ServOK(serv[s]) /\ serv'[s] = w
        BY <1>0, <1>2 DEF AllOK, FiniServMgmt
      <3>2. serv[s].autos + 0 <= serv[s].count
        BY <3>1, FieldTypes
      <3>3. ServOK(w)
        BY <3>1, <3>2, TimersKeepsOrder
      <3> QED
        BY <3>1, <3>3
    <2>4. AllOK'
      <3>1. serv' = [s \in Servs |-> serv'[s]]
        BY <1>2 DEF FiniServMgmt
      <3> QED
        BY <2>3, <3>1 DEF AllOK, ServOK
    <2>5. MainOK'
      BY <2>1 DEF MainOK, Servs
    <2> QED
      BY <2>2, <2>4, <2>5 DEF Inv
  <1> QED
    BY <1>1, <1>2

\* The loop of _stopAllServices leaves no service running behind it.
LEMMA StopAllInv ==
    ASSUME Inv, StopAllServices
    PROVE  Inv'
  <1> USE ServMgmtAssumption
  <1>0. AllOK /\ RestOK /\ MainOK /\ main \in MainStates /\ main.at = "stopAll"
    BY DEF Inv, RestOK, StopAllServices
  <1>1. main.i \in 1 .. NumOfService + 1 /\ main.err \in BOOLEAN
    BY <1>0 DEF MainStates
  <1>2. CASE main.i > NumOfService \/ main.err
    <2>1. main' = [main EXCEPT !.at = "done"] /\ UNCHANGED serv
      BY <1>2 DEF StopAllServices
    <2>2. main' \in MainStates /\ main'.at = "done" /\ main'.i = main.i /\ main'.err = main.err
      BY <1>0, <2>1 DEF MainStates
    <2>3. RestOK'
      BY <1>0, <1>2, <2>2, NoReplyType DEF RestOK, StopAllServices
    <2> QED
      BY <1>0, <2>1, <2>2, <2>3 DEF Inv, AllOK, MainOK
  <1>3. CASE ~(main.i > NumOfService \/ main.err)
    <2> DEFINE v == serv[main.i]
               running == v.status = "running"
               u == IF running THEN StopServMgmtServ(v) ELSE v
               w == [u EXCEPT !.status = "stopped"]
    <2>1. main.i \in Servs
      BY <1>1, <1>3 DEF Servs
    <2>2. /\ serv' = [serv EXCEPT ![main.i] = w]
          /\ main' = [main EXCEPT !.i = @ + 1, !.err = running /\ ~CanKill(v)]
      BY <1>3 DEF StopAllServices
    <2>3. ServOK(v)
      BY <1>0, <2>1 DEF AllOK
    <2> HIDE DEF v
    <2>4. ServOK(u) /\ \A k \in DOMAIN u.proc : u.proc[k] # "run"
      <3>1. CASE running
        BY <2>3, <3>1, StopKeepsOrder
      <3>2. CASE ~running
        BY <2>3, <3>2, NoneAtWork
      <3> QED
        BY <3>1, <3>2
    <2> HIDE DEF u
    <2>5. ServOK(w) /\ w.status = "stopped"
      <3>1. ServOK(w)
        BY <2>4, StatusKeepsOrder
      <3> QED
        BY <2>4, <3>1 DEF ServOK, Service
    <2> HIDE DEF w
    <2>6. /\ AllOK' /\ serv'[main.i].status = "stopped"
          /\ \A r \in Servs : r # main.i => serv'[r] = serv[r]
      BY <1>0, <2>1, <2>2, <2>5, OneEntry
    <2>7. main' \in MainStates /\ main'.i = main.i + 1 /\ main'.at = "stopAll"
      <3>1. main.i + 1 \in 1 .. NumOfService + 1
        BY <1>1, <1>3
      <3>2. (running /\ ~CanKill(v)) \in BOOLEAN
        OBVIOUS
      <3> HIDE DEF running
      <3> QED
        BY <1>0, <2>2, <3>1, <3>2 DEF MainStates
    <2>8. MainOK'
      BY <1>0, <1>1, <2>6, <2>7 DEF MainOK, Servs
    <2>9. RestOK'
      BY <1>0, <2>7, NoReplyType DEF RestOK, StopAllServices
    <2> QED
      BY <2>6, <2>8, <2>9 DEF Inv
  <1> QED
    BY <1>2, <1>3

\* _handleChildProcess starts again, or gives up, the services whose process
\* has ended.
LEMMA HandleChildInv ==
    ASSUME Inv, HandleChildProcess
    PROVE  Inv'
  <1>0. AllOK /\ RestOK /\ MainOK
    BY DEF Inv
  <1>1. PICK failing \in Servs \cup {0} :
           /\ MayFail(failing = 0)
           /\ serv' = [s \in Servs |-> CheckChildProcess(serv[s], s # failing)]
    BY DEF HandleChildProcess
  <1>2. \A s \in Servs : ServOK(serv'[s])
    <2> TAKE s \in Servs
    <2>1. ServOK(serv[s]) /\ (s # failing) \in BOOLEAN
      BY <1>0 DEF AllOK
    <2>2. ServOK(CheckChildProcess(serv[s], s # failing))
      BY <2>1, CheckKeepsOrder
    <2> QED
      BY <1>1, <2>2
  <1>3. AllOK'
    <2>1. serv' = [s \in Servs |-> serv'[s]]
      BY <1>1
    <2> QED
      BY <1>2, <2>1 DEF AllOK, ServOK
  <1>4. MainOK'
    BY <1>0, MainStays DEF HandleChildProcess
  <1>5. RestOK'
    <2>1. checks' \in Nat
      BY <1>0 DEF RestOK, HandleChildProcess
    <2>2. faults' \in Nat
      BY <1>0, <1>1 DEF RestOK, MayFail
    <2> QED
      BY <1>0, <2>1, <2>2, NoReplyType DEF RestOK, HandleChildProcess
  <1> QED
    BY <1>3, <1>4, <1>5 DEF Inv

\* _utimerStartService: an item of the utimer becomes an automatic start, or
\* nothing.
LEMMA UtimerStartInv ==
    ASSUME Inv, NEW s \in Servs, UtimerStartService(s)
    PROVE  Inv'
  <1>0. AllOK /\ RestOK /\ MainOK
    BY DEF Inv
  <1> DEFINE n == serv[s].timers - 1
             v == [serv[s] EXCEPT !.timers = n]
             u == [v EXCEPT !.autos = @ + 1]
  <1>1. ServOK(serv[s]) /\ serv[s].timers > 0
    BY <1>0 DEF AllOK, UtimerStartService
  <1>2. n \in Nat /\ serv[s].autos + n < serv[s].count /\ serv[s].autos + n <= serv[s].count
    BY <1>1, FieldTypes, SMTT(60)
  <1>3. \/ v.status = "stopped" /\ \E ok \in BOOLEAN :
              MayFail(ok) /\ serv' = [serv EXCEPT ![s] = StartServMgmtServ(u, ok)]
        \/ serv' = [serv EXCEPT ![s] = v] /\ UNCHANGED faults
    BY DEF UtimerStartService
  <1> HIDE DEF n
  <1>4. ServOK(v) /\ v.autos + v.timers < v.count
    BY <1>1, <1>2, TimersKeepsOrder
  <1> HIDE DEF v
  <1>5. ServOK(u) /\ u.status = v.status
    BY <1>4, AutosKeepsOrder
  <1> HIDE DEF u
  <1>6. AllOK' /\ faults' \in Nat
    <2>1. ASSUME v.status = "stopped", NEW ok \in BOOLEAN, MayFail(ok),
                 serv' = [serv EXCEPT ![s] = StartServMgmtServ(u, ok)]
          PROVE  AllOK' /\ faults' \in Nat
      <3>1. ServOK(StartServMgmtServ(u, ok))
        BY <1>5, <2>1, StartKeepsOrder
      <3>2. faults' \in Nat
        BY <1>0, <2>1 DEF RestOK, MayFail
      <3> QED
        BY <1>0, <2>1, <3>1, <3>2, OneEntry
    <2>2. CASE serv' = [serv EXCEPT ![s] = v] /\ UNCHANGED faults
      BY <1>0, <1>4, <2>2, OneEntry DEF RestOK
    <2> QED
      BY <1>3, <2>1, <2>2
  <1>7. MainOK'
    BY <1>0, MainStays DEF UtimerStartService
  <1>8. RestOK'
    BY <1>0, <1>6, NoReplyType DEF RestOK, UtimerStartService
  <1> QED
    BY <1>6, <1>7, <1>8 DEF Inv

\* A request is handled in the chain and answered.
LEMMA RequestInv ==
    ASSUME Inv, Request, AllOK', reply' \in Replies, faults' \in Nat,
           file' \in [Servs -> Types \cup {"empty", "torn"}]
    PROVE  Inv'
  <1>0. RestOK /\ MainOK
    BY DEF Inv
  <1>1. requests' \in Nat
    BY <1>0 DEF RestOK, Request
  <1>2. RestOK'
    BY <1>0, <1>1 DEF RestOK, Request
  <1>3. MainOK'
    BY <1>0, MainStays DEF Request
  <1> QED
    BY <1>2, <1>3 DEF Inv

\* startServMgmtServ for a request.
LEMMA ProcesStartInv ==
    ASSUME Inv, NEW s \in Servs, ProcesStartServ(s)
    PROVE  Inv'
  <1>0. AllOK /\ RestOK
    BY DEF Inv
  <1> DEFINE v == [serv[s] EXCEPT !.wish = "start"]
  <1>1. PICK ok \in BOOLEAN :
           /\ MayFail(ok)
           /\ serv' = [serv EXCEPT ![s] = StartOnRequest(v, ok)]
           /\ reply' = [req |-> "start", s |-> s, ok |-> ok]
    BY DEF ProcesStartServ
  <1>2. ServOK(serv[s])
    BY <1>0 DEF AllOK
  <1>3. ServOK(v)
    BY <1>2, WishKeepsOrder
  <1> HIDE DEF v
  <1>4. ServOK(StartOnRequest(v, ok))
    BY <1>3, StartKeepsOrder DEF StartOnRequest
  <1>5. AllOK'
    BY <1>0, <1>1, <1>4, OneEntry
  <1>6. reply' \in Replies
    BY <1>1, ServMgmtAssumption DEF Replies, Servs
  <1>7. faults' \in Nat
    BY <1>0, <1>1 DEF RestOK, MayFail
  <1>8. Request /\ UNCHANGED file
    BY DEF ProcesStartServ
  <1> QED
    BY <1>0, <1>5, <1>6, <1>7, <1>8, RequestInv DEF RestOK

\* stopServMgmtServ for a request.
LEMMA ProcesStopInv ==
    ASSUME Inv, NEW s \in Servs, ProcesStopServ(s)
    PROVE  Inv'
  <1>0. AllOK /\ RestOK
    BY DEF Inv
  <1> DEFINE v == [serv[s] EXCEPT !.wish = "stop"]
             ok == v.status = "running" => CanKill(v)
  <1>1. /\ serv' = [serv EXCEPT ![s] = StopOnRequest(v)]
        /\ reply' = [req |-> "stop", s |-> s, ok |-> ok]
        /\ UNCHANGED <<file, faults>>
        /\ Request
    BY DEF ProcesStopServ
  <1>2. ServOK(serv[s])
    BY <1>0 DEF AllOK
  <1>3. ServOK(v)
    BY <1>2, WishKeepsOrder
  <1>4. ok \in BOOLEAN
    OBVIOUS
  <1> HIDE DEF v, ok
  <1>5. ServOK(StopOnRequest(v))
    BY <1>3, StopKeepsOrder DEF StopOnRequest
  <1>6. AllOK'
    BY <1>0, <1>1, <1>5, OneEntry
  <1>7. reply' \in Replies
    BY <1>1, <1>4, ServMgmtAssumption DEF Replies, Servs
  <1> QED
    BY <1>0, <1>1, <1>6, <1>7, RequestInv DEF RestOK

\* setServMgmtServStartupType for a request.
LEMMA ProcesSetInv ==
    ASSUME Inv, NEW s \in Servs, NEW type \in Types, ProcesSetStartupType(s, type)
    PROVE  Inv'
  <1>0. AllOK /\ RestOK
    BY DEF Inv
  <1>1. Request
    BY DEF ProcesSetStartupType
  <1>2. s \in 0 .. NumOfService /\ faults \in Nat /\ faults + 1 \in Nat
    BY <1>0, ServMgmtAssumption DEF Servs, RestOK
  <1>3. CASE serv[s].startup = type
    <2>1. reply' = [req |-> "set", s |-> s, ok |-> TRUE] /\ UNCHANGED <<serv, file, faults>>
      BY <1>3 DEF ProcesSetStartupType
    <2>2. reply' \in Replies
      BY <2>1, ServMgmtAssumption DEF Replies, Servs
    <2> QED
      BY <1>0, <1>1, <2>1, <2>2, RequestInv DEF RestOK, AllOK
  <1>4. CASE serv[s].startup # type
    <2>1. PICK end \in {"saved", "no memory", "not opened", "torn"} :
             /\ MayFail(end = "saved")
             /\ serv' = [serv EXCEPT ![s] = ModifyServiceStartupType(@, type, end)]
             /\ file' = SaveXmlFile(serv', end)
             /\ reply' = [req |-> "set", s |-> s, ok |-> end = "saved"]
      BY <1>4 DEF ProcesSetStartupType
    <2> DEFINE w == ModifyServiceStartupType(serv[s], type, end)
    <2>2. ServOK(w)
      BY <1>0, ModifyKeepsOrder DEF AllOK
    <2>3. serv' = [serv EXCEPT ![s] = w]
      BY <2>1
    <2> HIDE DEF w
    <2>4. AllOK'
      BY <1>0, <2>2, <2>3, OneEntry
    <2>5. reply' \in Replies
      <3> DEFINE ok == end = "saved"
      <3>1. ok \in BOOLEAN /\ reply' = [req |-> "set", s |-> s, ok |-> ok]
        BY <2>1
      <3> HIDE DEF ok
      <3> QED
        BY <1>2, <3>1 DEF Replies
    <2>6. faults' \in Nat
      <3>1. faults' \in {faults, faults + 1}
        BY <2>1 DEF MayFail
      <3> QED
        BY <1>2, <3>1
    <2>7. file' \in [Servs -> Types \cup {"empty", "torn"}]
      <3>1. \A r \in Servs : serv'[r].node \in Types \cup {"empty"}
        BY <2>4 DEF AllOK, Service
      <3>2. CASE end = "saved"
        BY <2>1, <3>1, <3>2 DEF SaveXmlFile
      <3>3. CASE end = "torn"
        BY <2>1, <3>3 DEF SaveXmlFile
      <3>4. CASE end \notin {"saved", "torn"}
        BY <1>0, <2>1, <3>4 DEF SaveXmlFile, RestOK
      <3> QED
        BY <3>2, <3>3, <3>4
    <2> QED
      BY <1>1, <2>4, <2>5, <2>6, <2>7, RequestInv
  <1> QED
    BY <1>3, <1>4

\* Every step of the daemon, of its signal thread and of the processes keeps
\* the invariant.
LEMMA NextInv == Inv /\ [Next]_vars => Inv'
  <1> SUFFICES ASSUME Inv, [Next]_vars PROVE Inv'
    OBVIOUS
  <1>1. CASE MainThread
    BY <1>1, StartAllInv, FiniInv, StopAllInv, HandleChildInv, UtimerStartInv DEF MainThread
  <1>2. CASE Requests
    BY <1>2, ProcesStartInv, ProcesStopInv, ProcesSetInv DEF Requests
  <1>3. CASE HandleSigchld \/ HandleStop
    BY <1>3, SignalInv
  <1>4. ASSUME NEW s \in Servs, NEW k \in DOMAIN serv[s].proc, Exit(s, k) PROVE Inv'
    BY <1>4, ExitInv
  <1>5. CASE UNCHANGED vars
    BY <1>5 DEF vars, Inv, AllOK, RestOK, MainOK
  <1> QED
    BY <1>1, <1>2, <1>3, <1>4, <1>5 DEF Next

\* What the invariant says of the daemon.
LEMMA InvSound == Inv => ServicesSound
  <1> SUFFICES ASSUME Inv PROVE ServicesSound
    OBVIOUS
  <1>0. AllOK /\ RestOK /\ MainOK
    BY DEF Inv
  <1>1. TypeOK
    BY <1>0 DEF TypeOK, AllOK, RestOK, MainStates, Replies
  <1>2. Supervised
    BY <1>0 DEF Supervised, AllOK, ServOK
  <1>3. RestartsBounded
    <2> SUFFICES ASSUME NEW s \in Servs
                 PROVE  serv[s].autos + serv[s].timers <= FailureRetryCount
      BY DEF RestartsBounded
    <2>1. ServOK(serv[s])
      BY <1>0 DEF AllOK
    <2>2. /\ serv[s].autos + serv[s].timers <= serv[s].count
          /\ serv[s].count <= FailureRetryCount
          /\ serv[s].autos \in Nat /\ serv[s].timers \in Nat /\ serv[s].count \in Nat
      BY <2>1, FieldTypes
    <2> QED
      BY <2>2, ServMgmtAssumption
  <1>4. AllStopped
    <2> SUFFICES ASSUME main.at = "done", ~main.err, NEW s \in Servs,
                        NEW k \in DOMAIN serv[s].proc
                 PROVE  serv[s].proc[k] # "run"
      BY DEF AllStopped
    <2>1. s < main.i
      BY <1>0, ServMgmtAssumption DEF RestOK, MainStates, Servs
    <2>2. serv[s].status # "running"
      BY <1>0, <2>1 DEF MainOK
    <2> QED
      BY <1>2, <2>2 DEF Supervised
  <1> QED
    BY <1>1, <1>2, <1>3, <1>4 DEF ServicesSound

\* The supervision of the daemon is sound for any number of services and any
\* isms_u8FailureRetryCount: never two processes at work for one service, no
\* more automatic starts than the retry count allows, and no process left
\* behind when _stopAllServices ends without a failure.
THEOREM ServicesSoundAlways == Spec => []ServicesSound
  <1>1. Init => Inv
    BY InitInv
  <1>2. Inv /\ [Next]_vars => Inv'
    BY NextInv
  <1>3. Inv => ServicesSound
    BY InvSound
  <1> QED
    BY <1>1, <1>2, <1>3, PTL DEF Spec
=============================================================================
