--------------------------- MODULE MaintenanceWindow ---------------------------
(***************************************************************************)
(* The maintenance restart of the Streamlit server: the server marks its   *)
(* sessions and operations in a file, a watcher judges from that file and  *)
(* the lock files whether a restart is due and safe, warns, judges again,  *)
(* and stops the server; launchers, one at a time, supervise the server    *)
(* and bring it back.  An operator may stop and start it as well.          *)
(*                                                                         *)
(* Time is coarse: a start becomes due once, and the mark of a session     *)
(* times out once its browser is gone (a browser that is there renews it   *)
(* every minute).  A save of a file is one step, for it replaces the file, *)
(* and so is a change of the activity file, for the server's threads make  *)
(* theirs under _ACTIVITY_LOCK and nobody else changes it.                 *)
(***************************************************************************)
EXTENDS Integers, FiniteSets

CONSTANTS
    Session,     \* browser sessions
    Operation,   \* operations run under maintenance_operation
    Pid,         \* process ids the system hands out
    Launcher,    \* launcher processes
    Resilient,   \* those started with --resilient and --maintenance-startup
    ScansOpsDir, \* do the lock roots contain the launcher's own lock file?
    MaxMishaps,  \* bound of crashes and of stops by the operator
    None         \* no process

ASSUME ResilientAssumption == Resilient \subseteq Launcher /\ Resilient # {}
ASSUME NoneAssumption      == None \notin Pid
ASSUME MishapsAssumption   == MaxMishaps \in Nat /\ ScansOpsDir \in BOOLEAN

VARIABLES
    connected, \* sessions whose browser is there
    running,   \* operations the server is in
    seen,      \* activity_state.json: sessions whose mark is not over 3 min old
    marked,    \* activity_state.json: operations and the process they are in
    started,   \* maintenance_state.json: no start, a young one, one over 24 h old
    notice,    \* maintenance_notice.json
    jobLock,   \* some *.lock or *.tmp file of another job exists
    opsLock,   \* streamlit.lock has been created; nothing deletes it
    process,   \* the Streamlit processes
    launcher,  \* where each launcher is
    child,     \* the process it supervises
    stopFile,  \* streamlit.stop, and the process it was written for
    watcher,   \* where the watcher is
    decision,  \* what its evaluation has found so far
    held,      \* the recorded start it has read and writes back at its end
    stopping,  \* the process the watcher or the operator is about to stop
    late,      \* history: sessions and operations the evaluation has not seen
    denied,    \* history: operations whose live process was taken for gone, so
               \* that their mark was dropped or is not counted
    stray,     \* history: a stop request no resilient launcher waits for, or a
               \* launcher has died
    mishaps    \* history: number of crashes and stops by the operator

activity == <<connected, running, seen, marked>>
files    == <<started, notice, jobLock, opsLock>>
servers  == <<process, launcher, child, stopFile>>
restart  == <<watcher, decision, held, stopping>>
history  == <<late, denied, stray, mishaps>>
vars     == <<activity, files, servers, restart, history>>

Stopper  == {"watcher", "operator"}
Alive(p) == p \in Pid /\ process[p] # "none"
Serving  == {p \in Pid : process[p] = "listening"}
Locking  == {"holding", "startup", "spawn", "serving", "ended"}
Holder   == {l \in Launcher : launcher[l] \in Locking}

TypeOK ==
    /\ connected \in SUBSET Session
    /\ running \in SUBSET Operation
    /\ seen \in SUBSET Session
    /\ marked \in SUBSET (Operation \X Pid)
    /\ started \in {"none", "young", "due"}
    /\ {notice, jobLock, opsLock, stray} \subseteq BOOLEAN
    /\ process \in [Pid -> {"none", "starting", "listening"}]
    /\ launcher \in [Launcher -> {"off", "enter"} \cup Locking]
    /\ child \in [Launcher -> Pid \cup {None}]
    \* a launcher has a child while it supervises, and then only
    /\ \A l \in Launcher : child[l] # None <=> launcher[l] \in {"serving", "ended"}
    /\ stopFile \in Pid \cup {None}
    /\ watcher \in {"sleep", "check", "scan", "warn", "recheck", "rescan",
                    "cancel", "stop", "kill", "clear", "recover"}
    /\ decision \in {"none", "unsafe", "safe"}
    /\ held \in {"none", "young", "due"}
    /\ stopping \in [Stopper -> Pid \cup {None}]
    /\ late \in SUBSET (Session \cup Operation)
    /\ denied \in SUBSET running
    /\ mishaps \in 0..MaxMishaps

Init ==
    /\ connected = {}
    /\ running = {}
    /\ seen = {}
    /\ marked = {}
    /\ started = "none"
    /\ notice = FALSE
    /\ jobLock = FALSE
    /\ opsLock = FALSE
    /\ process = [p \in Pid |-> "none"]
    /\ launcher = [l \in Launcher |-> "off"]
    /\ child = [l \in Launcher |-> None]
    /\ stopFile = None
    /\ watcher = "sleep"
    /\ decision = "none"
    /\ held = "none"
    /\ stopping = [a \in Stopper |-> None]
    /\ late = {}
    /\ denied = {}
    /\ stray = FALSE
    /\ mishaps = 0

-----------------------------------------------------------------------------
(* The server: sessions and operations.                                    *)

\* _clean_activity drops, with the sessions that are not seen any more, the
\* operations whose process is gone.  _pid_exists takes any error of its probe
\* for that, so the processes in doubted go the same way.
CleanOperations(doubted) == {m \in marked : Alive(m[2]) /\ m[2] \notin doubted}

\* The operations of the server that a clean-up has left out.
LeftOut(doubted) ==
    {o \in running : \E p \in doubted : Alive(p) /\ <<o, p>> \in marked}

\* What comes after the final evaluation has read the file.
Late(x) == IF watcher \in {"rescan", "stop", "kill"} THEN late \cup {x} ELSE late

\* Fault: a heartbeat rewrites the file with the sessions only.
HeartbeatAlone(s) ==
    /\ Serving # {}
    /\ connected' = connected \cup {s}
    /\ seen' = seen \cup {s}
    /\ marked' = {}
    /\ late' = IF s \in connected THEN late ELSE Late(s)
    /\ UNCHANGED <<running, files, servers, restart, denied, stray, mishaps>>

\* A page is rendered, or its timer fires: MaintenanceManager.heartbeat.
Heartbeat(s) ==
    /\ Serving # {}
    /\ connected' = connected \cup {s}
    /\ seen' = seen \cup {s}
    /\ \E doubted \in SUBSET Pid :
         /\ marked' = CleanOperations(doubted)
         /\ denied' = denied \cup LeftOut(doubted)
    /\ late' = IF s \in connected THEN late ELSE Late(s)
    /\ UNCHANGED <<running, files, servers, restart, stray, mishaps>>

\* The browser goes away, and after SESSION_TIMEOUT its mark is old.
Disconnect(s) ==
    /\ s \in connected
    /\ connected' = connected \ {s}
    /\ UNCHANGED <<running, seen, marked, files, servers, restart, history>>

SessionTimesOut(s) ==
    /\ s \in seen \ connected
    /\ seen' = seen \ {s}
    /\ UNCHANGED <<connected, running, marked, files, servers, restart, history>>

\* maintenance_operation: begin_operation writes the mark, then the operation
\* runs; end_operation removes the mark after it.
BeginOperation(o) ==
    /\ \E p \in Serving, doubted \in SUBSET Pid :
         /\ o \notin running
         /\ running' = running \cup {o}
         /\ marked' = CleanOperations(doubted) \cup {<<o, p>>}
         /\ denied' = denied \cup LeftOut(doubted)
    /\ late' = Late(o)
    /\ UNCHANGED <<connected, seen, files, servers, restart, stray, mishaps>>

EndOperation(o) ==
    /\ \E p \in Serving, doubted \in SUBSET Pid :
         /\ o \in running
         /\ running' = running \ {o}
         /\ marked' = CleanOperations(doubted) \ {<<o, p>>}
         /\ denied' = (denied \cup LeftOut(doubted)) \ {o}
    /\ UNCHANGED <<connected, seen, files, servers, restart, late, stray, mishaps>>

\* 24 hours pass since the recorded start.
DayPasses ==
    /\ started = "young"
    /\ started' = "due"
    /\ held' = IF held = "young" THEN "due" ELSE held
    /\ UNCHANGED <<activity, notice, jobLock, opsLock, servers, watcher, decision,
                   stopping, history>>

\* Another job creates or removes its lock file.
JobLocks ==
    /\ jobLock' = ~jobLock
    /\ UNCHANGED <<activity, started, notice, opsLock, servers, restart, history>>

\* A process ends: what was in it is gone, its marks stay in the file.
ProcessEnds(p) ==
    /\ process' = [process EXCEPT ![p] = "none"]
    /\ IF process[p] = "listening"
       THEN connected' = {} /\ running' = {} /\ denied' = {}
       ELSE UNCHANGED <<connected, running, denied>>
    /\ UNCHANGED <<seen, marked>>

-----------------------------------------------------------------------------
(* The launchers (run_server, supervise_streamlit).                        *)

Go(l, pc) == launcher' = [launcher EXCEPT ![l] = pc]

\* Autostart, the operator or the watcher starts a launcher process.
StartLauncher(l) ==
    /\ launcher[l] = "off"
    /\ Go(l, "enter")
    /\ UNCHANGED <<activity, files, process, child, stopFile, restart, history>>

\* Fault: the lock only guards the decision to start.
LockBriefly(l) ==
    /\ launcher[l] = "enter"
    /\ opsLock' = TRUE
    /\ IF {k \in Holder : launcher[k] \in {"holding", "startup"}} = {}
       THEN Go(l, "holding") ELSE Go(l, "off")
    /\ UNCHANGED <<activity, started, notice, jobLock, process, child, stopFile, restart, history>>

\* server_lock creates its file in any case; a launcher that does not get the
\* lock waits for the other one and leaves.
Lock(l) ==
    /\ launcher[l] = "enter"
    /\ opsLock' = TRUE
    /\ IF Holder = {} THEN Go(l, "holding") ELSE Go(l, "off")
    /\ UNCHANGED <<activity, started, notice, jobLock, process, child, stopFile, restart, history>>

\* is_port_listening: an existing server is reused, healthy or not.
CheckPort(l) ==
    /\ launcher[l] = "holding"
    /\ IF Serving # {} THEN Go(l, "off")
       ELSE Go(l, IF l \in Resilient THEN "startup" ELSE "spawn")
    /\ UNCHANGED <<activity, files, process, child, stopFile, restart, history>>

\* record_startup, in a process of its own.
RecordStartup(l) ==
    /\ launcher[l] = "startup"
    /\ started' = "young"
    /\ notice' = FALSE
    /\ Go(l, "spawn")
    /\ UNCHANGED <<activity, jobLock, opsLock, process, child, stopFile, restart, history>>

Spawn(l) ==
    /\ launcher[l] = "spawn"
    /\ \E p \in Pid :
         /\ process[p] = "none"
         /\ process' = [process EXCEPT ![p] = "starting"]
         /\ child' = [child EXCEPT ![l] = p]
    /\ Go(l, "serving")
    /\ UNCHANGED <<activity, files, stopFile, restart, history>>

\* The process opens the port, or ends because another one has it.
Listen(p) ==
    /\ process[p] = "starting"
    /\ process' = [process EXCEPT ![p] = IF Serving = {} THEN "listening" ELSE "none"]
    /\ UNCHANGED <<activity, files, launcher, child, stopFile, restart, history>>

ProcessCrashes(p) ==
    /\ Alive(p)
    /\ mishaps < MaxMishaps
    /\ mishaps' = mishaps + 1
    /\ ProcessEnds(p)
    /\ UNCHANGED <<files, launcher, child, stopFile, restart, late, stray>>

\* wait_for_streamlit returns.
ChildEnded(l) ==
    /\ launcher[l] = "serving"
    /\ ~Alive(child[l])
    /\ Go(l, "ended")
    /\ UNCHANGED <<activity, files, process, child, stopFile, restart, history>>

\* Fault: a launcher that leaves keeps its child.
AfterChildKept(l) ==
    /\ launcher[l] = "ended"
    /\ IF l \in Resilient
       THEN /\ stopFile' = None
            /\ Go(l, IF stopFile # None THEN "off" ELSE "spawn")
       ELSE /\ Go(l, "off")
            /\ UNCHANGED stopFile
    /\ UNCHANGED <<activity, files, process, child, restart, history>>

\* Fault: a stop request is obeyed but not consumed.
AfterChildObeys(l) ==
    /\ launcher[l] = "ended"
    /\ child' = [child EXCEPT ![l] = None]
    /\ Go(l, IF l \in Resilient /\ stopFile = None THEN "spawn" ELSE "off")
    /\ UNCHANGED <<activity, files, process, stopFile, restart, history>>

\* Without --resilient the launcher leaves with its child.  With it a stop
\* request is consumed and obeyed; otherwise the child is started again.
AfterChild(l) ==
    /\ launcher[l] = "ended"
    /\ child' = [child EXCEPT ![l] = None]
    /\ IF l \in Resilient
       THEN /\ stopFile' = None
            /\ Go(l, IF stopFile # None THEN "off" ELSE "spawn")
       ELSE /\ Go(l, "off")
            /\ UNCHANGED stopFile
    /\ UNCHANGED <<activity, files, process, restart, history>>

\* The launcher is killed; the lock of the system goes with it, the file and
\* the child stay.
LauncherDies(l) ==
    /\ launcher[l] \in Locking
    /\ mishaps < MaxMishaps
    /\ mishaps' = mishaps + 1
    /\ Go(l, "off")
    /\ child' = [child EXCEPT ![l] = None]
    /\ stray' = TRUE
    /\ UNCHANGED <<activity, files, process, stopFile, restart, late, denied>>

-----------------------------------------------------------------------------
(* The watcher and the operator.                                           *)

At(pc) == watcher' = pc

\* Fault: without a server there is nothing to do.
WakeUpListening ==
    /\ watcher = "sleep"
    /\ Serving # {}
    /\ At("check")
    /\ UNCHANGED <<activity, files, servers, decision, held, stopping, history>>

\* Every 5 minutes: a server that listens is evaluated, a missing one started.
WakeUp ==
    /\ watcher = "sleep"
    /\ At(IF Serving # {} THEN "check" ELSE "recover")
    /\ UNCHANGED <<activity, files, servers, decision, held, stopping, history>>

\* evaluate reads the recorded start and the activity file ...
EvaluateRead ==
    /\ watcher \in {"check", "recheck"}
    /\ held' = started
    /\ \E doubted \in SUBSET Pid :
         /\ decision' = IF started = "due" /\ seen = {} /\ CleanOperations(doubted) = {}
                         THEN "safe" ELSE "unsafe"
         /\ denied' = denied \cup LeftOut(doubted)
    /\ At(IF watcher = "check" THEN "scan" ELSE "rescan")
    /\ UNCHANGED <<activity, files, servers, stopping, late, stray, mishaps>>

WriteLocked == jobLock \/ (ScansOpsDir /\ opsLock)

\* The evaluation ends: it writes the state it has read back to
\* maintenance_state.json.  What it did not see counts until the server has
\* been stopped, a mark that was dropped as long as its operation runs.
EvaluationEnds ==
    /\ started' = held
    /\ held' = "none"
    /\ decision' = "none"
    /\ late' = IF watcher' = "stop" THEN late ELSE {}
    /\ denied' = IF watcher' = "stop" THEN denied
                 ELSE {o \in denied : \A p \in Serving : <<o, p>> \notin marked}
    /\ UNCHANGED <<activity, notice, jobLock, opsLock, servers, stopping, stray, mishaps>>

\* Fault: the second evaluation is made but not looked at.
EvaluateOnce ==
    /\ watcher \in {"scan", "rescan"}
    /\ At(IF watcher = "rescan" THEN "stop"
          ELSE IF decision = "safe" /\ ~WriteLocked THEN "warn" ELSE "sleep")
    /\ EvaluationEnds

\* ... then looks for lock files, and the watcher acts on the result.
EvaluateScan ==
    /\ watcher \in {"scan", "rescan"}
    /\ LET safe == decision = "safe" /\ ~WriteLocked
       IN  At(IF watcher = "scan" THEN (IF safe THEN "warn" ELSE "sleep")
              ELSE (IF safe THEN "stop" ELSE "cancel"))
    /\ EvaluationEnds

PublishNotice ==
    /\ watcher = "warn"
    /\ notice' = TRUE
    /\ At("recheck")
    /\ UNCHANGED <<activity, started, jobLock, opsLock, servers, decision, held, stopping, history>>

\* The notice is cleared when the restart is cancelled or the server stopped.
ClearNotice ==
    /\ watcher \in {"cancel", "clear"}
    /\ notice' = FALSE
    /\ At(IF watcher = "cancel" THEN "sleep" ELSE "recover")
    /\ UNCHANGED <<activity, started, jobLock, opsLock, servers, decision, held, stopping, history>>

\* The stop request is written for the process that listens.
RequestStop(a, p) ==
    /\ stopping' = [stopping EXCEPT ![a] = p]
    /\ stopFile' = p
    /\ stray' = (stray \/ \A l \in Resilient : child[l] # p)

WatcherRequests ==
    /\ watcher = "stop"
    /\ IF Serving = {}
       THEN At("clear") /\ late' = {} /\ UNCHANGED <<stopFile, stopping, stray>>
       ELSE At("kill") /\ UNCHANGED late /\ \E p \in Serving : RequestStop("watcher", p)
    /\ UNCHANGED <<activity, files, process, launcher, child, decision, held, denied, mishaps>>

\* stop_smai_server.bat, alone or in restart_smai_server.ps1.
OperatorRequests ==
    /\ stopping["operator"] = None
    /\ mishaps < MaxMishaps
    /\ mishaps' = mishaps + 1
    /\ \E p \in Serving : RequestStop("operator", p)
    /\ UNCHANGED <<activity, files, process, launcher, child, watcher, decision, held, late, denied>>

\* Stop-Process; when it fails the request is taken back, and the cycle of the
\* watcher ends.
Kill(a) ==
    /\ stopping[a] # None
    /\ stopping' = [stopping EXCEPT ![a] = None]
    /\ IF Alive(stopping[a])
       THEN ProcessEnds(stopping[a]) /\ UNCHANGED stopFile
       ELSE UNCHANGED <<activity, process, denied>> /\ stopFile' = None
    /\ watcher' = IF a = "operator" THEN watcher
                  ELSE IF Alive(stopping[a]) THEN "clear" ELSE "sleep"
    /\ late' = IF a = "watcher" THEN {} ELSE late
    /\ UNCHANGED <<files, launcher, child, decision, held, stray, mishaps>>

\* Start-SmaiRecovery starts a launcher; without a free one the model has
\* enough of them at work.
Recover ==
    /\ watcher = "recover"
    /\ At("sleep")
    /\ IF \A l \in Resilient : launcher[l] # "off" THEN UNCHANGED launcher
       ELSE \E l \in Resilient : launcher[l] = "off" /\ Go(l, "enter")
    /\ UNCHANGED <<activity, files, process, child, stopFile, decision, held, stopping, history>>

-----------------------------------------------------------------------------
ServerStep == \/ \E s \in Session : Heartbeat(s) \/ Disconnect(s) \/ SessionTimesOut(s)
              \/ \E o \in Operation : BeginOperation(o) \/ EndOperation(o)
              \/ DayPasses \/ JobLocks

LauncherStep(l) == \/ Lock(l) \/ CheckPort(l) \/ RecordStartup(l) \/ Spawn(l)
                   \/ ChildEnded(l) \/ AfterChild(l)

WatcherStep == \/ WakeUp \/ EvaluateRead \/ EvaluateScan \/ PublishNotice
               \/ ClearNotice \/ WatcherRequests \/ Kill("watcher") \/ Recover

Next ==
    \/ ServerStep
    \/ \E l \in Launcher : StartLauncher(l) \/ LauncherStep(l) \/ LauncherDies(l)
    \/ \E p \in Pid : Listen(p) \/ ProcessCrashes(p)
    \/ WatcherStep \/ OperatorRequests \/ Kill("operator")

Spec == Init /\ [][Next]_vars

\* Processes run, time passes, and the watcher is started at boot and loops.
FairSpec ==
    /\ Spec
    /\ \A l \in Launcher : WF_vars(LauncherStep(l))
    /\ \A p \in Pid : WF_vars(Listen(p))
    /\ \A s \in Session : WF_vars(SessionTimesOut(s))
    /\ WF_vars(DayPasses)
    /\ WF_vars(WatcherStep)
    /\ WF_vars(Kill("operator"))

-----------------------------------------------------------------------------
(* Properties.                                                             *)

\* Every operation the server is in has its mark, whatever sessions and other
\* operations write to the same file, unless a probe took the server for gone.
BusyIsMarked == \A o \in running \ denied : \E p \in Serving : <<o, p>> \in marked

\* A server is stopped for maintenance only if what it interrupts came after
\* the final evaluation had read the activity file, or its process was taken
\* for gone by that evaluation or by a clean-up before it.
InterruptsOnlyLate ==
    [][stopping["watcher"] # None /\ stopping'["watcher"] = None
         /\ process' # process
       => connected \subseteq late /\ running \subseteq late \cup denied]_vars

\* The same without the exception: an operation that was marked when the final
\* evaluation read the file keeps the server up.  The code does not keep this
\* (see the README).
FailsClosed ==
    [][stopping["watcher"] # None /\ stopping'["watcher"] = None
         /\ process' # process => connected \cup running \subseteq late]_vars

\* However many launchers are started, one supervises, and there is one server.
OneServer == ~stray => Cardinality({p \in Pid : Alive(p)}) <= 1

\* A resilient launcher gives up only when the process it supervised was
\* asked to stop, as long as every request has met its launcher.
LeavesOnlyOnRequest ==
    [][\A l \in Resilient : launcher[l] = "ended" /\ launcher'[l] = "off"
          => stray' \/ stopFile = child[l]]_vars

\* A server that is down comes back.
ComesBack == Serving = {} ~> Serving # {}

\* What keeps a restart from being safe.
Idle == /\ connected = {}
        /\ running = {}
        /\ ~jobLock
        /\ \A m \in marked : ~Alive(m[2])

\* A server that is due and idle does not stay up for ever.
RestartsWhenIdle == ~<>[](started = "due" /\ Serving # {} /\ Idle)
==============================================================================
