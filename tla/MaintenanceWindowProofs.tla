------------------------ MODULE MaintenanceWindowProofs ------------------------
(***************************************************************************)
(* Proofs about MaintenanceWindow, for any sessions, operations, launchers *)
(* and processes: one server runs, its operations stay marked, and a stop  *)
(* for maintenance interrupts only what came late or was taken for gone.   *)
(***************************************************************************)
EXTENDS MaintenanceWindow, FiniteSetTheorems, TLAPS

\* One launcher has the lock; its child is dead when it says so.  Without a
\* stray request or a dead launcher every process has its launcher, and a stop
\* request is for the child of a resilient one.
Supervised ==
    /\ \A k, l \in Holder : k = l
    /\ \A l \in Launcher : launcher[l] = "ended" => ~Alive(child[l])
    /\ ~stray =>
          /\ \A p \in Pid : Alive(p) => \E l \in Launcher : launcher[l] = "serving" /\ child[l] = p
          /\ stopFile # None => \E l \in Resilient : child[l] = stopFile

\* The activity file knows the browsers that are there and the operations.
Known == connected \subseteq seen /\ BusyIsMarked

\* After a final evaluation that read nothing, whoever is there came late or
\* has been left out.
Judged ==
    /\ \/ watcher = "rescan" /\ decision = "safe"
       \/ watcher \in {"stop", "kill"}
       => connected \subseteq late /\ running \subseteq late \cup denied
    /\ stopping["watcher"] # None => watcher = "kill"

WindowInv == TypeOK /\ Supervised /\ Known /\ Judged

-----------------------------------------------------------------------------
LEMMA WindowInit == Init => WindowInv
<1> SUFFICES ASSUME Init PROVE WindowInv
  OBVIOUS
<1>1. TypeOK
  <2>1. {notice, jobLock, opsLock, stray} \subseteq BOOLEAN /\ mishaps \in 0..MaxMishaps
    <3>1. notice \in BOOLEAN /\ jobLock \in BOOLEAN /\ opsLock \in BOOLEAN /\ stray \in BOOLEAN
      BY DEF Init
    <3>2. mishaps \in 0..MaxMishaps
      BY MishapsAssumption DEF Init
    <3>3. QED
      BY <3>1, <3>2
  <2>2. /\ connected \in SUBSET Session /\ running \in SUBSET Operation
        /\ seen \in SUBSET Session /\ marked \in SUBSET (Operation \X Pid)
        /\ late \in SUBSET (Session \cup Operation) /\ denied \in SUBSET running
    BY DEF Init
  <2>3. QED
    BY <2>1, <2>2 DEF Init, TypeOK
<1>2. Supervised
  BY DEF Init, Supervised, Holder, Locking, Alive
<1>3. Known /\ Judged
  BY DEF Init, Known, Judged, BusyIsMarked, Stopper
<1>4. QED
  BY <1>1, <1>2, <1>3 DEF WindowInv

LEMMA ServerTypes == TypeOK /\ ServerStep => TypeOK'
<1> SUFFICES ASSUME TypeOK, ServerStep PROVE TypeOK'
  OBVIOUS
<1> USE DEF TypeOK, servers, restart, history, files, Late, CleanOperations, LeftOut, Serving
<1>1. ASSUME NEW s \in Session, Heartbeat(s) PROVE TypeOK'
  BY <1>1 DEF Heartbeat
<1>2. ASSUME NEW s \in Session, Disconnect(s) \/ SessionTimesOut(s) PROVE TypeOK'
  BY <1>2 DEF Disconnect, SessionTimesOut
<1>3. ASSUME NEW o \in Operation, BeginOperation(o) PROVE TypeOK'
  BY <1>3 DEF BeginOperation
<1>4. ASSUME NEW o \in Operation, EndOperation(o) PROVE TypeOK'
  BY <1>4 DEF EndOperation
<1>5. CASE DayPasses
  BY <1>5 DEF DayPasses, activity
<1>6. CASE JobLocks
  BY <1>6 DEF JobLocks, activity
<1>7. QED
  BY <1>1, <1>2, <1>3, <1>4, <1>5, <1>6 DEF ServerStep

LEMMA LauncherTypes ==
    ASSUME TypeOK, NEW l \in Launcher, StartLauncher(l) \/ LauncherStep(l) \/ LauncherDies(l)
    PROVE  TypeOK'
<1> USE DEF TypeOK, activity, restart, history, files, Go, Locking
<1>1. CASE StartLauncher(l)
  BY <1>1 DEF StartLauncher
<1>2. CASE Lock(l)
  BY <1>2 DEF Lock
<1>3. CASE CheckPort(l)
  BY <1>3 DEF CheckPort
<1>4. CASE RecordStartup(l)
  BY <1>4 DEF RecordStartup
<1>5. CASE Spawn(l)
  BY <1>5, NoneAssumption DEF Spawn
<1>6. CASE ChildEnded(l)
  BY <1>6 DEF ChildEnded
<1>7. CASE AfterChild(l)
  BY <1>7 DEF AfterChild
<1>8. CASE LauncherDies(l)
  BY <1>8, MishapsAssumption DEF LauncherDies
<1>9. QED
  BY <1>1, <1>2, <1>3, <1>4, <1>5, <1>6, <1>7, <1>8 DEF LauncherStep

LEMMA ProcessTypes ==
    ASSUME TypeOK, NEW p \in Pid, Listen(p) \/ ProcessCrashes(p)
    PROVE  TypeOK'
<1> USE DEF TypeOK, activity, restart, history, files
<1>1. CASE Listen(p)
  BY <1>1 DEF Listen
<1>2. CASE ProcessCrashes(p)
  BY <1>2, MishapsAssumption DEF ProcessCrashes, ProcessEnds
<1>3. QED
  BY <1>1, <1>2

LEMMA KillTypes ==
    ASSUME TypeOK, NEW a \in Stopper, Kill(a)
    PROVE  TypeOK'
<1> USE DEF TypeOK, activity, files, Stopper
<1>1. CASE Alive(stopping[a])
  BY <1>1 DEF Kill, ProcessEnds, Alive
<1>2. CASE ~Alive(stopping[a])
  BY <1>2 DEF Kill
<1>3. QED
  BY <1>1, <1>2

LEMMA RequestTypes ==
    ASSUME TypeOK, NEW a \in Stopper, NEW p \in Serving, RequestStop(a, p)
    PROVE  /\ stopping' \in [Stopper -> Pid \cup {None}]
           /\ stopFile' \in Pid \cup {None}
           /\ stray' \in BOOLEAN
BY DEF TypeOK, RequestStop, Serving

LEMMA WatcherTypes ==
    ASSUME TypeOK, WatcherStep \/ OperatorRequests \/ Kill("operator")
    PROVE  TypeOK'
<1> USE DEF TypeOK, activity, servers, files, history, At, Stopper
<1>1. CASE WakeUp \/ EvaluateRead \/ PublishNotice \/ ClearNotice
  BY <1>1 DEF WakeUp, EvaluateRead, LeftOut, PublishNotice, ClearNotice
<1>2. CASE EvaluateScan
  BY <1>2 DEF EvaluateScan, EvaluationEnds
<1>3. CASE WatcherRequests
  <2>1. CASE Serving = {}
    BY <1>3, <2>1 DEF WatcherRequests
  <2>2. CASE Serving # {}
    BY <1>3, <2>2, RequestTypes DEF WatcherRequests
  <2>3. QED
    BY <2>1, <2>2
<1>4. CASE OperatorRequests
  <2>1. mishaps' \in 0..MaxMishaps
    BY <1>4, MishapsAssumption DEF OperatorRequests
  <2>2. QED
    BY <1>4, <2>1, RequestTypes DEF OperatorRequests
<1>5. CASE Recover
  BY <1>5, ResilientAssumption DEF Recover, Go, Locking
<1>6. QED
  BY <1>1, <1>2, <1>3, <1>4, <1>5, KillTypes DEF WatcherStep

-----------------------------------------------------------------------------
(* Launchers and processes.                                                *)

\* Steps that concern no launcher, process or request.
LEMMA SupervisedElsewhere ==
    ASSUME Supervised, UNCHANGED <<servers, stray>> PROVE Supervised'
BY DEF Supervised, servers, Holder, Alive

LEMMA SupervisedLauncher ==
    ASSUME TypeOK, Supervised, NEW l \in Launcher,
           StartLauncher(l) \/ LauncherStep(l) \/ LauncherDies(l)
    PROVE  Supervised'
<1> USE DEF Holder, Locking, Go, Alive
<1>1. CASE StartLauncher(l)
  BY <1>1 DEF StartLauncher, Supervised, TypeOK, history
<1>2. CASE Lock(l)
  BY <1>2 DEF Lock, Supervised, TypeOK, history
<1>3. CASE CheckPort(l)
  BY <1>3 DEF CheckPort, Supervised, TypeOK, history
<1>4. CASE RecordStartup(l)
  BY <1>4 DEF RecordStartup, Supervised, TypeOK, history
<1>5. CASE Spawn(l)
  <2>1. l \in Holder /\ launcher[l] = "spawn" /\ UNCHANGED <<stopFile, stray>>
    BY <1>5 DEF Spawn, history
  <2>2. PICK p \in Pid : /\ process[p] = "none"
                         /\ process' = [process EXCEPT ![p] = "starting"]
                         /\ child' = [child EXCEPT ![l] = p]
    BY <1>5 DEF Spawn
  <2>3. launcher' = [launcher EXCEPT ![l] = "serving"]
    BY <1>5 DEF Spawn
  <2>4. \A k \in Launcher \ {l} : launcher[k] \notin Locking /\ child[k] = None
    BY <2>1 DEF Supervised, TypeOK
  <2>5. ~stray => stopFile = None /\ \A q \in Pid : process[q] = "none"
    <3>1. child[l] = None
      BY <2>1 DEF TypeOK
    <3>2. QED
      BY <2>1, <2>4, <3>1, ResilientAssumption DEF Supervised
  <2>6. launcher'[l] = "serving" /\ child'[l] = p
    BY <2>2, <2>3 DEF TypeOK
  <2>7. QED
    BY <2>1, <2>2, <2>3, <2>4, <2>5, <2>6 DEF Supervised, TypeOK
<1>6. CASE ChildEnded(l)
  BY <1>6 DEF ChildEnded, Supervised, TypeOK, history
<1>7. CASE AfterChild(l)
  <2>1. /\ l \in Holder /\ launcher[l] = "ended" /\ UNCHANGED <<process, stray>>
        /\ child' = [child EXCEPT ![l] = None]
    BY <1>7 DEF AfterChild, history
  <2>2. \A k \in Launcher \ {l} : launcher[k] \notin Locking /\ child[k] = None
    BY <2>1 DEF Supervised, TypeOK
  <2>3. ~stray => \A q \in Pid : process[q] = "none"
    BY <2>1, <2>2 DEF Supervised
  <2>4. \A k \in Launcher \ {l} : launcher'[k] = launcher[k]
    BY <1>7 DEF AfterChild, TypeOK
  <2>5. launcher'[l] \in {"off", "spawn"}
    BY <1>7 DEF AfterChild, TypeOK
  <2>6. ~stray => stopFile' = None
    BY <1>7, <2>2, ResilientAssumption DEF AfterChild, Supervised
  <2>7. QED
    BY <2>1, <2>2, <2>3, <2>4, <2>5, <2>6 DEF Supervised
<1>8. CASE LauncherDies(l)
  <2>1. /\ stray' = TRUE /\ process' = process
        /\ launcher' = [launcher EXCEPT ![l] = "off"]
        /\ child' = [child EXCEPT ![l] = None]
    BY <1>8 DEF LauncherDies
  <2>2. QED
    BY <2>1 DEF Supervised, TypeOK
<1>9. QED
  BY <1>1, <1>2, <1>3, <1>4, <1>5, <1>6, <1>7, <1>8 DEF LauncherStep

\* A process begins to listen or ends.
LEMMA SupervisedProcess ==
    ASSUME Supervised, UNCHANGED <<launcher, child, stray>>, stopFile' \in {stopFile, None},
           \A p \in Pid : Alive(p)' => Alive(p)
    PROVE  Supervised'
BY DEF Supervised, Holder, Alive

\* A stop request is written.
LEMMA SupervisedRequest ==
    ASSUME Supervised, NEW a \in Stopper, NEW p \in Serving, RequestStop(a, p),
           UNCHANGED <<process, launcher, child>>
    PROVE  Supervised'
<1>1. stopFile' = p /\ (~stray' => ~stray /\ \E l \in Resilient : child[l] = p)
  BY DEF RequestStop
<1>2. QED
  BY <1>1 DEF Supervised, Holder, Alive

LEMMA KillEnds ==
    ASSUME TypeOK, NEW a \in Stopper, Kill(a)
    PROVE  /\ stopFile' \in {stopFile, None} /\ UNCHANGED <<launcher, child, stray>>
           /\ \A p \in Pid : Alive(p)' => Alive(p)
<1>1. CASE Alive(stopping[a])
  BY <1>1 DEF Kill, ProcessEnds, Alive, TypeOK
<1>2. CASE ~Alive(stopping[a])
  BY <1>2 DEF Kill, Alive
<1>3. QED
  BY <1>1, <1>2

LEMMA SupervisedStep == TypeOK /\ Supervised /\ [Next]_vars => Supervised'
<1> SUFFICES ASSUME TypeOK, Supervised, [Next]_vars PROVE Supervised'
  OBVIOUS
<1>1. CASE ServerStep
  <2>1. UNCHANGED <<servers, stray>>
    BY <1>1 DEF ServerStep, Heartbeat, Disconnect, SessionTimesOut, BeginOperation,
                EndOperation, DayPasses, JobLocks, history
  <2>2. QED
    BY <2>1, SupervisedElsewhere
<1>2. ASSUME NEW l \in Launcher, StartLauncher(l) \/ LauncherStep(l) \/ LauncherDies(l)
      PROVE  Supervised'
  BY <1>2, SupervisedLauncher
<1>3. ASSUME NEW p \in Pid, Listen(p) \/ ProcessCrashes(p) PROVE Supervised'
  <2>1. UNCHANGED <<launcher, child, stray, stopFile>> /\ \A q \in Pid : Alive(q)' => Alive(q)
    BY <1>3 DEF Listen, ProcessCrashes, ProcessEnds, Alive, TypeOK, history
  <2>2. QED
    BY <2>1, SupervisedProcess
<1>4. CASE WakeUp \/ EvaluateRead \/ EvaluateScan \/ PublishNotice \/ ClearNotice
  <2>1. UNCHANGED <<servers, stray>>
    BY <1>4 DEF WakeUp, EvaluateRead, EvaluateScan, EvaluationEnds, PublishNotice, ClearNotice, history
  <2>2. QED
    BY <2>1, SupervisedElsewhere
<1>5. CASE WatcherRequests
  BY <1>5, SupervisedRequest, SupervisedElsewhere DEF WatcherRequests, servers, Stopper
<1>6. CASE OperatorRequests
  BY <1>6, SupervisedRequest DEF OperatorRequests, Stopper
<1>7. ASSUME NEW a \in Stopper, Kill(a) PROVE Supervised'
  BY <1>7, KillEnds, SupervisedProcess
<1>8. CASE Recover
  <2>1. CASE UNCHANGED launcher
    BY <1>8, <2>1, SupervisedElsewhere DEF Recover, servers, history
  <2>2. CASE ~UNCHANGED launcher
    <3>1. PICK l \in Resilient : launcher[l] = "off" /\ launcher' = [launcher EXCEPT ![l] = "enter"]
      BY <1>8, <2>2 DEF Recover, Go
    <3>2. UNCHANGED <<process, child, stopFile, stray>>
      BY <1>8 DEF Recover, history
    <3>3. QED
      BY <3>1, <3>2, ResilientAssumption DEF Supervised, Holder, Locking, Alive, TypeOK
  <2>3. QED
    BY <2>1, <2>2
<1>9. CASE UNCHANGED vars
  BY <1>9, SupervisedElsewhere DEF vars, history
<1>10. QED
  BY <1>1, <1>2, <1>3, <1>4, <1>5, <1>6, <1>7, <1>8, <1>9 DEF Next, WatcherStep, Stopper

-----------------------------------------------------------------------------
(* The activity file.                                                      *)

\* Steps that neither change the activity nor end a server that listens.
LEMMA KnownElsewhere ==
    ASSUME Known, UNCHANGED activity, denied \subseteq denied', Serving \subseteq Serving'
    PROVE  Known'
BY DEF Known, BusyIsMarked, activity

\* An operation that a clean-up does not leave out keeps its mark.
LEMMA CleanKeeps ==
    ASSUME BusyIsMarked, NEW doubted \in SUBSET Pid,
           NEW o \in running, o \notin denied, o \notin LeftOut(doubted)
    PROVE  \E p \in Serving : <<o, p>> \in CleanOperations(doubted)
<1>1. PICK p \in Serving : <<o, p>> \in marked
  BY DEF BusyIsMarked
<1>2. Alive(p)
  BY DEF Serving, Alive
<1>3. p \notin doubted
  BY <1>1, <1>2 DEF LeftOut
<1>4. QED
  BY <1>1, <1>2, <1>3 DEF CleanOperations

LEMMA KnownEnds ==
    ASSUME TypeOK, Known, NEW p \in Pid, ProcessEnds(p) PROVE Known'
<1>1. CASE process[p] = "listening"
  BY <1>1 DEF ProcessEnds, Known, BusyIsMarked
<1>2. CASE process[p] # "listening"
  <2>1. Serving' = Serving
    BY <1>2 DEF ProcessEnds, Serving, TypeOK
  <2>2. QED
    BY <1>2, <2>1 DEF ProcessEnds, Known, BusyIsMarked
<1>3. QED
  BY <1>1, <1>2

LEMMA KnownStep == TypeOK /\ Known /\ [Next]_vars => Known'
<1> SUFFICES ASSUME TypeOK, Known, [Next]_vars PROVE Known'
  OBVIOUS
<1>1. ASSUME NEW s \in Session, Heartbeat(s) PROVE Known'
  <2>1. PICK doubted \in SUBSET Pid : /\ marked' = CleanOperations(doubted)
                                      /\ denied' = denied \cup LeftOut(doubted)
    BY <1>1 DEF Heartbeat
  <2>2. UNCHANGED <<running, process>> /\ connected' \subseteq seen'
    BY <1>1 DEF Heartbeat, servers, Known
  <2>3. BusyIsMarked'
    BY <2>1, <2>2, CleanKeeps DEF Known, BusyIsMarked, Serving
  <2>4. QED
    BY <2>2, <2>3 DEF Known
<1>2. ASSUME NEW o \in Operation, BeginOperation(o) PROVE Known'
  <2>1. PICK p \in Serving, doubted \in SUBSET Pid :
               /\ running' = running \cup {o}
               /\ marked' = CleanOperations(doubted) \cup {<<o, p>>}
               /\ denied' = denied \cup LeftOut(doubted)
    BY <1>2 DEF BeginOperation
  <2>2. UNCHANGED <<connected, seen, process>>
    BY <1>2 DEF BeginOperation, servers
  <2>3. BusyIsMarked'
    BY <2>1, <2>2, CleanKeeps DEF Known, BusyIsMarked, Serving
  <2>4. QED
    BY <2>2, <2>3 DEF Known
<1>3. ASSUME NEW o \in Operation, EndOperation(o) PROVE Known'
  <2>1. PICK p \in Serving, doubted \in SUBSET Pid :
               /\ running' = running \ {o}
               /\ marked' = CleanOperations(doubted) \ {<<o, p>>}
               /\ denied' = (denied \cup LeftOut(doubted)) \ {o}
    BY <1>3 DEF EndOperation
  <2>2. UNCHANGED <<connected, seen, process>>
    BY <1>3 DEF EndOperation, servers
  <2>3. ASSUME NEW x \in running', x \notin denied'
        PROVE  \E q \in Serving' : <<x, q>> \in marked'
    <3>1. x \in running /\ x # o /\ x \notin denied /\ x \notin LeftOut(doubted)
      BY <2>1, <2>3
    <3>2. PICK q \in Serving : <<x, q>> \in CleanOperations(doubted)
      BY <3>1, CleanKeeps DEF Known
    <3>3. QED
      BY <2>1, <2>2, <3>1, <3>2 DEF Serving
  <2>4. QED
    BY <2>2, <2>3 DEF Known, BusyIsMarked
<1>4. CASE DayPasses \/ JobLocks
  BY <1>4, KnownElsewhere DEF DayPasses, JobLocks, servers, history, Serving
<1>5. ASSUME NEW s \in Session, Disconnect(s) \/ SessionTimesOut(s) PROVE Known'
  <2>1. /\ UNCHANGED <<running, marked, denied, process>> /\ connected' \subseteq seen'
    BY <1>5 DEF Disconnect, SessionTimesOut, servers, history, Known
  <2>2. QED
    BY <2>1 DEF Known, BusyIsMarked, Serving
<1>6. CASE EvaluateScan
  <2>1. UNCHANGED <<activity, process>>
    BY <1>6 DEF EvaluateScan, EvaluationEnds, servers
  <2>2. denied' = denied \/ denied' = {o \in denied : \A p \in Serving : <<o, p>> \notin marked}
    BY <1>6 DEF EvaluateScan, EvaluationEnds
  <2>3. QED
    BY <2>1, <2>2 DEF Known, BusyIsMarked, Serving, activity
<1>7. ASSUME NEW l \in Launcher, StartLauncher(l) \/ LauncherStep(l) \/ LauncherDies(l)
      PROVE  Known'
  <2>1. UNCHANGED <<activity, denied>>
    BY <1>7 DEF StartLauncher, LauncherStep, Lock, CheckPort, RecordStartup, Spawn, ChildEnded,
                AfterChild, LauncherDies, history
  <2>2. Serving \subseteq Serving'
    BY <1>7 DEF StartLauncher, LauncherStep, Lock, CheckPort, RecordStartup, Spawn, ChildEnded,
                AfterChild, LauncherDies, Serving, TypeOK
  <2>3. QED
    BY <2>1, <2>2, KnownElsewhere
<1>8. ASSUME NEW p \in Pid, Listen(p) PROVE Known'
  <2>1. UNCHANGED <<activity, denied>> /\ Serving \subseteq Serving'
    BY <1>8 DEF Listen, Serving, TypeOK, history
  <2>2. QED
    BY <2>1, KnownElsewhere
<1>9. ASSUME NEW p \in Pid, ProcessCrashes(p) PROVE Known'
  BY <1>9, KnownEnds DEF ProcessCrashes
<1>10. CASE \/ WakeUp \/ EvaluateRead \/ PublishNotice \/ ClearNotice
           \/ WatcherRequests \/ OperatorRequests \/ Recover \/ UNCHANGED vars
  <2>1. UNCHANGED <<activity, process>> /\ denied \subseteq denied'
    BY <1>10 DEF WakeUp, EvaluateRead, PublishNotice, ClearNotice, WatcherRequests,
                OperatorRequests, Recover, servers, history, vars
  <2>2. QED
    BY <2>1, KnownElsewhere DEF Serving
<1>11. ASSUME NEW a \in Stopper, Kill(a) PROVE Known'
  BY <1>11, KnownEnds, KnownElsewhere DEF Kill, Alive, Serving
<1>12. QED
  BY <1>1, <1>2, <1>3, <1>4, <1>7, <1>8, <1>9, <1>10, <1>11, <1>5, <1>6
     DEF Next, ServerStep, WatcherStep, Stopper

-----------------------------------------------------------------------------
(* The evaluations.                                                        *)

\* Steps that let nobody in and leave the watcher where it is.
LEMMA JudgedElsewhere ==
    ASSUME Judged, UNCHANGED <<watcher, decision, late>>,
           connected' \subseteq connected, running' \subseteq running,
           denied \cap running' \subseteq denied',
           stopping'["watcher"] = stopping["watcher"]
    PROVE  Judged'
BY DEF Judged

LEMMA JudgedServer == Judged /\ ServerStep => Judged'
<1> SUFFICES ASSUME Judged, ServerStep PROVE Judged'
  OBVIOUS
<1>1. ASSUME NEW s \in Session, Heartbeat(s) PROVE Judged'
  <2>1. /\ connected' = connected \cup {s} /\ late' = IF s \in connected THEN late ELSE Late(s)
        /\ denied \subseteq denied' /\ UNCHANGED <<running, watcher, decision, stopping>>
    BY <1>1 DEF Heartbeat, restart
  <2>2. QED
    BY <2>1 DEF Late, Judged
<1>2. ASSUME NEW o \in Operation, BeginOperation(o) PROVE Judged'
  <2>1. /\ running' = running \cup {o} /\ late' = Late(o)
        /\ denied \subseteq denied' /\ UNCHANGED <<connected, watcher, decision, stopping>>
    BY <1>2 DEF BeginOperation, restart
  <2>2. QED
    BY <2>1 DEF Late, Judged
<1>3. ASSUME NEW s \in Session, Disconnect(s) \/ SessionTimesOut(s) PROVE Judged'
  BY <1>3, JudgedElsewhere DEF Disconnect, SessionTimesOut, restart, history
<1>4. ASSUME NEW o \in Operation, EndOperation(o) PROVE Judged'
  <2>1. /\ running' = running \ {o} /\ denied \ {o} \subseteq denied'
        /\ UNCHANGED <<connected, late, watcher, decision, stopping>>
    BY <1>4 DEF EndOperation, restart
  <2>2. QED
    BY <2>1, JudgedElsewhere
<1>5. CASE DayPasses \/ JobLocks
  BY <1>5, JudgedElsewhere DEF DayPasses, JobLocks, activity, restart, history
<1>6. QED
  BY <1>1, <1>2, <1>3, <1>4, <1>5 DEF ServerStep

\* A final evaluation that finds nothing has left out every operation.
LEMMA JudgedRead ==
    ASSUME Known, Judged, EvaluateRead PROVE Judged'
<1>1. PICK doubted \in SUBSET Pid :
             /\ decision' = "safe" => seen = {} /\ CleanOperations(doubted) = {}
             /\ denied' = denied \cup LeftOut(doubted)
  BY DEF EvaluateRead
<1>2. /\ UNCHANGED <<connected, running, stopping, late>>
      /\ watcher \in {"check", "recheck"} /\ watcher' \in {"scan", "rescan"}
  BY DEF EvaluateRead, activity, At
<1>3. ASSUME seen = {}, CleanOperations(doubted) = {}
      PROVE  connected = {} /\ running \subseteq denied'
  <2>1. connected = {}
    BY <1>3 DEF Known
  <2>2. ASSUME NEW o \in running, o \notin denied' PROVE FALSE
    BY <1>1, <1>3, <2>2, CleanKeeps DEF Known
  <2>3. QED
    BY <2>1, <2>2
<1>4. QED
  BY <1>1, <1>2, <1>3 DEF Judged

LEMMA JudgedScan ==
    ASSUME Judged, EvaluateScan PROVE Judged'
<1>1. /\ UNCHANGED <<connected, running, stopping>> /\ decision' = "none"
      /\ watcher' = "stop" => watcher = "rescan" /\ decision = "safe"
                              /\ late' = late /\ denied' = denied
      /\ watcher' \notin {"rescan", "kill"} /\ watcher \in {"scan", "rescan"}
  BY DEF EvaluateScan, EvaluationEnds, activity, At
<1>2. QED
  BY <1>1 DEF Judged

LEMMA JudgedWatcher ==
    ASSUME TypeOK, Judged, WakeUp \/ PublishNotice \/ ClearNotice \/ WatcherRequests \/ Recover
    PROVE  Judged'
<1>1. /\ UNCHANGED <<connected, running>>
      /\ watcher' = "kill" => watcher = "stop" /\ late' = late /\ denied' = denied
      /\ watcher' \notin {"rescan", "stop"}
      /\ watcher # "kill"
      /\ stopping'["watcher"] # stopping["watcher"] => watcher' = "kill"
  BY DEF WakeUp, PublishNotice, ClearNotice, WatcherRequests, Recover, activity, history, At
<1>2. QED
  BY <1>1 DEF Judged

\* A kill by either, or a process that ends by itself.
LEMMA JudgedEnds ==
    ASSUME TypeOK, Judged, (\E a \in Stopper : Kill(a)) \/ \E p \in Pid : ProcessCrashes(p)
    PROVE  Judged'
<1>1. /\ connected' \subseteq connected /\ running' \subseteq running
      /\ denied \cap running' \subseteq denied'
  BY DEF Kill, ProcessCrashes, ProcessEnds, activity
<1>2. CASE Kill("watcher")
  <2>1. watcher' \in {"clear", "sleep"} /\ stopping'["watcher"] = None
    BY <1>2 DEF Kill, TypeOK, Stopper
  <2>2. QED
    BY <2>1 DEF Judged
<1>3. CASE Kill("operator") \/ \E p \in Pid : ProcessCrashes(p)
  <2>1. UNCHANGED <<watcher, decision, late>> /\ stopping'["watcher"] = stopping["watcher"]
    BY <1>3 DEF Kill, ProcessCrashes, restart, TypeOK, Stopper
  <2>2. QED
    BY <1>1, <2>1, JudgedElsewhere
<1>4. QED
  BY <1>2, <1>3 DEF Stopper

LEMMA JudgedStep == TypeOK /\ Known /\ Judged /\ [Next]_vars => Judged'
<1> SUFFICES ASSUME TypeOK, Known, Judged, [Next]_vars PROVE Judged'
  OBVIOUS
<1>1. ASSUME NEW l \in Launcher, StartLauncher(l) \/ LauncherStep(l) \/ LauncherDies(l)
      PROVE  Judged'
  <2>1. UNCHANGED <<activity, restart, late, denied>>
    BY <1>1 DEF StartLauncher, LauncherStep, Lock, CheckPort, RecordStartup, Spawn, ChildEnded,
                AfterChild, LauncherDies, history
  <2>2. QED
    BY <2>1, JudgedElsewhere DEF activity, restart
<1>2. ASSUME NEW p \in Pid, Listen(p) PROVE Judged'
  BY <1>2, JudgedElsewhere DEF Listen, activity, restart, history
<1>3. CASE OperatorRequests
  <2>1. /\ UNCHANGED <<connected, running, watcher, decision, late, denied>>
        /\ stopping'["watcher"] = stopping["watcher"]
    BY <1>3 DEF OperatorRequests, RequestStop, activity, TypeOK, Stopper
  <2>2. QED
    BY <2>1, JudgedElsewhere
<1>4. CASE UNCHANGED vars
  BY <1>4, JudgedElsewhere DEF vars, activity, restart, history
<1>5. QED
  BY <1>1, <1>2, <1>3, <1>4, JudgedServer, JudgedRead, JudgedScan, JudgedWatcher, JudgedEnds
     DEF Next, WatcherStep, Stopper

-----------------------------------------------------------------------------
LEMMA WindowStep == WindowInv /\ [Next]_vars => WindowInv'
<1> SUFFICES ASSUME WindowInv, [Next]_vars PROVE WindowInv'
  OBVIOUS
<1>1. TypeOK'
  <2>1. UNCHANGED vars => TypeOK'
    BY DEF WindowInv, TypeOK, vars, activity, files, servers, restart, history
  <2>2. QED
    BY <2>1, ServerTypes, LauncherTypes, ProcessTypes, WatcherTypes DEF WindowInv, Next
<1>2. QED
  BY <1>1, SupervisedStep, KnownStep, JudgedStep DEF WindowInv

\* The types of the files, the processes, the launchers and the watcher.
THEOREM WindowTypeCorrect == Spec => []TypeOK
<1>1. WindowInv => TypeOK
  BY DEF WindowInv
<1>2. QED
  BY WindowInit, WindowStep, <1>1, PTL DEF Spec

\* MaintenanceManager: no write to activity_state.json loses the mark of an
\* operation the server is in.
THEOREM BusyStaysMarked == Spec => []BusyIsMarked
<1>1. WindowInv => BusyIsMarked
  BY DEF WindowInv, Known
<1>2. QED
  BY WindowInit, WindowStep, <1>1, PTL DEF Spec

\* server_lock and the port leave one server, however many launchers start and
\* whatever crashes, until one has been stopped from outside or died itself.
THEOREM OneServerRuns == Spec => []OneServer
<1>1. WindowInv => OneServer
  <2> SUFFICES ASSUME WindowInv, ~stray PROVE Cardinality({p \in Pid : Alive(p)}) <= 1
    BY DEF OneServer
  <2> DEFINE alive == {p \in Pid : Alive(p)}
  <2>1. \A p, q \in alive : p = q
    BY DEF WindowInv, Supervised, Holder, Locking
  <2> HIDE DEF alive
  <2>2. CASE alive = {}
    BY <2>2, FS_EmptySet DEF alive
  <2>3. CASE alive # {}
    <3>1. PICK p \in alive : TRUE
      BY <2>3
    <3>2. alive = {p}
      BY <2>1, <3>1
    <3>3. Cardinality(alive) = 1
      BY <3>2, FS_Singleton
    <3>4. QED
      BY <3>3 DEF alive
  <2>4. QED
    BY <2>2, <2>3
<1>2. QED
  BY WindowInit, WindowStep, <1>1, PTL DEF Spec

\* The watcher stops no session that was there when its final evaluation read
\* the activity file, and no such operation whose live process every clean-up
\* and that evaluation have found alive.
THEOREM MaintenanceInterruptsOnlyLate == Spec => InterruptsOnlyLate
<1>1. WindowInv /\ [Next]_vars =>
        [stopping["watcher"] # None /\ stopping'["watcher"] = None
           /\ process' # process
         => connected \subseteq late /\ running \subseteq late \cup denied]_vars
  BY DEF WindowInv, Judged
<1>2. QED
  BY WindowInit, WindowStep, <1>1, PTL DEF Spec, InterruptsOnlyLate

\* supervise_streamlit obeys a stop request only for the child it was written
\* for, as long as every request has met its launcher.
THEOREM LauncherLeavesOnRequest == Spec => LeavesOnlyOnRequest
<1>1. WindowInv /\ [Next]_vars =>
        [\A l \in Resilient : launcher[l] = "ended" /\ launcher'[l] = "off"
           => stray' \/ stopFile = child[l]]_vars
  <2> SUFFICES ASSUME WindowInv, Next, NEW l \in Resilient,
                      launcher[l] = "ended", launcher'[l] = "off", ~stray'
               PROVE  stopFile = child[l]
    OBVIOUS
  <2>1. l \in Launcher /\ l \in Holder /\ child[l] # None
    BY ResilientAssumption DEF WindowInv, TypeOK, Holder, Locking
  <2>2. AfterChild(l) \/ LauncherDies(l)
    <3>1. ASSUME NEW k \in Launcher, k # l, StartLauncher(k) \/ LauncherStep(k) \/ LauncherDies(k)
          PROVE  FALSE
      <4>1. launcher'[l] = launcher[l]
        BY <3>1, <2>1 DEF StartLauncher, LauncherStep, Lock, CheckPort, RecordStartup, Spawn,
                    ChildEnded, AfterChild, LauncherDies, Go, WindowInv, TypeOK
      <4>2. QED
        BY <4>1
    <3>2. StartLauncher(l) \/ LauncherStep(l) => AfterChild(l)
      BY DEF StartLauncher, LauncherStep, Lock, CheckPort, RecordStartup, Spawn, ChildEnded
    <3>3. UNCHANGED launcher => FALSE
      OBVIOUS
    <3>4. Recover => FALSE
      <4>1. Recover => launcher'[l] = launcher[l]
        BY <2>1 DEF Recover, Go, WindowInv, TypeOK
      <4>2. QED
        BY <4>1
    <3>5. ServerStep \/ (\E p \in Pid : Listen(p) \/ ProcessCrashes(p)) \/ OperatorRequests
             \/ Kill("operator") \/ (WatcherStep /\ ~Recover) => UNCHANGED launcher
      BY DEF ServerStep, Heartbeat, Disconnect, SessionTimesOut, BeginOperation, EndOperation,
             DayPasses, JobLocks, Listen, ProcessCrashes, OperatorRequests, Kill, WatcherStep,
             WakeUp, EvaluateRead, EvaluateScan, EvaluationEnds, PublishNotice, ClearNotice,
             WatcherRequests, servers
    <3>6. QED
      BY <3>1, <3>2, <3>3, <3>4, <3>5 DEF Next
  <2>3. AfterChild(l) /\ ~stray /\ stopFile # None
    BY <2>1, <2>2 DEF AfterChild, LauncherDies, Go, history, WindowInv, TypeOK
  <2>4. PICK k \in Resilient : child[k] = stopFile
    BY <2>3 DEF WindowInv, Supervised
  <2>5. k \in Holder
    BY <2>3, <2>4, ResilientAssumption DEF WindowInv, TypeOK, Holder, Locking
  <2>6. QED
    BY <2>1, <2>4, <2>5 DEF WindowInv, Supervised
<1>2. QED
  BY WindowInit, WindowStep, <1>1, PTL DEF Spec, LeavesOnlyOnRequest
================================================================================
