---------------------------- MODULE RefreshRunProofs ----------------------------
(***************************************************************************)
(* Proofs about RefreshRun, for any symbols and bounds: the properties of  *)
(* the runs of refresh_symbols_if_needed, whatever fails in them and       *)
(* wherever the process dies.                                              *)
(***************************************************************************)
EXTENDS RefreshRun, TLAPS

Loaded == {"visit", "saveQueue", "saveStatus", "errorQueue", "errorStatus", "release"}

\* A task that waits can still be tried.
Bounded(q) == \A s \in Waiting(q) : q[s].retries <= MaxTaskRetry

\* The records the tasks of the run have got are on their way to the store, or
\* in it.
AnswersOnTheWay ==
    "saveRecords" \notin failures /\ pc \in Loaded =>
        \A s \in Tasks(queue) : queue[s].status = "succeeded" =>
            s \in (IF pc = "visit" THEN answers ELSE stored)

\* What NothingForgotten says at any moment, and why a run that has loaded the
\* queue file may replace it.
FileKeepsAll ==
    /\ \A s \in asked : s \in Waiting(queueFile)
                        \/ outcome[s] \in {"succeeded", "skipped", "failed"}
    /\ pc \in Loaded /\ ~given => Waiting(queueFile) \subseteq Tasks(queue)

\* The retries of a task count its failed attempts, in the queue of the run and
\* in the file whenever the run has not worked on.
Counted(q) == \A s \in Waiting(q) : tries[s] <= q[s].retries

RetriesCounted ==
    failures \cap {"saveQueue", "crash"} = {} =>
        /\ \A s \in Symbol : tries[s] <= MaxTaskRetry + 1
        /\ pc \in Loaded => Counted(queue)
        /\ pc \notin {"visit", "saveQueue", "errorQueue"} => Counted(queueFile)

RunInv ==
    /\ TypeOK
    /\ Tasks(queueFile) \subseteq Waiting(queueFile)
    /\ Bounded(queueFile)
    /\ Bounded(queue)
    /\ SucceededMeansStored
    /\ AnswersOnTheWay
    /\ FileKeepsAll
    /\ RetriesCounted

-----------------------------------------------------------------------------
(* The queue.                                                              *)

LEMMA NoTasksQueue ==
    /\ NoTasks \in Queue /\ Tasks(NoTasks) = {} /\ Waiting(NoTasks) = {}
BY DEF NoTasks, Queue, Tasks, Waiting

LEMMA PendingQueue ==
    ASSUME NEW S \in SUBSET Symbol
    PROVE  /\ Pending(S) \in Queue /\ Tasks(Pending(S)) = S /\ Waiting(Pending(S)) = S
           /\ \A s \in S : Pending(S)[s] = [status |-> "pending", retries |-> 0]
<1>1. [status |-> "pending", retries |-> 0] \in Task
  BY MaxTaskRetryAssumption DEF Task, TaskStatus
<1>2. Pending(S) \in Queue /\ Tasks(Pending(S)) = S
  BY <1>1, NoneAssumption DEF Pending, Queue, Tasks
<1>3. QED
  BY <1>2 DEF Waiting, Pending, Kept

\* A failed attempt is counted, and a task that still waits can be tried.
LEMMA RetriedTask ==
    ASSUME NEW task \in Task, task.retries <= MaxTaskRetry
    PROVE  /\ Retried(task) \in Task
           /\ Retried(task).retries = task.retries + 1
           /\ Retried(task).status \in {"retryable", "failed"}
           /\ Retried(task).status \in Kept => task.retries + 1 <= MaxTaskRetry
BY MaxTaskRetryAssumption DEF Retried, Task, TaskStatus, Kept

LEMMA RecoveredQueue ==
    ASSUME NEW q \in Queue, Bounded(q)
    PROVE  /\ Recovered(q) \in Queue /\ Tasks(Recovered(q)) = Tasks(q)
           /\ Bounded(Recovered(q))
           /\ Waiting(Recovered(q)) \subseteq Waiting(q)
           /\ \A s \in Waiting(Recovered(q)) : q[s].retries <= Recovered(q)[s].retries
           /\ \A s \in Tasks(q) \ Waiting(q) : Recovered(q)[s] = q[s]
           /\ \A s \in Waiting(q) : Recovered(q)[s].status # "succeeded"
<1>1. ASSUME NEW s \in Tasks(q)
      PROVE  q[s] \in Task /\ (s \in Waiting(q) <=> q[s].status \in Kept)
  BY DEF Queue, Tasks, Waiting
<1>2. ASSUME NEW s \in Tasks(q), q[s].status = "in_progress"
      PROVE  /\ Recovered(q)[s] = Retried(q[s]) /\ Recovered(q)[s] \in Task
             /\ Recovered(q)[s].retries = q[s].retries + 1
             /\ Recovered(q)[s].status \in {"retryable", "failed"}
             /\ Recovered(q)[s].status \in Kept => q[s].retries + 1 <= MaxTaskRetry
  <2>1. q[s] \in Task /\ q[s].retries <= MaxTaskRetry /\ s \in Symbol
    BY <1>1, <1>2 DEF Bounded, Kept, Tasks
  <2>2. Recovered(q)[s] = Retried(q[s])
    BY <1>2, <2>1 DEF Recovered
  <2>3. QED
    BY <2>1, <2>2, RetriedTask
<1>3. ASSUME NEW s \in Symbol, s \notin Tasks(q) \/ q[s].status # "in_progress"
      PROVE  Recovered(q)[s] = q[s]
  BY <1>3 DEF Recovered
<1>4. Recovered(q) \in Queue
  BY <1>2, <1>3 DEF Recovered, Queue
<1>5. Tasks(Recovered(q)) = Tasks(q)
  BY <1>2, <1>3, NoneAssumption DEF Tasks
<1>6. \A s \in Tasks(q) : q[s].retries \in Nat
  BY <1>1, MaxTaskRetryAssumption DEF Task
<1>7. QED
  BY <1>1, <1>2, <1>3, <1>4, <1>5, <1>6 DEF Bounded, Waiting, Kept, Tasks

LEMMA PersistedQueue ==
    ASSUME NEW q \in Queue
    PROVE  /\ Persisted(q) \in Queue
           /\ Waiting(Persisted(q)) = Waiting(q) /\ Tasks(Persisted(q)) = Waiting(q)
           /\ \A s \in Waiting(q) : Persisted(q)[s] = q[s]
BY NoneAssumption DEF Persisted, Queue, Waiting, Tasks

LEMMA FirstItemsAreTasks ==
    ASSUME NEW q, NEW T \in FirstItems(q) PROVE T \subseteq Tasks(q)
BY DEF FirstItems

-----------------------------------------------------------------------------
(* The steps.                                                              *)

LEMMA InitInv == Init => RunInv
<1> SUFFICES ASSUME Init PROVE RunInv
  OBVIOUS
<1>1. PICK S \in SUBSET Symbol : queueFile = Pending(S)
  BY DEF Init
<1>2. /\ queueFile \in Queue /\ Waiting(queueFile) = S /\ Tasks(queueFile) = S
      /\ \A s \in S : queueFile[s].retries = 0
  BY <1>1, PendingQueue
<1>3. TypeOK
  <2>1. NoTasks \in [Symbol -> TaskStatus \cup {None}]
    BY DEF NoTasks
  <2>2. [s \in Symbol |-> 0] \in [Symbol -> 0..MaxTries]
    BY MaxTriesAssumption
  <2>3. asked \in SUBSET Symbol
    BY <1>2 DEF Init
  <2>4. QED
    BY <1>2, <2>1, <2>2, <2>3, NoTasksQueue DEF Init, TypeOK
<1>4. Bounded(queueFile) /\ Bounded(queue)
  BY <1>2, NoTasksQueue, MaxTaskRetryAssumption DEF Bounded, Init
<1>5. \A s \in Symbol : outcome[s] # "succeeded"
  BY NoneAssumption DEF Init, NoTasks, TaskStatus
<1>6. FileKeepsAll /\ AnswersOnTheWay /\ SucceededMeansStored
  BY <1>2, <1>5 DEF Init, FileKeepsAll, AnswersOnTheWay, SucceededMeansStored, Loaded
<1>7. RetriesCounted
  BY <1>2, MaxTaskRetryAssumption DEF Init, RetriesCounted, Counted, Loaded, Tasks, Waiting
<1>8. QED
  BY <1>2, <1>3, <1>4, <1>6, <1>7 DEF RunInv, Init

\* The steps that touch neither the queues nor what is known of the tasks.
LEMMA PlainInv ==
    ASSUME RunInv, Begin \/ MarkStatus \/ LockAges PROVE RunInv'
<1> USE DEF RunInv, Begin, MarkStatus, LockAges, locals, history
<1>1. TypeOK'
  BY DEF TypeOK
<1>2. /\ Bounded(queueFile)' /\ Bounded(queue)'
      /\ (Tasks(queueFile) \subseteq Waiting(queueFile))'
  BY DEF Bounded, Waiting, Tasks
<1>3. (SucceededMeansStored /\ AnswersOnTheWay /\ FileKeepsAll)'
  BY DEF SucceededMeansStored, AnswersOnTheWay, FileKeepsAll, Waiting, Tasks, Loaded
<1>4. RetriesCounted'
  BY DEF RetriesCounted, Counted, Waiting, Tasks, Loaded
<1>5. QED
  BY <1>1, <1>2, <1>3, <1>4

LEMMA LoadQueueInv ==
    ASSUME RunInv, LoadQueue PROVE RunInv'
<1> USE DEF RunInv, LoadQueue, files
<1>1. /\ queue' \in Queue /\ Bounded(queue')
      /\ tries' \in [Symbol -> 0..MaxTries] /\ \A s \in Symbol : tries'[s] <= tries[s]
      /\ \A s \in Tasks(queue') : queue'[s].status # "succeeded"
      /\ given' \in BOOLEAN /\ (~given' => Tasks(queue') = Tasks(queueFile))
      /\ Counted(queueFile) => Counted(queue)'
  <2>1. CASE given' = TRUE
    <3>1. PICK chosen \in SUBSET Symbol :
             /\ queue' = Pending(chosen)
             /\ tries' = [s \in Symbol |-> IF s \in chosen THEN 0 ELSE tries[s]]
      BY <2>1
    <3>2. \A s \in Symbol : tries[s] \in 0..MaxTries
      BY DEF TypeOK
    <3>3. /\ queue' \in Queue /\ Tasks(queue') = chosen /\ Waiting(queue') = chosen
          /\ \A s \in chosen : queue'[s].status = "pending" /\ queue'[s].retries = 0
      BY <3>1, PendingQueue
    <3>4. /\ tries' \in [Symbol -> 0..MaxTries]
          /\ \A s \in Symbol : tries'[s] <= tries[s]
          /\ \A s \in chosen : tries'[s] = 0
      BY <3>1, <3>2, MaxTriesAssumption
    <3>5. QED
      BY <2>1, <3>3, <3>4, MaxTaskRetryAssumption DEF Bounded, Counted
  <2>2. CASE given' = FALSE /\ queue' = Recovered(queueFile) /\ UNCHANGED tries
    <3>1. queueFile \in Queue /\ tries \in [Symbol -> 0..MaxTries]
      BY DEF TypeOK
    <3>2. /\ queue' \in Queue /\ Tasks(queue') = Tasks(queueFile) /\ Bounded(queue')
          /\ Waiting(queue') \subseteq Waiting(queueFile)
          /\ \A s \in Waiting(queue') : queueFile[s].retries <= queue'[s].retries
          /\ \A s \in Tasks(queueFile) : queue'[s].status # "succeeded"
      BY <2>2, <3>1, RecoveredQueue
    <3>3. /\ \A s \in Symbol : tries[s] \in Nat
          /\ \A s \in Tasks(queueFile) : queueFile[s].retries \in Nat
          /\ \A s \in Tasks(queue') : queue'[s].retries \in Nat
      BY <3>1, <3>2, MaxTriesAssumption, MaxTaskRetryAssumption DEF Queue, Tasks, Task
    <3>4. Counted(queueFile) => Counted(queue)'
      BY <2>2, <3>2, <3>3 DEF Counted, Waiting, Tasks
    <3>5. tries' \in [Symbol -> 0..MaxTries] /\ \A s \in Symbol : tries'[s] <= tries[s]
      BY <2>2, <3>1, <3>3
    <3>6. given' \in BOOLEAN /\ \A s \in Tasks(queue') : queue'[s].status # "succeeded"
      BY <2>2, <3>2
    <3>7. QED
      BY <3>2, <3>4, <3>5, <3>6
  <2>3. QED
    BY <2>1, <2>2
<1>2. todo' \subseteq Symbol
  BY FirstItemsAreTasks DEF Tasks
<1>3. TypeOK'
  BY <1>1, <1>2 DEF TypeOK
<1>4. /\ Bounded(queueFile)' /\ (Tasks(queueFile) \subseteq Waiting(queueFile))'
      /\ Bounded(queue)'
  BY <1>1 DEF Bounded, Waiting, Tasks
<1>5. (SucceededMeansStored /\ AnswersOnTheWay)'
  BY <1>1 DEF SucceededMeansStored, AnswersOnTheWay, Tasks
<1>6. FileKeepsAll'
  BY <1>1 DEF FileKeepsAll, Waiting, Tasks
<1>7. RetriesCounted'
  <2>1. \A s \in Symbol : tries[s] \in Nat /\ tries'[s] \in Nat
    BY <1>1, MaxTriesAssumption DEF TypeOK
  <2>2. QED
    BY <1>1, <2>1, MaxTaskRetryAssumption DEF RetriesCounted
<1>8. QED
  BY <1>3, <1>4, <1>5, <1>6, <1>7

\* A run that is left without its finally clause, and a crash.
LEMMA AbandonInv ==
    ASSUME RunInv, FailBeforeTry \/ Crash PROVE RunInv'
<1> USE DEF RunInv, FailBeforeTry, Crash, Leave, files
<1>1. TypeOK'
  BY NoTasksQueue DEF TypeOK, Failure
<1>2. /\ Bounded(queueFile)' /\ (Tasks(queueFile) \subseteq Waiting(queueFile))'
      /\ Bounded(queue)'
  BY NoTasksQueue DEF Bounded, Waiting, Tasks
<1>3. (SucceededMeansStored /\ AnswersOnTheWay /\ FileKeepsAll)'
  BY DEF SucceededMeansStored, AnswersOnTheWay, FileKeepsAll, Waiting, Tasks, Loaded
<1>4. RetriesCounted'
  BY DEF RetriesCounted, Counted, Waiting, Tasks, Loaded
<1>5. QED
  BY <1>1, <1>2, <1>3, <1>4

LEMMA VisitInv ==
    ASSUME RunInv, NEW s \in Symbol, Visit(s) PROVE RunInv'
<1> USE DEF RunInv, Visit, files
<1>1. CASE s \notin Waiting(queue)
  <2>1. TypeOK'
    BY <1>1 DEF TypeOK
  <2>2. QED
    BY <1>1, <2>1 DEF Bounded, SucceededMeansStored, AnswersOnTheWay, FileKeepsAll,
       RetriesCounted, Counted, Waiting, Tasks, Loaded
<1>2. CASE s \in Waiting(queue)
  <2>1. PICK result \in {"record", "none", "error"} :
          /\ queue' = [queue EXCEPT ![s] = AfterResult(@, result)]
          /\ answers' = IF result = "record" THEN answers \cup {s} ELSE answers
          /\ CASE result = "error"  -> /\ tries[s] < MaxTries
                                       /\ tries' = [tries EXCEPT ![s] = @ + 1]
               [] result = "record" -> tries' = [tries EXCEPT ![s] = 0]
               [] OTHER             -> UNCHANGED tries
    BY <1>2
  <2>2. /\ queue \in Queue /\ queue[s] \in Task /\ queue[s].retries <= MaxTaskRetry
        /\ queue[s].retries \in Nat /\ None \notin Task
    BY <1>2, NoneAssumption, MaxTaskRetryAssumption DEF TypeOK, Queue, Bounded, Waiting, Tasks, Task
  <2> DEFINE task == AfterResult(queue[s], result)
  <2>3. /\ task \in Task
        /\ task.status \in Kept => /\ result = "error" /\ task.retries <= MaxTaskRetry
                                   /\ task.retries = queue[s].retries + 1
        /\ task.status = "succeeded" => result = "record"
    <3>1. CASE result = "error"
      BY <2>2, <3>1, RetriedTask DEF AfterResult
    <3>2. CASE result = "record"
      BY <2>2, <3>2 DEF AfterResult, Task, TaskStatus, Kept
    <3>3. CASE result = "none"
      BY <2>2, <3>3 DEF AfterResult, Task, TaskStatus, Kept
    <3>4. QED
      BY <3>1, <3>2, <3>3
  <2> HIDE DEF task
  <2>4. /\ queue' \in Queue /\ queue'[s] = task
        /\ \A u \in Symbol \ {s} : queue'[u] = queue[u]
    BY <2>1, <2>2, <2>3 DEF Queue, task
  <2>5. /\ tries' \in [Symbol -> 0..MaxTries]
        /\ \A u \in Symbol \ {s} : tries'[u] = tries[u]
        /\ tries'[s] \in {0, tries[s], tries[s] + 1}
        /\ tries'[s] = tries[s] + 1 => result = "error" \/ tries'[s] = 0 \/ tries'[s] = tries[s]
        /\ result = "error" => tries'[s] = tries[s] + 1
    BY <2>1, MaxTriesAssumption DEF TypeOK
  <2>6. /\ Tasks(queue') = Tasks(queue) /\ Waiting(queue') \subseteq Waiting(queue)
        /\ s \in Waiting(queue') <=> task.status \in Kept
    BY <1>2, <2>2, <2>3, <2>4 DEF Tasks, Waiting
  <2>7. TypeOK'
    BY <2>1, <2>4, <2>5 DEF TypeOK
  <2>8. /\ Bounded(queueFile)' /\ (Tasks(queueFile) \subseteq Waiting(queueFile))'
        /\ Bounded(queue)'
    BY <2>3, <2>4, <2>6 DEF Bounded, Waiting, Tasks
  <2>9. SucceededMeansStored' /\ AnswersOnTheWay'
    BY <2>1, <2>3, <2>4, <2>6 DEF SucceededMeansStored, AnswersOnTheWay, Tasks
  <2>10. FileKeepsAll'
    BY <2>6 DEF FileKeepsAll, Waiting, Tasks
  <2>11. RetriesCounted'
    <3>1. \A u \in Symbol : tries[u] \in Nat /\ tries'[u] \in Nat
      BY <2>5, MaxTriesAssumption DEF TypeOK
    <3>2. ASSUME failures \cap {"saveQueue", "crash"} = {}
          PROVE  /\ \A u \in Symbol : tries[u] <= MaxTaskRetry + 1
                 /\ Counted(queue)
      BY <3>2 DEF RetriesCounted, Loaded
    <3>3. ASSUME failures \cap {"saveQueue", "crash"} = {}
          PROVE  tries'[s] <= MaxTaskRetry + 1 /\ (s \in Waiting(queue') => tries'[s] <= task.retries)
      <4>1. tries[s] <= queue[s].retries
        BY <1>2, <3>2, <3>3 DEF Counted
      <4>2. QED
        BY <2>2, <2>3, <2>5, <2>6, <3>1, <4>1, MaxTaskRetryAssumption
    <3>4. ASSUME failures \cap {"saveQueue", "crash"} = {}
          PROVE  Counted(queue)'
      BY <2>4, <2>5, <2>6, <3>2, <3>3, <3>4 DEF Counted, Waiting, Tasks
    <3>5. QED
      BY <2>5, <3>2, <3>3, <3>4 DEF RetriesCounted
  <2>12. QED
    BY <2>7, <2>8, <2>9, <2>10, <2>11
<1>3. QED
  BY <1>1, <1>2

LEMMA SaveRecordsInv ==
    ASSUME RunInv, SaveRecords PROVE RunInv'
<1> USE DEF RunInv, SaveRecords, locals, history
<1>1. TypeOK'
  BY DEF TypeOK
<1>2. QED
  BY <1>1 DEF Bounded, SucceededMeansStored, AnswersOnTheWay, FileKeepsAll,
     RetriesCounted, Counted, Waiting, Tasks, Loaded

LEMMA SaveQueueInv ==
    ASSUME RunInv, SaveQueue PROVE RunInv'
<1> USE DEF RunInv, SaveQueue, locals
<1>1. /\ queueFile' \in Queue
      /\ Waiting(queueFile') = Waiting(queue) /\ Tasks(queueFile') = Waiting(queue)
      /\ \A s \in Waiting(queue) : queueFile'[s] = queue[s]
  BY PersistedQueue DEF TypeOK
<1>2. /\ outcome' \in [Symbol -> TaskStatus \cup {None}]
      /\ \A s \in Tasks(queue) : outcome'[s] = queue[s].status
      /\ \A s \in Symbol \ Tasks(queue) : outcome'[s] = outcome[s]
  BY DEF TypeOK, Queue, Task, Tasks
<1>3. TypeOK'
  BY <1>1, <1>2 DEF TypeOK, Tasks
<1>4. /\ Bounded(queueFile)' /\ (Tasks(queueFile) \subseteq Waiting(queueFile))'
      /\ Bounded(queue)'
  BY <1>1 DEF Bounded, Waiting, Tasks
<1>5. SucceededMeansStored' /\ AnswersOnTheWay'
  BY <1>2 DEF SucceededMeansStored, AnswersOnTheWay, Tasks, Loaded
<1>6. FileKeepsAll'
  <2>1. \A s \in Tasks(queue) : queue[s].status \in TaskStatus
    BY DEF TypeOK, Queue, Task, Tasks
  <2>2. \A s \in Tasks(queue) : s \in Waiting(queueFile') \/ outcome'[s] \in {"succeeded", "skipped", "failed"}
    BY <1>1, <1>2, <2>1 DEF Waiting, TaskStatus, Kept
  <2>3. \A s \in asked \ Tasks(queue) : ~given => outcome'[s] \in {"succeeded", "skipped", "failed"}
    BY <1>2 DEF FileKeepsAll, Loaded, TypeOK
  <2>4. \A s \in asked' : s \in Waiting(queueFile') \/ outcome'[s] \in {"succeeded", "skipped", "failed"}
    BY <2>2, <2>3
  <2>5. Waiting(queueFile') \subseteq Tasks(queue')
    BY <1>1 DEF Waiting, Tasks
  <2>6. QED
    BY <2>4, <2>5 DEF FileKeepsAll
<1>7. RetriesCounted'
  BY <1>1 DEF RetriesCounted, Counted, Waiting, Tasks, Loaded
<1>8. QED
  BY <1>3, <1>4, <1>5, <1>6, <1>7

LEMMA SaveStatusInv ==
    ASSUME RunInv, SaveStatus PROVE RunInv'
<1> USE DEF RunInv, SaveStatus, locals, history
<1>1. TypeOK'
  BY DEF TypeOK
<1>2. QED
  BY <1>1 DEF Bounded, SucceededMeansStored, AnswersOnTheWay, FileKeepsAll,
     RetriesCounted, Counted, Waiting, Tasks, Loaded

LEMMA FailInTryInv ==
    ASSUME RunInv, FailInTry PROVE RunInv'
<1> USE DEF RunInv, FailInTry, files, locals
<1>1. /\ FailingStep \in Failure
      /\ pc = "visit" => FailingStep = "saveRecords"
      /\ pc \in {"errorQueue", "saveQueue"} => FailingStep = "saveQueue"
      /\ pc \in {"errorStatus", "saveStatus"} => FailingStep = "saveStatus"
      /\ pc \in {"visit", "saveQueue", "saveStatus", "errorQueue", "errorStatus"}
  BY DEF FailingStep, Failure
<1>2. TypeOK'
  BY <1>1 DEF TypeOK
<1>3. /\ Bounded(queueFile)' /\ (Tasks(queueFile) \subseteq Waiting(queueFile))'
      /\ Bounded(queue)'
  BY DEF Bounded, Waiting, Tasks
<1>4. (SucceededMeansStored /\ AnswersOnTheWay /\ FileKeepsAll)'
  BY <1>1 DEF SucceededMeansStored, AnswersOnTheWay, FileKeepsAll, Waiting, Tasks, Loaded
<1>5. RetriesCounted'
  BY <1>1 DEF RetriesCounted, Counted, Waiting, Tasks, Loaded
<1>6. QED
  BY <1>2, <1>3, <1>4, <1>5

LEMMA ReleaseInv ==
    ASSUME RunInv, Release PROVE RunInv'
<1> USE DEF RunInv, Release, Leave
<1>1. TypeOK'
  BY NoTasksQueue DEF TypeOK
<1>2. /\ Bounded(queueFile)' /\ (Tasks(queueFile) \subseteq Waiting(queueFile))'
      /\ Bounded(queue)'
  BY NoTasksQueue DEF Bounded, Waiting, Tasks
<1>3. (SucceededMeansStored /\ AnswersOnTheWay /\ FileKeepsAll)'
  BY DEF SucceededMeansStored, AnswersOnTheWay, FileKeepsAll, Waiting, Tasks, Loaded
<1>4. RetriesCounted'
  BY DEF RetriesCounted, Counted, Waiting, Tasks, Loaded
<1>5. QED
  BY <1>1, <1>2, <1>3, <1>4

LEMMA StepInv == RunInv /\ [Next]_vars => RunInv'
<1> SUFFICES ASSUME RunInv, [Next]_vars PROVE RunInv'
  OBVIOUS
<1>1. CASE UNCHANGED vars
  BY <1>1 DEF vars, files, locals, history, RunInv, TypeOK, Bounded, SucceededMeansStored,
     AnswersOnTheWay, FileKeepsAll, RetriesCounted, Counted,
     Waiting, Tasks, Loaded
<1>2. CASE Begin \/ MarkStatus \/ LockAges
  BY <1>2, PlainInv
<1>3. CASE FailBeforeTry \/ Crash
  BY <1>3, AbandonInv
<1>4. ASSUME NEW s \in Symbol, Visit(s) PROVE RunInv'
  BY <1>4, VisitInv
<1>5. QED
  BY <1>1, <1>2, <1>3, <1>4, LoadQueueInv, SaveRecordsInv, SaveQueueInv, SaveStatusInv,
     FailInTryInv, ReleaseInv DEF Next

-----------------------------------------------------------------------------
(* The theorems.                                                           *)

LEMMA Invariant == Spec => []RunInv
BY InitInv, StepInv, PTL DEF Spec

\* Files, queue and history keep their types, the retries of a task within
\* MAX_TASK_RETRY + 1 (_task_after_result, _normalize_queue).
THEOREM TypeCorrect == Spec => []TypeOK
BY Invariant, PTL DEF RunInv

\* A task is reported as succeeded only once its record is in the store, if the
\* records could be saved, for queues of any size.
THEOREM SuccessIsStored == Spec => []SucceededMeansStored
BY Invariant, PTL DEF RunInv

\* No task of the queue file gets lost, whatever fails and wherever the process
\* dies.
THEOREM NoTaskForgotten == Spec => []NothingForgotten
<1>1. RunInv => NothingForgotten
  BY DEF RunInv, FileKeepsAll, NothingForgotten
<1>2. QED
  BY Invariant, <1>1, PTL

\* A task that keeps failing is given up, for any MAX_TASK_RETRY.
THEOREM RetriesAreBounded == Spec => []RetryBounded
<1>1. RunInv => RetryBounded
  BY DEF RunInv, RetriesCounted, RetryBounded
<1>2. QED
  BY Invariant, <1>1, PTL
==============================================================================
