------------------------------ MODULE RefreshRun ------------------------------
(***************************************************************************)
(* refresh_symbols_if_needed, run after run: the lock, the task queue and  *)
(* the status it keeps in files, the records it commits, and what is left  *)
(* of them when a step fails or the process dies.                          *)
(*                                                                         *)
(* Runs follow one another here; RefreshLock has several at once.  A save  *)
(* of a file is one step, because it replaces the file atomically.  The    *)
(* order of the queue is an arbitrary choice of its first MaxItems tasks,  *)
(* and MAX_PERSISTED_REFRESH_TASKS is larger than any queue.  Every step   *)
(* of a run that touches a file may fail once the lock is taken.           *)
(***************************************************************************)
EXTENDS Integers, FiniteSets

CONSTANTS
    Symbol,        \* symbols tasks are about
    MaxItems,      \* max_items of a run
    MaxTaskRetry,  \* MAX_TASK_RETRY
    MaxTries,      \* bound of the failed attempts that are counted
    None           \* no task

\* The failures that have an effect beyond the run they happen in.
Failure == {"saveRecords", "saveQueue", "saveStatus", "crash"}

TaskStatus == {"pending", "in_progress", "retryable", "succeeded", "failed",
               "skipped"}
Kept       == {"pending", "in_progress", "retryable"}
Task       == [status : TaskStatus, retries : 0..(MaxTaskRetry + 1)]
Queue      == [Symbol -> Task \cup {None}]

ASSUME MaxTaskRetryAssumption == MaxTaskRetry \in Nat
ASSUME MaxTriesAssumption     == MaxTries \in Nat
ASSUME NoneAssumption         == None \notin Task \cup TaskStatus

VARIABLES
    lock,       \* symbol_refresh.lock: absent, fresh, or older than 30 min
    queueFile,  \* symbol_refresh_queue.json
    refreshing, \* is_refreshing in symbol_refresh_status.json
    stored,     \* symbols whose record a run has committed
    pc,         \* where the run is
    queue,      \* its tasks
    todo,       \* those it still has to visit
    answers,    \* the symbols it has a record for (records_to_save)
    given,      \* were its tasks passed by the caller, or loaded?
    asked,      \* history: symbols of the tasks the queue file has answered
                \* for since a caller's tasks last replaced it
    outcome,    \* history: the status each task had in the last saved queue
    tries,      \* history: failed attempts since the task was new
    failures    \* history: the failures there have been

files   == <<lock, queueFile, refreshing, stored>>
locals  == <<queue, todo, answers, given>>
history == <<asked, outcome, tries, failures>>
vars    == <<files, pc, locals, history>>

NoTasks    == [s \in Symbol |-> None]
Pending(S) == [s \in Symbol |-> IF s \in S
                                THEN [status |-> "pending", retries |-> 0]
                                ELSE None]
Tasks(q)   == {s \in Symbol : q[s] # None}
Waiting(q) == {s \in Tasks(q) : q[s].status \in Kept}

TypeOK ==
    /\ lock \in {"absent", "fresh", "stale"}
    /\ queueFile \in Queue
    /\ refreshing \in BOOLEAN
    /\ stored \in SUBSET Symbol
    /\ pc \in {"idle", "markStatus", "loadQueue", "visit", "saveQueue",
               "saveStatus", "errorQueue", "errorStatus", "release"}
    /\ queue \in Queue
    /\ todo \in SUBSET Symbol
    /\ answers \in SUBSET Symbol
    /\ given \in BOOLEAN
    /\ asked \in SUBSET Symbol
    /\ outcome \in [Symbol -> TaskStatus \cup {None}]
    /\ tries \in [Symbol -> 0..MaxTries]
    /\ failures \subseteq Failure

-----------------------------------------------------------------------------
\* Fault: a task is retried for ever.
RetriedAlways(task) == [status |-> "retryable", retries |-> task.retries + 1]

Retried(task) ==
    [status  |-> IF task.retries + 1 <= MaxTaskRetry THEN "retryable" ELSE "failed",
     retries |-> task.retries + 1]

\* recover_interrupted_symbol_refresh_tasks
Recovered(q) ==
    [s \in Symbol |-> IF s \in Tasks(q) /\ q[s].status = "in_progress"
                      THEN Retried(q[s]) ELSE q[s]]

\* Fault: a task without an answer counts as succeeded.
AfterAnyResult(task, result) ==
    IF result = "error" THEN Retried(task) ELSE [task EXCEPT !.status = "succeeded"]

\* _task_after_result
AfterResult(task, result) ==
    CASE result = "error"  -> Retried(task)
      [] result = "record" -> [task EXCEPT !.status = "succeeded"]
      [] result = "none"   -> [task EXCEPT !.status = "skipped"]

\* Fault: the file keeps only the tasks that were never tried.
PersistedPending(q) ==
    [s \in Symbol |-> IF s \in Tasks(q) /\ q[s].status = "pending" THEN q[s] ELSE None]

\* _normalize_queue: what save_symbol_refresh_queue writes.
Persisted(q) == [s \in Symbol |-> IF s \in Waiting(q) THEN q[s] ELSE None]

\* The first MaxItems tasks of a queue, in some order.
FirstItems(q) == {T \in SUBSET Tasks(q) :
                     /\ Cardinality(T) <= MaxItems
                     /\ T # Tasks(q) => Cardinality(T) = MaxItems}

-----------------------------------------------------------------------------
\* A queue file may already be there; nothing else is.
Init ==
    /\ lock = "absent"
    /\ queueFile \in {Pending(S) : S \in SUBSET Symbol}
    /\ refreshing = FALSE
    /\ stored = {}
    /\ pc = "idle"
    /\ queue = NoTasks
    /\ todo = {}
    /\ answers = {}
    /\ given = FALSE
    /\ asked = Tasks(queueFile)
    /\ outcome = NoTasks
    /\ tries = [s \in Symbol |-> 0]
    /\ failures = {}

\* The run is over: its locals are gone.
Leave ==
    /\ pc' = "idle"
    /\ queue' = NoTasks
    /\ todo' = {}
    /\ answers' = {}
    /\ given' = FALSE

\* cleanup_symbol_refresh_artifacts has dropped a stale lock, or the acquire
\* replaces it; a fresh one makes the run return "lock_active".
Begin ==
    /\ pc = "idle"
    /\ lock # "fresh"
    /\ lock' = "fresh"
    /\ pc' = "markStatus"
    /\ UNCHANGED <<queueFile, refreshing, stored, locals, history>>

\* last_attempt_at and is_refreshing are saved; an exception here is outside
\* the try statement.
MarkStatus ==
    /\ pc = "markStatus"
    /\ refreshing' = TRUE
    /\ pc' = "loadQueue"
    /\ UNCHANGED <<lock, queueFile, stored, locals, history>>

\* The caller's tasks, which are new, or those of the queue file; a failing
\* read is outside the try statement as well.
LoadQueue ==
    /\ pc = "loadQueue"
    /\ \/ /\ given' = TRUE
          /\ \E chosen \in (SUBSET Symbol) \ {{}} :
                /\ queue' = Pending(chosen)
                /\ tries' = [s \in Symbol |-> IF s \in chosen THEN 0 ELSE tries[s]]
       \/ /\ given' = FALSE
          /\ queue' = Recovered(queueFile)
          /\ UNCHANGED tries
    /\ todo' \in FirstItems(queue')
    /\ pc' = "visit"
    /\ UNCHANGED <<files, answers, asked, outcome, failures>>

FailBeforeTry ==
    /\ pc \in {"markStatus", "loadQueue"}
    /\ Leave
    /\ UNCHANGED <<files, asked, outcome, tries, failures>>

\* One task of the loop: the provider returns a record, nothing, or raises.
\* A task that is not waiting is passed over (without force).
Visit(s) ==
    /\ pc = "visit"
    /\ s \in todo
    /\ todo' = todo \ {s}
    /\ IF s \in Waiting(queue)
       THEN \E result \in {"record", "none", "error"} :
              /\ queue' = [queue EXCEPT ![s] = AfterResult(@, result)]
              /\ answers' = IF result = "record" THEN answers \cup {s} ELSE answers
              /\ CASE result = "error"  -> /\ tries[s] < MaxTries
                                           /\ tries' = [tries EXCEPT ![s] = @ + 1]
                   [] result = "record" -> tries' = [tries EXCEPT ![s] = 0]
                   [] OTHER             -> UNCHANGED tries
       ELSE UNCHANGED <<queue, answers, tries>>
    /\ UNCHANGED <<files, pc, given, asked, outcome, failures>>

\* save_symbol_records, after the loop: every record or none.
SaveRecords ==
    /\ pc = "visit"
    /\ todo = {}
    /\ stored' = stored \cup answers
    /\ pc' = "saveQueue"
    /\ UNCHANGED <<lock, queueFile, refreshing, locals, history>>

\* save_symbol_refresh_queue, at the end or from the exception handler.
SaveQueue ==
    /\ pc \in {"saveQueue", "errorQueue"}
    /\ queueFile' = Persisted(queue)
    /\ outcome' = [s \in Symbol |-> IF s \in Tasks(queue) THEN queue[s].status
                                    ELSE outcome[s]]
    /\ asked' = IF given THEN Tasks(queue) ELSE asked \cup Tasks(queue)
    /\ pc' = IF pc = "saveQueue" THEN "saveStatus" ELSE "errorStatus"
    /\ UNCHANGED <<lock, refreshing, stored, locals, tries, failures>>

\* save_symbol_refresh_status, at the end or from the exception handler.
SaveStatus ==
    /\ pc \in {"saveStatus", "errorStatus"}
    /\ refreshing' = FALSE
    /\ pc' = "release"
    /\ UNCHANGED <<lock, queueFile, stored, locals, history>>

\* The step of the try statement that is next, if it may raise.
FailingStep ==
    CASE pc = "visit" /\ todo = {} /\ answers # {} -> "saveRecords"
      [] pc \in {"saveQueue", "errorQueue"}        -> "saveQueue"
      [] pc \in {"saveStatus", "errorStatus"}      -> "saveStatus"
      [] OTHER                                     -> "none"

\* An exception inside the try statement enters the handler, one inside the
\* handler skips the rest of it.
FailInTry ==
    /\ FailingStep # "none"
    /\ failures' = failures \cup {FailingStep}
    /\ pc' = IF pc \in {"errorQueue", "errorStatus"} THEN "release"
             ELSE "errorQueue"
    /\ UNCHANGED <<files, locals, asked, outcome, tries>>

\* release_symbol_refresh_lock, in the finally clause: the unlink may raise,
\* and the lock stays.
Release ==
    /\ pc = "release"
    /\ lock' \in {"absent", lock}
    /\ Leave
    /\ UNCHANGED <<queueFile, refreshing, stored, asked, outcome, tries, failures>>

\* The process dies; the files survive.
Crash ==
    /\ pc # "idle"
    /\ failures' = failures \cup {"crash"}
    /\ Leave
    /\ UNCHANGED <<files, asked, outcome, tries>>

\* STALE_LOCK_MINUTES pass.
LockAges ==
    /\ lock = "fresh"
    /\ lock' = "stale"
    /\ UNCHANGED <<queueFile, refreshing, stored, pc, locals, history>>

Next ==
    \/ Begin \/ MarkStatus \/ LoadQueue \/ FailBeforeTry
    \/ \E s \in Symbol : Visit(s)
    \/ SaveRecords \/ SaveQueue \/ SaveStatus \/ FailInTry \/ Release
    \/ Crash \/ LockAges

Spec == Init /\ [][Next]_vars

-----------------------------------------------------------------------------
(* Properties.                                                             *)

\* A task reported as succeeded, which the saved queue then drops, has its
\* record in the store, unless the records could not be saved: tasks succeed
\* before they are.
SucceededMeansStored ==
    "saveRecords" \notin failures =>
        \A s \in Symbol : outcome[s] = "succeeded" => s \in stored

\* The queue file loses no task: one it has held waits in it, or has been saved
\* as succeeded, skipped or given up, whatever fails and wherever the process
\* dies, until a caller's tasks replace it.
NothingForgotten ==
    pc = "idle" => \A s \in asked :
        s \in Waiting(queueFile) \/ outcome[s] \in {"succeeded", "skipped", "failed"}

\* A task that keeps failing is given up after MAX_TASK_RETRY retries, unless
\* a crash or a failing save keeps the count from the file.
RetryBounded ==
    failures \cap {"saveQueue", "crash"} = {} =>
        \A s \in Symbol : tries[s] <= MaxTaskRetry + 1

(* Properties the code does not have (see the README).                     *)

\* A refresh that is over has released its lock, wherever it failed; only the
\* death of the process may leave one (refresh_symbols_if_needed).
LockReleased ==
    pc = "idle" /\ "crash" \notin failures => lock = "absent"

\* A task is reported as succeeded only once its record is in the store, also
\* when the commit fails.
SucceededAfterCommit ==
    \A s \in Symbol : outcome[s] = "succeeded" => s \in stored
==============================================================================
