------------------------------ MODULE MaintenanceJob ------------------------------
(***************************************************************************)
(* The periodic import of the symbol universe: the scheduled and the       *)
(* manual batch file ask symbol_maintenance_state.py to begin, run the     *)
(* import and report how it ended.  A state file says when the import last *)
(* ran and when it last succeeded, a lock file that one is running.        *)
(*                                                                         *)
(* Time is counted in units of the retry cooldown.  The payload of the     *)
(* lock, the log paths and the commit of the artifacts are left out.       *)
(***************************************************************************)
EXTENDS Integers

CONSTANTS
    Driver,    \* batch files at work, one process each
    Interval,  \* an import is due this long after the last success (7 days)
    Cooldown,  \* a failed one is not repeated before (24 hours)
    MaxDay     \* bound: the clock stops here

ASSUME JobPeriodsAssumption == Interval \in Nat /\ Cooldown \in Nat /\ MaxDay \in Nat

Never == -1

VARIABLES
    day,       \* the clock
    record,    \* symbol_maintenance_state.json
    jobLock,   \* symbol_maintenance.lock exists
    driver,    \* what each batch file does, and what it has read
    imports,   \* history: when an import last succeeded and last failed
    blind      \* history: a report of an import got lost (a crash, a disk
               \* error, a state file that could not be read)

jobVars == <<day, record, jobLock, driver, imports, blind>>

JobTime  == Never .. MaxDay
NoRecord == [success |-> Never, attempt |-> Never, failed |-> FALSE]
NoDriver == [pc |-> "idle", force |-> FALSE, read |-> NoRecord, now |-> 0, late |-> FALSE]

JobTypeOK ==
    /\ day \in 0 .. MaxDay
    /\ record \in [success : JobTime, attempt : JobTime, failed : BOOLEAN]
    /\ record.success <= record.attempt
    /\ driver \in [Driver -> [pc : {"idle", "read", "create", "import", "succeeded",
                                    "failed", "unlink"},
                              force : BOOLEAN, now : 0 .. MaxDay, late : BOOLEAN,
                              read : [success : JobTime, attempt : JobTime, failed : BOOLEAN]]]
    /\ jobLock \in BOOLEAN
    \* An import runs, or is being reported, under the lock, and alone.
    /\ \A d \in Driver : driver[d].pc \in {"import", "succeeded", "failed", "unlink"} =>
          jobLock /\ \A o \in Driver \ {d} : driver[o].pc \in {"idle", "read", "create"}
    /\ imports \in [success : JobTime, failure : JobTime]
    /\ blind \in BOOLEAN

JobInit ==
    /\ day = 0
    /\ record = NoRecord
    /\ jobLock = FALSE
    /\ driver = [d \in Driver |-> NoDriver]
    /\ imports = [success |-> Never, failure |-> Never]
    /\ blind = FALSE

-----------------------------------------------------------------------------
DriverTo(d, pc) == driver' = [driver EXCEPT ![d].pc = pc]

\* maintenance_decision for a state that was read and a lock that is not there.
DueAfter(r, now) ==
    IF r.failed /\ now - r.attempt < Cooldown THEN FALSE
    ELSE r.success = Never \/ now >= r.success + Interval

\* begin: the clock and the state file are read.  What cannot be read counts
\* as a job that never ran.
BeginJob(d) ==
    /\ driver[d].pc = "idle"
    /\ \E force \in BOOLEAN, readable \in BOOLEAN :
          /\ driver' = [driver EXCEPT ![d] =
                [NoDriver EXCEPT !.pc = "read", !.force = force, !.now = day,
                             !.read = IF readable THEN record ELSE NoRecord]]
          /\ blind' = (blind \/ ~readable)
    /\ UNCHANGED <<day, record, jobLock, imports>>

\* ... then the lock is looked for, and the decision taken.
DecideJob(d) ==
    /\ driver[d].pc = "read"
    /\ IF ~jobLock /\ (driver[d].force \/ DueAfter(driver[d].read, driver[d].now))
       THEN DriverTo(d, "create")
       ELSE driver' = [driver EXCEPT ![d] = NoDriver]
    /\ UNCHANGED <<day, record, jobLock, imports, blind>>

\* The lock is created exclusively; who finds it there gives up.
CreateLock(d) ==
    /\ driver[d].pc = "create"
    /\ IF jobLock
       THEN driver' = [driver EXCEPT ![d] = NoDriver] /\ UNCHANGED jobLock
       ELSE driver' = [driver EXCEPT ![d] = [NoDriver EXCEPT !.pc = "import"]] /\ jobLock' = TRUE
    /\ UNCHANGED <<day, record, imports, blind>>

\* run_symbol_universe_import_all.bat ends well or badly.
EndImport(d, good) ==
    /\ driver[d].pc = "import"
    /\ DriverTo(d, IF good THEN "succeeded" ELSE "failed")
    /\ imports' = IF good THEN [imports EXCEPT !.success = day]
                          ELSE [imports EXCEPT !.failure = day]
    /\ UNCHANGED <<day, record, jobLock, blind>>

\* Fault: finish forgets the last success when an import fails.
ReportedAfresh(previous, good) ==
    [success |-> IF good THEN day ELSE Never, attempt |-> day, failed |-> ~good]

\* What finish makes of the state file it finds.
Reported(previous, good) ==
    [success |-> IF good THEN day ELSE previous.success, attempt |-> day, failed |-> ~good]

\* finish: the state file is replaced.  Drivers that have read the old one are late.
FinishJob(d, readable) ==
    /\ driver[d].pc \in {"succeeded", "failed"}
    /\ record' = Reported(IF readable THEN record ELSE NoRecord, driver[d].pc = "succeeded")
    /\ driver' = [o \in Driver |-> IF o = d THEN [driver[d] EXCEPT !.pc = "unlink"]
                                   ELSE [driver[o] EXCEPT !.late = driver[o].pc \in {"read", "create"}]]
    /\ blind' = (blind \/ ~readable)
    /\ UNCHANGED <<day, jobLock, imports>>

\* ... and the lock removed.
UnlinkLock(d) ==
    /\ driver[d].pc = "unlink"
    /\ jobLock' = FALSE
    /\ driver' = [driver EXCEPT ![d] = NoDriver]
    /\ UNCHANGED <<day, record, imports, blind>>

\* The batch file is killed, or finish fails: the lock, if created, is kept.
DriverDies(d) ==
    /\ driver[d].pc # "idle"
    /\ driver' = [driver EXCEPT ![d] = NoDriver]
    /\ blind' = (blind \/ driver[d].pc \in {"succeeded", "failed"})
    /\ UNCHANGED <<day, record, jobLock, imports>>

\* The operator removes a lock that was left behind, as the guide asks for,
\* once no import runs.
RemoveLock ==
    /\ jobLock
    /\ \A d \in Driver : driver[d].pc \in {"idle", "read", "create"}
    /\ jobLock' = FALSE
    /\ UNCHANGED <<day, record, driver, imports, blind>>

DayPasses ==
    /\ day < MaxDay
    /\ day' = day + 1
    /\ UNCHANGED <<record, jobLock, driver, imports, blind>>

JobNext ==
    \/ \E d \in Driver : \/ BeginJob(d)
                         \/ DecideJob(d)
                         \/ CreateLock(d)
                         \/ UnlinkLock(d)
                         \/ DriverDies(d)
                         \/ \E flag \in BOOLEAN : EndImport(d, flag) \/ FinishJob(d, flag)
    \/ RemoveLock
    \/ DayPasses

JobSpec == JobInit /\ [][JobNext]_jobVars

-----------------------------------------------------------------------------
\* An import that nobody forced begins only when one is due by the imports that
\* really ended: none succeeded within the interval, none failed within the
\* cooldown.  Two cases are left out, because begin reads the state before it
\* takes the lock and because reports can be lost: an import was reported
\* between the two, or a report never reached the state file.
ImportsOnlyWhenDue ==
    [][\A d \in Driver :
          (driver[d].pc = "create" /\ driver'[d].pc = "import"
             /\ ~driver[d].force /\ ~driver[d].late /\ ~blind) =>
          /\ imports.success # Never => driver[d].now >= imports.success + Interval
          /\ imports.failure > imports.success => driver[d].now - imports.failure >= Cooldown]_jobVars

=============================================================================
