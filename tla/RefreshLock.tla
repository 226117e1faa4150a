----------------------------- MODULE RefreshLock -----------------------------
(***************************************************************************)
(* symbol_refresh.lock and symbol_refresh_queue.json with its temporary    *)
(* file, file operation by file operation, for the threads that run        *)
(* refreshes at the same time: the cleanup before a refresh, the           *)
(* acquisition of the lock, the atomic save of the queue and the release.  *)
(*                                                                         *)
(* A file is absent, torn (its content does not parse; empty right after   *)
(* it is opened for writing) or whole; a whole lock is fresh until         *)
(* STALE_LOCK_MINUTES have passed.  An open file stays open when its name  *)
(* is unlinked or replaced.  An existence test and the unlink right after  *)
(* it are one step, except where the protocol decides on what it has read. *)
(* The status file is saved like the queue and not modelled a second time. *)
(***************************************************************************)
EXTENDS Naturals, FiniteSets

CONSTANTS
    Runner,    \* threads of the server that refresh symbols
    MaxMishaps \* bound of the deaths and of the locks left behind

ASSUME RunnerAssumption     == IsFiniteSet(Runner)
ASSUME MaxMishapsAssumption == MaxMishaps \in Nat

VARIABLES
    lock,     \* symbol_refresh.lock
    tmp,      \* symbol_refresh_queue.tmp.json
    queue,    \* symbol_refresh_queue.json
    open,     \* the file each runner has open for writing
    pc,       \* where each runner is
    handling, \* runners that are in the exception handler
    mishaps,  \* history: how often the process has died or a refresh has
              \* ended and left its lock behind
    overlap   \* history: two runners were under the lock at the same time

files == <<lock, tmp, queue, open>>
vars  == <<files, pc, handling, mishaps, overlap>>

Critical == {"prepare", "openTmp", "writeTmp", "validate", "replace", "dropTmp",
             "abortSave", "release"}
RunStep  == {"idle", "cleanLock", "cleanUnlink", "check", "unlinkLock",
             "openLock", "writeLock"} \cup Critical

TypeOK ==
    /\ lock \in {"absent", "torn", "fresh", "stale"}
    /\ tmp \in {"absent", "torn", "whole"}
    /\ queue \in {"absent", "torn", "whole"}
    /\ open \in [Runner -> {"none", "lock", "tmp", "queue"}]
    /\ pc \in [Runner -> RunStep]
    /\ handling \in SUBSET Runner
    /\ mishaps \in 0..MaxMishaps
    /\ overlap \in BOOLEAN

\* Fault: a lock whose timestamp cannot be read is never removed.
ExpiredIfReadable(content) == content = "stale"

\* A lock whose timestamp cannot be read counts as old.
Expired(content) == content \in {"torn", "stale"}

Init ==
    /\ lock = "absent"
    /\ tmp = "absent"
    /\ queue = "absent"
    /\ open = [r \in Runner |-> "none"]
    /\ pc = [r \in Runner |-> "idle"]
    /\ handling = {}
    /\ mishaps = 0
    /\ overlap = FALSE

Goto(r, step) == pc' = [pc EXCEPT ![r] = step]

\* The files that are open once a name is gone, or given to another file.
Unlinked(name)    == [r \in Runner |-> IF open[r] = name THEN "none" ELSE open[r]]
Renamed(from, to) == [r \in Runner |-> IF open[r] = from THEN to ELSE Unlinked(to)[r]]

\* Fault: a write that may stop half way.
WrittenPartly(content) == {"whole", "partial"}

\* What a file holds once its text is written: all of it if nobody else has
\* written since it was opened, else possibly a mixture.
Written(content) == IF content = "torn" THEN {"whole"} ELSE {"whole", "torn"}

-----------------------------------------------------------------------------
(* cleanup_symbol_refresh_artifacts, before every refresh.                 *)

CleanTmp(r) ==
    /\ pc[r] = "idle"
    /\ tmp' = "absent"
    /\ open' = Unlinked("tmp")
    /\ Goto(r, "cleanLock")
    /\ UNCHANGED <<lock, queue, handling, mishaps>>

CleanLock(r) ==
    /\ pc[r] = "cleanLock"
    /\ Goto(r, IF Expired(lock) THEN "cleanUnlink" ELSE "check")
    /\ UNCHANGED <<files, handling, mishaps>>

\* Whatever lock is there by now is removed; if none is, the unlink raises and
\* ends the refresh.
Remove(r, next) ==
    /\ lock' = "absent"
    /\ open' = Unlinked("lock")
    /\ Goto(r, IF lock = "absent" THEN "idle" ELSE next)
    /\ UNCHANGED <<tmp, queue, handling, mishaps>>

CleanUnlink(r) == pc[r] = "cleanUnlink" /\ Remove(r, "check")

(* acquire_symbol_refresh_lock                                             *)

\* A fresh lock makes the refresh return "lock_active".
Check(r) ==
    /\ pc[r] = "check"
    /\ Goto(r, IF lock = "absent" THEN "openLock"
               ELSE IF Expired(lock) THEN "unlinkLock" ELSE "idle")
    /\ UNCHANGED <<files, handling, mishaps>>

UnlinkLock(r) == pc[r] = "unlinkLock" /\ Remove(r, "openLock")

OpenLock(r) ==
    /\ pc[r] = "openLock"
    /\ lock' = "torn"
    /\ open' = [open EXCEPT ![r] = "lock"]
    /\ Goto(r, "writeLock")
    /\ UNCHANGED <<tmp, queue, handling, mishaps>>

WriteLock(r) ==
    /\ pc[r] = "writeLock"
    /\ lock' = IF open[r] = "lock" THEN "fresh" ELSE lock
    /\ open' = [open EXCEPT ![r] = "none"]
    /\ Goto(r, "prepare")
    /\ UNCHANGED <<tmp, queue, handling, mishaps>>

\* Between the acquisition and the try statement the status is saved and the
\* queue is read (refresh_manager.py).
Prepare(r) ==
    /\ pc[r] = "prepare"
    /\ Goto(r, "openTmp")
    /\ UNCHANGED <<files, handling, mishaps>>

-----------------------------------------------------------------------------
(* save_symbol_refresh_queue, under the lock.                              *)

\* Fault: the queue file is overwritten without a temporary file.
OpenInPlace(r) ==
    /\ pc[r] = "openTmp"
    /\ queue' = "torn"
    /\ open' = [open EXCEPT ![r] = "queue"]
    /\ Goto(r, "writeTmp")
    /\ UNCHANGED <<lock, tmp, handling, mishaps>>

OpenTmp(r) ==
    /\ pc[r] = "openTmp"
    /\ tmp' = "torn"
    /\ open' = [open EXCEPT ![r] = "tmp"]
    /\ Goto(r, "writeTmp")
    /\ UNCHANGED <<lock, queue, handling, mishaps>>

WriteTmp(r) ==
    /\ pc[r] = "writeTmp"
    /\ tmp' \in IF open[r] = "tmp" THEN Written(tmp) ELSE {tmp}
    /\ queue' \in IF open[r] = "queue" THEN Written(queue) ELSE {queue}
    /\ open' = [open EXCEPT ![r] = "none"]
    /\ Goto(r, "validate")
    /\ UNCHANGED <<lock, handling, mishaps>>

\* The temporary file is read back; a torn or missing one raises.
Validate(r) ==
    /\ pc[r] = "validate"
    /\ Goto(r, IF tmp = "whole" THEN "replace" ELSE "abortSave")
    /\ UNCHANGED <<files, handling, mishaps>>

\* os.replace; it raises when the temporary file is gone.
Replace(r) ==
    /\ pc[r] = "replace"
    /\ IF tmp = "absent"
       THEN /\ UNCHANGED files
            /\ Goto(r, "abortSave")
       ELSE /\ queue' = tmp
            /\ tmp' = "absent"
            /\ open' = Renamed("tmp", "queue")
            /\ UNCHANGED lock
            /\ Goto(r, "dropTmp")
    /\ UNCHANGED <<handling, mishaps>>

\* The finally clause of the save unlinks the temporary file.  A save that
\* failed is tried once more, by the exception handler.
DropTmp(r) ==
    /\ pc[r] \in {"dropTmp", "abortSave"}
    /\ tmp' = "absent"
    /\ open' = Unlinked("tmp")
    /\ IF pc[r] = "abortSave" /\ r \notin handling
       THEN Goto(r, "openTmp") /\ handling' = handling \cup {r}
       ELSE Goto(r, "release") /\ UNCHANGED handling
    /\ UNCHANGED <<lock, queue, mishaps>>

\* release_symbol_refresh_lock, in the finally clause of the run.
Release(r) ==
    /\ pc[r] = "release"
    /\ lock' = "absent"
    /\ open' = Unlinked("lock")
    /\ handling' = handling \ {r}
    /\ Goto(r, "idle")
    /\ UNCHANGED <<tmp, queue, mishaps>>

\* The write of the lock, a step before the try statement or the unlink at the
\* end raises: the refresh is over, and its lock stays.
LeaveLock(r) ==
    /\ pc[r] \in {"writeLock", "prepare", "release"}
    /\ mishaps < MaxMishaps
    /\ mishaps' = mishaps + 1
    /\ open' = [open EXCEPT ![r] = "none"]
    /\ handling' = handling \ {r}
    /\ Goto(r, "idle")
    /\ UNCHANGED <<lock, tmp, queue>>

-----------------------------------------------------------------------------
\* The process dies with all its threads; the files survive.
Crash ==
    /\ mishaps < MaxMishaps
    /\ mishaps' = mishaps + 1
    /\ open' = [r \in Runner |-> "none"]
    /\ pc' = [r \in Runner |-> "idle"]
    /\ handling' = {}
    /\ UNCHANGED <<lock, tmp, queue>>

LockAges ==
    /\ lock = "fresh"
    /\ lock' = "stale"
    /\ UNCHANGED <<tmp, queue, open, pc, handling, mishaps>>

RunnerStep(r) ==
    \/ CleanTmp(r) \/ CleanLock(r) \/ CleanUnlink(r)
    \/ Check(r) \/ UnlinkLock(r) \/ OpenLock(r) \/ WriteLock(r)
    \/ Prepare(r) \/ OpenTmp(r) \/ WriteTmp(r) \/ Validate(r) \/ Replace(r) \/ DropTmp(r)
    \/ Release(r)

\* Two threads never refresh at the same time (acquire_symbol_refresh_lock).
MutualExclusion == Cardinality({r \in Runner : pc[r] \in Critical}) <= 1

Observed(A) == A /\ overlap' = (overlap \/ ~MutualExclusion')

Next ==
    \/ \E r \in Runner : Observed(RunnerStep(r))
    \/ \E r \in Runner : Observed(LeaveLock(r))
    \/ Observed(Crash)
    \/ Observed(LockAges)

Spec == Init /\ [][Next]_vars

\* Threads run, time passes, and refreshes keep being asked for; nothing is
\* assumed of failures but that they end.
FairSpec ==
    /\ Spec
    /\ \A r \in Runner : WF_vars(Observed(RunnerStep(r)))
    /\ WF_vars(Observed(LockAges))

-----------------------------------------------------------------------------
(* Properties.                                                             *)

\* The queue file is left or shown half written only if two threads were under
\* the lock at once: neither a crash nor the cleanup of a thread that does not
\* hold the lock, which deletes the temporary file of the one that does, tears
\* it, because it is validated before it takes the name.
QueueTornOnlyByOverlap == queue = "torn" => overlap

\* Wherever the process dies, and wherever a refresh ends without releasing its
\* lock, a later one gets the lock and finishes: a lock left behind goes stale,
\* or is unreadable and counts as old.
KeepsRefreshing == []<>(\E r \in Runner : pc[r] = "release")
==============================================================================
