----------------------------- MODULE RankingHistory -----------------------------
(***************************************************************************)
(* The ranking history of one user: index.json, one snapshot file per run, *)
(* and .lock, over which the sessions of the user save runs, pin them and  *)
(* delete them.  Every mutation takes the lock by creating its file, reads *)
(* the index, writes the snapshot and the index (in an order of its own)   *)
(* and removes what the index no longer lists.  Each file is replaced as a *)
(* whole; the two together are not.                                        *)
(*                                                                         *)
(* Runs are numbered in the order they are created; a session may ask for  *)
(* any run it has ever seen.  Listing and reading change nothing.          *)
(***************************************************************************)
EXTENDS Integers, FiniteSets

CONSTANTS
    Worker,    \* threads of the server, one per session
    Signature, \* what distinguishes the results of two rankings
    Keep,      \* unpinned runs the index keeps
    Window,    \* a result saved less than this before is a duplicate
    MaxRuns,   \* bound of the runs
    MaxTime,   \* bound of the time
    None       \* no run, no entry

Run   == 1..MaxRuns
HistoryTime == 0..MaxTime
Item  == [sig : Signature, at : HistoryTime, pinned : BOOLEAN]
Kind  == {"save", "pin", "unpin", "delete"}
HistoryJob == [kind : Kind, run : Run \cup {None}, sig : Signature \cup {None}, at : HistoryTime]
Index == [Run -> Item \cup {None}]

ASSUME HistoryBoundsAssumption == {Keep, Window, MaxRuns, MaxTime} \subseteq Nat
ASSUME HistoryLockAssumption   == Worker \cap {"left", "free"} = {}
ASSUME HistoryNoneAssumption   == None \notin Item \cup Run \cup HistoryJob \cup BOOLEAN

VARIABLES
    now,       \* the clock of the service
    lastRun,   \* the newest run
    index,     \* index.json: the entry of each run
    snapshots, \* the snapshot files: is_pinned of each
    lock,      \* .lock: the worker that created it, "left" behind, or "free"
    at,        \* where each worker is
    job,       \* what it has been asked to do
    loaded,    \* the index it has read
    doomed,    \* runs whose snapshots it is about to remove
    faulted,   \* history: a step has failed
    crashed    \* history: the server has died under the lock

historyFiles  == <<index, snapshots, lock>>
historyLocals == <<at, job, loaded, doomed>>
historyVars   == <<now, lastRun, historyFiles, historyLocals, faulted, crashed>>

Indexed(i) == {r \in Run : i[r] # None}
Normal(i)  == {r \in Indexed(i) : ~i[r].pinned}
Held       == {"snapshot", "index", "remove", "release"}
NoIndex    == [r \in Run |-> None]

HistoryTypes ==
    /\ now \in HistoryTime
    /\ lastRun \in 0..MaxRuns
    /\ index \in Index
    /\ snapshots \in [Run -> BOOLEAN \cup {None}]
    /\ lock \in Worker \cup {"left", "free"}
    /\ at \in [Worker -> {"idle", "waiting"} \cup Held]
    /\ job \in [Worker -> HistoryJob \cup {None}]
    /\ loaded \in [Worker -> Index]
    /\ doomed \in [Worker -> SUBSET Run]
    /\ faulted \in BOOLEAN
    /\ crashed \in BOOLEAN

\* ... and the index lists at most Keep runs that are not pinned.
HistoryTypeOK == HistoryTypes /\ Cardinality(Normal(index)) <= Keep

HistoryInit ==
    /\ now = 0
    /\ lastRun = 0
    /\ index = NoIndex
    /\ snapshots = NoIndex
    /\ lock = "free"
    /\ at = [w \in Worker |-> "idle"]
    /\ job = [w \in Worker |-> None]
    /\ loaded = [w \in Worker |-> NoIndex]
    /\ doomed = [w \in Worker |-> {}]
    /\ faulted = FALSE
    /\ crashed = FALSE

-----------------------------------------------------------------------------
\* _pruned_items: pinned runs stay, and the newest Keep of the others.
Pruned(i) ==
    [r \in Run |-> IF i[r] = None \/ r \notin Normal(i)
                        \/ Cardinality({n \in Normal(i) : n > r}) < Keep
                   THEN i[r] ELSE None]

\* The same result has been saved a moment ago.
Duplicate(i, j) == \E r \in Indexed(i) : i[r].sig = j.sig /\ now - i[r].at < Window

\* What a mutation finds nothing to do for.
Refused(i, j) ==
    IF j.kind = "save" THEN Duplicate(i, j) ELSE i[j.run] = None

Moves(w, pc) == at' = [at EXCEPT ![w] = pc]

\* A session saves its result, pins, unpins or deletes a run.
Ask(w, j) ==
    /\ at[w] = "idle"
    /\ Moves(w, "waiting")
    /\ job' = [job EXCEPT ![w] = j]
    /\ UNCHANGED <<now, lastRun, historyFiles, loaded, doomed, faulted, crashed>>

AskSave(w, sig) ==
    Ask(w, [kind |-> "save", run |-> None, sig |-> sig, at |-> 0])

AskAbout(w, kind, r) ==
    r <= lastRun /\ Ask(w, [kind |-> kind, run |-> r, sig |-> None, at |-> 0])

\* The lock file is created, the index is read, and the mutation is refused or
\* begins.  A new run gets its number and its time here.
Acquire(w) ==
    /\ at[w] = "waiting"
    /\ lock = "free"
    /\ lock' = w
    /\ loaded' = [loaded EXCEPT ![w] = index]
    /\ IF Refused(index, job[w])
       THEN Moves(w, "release") /\ UNCHANGED <<job, lastRun>>
       ELSE IF job[w].kind = "save"
       THEN /\ lastRun < MaxRuns
            /\ lastRun' = lastRun + 1
            /\ job' = [job EXCEPT ![w] = [@ EXCEPT !.run = lastRun + 1, !.at = now]]
            /\ Moves(w, "snapshot")
       ELSE /\ Moves(w, IF job[w].kind = "delete" THEN "index" ELSE "snapshot")
            /\ UNCHANGED <<job, lastRun>>
    /\ UNCHANGED <<now, index, snapshots, doomed, faulted, crashed>>

\* The job is over: "saved", "duplicate", "failed" or an error is returned.
Leave(w) ==
    /\ Moves(w, "idle")
    /\ job' = [job EXCEPT ![w] = None]
    /\ loaded' = [loaded EXCEPT ![w] = NoIndex]
    /\ doomed' = [doomed EXCEPT ![w] = {}]

\* Fault: after the timeout the mutation goes on without the lock.
GiveUpAndGoOn(w) ==
    /\ at[w] = "waiting"
    /\ lock # "free"
    /\ job[w].kind = "delete" /\ index[job[w].run] # None
    /\ loaded' = [loaded EXCEPT ![w] = index]
    /\ Moves(w, "index")
    /\ UNCHANGED <<now, lastRun, historyFiles, job, doomed, faulted, crashed>>

\* RankingHistoryLockTimeout after lock_timeout seconds.
GiveUp(w) ==
    /\ at[w] = "waiting"
    /\ lock # "free"
    /\ Leave(w)
    /\ UNCHANGED <<now, lastRun, historyFiles, faulted, crashed>>

\* Fault: an error of the snapshot is swallowed.
WriteSnapshotSwallowed(w) ==
    /\ at[w] = "snapshot"
    /\ \/ snapshots' = [snapshots EXCEPT ![job[w].run] = (job[w].kind = "pin")]
       \/ UNCHANGED snapshots
    /\ Moves(w, "index")
    /\ UNCHANGED <<now, lastRun, index, lock, job, loaded, doomed, faulted, crashed>>

\* write_snapshot: a new file, or the one of a run with its pin changed; the
\* run whose file is missing raises.
WriteSnapshot(w) ==
    /\ at[w] = "snapshot"
    /\ LET r == job[w].run
       IN  IF job[w].kind # "save" /\ snapshots[r] = None
           THEN Moves(w, "release") /\ UNCHANGED snapshots
           ELSE /\ snapshots' = [snapshots EXCEPT ![r] = (job[w].kind = "pin")]
                /\ Moves(w, "index")
    /\ UNCHANGED <<now, lastRun, index, lock, job, loaded, doomed, faulted, crashed>>

\* Fault: a pin is written to the snapshot only.
ChangedUnlessPin(i, j) ==
    CASE j.kind = "save"   -> [i EXCEPT ![j.run] = [sig |-> j.sig, at |-> j.at, pinned |-> FALSE]]
      [] j.kind = "delete" -> [i EXCEPT ![j.run] = None]
      [] OTHER             -> i

\* The index a mutation makes of the one it has read, before it is pruned.
Changed(i, j) ==
    CASE j.kind = "save"   -> [i EXCEPT ![j.run] = [sig |-> j.sig, at |-> j.at, pinned |-> FALSE]]
      [] j.kind = "delete" -> [i EXCEPT ![j.run] = None]
      [] OTHER             -> [i EXCEPT ![j.run] = [@ EXCEPT !.pinned = (j.kind = "pin")]]

\* Fault: a save does not prune the index.
SaveIndexUnpruned(w) ==
    /\ at[w] = "index"
    /\ index' = Changed(loaded[w], job[w])
    /\ doomed' = [doomed EXCEPT ![w] = {job[w].run} \ Indexed(index')]
    /\ Moves(w, "remove")
    /\ UNCHANGED <<now, lastRun, snapshots, lock, job, loaded, faulted, crashed>>

\* save_index; a delete does not prune.
SaveIndex(w) ==
    /\ at[w] = "index"
    /\ LET changed == Changed(loaded[w], job[w])
       IN  index' = IF job[w].kind = "delete" THEN changed ELSE Pruned(changed)
    /\ doomed' = [doomed EXCEPT
         ![w] = (Indexed(loaded[w]) \cup {job[w].run}) \ Indexed(index')]
    /\ Moves(w, "remove")
    /\ UNCHANGED <<now, lastRun, snapshots, lock, job, loaded, faulted, crashed>>

\* delete_snapshot of every run that has left the index; an error leaves the
\* file there.
RemoveSnapshots(w) ==
    /\ at[w] = "remove"
    /\ \E gone \in SUBSET doomed[w] :
         /\ snapshots' = [r \in Run |-> IF r \in gone THEN None ELSE snapshots[r]]
         /\ faulted' = (faulted \/ gone # doomed[w])
    /\ Moves(w, "release")
    /\ UNCHANGED <<now, lastRun, index, lock, job, loaded, doomed, crashed>>

\* A read or a write raises: the file it is about stays as it is.
Raise(w) ==
    /\ at[w] \in {"snapshot", "index"}
    /\ faulted' = TRUE
    /\ Moves(w, "release")
    /\ UNCHANGED <<now, lastRun, historyFiles, job, loaded, doomed, crashed>>

\* The finally clause of lock.
Release(w) ==
    /\ at[w] = "release"
    /\ lock' = "free"
    /\ Leave(w)
    /\ UNCHANGED <<now, lastRun, index, snapshots, faulted, crashed>>

\* The server dies with all its threads; nothing removes .lock afterwards.
ServerDies ==
    /\ \E w \in Worker : at[w] # "idle"
    /\ at' = [w \in Worker |-> "idle"]
    /\ job' = [w \in Worker |-> None]
    /\ loaded' = [w \in Worker |-> NoIndex]
    /\ doomed' = [w \in Worker |-> {}]
    /\ lock' = IF lock = "free" THEN "free" ELSE "left"
    /\ crashed' = (crashed \/ lock # "free")
    /\ UNCHANGED <<now, lastRun, index, snapshots, faulted>>

HistoryTick ==
    /\ now < MaxTime
    /\ now' = now + 1
    /\ UNCHANGED <<lastRun, historyFiles, historyLocals, faulted, crashed>>

HistoryStep(w) ==
    \/ \E sig \in Signature : AskSave(w, sig)
    \/ \E kind \in Kind \ {"save"}, r \in Run : AskAbout(w, kind, r)
    \/ Acquire(w) \/ GiveUp(w) \/ WriteSnapshot(w) \/ SaveIndex(w)
    \/ RemoveSnapshots(w) \/ Raise(w) \/ Release(w)

HistoryNext == (\E w \in Worker : HistoryStep(w)) \/ ServerDies \/ HistoryTick

HistorySpec == HistoryInit /\ [][HistoryNext]_historyVars

-----------------------------------------------------------------------------
(* Properties.                                                             *)

\* Every run the index lists has its snapshot, at any moment, whatever fails
\* and wherever the server dies.
IndexedReadable == \A r \in Indexed(index) : snapshots[r] # None

\* However sessions, failures, timeouts and crashes interleave, the index is a
\* list that mutations change one after the other: none undoes another one,
\* none happens twice, and a run leaves the list only when it is deleted or when
\* it is not pinned and Keep newer runs are not pinned either.
List == INSTANCE RankingList WITH listed <- index
Serialized == List!ListSpec

\* Unless a step failed, the files agree whenever nobody is at work on them:
\* no snapshot is orphaned and no pin is in one of them only.
FilesAgree ==
    lock = "free" /\ ~faulted /\ ~crashed =>
        \A r \in Run : IF index[r] = None THEN snapshots[r] = None
                       ELSE snapshots[r] = index[r].pinned
==============================================================================
