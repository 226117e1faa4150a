-------------------------------- MODULE NewsRefresh --------------------------------
(***************************************************************************)
(* The refresh of the news cache: the background worker of the server and  *)
(* the news page run it, without a lock, over one snapshot, one temporary  *)
(* file, one backup and one status file.                                   *)
(*                                                                         *)
(* What a snapshot says, and the ages that let a refresh be skipped, are   *)
(* left out.  Files behave as under POSIX: opening one for writing empties *)
(* it, and who has it open writes to it wherever it is moved.              *)
(***************************************************************************)
EXTENDS Integers

CONSTANTS
    Refresher,   \* threads that refresh
    MaxRetry     \* builds after the first (MAX_REFRESH_RETRY)

ASSUME NewsRetryAssumption == MaxRetry \in Nat

\* What a file holds; "cut" is a part of a text, or a mixture of two.
Content == {"absent", "cut", "whole"}

VARIABLES
    cache,      \* news_dashboard_snapshot.json
    tmp,        \* the temporary file of all refreshes
    flag,       \* is_refreshing in the status file; "cut" reads as the default, false
    refresher,  \* the locals of each thread
    saved,      \* history: a snapshot has been saved
    doubtful,   \* history: while the last one was saved another thread saved too
    lapse       \* history: a crash, or a status that could not be written

newsVars == <<cache, tmp, flag, refresher, saved, doubtful, lapse>>

Saving == {"fill", "validate", "replace"}
Pcs    == {"idle", "load", "skip", "mark", "build", "tidy", "unlink", "good", "bad"} \cup Saving

\* failures: failed attempts;  broken: the attempt has failed;  met: another
\* thread saved at the same time;  file: what the thread has open for writing,
\* "cache" when the temporary file was moved and "gone" when it was removed;
\* mixed: another has written to it since.
Locals == [pc : Pcs, failures : 0 .. MaxRetry, broken : BOOLEAN, met : BOOLEAN,
           file : {"none", "status", "tmp", "cache", "gone"}, mixed : BOOLEAN]

NoRefresh == [pc |-> "idle", failures |-> 0, broken |-> FALSE, met |-> FALSE,
              file |-> "none", mixed |-> FALSE]

NewsTypeOK ==
    /\ cache \in Content
    /\ tmp \in Content
    /\ flag \in {"true", "false", "cut"}
    /\ refresher \in [Refresher -> Locals]
    /\ {saved, doubtful, lapse} \subseteq BOOLEAN

NewsInit ==
    /\ cache = "absent"
    /\ tmp = "absent"
    /\ flag = "false"
    /\ refresher = [r \in Refresher |-> NoRefresh]
    /\ saved = FALSE
    /\ doubtful = FALSE
    /\ lapse = FALSE

-----------------------------------------------------------------------------
RefresherTo(r, pc) == refresher' = [refresher EXCEPT ![r].pc = pc]
Break(r) == refresher' = [refresher EXCEPT ![r].pc = "tidy", ![r].broken = TRUE]

\* A failed step of an attempt: once more, or the failure is noted.
Failed(r) == IF refresher[r].failures < MaxRetry
             THEN [NoRefresh EXCEPT !.pc = "build", !.failures = refresher[r].failures + 1]
             ELSE [NoRefresh EXCEPT !.pc = "bad"]

\* The other threads when r opens a file, which empties it, or writes to it.
Emptied(r, name) == [o \in Refresher \ {r} |->
    IF refresher[o].file = name THEN [refresher[o] EXCEPT !.mixed = FALSE] ELSE refresher[o]]
Written(r) == [o \in Refresher \ {r} |->
    IF refresher[o].file = refresher[r].file THEN [refresher[o] EXCEPT !.mixed = TRUE]
                                             ELSE refresher[o]]

\* The threads, which r changes to own, when the temporary file is removed or
\* becomes the snapshot.
TmpRemoved(r, own) == [o \in Refresher |->
    IF o = r THEN own
    ELSE IF refresher[o].file = "tmp" THEN [refresher[o] EXCEPT !.file = "gone"] ELSE refresher[o]]
TmpMoved(r, own) == [o \in Refresher |->
    IF o = r THEN own
    ELSE IF refresher[o].file = "tmp" THEN [refresher[o] EXCEPT !.file = "cache"]
    ELSE IF refresher[o].file = "cache" THEN [refresher[o] EXCEPT !.file = "gone"]
    ELSE refresher[o]]

\* cleanup_news_cache_files: a leftover temporary file is removed.
CleanUp(r) ==
    /\ refresher[r].pc = "idle"
    /\ refresher' = TmpRemoved(r, [refresher[r] EXCEPT !.pc = "load"])
    /\ tmp' = "absent"
    /\ UNCHANGED <<cache, flag, saved, doubtful, lapse>>

\* _should_skip_refresh: with a snapshot to show the ages decide.
DecideRefresh(r) ==
    /\ refresher[r].pc = "load"
    /\ \/ cache = "whole" /\ RefresherTo(r, "skip")
       \/ RefresherTo(r, "mark")
    /\ UNCHANGED <<cache, tmp, flag, saved, doubtful, lapse>>

\* save_news_update_status opens the status file ...
OpenStatus(r) ==
    /\ refresher[r].pc \in {"mark", "skip", "good", "bad"} /\ refresher[r].file = "none"
    /\ LET own == [refresher[r] EXCEPT !.file = "status", !.mixed = FALSE]
       IN  refresher' = [o \in Refresher |-> IF o = r THEN own ELSE Emptied(r, "status")[o]]
    /\ flag' = "cut"
    /\ UNCHANGED <<cache, tmp, saved, doubtful, lapse>>

\* ... and writes it.  A refresh begins by setting the flag, and its success,
\* its failure and the decision to skip clear it.  What is written over a longer
\* text of another thread leaves the end of that.
WriteStatus(r) ==
    /\ refresher[r].file = "status"
    /\ \/ flag' = IF refresher[r].pc = "mark" THEN "true" ELSE "false"
       \/ refresher[r].mixed /\ flag' = "cut"
    /\ LET own == IF refresher[r].pc = "mark"
                  THEN [refresher[r] EXCEPT !.pc = "build", !.file = "none", !.mixed = FALSE]
                  ELSE NoRefresh
       IN  refresher' = [o \in Refresher |-> IF o = r THEN own ELSE Written(r)[o]]
    /\ UNCHANGED <<cache, tmp, saved, doubtful, lapse>>

\* A status that cannot be opened, or is written in part: within an attempt
\* that is a failure like the others, else the refresh ends in the error.
LoseStatus(r) ==
    /\ refresher[r].pc \in {"mark", "skip", "good", "bad"}
    /\ LET own == IF refresher[r].pc = "good" THEN Failed(r) ELSE NoRefresh
       IN  refresher' = [o \in Refresher |-> IF o = r THEN own
                            ELSE IF refresher[r].file = "status" THEN Written(r)[o]
                            ELSE refresher[o]]
    /\ flag' \in {flag, IF refresher[r].file = "status" THEN "cut" ELSE flag}
    /\ lapse' = TRUE
    /\ UNCHANGED <<cache, tmp, saved, doubtful>>

\* The sources are asked; the temporary file is opened.
Build(r) ==
    /\ refresher[r].pc = "build"
    /\ \/ LET others == {o \in Refresher \ {r} : refresher[o].pc \in Saving}
              own    == [refresher[r] EXCEPT !.pc = "fill", !.file = "tmp", !.met = others # {}]
          IN  /\ refresher' = [o \in Refresher |->
                     IF o = r THEN own
                     ELSE IF o \in others THEN [Emptied(r, "tmp")[o] EXCEPT !.met = TRUE]
                     ELSE refresher[o]]
              /\ tmp' = "cut"
       \/ refresher' = [refresher EXCEPT ![r] = Failed(r)] /\ UNCHANGED tmp
    /\ UNCHANGED <<cache, flag, saved, doubtful, lapse>>

\* The text is written, or only a part of it and an error.
Fill(r) ==
    /\ refresher[r].pc = "fill"
    /\ \E content \in {"cut", "whole"}, fails \in BOOLEAN :
         /\ content = "cut" => fails \/ refresher[r].mixed
         /\ fails => content = "cut"
         /\ tmp'   = IF refresher[r].file = "tmp" THEN content ELSE tmp
         /\ cache' = IF refresher[r].file = "cache" THEN content ELSE cache
         /\ LET own == [refresher[r] EXCEPT !.pc = IF fails THEN "tidy" ELSE "validate",
                                            !.broken = fails, !.file = "none", !.mixed = FALSE]
            IN  refresher' = [o \in Refresher |-> IF o = r THEN own ELSE Written(r)[o]]
    /\ UNCHANGED <<flag, saved, doubtful, lapse>>

\* The temporary file is read back and parsed; the backup of the snapshot,
\* which nobody reads, is written here, and may fail.
Validate(r) ==
    /\ refresher[r].pc = "validate"
    /\ \/ tmp = "whole" /\ RefresherTo(r, "replace")
       \/ Break(r)
    /\ UNCHANGED <<cache, tmp, flag, saved, doubtful, lapse>>

\* The temporary file replaces the snapshot, if it is still there.
Replace(r) ==
    /\ refresher[r].pc = "replace"
    /\ IF tmp = "absent"
       THEN Break(r) /\ UNCHANGED <<cache, tmp, saved, doubtful>>
       ELSE /\ refresher' = TmpMoved(r, [refresher[r] EXCEPT !.pc = "tidy"])
            /\ cache' = tmp
            /\ tmp' = "absent"
            /\ saved' = TRUE
            /\ doubtful' = refresher[r].met
    /\ UNCHANGED <<flag, lapse>>

AfterTidy(r) == IF refresher[r].broken THEN Failed(r) ELSE [refresher[r] EXCEPT !.pc = "good"]

\* Fault: what is left is moved to the snapshot.
TidyMoves(r) ==
    /\ refresher[r].pc = "tidy"
    /\ IF tmp = "absent" THEN refresher' = [refresher EXCEPT ![r] = AfterTidy(r)]
                         ELSE refresher' = TmpMoved(r, AfterTidy(r))
    /\ cache' = IF tmp = "absent" THEN cache ELSE tmp
    /\ tmp' = "absent"
    /\ UNCHANGED <<flag, saved, doubtful, lapse>>

\* finally: is a temporary file there, ...
Tidy(r) ==
    /\ refresher[r].pc = "tidy"
    /\ IF tmp = "absent" THEN refresher' = [refresher EXCEPT ![r] = AfterTidy(r)]
                         ELSE RefresherTo(r, "unlink")
    /\ UNCHANGED <<cache, tmp, flag, saved, doubtful, lapse>>

\* ... it is removed, whoever wrote it; when it is not there any more that is an
\* error.
Unlink(r) ==
    /\ refresher[r].pc = "unlink"
    /\ IF tmp = "absent" THEN refresher' = [refresher EXCEPT ![r] = Failed(r)]
                         ELSE refresher' = TmpRemoved(r, AfterTidy(r))
    /\ tmp' = "absent"
    /\ UNCHANGED <<cache, flag, saved, doubtful, lapse>>

\* The server dies; the files stay as they are.
CrashNews ==
    /\ refresher' = [r \in Refresher |-> NoRefresh]
    /\ lapse' = TRUE
    /\ UNCHANGED <<cache, tmp, flag, saved, doubtful>>

NewsNext ==
    \/ \E r \in Refresher :
          \/ CleanUp(r) \/ DecideRefresh(r) \/ OpenStatus(r) \/ WriteStatus(r) \/ LoseStatus(r)
          \/ Build(r) \/ Fill(r) \/ Validate(r) \/ Replace(r) \/ Tidy(r) \/ Unlink(r)
    \/ CrashNews

NewsSpec == NewsInit /\ [][NewsNext]_newsVars

-----------------------------------------------------------------------------
\* A snapshot that was saved while no other thread was saving is complete, and
\* stays so until the next one is saved, whatever fails, crashes, cleans up or
\* starts to save in between.  And when every refresh has ended the status file
\* does not claim that one still runs, unless a crash or a disk error kept the
\* last word from being written.
NewsKept ==
    /\ saved /\ ~doubtful => cache = "whole"
    /\ (\A r \in Refresher : refresher[r].pc = "idle") /\ ~lapse => flag # "true"

\* Saving the snapshot is atomic: once there is one there is a complete one.
SnapshotWhole == saved => cache = "whole"

====================================================================================
