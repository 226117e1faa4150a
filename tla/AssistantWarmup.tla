------------------------------ MODULE AssistantWarmup ------------------------------
(***************************************************************************)
(* The probe that finds out in a thread of its own whether the language    *)
(* model answers (warmup.py): pages start it on every render, a retry      *)
(* starts it again, and all read the state it leaves in the manager.       *)
(* Steps, messages and diagnostics are left out.                           *)
(***************************************************************************)
EXTENDS Integers

CONSTANTS
    Thread,       \* threads the manager starts, one at a time
    MaxAttempts   \* probes of one thread, before it falls back

ASSUME MaxAttemptsAssumption == MaxAttempts \in Nat \ {0}
ASSUME ThreadAssumption      == "none" \notin Thread

Settled  == {"ready", "recovered", "fallback"}
Underway == {"warming", "retrying"}
NoThread == "none"

VARIABLES
    warm,        \* the state of the manager
    recovering,  \* a retry followed a failure
    last,        \* the thread the manager has started last
    probe        \* what each thread does, and how many probes it has made

warmupVars == <<warm, recovering, last, probe>>

Alive(t)   == probe[t].pc # "off"
Working(t) == probe[t].pc \notin {"off", "ending"}

WarmupTypeOK ==
    /\ warm \in Settled \cup Underway \cup {"not_started", "disabled"}
    /\ recovering \in BOOLEAN
    /\ last \in Thread \cup {NoThread}
    /\ probe \in [Thread -> [pc : {"off", "probing", "again", "found", "ready", "recovered",
                                   "fallback", "ending"}, tries : 0 .. MaxAttempts]]

WarmupInit ==
    /\ warm = "not_started"
    /\ recovering = FALSE
    /\ last = NoThread
    /\ probe = [t \in Thread |-> [pc |-> "off", tries |-> 0]]

-----------------------------------------------------------------------------
\* Fault: start does not ask whether the last thread is alive.
LaunchAnyway ==
    /\ \E t \in Thread :
          /\ ~Alive(t)
          /\ probe' = [probe EXCEPT ![t] = [pc |-> "probing", tries |-> 1]]
          /\ last' = t
    /\ warm' = "warming"

\* The part of start that launches a thread; the caller holds the lock.
Launch ==
    /\ last # NoThread => ~Alive(last)
    /\ \E t \in Thread :
          /\ ~Alive(t)
          /\ probe' = [probe EXCEPT ![t] = [pc |-> "probing", tries |-> 1]]
          /\ last' = t
    /\ warm' = "warming"

\* start of a page, enabled by its settings or not.
StartWarmup ==
    \/ warm = "not_started" /\ Launch /\ UNCHANGED recovering
    \/ warm' = "disabled" /\ UNCHANGED <<recovering, last, probe>>

\* retry: first the state is reset; start, in a second critical section, is
\* the next StartWarmup.
RetryWarmup ==
    /\ warm \notin Underway
    /\ recovering' = (warm = "fallback")
    /\ warm' = "not_started"
    /\ UNCHANGED <<last, probe>>

ProbeTo(t, pc) == probe' = [probe EXCEPT ![t].pc = pc]

\* A probe answers, or does not; a missing model is not asked for again.
Probed(t) ==
    /\ probe[t].pc = "probing"
    /\ \/ ProbeTo(t, "found")
       \/ ProbeTo(t, IF probe[t].tries < MaxAttempts THEN "again" ELSE "fallback")
       \/ ProbeTo(t, "fallback")
    /\ UNCHANGED <<warm, recovering, last>>

\* _update_retrying, the pause, and the next probe.
Again(t) ==
    /\ probe[t].pc = "again"
    /\ warm' = "retrying"
    /\ probe' = [probe EXCEPT ![t] = [pc |-> "probing", tries |-> @.tries + 1]]
    /\ UNCHANGED <<recovering, last>>

\* Whether this was a recovery is read, and forgotten, under the lock ...
Recovers(t) ==
    /\ probe[t].pc = "found"
    /\ ProbeTo(t, IF recovering THEN "recovered" ELSE "ready")
    /\ recovering' = FALSE
    /\ UNCHANGED <<warm, last>>

\* ... which _complete takes once more.
Complete(t) ==
    /\ probe[t].pc \in Settled
    /\ warm' = probe[t].pc
    /\ ProbeTo(t, "ending")
    /\ UNCHANGED <<recovering, last>>

End(t) ==
    /\ probe[t].pc = "ending"
    /\ probe' = [probe EXCEPT ![t] = [pc |-> "off", tries |-> 0]]
    /\ UNCHANGED <<warm, recovering, last>>

WarmupNext ==
    \/ StartWarmup
    \/ RetryWarmup
    \/ \E t \in Thread : Probed(t) \/ Again(t) \/ Recovers(t) \/ Complete(t) \/ End(t)

WarmupSpec == WarmupInit /\ [][WarmupNext]_warmupVars

-----------------------------------------------------------------------------
\* What the pages read is what happens: while the manager says that the model is
\* being probed, some thread is at it, and once it has said how that ended none
\* is, however starts, retries and pages that switch it off interleave.
StateIsTrue ==
    /\ warm \in Underway => \E t \in Thread : Working(t)
    /\ warm \in Settled  => \A t \in Thread : ~Working(t)

===================================================================================
