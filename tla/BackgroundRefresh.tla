--------------------------- MODULE BackgroundRefresh ---------------------------
(***************************************************************************)
(* The two background threads that decide which symbols are refreshed, and *)
(* when: the cycle works through its session plan (a startup batch, steps, *)
(* then recurring batches up to a cap), and the target worker runs once    *)
(* for the symbols the UI has just asked for, unless it is already alive.  *)
(*                                                                         *)
(* What a batch does to the stores is SymbolStore's business and how the   *)
(* lock file is handled RefreshLock's: here a batch takes the lock, or     *)
(* finds it taken, and its symbols stop being stale.  Waits take no time.  *)
(* Symbols are numbers, in alphabetical order.                             *)
(***************************************************************************)
EXTENDS Integers, FiniteSets, Sequences

CONSTANTS
    Symbol,       \* symbols in symbol_universe.csv
    Score,        \* refresh_priority_score without the ranking_candidate_bonus
    Request,      \* the symbol sets the UI asks for
    StartupMax,   \* STARTUP_BACKGROUND_REFRESH_MAX_ITEMS
    Steps,        \* max_items of BACKGROUND_REFRESH_STEPS
    RecurringMax, \* BACKGROUND_REFRESH_MAX_ITEMS
    SessionCap,   \* MAX_SYMBOL_REFRESH_PER_SESSION
    TargetMax,    \* TARGET_BACKGROUND_REFRESH_MAX_ITEMS
    HintLimit     \* MAX_SYMBOL_REFRESH_TARGET_HINTS

ASSUME SymbolAssumption    == Symbol \subseteq Nat /\ IsFiniteSet(Symbol)
ASSUME RequestAssumption   == Request \subseteq SUBSET Symbol
ASSUME ScoreAssumption     == Score \in [Symbol -> Nat]
ASSUME LimitsAssumption    ==
    /\ {StartupMax, RecurringMax, SessionCap, TargetMax, HintLimit} \subseteq Nat
    /\ Steps \in Seq(Nat)

Source == {"visible", "ranking"}
Thread == {"cycle", "target"}

VARIABLES
    stale,     \* symbols whose data is missing, stale or expired
    hints,     \* _CURRENTLY_VISIBLE_SYMBOLS and _RANKING_CANDIDATE_SYMBOLS
    lock,      \* who holds symbol_refresh.lock: a thread, a preflight, nobody
    step,      \* where each thread is
    stage,     \* the next batch of the plan: 0, then the steps, then recurring
    refreshed, \* refreshed_count of the cycle
    limit,     \* max_items of the batch each thread is in
    tasks,     \* the symbols of that batch
    unread,    \* history: symbols stale at the reading of the last batch of the
               \* cycle, but not refreshed by it
    disturbed  \* history: a batch of the cycle has found the lock taken or the
               \* CSV empty, or has failed

plan    == <<stage, refreshed>>
batch   == <<limit, tasks>>
history == <<unread, disturbed>>
vars    == <<stale, hints, lock, step, plan, batch, history>>

TypeOK ==
    /\ stale \in SUBSET Symbol
    /\ hints \in [Source -> SUBSET Symbol]
    /\ \A source \in Source : Cardinality(hints[source]) <= HintLimit
    /\ lock \in Thread \cup {"preflight", "free"}
    /\ step \in [Thread -> {"dead", "plan", "build", "acquire", "refresh"}]
    /\ stage \in 0..(Len(Steps) + 1)
    /\ refreshed \in Nat
    /\ limit \in [Thread -> Nat]
    /\ tasks \in [Thread -> SUBSET Symbol]
    /\ unread \in SUBSET Symbol
    /\ disturbed \in BOOLEAN

-----------------------------------------------------------------------------
Smaller(a, b) == IF a < b THEN a ELSE b

\* Fault: the hints are not bounded.
Untrimmed(S) == S

\* _merge_target_symbols keeps the alphabetically first of too many.
Trimmed(S) == {s \in S : Cardinality({t \in S : t < s}) < HintLimit}

\* refresh_priority_score: a visible symbol gets 30, another candidate 15.
Priority(s) ==
    Score[s] + (IF s \in hints["visible"] THEN 30
                ELSE IF s \in hints["ranking"] THEN 15 ELSE 0)

\* build_symbol_refresh_queue: the first n stale symbols by priority; what
\* decides between equals is left open.
Queues(n) ==
    {T \in SUBSET stale :
        /\ Cardinality(T) = Smaller(n, Cardinality(stale))
        /\ \A s \in T, t \in stale \ T : Priority(s) >= Priority(t)}

-----------------------------------------------------------------------------
Init ==
    /\ stale \in SUBSET Symbol
    /\ hints = [source \in Source |-> {}]
    /\ lock = "free"
    /\ step = [t \in Thread |-> "dead"]
    /\ stage = 0
    /\ refreshed = 0
    /\ limit = [t \in Thread |-> 0]
    /\ tasks = [t \in Thread |-> {}]
    /\ unread = {}
    /\ disturbed = FALSE

\* The first render of a session starts the cycle unless it is alive.
StartCycle ==
    /\ step["cycle"] = "dead"
    /\ step' = [step EXCEPT !["cycle"] = "plan"]
    /\ stage' = 0
    /\ refreshed' = 0
    /\ unread' = {}
    /\ disturbed' = FALSE
    /\ UNCHANGED <<stale, hints, lock, batch>>

\* max_items of the next batch of the plan, and what the cap leaves of it.
PlannedLimit ==
    CASE stage = 0              -> StartupMax
      [] stage \in DOMAIN Steps -> Steps[stage]
      [] OTHER                  -> RecurringMax

NextLimit == Smaller(PlannedLimit, SessionCap - refreshed)

\* The cycle waits for its next batch, or has reached the cap.
PlanBatch ==
    /\ step["cycle"] = "plan"
    /\ refreshed < SessionCap
    /\ limit' = [limit EXCEPT !["cycle"] = NextLimit]
    /\ step' = [step EXCEPT !["cycle"] = "build"]
    /\ UNCHANGED <<stale, hints, lock, plan, tasks, history>>

CapReached ==
    /\ step["cycle"] = "plan"
    /\ refreshed >= SessionCap
    /\ step' = [step EXCEPT !["cycle"] = "dead"]
    /\ UNCHANGED <<stale, hints, lock, plan, batch, history>>

\* Fault: a batch that just reached its limit ends the cycle as well.
NextStageIfBelow(attempted) ==
    /\ stage' = Smaller(stage + 1, Len(Steps) + 1)
    /\ step' = [step EXCEPT !["cycle"] =
                   IF attempted <= limit["cycle"] THEN "dead" ELSE "plan"]

\* Fault: a batch that has found nothing to do does not end the cycle.
NextStageAlways(attempted) ==
    /\ stage' = Smaller(stage + 1, Len(Steps) + 1)
    /\ step' = [step EXCEPT !["cycle"] = "plan"]

\* The cycle returns after a batch that attempted less than its limit.
NextStage(attempted) ==
    /\ stage' = Smaller(stage + 1, Len(Steps) + 1)
    /\ step' = [step EXCEPT !["cycle"] =
                   IF attempted < limit["cycle"] THEN "dead" ELSE "plan"]

EndBatch(t, attempted) ==
    IF t = "cycle" THEN NextStage(attempted)
    ELSE step' = [step EXCEPT ![t] = "dead"] /\ UNCHANGED stage

ClearBatch(t) ==
    /\ limit' = [limit EXCEPT ![t] = 0]
    /\ tasks' = [tasks EXCEPT ![t] = {}]

\* The hints are copied, the CSV and the stores are read and the queue is
\* built, of no rows if the CSV cannot be read; without tasks the lock is left
\* alone.
Build(t) ==
    /\ step[t] = "build"
    /\ \E queue \in Queues(limit[t]) \cup {{}} :
         /\ IF queue = {}
            THEN /\ EndBatch(t, 0)
                 /\ ClearBatch(t)
            ELSE /\ tasks' = [tasks EXCEPT ![t] = queue]
                 /\ step' = [step EXCEPT ![t] = "acquire"]
                 /\ UNCHANGED <<stage, limit>>
         /\ disturbed' = (disturbed \/ (t = "cycle" /\ queue \notin Queues(limit[t])))
    /\ unread' = IF t = "cycle" THEN stale ELSE unread
    /\ UNCHANGED <<stale, hints, lock, refreshed>>

Acquire(t) ==
    /\ step[t] = "acquire"
    /\ lock = "free"
    /\ lock' = t
    /\ step' = [step EXCEPT ![t] = "refresh"]
    /\ UNCHANGED <<stale, hints, plan, batch, history>>

\* _skipped_result("lock_active") reports one attempt.
LockActive(t) ==
    /\ step[t] = "acquire"
    /\ lock # "free"
    /\ EndBatch(t, 1)
    /\ ClearBatch(t)
    /\ disturbed' = (disturbed \/ t = "cycle")
    /\ UNCHANGED <<stale, hints, lock, refreshed, unread>>

\* The records are committed, the lock is released, and sync and prune follow.
Refresh(t) ==
    /\ step[t] = "refresh"
    /\ stale' = stale \ tasks[t]
    /\ lock' = "free"
    /\ EndBatch(t, Cardinality(tasks[t]))
    /\ refreshed' = IF t = "cycle" THEN refreshed + Cardinality(tasks[t]) ELSE refreshed
    /\ unread' = IF t = "cycle" THEN unread \ tasks[t] ELSE unread
    /\ ClearBatch(t)
    /\ UNCHANGED <<hints, disturbed>>

\* An exception ends the thread; the finally clause releases the lock.
Fail(t) ==
    /\ step[t] = "refresh"
    /\ lock' = "free"
    /\ step' = [step EXCEPT ![t] = "dead"]
    /\ ClearBatch(t)
    /\ disturbed' = (disturbed \/ t = "cycle")
    /\ UNCHANGED <<stale, hints, plan, unread>>

\* A UI thread asks for symbols: they join the hints, and a target worker is
\* started unless one is alive.
Ask(symbols, source) ==
    /\ symbols # {}
    /\ hints' = [hints EXCEPT ![source] = Trimmed(@ \cup symbols)]
    /\ IF step["target"] = "dead"
       THEN /\ step' = [step EXCEPT !["target"] = "build"]
            /\ limit' = [limit EXCEPT !["target"] = TargetMax]
       ELSE UNCHANGED <<step, limit>>
    /\ UNCHANGED <<stale, lock, plan, tasks, history>>

\* A ranking preflight refreshes symbols of its own, under the same lock.
BeginPreflight ==
    /\ lock = "free"
    /\ lock' = "preflight"
    /\ UNCHANGED <<stale, hints, step, plan, batch, history>>

EndPreflight ==
    /\ lock = "preflight"
    /\ lock' = "free"
    /\ \E symbols \in Request \cup {{}} : stale' = stale \ symbols
    /\ UNCHANGED <<hints, step, plan, batch, history>>

\* SYMBOL_PRICE_FRESH_HOURS pass for a symbol.
Expire(s) ==
    /\ s \notin stale
    /\ stale' = stale \cup {s}
    /\ UNCHANGED <<hints, lock, step, plan, batch, history>>

ThreadStep(t) == Build(t) \/ Acquire(t) \/ LockActive(t) \/ Refresh(t) \/ Fail(t)

Next ==
    \/ StartCycle \/ PlanBatch \/ CapReached
    \/ \E t \in Thread : ThreadStep(t)
    \/ \E symbols \in Request, source \in Source : Ask(symbols, source)
    \/ BeginPreflight \/ EndPreflight
    \/ \E s \in Symbol : Expire(s)

Spec == Init /\ [][Next]_vars

\* A thread that is alive runs, and a preflight ends.
FairSpec ==
    /\ Spec
    /\ WF_vars(PlanBatch \/ CapReached \/ ThreadStep("cycle"))
    /\ WF_vars(ThreadStep("target"))
    /\ WF_vars(EndPreflight)

-----------------------------------------------------------------------------
(* Properties.                                                             *)

\* A session never refreshes more than its cap.
CapRespected == refreshed <= SessionCap

\* The cycle returns only when its cap is reached, or when its last batch has
\* refreshed every symbol it found stale, whatever the target worker and the
\* preflights do, unless a batch of its own was disturbed: a batch that finds
\* the lock taken counts one attempt, less than its limit.
StopsOnlyWhenDone ==
    step["cycle"] = "dead" /\ ~disturbed => refreshed >= SessionCap \/ unread = {}

\* The cycle ends: it holds the busy marker that defers maintenance until then.
CycleEnds == step["cycle"] # "dead" ~> step["cycle"] = "dead"
==============================================================================
