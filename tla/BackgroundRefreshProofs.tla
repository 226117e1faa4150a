------------------------- MODULE BackgroundRefreshProofs -------------------------
(***************************************************************************)
(* Proofs about BackgroundRefresh, for any universe, plan and limits: its  *)
(* types, the cap of a session, and why a cycle returns.                   *)
(***************************************************************************)
EXTENDS BackgroundRefresh, FiniteSetTheorems, TLAPS

InBatch == {"acquire", "refresh"}

\* The batch of the cycle fits into the cap, and is as much of what was stale
\* when the stores were read as its limit allows.
BatchFits ==
    /\ step["cycle"] \in {"build"} \cup InBatch => refreshed + limit["cycle"] <= SessionCap
    /\ step["cycle"] \in InBatch =>
          /\ tasks["cycle"] \subseteq unread
          /\ Cardinality(tasks["cycle"]) = Smaller(limit["cycle"], Cardinality(unread))

CycleInv == TypeOK /\ BatchFits /\ CapRespected /\ StopsOnlyWhenDone

-----------------------------------------------------------------------------
LEMMA FiniteSymbols ==
    ASSUME NEW S \in SUBSET Symbol PROVE IsFiniteSet(S) /\ Cardinality(S) \in Nat
BY SymbolAssumption, FS_Subset, FS_CardinalityType

\* The alphabetically first HintLimit of any set are HintLimit at most: each has
\* a number of smaller ones of its own, below HintLimit.
LEMMA TrimmedBound ==
    ASSUME NEW S \in SUBSET Symbol
    PROVE  Trimmed(S) \subseteq S /\ Cardinality(Trimmed(S)) <= HintLimit
<1> DEFINE T == Trimmed(S)
           below(s) == {t \in S : t < s}
           rank == [s \in T |-> Cardinality(below(s))]
<1>1. T \subseteq S /\ S \subseteq Nat /\ HintLimit \in Nat
  BY SymbolAssumption, LimitsAssumption DEF Trimmed
<1> HIDE DEF T
<1>2. ASSUME NEW s \in T PROVE rank[s] \in 0..(HintLimit - 1)
  <2>1. Cardinality(below(s)) < HintLimit
    BY DEF Trimmed, T
  <2>2. Cardinality(below(s)) \in Nat
    BY FiniteSymbols
  <2>3. QED
    BY <1>1, <2>1, <2>2
<1>3. ASSUME NEW s \in T, NEW u \in T, s < u PROVE rank[s] < rank[u]
  <2>1. below(s) \cup {s} \subseteq below(u) /\ s \notin below(s)
    <3>1. s \in S /\ s \in Int /\ u \in Int /\ \A t \in S : t \in Int
      BY <1>1
    <3>2. ~(s < s) /\ \A t \in S : t < s => t < u
      BY <1>3, <3>1
    <3>3. QED
      BY <1>3, <3>1, <3>2
  <2>2. /\ IsFiniteSet(below(s)) /\ IsFiniteSet(below(u))
        /\ Cardinality(below(s)) \in Nat /\ Cardinality(below(u)) \in Nat
    BY FiniteSymbols
  <2>3. Cardinality(below(s) \cup {s}) = Cardinality(below(s)) + 1
    BY <2>1, <2>2, FS_AddElement
  <2>4. Cardinality(below(s) \cup {s}) <= Cardinality(below(u))
    BY <2>1, <2>2, FS_Subset
  <2>5. QED
    BY <2>2, <2>3, <2>4
<1>4. rank \in Injection(T, 0..(HintLimit - 1))
  <2>1. rank \in [T -> 0..(HintLimit - 1)]
    BY <1>2
  <2>2. ASSUME NEW s \in T, NEW u \in T, s # u PROVE rank[s] # rank[u]
    <3>1. s < u \/ u < s
      BY <1>1, <2>2
    <3>2. rank[s] \in Int /\ rank[u] \in Int
      BY <1>2
    <3> HIDE DEF rank
    <3>3. QED
      BY <1>3, <3>1, <3>2
  <2> HIDE DEF rank
  <2>3. QED
    BY <2>1, <2>2 DEF Injection, IsInjective
<1>5. /\ IsFiniteSet(0..(HintLimit - 1))
      /\ Cardinality(0..(HintLimit - 1)) = HintLimit
  <2>1. 0 \in Int /\ HintLimit - 1 \in Int
    BY <1>1
  <2>2. QED
    BY <1>1, <2>1, FS_Interval
<1>6. Cardinality(T) <= Cardinality(0..(HintLimit - 1))
  BY <1>4, <1>5, FS_Injection
<1>7. QED
  BY <1>1, <1>5, <1>6 DEF T

LEMMA PlanIsNat == TypeOK => PlannedLimit \in Nat
BY LimitsAssumption DEF TypeOK, PlannedLimit

LEMMA CycleInitInv == Init => CycleInv
<1> SUFFICES ASSUME Init PROVE CycleInv
  OBVIOUS
<1>1. Cardinality({}) = 0 /\ HintLimit \in Nat /\ SessionCap \in Nat /\ Len(Steps) \in Nat
  BY FS_EmptySet, LimitsAssumption
<1>2. TypeOK
  <2>1. \A source \in Source : Cardinality(hints[source]) <= HintLimit
    BY <1>1 DEF Init
  <2>2. /\ limit \in [Thread -> Nat] /\ tasks \in [Thread -> SUBSET Symbol]
        /\ hints \in [Source -> SUBSET Symbol]
        /\ stage \in 0..(Len(Steps) + 1)
    BY <1>1 DEF Init
  <2>3. QED
    BY <2>1, <2>2 DEF Init, TypeOK
<1>3. QED
  BY <1>1, <1>2 DEF Init, CycleInv, BatchFits, CapRespected, StopsOnlyWhenDone, InBatch, Thread

\* What every other thread may do between two steps of the cycle.
LEMMA Aside ==
    ASSUME CycleInv, TypeOK', step'["cycle"] = step["cycle"],
           limit'["cycle"] = limit["cycle"], tasks'["cycle"] = tasks["cycle"],
           UNCHANGED <<refreshed, history>>
    PROVE  CycleInv'
BY DEF CycleInv, BatchFits, CapRespected, StopsOnlyWhenDone, history

LEMMA NextStageType ==
    ASSUME TypeOK PROVE Smaller(stage + 1, Len(Steps) + 1) \in 0..(Len(Steps) + 1)
BY LimitsAssumption DEF TypeOK, Smaller

\* The end of a batch, for the thread it is about and for the other one.
LEMMA EndBatchSteps ==
    ASSUME TypeOK, NEW t \in Thread, NEW attempted, EndBatch(t, attempted), ClearBatch(t)
    PROVE  /\ stage' \in 0..(Len(Steps) + 1)
           /\ step' \in [Thread -> {"dead", "plan", "build", "acquire", "refresh"}]
           /\ limit' \in [Thread -> Nat] /\ tasks' \in [Thread -> SUBSET Symbol]
           /\ t = "cycle" => step'["cycle"] = IF attempted < limit["cycle"] THEN "dead" ELSE "plan"
           /\ t # "cycle" => /\ step'["cycle"] = step["cycle"]
                             /\ limit'["cycle"] = limit["cycle"]
                             /\ tasks'["cycle"] = tasks["cycle"]
BY NextStageType DEF TypeOK, EndBatch, NextStage, ClearBatch, Thread

LEMMA PlanInv ==
    ASSUME CycleInv, StartCycle \/ PlanBatch \/ CapReached PROVE CycleInv'
<1>1. /\ refreshed \in Nat /\ SessionCap \in Nat /\ PlannedLimit \in Nat
      /\ step \in [Thread -> {"dead", "plan", "build", "acquire", "refresh"}]
      /\ limit \in [Thread -> Nat] /\ "cycle" \in Thread
      /\ 0 \in 0..(Len(Steps) + 1)
  BY LimitsAssumption, PlanIsNat DEF CycleInv, TypeOK, Thread
<1>2. CASE StartCycle
  <2>1. TypeOK'
    BY <1>1, <1>2, LimitsAssumption DEF StartCycle, CycleInv, TypeOK, batch
  <2>2. QED
    BY <1>1, <1>2, <2>1 DEF StartCycle, CycleInv, BatchFits, CapRespected, StopsOnlyWhenDone,
       InBatch, batch
<1>3. CASE PlanBatch
  <2>1. NextLimit \in Nat /\ refreshed + NextLimit <= SessionCap
    BY <1>1, <1>3 DEF PlanBatch, NextLimit, Smaller
  <2>2. TypeOK'
    BY <1>1, <1>3, <2>1 DEF PlanBatch, CycleInv, TypeOK, plan, history
  <2>3. step'["cycle"] = "build" /\ limit'["cycle"] = NextLimit
    BY <1>1, <1>3 DEF PlanBatch
  <2>4. QED
    BY <1>1, <1>3, <2>1, <2>2, <2>3
       DEF PlanBatch, CycleInv, BatchFits, CapRespected, StopsOnlyWhenDone, InBatch, plan, history
<1>4. CASE CapReached
  <2>1. TypeOK'
    BY <1>1, <1>4 DEF CapReached, CycleInv, TypeOK, plan, batch, history
  <2>2. QED
    BY <1>1, <1>4, <2>1 DEF CapReached, CycleInv, BatchFits, CapRespected, StopsOnlyWhenDone,
       InBatch, plan, batch, history
<1>5. QED
  BY <1>2, <1>3, <1>4

LEMMA BuildInv ==
    ASSUME CycleInv, NEW t \in Thread, Build(t) PROVE CycleInv'
<1>1. PICK queue \in Queues(limit[t]) \cup {{}} :
         /\ IF queue = {}
            THEN /\ EndBatch(t, 0)
                 /\ ClearBatch(t)
            ELSE /\ tasks' = [tasks EXCEPT ![t] = queue]
                 /\ step' = [step EXCEPT ![t] = "acquire"]
                 /\ UNCHANGED <<stage, limit>>
         /\ disturbed' = (disturbed \/ (t = "cycle" /\ queue \notin Queues(limit[t])))
  BY DEF Build
<1>2. /\ step[t] = "build" /\ unread' = (IF t = "cycle" THEN stale ELSE unread)
      /\ UNCHANGED <<stale, hints, lock, refreshed>>
      /\ TypeOK /\ stale \in SUBSET Symbol /\ limit[t] \in Nat /\ limit["cycle"] \in Nat
  BY DEF Build, CycleInv, TypeOK, Thread
<1>3. queue \subseteq stale
      /\ (queue \in Queues(limit[t]) => Cardinality(queue) = Smaller(limit[t], Cardinality(stale)))
  BY DEF Queues
<1>4. /\ stage' \in 0..(Len(Steps) + 1)
      /\ step' \in [Thread -> {"dead", "plan", "build", "acquire", "refresh"}]
      /\ limit' \in [Thread -> Nat] /\ tasks' \in [Thread -> SUBSET Symbol]
      /\ disturbed' \in BOOLEAN
  <2>1. CASE queue = {}
    BY <1>1, <1>2, <2>1, EndBatchSteps DEF TypeOK
  <2>2. CASE queue # {}
    BY <1>1, <1>2, <1>3, <2>2 DEF TypeOK
  <2>3. QED
    BY <2>1, <2>2
<1>5. TypeOK'
  BY <1>2, <1>4 DEF TypeOK
<1>6. CASE t = "cycle" /\ queue = {}
  <2>1. step'["cycle"] = IF 0 < limit["cycle"] THEN "dead" ELSE "plan"
    BY <1>1, <1>2, <1>6, EndBatchSteps
  <2>2. 0 < limit["cycle"] /\ ~disturbed' => unread' = {}
    <3>1. ASSUME 0 < limit["cycle"], ~disturbed' PROVE Cardinality(stale) = 0
      <4>1. queue \in Queues(limit[t])
        BY <1>1, <1>6, <3>1
      <4>2. Cardinality(stale) \in Nat
        BY <1>2, FiniteSymbols
      <4>3. QED
        BY <1>2, <1>3, <1>6, <3>1, <4>1, <4>2, FS_EmptySet DEF Smaller
    <3>2. QED
      BY <1>2, <1>6, <3>1, FiniteSymbols, FS_EmptySet
  <2>3. QED
    BY <1>2, <1>5, <1>6, <2>1, <2>2
       DEF CycleInv, BatchFits, CapRespected, StopsOnlyWhenDone, InBatch
<1>7. CASE t = "cycle" /\ queue # {}
  <2>1. /\ step'["cycle"] = "acquire" /\ limit'["cycle"] = limit["cycle"]
        /\ tasks'["cycle"] = queue
    BY <1>1, <1>2, <1>7 DEF TypeOK
  <2>2. QED
    BY <1>2, <1>3, <1>5, <1>7, <2>1
       DEF CycleInv, BatchFits, CapRespected, StopsOnlyWhenDone, InBatch
<1>8. CASE t # "cycle"
  <2>1. /\ step'["cycle"] = step["cycle"] /\ limit'["cycle"] = limit["cycle"]
        /\ tasks'["cycle"] = tasks["cycle"]
    <3>1. CASE queue = {}
      BY <1>1, <1>2, <1>8, <3>1, EndBatchSteps
    <3>2. CASE queue # {}
      BY <1>1, <1>2, <1>8, <3>2 DEF TypeOK, Thread
    <3>3. QED
      BY <3>1, <3>2
  <2>2. disturbed' = disturbed
    BY <1>1, <1>2, <1>8 DEF TypeOK
  <2>3. QED
    BY <1>2, <1>5, <1>8, <2>1, <2>2, Aside DEF history
<1>9. QED
  BY <1>6, <1>7, <1>8

LEMMA AcquireInv ==
    ASSUME CycleInv, NEW t \in Thread, Acquire(t) PROVE CycleInv'
<1>1. TypeOK'
  BY DEF Acquire, CycleInv, TypeOK, plan, batch, history
<1>2. step' = [step EXCEPT ![t] = "refresh"] /\ step[t] = "acquire"
      /\ UNCHANGED <<refreshed, batch, history>>
  BY DEF Acquire, plan
<1>3. step'["cycle"] \in InBatch <=> step["cycle"] \in InBatch
  BY <1>2 DEF CycleInv, TypeOK, InBatch, Thread
<1>4. step'["cycle"] \notin {"build", "dead"} \/ step'["cycle"] = step["cycle"]
  BY <1>2 DEF CycleInv, TypeOK, Thread
<1>5. QED
  BY <1>1, <1>2, <1>3, <1>4
     DEF CycleInv, BatchFits, CapRespected, StopsOnlyWhenDone, batch, history

LEMMA LockActiveInv ==
    ASSUME CycleInv, NEW t \in Thread, LockActive(t) PROVE CycleInv'
<1>1. /\ EndBatch(t, 1) /\ ClearBatch(t) /\ disturbed' = (disturbed \/ t = "cycle")
      /\ UNCHANGED <<stale, hints, lock, refreshed, unread>>
      /\ TypeOK
  BY DEF LockActive, CycleInv
<1>2. TypeOK'
  BY <1>1, EndBatchSteps DEF TypeOK
<1>3. CASE t = "cycle"
  <2>1. step'["cycle"] \in {"dead", "plan"} /\ disturbed'
    BY <1>1, <1>3, EndBatchSteps
  <2>2. QED
    BY <1>1, <1>2, <2>1 DEF CycleInv, BatchFits, CapRespected, StopsOnlyWhenDone, InBatch
<1>4. CASE t # "cycle"
  <2>1. disturbed' = disturbed
    BY <1>1, <1>4 DEF TypeOK
  <2>2. QED
    BY <1>1, <1>2, <1>4, <2>1, EndBatchSteps, Aside DEF history
<1>5. QED
  BY <1>3, <1>4

LEMMA RefreshInv ==
    ASSUME CycleInv, NEW t \in Thread, Refresh(t) PROVE CycleInv'
<1>1. /\ step[t] = "refresh"
      /\ stale' = stale \ tasks[t] /\ lock' = "free"
      /\ EndBatch(t, Cardinality(tasks[t])) /\ ClearBatch(t)
      /\ refreshed' = (IF t = "cycle" THEN refreshed + Cardinality(tasks[t]) ELSE refreshed)
      /\ unread' = (IF t = "cycle" THEN unread \ tasks[t] ELSE unread)
      /\ UNCHANGED <<hints, disturbed>>
      /\ TypeOK
  BY DEF Refresh, CycleInv
<1>2. /\ tasks[t] \in SUBSET Symbol /\ unread \in SUBSET Symbol
      /\ refreshed \in Nat /\ limit["cycle"] \in Nat /\ SessionCap \in Nat
  BY <1>1, LimitsAssumption DEF TypeOK, Thread
<1>3. /\ Cardinality(tasks[t]) \in Nat /\ Cardinality(unread) \in Nat
      /\ IsFiniteSet(unread)
  BY <1>2, FiniteSymbols
<1>4. TypeOK'
  BY <1>1, <1>2, <1>3, EndBatchSteps DEF TypeOK
<1>5. CASE t = "cycle"
  <2>1. /\ tasks[t] \subseteq unread
        /\ Cardinality(tasks[t]) = Smaller(limit["cycle"], Cardinality(unread))
        /\ refreshed + limit["cycle"] <= SessionCap
    BY <1>1, <1>5 DEF CycleInv, BatchFits, InBatch
  <2>2. refreshed' <= SessionCap
    BY <1>1, <1>2, <1>3, <1>5, <2>1 DEF Smaller
  <2>3. Cardinality(tasks[t]) < limit["cycle"] => unread' = {}
    <3>1. Cardinality(tasks[t]) < limit["cycle"] => Cardinality(unread) = Cardinality(tasks[t])
      BY <1>2, <1>3, <2>1 DEF Smaller
    <3>2. Cardinality(unread) = Cardinality(tasks[t]) => unread = tasks[t]
      BY <1>3, <2>1, FS_Subset
    <3>3. QED
      BY <1>1, <1>5, <3>1, <3>2
  <2>4. step'["cycle"] = IF Cardinality(tasks[t]) < limit["cycle"] THEN "dead" ELSE "plan"
    BY <1>1, <1>5, EndBatchSteps
  <2>5. QED
    BY <1>4, <2>2, <2>3, <2>4
       DEF CycleInv, BatchFits, CapRespected, StopsOnlyWhenDone, InBatch
<1>6. CASE t # "cycle"
  BY <1>1, <1>4, <1>6, EndBatchSteps, Aside DEF history
<1>7. QED
  BY <1>5, <1>6

LEMMA FailInv ==
    ASSUME CycleInv, NEW t \in Thread, Fail(t) PROVE CycleInv'
<1>1. /\ step' = [step EXCEPT ![t] = "dead"] /\ ClearBatch(t)
      /\ lock' = "free" /\ disturbed' = (disturbed \/ t = "cycle")
      /\ UNCHANGED <<stale, hints, plan, unread>> /\ TypeOK
  BY DEF Fail, CycleInv
<1>2. TypeOK'
  BY <1>1 DEF TypeOK, ClearBatch, plan
<1>3. CASE t = "cycle"
  <2>1. step'["cycle"] = "dead" /\ disturbed'
    BY <1>1, <1>3 DEF TypeOK
  <2>2. QED
    BY <1>1, <1>2, <2>1 DEF CycleInv, BatchFits, CapRespected, StopsOnlyWhenDone, InBatch, plan
<1>4. CASE t # "cycle"
  <2>1. /\ disturbed' = disturbed /\ step'["cycle"] = step["cycle"]
        /\ limit'["cycle"] = limit["cycle"] /\ tasks'["cycle"] = tasks["cycle"]
    BY <1>1, <1>4 DEF TypeOK, ClearBatch, Thread
  <2>2. QED
    BY <1>1, <1>2, <2>1, Aside DEF history, plan
<1>5. QED
  BY <1>3, <1>4

LEMMA AskInv ==
    ASSUME CycleInv, NEW symbols \in Request, NEW source \in Source, Ask(symbols, source)
    PROVE  CycleInv'
<1>1. TypeOK /\ symbols \in SUBSET Symbol /\ hints[source] \in SUBSET Symbol
  BY RequestAssumption DEF CycleInv, TypeOK
<1>2. /\ Trimmed(hints[source] \cup symbols) \in SUBSET Symbol
      /\ Cardinality(Trimmed(hints[source] \cup symbols)) <= HintLimit
  <2>1. hints[source] \cup symbols \in SUBSET Symbol
    BY <1>1
  <2>2. QED
    BY <2>1, TrimmedBound
<1>3. /\ hints' \in [Source -> SUBSET Symbol]
      /\ \A other \in Source : Cardinality(hints'[other]) <= HintLimit
  BY <1>1, <1>2 DEF Ask, TypeOK
<1>4. /\ step' \in [Thread -> {"dead", "plan", "build", "acquire", "refresh"}]
      /\ limit' \in [Thread -> Nat]
      /\ step'["cycle"] = step["cycle"] /\ limit'["cycle"] = limit["cycle"]
  BY <1>1, LimitsAssumption DEF Ask, TypeOK, Thread
<1>5. TypeOK'
  BY <1>1, <1>3, <1>4 DEF Ask, TypeOK, plan, history
<1>6. QED
  BY <1>4, <1>5, Aside DEF Ask, plan, history

\* A preflight begins or ends, or the data of a symbol grows old.
LEMMA OutsideInv ==
    ASSUME CycleInv, BeginPreflight \/ EndPreflight \/ (\E s \in Symbol : Expire(s))
    PROVE  CycleInv'
<1>1. /\ lock' \in Thread \cup {"preflight", "free"} /\ stale' \in SUBSET Symbol
      /\ UNCHANGED <<hints, step, plan, batch, history>>
  BY DEF BeginPreflight, EndPreflight, Expire, CycleInv, TypeOK
<1>2. TypeOK'
  BY <1>1 DEF CycleInv, TypeOK, plan, batch, history
<1>3. QED
  BY <1>1, <1>2, Aside DEF plan, batch

LEMMA CycleStepInv == CycleInv /\ [Next]_vars => CycleInv'
<1> SUFFICES ASSUME CycleInv, [Next]_vars PROVE CycleInv'
  OBVIOUS
<1>1. CASE UNCHANGED vars
  <2>1. TypeOK'
    BY <1>1 DEF vars, plan, batch, history, CycleInv, TypeOK
  <2>2. QED
    BY <1>1, <2>1, Aside DEF vars, plan, batch
<1>2. ASSUME NEW t \in Thread, ThreadStep(t) PROVE CycleInv'
  BY <1>2, BuildInv, AcquireInv, LockActiveInv, RefreshInv, FailInv DEF ThreadStep
<1>3. QED
  BY <1>1, <1>2, PlanInv, AskInv, OutsideInv DEF Next

-----------------------------------------------------------------------------
LEMMA CycleInvariant == Spec => []CycleInv
BY CycleInitInv, CycleStepInv, PTL DEF Spec

\* The variables keep their types, the hints their limit: the alphabetically
\* first HintLimit symbols are kept of any number of them.
THEOREM TypeCorrect == Spec => []TypeOK
BY CycleInvariant, PTL DEF CycleInv

\* A session never refreshes more than its cap, for any plan and any number of
\* symbols that grow stale meanwhile.
THEOREM CapIsRespected == Spec => []CapRespected
BY CycleInvariant, PTL DEF CycleInv

\* A cycle that was not disturbed returns only when its work is done.
THEOREM CycleStopsWhenDone == Spec => []StopsOnlyWhenDone
BY CycleInvariant, PTL DEF CycleInv
==================================================================================
