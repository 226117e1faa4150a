-------------------------- MODULE SymbolStoreProofs --------------------------
(***************************************************************************)
(* Proofs about SymbolStore, for every set of symbols and of workers and   *)
(* every batch size: its type invariant, that no listed symbol is ever     *)
(* lost but to a prune that has missed its row, and that no other known    *)
(* symbol is taken for missing.                                            *)
(***************************************************************************)
EXTENDS SymbolStore, TLAPS

LEMMA ConstantTypes ==
    /\ NoBatch \in Batch
    /\ NoRows \in [Symbol -> Time \cup {None}]
    /\ 0 \in Time
BY MaxTimeAssumption DEF NoBatch, Batch, NoRows, Time, BatchStep

\* A batch keeps its type when its tasks are built.
LEMMA BuiltType ==
    ASSUME NEW b \in Batch, NEW step \in BatchStep, NEW tasks \in SUBSET Symbol,
           NEW misjudged \in SUBSET Symbol, NEW failed \in BOOLEAN
    PROVE  [b EXCEPT !.step = step, !.rows = {}, !.loaded = NoRows, !.tasks = tasks,
                     !.knownThen = {}, !.misjudged = misjudged, !.failed = failed] \in Batch
<1>1. NoRows \in [Symbol -> Time \cup {None}]
  BY ConstantTypes
<1>2. QED
  BY <1>1, Zenon DEF Batch

\* The type invariant holds in every reachable state.
THEOREM TypeCorrect == Spec => []TypeOK
<1>1. Init => TypeOK
  BY ConstantTypes, Zenon DEF Init, TypeOK, RowState, NoRows
<1>2. TypeOK /\ [Next]_vars => TypeOK'
  <2> SUFFICES ASSUME TypeOK, [Next]_vars PROVE TypeOK'
    OBVIOUS
  <2> USE ConstantTypes DEF TypeOK
  <2>1. ASSUME NEW w \in Worker, Start(w) PROVE TypeOK'
    <3>1. PICK targets \in SUBSET Symbol, failed \in BOOLEAN :
            batch' = [batch EXCEPT ![w] =
               [NoBatch EXCEPT
                  !.step      = "loadMetrics",
                  !.at        = now,
                  !.targets   = targets,
                  !.rows      = targets \cap Listed,
                  !.loaded    = IF failed THEN NoRows ELSE records,
                  !.knownThen = {s \in Symbol \ Unseen : ~failed /\ Known(s)},
                  !.failed    = failed]]
      BY <2>1 DEF Start
    <3>2. batch' \in [Worker -> Batch]
      BY <3>1 DEF Batch, BatchStep, NoBatch
    <3> QED BY <2>1, <3>2 DEF Start, csvVars
  <2>2. ASSUME NEW w \in Worker, BuildTasks(w) PROVE TypeOK'
    <3> DEFINE official(f) == IF f THEN NoRows ELSE metrics
               reference(s, f) == Reference(s, batch[w].loaded, official(f))
               unknown(c, f) == {s \in c \cap batch[w].knownThen :
                                   ~f /\ reference(s, f) = None}
               built(c, f) ==
                 [batch[w] EXCEPT
                     !.step      = IF c = {} THEN "syncLoad" ELSE "refresh",
                     !.rows      = {},
                     !.loaded    = NoRows,
                     !.tasks     = c,
                     !.knownThen = {},
                     !.misjudged = unknown(c, f),
                     !.failed    = batch[w].failed \/ f]
    <3>1. PICK f \in BOOLEAN, c \in SUBSET batch[w].rows :
            batch' = [batch EXCEPT ![w] = built(c, f)]
      BY <2>2 DEF BuildTasks, Bounded
    <3>2. /\ c \in SUBSET Symbol
          /\ unknown(c, f) \in SUBSET Symbol
          /\ (batch[w].failed \/ f) \in BOOLEAN
      BY <3>1 DEF Batch
    <3> HIDE DEF unknown
    <3>3. built(c, f) \in Batch
      <4>1. batch[w] \in Batch /\ (IF c = {} THEN "syncLoad" ELSE "refresh") \in BatchStep
        BY DEF BatchStep
      <4>2. QED
        BY <3>2, <4>1, BuiltType
    <3>4. batch' \in [Worker -> Batch]
      BY <3>1, <3>3
    <3> QED BY <2>2, <3>4 DEF BuildTasks, csvVars
  <2>3. ASSUME NEW w \in Worker, CommitRecords(w) PROVE TypeOK'
    <3>1. batch' \in [Worker -> Batch]
      BY <2>3 DEF CommitRecords, Batch, BatchStep, NoBatch
    <3>2. records' \in [Symbol -> Time \cup {None}]
      BY <2>3 DEF CommitRecords, Batch
    <3> QED BY <2>3, <3>1, <3>2 DEF CommitRecords, csvVars
  <2>4. ASSUME NEW w \in Worker, SyncLoad(w) PROVE TypeOK'
    <3> DEFINE copy(T) == [s \in Symbol |-> IF s \in T THEN records[s] ELSE None]
               read(T) == [NoBatch EXCEPT !.step = "syncSave", !.at = now,
                                          !.loaded = copy(T)]
    <3>1. PICK T : batch' = [batch EXCEPT ![w] = read(T)]
      BY <2>4 DEF SyncLoad
    <3>2. copy(T) \in [Symbol -> Time \cup {None}]
      OBVIOUS
    <3> HIDE DEF copy
    <3>3. read(T) \in Batch
      BY <3>2 DEF Batch, BatchStep, NoBatch
    <3>4. batch' \in [Worker -> Batch]
      BY <3>1, <3>3
    <3> QED BY <2>4, <3>4 DEF SyncLoad, csvVars
  <2>5. ASSUME NEW w \in Worker, SyncSave(w) PROVE TypeOK'
    <3>1. [batch[w] EXCEPT !.step = "syncDelete"] \in Batch
      BY DEF Batch, BatchStep
    <3>2. metrics' \in [Symbol -> Metric \cup {None}]
      <4>1. SUFFICES ASSUME NEW s \in Symbol, s \in Promoted(w)
                     PROVE  [copied |-> batch[w].loaded[s],
                             promoted |-> batch[w].at] \in Metric
        BY <2>5 DEF SyncSave
      <4>2. batch[w].loaded[s] \in Time /\ batch[w].at \in Time
        BY <4>1 DEF Batch, Promoted
      <4> QED BY <4>2 DEF Metric
    <3> QED BY <2>5, <3>1, <3>2 DEF SyncSave, csvVars
  <2>6. ASSUME NEW w \in Worker, SyncDelete(w) PROVE TypeOK'
    <3>1. batch' \in [Worker -> Batch]
      BY <2>6 DEF SyncDelete, Batch, BatchStep, NoBatch
    <3>2. records' \in [Symbol -> Time \cup {None}]
      BY <2>6 DEF SyncDelete
    <3> QED BY <2>6, <3>1, <3>2 DEF SyncDelete, csvVars
  <2>7. ASSUME NEW w \in Worker, PruneRead(w) PROVE TypeOK'
    <3>1. [batch[w] EXCEPT !.step = "pruneLoad", !.rows = Active] \in Batch
      BY DEF Batch, BatchStep, Active
    <3>2. batch' \in [Worker -> Batch]
      BY <2>7, <3>1 DEF PruneRead
    <3> QED BY <2>7, <3>2 DEF PruneRead, csvVars
  <2>8. ASSUME NEW w \in Worker, PruneLoad(w) PROVE TypeOK'
    <3> DEFINE doomed == {s \in Symbol : metrics[s] # None} \ batch[w].rows
    <3>1. [batch[w] EXCEPT !.step = "pruneDelete", !.doomed = doomed] \in Batch
      BY DEF Batch, BatchStep
    <3>2. batch' \in [Worker -> Batch]
      BY <2>8, <3>1 DEF PruneLoad
    <3> QED BY <2>8, <3>2 DEF PruneLoad, csvVars
  <2>9. ASSUME NEW w \in Worker, PruneDelete(w) PROVE TypeOK'
    <3>1. batch' \in [Worker -> Batch]
      BY <2>9 DEF PruneDelete
    <3>2. metrics' \in [Symbol -> Metric \cup {None}]
      BY <2>9 DEF PruneDelete
    <3> QED BY <2>9, <3>1, <3>2 DEF PruneDelete, csvVars
  <2>10. ASSUME NEW w \in Worker, Fail(w) PROVE TypeOK'
    BY <2>10 DEF Fail, csvVars
  <2>11. CASE Crash
    BY <2>11 DEF Crash, csvVars
  <2>12. CASE Tick
    BY <2>12, MaxTimeAssumption DEF Tick, csvVars, Time
  <2>13. CASE Maintenance
    BY <2>13 DEF Maintenance, SetRow, BeginRewrite, WriteRow, csvVars
  <2>14. CASE UNCHANGED vars
    BY <2>14 DEF vars, csvVars
  <2> QED
    BY <2>1, <2>2, <2>3, <2>4, <2>5, <2>6, <2>7, <2>8, <2>9, <2>10, <2>11,
       <2>12, <2>13, <2>14 DEF Next, WorkerStep
<1> QED BY <1>1, <1>2, PTL DEF Spec

-----------------------------------------------------------------------------
(* The inductive invariant.                                                *)

StoreInv ==
    /\ TypeOK
    /\ InactiveWasDelisted
    /\ \A w \in Worker : LocalInv(w)

\* What every step leaves of the past: what was unseen once stays so, and the
\* metric of any other symbol stays in the store.
Kept ==
    /\ Unseen \subseteq Unseen'
    /\ \A s \in Symbol \ Unseen' : metrics[s] # None => metrics'[s] # None

LEMMA StepKeeps ==
    ASSUME StoreInv, [Next]_vars
    PROVE  Kept
<1> USE DEF StoreInv, TypeOK
<1>1. CASE UNCHANGED <<metrics, delisted, misread>>
  BY <1>1 DEF Kept, Unseen
<1>2. ASSUME NEW w \in Worker, SyncSave(w) PROVE Kept
  <2>1. \A s \in Promoted(w) :
          [copied |-> batch[w].loaded[s], promoted |-> batch[w].at] # None
    <3> SUFFICES ASSUME NEW s \in Promoted(w)
                 PROVE  [copied |-> batch[w].loaded[s],
                         promoted |-> batch[w].at] \in Metric
      BY NoneAssumption
    <3>1. batch[w].loaded[s] \in Time /\ batch[w].at \in Time
      BY DEF Batch, Promoted
    <3> QED BY <3>1 DEF Metric
  <2> QED BY <1>2, <2>1 DEF SyncSave, Kept, Unseen, csvVars
<1>3. ASSUME NEW w \in Worker, PruneDelete(w) PROVE Kept
  <2>1. batch[w].doomed \subseteq Unseen
    BY <1>3 DEF PruneDelete, LocalInv
  <2>2. Unseen' = Unseen
    BY <1>3 DEF PruneDelete, Unseen, csvVars
  <2> QED BY <1>3, <2>1, <2>2 DEF PruneDelete, Kept
<1>4. ASSUME NEW s \in Symbol, NEW state \in RowState, SetRow(s, state)
      PROVE  Kept
  BY <1>4 DEF SetRow, Kept, Unseen
<1>5. ASSUME NEW w \in Worker, PruneRead(w) PROVE Kept
  BY <1>5 DEF PruneRead, Kept, Unseen
<1> QED
  BY <1>1, <1>2, <1>3, <1>4, <1>5
  DEF Next, WorkerStep, Maintenance, Start, BuildTasks, CommitRecords, SyncLoad,
      SyncDelete, PruneLoad, Fail, Crash, Tick, BeginRewrite,
      WriteRow, vars, csvVars

\* A batch that is over, or that the step does not touch, keeps its part.
LEMMA NoBatchLocal ==
    ASSUME NEW w \in Worker, batch'[w] = NoBatch
    PROVE  LocalInv(w)'
BY DEF LocalInv, NoBatch, At

LEMMA UntouchedLocal ==
    ASSUME StoreInv, Kept, NEW w \in Worker, batch'[w] = batch[w]
    PROVE  LocalInv(w)'
<1>1. LocalInv(w) /\ batch[w] \in Batch
  BY DEF StoreInv, TypeOK
<1>2. Promoted(w)' = Promoted(w) /\ Promoted(w) \subseteq Symbol
  BY DEF Promoted
<1>3. batch[w].knownThen \subseteq Symbol
  BY <1>1 DEF Batch
<1> QED BY <1>1, <1>2, <1>3 DEF LocalInv, Kept, At

\* What the worker of a step has to show for itself, one lemma per action.
LEMMA StartLocal ==
    ASSUME StoreInv, NEW w \in Worker, Start(w)
    PROVE  LocalInv(w)'
<1> USE DEF StoreInv, TypeOK
<1>1. PICK targets \in SUBSET Symbol, failed \in BOOLEAN :
        batch'[w] =
          [NoBatch EXCEPT
             !.step      = "loadMetrics",
             !.at        = now,
             !.targets   = targets,
             !.rows      = targets \cap Listed,
             !.loaded    = IF failed THEN NoRows ELSE records,
             !.knownThen = {s \in Symbol \ Unseen : ~failed /\ Known(s)},
             !.failed    = failed]
  BY DEF Start
<1>2. UNCHANGED <<records, metrics>>
  BY DEF Start
<1> QED BY <1>1, <1>2 DEF LocalInv, NoBatch, At, Known

LEMMA BuildTasksLocal ==
    ASSUME StoreInv, NEW w \in Worker, BuildTasks(w)
    PROVE  LocalInv(w)'
<1> USE DEF StoreInv, TypeOK
<1> DEFINE official(f) == IF f THEN NoRows ELSE metrics
           reference(s, f) == Reference(s, batch[w].loaded, official(f))
<1>1. PICK f \in BOOLEAN, c \in SUBSET batch[w].rows :
        batch'[w] =
          [batch[w] EXCEPT
             !.step      = IF c = {} THEN "syncLoad" ELSE "refresh",
             !.rows      = {},
             !.loaded    = NoRows,
             !.tasks     = c,
             !.knownThen = {},
             !.misjudged = {s \in c \cap batch[w].knownThen :
                              ~f /\ reference(s, f) = None},
             !.failed    = batch[w].failed \/ f]
  BY DEF BuildTasks, Bounded
<1>2. batch[w] \in Batch
  OBVIOUS
<1>3. /\ batch'[w].step \in {"syncLoad", "refresh"}
      /\ batch'[w].misjudged = {s \in c \cap batch[w].knownThen :
                                  ~f /\ reference(s, f) = None}
  BY <1>1, <1>2 DEF Batch
<1>4. ASSUME NEW s \in batch'[w].misjudged
      PROVE  s \in Unseen
  <2>1. ~f /\ s \in Symbol /\ s \in batch[w].knownThen
    BY <1>1, <1>2, <1>3, <1>4 DEF Batch
  <2>2. Reference(s, batch[w].loaded, metrics) = None
    BY <1>3, <1>4, <2>1
  <2>3. metrics[s] # None => metrics[s].promoted # None
    BY <2>1, NoneAssumption DEF Metric
  <2>4. batch[w].loaded[s] = None /\ metrics[s] = None
    BY <2>2, <2>3 DEF Reference
  <2>5. LocalInv(w) /\ At(w, "loadMetrics")
    BY DEF BuildTasks
  <2> QED BY <2>1, <2>4, <2>5 DEF LocalInv
<1>5. Unseen' = Unseen
  BY DEF BuildTasks, Unseen, csvVars
<1> QED BY <1>3, <1>4, <1>5 DEF LocalInv, At

LEMMA SyncLocal ==
    ASSUME StoreInv, NEW w \in Worker,
           CommitRecords(w) \/ SyncLoad(w) \/ SyncSave(w) \/ SyncDelete(w)
    PROVE  LocalInv(w)'
<1> USE DEF StoreInv, TypeOK
<1>1. CASE CommitRecords(w)
  <2>1. batch'[w] = [NoBatch EXCEPT !.step = "syncLoad",
                                    !.targets = batch[w].targets]
    BY <1>1 DEF CommitRecords
  <2> QED BY <2>1 DEF LocalInv, NoBatch, At
<1>2. CASE SyncLoad(w)
  <2>1. PICK T : batch'[w] = [NoBatch EXCEPT !.step = "syncSave", !.at = now,
                                             !.loaded = T]
    BY <1>2 DEF SyncLoad
  <2> QED BY <2>1 DEF LocalInv, NoBatch, At
<1>3. CASE SyncSave(w)
  <2>1. batch'[w] = [batch[w] EXCEPT !.step = "syncDelete"]
    BY <1>3 DEF SyncSave
  <2>2. batch[w] \in Batch /\ LocalInv(w)
    OBVIOUS
  <2>3. Promoted(w)' = Promoted(w)
    BY <2>1, <2>2 DEF Promoted, Batch
  <2>4. \A s \in Promoted(w) : metrics'[s] # None
    <3>1. SUFFICES ASSUME NEW s \in Promoted(w)
                   PROVE  [copied |-> batch[w].loaded[s],
                           promoted |-> batch[w].at] \in Metric
      BY <1>3, NoneAssumption DEF SyncSave, Promoted
    <3>2. batch[w].loaded[s] \in Time /\ batch[w].at \in Time
      BY <2>2 DEF Batch, Promoted
    <3> QED BY <3>2 DEF Metric
  <2>5. Unseen' = Unseen
    BY <1>3 DEF SyncSave, Unseen, csvVars
  <2> QED BY <2>1, <2>2, <2>3, <2>4, <2>5 DEF LocalInv, At, Batch
<1>4. CASE SyncDelete(w)
  <2>1. batch'[w] \in {NoBatch, [NoBatch EXCEPT !.step = "pruneRead"]}
    BY <1>4 DEF SyncDelete
  <2> QED BY <2>1 DEF LocalInv, NoBatch, At
<1> QED BY <1>1, <1>2, <1>3, <1>4

LEMMA PruneLocal ==
    ASSUME StoreInv, NEW w \in Worker, PruneRead(w) \/ PruneLoad(w)
    PROVE  LocalInv(w)'
<1> USE DEF StoreInv, TypeOK
<1>1. batch[w] \in Batch /\ LocalInv(w) /\ Unseen \subseteq Unseen'
  BY DEF PruneRead, PruneLoad, Unseen, csvVars
<1>2. CASE PruneRead(w)
  <2>1. CASE batch'[w] = NoBatch
    BY <2>1 DEF LocalInv, NoBatch, At
  <2>2. CASE batch'[w] = [batch[w] EXCEPT !.step = "pruneLoad", !.rows = Active]
    <3>1. batch'[w] # NoBatch
      <4>1. batch'[w].step = "pruneLoad" /\ NoBatch.step = "idle"
        BY <1>1, <2>2 DEF Batch, NoBatch
      <4> QED BY <4>1
    <3>2. misread' = misread \cup (torn \ delisted) /\ UNCHANGED delisted
      BY <1>2, <3>1 DEF PruneRead
    <3>3. Symbol \ Active \subseteq Unseen'
      BY <3>2 DEF Active, InactiveWasDelisted, Unseen
    <3> QED BY <1>1, <2>2, <3>3 DEF LocalInv, At, Batch
  <2> QED BY <1>2, <2>1, <2>2 DEF PruneRead
<1>3. CASE PruneLoad(w)
  <2>1. batch'[w] = [batch[w] EXCEPT
             !.step   = "pruneDelete",
             !.doomed = {s \in Symbol : metrics[s] # None} \ batch[w].rows]
    BY <1>3 DEF PruneLoad
  <2>2. Symbol \ batch[w].rows \subseteq Unseen
    BY <1>1, <1>3 DEF PruneLoad, LocalInv
  <2> QED BY <1>1, <2>1, <2>2 DEF LocalInv, At, Batch
<1> QED BY <1>2, <1>3

LEMMA StoreInvStep ==
    ASSUME StoreInv, TypeOK', [Next]_vars
    PROVE  StoreInv'
<1>1. Kept
  BY StepKeeps
<1>3. InactiveWasDelisted'
  <2>1. CASE UNCHANGED <<universe, delisted>>
    BY <2>1 DEF StoreInv, InactiveWasDelisted
  <2>2. ASSUME NEW s \in Symbol, NEW state \in RowState, SetRow(s, state)
        PROVE  InactiveWasDelisted'
    <3>1. universe \in [Symbol -> RowState]
      BY DEF StoreInv, TypeOK
    <3> QED BY <2>2, <3>1 DEF SetRow, StoreInv, InactiveWasDelisted
  <2> QED
    BY <2>1, <2>2
    DEF Next, WorkerStep, Maintenance, Start, BuildTasks, CommitRecords,
        SyncLoad, SyncSave, SyncDelete, PruneRead, PruneLoad, PruneDelete,
        Fail, Crash, Tick, BeginRewrite, WriteRow, vars, csvVars
<1>4. ASSUME NEW v \in Worker PROVE LocalInv(v)'
  <2>1. CASE UNCHANGED batch
    BY <1>1, <2>1, UntouchedLocal
  <2>2. CASE Crash
    <3>1. batch'[v] = NoBatch
      BY <2>2 DEF Crash
    <3> QED BY <3>1, NoBatchLocal
  <2>3. ASSUME NEW w \in Worker, WorkerStep(w) PROVE LocalInv(v)'
    <3>1. CASE v # w
      <4>1. batch'[v] = batch[v]
        BY <2>3, <3>1
        DEF StoreInv, TypeOK, WorkerStep, Start, BuildTasks, CommitRecords,
            SyncLoad, SyncSave, SyncDelete, PruneRead, PruneLoad, PruneDelete,
            Fail
      <4> QED BY <1>1, <4>1, UntouchedLocal
    <3>2. CASE v = w /\ (PruneDelete(w) \/ Fail(w))
      <4>1. batch'[v] = NoBatch
        BY <3>2 DEF StoreInv, TypeOK, PruneDelete, Fail
      <4> QED BY <4>1, NoBatchLocal
    <3> QED
      BY <2>3, <3>1, <3>2, StartLocal, BuildTasksLocal, SyncLocal, PruneLocal
      DEF WorkerStep
  <2> QED
    BY <2>1, <2>2, <2>3
    DEF Next, Maintenance, Tick, SetRow, BeginRewrite, WriteRow, vars
<1> QED BY <1>3, <1>4 DEF StoreInv

LEMMA StoreInvariant == Spec => []StoreInv
<1>1. Init => StoreInv
  <2> SUFFICES ASSUME Init PROVE StoreInv
    OBVIOUS
  <2>1. TypeOK
    BY ConstantTypes, Zenon DEF Init, TypeOK, RowState, NoRows
  <2>2. InactiveWasDelisted
    BY DEF Init, InactiveWasDelisted
  <2>3. \A w \in Worker : LocalInv(w)
    BY DEF Init, LocalInv, NoBatch, At
  <2> QED BY <2>1, <2>2, <2>3 DEF StoreInv
<1>2. StoreInv /\ TypeOK' /\ [Next]_vars => StoreInv'
  BY StoreInvStep
<1> QED BY <1>1, <1>2, TypeCorrect, PTL DEF Spec

-----------------------------------------------------------------------------

\* A symbol that stays listed and active is in one of the stores ever after it
\* was in one, unless a prune has missed its row in a CSV that was being written.
THEOREM NeverLost == Spec => KnownNeverLost
<1>1. StoreInv /\ [Next]_vars =>
        [\A s \in Symbol \ Unseen' : Known(s) => Known(s)']_vars
  <2> SUFFICES ASSUME StoreInv, [Next]_vars, NEW s \in Symbol \ Unseen', Known(s)
               PROVE  Known(s)'
    OBVIOUS
  <2>1. Kept
    BY StepKeeps
  <2>2. CASE metrics[s] # None
    BY <2>1, <2>2 DEF Kept, Known
  <2>3. CASE records[s] # None /\ UNCHANGED records
    BY <2>3 DEF Known
  <2>4. ASSUME NEW w \in Worker, CommitRecords(w) PROVE Known(s)'
    <3>1. batch[w].at # None
      BY NoneAssumption DEF StoreInv, TypeOK, Batch
    <3> QED BY <2>2, <2>4, <3>1 DEF CommitRecords, Known
  <2>5. ASSUME NEW w \in Worker, SyncDelete(w), records[s] # None
        PROVE  Known(s)'
    <3>1. CASE s \in Promoted(w)
      <4>1. metrics[s] # None
        BY <2>1, <2>5, <3>1 DEF StoreInv, LocalInv, SyncDelete, Kept
      <4> QED BY <2>2, <4>1
    <3>2. CASE s \notin Promoted(w)
      BY <2>5, <3>2 DEF SyncDelete, Known
    <3> QED BY <3>1, <3>2
  <2> QED
    BY <2>2, <2>3, <2>4, <2>5
    DEF Known, Next, WorkerStep, Maintenance, Start, BuildTasks, SyncLoad,
        SyncSave, PruneRead, PruneLoad, PruneDelete, Fail, Crash, Tick, SetRow,
        BeginRewrite, WriteRow, vars, csvVars
<1> QED BY <1>1, StoreInvariant, PTL DEF Spec, KnownNeverLost

\* A batch whose reads succeeded takes no symbol for missing that was in a
\* store when it began, unless a prune has taken it for delisted.
THEOREM NeverMisjudged == Spec => []KnownNotMissing
<1>1. StoreInv => KnownNotMissing
  BY DEF StoreInv, LocalInv, KnownNotMissing
<1> QED BY <1>1, StoreInvariant, PTL

==============================================================================
