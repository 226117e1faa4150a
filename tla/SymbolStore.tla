----------------------------- MODULE SymbolStore -----------------------------
(***************************************************************************)
(* The two sqlite stores of the symbol database and the threads that move  *)
(* rows between them: symbols_cache.sqlite holds what a refresh has just   *)
(* copied from symbol_universe.csv (records), symbol_metrics.sqlite holds  *)
(* what the search and filter screens read (metrics).  A batch builds its  *)
(* tasks from both stores, commits the refreshed records, promotes records *)
(* to metrics, deletes what it promoted and, on the background threads,    *)
(* prunes the metrics of symbols the CSV no longer lists.                  *)
(*                                                                         *)
(* Every sqlite call is one transaction, hence one step, and the threads   *)
(* interleave between them.  symbol_refresh.lock covers the commit alone,  *)
(* so it is only the nondeterministic choice to skip it; the priority of   *)
(* the tasks is an arbitrary choice of MaxItems stale symbols.  The clock  *)
(* counts in units of SYMBOL_PRICE_FRESH_HOURS / FreshAge and stops at     *)
(* MaxTime.                                                                *)
(***************************************************************************)
EXTENDS Integers, FiniteSets

CONSTANTS
    Symbol,      \* symbols that may be listed in symbol_universe.csv
    Promotable,  \* symbols whose row carries an official metric field
    Worker,      \* threads that run batches over the stores
    Preflight,   \* the workers that are UI threads (ranking preflight)
    MaxItems,    \* max_items of a batch
    FreshAge,    \* SYMBOL_PRICE_FRESH_HOURS in clock ticks
    MaxTime,     \* bound of the clock
    None         \* no row

Time   == 0..MaxTime
Metric == [copied : Time, promoted : Time]

ASSUME PreflightAssumption == Preflight \subseteq Worker
ASSUME MaxTimeAssumption   == MaxTime \in Nat
ASSUME NoneAssumption      == None \notin Time \cup Metric

VARIABLES
    now,       \* the clock (datetime.utcnow)
    universe,  \* what symbol_universe.csv says of each symbol
    torn,      \* symbols whose row the file lacks while it is being rewritten
    records,   \* symbols_cache.sqlite: cached_at of each record, or None
    metrics,   \* symbol_metrics.sqlite: cached_at and promoted_at, or None
    batch,     \* the batch each worker is in
    delisted,  \* history: symbols whose row was ever absent or inactive
    misread    \* history: the others a prune has missed in a CSV cut short

csvVars == <<universe, torn, delisted, misread>>
vars    == <<now, csvVars, records, metrics, batch>>

NoRows == [s \in Symbol |-> None]

RowState  == {"active", "inactive", "absent"}
BatchStep == {"idle", "loadMetrics", "refresh", "syncLoad", "syncSave",
              "syncDelete", "pruneRead", "pruneLoad", "pruneDelete"}

\* The locals of a batch, reset when it no longer uses them.  knownThen and
\* failed are history: what was known when the records were read, and whether
\* a store could not be read.
Batch == [step      : BatchStep,
          at        : Time,                         \* now / current_time
          targets   : SUBSET Symbol,                \* symbols it is about
          rows      : SUBSET Symbol,                \* CSV rows it has read
          loaded    : [Symbol -> Time \cup {None}], \* records it has read
          tasks     : SUBSET Symbol,
          misjudged : SUBSET Symbol,                \* known, yet "missing"
          doomed    : SUBSET Symbol,                \* metrics to prune
          knownThen : SUBSET Symbol,
          failed    : BOOLEAN]

NoBatch == [step |-> "idle", at |-> 0, targets |-> {}, rows |-> {},
            loaded |-> NoRows, tasks |-> {}, misjudged |-> {}, doomed |-> {},
            knownThen |-> {}, failed |-> FALSE]

TypeOK ==
    /\ now \in Time
    /\ universe \in [Symbol -> RowState]
    /\ torn \in SUBSET Symbol
    /\ records \in [Symbol -> Time \cup {None}]
    /\ metrics \in [Symbol -> Metric \cup {None}]
    /\ batch \in [Worker -> Batch]
    /\ delisted \in SUBSET Symbol
    /\ misread \in SUBSET Symbol

-----------------------------------------------------------------------------
(* What the refresh and the screens believe about a symbol.                *)

\* A row of the symbol exists in one of the stores.
Known(s) == records[s] # None \/ metrics[s] # None

\* Fault: only the records are looked at.
ReferenceFromRecords(s, cached, official) == cached[s]

\* last_refreshed_at: cached_at of the record, else promoted_at of the metric.
Reference(s, cached, official) ==
    IF cached[s] # None THEN cached[s]
    ELSE IF official[s] # None THEN official[s].promoted ELSE None

Fresh(reference, at) == reference # None /\ at - reference <= FreshAge

\* A prune may take these symbols for delisted.
Unseen == delisted \cup misread

\* The rows a reader of the CSV finds now.
Listed == {s \in Symbol : universe[s] # "absent"} \ torn
Active == {s \in Symbol : universe[s] = "active"} \ torn

\* MaxItems elements of S, or all of them if there are fewer.
Bounded(S) == {T \in SUBSET S : /\ Cardinality(T) <= MaxItems
                                /\ T # S => Cardinality(T) = MaxItems}

-----------------------------------------------------------------------------
Init ==
    /\ now = 0
    /\ universe = [s \in Symbol |-> "active"]
    /\ torn = {}
    /\ records = NoRows
    /\ metrics = NoRows
    /\ batch = [w \in Worker |-> NoBatch]
    /\ delisted = {}
    /\ misread = {}

At(w, step) == batch[w].step = step

\* A batch begins: the CSV rows are read, then the records; a failed read of
\* a store returns no rows.  A preflight looks only at the ranking's symbols.
Start(w) ==
    /\ At(w, "idle")
    /\ \E targets \in SUBSET Symbol, failed \in BOOLEAN :
         /\ targets # {}
         /\ w \notin Preflight => targets = Symbol
         /\ batch' = [batch EXCEPT ![w] =
               [NoBatch EXCEPT
                  !.step      = "loadMetrics",
                  !.at        = now,
                  !.targets   = targets,
                  !.rows      = targets \cap Listed,
                  !.loaded    = IF failed THEN NoRows ELSE records,
                  !.knownThen = {s \in Symbol \ Unseen : ~failed /\ Known(s)},
                  !.failed    = failed]]
    /\ UNCHANGED <<now, csvVars, records, metrics>>

\* The metrics are read after the records; the symbols that are not fresh
\* become tasks, whether their row is active or not.
BuildTasks(w) ==
    /\ At(w, "loadMetrics")
    /\ \E failed \in BOOLEAN :
         LET official == IF failed THEN NoRows ELSE metrics
             reference(s) == Reference(s, batch[w].loaded, official)
             stale == {s \in batch[w].rows : ~Fresh(reference(s), batch[w].at)}
         IN  \E chosen \in Bounded(stale) :
               batch' = [batch EXCEPT ![w] =
                  [batch[w] EXCEPT
                     !.step      = IF chosen = {} THEN "syncLoad" ELSE "refresh",
                     !.rows      = {},
                     !.loaded    = NoRows,
                     !.tasks     = chosen,
                     !.knownThen = {},
                     !.misjudged = {s \in chosen \cap batch[w].knownThen :
                                      ~failed /\ reference(s) = None},
                     !.failed    = batch[w].failed \/ failed]]
    /\ UNCHANGED <<now, csvVars, records, metrics>>

\* save_symbol_records: one transaction for every task the provider answered.
\* None is answered when symbol_refresh.lock is held or was left behind.
CommitRecords(w) ==
    /\ At(w, "refresh")
    /\ \E answered \in SUBSET batch[w].tasks :
         records' = [s \in Symbol |->
                        IF s \in answered THEN batch[w].at ELSE records[s]]
    /\ batch' = [batch EXCEPT ![w] =
          [NoBatch EXCEPT !.step = "syncLoad", !.targets = batch[w].targets]]
    /\ UNCHANGED <<now, csvVars, metrics>>

\* The oldest records are read, at most MaxItems of them; a preflight reads
\* the records of its own targets.  A failed read returns none.
SyncLoad(w) ==
    /\ At(w, "syncLoad")
    /\ LET present == {s \in Symbol : /\ records[s] # None
                                      /\ w \in Preflight => s \in batch[w].targets}
           oldest == {T \in Bounded(present) :
                         w \notin Preflight =>
                            \A s \in T, t \in present \ T : records[s] <= records[t]}
       IN  \E read \in oldest \cup {{}} :
             batch' = [batch EXCEPT ![w] =
                [NoBatch EXCEPT
                   !.step   = "syncSave",
                   !.at     = now,
                   !.loaded = [s \in Symbol |->
                                 IF s \in read THEN records[s] ELSE None]]]
    /\ UNCHANGED <<now, csvVars, records, metrics>>

Promoted(w) == {s \in Symbol \cap Promotable : batch[w].loaded[s] # None}

\* Fault: promoted_at is left unset.
SyncSaveUntimed(w) ==
    /\ At(w, "syncSave")
    /\ metrics' = [s \in Symbol |->
          IF s \in Promoted(w)
          THEN [copied |-> batch[w].loaded[s], promoted |-> None]
          ELSE metrics[s]]
    /\ batch' = [batch EXCEPT ![w].step = "syncDelete"]
    /\ UNCHANGED <<now, csvVars, records>>

\* Fault: a failed save is swallowed, as a failed delete is.
SyncSaveSwallowed(w) ==
    /\ At(w, "syncSave")
    /\ \E saved \in {Promoted(w), {}} :
         metrics' = [s \in Symbol |->
            IF s \in saved
            THEN [copied |-> batch[w].loaded[s], promoted |-> batch[w].at]
            ELSE metrics[s]]
    /\ batch' = [batch EXCEPT ![w].step = "syncDelete"]
    /\ UNCHANGED <<now, csvVars, records>>

\* save_symbol_metric_records: one upsert of everything that was read.
SyncSave(w) ==
    /\ At(w, "syncSave")
    /\ metrics' = [s \in Symbol |->
          IF s \in Promoted(w)
          THEN [copied |-> batch[w].loaded[s], promoted |-> batch[w].at]
          ELSE metrics[s]]
    /\ batch' = [batch EXCEPT ![w].step = "syncDelete"]
    /\ UNCHANGED <<now, csvVars, records>>

\* delete_symbol_records, by symbol; a failed delete is swallowed and leaves
\* the records in place.
SyncDelete(w) ==
    /\ At(w, "syncDelete")
    /\ \E gone \in {Promoted(w), {}} :
         records' = [s \in Symbol |-> IF s \in gone THEN None ELSE records[s]]
    /\ batch' = IF w \in Preflight
                THEN [batch EXCEPT ![w] = NoBatch]
                ELSE [batch EXCEPT ![w] = [NoBatch EXCEPT !.step = "pruneRead"]]
    /\ UNCHANGED <<now, csvVars, metrics>>

\* The CSV is read again; without rows nothing is pruned.  A row that is not
\* written yet is not told from one that is gone.
PruneRead(w) ==
    /\ At(w, "pruneRead")
    /\ \/ /\ Listed = {}
          /\ batch' = [batch EXCEPT ![w] = NoBatch]
          /\ UNCHANGED misread
       \/ /\ Listed # {}
          /\ batch' = [batch EXCEPT ![w] =
                 [batch[w] EXCEPT !.step = "pruneLoad", !.rows = Active]]
          /\ misread' = misread \cup (torn \ delisted)
    /\ UNCHANGED <<now, universe, torn, delisted, records, metrics>>

\* The metrics are read; those of orphan and inactive symbols are doomed.
PruneLoad(w) ==
    /\ At(w, "pruneLoad")
    /\ batch' = [batch EXCEPT ![w] =
          [batch[w] EXCEPT
             !.step   = "pruneDelete",
             !.doomed = {s \in Symbol : metrics[s] # None} \ batch[w].rows]]
    /\ UNCHANGED <<now, csvVars, records, metrics>>

\* delete_symbol_metric_records; a failed read or delete leaves the metrics.
PruneDelete(w) ==
    /\ At(w, "pruneDelete")
    /\ \E gone \in {batch[w].doomed, {}} :
         metrics' = [s \in Symbol |-> IF s \in gone THEN None ELSE metrics[s]]
    /\ batch' = [batch EXCEPT ![w] = NoBatch]
    /\ UNCHANGED <<now, csvVars, records>>

\* An exception of a save or of the CSV reader escapes the batch.
Fail(w) ==
    /\ batch[w].step \in {"refresh", "syncSave", "pruneRead"}
    /\ batch' = [batch EXCEPT ![w] = NoBatch]
    /\ UNCHANGED <<now, csvVars, records, metrics>>

\* The server process dies: the threads are daemons, the stores survive.
Crash ==
    /\ \E w \in Worker : ~At(w, "idle")
    /\ batch' = [w \in Worker |-> NoBatch]
    /\ UNCHANGED <<now, csvVars, records, metrics>>

Tick ==
    /\ now < MaxTime
    /\ now' = now + 1
    /\ UNCHANGED <<csvVars, records, metrics, batch>>

-----------------------------------------------------------------------------
(* The maintenance job.  The metadata tools write a temporary file and     *)
(* replace the CSV; the import tool truncates the CSV and writes it again. *)

SetRow(s, state) ==
    /\ torn = {}
    /\ universe[s] # state
    /\ universe' = [universe EXCEPT ![s] = state]
    /\ delisted' = IF state = "active" THEN delisted ELSE delisted \cup {s}
    /\ misread' = misread \ delisted'
    /\ UNCHANGED <<now, torn, records, metrics, batch>>

BeginRewrite ==
    /\ torn = {}
    /\ torn' = {s \in Symbol : universe[s] # "absent"}
    /\ UNCHANGED <<now, universe, delisted, misread, records, metrics, batch>>

WriteRow(s) ==
    /\ s \in torn
    /\ torn' = torn \ {s}
    /\ UNCHANGED <<now, universe, delisted, misread, records, metrics, batch>>

WorkerStep(w) ==
    \/ Start(w) \/ BuildTasks(w) \/ CommitRecords(w)
    \/ SyncLoad(w) \/ SyncSave(w) \/ SyncDelete(w)
    \/ PruneRead(w) \/ PruneLoad(w) \/ PruneDelete(w)
    \/ Fail(w)

Maintenance ==
    \/ \E s \in Symbol, state \in RowState : SetRow(s, state)
    \/ BeginRewrite
    \/ \E s \in Symbol : WriteRow(s)

Next ==
    \/ \E w \in Worker : WorkerStep(w)
    \/ Crash
    \/ Tick
    \/ Maintenance

Spec == Init /\ [][Next]_vars

-----------------------------------------------------------------------------
(* What keeps the properties below true: one part about the CSV, the       *)
(* others about what each batch has read and not yet acted on.             *)

\* A row that is not "active" has left the CSV at some time.
InactiveWasDelisted == \A s \in Symbol : universe[s] # "active" => s \in delisted

LocalInv(w) ==
    \* what a sync is about to delete from the records has its metric
    /\ At(w, "syncDelete") => \A s \in Promoted(w) \ Unseen : metrics[s] # None
    \* a prune spares every symbol it has always found in the CSV
    /\ At(w, "pruneLoad") => Symbol \ batch[w].rows \subseteq Unseen
    /\ At(w, "pruneDelete") => batch[w].doomed \subseteq Unseen
    \* what was known when the records were read is in them or still in the
    \* metrics, which are read next
    /\ At(w, "loadMetrics") =>
          \A s \in batch[w].knownThen \ Unseen :
             batch[w].loaded[s] # None \/ metrics[s] # None
    /\ batch[w].misjudged \subseteq Unseen

-----------------------------------------------------------------------------
(* Properties.                                                             *)

\* A symbol that stays listed and active, once in a store, is in a store ever
\* after, unless a prune has read the CSV while its row was not written yet:
\* copying the record to the metrics, deleting the record, pruning and a crash
\* between any two of them never lose it (cache_sync.py saves before it deletes).
KnownNeverLost ==
    [][\A s \in Symbol \ Unseen' : Known(s) => Known(s)']_vars

\* A refresh never takes for "missing" (the highest stale score) a symbol the
\* stores knew when the batch began: the records are read before the metrics,
\* so a row moving from one to the other in between is seen at least once.
\* Only a prune that has missed the row in the CSV can take it out meanwhile.
KnownNotMissing ==
    \A w \in Worker : batch[w].misjudged \subseteq Unseen

(* Properties the code does not have (see the README).                     *)

\* A prune deletes only metrics of symbols that are no longer present or active
\* in the CSV (prune_symbol_metrics_against_universe); one that reads the CSV
\* while it is rewritten in place deletes others.
PrunesOnlyDelisted ==
    [][\A s \in Symbol \ delisted' : metrics[s] # None => metrics'[s] # None]_vars

\* A refresh replaces only data that was not fresh when its batch began; the
\* code decides before it takes the lock, so that two threads may both refresh.
RefreshOnlyStale ==
    [][\A w \in Worker : At(w, "refresh") /\ ~batch[w].failed =>
          \A s \in Symbol : records'[s] # records[s] =>
              ~Fresh(Reference(s, records, metrics), batch[w].at)]_vars

\* A sync removes a record only when its metric carries that copy or a newer.
SyncRemovesOnlyProcessed ==
    [][\A s \in Symbol \ delisted' : records[s] # None /\ records'[s] = None =>
          metrics[s] # None /\ metrics[s].copied >= records[s]]_vars
==============================================================================
