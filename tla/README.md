# Smart Market AI: verified models of its stateful parts

Smart Market AI (SMAI) is one Streamlit server process with a handful of
daemon threads, several sqlite stores and JSON files under `data/`, a few
batch jobs and a watcher that run beside it, and two small gateway services.
Most of its code computes numbers or renders text. What can go wrong in an
order nobody tested is concentrated in the parts that keep state on disk and
are driven by several threads, sessions, jobs or processes. This directory
models those parts, checks them with TLC and proves their central properties
with TLAPS.

## 1. Inventory

| Component | State | Operations | Talks to | Hard behaviours |
| --- | --- | --- | --- | --- |
| Symbol stores (`repository.py`, `metrics_repository.py`, `cache_sync.py`, `startup.py`) | `symbols_cache.sqlite` (records), `symbol_metrics.sqlite` (metrics), the CSV `symbol_universe.csv` | read, commit, promote, delete, prune | every refresh batch; screens read | two databases without a common transaction, several threads, the CSV rewritten by jobs, failed reads that look empty |
| Refresh run (`refresh_manager.py`, `cache.py`) | queue, status and lock files | one bounded run: lock, visit tasks, commit, save queue and status, release | stores, lock | each step may fail, crash anywhere, retries over runs |
| Lock and atomic files (`cache.py`) | lock file, temporary file, queue file | cleanup, acquire, save, release | all refreshing threads | test-then-write, shared temporary name, stale lock |
| Background refresh (`background.py`, `refresh_priority.py`) | hints, two thread handles, session counters | start cycle, batches by plan, target worker on request | UI, lock, stores | lost wake-up, lock taken by a preflight, caps |
| Universe maintenance tools (`tools/*symbol_universe*`, `.bat`) | `symbol_universe.csv` | append, update, backfill, normalise | stores read the CSV | in-place rewrite while it is read |
| Maintenance job state (`tools/symbol_maintenance_state.py`) | lock and state file | begin, finish, decide | two batch files | decision before the lock, crash between begin and finish |
| Server operations (`backend/server_ops`, `scripts/server_ops`) | activity, maintenance state, notice, stop request, supervisor lock | heartbeat, begin/end operation, evaluate, restart, supervise | launcher, watcher, UI, operator | check-then-restart, stale files, two launchers |
| News update (`backend/news`) | snapshot cache, temporary file, status file | refresh with retry, throttle, fallback | background thread and UI | two refreshes without a lock |
| Notification scheduler and gateway | run log with unique slots, history, deliveries | claim, produce, save, send, record, finish | producer, gateway, phone | overlapping pollers, crash after the claim, timeouts, two clocks |
| Ranking history (`backend/ranking_history`) | `index.json`, snapshot files, `.lock` | save, pin, unpin, delete, prune | sessions of one user | two files without a transaction, lock timeout, lock left by a crash |
| Favorites (`ui/favorites.py`) | `favorites.json` | toggle, remove, note, touch | pages, watchlist refresh | read-modify-write in place, unlocked |
| Watchlist groups (`backend/watchlist_groups`, `ui/watchlist_groups.py`) | `watchlist_groups.json`, drafts | edit a draft, save, cancel | editors of one user | last writer wins |
| Assistant workflow and warm-up (`backend/assistant`, `ui/views/copilot.py`) | session of steps, warm-up state | result, skip, retry, cancel; start, retry, disable | UI, AI gateway | results in any order, a dying thread counted as alive |
| Portfolio rebalance (`backend/portfolio`) | none of its own | propose trades | owner of the account, prices | rounding, tolerance, prices read twice |
| Market data, forecasts, scoring, screening, risk, research, interpretation, reports, users, API, UI, packaging | per request or per page | computation and rendering | | no shared protocol; numeric or textual |

What makes them correct:

* stores: a symbol that stays listed never disappears from both stores, is
  never judged missing while one store has it, and its data never gets older;
  section 5 says where the code falls short of this;
* run: a task is stored, skipped, given up or still waiting in the file, and
  what the files report is true, whatever fails;
* lock: whole files, and no way to block for ever;
* background: the plan is carried out to its end within its cap;
* server: one server, which comes back when it is down and is interrupted for
  maintenance only when nothing was going on at the last look;
* job: one import at a time, and only when one is due;
* notifications: a report arrives at most once, not in the quiet hours, and
  the log is true;
* history, favorites, groups, news: what is listed can be read, and edits take
  effect one after the other as far as the code protects them;
* assistant: what the page shows agrees with what happened;
* rebalance: a proposal is paid for and takes the account to its targets as
  closely as quantities allow.

`PROJECT.json` lists every component with its status and every hazard with its
line and the properties that watch it.

## 2. Plan

Modules in the order of their importance; each is written so that it can be
proved about (constants with named assumptions, one action per operation, no
recursion).

| # | Module | Of | Proofs |
| --- | --- | --- | --- |
| 1 | `SymbolStore` | the two stores and the threads over them | `SymbolStoreProofs` |
| 2 | `RefreshRun` | one refresh after another with every failure | `RefreshRunProofs` |
| 3 | `RefreshLock` | the lock and the atomic save, operation by operation | `RefreshLockProofs` |
| 4 | `BackgroundRefresh` | the cycle, the target worker and the hints | `BackgroundRefreshProofs` |
| 5 | `MaintenanceWindow` | maintenance manager, watcher and launchers | `MaintenanceWindowProofs` |
| 6 | `NotificationSchedule` | scheduler processes, gateway decision, phone | `ScheduledJobsProofs` |
| 7 | `RankingHistory`, `RankingList` | the history of a user, and what it promises | `UserDataProofs` (a refinement) |
| 8 | `MaintenanceJob` | the periodic import, its state and its lock | `ScheduledJobsProofs` |
| 9 | `AssistantWarmup`, `AssistantWorkflow` | the warm-up thread; the session of a flow | `ServicesProofs` |
| 10 | `NewsRefresh`, `Favorites`, `WatchlistGroups`, `PortfolioRebalance` | one each | `ScheduledJobsProofs` (news), `UserDataProofs` (the rest) |
| 11 | `MCServices` | 6 to 10 side by side | `ServicesProofs` |

All of these are written. `MCNewsRefresh`, `MCNotifyQuiet`,
`MCAssistantWorkflow` and `MCPortfolioRebalance` instantiate a module of 6, 9 or
10 alone, for a property it violates. Section 6 says which properties are proved
and which are only checked. What is left to do: liveness of the sync
(head-of-line blocking by records that cannot be promoted) as an extension of
`SymbolStore`; `SymbolStore` as an implementation of one abstract table of known
symbols.

How the modules fit together: a batch of `BackgroundRefresh` (action `Refresh`)
is a run of `RefreshRun` under the lock of `RefreshLock`, and its effects on the
stores are those of `SymbolStore`. Each module abstracts the others to what it
needs of them, and says so in its header: `SymbolStore` takes an arbitrary
choice of tasks and an arbitrary subset of answers (a lock that is held answers
none), `RefreshRun` is one refresh at a time and takes saves as atomic (which
`RefreshLock` justifies for that case), `BackgroundRefresh` takes a batch as
"lock, then the tasks are fresh". The import job of `MaintenanceJob` is the
actor that rewrites the CSV in `SymbolStore` and one of the lock files
(`jobLock`) that `MaintenanceWindow` waits for; the cycle of `BackgroundRefresh`
is one of its operations, which is why `CycleEnds` matters to the restart. The
remaining modules share no state with one another. `MCServices` puts them side
by side: a variable `focus`, chosen at the start, says which of them runs.

## 3. Modules

### SymbolStore

`records` and `metrics` are the rows of the two databases, a row being its
times: `cached_at` for a record, `cached_at` and `promoted_at` for a metric.
`universe` and `torn` are the CSV: what it says of each symbol, and the rows
missing while a tool rewrites it in place, as
`import_symbol_universe_source.py` does. `batch[w]` holds the locals of the
batch worker `w` is in, between two sqlite calls. Every sqlite call is one
transaction and one action:

| Action | Code |
| --- | --- |
| `Start` | `run_symbol_database_startup_refresh` / `_target_refresh`: rows, then records |
| `BuildTasks` | the metrics half of `_refresh_reference_records`, `build_symbol_refresh_queue` |
| `CommitRecords` | `save_symbol_records`, called once per run |
| `SyncLoad`, `SyncSave`, `SyncDelete` | the three transactions of `sync_symbol_cache_to_official_metrics` |
| `PruneRead`, `PruneLoad`, `PruneDelete` | `_prune_metrics_after_background_sync`, `prune_symbol_metrics_against_universe` |
| `Fail`, `Crash` | an exception that escapes the batch; the death of the process |
| `SetRow`, `BeginRewrite`, `WriteRow` | the maintenance tools that replace the CSV, or rewrite it in place |

A failed read of a store returns an empty dictionary, as the repositories do.
A preflight looks at its own symbols only and does not prune. `Promotable` are
the symbols whose row carries at least one official metric field; the row of
any other symbol stays in the record store. Records with
`data_freshness_status == "missing"` are not modelled because no writer of the
store creates one. `delisted`, `knownThen`, `failed` and `misread` are history.
The last one collects the symbols whose row a prune has not seen although it was
never taken out of the CSV: what such a prune deletes is lost, and the
properties about what is known speak of the other symbols. `PrunesOnlyDelisted`
speaks of all of them, and the code does not have it (section 5).

### RefreshRun

`refresh_symbols_if_needed` as a program counter with one action per file
operation. Every one of them may fail in every run, and the process may die
anywhere: `FailBeforeTry` is an exception between the acquisition of the lock
and the `try`, `FailInTry` one inside it or inside its handler, and `Release`
ends the run with or without the lock, since the `unlink` of it may fail too. A
property that needs some step not to have failed names it by the history
variable `failures`. A run works on the persisted queue or on tasks its caller
passes. `AfterResult`, `Retried`, `Recovered` and `Persisted` are
`_task_after_result`, the retry arithmetic,
`recover_interrupted_symbol_refresh_tasks` and `_normalize_queue`. `outcome`
records what the last saved queue said of each task, `tries` the attempts that
failed since the task was new.

### RefreshLock

One action per file operation of `cleanup_symbol_refresh_artifacts`,
`acquire_symbol_refresh_lock`, `save_symbol_refresh_queue` and
`release_symbol_refresh_lock`, for several threads. A file is absent, torn or
whole; `open` remembers which file a thread writes to once its name is unlinked
or replaced. `Prepare` stands for what a run does between the lock and the
`try`; `LeaveLock` is an exception in the write of the lock, in that part or in
the release, after which the lock file stays. Crashes and such failures count as
`mishaps`, up to `MaxMishaps`. The file operations (`Unlinked`, `Renamed`,
`Written`) follow POSIX, on which the project's own CI runs; Windows refuses to
unlink or replace an open file, which turns some of these steps into a
`PermissionError` that ends the refresh.

### BackgroundRefresh

The session plan of `_run_symbol_background_refresh_cycle` (`stage` 0, the
steps, then recurring batches), its limits (`NextLimit`), its early return
(`NextStage`), the target worker and the hints (`Ask`, `Trimmed`), and the
queue by priority (`Queues`). Preflights hold the lock, batches fail, data
expires, a session starts the cycle again. Waits take no time.

### MaintenanceWindow

Four parts that talk through files. The server marks its sessions and operations
in `activity_state.json` (`Heartbeat`, `BeginOperation`, `EndOperation`; each of
them cleans the file first, under `_ACTIVITY_LOCK`, so that each is one step).
`CleanOperations` drops the marks of processes that are gone, or whose probe
ended in an error: `_pid_exists` takes every `OSError` and `SystemError` of
`os.kill(pid, 0)` for gone, so any set of live processes may be `doubted` at
each clean-up. `denied` is history: the operations whose mark was dropped or
disregarded that way. The watcher of `watch_smai_server.ps1` judges
(`EvaluateRead`, `EvaluateScan` are the two halves of
`MaintenanceManager.evaluate`, with its look at the lock files between them; the
second writes the state the first has read, `held`, back to
`maintenance_state.json`, over a start recorded meanwhile), publishes a notice,
judges again, writes a stop request and kills the listening process. A launcher
takes the supervisor lock, checks the port, records the start and supervises its
child: one that is resilient starts it again unless the child ended with a stop
request, any other leaves with it. An operator may stop the server as the `.bat`
does. `stray` is history: a stop request has been written that no resilient
launcher waits for, or a launcher died and left its child behind.

### NotificationSchedule

The loop of `scheduler_runner`, several times over: `Poll` takes the time once,
`Claim` inserts into the run log, `Produce` and `SaveEvent` are the producer
and the history, `Send` the gateway (`MaySend` is `evaluate_ntfy_delivery`, on
the clock of the dispatcher) and the phone, `RecordDelivery` and `Finish` the
rest. Local time is `UtcOffset` ahead of the clock of the dispatcher. A send may
time out before or after the phone has the message. A poller
may die at any step, by a crash or by a database error that escapes `run_due`
and ends the loop, and be started again.

### RankingHistory and RankingList

A worker is a session of the user. `Acquire` creates the lock file and reads
the index, `WriteSnapshot`, `SaveIndex`, `RemoveSnapshots` are the writes of a
mutation in the order the code has for it, `Release` removes the lock file,
`GiveUp` is the timeout, `Raise` a failing step, `ServerDies` leaves the lock
file behind. `RankingList` is what a user is promised: a list that mutations
change one after the other. The refinement mapping is the index itself, so a
mutation takes effect at the write of `index.json`.

### MaintenanceJob

Drivers are the scheduled and the manual batch file. `BeginJob` reads the
state, `DecideJob` looks for the lock and decides (`DueAfter`), `CreateLock`
creates it exclusively, `EndImport` and `FinishJob` run the import and report
it (`Reported`), `UnlinkLock` removes the lock; a driver may die anywhere.
Somebody removes a lock that was left behind (`RemoveLock`), as the operations
guide tells the operator to.

### AssistantWorkflow and AssistantWarmup

`AssistantWorkflow` is the session of one flow: `Applied`, `Skipped`, `Retried`
and `Cancelled` are the functions of `workflow_runtime.py`, `Offered` is the
choice of the page which confirmation to offer, and `answered` the results in
the chat turn. Two sets of actions are told apart as in the code: `Confirmable`
are those a tool is registered for with `requires_confirmation`, whose steps
wait; `Offerable` is `COPILOT_CONFIRMABLE_ACTION_IDS`, those the page has a card
for. The flow of the runs ends like `_report_creation_steps` of
`guided_workflow.py`, with a download after the report that is in the first set
only: it waits, has no card, and can be skipped. The report completes the
session while that step is still open (`ReportMade`). `AssistantWarmup` is the
manager with its thread: `Launch` is the common start of `start` and `retry`,
which does nothing while the last thread lives, and the steps of the thread are
those of `_run`. `mark_running`, `set_waiting_confirmation` and `retry` of the
warm-up are called by tests only; the retry is modelled all the same.

### NewsRefresh, Favorites, WatchlistGroups, PortfolioRebalance

`NewsRefresh` has the background worker and the news page in
`refresh_news_dashboard_cache` with one temporary file and one status file
between them. As in `RefreshLock`, files behave as under POSIX: opening one for
writing empties it, and a thread that has it open goes on writing to it when it
is moved (it then writes into the snapshot) or removed. `mixed` notes that
another thread has written since, after which what a file ends up with may be a
mixture; this holds of the status file, which is written in place, as well.
`doubtful` is history: the last saved snapshot was saved while another thread
was saving. On Windows an open file is not replaced, which rules some of these
steps out, but a write of the other thread that fails and is closed still leaves
a cut temporary file to be moved.

`Favorites` is the read, change and in-place write of each edit; a file that was
cut reads as empty (`Loaded`) or, cut inside a character, raises the
`UnicodeDecodeError` that `load_favorites` does not catch (`LoadFails`).

`WatchlistGroups` has a draft per editor; a save replaces the whole file. The
texts of the groups are left out: an edit of a draft does not check the length
of a description (`model_copy`), so the code may refuse a save the model makes.

`PortfolioRebalance` counts quantities traded in steps of 0.0001, rounded half
to even as `Decimal.quantize` does, and quantities held in parts, `Grain` of
them to a step, because a position is a decimal of any precision. The service
asks for prices twice, for the valuation and again for each trade, so that
`Propose` takes two price vectors. That a proposal never asks to sell more than
is held is not a property: half a step too much is rounded up when what is held
is finer than a step, and more when the price fell between the two readings; no
document promises otherwise. An owner carries out what the account covers.

## 4. Runs

| Run | Instance | Shows |
| --- | --- | --- |
| `store_pair` | background thread and preflight, a promotable symbol beside a bare row, a clock of 1 with freshness 0, CSV rewritten in place | `KnownNeverLost`, `KnownNotMissing` |
| `store_sync_race` | two threads, one symbol | violates `SyncRemovesOnlyProcessed` |
| `run_faults` | two symbols, a run of one, every failure and crashes | `SucceededMeansStored`, `NothingForgotten`, `RetryBounded` |
| `lock_pair` | two threads, two mishaps | `QueueTornOnlyByOverlap`, `KeepsRefreshing` |
| `background_plan` | three symbols that expire, batches of 2, 2 and 3, cap 9, two hints | `CapRespected`, `StopsOnlyWhenDone`, `CycleEnds`, bounds |
| `maintenance` | one session, one operation, two process ids, a resilient and a plain launcher, one mishap | `BusyIsMarked`, `OneServer`, `InterruptsOnlyLate`, `LeavesOnlyOnRequest`, `ComesBack` |
| `maintenance_never` | the same with the default lock roots, no mishap | violates `RestartsWhenIdle` |
| `services` | two actors each (pollers, sessions, editors, drivers, threads) | the properties of the nine modules of `MCServices` |
| `notify_quiet` | local time one minute of three ahead of UTC | violates `QuietRespected` |
| `workflow_retry` | a research, a report and its download | violates `WaitingIsOffered` |
| `news_torn` | background worker and news page | violates `SnapshotWhole` |
| `rebalance_dust` | two assets | violates `ProposalAnswers` |

Bounds. Two workers suffice for a race over one row: every step of a batch
reads or writes one store, and a row that is read stale needs one other
writer. One symbol that can be promoted suffices, because the properties speak of
each symbol by itself; what ties symbols together is the `MaxItems` of a batch and
a prune, which an empty CSV stops. `store_pair` therefore has a second row, which
the constraint `BareRow` keeps listed, without an answer of a provider and out of
the preflights: a batch has to choose between the two, and a prune can read a half
written CSV. What else may happen to a symbol that cannot be promoted is left to
the theorems of section 6. With `FreshAge = 0` and a clock of 1, data goes stale
and is fetched again. In `RefreshRun`, `MaxTries = 3` is one more than
`MAX_TASK_RETRY + 1`, so that an unbounded retry is seen, and `MaxItems = 1`
of two symbols leaves one waiting. In `RefreshLock` two mishaps are a failure of
each thread, or a failure and a crash; a further crash adds no new file state,
since a crash resets every thread. In `BackgroundRefresh` the cap
of 9 after batches of 2, 2 and 3 leaves 2 of the 3 of the last batch, so that
the smaller of the two limits is taken both ways; three symbols with two
hints overflow the hints. In `MaintenanceWindow` two process ids are an old
server that is still going down and a new one, two launchers one that holds
the lock and one that tries; one mishap is enough for a left-over stop request
or an orphan. `maintenance` leaves the directory of the launcher out of the lock
roots (`ScansOpsDir = FALSE`): with the roots as they are no restart would happen
after the first start (`maintenance_never`), and `InterruptsOnlyLate` would speak
of nothing. The theorems hold of either.

In `services` every pair of actors may meet at every step.
`NotificationSchedule` has three minutes and a job that is due in one or all of
them; settings that make others irrelevant leave those at one value
(`SettingsMatter`), and local time is a minute ahead of UTC. `RankingHistory`
keeps one unpinned run of three, with one signature and a duplicate window of
one, so that pruning, duplicates and runs that were deleted meanwhile all
happen. `WatchlistGroups` has three identifiers for at most two groups and two
names, so that names collide and the limit is reached. `MaintenanceJob` has an
interval of two cooldowns. `AssistantWarmup` and `NewsRefresh` try twice.
`PortfolioRebalance` takes weights in quarters, prices of 1 and 2 at each of the
two readings, and three parts to a step with up to four held, so that holdings
are finer than a step and quantities are rounded either way (two parts, and so
halves, in `rebalance_dust`).

Fairness. `KeepsRefreshing` assumes that threads run, that time passes for a
lock file, and that refreshes keep being asked for, which they are as long as
a page is used. `CycleEnds` assumes that a live thread runs and that a
preflight ends; nothing is assumed of the UI or of failures. `ComesBack`
assumes that processes run, that time passes and that the
watcher, which the system starts at boot, loops; nothing is assumed of
browsers, operations or jobs. `RestartsWhenIdle`, which is violated under the
same fairness, asks for a restart only of a server that stays idle. The
properties of `services` are safety properties and need none.

Deadlock is checked in every run but `services` and `workflow_retry`: there
the clock of a behaviour has an end, and a flow ends when it is completed.

## 5. What the violations show

* `store_sync_race`: `sync_symbol_cache_to_official_metrics` deletes by symbol
  what it read before the promotion. A record committed in between is deleted
  although only its predecessor was promoted. The lock does not help, because
  the sync runs outside it.
* `maintenance_never`: `_has_write_locks` counts every `*.lock` below `data`
  as a job that writes, `data/ops/server_ops/streamlit.lock` of the launcher
  included. That file is there once the server has been started, and the
  restart the operations guide describes never happens.
* `notify_quiet`: the gateway compares quiet hours with a clock in UTC.
* `workflow_retry`: the page offers no confirmation for an action that has a
  result in the turn, and a failed result is one. The property is about actions
  the page has a card for; one that waits without a card, like the download at
  the end of a flow, is no violation of it.
* `news_torn`: between the validation of the temporary file and its move another
  thread opens it, which empties it; the move then makes a cut file the
  snapshot, and a failure of that thread leaves it so.
* `rebalance_dust`: the tolerance is far below the value of half a quantity
  step; a trade in between has the quantity 0, which its contract rejects.

Some statements are defined in the modules, under a heading that says so, and
checked by no run, because the code does not keep them. Added to the cfg named
here, TLC refutes each of them:

* `RefreshOnlyStale` (`SymbolStore`, `MCSymbolStorePair.cfg`): which symbols are
  stale is decided before the lock is taken, and not again under it; a background
  batch fetches and commits a symbol that a preflight has refreshed meanwhile.
* `PrunesOnlyDelisted` (`SymbolStore`, the same): a prune takes a half written
  CSV for the truth and deletes the metrics of the symbols that are not written
  yet. `import_symbol_universe_source.py` writes in place; the other tools write
  a temporary file and replace it. `store_pair` has this in it: its properties
  leave out the symbols that were misread, and only those.
* `MutualExclusion` (`RefreshLock`, `MCRefreshLock.cfg`): the lock is tested and
  then written, so that two threads may both find none.
* `LockReleased` (`RefreshRun`, `MCRefreshRun.cfg`): an exception between the
  acquisition of the lock and the `try`, or in the `unlink` of the release, leaves
  the lock for 30 minutes. `KeepsRefreshing` of `lock_pair` shows that it is not
  for ever.
* `SucceededAfterCommit` (`RefreshRun`, the same): tasks are called succeeded
  when the provider has answered; when the commit fails after that, the handler
  saves the queue as it is, and the tasks are gone from it.
  `SucceededMeansStored`, which `run_faults` checks, leaves out the failing
  commit.
* `FailsClosed` (`MaintenanceWindow`, `MCMaintenanceWindow.cfg`): a probe that
  ends in an error counts as a process that is gone. The mark of a running
  operation is then left out of the judgement, and the restart interrupts it,
  although the operations guide (`docs/server_operation.md`) calls the judgement
  fail-closed. `InterruptsOnlyLate` shows that this, besides what begins after
  the last look, is the only way.
* `FavoritesPersist` (`Favorites`, two tabs as in `MCServices.cfg`): two sessions
  read, and the second write undoes the first.

What else the models showed, in cases no document speaks of:

* `SymbolStore`: freshness is measured from `promoted_at` once a record is
  promoted, so data that waited for its promotion is called fresh for longer
  than 24 hours after it was copied.
* `BackgroundRefresh`: a batch that finds the lock taken reports one attempt,
  less than its limit, and ends the cycle of the session; `StopsOnlyWhenDone`
  leaves it out by `disturbed`. Symbols asked for while the target worker is
  alive wait for a batch that may never come, and of too many hints the
  alphabetically first stay. A cap that leaves a batch of one would turn a
  taken lock into an endless loop; the limits of the program (150, 75, 75,
  then 50, up to 1000) never leave one.
* `RefreshRun`: a caller's tasks start with a retry count of 0, so that symbols
  a page keeps asking for are retried for ever.
* `MaintenanceWindow`: a launcher that is killed leaves its child behind,
  which answers on the port but is supervised by nobody; a launcher started
  without `--maintenance-startup` keeps the recorded start of an earlier
  server, and an evaluation that overlaps a recorded start writes the earlier
  one back; a stop request that is left over, or written for a child that has
  already gone, makes the next launcher whose child ends leave (`stray`, which
  `OneServer` and `LeavesOnlyOnRequest` leave out); an activity file that cannot
  be read for a moment counts as empty, and the next write drops the marks in it
  (transient read errors are not modelled).
* `MaintenanceJob`: the state is read before the lock is taken, so that an
  import that ended in between is repeated, and a report that was lost makes an
  import due again; `ImportsOnlyWhenDue` leaves both out.
* `NewsRefresh` and `Favorites`: what `NewsKept` leaves out by `doubtful`, and
  `FavoritesKept` by `overlap`, are the cases of `news_torn` and of
  `FavoritesPersist`. `FavoritesKept` leaves out a server that dies in a write
  as well (`killed`): the file is then cut, and all favorites are lost or the
  pages that load them fail.
* `RankingHistory`: nothing removes a lock file that a crash has left, and
  every later mutation of that user times out. That keeps the files
  consistent, which is what `Serialized` and `IndexedReadable` say.
* `AssistantWorkflow`: a result for the report completes the session, whatever
  else is open. In the report flow of `guided_workflow.py` that is the download of
  the report, whose step then stays open for good.
* `AssistantWarmup`: a page that switches the assistant off sets the state,
  which a probe that is still at work overwrites.

## 6. Proofs

For every value of the constants that satisfies the named assumptions of the
modules. The properties are those of the runs; the two theorems that assume more
say so in their statement and in the third column.

| Theorem | States | Assumes besides | Inductive invariant |
| --- | --- | --- | --- |
| `SymbolStoreProofs!TypeCorrect` | `[]TypeOK` | | itself |
| `SymbolStoreProofs!NeverLost`, `NeverMisjudged` | `KnownNeverLost`, `[]KnownNotMissing` | | `StoreInv` with a `LocalInv` per batch |
| `RefreshRunProofs!TypeCorrect`, `SuccessIsStored`, `NoTaskForgotten`, `RetriesAreBounded` | the four properties of `run_faults` | | `RunInv` |
| `RefreshLockProofs!TypeCorrect`, `OnlyOverlapTears` | `[]TypeOK`, `[]QueueTornOnlyByOverlap` | | `LockInv` |
| `BackgroundRefreshProofs!TypeCorrect`, `CapIsRespected`, `CycleStopsWhenDone` | `[]TypeOK`, `[]CapRespected`, `[]StopsOnlyWhenDone` | | `CycleInv` |
| `MaintenanceWindowProofs!WindowTypeCorrect`, `BusyStaysMarked`, `OneServerRuns`, `MaintenanceInterruptsOnlyLate`, `LauncherLeavesOnRequest` | `[]TypeOK`, `[]BusyIsMarked`, `[]OneServer`, `InterruptsOnlyLate`, `LeavesOnlyOnRequest` | | `WindowInv` |
| `UserDataProofs!AlwaysReadable`, `HistoryImplementsList`, `HistoryFilesAgree`, `HistoryTypeCorrect` | `[]IndexedReadable`; the refinement `Serialized`; `[]FilesAgree`; types, and at most `Keep` unpinned runs | | `HistoryInv`, `Undisturbed` |
| `UserDataProofs!FavoritesTypeCorrect` | types | | `FavoritesInv` |
| `UserDataProofs!GroupsStayConsistent`, `GroupsTypeCorrect` | `[]GroupsConsistent`, types | | `GroupsInv` |
| `UserDataProofs!ProposalReachesTargets`, `PortfolioTypeCorrect` | `[]ProposalMeetsTargets`, types | | `PortfolioInv` |
| `ScheduledJobsProofs!SentAtMostOnce`, `RunLogIsTrue` | `[]AtMostOnce`, `[]RunLogTrue` | | `NotifyInv` |
| `ScheduledJobsProofs!NotifyTypeCorrect` | types, with at most one message per poller | `IsFiniteSet(Poller)` | and `Bookkeeping` |
| `ScheduledJobsProofs!NewsIsKept`, `NewsTypeCorrect` | `[]NewsKept`, types | | `NewsInv` |
| `ScheduledJobsProofs!ImportsOneAtATime`, `JobOnlyWhenDue` | `[]JobTypeOK` (one import, under the lock); `ImportsOnlyWhenDue` | | `JobInv` |
| `ServicesProofs!WorkflowSessionMatches` | `[]SessionMatchesSteps` | | `WorkflowInv` |
| `ServicesProofs!WorkflowTypeCorrect`, `WarmupStateIsTrue`, `WarmupTypeCorrect` | types, `[]StateIsTrue` | | `WorkflowInv`, `WarmupInv` |
| `ServicesProofs!ServicesTypeCorrect` | `[]ServicesTypeOK` | `IsFiniteSet(Poller)` | those of the services |

`IsFiniteSet(Poller)` is there because the bound of `NotifyTypeOK` is a
cardinality.

The named assumptions of the modules only fix what a constant is: a bound is a
natural number, "no such thing" is none of the things. Some say a little more:
threads of the lock and symbols of a portfolio or of the background refresh are
finitely many; prices and the denominator of the weights are positive
(`PortfolioAssumption`); the page has a card for the report, and only for actions
that require a confirmation (`FlowAssumption`); there is a resilient launcher
(`ResilientAssumption`).

`SymbolStore`. Neither property is inductive: a step that deletes acts on what
the batch read several steps before. `LocalInv` says, for each place of a batch
where something read is waiting to be used, what is still true of it: before
the delete of a sync, every symbol read has its metric by now, and no other
thread can remove it, because prunes spare what was never delisted; before a
prune, the active rows read miss only symbols that have been delisted or that
`misread` names; between the two reads of the reference records, what was known
is among the records read or still in the metrics. A row moves only from records
to metrics, and the metrics are read last; reading them in the other order would
break this conjunct. What a prune may yet take away with a misread row is kept
apart at every place (`Unseen`), so that no assumption on the CSV is needed.

`RefreshRun`. A run may save its own queue over the file only because what
waits in the file is among its tasks (`FileKeepsAll`); a task that has
succeeded in memory has its record in `answers`, then in the store
(`AnswersOnTheWay`); the retries of a task count its failed attempts, in
memory and in the file, as long as every save succeeded (`RetriesCounted`).

`RefreshLock`. As long as two threads have never been under the lock at once,
only the one under it has the temporary file open, nobody has the queue file
open, and a temporary file that was validated is whole when it is renamed or
gone (`Undisturbed`).

`BackgroundRefresh`. The limit of a batch fits what the cap leaves, and its
tasks are as many of the symbols that were stale as the limit allows
(`BatchFits`); a batch that is smaller than its limit is then all of them. The
bound of the hints is a counting argument over the alphabet (`TrimmedBound`).

`MaintenanceWindow`. One launcher holds the supervisor lock, and without a stray
request or a dead launcher every live process is the child of a launcher that
serves (`Supervised`): two servers would be two holders. A stop request that is
not stray is for the child of a resilient launcher, so one that leaves for good
had its request. For the restart, the invariant follows the judgement through
the steps of the watcher: once its last evaluation has read an idle server, all
who are connected or at work came later, or have been taken for gone by a probe
(`Judged`), because the activity file lacks neither the mark of a running operation
that was not `denied` (`BusyIsMarked`) nor a browser that is there (`Known`).

`RankingHistory`. A worker under the lock has read the index as it still is
(`Mine`): nobody writes without the lock, and a lock that was left stays. Every
write of the index is then the step of the list that its mutation is, with the
pruning in it, and every other step leaves the index alone. For the agreement of
the two files, while no step failed and the server lived, the one under the
lock is the only cause of a difference, and only for the run it is saving or
those it is about to remove (`Undisturbed`). That the index never exceeds
`Keep` is a counting argument: a run that survives the pruning has fewer than
`Keep` unpinned ones above it (`FewAbove`, `PrunedIsShort`).

`Favorites`. Types only, with what a tab has decided to do in its place
(`Decided`). That edits which do not overlap are kept is model-checked.

`WatchlistGroups`. `GroupsConsistent` must hold of every open draft too, since a
save makes a draft the file (`Consistent`). Each edit keeps it: names stay
distinct because the code compares them before it adds or renames, and a delete
moves the symbols of its group out before anybody can look.

`PortfolioRebalance`. Each trade closes its gap to within half a step at the
prices it was computed with (`HalfEvenRounds`, `TradeCloses`), whatever is
rounded which way, however fine the holdings are and whichever way the prices
moved since the valuation. That the cash pays is then a comparison of sums over
any finite set of assets (`CashPays`): a sum is the value of a fold, whose
function over the subsets of a finite set exists and is unique
(`SummationExists`, `SummationIsUnique`), and sums respect linear inequalities
(`SumsCompare`). The induction over finite sets is by a smallest counterexample
(`SmallestSet`, from `LeastNumber`), which needs no theorem with an operator as
its parameter.

`NotificationSchedule`. Two pollers at work have different events, since the
claim let one of them through; an event that nobody works on and that is not in
the log has not been sent (`Knows`). For the log, what a poll has not before it
any more has a slot (`Visited`).

`NewsRefresh`. A thread that has met no other since it began to save is the only
one that saves (`SavesAlone`); the temporary file it has validated is whole or was
removed (`Validated`), and nobody has a snapshot open that was saved that way
(`KeptWhole`). Only who is filling has such a file open (`OpenToFill`), also when
the file was moved or removed meanwhile. A status that does not say the refresh is
over is owed by a thread that has yet to write its last word (`FlagOwed`).

`MaintenanceJob`. What a driver has read is what was really imported, unless a
report was lost or came after the read (`Known`), and its decision followed from
that (`Decides`).

`AssistantWorkflow`. In an active session no step has failed and the active one
is not over; in a failed one exactly one step has failed; only a confirmation
waits (`Fits`). A session is completed when no step is left to take, or by the
report, which is then made (`ReportMade`) and stays so, since only a failed session
is tried again. The card on the page is that of the first confirmation without an
answer (`CardFits`).

`AssistantWarmup`. Only the thread that was started last is at work, and it is
if the manager says so.

The composition. A step of `MCServices` is a step of one service and leaves the
variables of the others, so it is a step or a stutter of each; what is proved of
each service holds of all of them together. The lemma says no more than that
(`ServicesImplemented`), and serves to carry the types over; the properties are
theorems of each service.

`LeavesOnlyOnRequest` owes its form to a failed proof: it looks at `stray` after
the step, because a launcher whose child has ended may itself be killed in that
step.

Only model-checked, with TLC on the instances above: liveness (`KeepsRefreshing`,
`CycleEnds`, `ComesBack`), which rests on fairness and `ENABLED` and so is out of
reach of TLAPS, and `FavoritesKept`.

## 7. Not modelled

The models cover a small share of the source lines, because most of the
125,000 lines are something else. Nearly three quarters of them are pages, styles and
view code (`ui/app.py`, `ui/styles.py`, `ui/views`), text around a language
model (`backend/research`, `backend/llm_factor`, `backend/interpretation`, the
planning half of `backend/assistant`). The rest of what is
not modelled are floating point models (`backend/forecast`, `backend/scoring`,
`backend/screening`, `backend/risk`), network clients and CSV imports
(`backend/marketdata`), and stateless endpoints. They keep no state between
two steps that another actor could change, or their correctness is in numbers
and texts a model checker cannot say anything about.

Two hazards of these parts are known and have no model: the research fetches
create the semaphore of a source without a lock and leave threads behind when
the time limit is over, and the risk rules look at each intent on its own.

Within the symbol refresh: single-record helpers, the purge by status and the
legacy JSON import, which no batch calls; the bound of 100 persisted tasks,
which is larger than the queue of any instance; the log and the counters of the
status file. Four hazards of the stores have no property: that a sync looks at
the oldest records first and records that cannot be promoted stay there, that
inactive symbols use up the limit of a batch again and again, that freshness
follows the promotion, and that two batches may refresh the same symbol. Each is
what the code does by design, and no document promises otherwise.

Elsewhere: transient read errors of the small JSON files other than those
named in the module headers; a thread that cannot be started
(`Thread.start` raising leaves the warm-up in `warming`); the reading and
archiving of notifications; the runtime lifecycle file of the launcher, on
which nothing decides.
