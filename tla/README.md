# Verification of auto-forex-core

TLA+ specifications of the core of `auto-forex-core`: how tasks are started,
run, controlled, waited for and ended by several threads at once, where their
ticks come from, what becomes of the requests they send to a broker and of the
account balance, and how their results reach the files and tables of the result
stores and are found there.
`*.tla` are the modules, `*.cfg` the TLC configurations, `*_proofs.tla` the
theorems TLAPS checks. Paths below are relative to the repository root unless
they name a module.

    tlc -workers 2 -config TaskExecution_control.cfg MCTaskExecution
    tlapm TaskExecution_proofs.tla

## 1. The system

An application hands a task definition (a backtest over a finite period, or a
live trading task), a data source, a strategy object and perhaps a broker to a
`TaskManager`. The manager keeps a registry of immutable task snapshots, puts a
runner on a thread pool, and the runner feeds ticks to the strategy, sends the
events the strategy returns to the event bus and to the broker, and stores the
strategy's state in the task.

| component (src/core) | state it keeps | operations | who calls it |
|---|---|---|---|
| task snapshot, `tasks/execution.py`, `tasks/state.py` | none: immutable values | start, pause, stop, restart, complete, fail, with_strategy_state | runner and manager, each on a copy it read |
| registry, `tasks/registry.py` | latest snapshot per task, behind a lock | save, get, list | every thread |
| runtimes, `tasks/runtime.py` | latest runtime (future, control, strategy) per task, behind a lock | save, get, current, active_strategy_task_id | manager threads |
| manager and services, `tasks/manager.py`, `management.py`, `launching.py` | executor, services | start_backtest, start_trading, pause, stop, restart, wait, progress, shutdown | application threads, concurrently |
| runner, `tasks/runner.py`, `runner_support.py` | locals of one thread; two flags (stop, pause) set by other threads | run: ensure_running, on_start, ticks, on_stop, final transition, observers | a thread of the pool |
| waiting and progress, `tasks/waiting.py`, `progress.py` | the reporter's bar and the units it has shown | wait with or without a reporter | application threads |
| event bus, `events/bus.py`, `routing.py`, `pending_strategy.py`, `aggregation.py`, `history.py` | subscriptions, history, pending strategy requests, each behind a lock | publish, publish_many, subscribe, expire_pending, clear_pending | runners, manager, monitor |
| request time-out monitor, `tasks/monitors.py` | a daemon thread and its stop event | expire the requests of trading tasks every interval | its own thread |
| strategy events to orders, `strategies/execution.py`, `orders/*` | none | execute_many, open, close | runner |
| account balances, `tasks/accounting.py` | the balance and open trades a runner tracks | balance, apply_reports | runner |
| results, `results/*` | a buffer per store, ledger, metric schedule, behind a lock; SQL, CSV or memory store | handle, on_tick, on_task_finished, flush | event handlers and observers in runner threads, the monitor, the application |
| tick sources, `sources/*` | files, filters | ticks | runner |
| values, `models/*`, `ports/*` | none | money, units, ids, broker data types | all |

What is hard here: the registry's `get` and `save` are atomic one by one and
nothing is held between them, so every change of a task is a read-modify-write
that another thread can overtake; a runner looks at its flags between ticks
only; `launch` checks the runtimes before it submits and records the runtime
after; handlers, observers and strategies are foreign code that may raise at
any call; a strategy request may be answered, time out or be cleared by three
different threads; a result store may refuse a batch at any record, in the
middle of a call that has written half of what it has to write. What makes the
components correct: a task has one runner, its snapshot never contradicts its
status and a terminal task stays as it is (manager, runner); a request is
answered or diagnosed, and diagnosed once (event bus, monitor); every store ends
with what the events said, whatever failed on the way, and its readers find it
there (results); every request of a batch is answered, a close closes what it
names and no more, the tracked trades are the broker's and the balance is what
was realized (orders, accounts); a source gives exactly what its files have to
give, in order, and samples one tick a bucket (sources); a wait ends, tells the
truth about the run, and tells its reporter the end once (waiting).
`PROJECT.json` lists each hazard at its line.

## 2. Modules

| module | models | kind |
|---|---|---|
| `ExecutableTask` | the task snapshot and the lifecycle table: pure operators | data |
| `TaskLifecycle` | what the registry promises: every write is one allowed transition of the task as it is, or a newer strategy state of a running one | abstract specification |
| `TaskExecution` | manager, launch service, control service, executor, runners, registry, runtimes | detailed specification |
| `TaskExecutionInvariant` | the inductive invariants of `TaskExecution` | proofs |
| `TaskExecution_proofs` | task snapshots, types and safety of `TaskExecution` | proofs |
| `TaskLifecycle_proofs` | `TaskExecution` implements `TaskLifecycle` without `pause()` and `stop()`; what holds without `stop()` | proofs |
| `RequestOutcome` | what the event bus promises about a request: it waits, is answered, is diagnosed once | abstract specification |
| `PendingRequests` | pending requests, runners, time-out monitor, application threads | detailed specification |
| `PendingRequestsInvariant`, `PendingRequests_proofs` | its inductive invariant and theorems | proofs |
| `ResultRecording` | result recorder, writer, flush coordinator, ledger, metric schedule, stores | detailed specification |
| `ResultRecordingInvariant`, `ResultRecording_proofs` | its inductive invariant and theorems | proofs |
| `BrokerModels` | money, orders, trades and positions as orders and balances use them: pure operators | data |
| `StrategyOrders` | the order, the name, the targets and the response of a strategy request: pure operators | data |
| `OrderExecution` | a batch from the callback to the reconciled responses, the broker's account, the balance tracker | detailed specification |
| `OrderExecution_proofs` | its inductive invariant and theorems | proofs |
| `MarketData` | rows, ticks, candles, ranges and filters: pure operators | data |
| `CsvSource` | the CSV source that reads row by row, with its decorators | detailed specification |
| `CsvSource_proofs` | its inductive invariant and theorems | proofs |
| `OrderedFeed` | what a source promises a consumer | abstract specification |
| `CsvFeed` | what there is to give, computed from the whole of the files; `CsvSource` as an implementation of `OrderedFeed` | composition |
| `ResultRows` | result records as rows and back: pure operators | data |
| `ResultStores` | the memory, CSV and SQL stores, where a save may stop, what a reader finds | detailed specification |
| `ResultStores_proofs` | its inductive invariant and theorems | proofs |
| `WaitProgress` | `wait` and a progress reporter beside a run | detailed specification |
| `WaitProgress_proofs` | its inductive invariant and theorems | proofs |
| `MCTaskExecution`, `MCPendingRequests`, `MCResultRecording`, `MCOrderExecution`, `MCCsvSource`, `MCResultStores`, `MCWaitProgress` | small instances | runs |

The detailed specifications meet in the runner: `TaskExecution` has its registry,
flags and pool, `PendingRequests` its calls of the event bus, `OrderExecution`
its calls of the broker and of the tracker, `CsvSource` the stream it reads,
`ResultRecording` the handler and observer that run in its thread,
`ResultStores` the stores these write to, and `WaitProgress` the thread that
waits for it. What one of them abstracts of the others is nondeterminism there:
a handler of the bus that may raise in `TaskExecution`, `PendingRequests` and
`OrderExecution` is, among others, the recorder whose store refuses a batch; a
store that refuses at any row in `ResultRecording` is one of `ResultStores`; a
source that may raise is `CsvSource` at a row that does not parse.

### TaskExecution and the code

* `registry` is `InMemoryTaskRegistry`. A task that is not in it is a task with
  status `created`: the manager saves a task only after `start()`.
* `runtimes[t]` is the run of the `TaskRuntime` stored for t, or `NoRun`.
* `run[r]` is one `runner.run` submitted to the executor: where its thread is
  (`pc`), whether it is in on_start, on_tick or on_stop (`phase`), the lifecycle
  method it performs (`goal`), the snapshot it read (`snap`), the strategy state
  in its context (`ctx`) and the ticks its source has left. `stopReq` and
  `pauseReq` are the two flags of its `TaskExecutionControl`; `raised` the runs
  whose future holds an exception.
* `client[c]` is an application thread inside one call of `TaskManager`.
* `queue` and `open` are the executor's work queue and whether it accepts work.
* `notified`, `rejected` and `late` are history: runs whose observers were told of
  the finish, tasks whose last launch was refused, and the runs of launches that a
  `shutdown()` did not see: submitted and not yet stored among the runtimes when it
  looked at them, or submitted between that and the closing of the executor.

One action is the code between two accesses to shared state: `EnsureLoad` and
`EnsureStore` are `ensure_running` up to its `get` and its `save`, `ContextLoad`
and `ContextStore` are `TaskContextStore.save`, `LifecycleLoad`,
`LifecycleStore` and `LifecyclePublish` are the four `*_current` methods,
`ControlLoad` and `ControlStore` are `pause` and `stop` of the manager,
`CheckTask`, `CheckStrategy`, `Submit` and `Register` are `launch`. A strategy
callback with everything `process_result` does is one action, because it touches
no state of this module: it yields a context with the same or a newer strategy
state, or raises. What may raise is the constant `Faults` (a `handler` of the
event bus, a `callback` of the strategy, the broker or the source, an
`observer`), and every place the code calls one has the branch.

Left out of it: `wait`, `progress` and `profile` (they read and change nothing),
the profiler, clocks and timestamps (a timestamp is the Boolean "is set"), the
time-out monitor's own thread, a data source that is not the right kind for the
task. A strategy state is a version number that only grows during a run; a
strategy that returns to an older state is not told apart from one that does not
change it. A second `shutdown` is not modelled; after the first nothing new is
accepted. `RunLeft`, the bound on the launches, is looked at where a call is about
to save the task it launches.

### PendingRequests and the code

* `pending` is `PendingStrategyRequestStore`; a request is in it once.
* `old` stands for the clocks: the requests whose age is at least the time-out.
  `Age` moves one there at any time, before its publication too, since a
  request carries the timestamp of a tick.
* `runner[t]` is the runner of t as far as it touches the bus: where it is, the
  requests of the last `StrategyResult` (`batch`), what is left to publish of
  them or of the reports (`todo`), the diagnostics it has taken out of the store
  and not published yet (`hand`).
* `monitor` is the monitor's thread: the runtimes of its snapshot it has still to
  look at, the one it looks at, the diagnostics in its hand.
* `active` is the set of tasks the registry shows in an active status; the rest
  of the registry is `TaskExecution`'s. `ChangeStatus` is a `stop`, or a stale
  save, by another thread.
* `issued`, `answered`, `diagnosed`, `lost` and `left` are history.

`expire_pending` and `clear_pending` remove requests under the store's lock and
publish after it: `TakeOut` and `MonitorExpire` are the first half, `Diagnose`
and `MonitorPublish` publish one diagnostic a step, and a handler may raise at
each of them, which drops the rest (`lost`). An application may publish requests
and responses of its own through the bus (the constant `AppRequest`), as
tests/unit/core/tasks/test_manager.py:485-539 does. The order of the requests of
one result is left out: nothing depends on it. An event is the request it
carries; a response without a pending request is passed on unchanged and is not
modelled.

### ResultRecording and the code

* `memory` is `InMemoryResultStore`: the latest record of each key. A key is a
  kind with an event, trade, cycle, task or (task, run, time) of a metric.
* `view[s]` is what a reader of external store s finds under each key,
  `buffer[s]` its `ResultBatchBuffer`, `count` the `pending_count`.
* `ledger`, `last` are `TradeLedger.trades` and `last_metric_at`; `run[t]`,
  `runs[t]`, `now[t]` are the run of a task as the recorder sees it and the time
  of its last tick.
* `call` is the call that holds the recorder's lock: its next step, the records
  it has still to save, and where it goes on after them.
* `failed`, `kept` are history.

Every call runs under one lock, so calls do not interleave, but each one is
several steps because each of them may fail: `Save` is one `writer.*` call
(memory, then every buffer, then `flush_if_due`), `FlushStore` and `RefuseBatch`
are one store of a flush. An exception leaves the call where it stands and goes
up into the runner (`Raise`). A SQL store takes a batch whole or not at all; a
CSV store appends kind by kind and row by row and may stop at any row
(`Landed`). Amounts are abstracted: a realized profit is the close event it was
taken from, a count the set of what is counted, so that sums of profits agree
exactly when the sets do. Records are saved kind by kind in the code's order; the
order within a kind is free. Not told apart: two CSV rows of one event.

### OrderExecution and the code

* `batch`, `next`, `reports` are the events of a `StrategyResult`, the one
  `execute_many` is at, and the list of responses it makes; `pc` is where
  `process_result` is: the requests are published, executed, the responses
  published, accounted one by one (`at`), and given to the strategy.
* `targets` are the broker trades a close has found and not yet closed; 0 stands
  for the side of a position.
* `trades` is the broker's account, external to the repository: it changes by
  what the code asks for, in part or not at all, with an answer, an answer without
  a price, or none (`PlaceOrder`, `CloseTarget`, `CloseRefused`), and by itself
  (`StopOut`). `mode` is a dry run, a live broker or none.
* `book` and `balance` are `TaskAccountBalanceTracker._open_trades` and the
  account balance; a new run has a new tracker (`NewRun`).
* `earned` and `stray` are history: what the broker earned in the run, and the
  names whose trades changed without an answer the tracker can use, or were labelled
by a name the tracker does not resolve.

A name is given in a text (`Text`), which may have spaces around it or be of spaces
only; `Trim` is `strip()`, `Blank` the empty text, `NoneText` what `str(None)` is,
`None` a value of None and `Absent` a key that is not in the metadata. `OrderName` is
the label `OrderFactory` writes, which is not trimmed; `FromEvent` is the name a
close and the tracker resolve, which is, and passes over what is blank or None. The
two agree, once the label is read as `MetadataText` reads a broker's trade, exactly
for the requests that are `Unambiguous`; the names of the others are in `stray`.

An open trade of the broker is found by the name of the close request or by the
broker's own id, and every one of several that match is closed by the whole of
the units asked; the code does this, and `ClosesWhatWasAsked` bounds it per trade.
`BookFollowsBroker` leaves out the names in `stray`: the tracker learns of the
broker's account from responses only, so a stop loss, a lost answer, a fill
without a price, a position closed without naming a trade, a trade closed by the
broker's own id instead of its name, two open trades under one name, or trades of
an earlier run are beyond it. Amounts are whole steps of a
price. Not modelled: the units a close asks for when they come from metadata in
another type, time stamps, and metadata other than names, prices and the
realized profit.

### CsvSource and the code

* `files` are the paths of the source, each a file that opens or not, with or
  without a header and an instrument column, and its rows; a cell says a value, is
  blank (`None`) or cannot be parsed (`Bad`). A line that cannot be read at all (a
  cut-off archive, bytes that do not decode, a `csv.Error`) is a row whose
  instrument is `Bad`: it breaks the stream of every instrument.
* `turn` is the instrument of `DataSource.prices`, `file` and `pos` where the
  generators are, `bucket` is `current_bucket` of `TickGranularityFilter`, `out`
  what the consumer has been given.

One action is one row, or one opening or closing of a file. `Skip` is a row of
another instrument, which is never parsed; `Break` a row that does not parse,
which ends the stream, also one outside the requested range; `Drop` a row that
range, spread filter or sampling leave out. `Leave` closes the generators at any
point. `CsvFeed` says what the whole of the files has to give without reading row
by row: the rows up to the first that breaks, those asked for, and of each run of
one bucket the first; `Fed` is the refinement of `OrderedFeed` by that feed.
`GivesFirsts` says the same of every moment without a recursion over the files: with
the rows there are to read in one order (`ToRead`, `Before`), what was given are the
records of `Firsts`, in that order and none twice.
Not modelled: in which order paths are collected from directories; a text that is
no pair but compacts to the one asked for (`E/UR_USD`), which raises in that
instrument's turn only and is a row of another instrument in the model.

### ResultStores and the code

* `files[k]` is the CSV file of a kind: whether it is there, starts with its
  header, has whole lines only, and its rows; `known[k]` is
  `CsvResultStore._known_keys`. `tables[k]` are the rows of a SQL table, or the
  records of `InMemoryResultStore`.
* `batch`, `at` are the save in progress and the kind it is at.
* `kept`, `since`, `stopped` are history: per key the last record whose save
  returned, those of later saves that did not, and the kinds in whose append this
  store object was stopped.

A CSV append may fail to open its file, or stop after any line, header included, or
within one (`StopAppend`); a row mapper may raise (`MapRaises`); a SQL save is a
transaction (`Commit`, `RollBack`). `Open` is a new store object on the same files or
database, in this process or after a crash. `ResultRows` converts field by field,
so that `ReadersFind` also says what a value becomes on its way: a missing value
and an empty text share a CSV cell, SQLite drops the zone of a time, an interval
loses its fraction of a second, metadata comes back as what JSON has of it.
Not modelled: two store objects alive at once on one directory, each with its own
`_known_keys`.

### WaitProgress and the code

* `task`, `future`, `clock`, `again` are the run as `wait` sees it: the status in
  the registry, the future, the clock of the runtime, and a restart by another
  thread, which first saves the task and then launches it.
* `pc`, `left`, `poll`, `result`, `outcome` are the locals of `TaskWaiter.wait`
  and `_wait_with_progress`; time is what is left of the deadline and of the poll.
* `bar` and `units` are the bar of a `TqdmProgressReporter` and
  `_completed_units`; the reporter may be used for several waits.
* `opened`, `finished`, `closed` are history.

Every callback of the reporter, every snapshot it is given and every `get` of the
registry may raise. `on_start` is called before the `try`
(`waiting.py:63`): when it raises after it has opened its bar, nobody closes it.
Not modelled: a bar whose own `close` raises, which would replace the error that
`wait` is about to raise.

## 3. Runs

Passing runs (each finishes in a few minutes at most with two workers):

| run | instance | shows |
|---|---|---|
| `launch` | a backtest and a live task with one strategy, 3 runs, 2 workers, 1 client that starts, restarts and restarts with a time-out; handler and observer faults | `SoloStrategy`, `FinishObserved`, `LifecycleRefined` |
| `control` | 1 task, 2 runs, a launching and a controlling client, handler faults | `TypeOK`, `SnapshotsConsistent`, `OneRunnerPerTask`, `RunningHasRunner` |
| `live` | 2 trading tasks of a strategy each, 2 runs, 1 worker; a client that starts, restarts and restarts with a time-out against one that pauses and shuts down | `StopEndsRun`, `ShutdownDrains`, `RestartReturns` |
| `requests_threads` | 1 trading task, 2 requests of its strategy and 1 of an application, all faults | `RemovedOnce`, `Accounted`, `Settled` |
| `requests_outcome` | 1 trading task, a broker request, a HOLD request, one of an application, all faults | `TypeOK`, `OutcomeRefined`, `Expires` |
| `results_stores` | 1 backtest, 2 runs, 2 trades of a cycle, a CSV and a SQL store, 2 records a batch, clean-up on | `TypeOK`, `StoresFollow`, `BacklogCounted`, `MetricsSpaced`, `FinishedStored`, `FillsCounted` |
| `orders` | 13 batches of one or two requests, 2 names (with and without spaces, of spaces only, None, as `display_id`, `entry_id` or `logical_trade_id`), 2 instruments (one not in the account's currency), dry, live and no broker, 2 runs, 3 callbacks, 2 broker trades | `TypeOK`, `EveryRequestAnswered`, `BookFollowsBroker`, `BalanceFollowsBroker`, `NamesAgree`, `ClosesWhatWasAsked`, `BatchEnds` |
| `sources` | ticks and candles of 2 instruments, all lists of up to 2 files, up to 3 rows each of 7 kinds, and odd files and rows | `OnePerBucket`, `GivesFirsts`, `Fed` |
| `rows` | 9 records in 3 batches, 3 saves, 2 store objects, memory, CSV, SQLite and another database | `TypeOK`, `ReadersFind`, `TwiceOnlyAfterStop` |
| `waiting` | 2 waits of one reporter, with a passed, a near and no deadline, a period of 3 units or none, a clock that also leaves it, a restart | `TypeOK`, `EndToldOnce`, `AnswersTruly`, `BarMovesForward`, `WaitEnds` |

`launch` has no other thread writing the task: there the abstract lifecycle is
refined, a run that ends without a fault on a terminal task has told its observers,
and a strategy object is never driven by two runners. (`FinishObserved` speaks
neither of runs that failed or raised nor of tasks that ended paused.) `control` has one, and what survives is weaker:
`SnapshotsConsistent` instead of the refinement. A handler that raises on a
diagnostic drops those after it; `Accounted` counts them as `lost`, and to the
listeners that `OutcomeRefined` speaks of they wait for ever.

What does not survive is in the violation runs, each against a line of the
repository:

| run | property | what TLC finds |
|---|---|---|
| `v_save` | `SavesOnlyState` | the context save of a runner turns STOPPED into RUNNING |
| `v_price` | `FillPriceRecorded` | a fill price goes into the response as printed money, rounded to 0.01: for most currency pairs a hundred pips |

More consequences of the code follow from the models and have no run of their own:

* A runner that finds both flags set takes the pause branch (`runner.py:259`)
  with a task that is already stopped, and tells no observer. `FinishObserved`
  holds in `launch`, where nobody stops a run from outside a restart, and is proved
  where nobody calls `stop()`.
* A task that `stop()` has saved no longer holds its strategy (`runtime.py:91`)
  while its runner is still in a callback, so a second task can be launched with
  the same strategy object. So can it by two threads that launch at a time
  (`management.py:128`). `SoloStrategy` holds in `launch`, which has one thread
  and no `stop()`, and is proved for that case only.
* A launch that submits its run while another thread is in `shutdown()`, after the
  loop over the runtimes (`manager.py:282`) and before the executor is closed, or
  that has submitted it and not yet stored its runtime, has its run executed without
  a stop request. If it is a live run it never ends, and neither does
  `shutdown(wait=True)`; runs that `shutdown()` did flag and that are queued behind
  such runs do not end either. `ShutdownDrains` has the condition.
* `restart()` without a time-out of a run that is queued waits for a worker: as
  long as all workers have live runs that nobody asks to stop, it does not return
  (`manager.py:238`). `RestartReturns` has the condition.
* The label of an order is not the name a close resolves (`factory.py:22`,
  `matching.py:18-29`) when the `display_id` is of spaces only and the metadata has
  an `entry_id`; when there is no `display_id` and the `entry_id` is None (the label is
  `None`, as a text); and when the metadata has a `logical_trade_id` that is None,
  blank, or another name than the `display_id`. `NamesAgree` has the condition. A name
  with spaces around it is a label with them, which agrees because it is stripped
  when a trade is read.
* Two threads in `restart()` may both pass the checks and submit (`manager.py:233`,
  `management.py:128`): two runners of one task. `SoleRestarter` excludes it.
* A handler that raises on one diagnostic of `clear_pending` or `expire_pending`
  drops those after it (`bus.py:161`, `177`); `Accounted` counts them as `lost`.
* `stop()` saves STOPPED over a task that has just completed
  (`management.py:94`), and `pause()` an older strategy state over the newest one
  (`management.py:83`).
* A run that raises before its `try` fails no task (`runner.py:80`).
* A restarted task's close of a trade that an earlier run opened replaces the
  fuller summary of that trade by one without the open (`trade_state.py:78`).
* A CSV append that is refused after its file was created and before its header was
  written leaves a file whose first data row every later reader takes for the
  header (`store_csv.py:182`); `ReadersFind` speaks of `Readable` files.
* An `on_start` that raises leaves the bar it has opened (`waiting.py:63`).
* Ticks that go back in time make a bucket be given twice (`base.py:49`);
  `OnePerBucket` has the condition, `GivesFirsts` and `Fed` say what comes out
  without it.

Bounds of `TaskExecution`. `Run` bounds the launches, `MaxStarts` the restarts,
`MaxTicks` the ticks of a backtest, `MaxState` the changes of the strategy state,
`MaxWorkers` the threads of the pool. Two runs are the least that let a restart
meet the run it replaces; one tick and one state change are the least in which a
flag, a save and a final transition can overtake each other; the second task and
third run of `launch` let the first task be restarted while the second waits for
the strategy. In `live` two tasks on one worker are the least in which a run is
queued behind another that nobody stops, and two launches, one of them seen by
`shutdown()` and one not; the strategy state does not change there (`MaxState` is 0),
as a change adds steps to a run and nothing a flag or a wait depends on. `launch` has no ticks: a run is on_start, on_stop and the final
transition there, each of which calls handlers and observers.

Bounds of `PendingRequests`. `Request` bounds the requests, `MaxBatch` those of
one result. Two in one result are the least for which a handler can raise
between two of them, or the monitor take one and the runner the other; the
third, an application's, is in the store when no runner works on it. Runs of a
task are not bounded: a runner that is off may be launched again.

Bounds of `ResultRecording`. `MaxRuns` and `MaxTime` bound the runs and the time
of a task. Two stores are the least in which one takes a batch and the other
refuses it, two runs the least in which the ledger has been cleaned while memory
still has the trades of the run before, three times the least in which a metric
may be due again (`Interval` is 2) or not yet. One trade is closed without its
open having been seen and the other is only opened; together with two runs that
gives summaries from the ledger, from memory and from both. A trade that is
opened and then closed is covered by the proofs, which have any number of each.

Bounds of `OrderExecution`. Two broker trades are the least for which two open
trades share a name, a close matches two, and one is closed while the other is up
next; units 1 and 2 are the least with a partial fill, a partial close and a
close of more than is left; three callbacks are an open, a close and one more; two
runs the least in which a tracker meets trades it never saw. Prices 2 and 3 make a
profit and a loss, and with a balance of 2 the balance can be used up.

Bounds of `CsvSource`. Three rows in the first file are the least in which a row is
left out between two of one bucket and a bucket comes again; the second file
starts with the bucket of the first or not. Times 0 to 5 are three buckets, 7 and 9
are after the requested end. The order of times is free, so ticks also go back.

Bounds of `ResultStores`. One batch has a record twice, with another one between;
one has two records of a key; one has a record that does not map. Three saves
are one that stops, its retry, and one by another store object.

Bounds of `WaitProgress`. A deadline of 3 with polls of 2 has a whole poll and one
cut short; three units let a clock step back within the period; two waits are the
least in which a bar that a raising `on_start` left is found by the next.

Runs, and requests that no definition names, are interchangeable, so `SYMMETRY` is
used where no liveness is checked. Deadlock is not checked because the program stops:
when launches, requests or times are used up and all calls have returned nothing
is left to do.

Fairness in `TaskExecution`. `WF` of every runner step and of every step of a
call in progress: the threads of the pool and of the application are scheduled.
Entering a call (`ClientCall`) is not fair, so nobody has to stop anything. For a
live run the same fairness means that its stream goes on delivering ticks or
ends: a stop flag is looked at when a tick arrives (`runner.py:265`), and on a
stream that falls silent `StopEndsRun`, `ShutdownDrains` and `RestartReturns` do
not hold of the code. A run that is queued behind the endless runs of other tasks
does not end either: `StopEndsRun` speaks of runs that have their thread, and the
other two name the case, which `live` reaches. Without those conditions TLC finds both
violated there.

Fairness in `PendingRequests`. `WF` of the monitor's step (a thread that sleeps
for an interval and wakes) and of `Age` (time passes); none of the runners, since
the point of the monitor is that a request expires though no tick arrives.
`Expires` excuses a task that ends or leaves the active statuses, and a monitor
that was shut down. `ResultRecording` has no liveness: its calls are ended by the
threads that make them, and so are those of `ResultStores`.

Fairness in `OrderExecution` is `WF` of `Process`: the runner's thread goes on with
the batch it has. Nothing is asked of the strategy, the broker's own closes or a
new run. In `CsvFeed` it is `WF` of `Pull`: a consumer that has not left asks for
the next record, as the runner's `for` loop does. In `WaitProgress` it is `WF` of
`PassTime` and of `Waiter`: time passes and the waiting thread runs. The run is
not fair: `WaitEnds` asks for a deadline or a run that has ended.

## 4. Proofs

The theorems hold for every value of the constants that satisfies the named
assumptions of the module (the constants have their types), and under
`SoleRestarter` where it is stated.

**TaskExecution.**

* `ApplyConsistent`: an allowed action on a snapshot that agrees with its status
  gives one that does.
* `TypesHold` and `Typing`: type correctness.
* `Invariance`: `SoleRestarter => (Spec => []IInv)`. From it `OneRunnerHolds`,
  `RunningHasRunnerHolds` and `SnapshotsHold`.

`SoleRestarter` says that at most one thread calls `restart()`. It cannot be
dropped: two concurrent `restart()` calls do give a task two runners.

`OneRunnerPerTask` is not inductive: it says nothing of the calls that are about
to submit. `IInv` adds what each thread knows. `ClientInv` and `OneLauncher`: two
calls never launch the same task, since a task is started once, before it has a
runtime, and restarted by one thread. `RuntimeInv`: a live run is the runtime of
its task or is about to be registered by the call that submitted it
(`LiveKnown`); a call that is past its wait finds no live run of its task
(`LaunchAlone`); so `Submit` adds the only one, and `Register` replaces a run
that is done. `RunInv`: a runner that has left the tick loop has written a status
that is not RUNNING by the time it publishes, which is what makes
`RunningHasRunner` survive the end of a run, and one that announces
TASK_STARTED still holds the snapshot the registry has. `LocalsConsistent`: the
copies the threads hold are as consistent as the registry, so a stale copy
written back still is.

The proofs follow that split: `TaskExecution_proofs` has the types and, for each
action, its effect on the fields of the thread that takes it; it states once what
any runner step may do (`RunnerStepPost`), derives that it keeps each part of
`IInv`, then treats the steps of the calls one by one.

**TaskLifecycle.** `Refinement`: `TaskExecution` implements `TaskLifecycle`, step by
step, the registry being the abstract state. It needs `NoControl` beside
`SoleRestarter`: no application thread calls `pause()` or `stop()`. That is a
hypothesis about the application, not about the code, and it cannot be dropped:
those two calls read a snapshot, and write it back over whatever a runner has
saved since (`management.py:83`, `94`), which is no step of the lifecycle, and
`v_save` shows the same of a runner against `stop()`. Without them every task has
one writer at a time. `WriterInv` says so: the snapshot a thread is about to write
over is the one the registry has (`RunnerWrites`, `CallWrites`), a task is running
until its runner ends it, and the strategy state in a context is not older than
the stored one. Then each save is `Apply` of an allowed action to the task as it
is, or a newer strategy state of a running task.

When threads do pause, snapshots are written over newer ones, and less is left:
`ActiveWhileDriven` needs `NoStop` only, that no application thread calls `stop()`
(`restart()` and `shutdown()` set the stop flag too, but write no task). `ActiveInv`
says that a task is running or paused for as long as a run of it has not come to its
last transition, whatever was written over what: a pause writes PAUSED, a context save
writes a copy that was read while the run went on, and nobody else writes a task
that has a run. Two theorems rest on it. `FinishObservedHolds`: a run that ended without
a fault and left its task terminal has told its observers, because a run that returns
by the pause, which tells nobody, returns a task that is not terminal.
`SoloStrategyHolds`: no two runs drive one strategy object. It needs `SoleLauncher` too:
one thread at most launches. Whether a strategy object is free is asked before the
submission, and the answer is not held (`management.py:151`), so two launches may both
find a strategy object free. `StrategyInv` carries the answer from the check to the
submission: a call at `submit` finds no run before its end with the same strategy
object, queued ones included, since their tasks are active; and a run gets there from
`submit` only. Both hypotheses are where the code stops keeping the property: with a
`stop()`, or a second launching thread, it fails (section 3).

**PendingRequests.** `Invariance`, and from it `TypesHold`, `RemovedOnceHolds`,
`AccountedHolds`, `SettledHolds`, `OneOutcomeHolds`. `RemovedOnce` is nearly
inductive: a thread takes out only what waits, so what it holds nobody else has.
`Settled` and `OneOutcome` need more: `WorkOK` and `OwnSettled` (what a strategy's
runner has published and not reported is what waits of it), `HandsHeld` and
`BacktestAlone` (the monitor touches trading tasks only, so a request of a
backtest leaves the store through its own runner, which by then has reported it
or never will), `FailingLast` and `ThenResumes` (a runner that diagnoses is not in
the middle of a result). The steps are grouped by what they do to the store: those
that leave it alone (`QuietStep`) are treated by one lemma, those that take
requests out (`TakeOutStep`) by another, publication, report and the monitor's
steps by their own.

`OutcomeRefinement`: `PendingRequests` implements `RequestOutcome`, whatever raises.
The refinement mapping is a listener's view: a request waits while it is in the
store, while a thread holds the diagnostic it has taken out (`Hands`), and for ever
when that diagnostic was dropped (`lost`); `Believed` is the union. Taking a request
out of the store is then a stutter, publishing its diagnostic the abstract
`Diagnose`. What makes the mapping work is `DroppedForGood`: a lost request is never
stored, held or diagnosed again, so the abstract request that waits for ever does
not come back. One lemma per action says which abstract step it is (`StepSeen` puts
them together).

**ResultRecording.** `Invariance`, and from it `TypesHold`, `StoresFollowHolds`,
`BacklogCountedHolds`, `MetricsSpacedHolds`, `SupportHolds`. `StoresFollow` is
inductive once the types are known: appending a record to memory and to every
buffer keeps it; a batch that is taken shows the last record of each key, which
`StoresFollow` says is memory's; a batch that is refused changes the store under
keys that are still buffered only. `BacklogCounted` needs `BacklogInv`: while a
flush is at store i the buffers before i are empty, so the count that is reset at
its end counts nothing that waits. `MetricsSpaced` needs `MetricInv`: the metrics
of a run that goes on are not later than the remembered time or, while one is
being recorded, an interval away from the tick it is for; a run whose metric
raised between the save and `mark_emitted` is not running any more, so it never
writes the second one. `CallInv` says what a call knows at each of its steps.

`FinishedStoredHolds` and `FillsCountedHolds` come from `FinishInvariance`, which uses
`Invariance`. The first says that a finished task is in every store with the totals
of its trades; what could break it are later saves of other tasks, a buffer that
still has a record of the task, or totals that change after they were saved.
`OwnerInv` excludes the first: a record under a key of task t (`OfTask`) is saved by
a call of t's runner only, and t stays in its phase until that call returns or
raises. `EndingInv` follows `on_task_finished`: what it set out to save (`FinalRecs`) is
in memory or still to be saved, and its last flush has left no buffer filled.
`NothingBuffered` keeps that for the rest of the run. `KeptKnown` ties a fill whose
handler returned to a summary in the ledger or, after a clean-up, in memory, from
which every later finish computes its totals.

**OrderExecution.** `Invariance`, and from it `TypesHold`,
`EveryRequestAnsweredHolds`, `NamesAgreeHolds` and the action property
`ClosesWhatWasAskedHolds`, for any batches, prices and number of trades.
`NamesAgreeHolds` rests on `RulesAgree`, that of an `Unambiguous` request the label,
trimmed as a broker's trade is read, is the name `FromEvent` gives, for any texts and
any `Trim` that trims a text once and for all (`ModelsAssumption`).
`EveryRequestAnswered` speaks of the end of a batch; `Answered` says it of the
requests before the one being executed, `Ordered` that no response is to a later
one, and `Place` that there is always one to execute. `Faithful` ties each
response to its request and its name. `Found` is what `ClosesWhatWasAsked` needs
of the trades listed before the broker is asked: whatever the broker does
meanwhile, they stay of the instrument, side and name they were found by (`Kept`).
One lemma per action says what it adds to the responses (`AnswerKeeps`,
`HoldKeeps`, `CloseKeeps`) and to the account (`PlacedKept`, `TakenKept`).

`BookFollowsBrokerHolds` and `BalanceFollowsBrokerHolds` come from `FollowInvariance`.
Both compare the tracker with the broker between batches; within one the broker is
ahead by the responses not accounted yet. `Followed` says what will be: there is a
path of trackers, one `After` the other by each response from the next to account
(`at`) to the last, and the tracker at its end follows the broker. A new response is
one more step at the end of the path, an accounted one drops the first, so no
induction over the responses is needed. At its end an open or a close has changed
the broker's account and the tracker at once: by one trade with an agreed name,
units and entry (`AgreesAt`), or else the names are in `stray`. The assumption
`NoneAssumption` of `BrokerModels` (`None` is no amount and no order) is the code's
`None`.

**CsvSource.** `TypesHold`, `OnePerBucketHolds` and `GivesFirstsHolds`, for any
files, ranges, filters and intervals. `OnePerBucket` says nothing of the rows still
to read, so it is not inductive. `IInv` adds, for a stream that is sampled and whose
rows that parse are in the order of their times (`Sampling`, which no step
changes: `SamplingKept`): every tick given of the instrument whose turn it is was
read from a row already passed, in a bucket not later than the remembered one
(`Read`); the remembered bucket is that of such a tick (`Remembered`); and no tick
is of an instrument whose turn is still to come (`Turns`). The next row is then not
earlier than any given, its bucket not smaller (`BucketMonotone`), and given only
when it is another one: so it is a later one.

`GivesFirsts` needs no order of times. Its invariant `GInv` adds that the remembered
bucket is that of the last row asked for of the instrument (`BucketOfLast`), given
or left out, or that there was none. A row that is asked for is then the first of
its run exactly when its bucket is another one (`FirstIsFresh`); it comes after
every row that was read (`PlaceToRead`), so it changes neither which of those are
first (`FirstsGrow`) nor their places in what was given (`GivesAnother`). Opening
and closing files and the next instrument's turn pass no row by: what lies between
the two places is not to be read (`OpenStep`, `CloseStep`, `EndStep`). At the end of
a stream that is done nothing is left to read, so that the whole of the feed was
given.

**WaitProgress.** `Invariance`, and from it `TypesHold`, `EndToldOnceHolds`,
`AnswersTrulyHolds` and the action property `BarMovesForwardHolds`, for any
periods, clocks, deadlines and numbers of waits. `Places` says what the waiting
thread has done where it is, `RunFirst` that it reads a task only after its run
has returned, `BarCounts` that the bar shows what the reporter counts, which is
never past the period; a snapshot that is older than the one shown is not shown
(`ShownForward`).

**ResultStores.** `RowReadBack`: for every kind of record, every record of it and every
store, the record a reader makes of its row is the record, field by field, but for
what the store cannot hold (`Same`). `Invariance`, and from it `TypesHold`,
`ReadersFindHolds` and the action property `TwiceOnlyAfterStopHolds`, for any
records, batches and numbers of saves and stores, on the assumption that the
records have the fields of their kind with values of the fields' types (`IsValue`),
and that events and metrics do not change under their id. `ReadersFind` speaks of
the time between calls. `FoundInv` says it at every step, of unreadable files too,
since what has been written stays; `DoneInv` says that the kinds a call of the CSV
store is through with show the last record of each id in the batch, so that at its
return all do; `HistoryInv` that the records of the batch are among those a reader
may find until then. `KnownInv` is what the CSV store's memory of keys is worth: the
keys are in the file, and they are all of its keys unless this store has stopped in
it. With it a row that is appended is of a new key, which gives
`TwiceOnlyAfterStop`, and a row that is left out has its key in the file, which gives
`DoneInv`. An append, whole or stopped, adds to the file the first of the rows to
append (`WrittenGrows`); everything else is said of such a step (`Grows`) once.

Only model-checked: the refinement of `OrderedFeed` (`Fed`), whose feed is computed
from the files by recursion over their rows, so that the proof is an induction over
data (`GivesFirsts` is what is proved of it); and everything temporal: `StopEndsRun`, `ShutdownDrains`, `RestartReturns`,
`BatchEnds`, `Expires`, `WaitEnds`. Only proved: `Support` of `ResultRecording`, the
types of `CsvSource`, and `OneOutcome` of `PendingRequests` (an instance with a
backtest beside a trading task is large). Liveness under fairness and `ENABLED` are out of the prover's reach; so
is induction over data, and no module that is proved about declares a RECURSIVE
operator.

## 5. Plan

Done: 1. `ExecutableTask`, `TaskLifecycle`, `TaskExecution`; 2. `RequestOutcome`,
`PendingRequests`; 3. `ResultRecording`; 4. `OrderExecution`; 5. `CsvSource`,
`OrderedFeed`; 6. `WaitProgress`; 7. `ResultStores`; each with its runs and its
theorems.

To prove: what else survives of the lifecycle when `pause()` is called, and what does
when `stop()` is.

## 6. Not modelled

* Event routing and history (`events/routing.py`, `history.py`): a subscription
  list and an event list, each behind its lock. Delivery calls the handlers of one
  tuple taken under the lock, in order, until one raises; what the other modules
  need of it is a step that may raise, and they have it.
* `results/mapping.py` and the metadata readers: one value at a time, without state
  or order of steps.
* Values of `models/*` beyond money, orders, trades and positions; decimal
  arithmetic, which is a library's; the ports, which an application implements.
* Profiling, logging, clocks, and the formatting of failures: output that no other
  component reads.
* A second `shutdown` of a manager.
