# A TLA+ verification of Chumoli (uzpipe)

Chumoli runs data pipelines: a pipeline reads a source through a connector and
loads it into a destination with dlt. One API process (FastAPI) holds
everything that coordinates the runs; a command line tool runs pipelines from a
process of its own; SQLite files keep configurations and history. This
directory holds TLA+ models of the parts where runs, requests and failures
meet, the TLC configurations that check them, and TLAPS proofs about them.

Source paths below are relative to `src/src/chumoli/`.

## Inventory

| Component | State | Operations | What is hard about it | What makes it correct |
|---|---|---|---|---|
| Run queue, `core/run_queue.py` | a deque of names, the set of queued names, the set of running names | `enqueue`, `_pump`, `_worker` | any thread may pump; a worker pumps when it ends; `Thread.start` can raise | the limit, no duplicate, no lost wakeup, every slot comes back, first in first out |
| Runs, `core/pipeline_runner.py`, handlers of `api/app.py`, `_default_executor`, `cli.py` | the guard `_RUNNING_PIPELINES`, rows of the history | `run_pipeline_by_name`, `record_run_result`, `record_run_failure` from five entry points | five sets of exception handlers around one function; config deleted under way | one run per pipeline, the guard is freed, the history says what happened |
| Background jobs, `api/app.py`, `static/index.html` | `_RUN_JOBS`, written field by field without a lock; the tab's timers | `run_pipeline_async`, `_execute_run_job`, sweep, poll | lost answers, restarts, a sweep, polls between two assignments | a tab is told the truth, jobs end and only move forward |
| Scheduler, `core/scheduler.py`, `api/app.py` | APScheduler jobs, `_started`, a lock | start, stop, reload; save and delete of pipelines | the store changes outside the lock; `reload_jobs` is not atomic | the jobs are those of the stored schedules |
| Execution of a load, `core/pipeline_runner.py` | dlt's working directory, an environment variable, tracemalloc | `_execute`, `_clear_pending_packages` | one retry after a wipe; process-wide state of other loads | one retry at most, stale packages block nothing |
| Recovery and preview, `core/pipeline_runner.py` | none of its own | `drop_pending_packages`, `sync_from_destination`, `drop_resource`, `get_preview_rows` | look at the guard, then act | never during a load |
| Filesystem export, `core/paths.py` | staging and visible folder | `publish_filesystem_export` | not atomic, and a file is emptied before it is copied again; removes what it does not know | the visible folder is the staging folder's data; only replacing removes |
| Control store, `store/control_store.py`, `security/crypto.py` | pipelines, secrets, saved destinations, settings, master key | save, load, delete, settings | read-modify-write of secrets; key creation by several at once | a blank field keeps its secret; secrets stay readable |
| Run history store, `store/run_store.py` | rows of runs | record, list, stats | counts in separate statements | the figures are not of more runs than there are |
| API key, `security/api_key.py` | `api.key`, the key a server remembers | create, read | two servers start at once; a crash while writing | a running server checks the key in the file |
| Connectors and retry, `connectors/`, `core/retry_policy.py`, `core/cursor_utils.py`, `core/sql_cursor_check.py` | position in a paged source; dlt's cursors | page loops, one query per table | pages move, totals are missing, answers fail, days of two time zones | every row asked for; bounded attempts |
| Counts and checks, `core/row_counts.py`, `core/identifiers.py`, `core/quality.py` | none | counts and SQL checks after a load | counts that stop halfway, failed queries, tables of earlier runs | a green verdict is true |
| Notification, `core/notify.py` | none | one message after a run that returned | sent before the history is written, every failure swallowed; a run that raises sends none | what a message says is true |
| Config, manifests, destinations, errors, dashboard forms, logging, folder picker, demo data | little or none | validation, conversion, I/O | – | – |

How they interact: the dashboard posts to the API; `POST /run/async` puts a
background task into the server's thread pool and the tab polls its job; the
scheduler's jobs call `RunQueue.enqueue`, and the queue's workers, the
background tasks, `POST /run`, the demos and the CLI all call
`run_pipeline_by_name`, which enters the name into the guard, executes, leaves
the guard, and returns or raises to the caller, who writes the history. Saving
and deleting pipelines change the control store and rebuild the scheduler's
jobs. `PROJECT.json` lists the hazards line by line.

## Modules

| Module | Models | State in the code |
|---|---|---|
| `WorkerPool` | what the queue promises: a FIFO with `Max` slots, no threads | `_q`, `_running_names` |
| `RunQueue` | the queue with its threads, one action per locked block, thread start and end of the executor | `q`, `queuedNames`, `runningNames` are the fields; `pc`, `item` are the threads' positions and local variables; `leaked` is auxiliary |
| `PipelineRuns` | all entry points around `run_pipeline_by_name` | `saved` the ControlStore, `running` the guard, `waiting`/`active` the queue as a `WorkerPool`, `row` the RunStore; `leaked`, the slots whose worker could not be started, is auxiliary; `pc`, `kind`, `name`, `out` the runs |
| `RunJobs` | the background job from the button to the toast | `table`, `status`, `detail`, `finished` are `_RUN_JOBS`; `holder` the guard of the pipeline; `ui`, `rid`, `told` the tab |
| `Scheduler` | start, stop, reload and the handlers that change schedules | `store`, `jobs`, `started`, `lock` as in the code; `snapshot` what `list_all` returned; `missed` is auxiliary |
| `FilesystemExport` | publishing a load into the user's folder, one table at a time | `staging`, `visible` the two folders as sets of files; `torn` the visible files that are cut short; `todo` what is left of the listing, `published` the list of that name |
| `Execute` | `_execute` step by step, the recovery operations, restarts | `pc`, `replace`, `written` a load's position and locals; `pending` dlt's working directory; `plain` the environment variable; `recovery` a request between its check and its act; `attempts` numbers the attempts to load; `whole`, `stuck`, `mixed`, `disturbed` are auxiliary |
| `SqlSource` | what the SQL connectors read: labels, tables, cursors, initial values | none: operators over a config, a record with the fields of `source_params` |
| `Extract` | how a run reads its source, page by page, day by day, table by table, with retries | `part`, `page`, `tries` the loops' variables; `mark` dlt's cursors; `held` the source, in the order it lists its rows; `seen` what dlt was given; `due`, `odd` are auxiliary |
| `Verdict` | what becomes of the rows and what the user is told: load, counts, checks, message, history, statistics | `copies`, `known` the destination; `written` the keys of `row_counts`; `failed` the failed outcomes of the report; `success`, `history`, `stats` as in the code; `message` what the message that came through says; `recorded`, `loaded`, `uncounted` are auxiliary |
| `SecretStore` | pipelines with secrets, saved destinations, the bot token, the two key files | `file` the key files; `pipelines`, `saved`, `setting` the tables of `chumoli_control.db`; `serving` is `_API_KEY`; `pc`, `todo`, `key`, `secret`, `connection` an operation's place and locals; `silent`, `fresh`, `raced`, `lost` are auxiliary |
| `SequenceLemmas` | lemmas on `Append`, `Tail`, ranges and injectivity | – |
| `*_proofs` | the theorems about a module | – |
| `MC*` | constants for TLC | – |

Composition: `RunQueue` refines `WorkerPool` (property `ImplementsPool`, also
a theorem), and `PipelineRuns` uses `WorkerPool`'s actions in the queue's
place, so that what is shown there rests on the refinement. `PipelineRuns` has
every run of the process but treats a background run's job as an answer;
`RunJobs` has that job in full and the rest of the runs as one other holder of
the guard. `Scheduler` says which jobs exist; `PipelineRuns!ScheduleFires` lets
any name fire at any time, which includes every set of jobs `Scheduler` can
have, stale ones too. `Execute` extends `FilesystemExport`, whose actions are
its publishing step, and is the inside of `PipelineRuns!Work`: it takes the
guard from there (a pipeline is in the guard while its load is not `"idle"`),
and what becomes of the outcome is left to `PipelineRuns`.

`Verdict` extends `Extract`, which extends `SqlSource`: one run at a time of
one pipeline, from the first request to the message, with the data that
`Execute` leaves out. Where `Execute` has the attempts, packages and files of a
load, `Verdict` has one step that brings all rows, some tables of them, or
raises; where `PipelineRuns` has rows of the history by entry point, `Verdict`
has their verdicts in order. That a second run of the same pipeline stays out
while one is under way is `PipelineRuns!GuardIsExact`. `SecretStore` stands
beside them: `Use` is the store access at the top of `run_pipeline_by_name`,
and `Notify` the one in `maybe_notify_run`, which in `Verdict!Notify` may find
no token: the message is then `"lost"`, as it is without a chat or when
Telegram does not answer.

A step is what runs between two points where another thread, process or
request can see or change what is shared: a locked block, a store access, an
assignment to a job's field. Definitions named `<definition>_<fault>` are
faulty variants used to show that each property can fail (`mutants` in
`PROJECT.json`); no specification uses them.

## Runs

`Verdict` and `SecretStore` bound the number of runs and of operations, so the
models stop at the bound and do not check deadlock; the other passing runs do.

| Run | Instance | Shows |
|---|---|---|
| `RunQueue` | 4 pipelines, 2 callers, 3 workers, 2 slots, 1 failed thread start | `BoundedRunning`, `OncePerPipeline`, `SlotHasOneOwner`, `NoLostWakeup`; refinement of the pool; every accepted name runs, every started slot comes back |
| `PipelineRuns` | 2 pipelines (one a demo), 2 runs at a time, 1 slot | `GuardIsExact`, `SlotsAreWorkers`, `HistoryIsHonest`; the guard is always freed, and so is a slot whose worker could be started |
| `RunJobs` | 1 tab, 2 jobs | `ToldTheTruth`, `JobsMoveForward`; every job ends |
| `Scheduler` | 2 pipelines (one a demo), 2 timed schedules, 3 handlers | `JobsFollowStore`, `SnapshotsAreFollowed`; saved schedules take effect |
| `Execute` | 2 pipelines (CSV to a folder, Parquet to S3), 1 table, 1 file of a stranger, 4 attempts, 1 recovery request | `ExportIsWhole`, `ExportsAreKept`, `StaleNeverBlocks`, `FormatIsOwn`, `LoadsMoveOn` |
| `Verdict` | 10 configs, 4 rows, pages of 2, 2 runs, 1 change of the source | `NothingLost`, `GreenMeansLoaded`, `GreenMeansClean`, `StatsAddUp`, `MessageIsTrue`; every run ends |
| `SecretStore` | 2 processes, 1 pipeline, 1 saved destination, 11 requests, 3 keys, 4 operations | `KeysAgree`, `NothingGarbled`, `SettledStays`, `BlankKeeps` |
| `GlobalLimit` | as `PipelineRuns` | background runs exceed the limit of concurrent runs |
| `FailedMeansLoadFailed` | as `PipelineRuns` | a refused demo counts as a failed load |
| `DoneMeansResult` | as `RunJobs` | a job is seen done before its result, and reported as failed |
| `AlwaysReloaded` | as `Scheduler` | saves that leave the old job running |
| `RecoveryNeverDuringLoad` | as `Execute` | recovery that passed its check acts on a load that began since |

The last five are violations: each states what a comment, a document or a test
of the repository says, and TLC finds the code's counterexample. `findings` in
`PROJECT.json` quotes the statements. `FailedMeansLoadFailed` has a second
counterexample, a background run whose history cannot be opened: TLC finds it
once the refused demo is taken out of the model.

### What the properties leave out, and why

Several properties hold only with an exception, each of them a thing the code
does, kept in an auxiliary variable; without it TLC finds a counterexample.

- `NothingLost` asks nothing of a run that is `odd`: its list shrank while it
  was read, so that later rows moved to a page already read; an answer had
  another shape, which the connectors take for an empty page; Didox named no
  total, which counts as one page; or the REST source has more pages than the
  user allowed. Nor does it ask for rows that dlt's cursor has passed without
  their arriving: dlt advances the cursor when it extracts, and a load that
  fails afterwards, or the one retry of `_execute`, does not take it back.
  And it asks nothing of a table that borrows the setting found under its bare
  name (`Borrows`; `per_table.get(table)`, connector.py:206), which may have
  been made for the table of another schema and start too late for this one:
  the proof of `NothingLost` did not go through for such a table.
  `GreenMeansLoaded` has the same exceptions.
- `GreenMeansClean` leaves out files, which are not checked, a config that
  checks one table of its own (`table`), and runs one of whose tables was
  `uncounted`: counting stops at the first query that fails, and only counted
  tables are checked. `row_count` looks at the whole table, so rows of an
  earlier run make up for a load that brought none; and a first load that
  brings nothing has no table to count or check, and is green.
- `SlotsAreWorkers` and `SlotIsFreed` know slots without a worker (`leaked`):
  `Thread.start` runs after the name has taken its slot (run_queue.py:137), and
  when it raises nobody gives the slot back until the process is restarted.
  `SlotHasOneOwner`, `NoLostWakeup` and `SlotsComeBack` of `RunQueue` have the
  same exception. `SlotsAreWorkers` still bounds workers and lost slots
  together, and `SlotIsFreed` says that every other slot comes back.
- `ExportsAreKept` lets a publishing that is cut off spoil a file: in replace
  mode the table's folder is removed first, and in append mode every file of
  the staging folder is copied over the one that is there, which `shutil.copy2`
  empties first (paths.py:185-190). The property says that it is one whole file
  at most, that nothing is removed, and that the staging folder still has the
  file; `ExportIsWhole` that the next publishing that ends mends it.
- `MessageIsTrue` has the exceptions of `NothingLost` and `GreenMeansClean`. It
  lets the history be worse than the message: a background run opens the
  history after the message is sent, and when that fails the run is recorded as
  one that raised (`HistoryFails`). It does not claim that a message comes
  through, which nothing in the code ensures: without a chat or a token, or
  when Telegram does not answer, the failure is only logged. Nor does it speak
  of a run that raised, which leaves `run_pipeline_by_name` before the message
  although `docs/architecture/quality-and-reliability.md`, line 123, promises
  one on failure. No order of events changes that, so no run is spent on it.
  Its handlers then record it, if the history can be written.
- `KeysAgree` and `NothingGarbled` leave out a key file that two operations
  made at once (`raced`: both go on with their own key, and the one whose key
  is not in the file may go on writing with it after the race, although by
  `SettledStays` the file changes no more) or that the user lost (`lost`). An
  operation that dies between creating `master.key` and writing it leaves an
  empty file, which is no key and is never replaced (`Read` refuses it); an
  empty `api.key` is.
- `BlankKeeps` leaves out a pipeline that somebody saved or deleted since the
  edit loaded it (not `fresh`: the later save wins) and a name sent with
  spaces around it (`padded`: it is loaded as sent and stored without them, so
  that an optional secret left blank is lost). A delete during an edit is
  undone by the save.

### Bounds, and why they are enough

- Four names for two slots: two hold slots while two wait, so the order of the
  waiting ones matters; three workers: two that hold a slot and one that has
  given its slot back and still pumps. One failed start with two slots leaks
  one and leaves one; with as many failures as slots the queue stops for good,
  and `QueuedNamesRun` would not hold – nor does it in the code.
- Two runs at a time meet in every pair of entry points, on the same pipeline
  and on different ones; the guard and the history relate one run to one other
  holder. A runner is used again after each run, so histories are unbounded.
- One tab that gives up or loses an answer clicks again while its first job is
  under way: two jobs cover a job that is swept while another begins. The
  proofs cover any number.
- Three handlers: one rebuilding, one that has saved and waits for the lock,
  one that stops or starts in between.
- `Execute` exports one table in up to four attempts (`MaxLoads`): a load that
  exports a file whole, one that is cut off while it copies the file again, one
  that mends it, and a retry or a load in the other mode among them. Every step
  of a publishing is about one table but the last one, the sweep, which meets
  the table when it is in the staging folder, when it is gone from there, and
  beside a file of a stranger, which stands for everything in the folder that
  no load has written; for more tables the states are too many for TLC, and
  the theorems cover any number. Only pipelines that export to a folder count
  attempts. The environment variable needs two pipelines with different
  formats.
- In `PipelineRuns` thread starts may fail at any time; with one slot the first
  failure stops the queue until the next restart, and the other entry points
  go on.
- Ten configs: each connector once, SQL five times: whole tables replaced,
  a setting of its own beside the common cursor, the common cursor alone with
  a year as its initial value, a cursor of the wrong type, a cursor column
  that does not exist. Between them they write in every mode, use every check
  and every wish for messages. Four rows on pages of two give a full last
  page, a short one and an empty one; two rows lie between midnight in
  Tashkent and in UTC. One change at any point is enough to shift a page; two
  runs, for what a first one leaves in the tables, the cursors and the
  history. Of the checks' queries one fails at a time, which covers each
  outcome on its own. The statistics are read while a run waits to be
  recorded, four numbers long, and no other run starts meanwhile.
- Two processes on one pipeline, with four operations between them: two that
  race to make a key, one that stores or saves in between, one that reads what
  became of it. Three keys: two of a race and one after a loss. The processes
  are interchangeable and declared symmetric.
- No state constraint is used. The counters that grow – `attempts`, `runs`,
  `changes`, `keys`, `ops` – are bounded by constants in the guards, and
  `copies` and `history` by `runs`.

### Fairness, and why the code justifies it

Weak fairness on the steps of threads that can run: the operating system
schedules them, and the locks involved are only held for a few statements (the
scheduler's lock: for one rebuild). Weak fairness is enough for a thread that
waits for the scheduler's lock, because the liveness property is met by the
rebuilds of the others. The end of a load or of the executor is an assumption
about pipelines: no code bounds it, and a load that hangs keeps its slot and
its guard entry. Nobody is assumed to click, poll, save, fire a job or restart.
In `Verdict` a run's steps are fair together (`WF_vars(Run)`): every request of
a connector has a timeout (15 or 30 seconds), attempts at a page are counted,
and a database or a destination is taken to answer; nothing is assumed of the
source, which changes as it likes, or of who starts runs. `SecretStore` states
safety alone. `Execute` states no fairness: `LoadsMoveOn` says that each step
of a load takes it nearer to its end, so that it ends if each of its steps
does.

## Proofs

TLAPS proves, for every value of the constants that satisfies the named
assumptions (`QueueAssumption`, `RunsAssumption`, `JobsAssumption`,
`SchedulerAssumption`, `ExportAssumption`, `ExecuteAssumption`,
`SqlSourceAssumption`, `ExtractAssumption`, `VerdictAssumption`,
`StoreAssumption`: sets that do not overlap, a positive number of slots and
rows per page, at least one page for a REST source, initial values that are
points in time, a table that is a pair of a schema and a name, CSV only for
files, configs and requests that the validators let through):

- `RunQueue_proofs`: `TypeCorrect`, `ConcurrencyIsBounded`, `NoDuplicates`,
  `SlotsAreOwned`, `WakeupsAreKept`, `Refinement`, `SlotsGoOn`, `NamesGoOn`.
  The inductive invariant joins the module's invariants with finiteness of the
  sets that are counted and with `EnoughPumps`: there are at least as many
  threads at the top of `_pump` as names that wait, or as free slots.
  `NoLostWakeup` is not inductive – a pump that returns says nothing about the
  next free slot – but follows from `EnoughPumps`: a thread that leaves the
  loop does so because there is no slot or no name, each new name and each
  returned slot brings one pump, and a failed start costs one pump and one
  slot. The refinement maps a step of `PumpTake` to `Dispatch`, `Enqueue` to
  `Submit`, `Release` to `Finish`, everything else to a stutter. `SlotsGoOn`:
  the owner of a slot keeps it until it hands it to a thread that is nearer to
  giving it back, gives it back or cannot be started, whatever the other
  threads do. `NamesGoOn`: a name that waits keeps its place or moves up, and
  leaves the queue from its head only, into a slot.
- `PipelineRuns_proofs`: `TypeCorrect`, `GuardHolds`, `SlotsHold`,
  `HistoryHolds`, `QueueRefines`, `RunsReturn`. The invariant adds what the
  queue keeps (`QueueInv`), which steps each kind of run can be at (`KindInv`),
  and what a run has got and written at each step (`OutcomeInv`). Every slot is
  one worker's or is lost to a thread that could not be started, and every
  worker has a slot, so the bound on slots bounds both together.
  `QueueRefines` maps each step to one of `WorkerPool` or a stutter, but for a
  restart, which empties the queue; so what `RunQueue` is proved to implement
  is what runs use. `RunsReturn` is the part of `GuardIsFreed` and
  `SlotIsFreed` that needs no fairness: a number of steps that are left
  (`Left`) falls with every step of a run and with nothing else, and a worker
  that gives its slot back has one.
- `RunJobs_proofs`: `TypeCorrect`, `TabsAreTruthful`, `JobsNeverGoBack`,
  `TasksGoOn`. The invariant ties a task's step to the fields of its job
  (`JobInv`) and a tab's id to a job that is in the table, or old, or killed
  (`RidInv`). `TasksGoOn`: a job in the table that has not finished has a task
  with the `finally` block before it (`NoneForgotten`), and a task only comes
  nearer to its end until a restart cuts it off.
- `Scheduler_proofs`: `TypeCorrect`, `JobsAreCurrent`, `SnapshotsAreCurrent`,
  `RebuildsGoOn`. `JobsFollowStore` is inductive together with
  `SnapshotsAreFollowed`: a snapshot may be outdated only while another handler
  is bound to read again, and by `RebuildsGoOn` a handler goes on until it is
  done.
- `Execute_proofs`: `TypeCorrect`, `NoStaleBlock`, `FormatsAreOwn`,
  `ExportsAreWhole`, `ExportsStay`, `LoadsGoOn`. The bound on attempts needs
  `Room`, so that a load which has begun can always be retried. `FormatIsOwn`
  needs `EnvInv`: from setting the variable to writing, it is the load's own
  unless another format came in. `ExportIsWhole` speaks of the end of a
  publishing and rests on `PublishAt`, which speaks of its middle: each table
  of the staging folder is still listed or published, and what is published
  agrees with the staging folder, file by file and none of them cut short.
  `ExportsStay` goes through the steps of a publishing: only the removal in
  replace mode and the sweep take files away, and a copy that is cut off leaves
  the files before it whole and at most one short.
- `Verdict_proofs`: `TypeCorrect`, `NoRowLost`, `GreenIsLoaded`,
  `GreenIsClean`, `StatisticsAddUp`, `MessagesAreTrue`, `RunsGoOn`, for any
  tables, rows, configs, page size and lists of any length. `NothingLost`
  speaks of the end of a load; its inductive invariant `Kept` follows the rows
  from the start of the run. Those that it is to load are listed (`DueListed`),
  or taken off by what makes the run odd. While it reads, those of the parts
  behind it are read (`Behind`), and those of the present part are read or have
  a place in the list after the pages it has asked for (`Coming`). A page takes
  the rows of its places (`OnPage`); a row that appears moves the others to
  later places only (`ListGrows`), so none slips behind; and no connector stops
  while places are left (`EndOfPart`, the arithmetic of each way to tell the
  last page). That the parts together hold all that was asked for
  (`PartsCover`) is, for Payme, that its days in UTC cover those of Tashkent
  (`DaysCover`), and for a database that the query, the cursor and the user's
  setting agree (`QueryReads`, `ReadFrom`). Between reading and load a row is
  among those read or at the destination already (`ReadAll`), which in replace
  mode needs that there is no cursor (`NoMarks`). `GreenMeansLoaded` follows
  with `GoodSucceeded`: only a load that succeeded is recorded as good.
  `RunsGoOn` is the part of `RunsEnd` that needs no fairness: every step takes
  a run to a later stage, its next part, the next page of a list that goes on
  after the page before, or its next attempt. `GreenMeansClean` needs
  `Grounds`: from the checks to the record, a load that was counted has its
  tables among the written ones, and no failed check means that each of them is
  clean. `MessageIsTrue` rests on both and on `Vouched`, which carries what
  they say of the moment at which the message was sent through the record and
  the idle time after it: only a run changes the destination, and a row that
  appears later was not asked for. `StatsAddUp` needs `Counting`, which says
  after each of the four queries what the numbers read so far owe to those
  still to come, and that the three verdicts partition the history, a fact
  about cardinalities of index sets (`TallyAdds`).
- `SecretStore_proofs`: `TypeCorrect`, `OneKeyForAll`, `ReadOrRefused`,
  `KeysSettle`, `BlankMeansKeep`, for any number of processes, pipelines,
  destinations and keys. The inductive invariant `IInv` says of a file that is
  sound (`KeyInv`): at most one operation is making it, the file is absent or
  empty until that one has written it, and every operation that has opened it
  holds the key in it; what is stored agrees with that key. `KeysAgree` alone
  is not inductive: an operation between opening and its statement carries a
  key in a variable. `BlankKeeps` follows from `Keeping`: an edit's `secret` is
  that of the pipeline while it is `fresh`.

Only model-checked: the liveness properties (`QueuedNamesRun`, `SlotsComeBack`,
`GuardIsFreed`, `SlotIsFreed`, `JobsEnd`, `SavesTakeEffect`, `RunsEnd`), which
need fairness, outside the prover's reach. What they rest on is proved:
`NamesGoOn` and `WakeupsAreKept` for `QueuedNamesRun`, `SlotsGoOn` for
`SlotsComeBack`, `RunsReturn` for `GuardIsFreed` and `SlotIsFreed`, `TasksGoOn`
for `JobsEnd`, `RebuildsGoOn` with `JobsAreCurrent` for `SavesTakeEffect`,
`RunsGoOn` for `RunsEnd`; what remains is that a step which stays possible is
taken. All other properties of the passing runs are theorems. The violation
runs show reachability and have no theorem.

## What is abstracted, and not modelled

- In `PipelineRuns` a load is one step with an outcome: a result with or
  without failed jobs, a KeyError, another exception. Its inside is `Execute`
  for the attempts and files, `Verdict` for the rows and the verdict.
- In `Execute` dlt is external: an attempt writes any files of its own, in
  replace mode after emptying tables, and succeeds, fails jobs or raises, with
  or without a package left behind. A file is a table and an attempt. A crash
  in the middle of a table leaves what an exception there leaves, followed by a
  restart: some of its files, and one, or of a table that was not there
  several, cut short. The effect of `sync_from_destination` and of the drop on
  dlt's own memory is not modelled.
- In `Extract` a service is the list it would give, in pages of the size that
  is asked for: a page is the rows at its places in the list. A cursor that has
  seen nothing yet stands before all hours (-1). A connector that names dates
  is taken to get the rows of those dates alone, but for Payme, whose days are
  computed in two time zones. Size and hours are small numbers. Payme's filter
  by state, Didox' direction and the signing of requests are left out. The REST
  connector's loop is dlt's: what the connector decides is one page or
  `max_pages`.
- In `SqlSource` a name holds no dot. Two picked tables with the same bare name
  are not among the configs: the second would take over the first's setting
  (`Borrows`, where `docs/data-filtering.md` speaks of each table's own) and
  share its table at the destination.
- In `Verdict` a table's own write mode is left out: `pipeline.run` is given
  the pipeline's, which overrides it. A duplicate is a row loaded twice; a row
  has one field that may be empty; freshness is an hour.
- In `SecretStore` a connector has one secret field and a pipeline at most two
  secrets, which is what its rules look at; a key is a number and a sealed
  token a pair. A store access is one SQL statement and atomic. The key given
  by `CHUMOLI_API_KEY` makes no file.
- A toast says success for a load that succeeded, with or without quality
  warnings: the wording is left out.
- `chumoli run` is a process with a guard of its own, always empty: that it can
  load a pipeline the API is loading is visible in `PipelineRuns` (a run of
  kind cli never enters `running`), and nothing in the code prevents it.
- dlt, APScheduler, SQLite, the services and the web server are external.

Not modelled:

- `get_preview_rows` looks at the guard and then reads through a second
  connection, which a database that wants one writer may refuse; it changes
  nothing.
- `extract_dlt_metrics`, `tracemalloc`, the steps shown while a run is under
  way: figures on which nothing depends.
- `synthetic_volume` makes its rows up and has no source to lose them from.
- Validators other than those of schedules, names and secret fields, error
  wording (`core/errors.py`, the texts of failed jobs in
  `core/pipeline_runner.py`), message texts, paths, demo data, logging, the
  folder picker and the forms and pages of the dashboard: pure conversions and
  I/O, with no state shared between two actors.

## The order of the work

`WorkerPool`, `RunQueue`, `PipelineRuns`, `RunJobs`, `Scheduler`,
`FilesystemExport`, `Execute`, then `SqlSource`, `Extract`, `Verdict` and
`SecretStore`, each with its run and its proofs. What would come next: one
abstract run that asks, loads, checks and records, of which `Work` of
`PipelineRuns`, `Execute` and `Verdict` are each shown to be a refinement.
`Verdict` takes the guard and the source as they are at the start of a run in
one step, `PipelineRuns` in several, so that neither is a direct simulation of
the other.
