# Runwatch in TLA+

Runwatch runs a notebook to its end without a user at the screen. One supervisor process
executes the cells, keeps everything it needs in SQLite, stops for a decision when a cell
fails, takes commands from other processes, watches and stops external resources, tells
the user what happened, and must leave a true record however it ends. These modules model
what makes that hard: several processes and tasks that meet only in the database, in a
lock file and in one event loop, any of which can be interrupted at any step.

Paths below are relative to `src/src/runwatch/` (code), `src/docs/` and `src/README.md`.
The references to code lines are those of `PROJECT.json` ("map"), which has one entry for
each definition that models code.

## 1. The system

### How the parts meet

```
 CLI process (resume, restart,           supervisor process: one asyncio loop
 resource stop, dashboard)               ┌───────────────────────────────────────┐
   │ reads run, inserts action           │ runner        cells, kernel, recovery │
   ▼                                     │ action loop   claims SQLite actions   │
 SQLite  runs, cells, actions, ◄────────►│ signal task   cancel()                │
         resources, events, outbox       │ monitors      resources, notifier     │
   ▲                                     │ share, links  tunnels, event stream   │
   │                                     └───────────────────────────────────────┘
   │ offline commands                       │ owns           │ reads and replaces
 CLI process without a supervisor        run lock,         source.ipynb (also edited
                                         cleanup fence      by the user), artifacts
```

* The **run lock** decides which process may work on a run directory; the **cleanup fence**
  keeps everyone out while the owner deletes the directory.
* **SQLite** is the only memory that a crash leaves. Each statement group commits alone, so
  a crash can fall between any two commits of one Python function.
* Commands to a live run are rows in the **action** table. The action loop polls them,
  checks them against the run they were bound to, and hands a recovery to the runner
  through an in-memory queue. Commands to a stopped run bring up a new process with a
  *bootstrap action*, or (`resource stop`) act without a runner.
* Every change that somebody may want to hear of is an **event** in a journal with sequence
  numbers. The event stream, the notification router and the page read the journal; the
  in-memory queues that wake them may lose entries.
* Within the supervisor, tasks interleave only at `await`. `EventBus.publish` never
  suspends: its lock is uncontended and its body synchronous.

### Inventory

| Component | State it keeps | Operations | What is hard | What makes it correct |
|---|---|---|---|---|
| Run lock and fence (`cli.py`) | two files with owner records | acquire, reclaim a stale record, release, begin/complete cleanup | check and unlink are separate; contenders crash | one owner; no live or remote owner's record is taken; a stale one can be |
| Run and cell store (`storage.py`, `models.py`) | rows of run, cells, actions | status updates, finish, begin epoch, attempts, claim, settle, recover | commits with no guard on the present status; crash between commits | terminal runs stay terminal, carry their event, are finalized only when settled |
| Supervisor (`supervisor.py`) | process state, recovered stops, tasks | start, action loop, wait, quiesce, close | start after any crash; recovered stop actions come before the runner | every action is answered; a recovered cancellation is finished |
| Runner, Jupyter (`_runner_core.py`, `notebook.py`) | kernel epoch, notebook, failure, control flags, command queue | run cells, pause on failure, resume, restart, cancel with escalation, wait for resources, finish | cancel at any await; edits of the source at any time; errors from any await | no success after cancel, no mixture of epochs, the record tells what ran |
| Runner, Marimo (`_marimo_*.py`) | runtime process and its name on disk, graph, batch, message stream | run a batch, settle it, pause, repair, restart, cancel, close | runtime dies or survives; replies and messages race | one runtime; success means executed as recorded |
| CLI control (`cli.py`) | none of its own | resume, restart, resource stop, signals | acts on what it read earlier | a command hits the failure it was meant for, once |
| Resources (`resource_manager.py`, `resources/`) | resource rows, monitors, three locks per resource | register, supersede, inspect, stop and confirm, finalize, retire | provider answers late, refuses, or does not confirm | status never goes back from terminal; each stop is answered |
| Checkpoints and write-back (`_runner_core.py`, `_fs.py`) | generations, worker thread, hash of the user's file | request, write, retry, replace the source | thread against loop; user edits; crash between replace and record | no user edit lost; the last generation is written |
| Notifications (`notifications.py`, `notification_*.py`) | routing cursor, outbox, attempts | route, claim, deliver, retry, rotate, purge, drain | crash between send and record; pruning of events | nothing lost, bounded repetition |
| Event bus and journal (`events.py`, `storage.py`) | sequence, subscribers, rows | publish, replay, prune | slow subscribers, cap on rows | ordered, and complete for the router |
| Web dashboard (`web.py`, `app.js`) | stream cursor, page | read views, follow events, stop a run | lost connections, stale answers | nothing skipped, the page catches up |
| Tunnel and links (`tunnel.py`, `dashboard_links.py`) | share generation, tunnels, proxies | open, check, replace, close, reconcile | replaced or closed while starting | active dashboards are linked, nothing is left behind |
| Sleep inhibition (`_sleep_inhibition.py`) | OS handle | acquire, release | none that a model shows | released at the end |
| Progress estimates (`_eta.py`, `_tqdm.py`) | averages | update | floating point | not in TLC's reach |
| Configuration, manifests, CLI output | none | parse, validate, format | none | unit tests serve better |

`PROJECT.json` lists the hazards of this code, each at the line where it bites, with the
properties that look for it.

## 2. The modules

| Module | Stands for | Lines it follows |
|---|---|---|
| `RunLock` | lock and fence, step by filesystem call | `cli.py` 88-340, 649-682 |
| `RunStore` | rows of run, cells and actions, and each commit on them as an operator | `storage.py`, `models.py` |
| `RunLifecycle` | supervisor, runner, action loop, CLI commands, signal, crash; uses `RunStore` | `supervisor.py`, `_runner_core.py`, `notebook.py`, `cli.py` |
| `Checkpoint` | rolling and forced checkpoints, worker threads, write-back of the user's notebook | `_runner_core.py` 861-1051, `_fs.py`, `supervisor.py`, `cli.py` |
| `Resources` | rows, monitors, locks and stops of several resources | `resource_manager.py`, `storage.py` 1527-2440 |
| `NotificationOutbox` | journal, routing, outbox, deliveries, maintenance, drain | `notifications.py`, `storage.py` 2600-4015 |
| `Notices` | the abstract specification that `NotificationOutbox` implements | |
| `MarimoGraph` | the runner and the session of the Marimo backend; uses `RunStore` | `_marimo_runner.py`, `_marimo_session.py`, `_marimo_document.py` |
| `Dashboard` | share and its tunnels, links, event stream and page | `tunnel.py`, `dashboard_links.py`, `events.py`, `web.py`, `app.js` |
| `MC...` | one TLC instance for each | |
| `...Proofs` | theorems | |

### RunLock

`file[path]` is the process named by the record at each of two paths, `pc` and `sub` the
place of each process in `RunDirectoryLock` and in `_remove_stale_record_or_raise`, `fd` the
record that it has open. Each call on the filesystem (link, open, compare, unlink, rmtree,
rmdir) is a step. `ReclaimOpen`, `ReclaimJudge` (which compares the path with the open record
as well) and `ReclaimUnlink` keep apart what the code does one after the other, because
another process may act between any two. `dir` is the run directory; the lock lies in it and goes with it. `misdirected` is a
history variable: some unlink removed a record other than the one that was judged. A
process acquires once, so a process names its inode and its token. A pid with its start
time and boot identity is taken to name one process for ever.

### RunStore

`RunStore` has no variables. A run is a record (`status`, `epoch`, `failedCell`,
`failedAttempt`, `event`, `eventEpoch`, `finalized`, `srcHash`; `asked` is history: the
process that last persisted a cancellation). `UpdateRunStatus`, `FinishRun`,
`BeginKernelEpoch`, `PauseFailedRun`, `BeginCellAttempt`, `ClaimAction`, `FinishAction`,
`RecoverIncomplete`, ... return the row after one commit, with the guards and the side
effects of the SQL (what is cleared, what is left). A cell source is a version number and a
notebook a function from cells to versions; the hash of a notebook is the notebook.

### RunLifecycle

`rn.pc` names the await at which the runner is suspended (`AwaitPCs`) or the point between
two commits or file reads of code without an await (`SyncPCs`). The other tasks of the
process move only while `Suspended` holds; edits, CLI processes and crashes at any time.

| Actions | Code |
|---|---|
| `LeaveGate` ... `KernelStarts` | the gate, the kernel epoch and its commits, kernel start |
| `NextCell` ... `CellPublished` | the loop over cells, one attempt and its record |
| `FailureSettles`, `PauseFailedCell` | drain, checkpoint and pause of a failure |
| `TakeCommand`, `ApplyRecovery`, `AcceptRecovery` | `_recovery_loop` |
| `LeaveEpoch` ... `Finalize` | output, blocking wait, last checkpoint, the four ends of a run |
| `RunnerError` | an exception from any await of the runner |
| `DispatchRecovery`, `DispatchStop` ... `StopTimesOut`, `StopCascades` | the action loop and the stop of a resource |
| `Signal`, `ServeSignal` (`Cancel`) | a signal, and the task that runs `cancel()` |
| `CliReads`, `CliInserts` | a live command: read the run, later insert the action |
| `RequestRecovery`, `ClaimBootstrap`, `Serve`, `Quiesce`, `Crash` | processes that come and go |
| `OfflineStop...` | `resource stop` on a stopped run, commit by commit |

Abstractions:

* One resource stands for all; it is exclusive, stoppable, blocking and stopped on cancel.
  Its monitor is the two actions that register it and observe its end. `Resources` has the
  rest.
* The escalation of a cancellation (interrupt, kill, abandon) is one bounded activity: while
  it lasts the execution must end, and `StopIsConfirmed` of the cancelled resource may come
  before that end, which the code can do as well and never less.
* The claim of an action and a settlement that follows it without an await are one step,
  except where an edit or a crash between them can be told apart. In the same way
  `BeginAttempt` is the two commits of `notebook.py` 541 and 548, and `RequestRecovery` those
  of `cli.py` 872-911: no action and no property reads what lies between them.
* Outputs, checkpoints and write-back are awaits that end or raise; `Checkpoint` opens the
  latter two.
* `RunLock` is what allows one process at a time (`proc`). `RunLock`'s own run shows when
  this may fail (finding 1).

`MaxActions`, `MaxEdits`, `MaxProcesses` and `MaxSignals` bound the environment; they stand
in guards of environment actions only.

### Checkpoint

Two tasks write `executed.partial.ipynb`: the checkpoint loop after an output, and the
runner at the end of a cell and of the run (`force`, with `writeback` also into the user's
notebook). Each serializes on the event loop under `_checkpoint_lock` and hands the bytes to
a worker thread, `th[task]`, whose `step` is the file operation it does next: write the
partial checkpoint; compare the notebook with the hash on record, verify the fingerprint,
replace the file, record the new hash. `rn` and `lp` are the places of the two tasks.

* A thread cannot be cancelled. A task that is cancelled at its await releases the lock and
  leaves the thread in `orphans`, where it goes on. `_finish_serve` releases the run lock
  before `asyncio.run` joins the threads, so an orphan may meet the next process (`Reopen`
  notes it in `overlap`).
* A content is a number from one clock, and so is the date of the notebook in memory; cells
  executed again may produce the content that an earlier process wrote. `edited` are the
  contents that the user saved, `unguarded` those of them that nothing could protect: saved
  before the first hash was on record, or between the last comparison and the replacement,
  a window the code names as unavoidable.
* A file operation takes effect whole (`atomic_write_bytes` renames a synchronized file) and
  may raise before or after its effect.
* What a cell does is `Output` (with a request) or `NotebookChanges` (without), any number
  of times; which end of the run follows is free. A notebook that the user deletes, and a
  hash file that cannot be read, are left out: each only raises.

`MaxClock` bounds changes and edits together, `MaxFailures` the operations that raise,
`MaxProcesses` the processes.

### Resources

`row[r]` is a resource's row (status, terminal flag, disposition, whether its monitor is
closed, its lifecycle), `job[r]` the external job, `task[t]` an asyncio task that works on
resources: the monitor of each resource, the action loop (`"loop"`) and the runner's
cancellation (`"runner"`). `inspecting`, `finalizing` and `stopLock` are the three locks.

| Actions | Code |
|---|---|
| `Register`, `RegisterEnds`, `Reconcile` | `register`, with the supersession of a logical key |
| `MonitorWakes`, `BeginInspection`, `PollEnds`, `PollFails` | `_monitor` |
| `FinalizeStarts`, `FinalizeEnds`, `FinalizeSkips` | `_finalize_terminal_resource` by a monitor or a stop |
| `StopResource` ... `StopReturns`, `StopTimesOut` | `stop_resource` and its confirmation |
| `RequestStop`, `ClaimAction`, `BeginCascade`, `CascadeStops` | the operator's stop and the cancellation's |
| `RunnerWaits`, `WaitEnds`, `CloseNonblocking` | the end of the run |
| `CrashAndReopen` | a crash, and `restore_monitors` |

* An inspection is split where the provider takes its sample, so that the row may change
  before the sample is written: that is the race of the hazards.
* Two history variables mark where the code keeps less than one would expect. `astray` are
  the resources whose stop lock was thrown away in use: `_retire_resource_if_settled` finds
  the lock free, awaits `adapter.close()`, and `_prune_retired_resource_state`
  (`resource_manager.py` 280-288) then drops the lock without looking again, so that a stop
  that took it or waits for it meanwhile and a later one do not see each other. `orphans` are
  those that a restored process found `stopping`: `restore_monitors` starts no monitor for
  them. The properties name these exceptions, and what happens to an `astray` resource (stops
  that overlap, a monitor that revives a row) is not claimed.
* `PollFails` goes by the lifecycle that the row has when the inspection fails, the code by
  the one that the cycle began with (`resource_manager.py` 377); they differ only under a
  stop, and no property can tell.
* `None` is the absence of a task. The log drain and the closing of an adapter are awaits
  that end at any time. A resource that may not be stopped is one that nobody stops.
* What reading showed and no property states: after a stop that a crash interrupted, and
  that the provider then refuses, the blocking wait fails with "has no active monitor task",
  since `restore_monitors` starts none for a `STOPPING` row (`WaitIsWatched` names the two
  other ways: a lock thrown away, and a resource that was registered as not blocking before);
  a refused stop writes the status before the request over a terminal row
  (`resource_manager.py` 814), whose terminal flag stays.

`MaxEvents` bounds registrations, provider failures and crashes together, `MaxStops` the
operator's stops.

### NotificationOutbox and Notices

`journal` holds the events that are retained, `routing` the durable cursor with its retry,
`config` the credentials that the manifest asks for and those the store has, `outbox[k]` an
intent with its `sends` to each destination, `proc` the listener and the delivery worker
with the bounded queue that wakes the listener, `inflight` the attempts under way, `drain`
the wait before cleanup.

| Actions | Code |
|---|---|
| `BeginEpoch`, `KernelStarts`, `CellFails`, `CellResumes`, `RunEnds` | the commits of a run that journal an event |
| `RouteEvents`, `RouteFails`, `RouteRejects`, `RouteIsCut` | `_listen`: route, retry, dead-letter, crash between intent and cursor |
| `Remind` | `_periodic` |
| `Claim`, `AttemptEnds`, `AttemptIsLost`, `BatchEnds`, `Report` | the delivery worker |
| `ChangeManifest`, `FinishMaintenance`, `Start` | `notifications rotate` and `purge`, and what a start finishes of them |
| `BeginDrain`, `DrainEnds` | `_drain_state`, `_automatic_cleanup_decision` |
| `Close`, `Crash` | the end of a process |

`Notices` is the promise for each notice by itself: `none`, `owed`, `open`, `delivered`,
`failed` or, on record, `dropped`; what is delivered stays delivered, what is owed is not
forgotten but by a purge. `ImplementsNotices` maps each key to its stage.

* Retry delays are awaits that end at any time: any pending delivery may be due. The worker
  gathers a batch whole. Legacy aliases, the payload's limit, the byte cap of the journal
  and the notices about sections and links are left out.
* A purge followed by new credentials notifies of the run's present state once more
  (`Implied`), which `docs/architecture.md:131-135` allows for. Two store faults in a row
  leave a delivery as `sending` until the next start, and publish-then-mark may journal a
  report twice after a crash; a notice is not affected by either.
* `reconcile_state` reads `failed_*` of the row, which `begin_kernel_epoch` keeps until the
  kernel has started (`notebook.py` 434-441): a process that dies in between makes the next
  one notify of a failure under an epoch that has not executed anything. That is why a
  notice may be `open` without having been `owed`.

### MarimoGraph

`g` is the runner's memory (`pc`, the document, the selection, flags of the batch), `kernel`
the runtime of the current epoch, `wire` its messages that are not read yet, `alive` the
runtimes that live, `identity` the one that `process.json` names. `ran` is history: the code
each cell ran with, and the cells that something they need has run after.

| Actions | Code |
|---|---|
| `Open`, `BeginEpoch`, `Reap`, `NameRuntime`, `Connected` | the start of a process, an epoch, a session |
| `KernelRuns`, `KernelEnds`, `KernelDies` (external), `Read` | the runtime and `_on_message` |
| `TimeOut`, `BatchEnds`, `GiveUpBatch`, `BatchIsLost`, `BatchSettled`, `GraphPaused` | `_run_batch`, `_watch_execution`, `_reconcile`, `_pause_graph` |
| `InventoryRead`, `InventoryFails`, `RequestHangs` | `session.inventory()` after the batch, and a request that nobody watches |
| `Dispatch`, `TakeCommand`, `SourceRead`, `Repaired`, `RepairFails` | recovery, live or by a new epoch |
| `Cancel`, `EscalateInterrupt`, `EscalateKill` | `cancel()` and `_escalate_cancellation` |
| `ReaderStops`, `SessionClosed`, `Finish`, `Quiesce`, `Crash` | the ends |

* `Ancestors` is the closure of what a cell needs, the least set that the two loops of
  `selection` reach. A batch executes what it is told in the order of the graph; a cell's
  dependents outside the batch become stale.
* When the messages of a batch are complete its execution is done, and the runner still
  awaits `session.inventory()` (`_marimo_runner.py` 195; `pc = "inventory"`). There, and in
  the request that repairs the document (537-540; `"repairing"`), `_watch_execution` (218-228)
  is over or has not begun, `cancel()` finds no execution to escalate (a command that it may
  queue for a repair is read after it), and the client reads without a timeout (`_marimo_session.py` 98-109). A request
  whose kernel is dead or stalls fails (`InventoryFails`, `RepairFails`) or gets neither an
  answer nor an error: `RequestHangs` sets `g.hung`, after which it may still end, but nobody
  owes it. An escalation that began during the batch goes no further then. The requests of a
  start are the same, but `_marimo_runner.py` 83-86 bounds them with `startup_timeout_seconds`,
  so `StartFails` ends each.
* A crash inside one synchronous stretch of several commits is not split here
  (`RunLifecycle` does that), a runtime that nobody listens to is not followed, edits and
  requests are taken only where they are read next, and a timeout counts as a fault.
* What reading showed and no property states: a process that finds the run `cancelling`
  finishes it without reaping a runtime that survived (`OneRuntime` exempts a process that
  began no epoch, `g.selected = {}`);
  a quiesce during `session.close()` makes the second close a no-op; a `running` message
  that is read after a lost batch overwrites `paused`, and live recoveries are then refused;
  a cancellation during `_pause_graph`'s checkpoint is not noticed (finding 2 in this
  backend); a crash between spawn and `process.json` leaves a runtime without a name
  (`unnamed`).

### Dashboard

`serve` is how far the process has come: `starting`, `serving`, `closing` (the share's
monitor), `stopping` (the web server, whose streams end), `quiescing` (the runner is shut
down), `unlinking` (the manager closes its links), `over`. `share` is what `/api/share` shows, `monitor` the place of `CloudflaredShare` with its own
tunnel and the one it waits for, `tunnels[t]` a `cloudflared` process. `active` are the
dashboards whose row is active, `links[i]` the state of a link, `jobs[j]` the calls of
`reconcile`, by the registration that made them (0 is the manager's `close`); a link is
`stopped` when `describe()` found that its proxy ended by itself (`LinkStops`). `stream` is
the subscriber of the browser's connection, `browser` the page: `view` is TRUE while what
it shows is what is the case, `answers` are responses under way.

* `Reconcile` runs from one awaited removal to the next with the list that it read first, so
  two calls can run into one another; `overlap` is history of that. Then a superseded
  registration may keep a link, although `docs/architecture.md:208-210` has one proxy per
  active registration; `DashboardsAreLinked` says what holds without the proviso, and with.
* A dashboard may be registered until the runner is shut down (`Register`). Only the Marimo
  runner waits for registrations then (`_marimo_runner.py` 702-708), and one that it cancels
  while it removes a link has popped that link and leaves its server (`dashboard_links.py`
  601, 472-478). `NotebookRunner.shutdown` waits for none: a `reconcile` that awaits a
  removal (529-530) goes on while the manager closes (640-643) or has closed, and starts what
  is listed and has no link (531-549). `ServerStops` cancels any set of the registrations under
  way, none included; `stray` is history: the registrations that nobody waits for, and the
  links that they start or leave half closed. `NothingOutlivesTheService` says that no
  tunnel of the share is left, that any link that is left is one of those, and that without
  such a registration none is.
* After a replacement that failed, an old tunnel that recovers leaves the share `degraded`;
  a monitor that is cancelled while it closes the previous tunnel leaves that one told to
  end but not killed. A first connection has cursor 0, so its first event replays what the
  journal kept. Pairing, cookies and the proxied traffic are left out.

## 3. Runs

| Run | Instance | Properties |
|---|---|---|
| `lock_crashes` | 3 processes, 2 machines, any may crash | `LockSafety`: only an unlink that hits a record nobody judged can break exclusion, and live or remote owners' records are not taken. `LockProgress`: an acquire ends, and a dead owner's lock is taken |
| `lock_exclusion` | 3 processes, 1 machine | violation of `MutualExclusion` (finding 1) |
| `lifecycle_crashes` | 1 cell, 1 command of any kind, 2 processes, 1 signal | `TerminalEventMatchesRun`, `PausedRunnerIsReachable`, `CancellationIsKept` (no success after it, and a process that finds it executes nothing), `TerminalLeftOnlyByRestart`; `ExecutingCancellationSettles`, `ActionsSettle` |
| `lifecycle_edits` | 3 cells (one markdown), 2 recoveries, 1 edit, 1 process | `SuccessIsOfTheSource` (complete, and of the recorded source), `RecoveryIsOfItsFailure` (one in flight, completed only for its failure) |
| `cancel_settles` | 1 cell, 1 signal, fairness | violation of `CancellationIsBounded` (finding 2) |
| `cancel_is_final` | 2 cells, 1 resume, 2 processes, 1 signal | violation of `PersistedCancellationIsFinal` (finding 3) |
| `checkpoint_races` | 3 changes or edits, 1 failure, 2 processes | `PendingGenerationIsAwaited`, `CheckpointsMoveForward`, `EditsAreKept`, `SuccessIsWrittenBack`; `PendingIsWritten` |
| `resources_stops` | 2 resources under one key, 1 operator's stop, 1 failure or crash | `OneStopAtATime`, `WaitIsWatched`, `RowsKeepWhatIsKnown` (terminal stays, a stop's intent stays), `ConfirmedStopIsSettled`; `StopAnswered` |
| `cancelled_is_final` | 1 resource | violation of `CancelledIsFinal` (finding 4) |
| `outbox_delivery` | 1 destination, 2 credentials, a journal of one, 2 attempts, 2 notices, 1 change, 1 fault | `NothingOwedIsLost`, `RowsAgree`, `DrainedIsSettled`, `ImplementsNotices`; `OwedIsSettled` |
| `marimo_repairs` | 3 cells, 2 epochs, 2 processes, 1 command, 1 edit, 1 fault | `PausedGraphIsRecoverable`, `SuccessIsCurrent`, `OneRuntime`; `CancellationSettles` |
| `dashboard_serving` | 2 tunnels, 3 dashboards, a queue of one, a journal of two, 2 incidents | `DashboardsAreLinked`, `NothingOutlivesTheService`, `NothingSkipped`; `PageCatchesUp` |

`TypeOK` is checked in every passing run but `lifecycle_edits`; properties after a semicolon
are liveness. Every passing run but `lifecycle_edits` has fairness in its specification.

`CheckpointsMoveForward` and `SuccessIsWrittenBack` carry the proviso `~overlap`. It is
needed: a thread that a quiesced process leaves behind can write its older checkpoint after
the next process has written a newer one. `EditsAreKept` holds without it.

**Why the bounds are enough.** Every hazard of the lock needs at most a dead owner and two
contenders, and a second machine adds only the refusal to judge. In a run, "executed",
"failed" and "not yet reached" need two cells, and the branch that skips a cell one that
holds no code; the hazards of a crash need one cell, the process that dies and the one that
finds its state, and a command of each kind. A recovery race needs two actions; an edit race
needs one edit, since an edit changes any set of cells. Attempts are not bounded: a cell can
be retried as often as there are recovery commands. A checkpoint race needs two snapshots of
different age and one edit, three changes in all, and a failure hazard one operation that
raises. Two resources under one key show supersession, a cascade with more than one stop and
a stop that meets another. A notification hazard is an event that the journal wants to prune
and an event after it, a retry, a rotation, and one fault between any two commits; a journal
and a queue of one make each overflow. In a graph, cell 1 needs cell 0 and cell 2 stands
alone: needed, dependent and unrelated. Two tunnels show a replacement, three dashboards a
supersession while another is reconciled. The instances have between ten thousand and 1.5
million states; the proofs of section 5 have no bounds.

**Deadlock** is not checked: a run that has settled with no process left, a lock with no
process that still wants it, or a service that is over has stopped as it should. That a live
process does not get stuck is stated by the liveness properties instead.

**Fairness.** Weak fairness only, and only of what a live process owes:

* `RunLifecycle`: every await of the runner outside a cell is local I/O or has a timeout, and
  the event loop runs a task that is ready (`Runner`). At a place where it waits for someone
  else (the gate, an empty command queue, a resource that still runs, a stop's lock), its
  action is disabled, so fairness asks nothing. A cell may run for ever, except once its
  cancellation is escalated (`EscalationEndsExec`): the last stage abandons the client. The
  action loop polls every interval, and a stop has a deadline (`ActionLoop`). `ServeSignal`
  and `Serve` are tasks that the loop has been given.
* `Checkpoint` (`Loop`, `Forced`, `TaskThread`): the loop's delays are finite, the lock is
  handed to the task that waits, and a thread's file operation returns. Only finitely many
  operations raise.
* `RunLock` (`AcquireStep`, `CleanupStep` of each process): sequential code without waits.
* `Resources`: each task gets its turn and each await ends: the provider answers, a sleep or
  a deadline is over.
* `NotificationOutbox`: the listener, the worker and the awaits of its attempts, which have a
  timeout; any retry delay ends.
* `MarimoGraph`: the runner's awaits, but for a request that hangs (`~g.hung /\ Graph`), the
  reader, the action loop and the last signal.
* `Dashboard`: the page's timer and its requests.

Nobody owes an edit, a command, a signal, a crash, an error, an output, the end of a cell,
of a resource or of a job, or a registration.

`ActionsSettle` excludes one case on purpose: a recovery that is queued for a runner which
a cancellation has already called away stays `executing` until the next process recovers
it. No document promises otherwise. `CancellationSettles` excludes a run whose request hangs
(section 4).

## 4. Findings

1. **Two owners of a stale lock** (`cli.py` 178-179). `docs/architecture.md:102`: "Only one
   supervisor owns a run lock." The path is compared with the open record and then unlinked
   by name. A second contender can unlink the same stale record and link its own in between;
   the first then unlinks that fresh lock.
2. **A cancellation that hangs** (`notebook.py` 682-683). `README.md:399-401` promises that
   cancellation is bounded. While a failed cell is checkpointed, the runner is neither paused nor
   executing, so `cancel()` queues nothing; the pause that follows overwrites `cancelling`
   and waits for a command. A second signal is ignored.
3. **A persisted cancellation that is overwritten** (`storage.py` 911-913).
   `docs/architecture.md:59` says that cancellation first persists `cancelling`, which the next
   process would finish. Later status updates replace it without a guard; after a crash the
   next process executes cells.
4. **A cancelled resource that becomes active** (`storage.py` 2135). A confirmed stop is
   recorded as `cancelled`, together with its last observation. The column is guarded by the
   observation's terminal flag, not by whether a disposition was given: any later terminal
   observation without one, such as the last inspection of a monitor's finalization, writes
   `active` over it.

Four more divergences were found while modelling. No run is expected to violate them; the
first two are exceptions that a property of a passing run names:

* A cancellation of a Marimo run can hang. Once a batch has executed, `session.inventory()`
  (`_marimo_runner.py` 195) is awaited without a watch, an escalation or a read timeout;
  `README.md:399-401` promises a bound. Without its exception `g.hung`, TLC violates
  `CancellationSettles`: the cancellation in the batch, the end of the batch, a request that
  hangs.
* `NotebookRunner.shutdown` says "Cancel and join runner-owned background work before services
  close" (`notebook.py:281`), but does not join what `_schedule` started (`_runner_core.py` 659,
  820). A dashboard's registration that waits in `_remove` starts a link, with its proxy and
  tunnel, after `DashboardLinkManager.close` (`dashboard_links.py` 640-643), and nobody closes
  it. Without its exception `stray`, `NothingOutlivesTheService` is violated.
* `notebook.py` 832-847 hashes the source of a live resume and then reads it again;
  `docs/architecture.md:95-96` binds each action to its source. An edit in between is executed
  (`SuccessIsOfTheSource` holds all the same: the record tells what was executed).
* `_runner_core.py` 1024-1029 replaces the notebook before its new hash is recorded. After a
  crash between the two, the next process compares with the old hash and reports that the
  notebook "changed outside Runwatch", although only Runwatch wrote it.

What holds in spite of the findings is stated beside them: exclusion unless an unlink was
misdirected, no success after a cancellation, a terminal flag that is never cleared.

## 5. Proofs

For every value of the constants, under the assumptions named in the modules:

* **Lock** (`RunLockProofs`). `LockInv` = `TypeOK`, `RecordsHavePlace` (a record at a path
  belongs to a process at a place where it would have left one, or to a dead one),
  `DoomedAreDead` (whoever is past the judgement holds a record of a dead process) and
  `Directed` (while no unlink was misdirected, a process in possession is named by the lock,
  and a cleanup by the fence). Mutual exclusion says nothing of processes half way through,
  so it is not inductive; `Directed` is what each step preserves. From it: `TypeCorrect`,
  `Exclusion`, `Respect` (an action property), `Safety` (both). `CrashFreeExclusion`: with no
  crashes nothing is stale, no unlink is misdirected, and `MutualExclusion` holds without a
  proviso; so finding 1 needs a crash.
* **Store** (`RunStoreProofs`). One lemma for each commit: the type of the row it returns
  and the fields it changes.
* **Run** (`RunLifecycleProofs`). `TypeInv` strengthens `TypeOK` by what indexes need (the
  command queue, the process and the runner's command name existing actions, a runner at
  work on a cell names one), with one lemma for each group of actions.
  `SettledInv` = `LiveRunner` (a terminal run has a runner only where it has nothing left to
  do) with `TerminalEventMatchesRun` and `FinalizedRunIsTerminal` (a run is marked as
  finalized, which authorizes the removal of its directory, only when it has settled). Nearly
  every step changes the run row, so `RunEvolves` says once what any step may do to it (stay,
  move between live statuses, settle with its event, be finalized, be reopened by restart),
  `StepEvolves` proves it, and `EventMatches`, `Finalization` and `TerminalIsFinal` follow.
  `AskedInv` links the durable request of a cancellation with the flag in memory
  (`CancelledNeverSucceeds`); `RecoveredInv` follows a process that found the run
  cancelling through the places it can reach (`RecoveredCancellation`); both together are
  `CancellationKept`.
  `PausedInv` ties `paused` and the flag that a cancel command was sent to the places of the
  runner (`PausesAreReachable`). `SourceInv` = what the property says, `EpochInv` (the cell at
  hand and the rows of the epoch ran as recorded) and `DoneInv` (what the runner has left
  behind is done, which makes a run complete when it comes to its end); from it
  `SuccessesAreOfTheSource`. `RecoveryInv` says in whose hands each recovery is: a process
  that starts, the queue or the runner, which then waits on the failure that the recovery was
  sent for or has been called away (`RecoveriesAreOfTheirFailures`).
* **Checkpoint** (`CheckpointProofs`). `TypeOK` includes that a task that writes holds the
  lock, which is what a step needs to know that the other task is not writing
  (`TypeCorrect`). `GInv` adds that no generation, on record or in a thread, is ahead of the
  one requested; from it `PendingGenerationAwaited`. `EInv` is the argument for the user's
  edits: the hash on record, the hash in memory, the notebook in memory and every snapshot
  and hash that a thread carries, orphan or not, are `Ours` (no protected edit, nothing from
  the future), and a thread that is about to replace the file has an unprotected one before
  it. It is not enough to know this of the threads that tasks await, since orphans replace
  files too. From it `GuardedEditsAreKept` (an action property). `ForwardInv` is the argument
  for the order of checkpoints while no thread outlived its process: all threads at work,
  orphans included, carry one snapshot, neither older than the checkpoint on disk nor younger
  than the notebook in memory (`WorkersAgree`), because a task that is given the lock waits for
  the one before it and orphans are left only on the runner's way out (`OrphansAreLate`). So
  the next snapshot is not older than any that may still be written. From it
  `ForwardCheckpoints` and, with what the forced checkpoint's thread has done at each of its
  steps (`ForcedIsWritten`), `SuccessesAreWrittenBack`.
* **Resources** (`ResourcesProofs`). `TypeInv` adds to `TypeOK` what each task holds at its
  place. `StopInv` adds, for a resource whose stop lock was never thrown away: `StopPart`
  (a stop under way holds the lock, and the row says `stopping` or that the job has ended),
  `EndedPart` (a terminal row rests on a job that has ended and of which no inspection under
  way will say anything else, or is a monitor's guess), `PollPart` and `WatchPart` (what
  blocks the end of the run has a monitor); and `KeyInv`, one active row for a logical key.
  That the terminal flag is kept is not enough to go on: an inspection that began before
  writes its sample later, so the invariant is about the samples. From it `StopsExclude`,
  `WaitsAreWatched`, `KnowledgeIsKept` and `ConfirmedStopsAreSettled`.
* **Marimo** (`MarimoGraphProofs`), for any graph. The invariants build on each other:
  `TypeInv` (`TypeCorrect`); `RuntimesInv` (the runtime that `process.json` names is the only
  one that no crash orphaned; `OneRuntimeHolds`); `SettledInv` (after a batch that was not lost
  the stream is read, nothing executes and the rows are what the kernel says) and `PausedInv`
  (`PausesAreRecoverable`); `KernelInv` (in an intact kernel, what is idle outside the batch
  ran after all that it needs, with the code that is recorded) and `SuccessInv`
  (`SuccessesAreCurrent`). Ancestors are a least closed set, and what these proofs need of them
  (they contain the parents, are closed, and are those of the parents) follows from that.
* **Outbox** (`NotificationOutboxProofs`). `Inv` says of each intent that it is `Sound` (its
  status is what its deliveries add up to, counts and errors agree, its credentials are those
  on record), of the worker that what is marked as being sent is in flight (`BatchesAreMarked`),
  of the journal that it reaches to the last event (`JournalIsKept`), and of what is owed that
  it is retained or enqueued (`NothingOwedIsLost`) and owed once. Two facts carry the
  refinement: whatever step is taken, short of a purge, each intent `Progresses` in one of a
  few ways (`Moved`), and what is owed changes as `OwedStep` says; so each key's stage moves
  along `Notices`' `Moves`. From these: `TypeCorrect`, `NoNoticeIsLost`, `RowsAlwaysAgree`,
  `DrainsSettle` and `PromiseIsKept`, the refinement `Spec => Notices!Spec`.
* **Dashboard** (`DashboardProofs`). `PartsInv` = `TunnelsAreHeld` (a tunnel that was not
  told to end is the monitor's or its candidate), `WhatIsLeft` (once the manager has begun to
  close, a link is one whose removal is due or one that was started since, and only a
  registration that was under way then starts one or leaves one half closed),
  `JobsAreFounded` (what a reconciliation removes is not active) and `LinksAreFounded`
  (an active dashboard has a link or a reconciliation that will see it, and conversely while
  none has run into another). From it `NothingOutlives` and `LinksAreOfActive`.
  `ShareInv` orders the tunnels: they are started one after the other, so a candidate is
  younger than the tunnel that is shown. `WatchInv`: the cursor of an open connection is what
  the browser was told, and a batch under way is in order and follows it, or is a hint. With
  the types, these give `TypeCorrect`; `NothingIsSkipped` follows from `WatchInv` and from what
  `EventsAfter` and `DeliveryBatch` return, which are lemmas of their own.

Every safety and action property that a passing run checks is stated by one of these theorems.

**Only model-checked**: liveness, which the prover cannot do (nor ENABLED, on which fairness
rests): `LockProgress`, `ExecutingCancellationSettles`, `ActionsSettle`, `PendingIsWritten`,
`StopAnswered`, `OwedIsSettled`, `CancellationSettles` and `PageCatchesUp`. What a recursive
definition computes for every input is out of reach too (induction over data); no proof here
needs it.

## 6. Plan

Done: every item of the original plan, with a theorem for each safety property, but the
abstract specification of a run's status and of the lock (`TerminalLeftOnlyByRestart` and `LockSafety` say most of what these would).

What could still be added: the log drain's pages and the resumable S3 scan as algorithms, the
browser's stop token, the worker protocol of a Marimo runtime within one call, adapters that
fail to close.

**Not modelled.** Progress estimates (floating point); configuration, manifests, emission and
presentation (pure functions); provider clients (remote services behind the adapter that
`Resources` takes for something that samples a job and may fail or refuse); sleep inhibition
(an OS handle); rendering, pairing and the proxied traffic of the dashboard.
