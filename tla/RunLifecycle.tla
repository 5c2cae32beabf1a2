---------------------------- MODULE RunLifecycle ----------------------------
(***************************************************************************)
(* One run: the supervisor process (supervisor.py), the notebook runner in *)
(* it (_runner_core.py, notebook.py), its action loop, the commands that   *)
(* other processes queue in SQLite (cli.py), and what a crash or a signal  *)
(* leaves of them.                                                         *)
(*                                                                         *)
(* The process is one asyncio loop: the action loop, the signal handler,   *)
(* the task that cancel() runs in and the resource monitors move only      *)
(* while the runner is suspended in an await (Suspended).  Edits of        *)
(* source.ipynb, other CLI processes and crashes move at any time, so code *)
(* without an await is split wherever one of these can be told apart: at   *)
(* each commit and at each read of the source file.  EventBus.publish      *)
(* never suspends (its lock is uncontended and its body synchronous), so   *)
(* publishing is part of the step it ends.                                 *)
(*                                                                         *)
(* One resource stands for the run's resources: exclusive, stoppable,      *)
(* blocking, stop_on_cancel.  One process at a time works on the run:      *)
(* that is RunLock.                                                        *)
(***************************************************************************)
EXTENDS RunStore

CONSTANTS Kinds,        \* the commands that operators give
          MaxActions,   \* bound on the actions ever requested
          MaxEdits,     \* bound on the edits of the notebook
          MaxProcesses, \* bound on the processes that work on the run
          MaxSignals    \* 1, or 0 where no process is sent a signal

ASSUME KindsOfActions == Kinds \subseteq ActionKind
ASSUME BoundsAreNaturals == /\ MaxActions \in Nat /\ MaxEdits \in Nat
                            /\ MaxProcesses \in Nat \ {0} /\ MaxSignals \in 0 .. 1

VARIABLES
  run, cells, actions,  \* SQLite
  source,               \* source.ipynb, which an operator may edit
  res,                  \* the resource, as the store records it
  proc,                 \* the process that has the run lock
  rn,                   \* the runner in it
  ctl,                  \* the runner's control flags
  signal,               \* the process signal and the task it starts
  queue,                \* its command queue: action ids, 0 is "cancel"
  al,                   \* its action loop
  cli,                  \* a CLI command between its read and its insert
  ran                   \* history: what the kernel last executed of a cell

vars == <<run, cells, actions, source, res, proc, rn, ctl, signal, queue, al,
          cli, ran>>
durable == <<run, cells, actions, source, res>>
tasks == <<ctl, signal, queue, al>>       \* the memory beside the runner
context == <<source, res, proc, cli>>     \* what a runner step leaves alone

ResStatus == {"absent", "active", "stopping", "succeeded", "failed", "cancelled"}
ResTerminal == {"succeeded", "failed", "cancelled"}

\* down; preparing: a recovery is requested; starting: start() restores the
\* services; up; offline: `resource stop` on a stopped run.  `boot` is what
\* brought the process up, `action` the bootstrap or offline action,
\* `stopPending` recovered_stop_was_pending, and `cancelling` (history) says
\* that it found the run cancelling.
Processes == [state: {"down", "preparing", "starting", "up", "offline"},
              number: Nat, boot: {"execute", "resume", "restart", "stop_resource"},
              action: Nat, stopPending: BOOLEAN, cancelling: BOOLEAN,
              off: {"idle", "claim", "request", "adapter", "confirm", "cancel",
                    "finish", "complete"}]

\* Where the runner awaits, and where it is between two commits or reads.
AwaitPCs == {"gate", "kernel", "exec", "settle", "publishCell", "failing",
             "pausing", "recover", "interrupted", "teardown", "output",
             "external", "finalckpt", "stopres", "failckpt", "returned",
             "finalized"}
SyncPCs == {"load", "update", "replace", "next", "begin", "apply", "accept"}
Outcomes == {"complete", "restart", "cancel", "fail"}
Failures == {"run.runner_error", "run.external_timeout", "run.failed_external"}

Runners == [pc: AwaitPCs \cup SyncPCs \cup {"none"}, idx: 0 .. NumCells,
            nb: Notebooks, from: Cells, replace: BOOLEAN, dead: BOOLEAN,
            cmd: Nat, outcome: Outcomes, failure: Failures, checkpoints: BOOLEAN]
Controls == [paused: BOOLEAN, cancelReq: BOOLEAN, enqueued: BOOLEAN,
             escalating: BOOLEAN]
Signals == {"none", "pending", "served"}
Loops == [pc: {"poll", "stop", "adapter", "confirm", "cascade"}, id: Nat]

BlankNotebook == [c \in Cells |-> 0]
NoRunner == [pc |-> "none", idx |-> 0, nb |-> BlankNotebook, from |-> 0,
             replace |-> FALSE, dead |-> FALSE, cmd |-> 0, outcome |-> "complete",
             failure |-> "run.runner_error", checkpoints |-> FALSE]
NoControl == [paused |-> FALSE, cancelReq |-> FALSE, enqueued |-> FALSE,
              escalating |-> FALSE]
IdleLoop == [pc |-> "poll", id |-> 0]
NoCommand == [NewAction("resume", NewRun, BlankNotebook, 0)
                EXCEPT !.status = "failed"]

Up == proc.state = "up"
Suspended == Up /\ rn.pc \in AwaitPCs
At(pc) == Up /\ rn.pc = pc
Goto(pc) == rn' = [rn EXCEPT !.pc = pc]
Leave(outcome) == rn' = [rn EXCEPT !.pc = "teardown", !.outcome = outcome]
\* Past the last epoch the runner has no more use for the notebook.
Finish(pc) == rn' = [NoRunner EXCEPT !.pc = pc, !.checkpoints = rn.checkpoints]
Fail(failure) == rn' = [NoRunner EXCEPT !.pc = "failckpt", !.failure = failure,
                                        !.checkpoints = TRUE]

\* A process begins, ends or dies: nothing of its memory is left.
Forget ==
  /\ rn' = NoRunner /\ ctl' = NoControl /\ signal' = "none" /\ queue' = <<>>
  /\ al' = IdleLoop

Init ==
  /\ run = NewRun
  /\ source = BlankNotebook
  /\ cells = InitializeCells(source)
  /\ actions = <<>>
  /\ res \in {"absent", "active"}
  /\ proc = [state |-> "starting", number |-> 1, boot |-> "execute", action |-> 0,
             stopPending |-> FALSE, cancelling |-> FALSE, off |-> "idle"]
  /\ rn = NoRunner /\ ctl = NoControl /\ signal = "none" /\ queue = <<>>
  /\ al = IdleLoop
  /\ cli = NoCommand
  /\ ran = [c \in Cells |-> [epoch |-> 0, attempt |-> 0, src |-> 0]]

-----------------------------------------------------------------------------
CancelWithoutCommand ==   \* mutant: a paused runner is not woken
  IF IsTerminal(run) THEN UNCHANGED <<run, ctl, queue>>
  ELSE /\ run' = IF ctl.cancelReq THEN run
                 ELSE RequestRunCancellation(run, proc.number)
       /\ ctl' = [ctl EXCEPT !.cancelReq = TRUE,
                             !.escalating = @ \/ rn.pc = "exec"]
       /\ UNCHANGED queue

(* cancel(): everything up to the await on the escalation.  The request is *)
(* persisted once per process; a paused runner gets a command, once; an    *)
(* executing cell gets an escalation; in any other place only the flag and *)
(* the durable status tell the runner.                                     *)
Cancel ==
  IF IsTerminal(run) THEN UNCHANGED <<run, ctl, queue>>
  ELSE LET enqueue == ctl.paused /\ ~ctl.enqueued
       IN /\ run' = IF ctl.cancelReq THEN run
                    ELSE RequestRunCancellation(run, proc.number)
          /\ queue' = IF enqueue THEN Append(queue, 0) ELSE queue
          /\ ctl' = [ctl EXCEPT !.cancelReq = TRUE,
                                !.enqueued = @ \/ enqueue,
                                !.escalating = @ \/ (~enqueue /\ rn.pc = "exec")]

-----------------------------------------------------------------------------
(* The runner. *)

LeaveGateSilently ==   \* mutant: the status is left until the kernel runs
  /\ At("gate")
  /\ ~HasUnfinishedStopActions(actions)
  /\ IF run.status = "cancelling"
     THEN /\ Finish("stopres") /\ ctl' = [ctl EXCEPT !.cancelReq = TRUE]
     ELSE /\ rn' = [rn EXCEPT !.pc = "load", !.checkpoints = TRUE,
                              !.replace = proc.boot # "execute"]
          /\ UNCHANGED ctl
  /\ UNCHANGED <<run, cells, actions, context, signal, queue, al, ran>>

\* _run_after_recovered_stop_actions, then run() up to the first kernel.
LeaveGate ==
  /\ At("gate")
  /\ ~HasUnfinishedStopActions(actions)
  /\ IF run.status = "cancelling"
     THEN /\ Finish("stopres") /\ ctl' = [ctl EXCEPT !.cancelReq = TRUE]
          /\ UNCHANGED run
     ELSE IF IsTerminal(run) /\ (proc.stopPending \/ proc.boot # "restart")
          THEN Finish("returned") /\ UNCHANGED <<run, ctl>>
          ELSE /\ run' = UpdateRunStatus(run, "starting")
               /\ rn' = [rn EXCEPT !.pc = "load", !.checkpoints = TRUE,
                                   !.from = IF proc.action = 0 THEN 0
                                            ELSE actions[proc.action].from,
                                   !.replace = proc.boot # "execute"]
               /\ UNCHANGED ctl
  /\ UNCHANGED <<cells, actions, context, signal, queue, al, ran>>

\* _run_kernel_epochs tests the flag, then _prepare_kernel_epoch reads the
\* notebook and makes three commits.
ReadAndBeginEpoch ==
  /\ At("load")
  /\ \/ /\ ctl.cancelReq
        /\ Finish("stopres") /\ UNCHANGED run
     \/ /\ ~ctl.cancelReq
        /\ rn' = [rn EXCEPT !.pc = "update", !.nb = source]
        /\ run' = BeginKernelEpoch(run)
     \/ /\ ~ctl.cancelReq                 \* the file is unreadable
        /\ Fail("run.runner_error") /\ UNCHANGED run
  /\ UNCHANGED <<cells, actions, context, tasks, ran>>

RecordSource ==
  /\ At("update")
  /\ cells' = UpdateSource(cells, rn.nb)
  /\ Goto("replace")
  /\ UNCHANGED <<run, actions, context, tasks, ran>>

ReplaceCells ==
  /\ At("replace")
  /\ cells' = IF rn.replace \/ rn.from > 0
              THEN ReplaceCellsForRestart(rn.nb, run.epoch, rn.from)
              ELSE cells
  /\ rn' = [rn EXCEPT !.pc = "kernel", !.replace = TRUE, !.dead = FALSE]
  /\ UNCHANGED <<run, actions, context, tasks, ran>>

KernelStarts ==
  /\ At("kernel")
  /\ run' = UpdateRunning(run)
  /\ rn' = [rn EXCEPT !.pc = "next", !.idx = rn.from]
  /\ UNCHANGED <<cells, actions, context, tasks, ran>>

\* The head of the loop of _execute_cells.
NextCell ==
  /\ At("next")
  /\ IF rn.idx = NumCells THEN Leave("complete") /\ UNCHANGED cells
     ELSE IF ctl.cancelReq THEN Leave("cancel") /\ UNCHANGED cells
     ELSE IF rn.idx \in CodeCells THEN Goto("begin") /\ UNCHANGED cells
     ELSE /\ cells' = MarkCellSkipped(cells, rn.idx)
          /\ rn' = [rn EXCEPT !.idx = @ + 1]
  /\ UNCHANGED <<run, actions, context, tasks, ran>>

\* _execute_cell_until_resolved: also where a live resume comes back to.
BeginAttempt ==
  /\ At("begin")
  /\ LET c == rn.idx
     IN /\ cells' = BeginCellAttempt(cells, c, rn.nb[c], run.epoch)
        /\ ran' = [ran EXCEPT ![c] = [epoch |-> run.epoch, src |-> rn.nb[c],
                                      attempt |-> cells[c].attempt + 1]]
  /\ run' = UpdateRunning(run)
  /\ ctl' = [ctl EXCEPT !.paused = FALSE]
  /\ Goto("exec")
  /\ UNCHANGED <<actions, context, signal, queue, al>>

\* The kernel answers: the cell succeeded, or failed with an error the
\* runner can pause at (an exception of the cell, a timeout, a dead kernel).
ExecReturns ==
  /\ At("exec")
  /\ Goto("settle")
  /\ ctl' = [ctl EXCEPT !.escalating = FALSE]
  /\ UNCHANGED <<durable, proc, signal, queue, al, cli, ran>>

ExecFails ==
  /\ At("exec")
  /\ \E dead \in BOOLEAN : rn' = [rn EXCEPT !.pc = "failing", !.dead = dead]
  /\ ctl' = [ctl EXCEPT !.escalating = FALSE]
  /\ UNCHANGED <<durable, proc, signal, queue, al, cli, ran>>

\* Any other error, and the client given up at the end of the escalation.
ExecBreaks ==
  /\ At("exec")
  /\ IF ctl.cancelReq THEN Goto("interrupted")
     ELSE rn' = [rn EXCEPT !.pc = "teardown", !.outcome = "fail",
                           !.failure = "run.runner_error"]
  /\ ctl' = [ctl EXCEPT !.escalating = FALSE]
  /\ UNCHANGED <<durable, proc, signal, queue, al, cli, ran>>

\* _complete_successful_cell: the outputs are drained and the cell settles,
\* then the notebook is checkpointed and written back.
CellSucceeds ==
  /\ At("settle")
  /\ cells' = CompleteCell(cells, rn.idx, "succeeded")
  /\ Goto("publishCell")
  /\ UNCHANGED <<run, actions, context, tasks, ran>>

CellPublished ==
  /\ At("publishCell")
  /\ rn' = [rn EXCEPT !.pc = "next", !.idx = @ + 1]
  /\ UNCHANGED <<durable, proc, tasks, cli, ran>>

FailureAlwaysPauses ==   \* mutant: the cancel flag is not looked at
  /\ At("failing")
  /\ Goto("pausing")
  /\ UNCHANGED <<durable, proc, tasks, cli, ran>>

\* _handle_execution_failure after the drain: a process stop that has not
\* become a cancellation yet becomes one here.
FailureSettles ==
  /\ At("failing")
  /\ IF signal # "none" /\ ~ctl.cancelReq THEN Cancel ELSE UNCHANGED <<run, ctl, queue>>
  /\ IF ctl'.cancelReq
     THEN Leave("cancel") /\ cells' = CompleteCell(cells, rn.idx, "interrupted")
     ELSE Goto("pausing") /\ UNCHANGED cells
  /\ UNCHANGED <<actions, context, signal, al, ran>>

\* _pause_failed_cell after its checkpoint.
PauseFailedCell ==
  /\ At("pausing")
  /\ cells' = CompleteCell(cells, rn.idx, "failed")
  /\ run' = PauseFailedRun(run, rn.idx, cells[rn.idx].attempt)
  /\ ctl' = [ctl EXCEPT !.paused = TRUE]
  /\ Goto("recover")
  /\ UNCHANGED <<actions, context, signal, queue, al, ran>>

\* _recovery_loop takes a command and compares what the action is bound to.
CommandIsStale(a) ==
  \/ a.epoch # run.epoch
  \/ a.attempt # cells[rn.idx].attempt
  \/ a.src # source

TakeCommand ==
  /\ At("recover") /\ queue # <<>>
  /\ queue' = Tail(queue)
  /\ LET id == Head(queue)
     IN IF id = 0 THEN Leave("cancel") /\ UNCHANGED actions
        ELSE IF CommandIsStale(actions[id])
             THEN actions' = FinishAction(actions, id, "rejected") /\ UNCHANGED rn
             ELSE /\ rn' = [rn EXCEPT !.pc = "apply", !.cmd = id]
                  /\ UNCHANGED actions
  /\ UNCHANGED <<run, cells, context, ctl, signal, al, ran>>

ApplyAnyRecovery ==   \* mutant: cells that were executed may be edited
  /\ At("apply")
  /\ rn' = [rn EXCEPT !.pc = "accept", !.outcome = "complete", !.nb = source]
  /\ cells' = UpdateSource(cells, source)
  /\ ctl' = [ctl EXCEPT !.paused = FALSE]
  /\ UNCHANGED <<run, actions, context, signal, queue, al, ran>>

\* The source is read again.  A live resume takes over the cells from the
\* failed one on, if no earlier cell changed; anything else restarts.
ApplyRecovery ==
  /\ At("apply")
  /\ LET live == actions[rn.cmd].kind = "resume" /\ ~rn.dead
         edited == \E c \in 0 .. rn.idx - 1 : source[c] # rn.nb[c]
     IN \/ /\ live /\ ~edited
           /\ rn' = [rn EXCEPT !.pc = "accept", !.outcome = "complete", !.nb = source]
           /\ cells' = UpdateSource(cells, source)
           /\ ctl' = [ctl EXCEPT !.paused = FALSE]
           /\ UNCHANGED <<run, actions>>
        \/ /\ ~live
           /\ rn' = [rn EXCEPT !.pc = "accept", !.outcome = "restart",
                               !.from = actions[rn.cmd].from]
           /\ run' = UpdateRunStatus(run, "restarting")
           /\ ctl' = [ctl EXCEPT !.paused = FALSE]
           /\ UNCHANGED <<cells, actions>>
        \/ \* an executed cell was edited, or the file is unreadable
           /\ Goto("recover")
           /\ actions' = FinishAction(actions, rn.cmd, "rejected")
           /\ UNCHANGED <<run, cells, ctl>>
  /\ UNCHANGED <<context, signal, queue, al, ran>>

AcceptRecovery ==
  /\ At("accept")
  /\ actions' = FinishAction(actions, rn.cmd, "completed")
  /\ rn' = [rn EXCEPT !.pc = IF rn.outcome = "restart" THEN "teardown" ELSE "begin",
                      !.cmd = 0]
  /\ UNCHANGED <<run, cells, context, tasks, ran>>

\* _handle_cancelled_execution.
RecordInterrupted ==
  /\ At("interrupted")
  /\ cells' = CompleteCell(cells, rn.idx, "interrupted")
  /\ Leave("cancel")
  /\ UNCHANGED <<run, actions, context, tasks, ran>>

\* The kernel is shut down; _run_kernel_epochs and _run_sessions go on with
\* the outcome of the epoch.
LeaveEpoch ==
  /\ At("teardown")
  /\ ctl' = [ctl EXCEPT !.cancelReq = @ \/ rn.outcome = "cancel"]
  /\ IF rn.outcome = "fail" THEN Fail("run.runner_error")
     ELSE IF ctl'.cancelReq THEN Finish("stopres")
     ELSE IF rn.outcome = "restart" THEN Goto("load")
     ELSE Finish("output")
  /\ UNCHANGED <<durable, proc, signal, queue, al, cli, ran>>

\* The output is published and the blocking resource looked at.
OutputPublished ==
  /\ At("output")
  /\ IF res \in {"active", "stopping"}
     THEN run' = UpdateRunStatus(run, "waiting_external")
     ELSE UNCHANGED run
  /\ Finish("external")
  /\ UNCHANGED <<cells, actions, context, tasks, ran>>

\* wait_for_blocking_resources returns on the end of the resource or on the
\* cancel event, and may time out.  A cancelled resource is not summed up.
BlockingWaitEnds ==
  /\ At("external")
  /\ \/ /\ ctl.cancelReq
        /\ Finish("stopres") /\ UNCHANGED run
     \/ /\ ~ctl.cancelReq /\ res = "failed"
        /\ Fail("run.failed_external") /\ UNCHANGED run
     \/ /\ ~ctl.cancelReq /\ res \in {"absent", "succeeded", "cancelled"}
        /\ Finish("finalckpt") /\ run' = UpdateRunStatus(run, "finalizing")
  /\ UNCHANGED <<cells, actions, context, tasks, ran>>

BlockingWaitTimesOut ==
  /\ At("external") /\ res \in {"active", "stopping"}
  /\ Fail("run.external_timeout")
  /\ UNCHANGED <<durable, proc, tasks, cli, ran>>

FinishAnyway ==   \* mutant: a cancellation during the checkpoint is missed
  /\ At("finalckpt")
  /\ Finish("returned") /\ run' = FinishRun(run, "succeeded", "run.succeeded")
  /\ UNCHANGED <<cells, actions, context, tasks, ran>>

\* The last checkpoint, then _finish_succeeded.
FinishSucceeded ==
  /\ At("finalckpt")
  /\ IF ctl.cancelReq THEN Finish("stopres") /\ UNCHANGED run
     ELSE Finish("returned") /\ run' = FinishRun(run, "succeeded", "run.succeeded")
  /\ UNCHANGED <<cells, actions, context, tasks, ran>>

\* _finish_cancelled: stop_cancel_resources, then the commit.  It waits for
\* the stop lock of a resource that an action is stopping.  A stop that fails
\* or times out is journaled, leaves the resource to be stopped again and does
\* not hold the run up.
StopLockIsHeld == al.pc \in {"adapter", "confirm"}

StopCancelResources ==
  /\ At("stopres") /\ res = "active" /\ ~StopLockIsHeld
  /\ res' = "stopping"
  /\ UNCHANGED <<run, cells, actions, source, proc, rn, tasks, cli, ran>>

FinishCancelled ==
  /\ At("stopres")
  /\ res \in {"active", "stopping"} => ~StopLockIsHeld
  /\ res' \in IF res = "stopping" THEN {"stopping", "active"} ELSE {res}
  /\ run' = FinishRun(run, "cancelled", "run.cancelled")
  /\ Finish("returned")
  /\ UNCHANGED <<cells, actions, source, proc, tasks, cli, ran>>

FinishFailed ==
  /\ At("failckpt")
  /\ run' = FinishRun(run, "failed", rn.failure)
  /\ Finish("returned")
  /\ UNCHANGED <<cells, actions, context, tasks, ran>>

\* An await raises: a checkpoint, a drain, the kernel, the output file.
RunnerError ==
  /\ Suspended
  /\ \/ /\ rn.pc \in {"settle", "publishCell"} /\ ctl.cancelReq
        /\ Goto("interrupted")
     \/ /\ \/ rn.pc \in {"settle", "publishCell"} /\ ~ctl.cancelReq
           \/ rn.pc \in {"failing", "pausing", "interrupted"}
        /\ Leave("fail")
     \/ /\ \/ rn.pc \in {"kernel", "teardown", "output", "external", "finalckpt"}
           \/ rn.pc = "stopres" /\ rn.checkpoints
           \/ rn.pc = "failckpt" /\ rn.failure # "run.runner_error"
        /\ Fail("run.runner_error")
  /\ UNCHANGED <<durable, proc, tasks, cli, ran>>

\* wait(): _after_run, then the finalization is recorded.
Finalize ==
  /\ At("returned")
  /\ run' = MarkRunFinalized(run, run.status)
  /\ Finish("finalized")
  /\ UNCHANGED <<cells, actions, context, tasks, ran>>

-----------------------------------------------------------------------------
(* The action loop. *)

LiveRecoveryRejectedAnyCell(i) ==   \* mutant: the failed cell is not compared
  LET a == actions[i]
  IN \/ run.status # "paused" \/ ~ctl.paused
     \/ a.epoch # run.epoch
     \/ a.attempt # run.failedAttempt
     \/ a.src # source
     \/ AnotherRecoveryIsExecuting(actions, i)

\* _live_recovery_rejection.
LiveRecoveryRejected(i) ==
  LET a == actions[i]
  IN \/ run.status # "paused" \/ ~ctl.paused
     \/ a.epoch # run.epoch
     \/ a.attempt # run.failedAttempt
     \/ a.failedCell # run.failedCell
     \/ a.src # source
     \/ AnotherRecoveryIsExecuting(actions, i)

DispatchRecoverySilently ==   \* mutant: a refused recovery is only dropped
  /\ Suspended /\ al.pc = "poll"
  /\ \E i \in ActionIds(actions) :
       /\ IsNextAction(actions, i) /\ actions[i].kind \in RecoveryKind
       /\ actions' = ClaimAction(actions, i)
       /\ queue' = IF LiveRecoveryRejected(i) THEN queue ELSE Append(queue, i)
  /\ UNCHANGED <<run, cells, context, rn, ctl, signal, al, ran>>

\* A recovery is claimed, and rejected or handed to the runner.
DispatchRecovery ==
  /\ Suspended /\ al.pc = "poll"
  /\ \E i \in ActionIds(actions) :
       /\ IsNextAction(actions, i) /\ actions[i].kind \in RecoveryKind
       /\ LET claimed == ClaimAction(actions, i)
          IN IF LiveRecoveryRejected(i)
             THEN actions' = FinishAction(claimed, i, "rejected") /\ UNCHANGED queue
             ELSE actions' = claimed /\ queue' = Append(queue, i)
  /\ UNCHANGED <<run, cells, context, rn, ctl, signal, al, ran>>

\* _recover_confirmed_stop: the process before this one had stopped it.
StopWasConfirmed(a) == a.recovered /\ res = "cancelled"

\* A stop is claimed and, unless it is settled at once, begun.
DispatchStop ==
  /\ Suspended /\ al.pc = "poll"
  /\ \E i \in ActionIds(actions) :
       /\ IsNextAction(actions, i) /\ actions[i].kind = "stop_resource"
       /\ LET claimed == ClaimAction(actions, i)
              settled == IF IsTerminal(run)
                         THEN IF StopWasConfirmed(actions[i]) THEN "completed"
                              ELSE "rejected"
                         ELSE IF actions[i].epoch # run.epoch THEN "rejected"
                         ELSE "executing"
          IN /\ actions' = FinishAction(claimed, i, settled)
             /\ al' = IF settled # "executing" THEN IdleLoop
                      ELSE [pc |-> IF StopWasConfirmed(actions[i]) THEN "confirm"
                                   ELSE "stop",
                            id |-> i]
  /\ UNCHANGED <<run, cells, context, rn, ctl, signal, queue, ran>>

SettleAction(status) ==
  /\ actions' = FinishAction(actions, al.id, status)
  /\ al' = IdleLoop

\* validate_stop_eligibility.  A resource changes its version with every
\* observation, so a first attempt may find that it has moved on.
StopIsEligible(a) == res = "active" \/ (res = "stopping" /\ a.recovered)

RequestResourceStop ==
  /\ Suspended /\ al.pc = "stop"
  /\ \/ /\ StopIsEligible(actions[al.id])
        /\ res' = "stopping"
        /\ al' = [al EXCEPT !.pc = "adapter"]
        /\ UNCHANGED actions
     \/ /\ ~StopIsEligible(actions[al.id]) \/ ~actions[al.id].recovered
        /\ SettleAction("rejected") /\ UNCHANGED res
  /\ UNCHANGED <<run, cells, source, proc, rn, ctl, signal, queue, cli, ran>>

\* The provider takes the stop (on_stop_accepted is cancel()), or refuses it.
StopIsAccepted ==
  /\ Suspended /\ al.pc = "adapter"
  /\ Cancel
  /\ al' = [al EXCEPT !.pc = "confirm"]
  /\ UNCHANGED <<cells, actions, context, rn, signal, ran>>

StopIsRefused ==
  /\ Suspended /\ al.pc = "adapter"
  /\ SettleAction("failed")
  /\ res' \in IF res = "stopping" THEN {"stopping", "active"} ELSE {res}
  /\ UNCHANGED <<run, cells, source, proc, rn, ctl, signal, queue, cli, ran>>

\* The resource is seen to have ended, and the run is cancelled again;
\* a run that has settled meanwhile keeps its status.
StopIsConfirmed ==
  /\ Suspended /\ al.pc = "confirm"
  /\ res' = "cancelled"
  /\ Cancel
  /\ IF IsTerminal(run) THEN SettleAction("completed")
     ELSE al' = [al EXCEPT !.pc = "cascade"] /\ UNCHANGED actions
  /\ UNCHANGED <<cells, source, proc, rn, signal, cli, ran>>

\* The deadline passes, and the resource may be stopped again.
StopTimesOut ==
  /\ Suspended /\ al.pc = "confirm"
  /\ SettleAction("failed")
  /\ res' = IF res = "stopping" THEN "active" ELSE res
  /\ UNCHANGED <<run, cells, source, proc, rn, ctl, signal, queue, cli, ran>>

\* stop_cancel_resources has gone through the others; none of them can fail
\* the action.
StopCascades ==
  /\ Suspended /\ al.pc = "cascade"
  /\ SettleAction("completed")
  /\ UNCHANGED <<run, cells, context, rn, ctl, signal, queue, ran>>

-----------------------------------------------------------------------------
(* Signals, the resource, edits, and the commands of other processes. *)

\* _ServeSignalState.request: the first signal starts a task that cancels,
\* any later one is ignored.
Signal ==
  /\ proc.state = "starting" \/ Suspended
  /\ signal = "none" /\ MaxSignals = 1
  /\ signal' = "pending"
  /\ UNCHANGED <<durable, proc, rn, ctl, queue, al, cli, ran>>

ServeSignal ==
  /\ proc.state = "starting" \/ Suspended
  /\ signal = "pending"
  /\ signal' = "served"
  /\ Cancel
  /\ UNCHANGED <<cells, actions, context, rn, al, ran>>

\* The executing cell emits the resource; its monitor sees it end.
RegisterResource ==
  /\ At("exec") /\ res = "absent"
  /\ res' = "active"
  /\ UNCHANGED <<run, cells, actions, source, proc, rn, tasks, cli, ran>>

ObserveResourceEnd ==
  /\ Suspended
  /\ \/ res = "active" /\ res' \in {"succeeded", "failed"}
     \/ res = "stopping" /\ res' = "cancelled"
  /\ UNCHANGED <<run, cells, actions, source, proc, rn, tasks, cli, ran>>

Edit ==
  /\ \E c \in CodeCells, version \in 1 .. MaxEdits :
       /\ \A d \in Cells : source[d] < version
       /\ source' = [source EXCEPT ![c] = version]
  /\ UNCHANGED <<run, cells, actions, res, proc, rn, tasks, cli, ran>>

\* A live `resume`, `restart` or `resource stop`: the run is read, with the
\* controller found alive, ...
CliReads ==
  /\ Up /\ cli = NoCommand /\ Len(actions) < MaxActions
  /\ \E kind \in Kinds : \E from \in Cells :
       /\ kind # "restart" => from = 0
       /\ kind = "stop_resource" => res # "absent"
       /\ cli' = NewAction(kind, run, BlankNotebook, from)
  /\ UNCHANGED <<durable, proc, rn, tasks, ran>>

\* ... and the action inserted, bound to what was read and to the source as
\* it is now.
CliInserts ==
  /\ cli # NoCommand
  /\ actions' = Append(actions, IF cli.kind \in RecoveryKind
                                THEN [cli EXCEPT !.src = source] ELSE cli)
  /\ cli' = NoCommand
  /\ UNCHANGED <<run, cells, source, res, proc, rn, tasks, ran>>

-----------------------------------------------------------------------------
(* Processes. *)

Down ==
  /\ proc' = [proc EXCEPT !.state = "down", !.off = "idle", !.action = 0,
                          !.stopPending = FALSE, !.cancelling = FALSE]
  /\ Forget

\* A stopped run is taken up, with the actions and on behalf of the action i.
TakeUp(state, boot, as, i) ==
  /\ actions' = as
  /\ proc' = [proc EXCEPT !.state = state, !.number = @ + 1, !.boot = boot,
                          !.action = i,
                          !.off = IF state = "offline" THEN "claim" ELSE "idle"]

\* `resume` or `restart` of a stopped run: _offline_recovery_action goes
\* through the requests from the newest on, uses one that asks for the same
\* again and rejects those it met before.
RequestRecovery ==
  /\ proc.state = "down" /\ proc.number < MaxProcesses
  /\ \E kind \in Kinds \cap RecoveryKind : \E from \in Cells :
       LET wanted == NewAction(kind, run, source, from)
           found == RecoverIncompleteActions(actions)
           same == {i \in RecoveryRequests(found) :
                      [found[i] EXCEPT !.recovered = FALSE] = wanted}
       IN /\ kind = "resume" => from = 0 /\ ~IsTerminal(run)
          /\ \/ /\ same = {} /\ Len(actions) < MaxActions
                /\ TakeUp("preparing", kind, Append(RejectRequestsAfter(found, 0), wanted),
                          Len(actions) + 1)
             \/ \E newest \in same :
                  /\ \A i \in same : i <= newest
                  /\ TakeUp("preparing", kind, RejectRequestsAfter(found, newest), newest)
  /\ UNCHANGED <<run, cells, source, res, rn, tasks, cli, ran>>

\* start() up to its first await: what was executing is requested again, and
\* the bootstrap action is claimed unless the run or the source has moved on.
ClaimBootstrap ==
  /\ proc.state = "preparing"
  /\ LET found == RecoverIncompleteActions(actions)
         claimed == ClaimAction(found, proc.action)
         a == actions[proc.action]
         rejected == \/ a.kind = "resume" /\ IsTerminal(run)
                     \/ a.epoch # run.epoch \/ a.attempt # run.failedAttempt
                     \/ a.failedCell # run.failedCell \/ a.src # source
     IN IF rejected
        THEN /\ actions' = FinishAction(claimed, proc.action, "rejected")
             /\ Down
        ELSE /\ actions' = claimed
             /\ proc' = [proc EXCEPT !.state = "starting",
                            !.stopPending = HasUnfinishedStopActions(found),
                            !.cancelling = run.status = "cancelling"]
             /\ UNCHANGED <<rn, tasks>>
  /\ UNCHANGED <<run, cells, source, res, cli, ran>>

\* start() after the services are restored: the process registers, the
\* bootstrap action completes unless the source has changed, and the tasks
\* are created.
Serve ==
  /\ proc.state = "starting"
  /\ IF proc.action # 0 /\ actions[proc.action].src # source
     THEN /\ actions' = FinishAction(actions, proc.action, "rejected")
          /\ Down
     ELSE /\ actions' = IF proc.action = 0 THEN actions
                        ELSE FinishAction(actions, proc.action, "completed")
          /\ proc' = [proc EXCEPT !.state = "up",
                         !.stopPending = @ \/ HasUnfinishedStopActions(actions)]
          /\ rn' = [NoRunner EXCEPT !.pc = "gate"]
          /\ UNCHANGED <<tasks>>
  /\ UNCHANGED <<run, cells, source, res, cli, ran>>

QuiesceAnyRun ==   \* mutant: a settled run is paused as well
  /\ Suspended
  /\ run' = UpdateRunStatus(run, "paused")
  /\ Down
  /\ UNCHANGED <<cells, actions, source, res, cli, ran>>

QuiesceLeavingTasks ==   \* mutant: the tasks are not awaited
  /\ Suspended
  /\ run' = IF IsTerminal(run) THEN run ELSE UpdateRunStatus(run, "paused")
  /\ proc' = [proc EXCEPT !.state = "down"]
  /\ UNCHANGED <<cells, actions, source, res, rn, tasks, cli, ran>>

\* The process exits with its tasks still running (the web server ended, or
\* the process was interrupted), or after the run was finalized: quiesce()
\* leaves an unfinished run paused.
Quiesce ==
  /\ Suspended
  /\ run' = IF IsTerminal(run) THEN run ELSE UpdateRunStatus(run, "paused")
  /\ Down
  /\ UNCHANGED <<cells, actions, source, res, cli, ran>>

Crash ==
  /\ proc.state # "down"
  /\ Down
  /\ UNCHANGED <<durable, cli, ran>>

\* `resource stop` of a stopped run: a requested stop is taken up again, a
\* new one is created unless the run is terminal; then it is claimed.
Off(step) == proc.state = "offline" /\ proc.off = step
OffTo(step) == proc' = [proc EXCEPT !.off = step]

OfflineStopPrepares ==
  /\ proc.state = "down" /\ proc.number < MaxProcesses
  /\ res # "absent" /\ "stop_resource" \in Kinds
  /\ LET recovered == RecoverIncompleteActions(actions)
         same == {i \in Pending(recovered, "requested") :
                    recovered[i].kind = "stop_resource"}
         new == NewAction("stop_resource", run, BlankNotebook, 0)
     IN \/ /\ same = {} /\ ~IsTerminal(run) /\ Len(actions) < MaxActions
           /\ TakeUp("offline", "stop_resource", Append(recovered, new),
                     Len(actions) + 1)
        \/ \E newest \in same :
             /\ \A i \in same : i <= newest
             /\ TakeUp("offline", "stop_resource", recovered, newest)
  /\ UNCHANGED <<run, cells, source, res, rn, tasks, cli, ran>>

OfflineSettles(status) ==
  /\ actions' = FinishAction(actions, proc.action, status)
  /\ Down

OfflineStopClaims ==
  /\ Off("claim")
  /\ LET a == actions[proc.action]
     IN IF a.epoch # run.epoch THEN OfflineSettles("rejected")
        ELSE IF IsTerminal(run)
             THEN OfflineSettles(IF StopWasConfirmed(a) THEN "completed" ELSE "rejected")
             ELSE /\ actions' = ClaimAction(actions, proc.action)
                  /\ OffTo(IF StopWasConfirmed(a) THEN "cancel" ELSE "request")
                  /\ UNCHANGED <<rn, tasks>>
  /\ UNCHANGED <<run, cells, source, res, cli, ran>>

OfflineStopRequests ==
  /\ Off("request")
  /\ IF StopIsEligible(actions[proc.action])
     THEN /\ res' = "stopping" /\ OffTo("adapter")
          /\ UNCHANGED <<actions, rn, tasks>>
     ELSE OfflineSettles("rejected") /\ UNCHANGED res
  /\ UNCHANGED <<run, cells, source, cli, ran>>

\* Accepted: _cancel_offline_run.  Refused, or not confirmed in time: the stop
\* fails.
OfflineStopAccepted ==
  /\ Off("adapter")
  /\ run' = RequestRunCancellation(run, proc.number)
  /\ OffTo("confirm")
  /\ UNCHANGED <<cells, actions, source, res, rn, tasks, cli, ran>>

OfflineStopRefused ==
  /\ Off("adapter") \/ Off("confirm")
  /\ OfflineSettles("failed")
  /\ res' \in IF Off("adapter") THEN {"stopping", "active", "cancelled"} ELSE {"active"}
  /\ UNCHANGED <<run, cells, source, cli, ran>>

OfflineStopConfirmed ==
  /\ Off("confirm")
  /\ res' = "cancelled"
  /\ OffTo("cancel")
  /\ UNCHANGED <<run, cells, actions, source, rn, tasks, cli, ran>>

OfflineStopCancels ==
  /\ Off("cancel")
  /\ run' = RequestRunCancellation(run, proc.number)
  /\ OffTo("finish")
  /\ UNCHANGED <<cells, actions, source, res, rn, tasks, cli, ran>>

OfflineStopFinishes ==
  /\ Off("finish")
  /\ run' = FinishRun(run, "cancelled", "run.cancelled")
  /\ OffTo("complete")
  /\ UNCHANGED <<cells, actions, source, res, rn, tasks, cli, ran>>

OfflineStopCompletes ==
  /\ Off("complete")
  /\ OfflineSettles("completed")
  /\ UNCHANGED <<run, cells, source, res, cli, ran>>

-----------------------------------------------------------------------------
StartRunner ==
  LeaveGate \/ ReadAndBeginEpoch \/ RecordSource \/ ReplaceCells \/ KernelStarts

RunCells ==
  \/ NextCell \/ BeginAttempt \/ CellSucceeds \/ CellPublished
  \/ FailureSettles \/ PauseFailedCell \/ RecordInterrupted

ExecEnds == ExecReturns \/ ExecFails \/ ExecBreaks

Recover == TakeCommand \/ ApplyRecovery \/ AcceptRecovery

FinishRunner ==
  \/ LeaveEpoch \/ OutputPublished \/ BlockingWaitEnds \/ StopCancelResources
  \/ FinishSucceeded \/ FinishCancelled \/ FinishFailed \/ Finalize

Runner == StartRunner \/ RunCells \/ Recover \/ FinishRunner

ActionLoop ==
  \/ DispatchRecovery \/ DispatchStop \/ RequestResourceStop
  \/ StopIsAccepted \/ StopIsRefused \/ StopIsConfirmed \/ StopTimesOut
  \/ StopCascades

Environment ==
  \/ Signal \/ RegisterResource \/ ObserveResourceEnd \/ Edit
  \/ CliReads \/ CliInserts

Process ==
  \/ RequestRecovery \/ ClaimBootstrap \/ Serve \/ Quiesce \/ Crash

OfflineStop ==
  \/ OfflineStopPrepares \/ OfflineStopClaims \/ OfflineStopRequests
  \/ OfflineStopAccepted \/ OfflineStopRefused \/ OfflineStopConfirmed
  \/ OfflineStopCancels \/ OfflineStopFinishes \/ OfflineStopCompletes

Next ==
  \/ Runner \/ ExecEnds \/ RunnerError \/ BlockingWaitTimesOut \/ ActionLoop \/ ServeSignal
  \/ Environment \/ Process \/ OfflineStop

Spec == Init /\ [][Next]_vars

(* What a live process gets done: each await of the runner ends (it has a  *)
(* timeout or is local I/O), except that a cell may execute for ever unless *)
(* its cancellation is escalated, and a resource may run for ever; the      *)
(* action loop polls, and each stop has a deadline.  Nobody owes an edit, a *)
(* command, a signal, a crash or an error.                                  *)
EscalationEndsExec == ctl.escalating /\ ExecEnds

Fairness ==
  /\ WF_vars(Runner) /\ WF_vars(EscalationEndsExec)
  /\ WF_vars(ActionLoop) /\ WF_vars(ServeSignal) /\ WF_vars(Serve)

FairSpec == Spec /\ Fairness

-----------------------------------------------------------------------------
\* There is a runner exactly while the process is up.
TypeOK ==
  /\ run \in Runs
  /\ cells \in [Cells -> CellRows]
  /\ actions \in Seq(Actions)
  /\ source \in Notebooks
  /\ res \in ResStatus
  /\ proc \in Processes
  /\ rn \in Runners /\ (rn.pc = "none" <=> ~Up)
  /\ ctl \in Controls
  /\ signal \in Signals
  /\ queue \in Seq(Nat)
  /\ al \in Loops
  /\ cli \in Actions
  /\ ran \in [Cells -> [epoch: Nat, attempt: Nat, src: Nat]]

\* terminal_event_for_state finds the event of every terminal run, whatever
\* crashes and restarts came before: it is of a type that its status allows
\* and of the current kernel epoch.
TerminalEventMatchesRun ==
  IsTerminal(run) => /\ run.event \in TerminalEventsOf(run.status)
                     /\ run.eventEpoch = run.epoch

\* finalization_complete, which authorizes the removal of the run directory,
\* is never set on a run that is not settled, nor left set by a restart.
FinalizedRunIsTerminal == run.finalized => IsTerminal(run)

\* A run that succeeded has executed every code cell of the last replay in
\* its last kernel epoch; the cells it did not replay are a prefix.
SucceededRunIsComplete ==
  run.status = "succeeded" =>
    \A c \in Cells :
      \/ /\ cells[c].status = "not_replayed"
         /\ \A d \in 0 .. c : cells[d].status = "not_replayed"
      \/ c \notin CodeCells /\ cells[c].status = "skipped"
      \/ /\ c \in CodeCells /\ cells[c].status = "succeeded"
         /\ cells[c].epoch = run.epoch /\ ran[c].epoch = run.epoch

\* What the store says of a cell of this kernel epoch is what the kernel
\* executed: same attempt, same source, though the notebook is edited and
\* read again at any time.
RecordedSourceRan ==
  \A c \in Cells :
    (/\ cells[c].epoch = run.epoch
     /\ cells[c].status \in {"running", "succeeded", "interrupted"}) =>
        ran[c] = [epoch |-> run.epoch, attempt |-> cells[c].attempt,
                  src |-> cells[c].src]

\* Both: the cells that a success rests on ran, in this kernel epoch, in the
\* version that the store shows.
SuccessIsOfTheSource == SucceededRunIsComplete /\ RecordedSourceRan

\* At most one recovery of a run is in flight: a resume and a restart sent
\* by two operators do not both act on one failure.
OneRecoveryInFlight ==
  \A i, j \in ActionIds(actions) :
    (/\ Up /\ actions[i].kind \in RecoveryKind /\ actions[j].kind \in RecoveryKind
     /\ actions[i].status = "executing" /\ actions[j].status = "executing")
      => i = j

\* A recovery completes only on the failure it was requested for: the same
\* kernel epoch, cell and attempt, however late it is claimed.
RecoveryMatchesFailure ==
  [][\A i \in ActionIds(actions) :
       (/\ actions[i].kind \in RecoveryKind
        /\ actions[i].status # "completed" /\ actions'[i].status = "completed") =>
         /\ actions[i].epoch = run.epoch
         /\ actions[i].attempt = run.failedAttempt
         /\ actions[i].failedCell = run.failedCell]_vars

\* Both: of the recoveries that operators send, one at a time acts, on the failure
\* it was sent for.
RecoveryIsOfItsFailure == []OneRecoveryInFlight /\ RecoveryMatchesFailure

\* The runner waits for a command only where one can reach it: the failure
\* it waits on is the recorded one, and if the run is cancelling then the
\* cancel command is on its way.
PausedRunnerIsReachable ==
  At("recover") =>
    /\ ctl.paused
    /\ run.failedCell = rn.idx /\ run.failedAttempt = cells[rn.idx].attempt
    /\ cells[rn.idx].status = "failed"
    /\ \/ run.status = "paused"
       \/ run.status = "cancelling" /\ \E k \in 1 .. Len(queue) : queue[k] = 0

\* A cancellation that this process persisted is never answered by success,
\* not even when it arrives during the last checkpoint.
NoSuccessAfterCancel ==
  [][run'.status = "succeeded" /\ run.status # "succeeded" =>
       ~ctl.cancelReq /\ run.asked # proc.number]_vars

\* A process that finds the run cancelling finishes the cancellation; it
\* executes no cell, also when it was started by `restart`.
RecoveredCancellationExecutesNothing ==
  Up /\ proc.cancelling => rn.pc \notin {"kernel", "next", "begin", "exec"}

\* Both: a cancellation on record is honoured by the process that persisted it and
\* by the one that finds it.
CancellationIsKept == []RecoveredCancellationExecutesNothing /\ NoSuccessAfterCancel

\* A terminal run becomes live again only in a process that `restart`
\* brought up.
TerminalLeftOnlyByRestart ==
  [][IsTerminal(run) /\ run'.status # run.status =>
       Up /\ proc.boot = "restart" /\ ~proc.stopPending]_vars

\* Cancelling a cell that executes ends: the escalation gets it out of the
\* kernel and the run settles.
ExecutingCancellationSettles == ctl.escalating ~> (IsTerminal(run) \/ ~Up)

\* A live controller answers every action: the loop and the runner neither
\* lose a command nor wait for each other.  What can be left unanswered is a
\* recovery queued for a runner that a cancellation has already called away.
ActionsSettle ==
  \A i \in 1 .. MaxActions :
    (Up /\ i \in Unsettled(actions))
      ~> (\/ ~Up \/ i \notin Unsettled(actions)
          \/ ctl.cancelReq /\ \E k \in 1 .. Len(queue) : queue[k] = i)

-----------------------------------------------------------------------------
(* What the documentation says, and the code does not do. *)

\* README.md: "an execution client that still does not return is detached so
\* the run can settle as `cancelled` instead of hanging indefinitely."
CancellationIsBounded ==
  (Up /\ ctl.cancelReq) ~> (IsTerminal(run) \/ ~Up)

\* docs/architecture.md: "Run cancellation first persists `cancelling`",
\* for a later process to finish: it executes no cell before the run settles.
PersistedCancellationIsFinal ==
  rn.pc = "exec" => run.asked \in {0, proc.number}

=============================================================================
