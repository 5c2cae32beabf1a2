-------------------------- MODULE RunLifecycleProofs --------------------------
(***************************************************************************)
(* What RunLifecycle guarantees for any notebook, bounds, and crashes.     *)
(*                                                                         *)
(*   TypeInv       TypeOK, and the references between rows and memory      *)
(*   SettledInv    a live runner works on a run that is not terminal       *)
(*   AskedInv      a process remembers the cancellation it has persisted   *)
(*   RecoveredInv  where a process is that found the run cancelling        *)
(*   PausedInv     what a runner that waits for a command knows            *)
(*   SourceInv     what the runner has read and executed of the notebook   *)
(*   RecoveryInv   where the one recovery in flight is                     *)
(*                                                                         *)
(* are inductive, each relative to the ones before it.  RunEvolves sums up *)
(* what any step may do to the row of the run.                             *)
(***************************************************************************)
EXTENDS RunLifecycle, RunStoreProofs

\* Where the runner works on the cell rn.idx.
CellPCs == {"begin", "exec", "settle", "publishCell", "failing", "pausing",
            "recover", "apply", "accept", "interrupted"}

StoreOK == /\ run \in Runs /\ cells \in CellTable /\ actions \in Seq(Actions)
           /\ source \in Notebooks /\ res \in ResStatus

ProcOK == proc \in Processes /\ proc.action \in 0 .. Len(actions)

RunnerOK == /\ rn \in Runners /\ (rn.pc = "none" <=> ~Up)
            /\ rn.pc \in CellPCs => rn.idx \in Cells
            /\ rn.pc \in {"apply", "accept"} => rn.cmd \in 1 .. Len(actions)

MemoryOK == /\ ctl \in Controls /\ signal \in Signals
            /\ queue \in Seq(0 .. Len(actions)) /\ al \in Loops

HistoryOK == /\ cli \in Actions
             /\ ran \in [Cells -> [epoch: Nat, attempt: Nat, src: Nat]]

\* TypeOK is not inductive: the ids that the queue, the process and the
\* runner hold must be those of actions, and the cell worked on a cell.
TypeInv == StoreOK /\ ProcOK /\ RunnerOK /\ MemoryOK /\ HistoryOK

LEMMA TypeInvImpliesTypeOK == TypeInv => TypeOK
<1> SUFFICES ASSUME TypeInv PROVE TypeOK OBVIOUS
<1> USE DEF TypeInv, StoreOK, ProcOK, RunnerOK, MemoryOK, HistoryOK
<1>1. queue \in Seq(Nat)
  <2>1. Len(actions) \in Nat BY LenProperties
  <2>2. 0 .. Len(actions) \subseteq Nat BY <2>1
  <2> QED BY <2>2, SeqMonotonic
<1> QED BY <1>1 DEF TypeOK, CellTable

-----------------------------------------------------------------------------
(* The values the memory starts from. *)

LEMMA BlankIsNotebook == BlankNotebook \in Notebooks
  BY DEF BlankNotebook, Notebooks

LEMMA NoRunnerIsRunner == NoRunner \in Runners /\ NoRunner.pc = "none"
  BY CellsAreNaturals, BlankIsNotebook, NotebookHasCells
     DEF NoRunner, Runners, AwaitPCs, SyncPCs, Outcomes, Failures

LEMMA NoCommandIsAction == NoCommand \in Actions
<1>1. NewRun \in Runs
  BY CellsAreNaturals DEF NewRun, Runs, RunStatus, NoAttempt
<1>2. NewAction("resume", NewRun, BlankNotebook, 0) \in Actions
  BY <1>1, BlankIsNotebook, NewActionRow, CellsAreNaturals DEF ActionKind
<1> QED BY <1>2 DEF NoCommand, Actions, ActionStatus

LEMMA InitTypeInv == Init => TypeInv
<1> SUFFICES ASSUME Init PROVE TypeInv OBVIOUS
<1>1. NewRun \in Runs
  BY CellsAreNaturals DEF NewRun, Runs, RunStatus, NoAttempt
<1>2. cells \in CellTable
  BY BlankIsNotebook DEF Init, InitializeCells, CellTable, CellRows, CellStatus, Notebooks
<1>3. StoreOK
  BY <1>1, <1>2, BlankIsNotebook, EmptySeq DEF Init, StoreOK, ResStatus
<1>4. ProcOK BY EmptySeq DEF Init, ProcOK, Processes
<1>5. RunnerOK BY NoRunnerIsRunner DEF Init, RunnerOK, Up, CellPCs
<1>6. MemoryOK
  BY EmptySeq DEF Init, MemoryOK, NoControl, Controls, Signals, IdleLoop, Loops
<1>7. HistoryOK BY NoCommandIsAction DEF Init, HistoryOK
<1> QED BY <1>3, <1>4, <1>5, <1>6, <1>7 DEF TypeInv

-----------------------------------------------------------------------------
(* The updates that actions share. *)

PCs == AwaitPCs \cup SyncPCs \cup {"none"}

LEMMA GotoRunner ==
  ASSUME rn \in Runners, NEW pc \in PCs, Goto(pc)
  PROVE  /\ rn' \in Runners /\ rn'.pc = pc /\ rn'.idx = rn.idx /\ rn'.cmd = rn.cmd
         /\ rn'.outcome = rn.outcome /\ rn'.checkpoints = rn.checkpoints
  BY DEF Goto, Runners, PCs

LEMMA LeaveRunner ==
  ASSUME rn \in Runners, NEW outcome \in Outcomes, Leave(outcome)
  PROVE  rn' \in Runners /\ rn'.pc = "teardown" /\ rn'.checkpoints = rn.checkpoints
  BY DEF Leave, Runners, AwaitPCs

LEMMA FinishedRunner ==
  ASSUME rn \in Runners, NEW pc \in PCs, Finish(pc)
  PROVE  rn' \in Runners /\ rn'.pc = pc /\ rn'.checkpoints = rn.checkpoints
<1>1. rn.checkpoints \in BOOLEAN BY DEF Runners
<1> QED BY <1>1, NoRunnerIsRunner DEF Finish, Runners, PCs

LEMMA FailRunner ==
  ASSUME NEW failure \in Failures, Fail(failure)
  PROVE  rn' \in Runners /\ rn'.pc = "failckpt" /\ rn'.checkpoints
  BY NoRunnerIsRunner DEF Fail, Runners, AwaitPCs

LEMMA DownKeepsTypes ==
  ASSUME TypeInv, Down
  PROVE  /\ proc' \in Processes /\ proc'.action = 0 /\ ~Up' /\ RunnerOK' /\ MemoryOK'
<1>1. proc' \in Processes /\ proc'.action = 0 /\ ~Up'
  BY DEF TypeInv, ProcOK, Down, Processes, Up
<1>2. RunnerOK'
  BY <1>1, NoRunnerIsRunner DEF Down, Forget, RunnerOK, CellPCs
<1>3. MemoryOK'
  BY EmptySeq DEF Down, Forget, MemoryOK, NoControl, Controls, Signals, IdleLoop, Loops
<1> QED BY <1>1, <1>2, <1>3

LEMMA CancelKeepsTypes ==
  ASSUME TypeInv, Cancel
  PROVE  run' \in Runs /\ ctl' \in Controls /\ queue' \in Seq(0 .. Len(actions))
<1> USE DEF TypeInv, StoreOK, ProcOK, MemoryOK
<1>1. run' \in Runs
  BY RequestRunCancellationRow DEF Cancel, Processes
<1>2. ctl' \in Controls BY DEF Cancel, Controls
<1>3. queue' \in Seq(0 .. Len(actions))
  <2>1. 0 \in 0 .. Len(actions) BY LenProperties
  <2>2. Append(queue, 0) \in Seq(0 .. Len(actions)) BY <2>1, AppendProperties
  <2>3. queue' \in {queue, Append(queue, 0)} BY DEF Cancel
  <2> QED BY <2>2, <2>3
<1> QED BY <1>1, <1>2, <1>3

-----------------------------------------------------------------------------
(* Every action keeps the types: what it assigns is of its type, and what  *)
(* the runner and the queue refer to is still there.                       *)

LEMMA CellBounds ==
  /\ Cells \subseteq 0 .. NumCells
  /\ \A i \in 0 .. NumCells : i # NumCells => i \in Cells /\ i + 1 \in 0 .. NumCells
  /\ \A c \in Cells : c + 1 \in 0 .. NumCells
  BY NotebookHasCells DEF Cells

LEMMA ActionFields ==
  ASSUME NEW as \in Seq(Actions), NEW i \in 1 .. Len(as)
  PROVE  as[i] \in Actions /\ as[i].from \in Cells
<1>1. as[i] \in Actions BY ElementOfSeq
<1> QED BY <1>1 DEF Actions

LEMMA StartRunnerKeepsTypes ==
  ASSUME TypeInv, StartRunner
  PROVE  TypeInv'
<1> USE DEF TypeInv, StoreOK, ProcOK, RunnerOK, MemoryOK, HistoryOK, context, tasks
<1>1. CASE LeaveGate
  <2>1. run' \in Runs BY <1>1, UpdateRunStatusRow DEF LeaveGate, RunStatus
  <2>2. rn' \in Runners /\ rn'.pc \in {"stopres", "returned", "load"}
    <3>1. CASE Finish("stopres") \/ Finish("returned")
      BY <3>1, FinishedRunner DEF PCs, AwaitPCs
    <3>2. CASE ~(Finish("stopres") \/ Finish("returned"))
      <4>1. PICK from \in Cells :
              rn' = [rn EXCEPT !.pc = "load", !.checkpoints = TRUE, !.from = from,
                               !.replace = proc.boot # "execute"]
        <5>1. proc.action # 0 => actions[proc.action].from \in Cells
          BY ActionFields, LenProperties
        <5> QED BY <1>1, <3>2, <5>1, CellsAreNaturals DEF LeaveGate
      <4> QED BY <4>1 DEF Runners, SyncPCs
    <3> QED BY <3>1, <3>2
  <2>3. ctl' \in Controls BY <1>1 DEF LeaveGate, Controls
  <2> QED BY <1>1, <2>1, <2>2, <2>3 DEF LeaveGate, At, Up, CellPCs
<1>2. CASE ReadAndBeginEpoch
  <2>1. run' \in Runs BY <1>2, BeginKernelEpochRow DEF ReadAndBeginEpoch
  <2>2. rn' \in Runners /\ rn'.pc \in {"stopres", "update", "failckpt"}
    <3>1. CASE Finish("stopres") BY <3>1, FinishedRunner DEF PCs, AwaitPCs
    <3>2. CASE Fail("run.runner_error") BY <3>2, FailRunner DEF Failures
    <3>3. CASE rn' = [rn EXCEPT !.pc = "update", !.nb = source]
      BY <3>3 DEF Runners, SyncPCs
    <3> QED BY <1>2, <3>1, <3>2, <3>3 DEF ReadAndBeginEpoch
  <2> QED BY <1>2, <2>1, <2>2 DEF ReadAndBeginEpoch, At, Up, CellPCs
<1>3. CASE RecordSource
  <2>1. cells' \in CellTable BY <1>3, UpdateSourceRows DEF RecordSource, Runners
  <2>2. rn' \in Runners /\ rn'.pc = "replace"
    BY <1>3, GotoRunner DEF RecordSource, PCs, SyncPCs
  <2> QED BY <1>3, <2>1, <2>2 DEF RecordSource, At, Up, CellPCs
<1>4. CASE ReplaceCells
  <2>1. cells' \in CellTable
    <3>1. rn.nb \in Notebooks /\ run.epoch \in Nat /\ rn.from \in Cells BY DEF Runners, Runs
    <3>2. ReplaceCellsForRestart(rn.nb, run.epoch, rn.from) \in CellTable
      BY <3>1, ReplaceRows
    <3> QED BY <1>4, <3>2 DEF ReplaceCells
  <2>2. rn' \in Runners /\ rn'.pc = "kernel"
    BY <1>4 DEF ReplaceCells, Runners, AwaitPCs
  <2> QED BY <1>4, <2>1, <2>2 DEF ReplaceCells, At, Up, CellPCs
<1>5. CASE KernelStarts
  <2>1. run' \in Runs BY <1>5, UpdateRunningRow DEF KernelStarts
  <2>2. rn' \in Runners /\ rn'.pc = "next"
    BY <1>5, CellBounds DEF KernelStarts, Runners, SyncPCs
  <2> QED BY <1>5, <2>1, <2>2 DEF KernelStarts, At, Up, CellPCs
<1> QED BY <1>1, <1>2, <1>3, <1>4, <1>5 DEF StartRunner

LEMMA RunCellsKeepsTypes ==
  ASSUME TypeInv, RunCells
  PROVE  TypeInv'
<1> USE DEF TypeInv, StoreOK, ProcOK, RunnerOK, MemoryOK, HistoryOK, context, tasks
<1>1. CASE NextCell
  <2>1. cells' \in CellTable
    BY <1>1, CompleteCellRows DEF NextCell, MarkCellSkipped, CellStatus
  <2>2. rn' \in Runners /\ rn'.pc \in {"teardown", "begin", "next"}
    <3>1. CASE Leave("cancel") \/ Leave("complete")
      BY <3>1, LeaveRunner DEF Outcomes
    <3>2. CASE Goto("begin") BY <3>2, GotoRunner DEF PCs, SyncPCs
    <3>3. CASE rn.idx # NumCells /\ rn' = [rn EXCEPT !.idx = @ + 1]
      BY <1>1, <3>3, CellBounds DEF NextCell, At, Runners
    <3> QED BY <1>1, <3>1, <3>2, <3>3 DEF NextCell
  <2>3. rn'.pc = "begin" => rn'.idx \in Cells
    BY <1>1, CodeIsInCells DEF NextCell, At, Leave, Goto, Runners, Cells
  <2> QED BY <1>1, <2>1, <2>2, <2>3 DEF NextCell, At, Up, CellPCs
<1>2. CASE BeginAttempt
  <2>1. /\ rn.idx \in Cells /\ rn.nb[rn.idx] \in Nat /\ run.epoch \in Nat
        /\ cells[rn.idx].attempt + 1 \in Nat
    <3>1. rn.idx \in Cells BY <1>2 DEF BeginAttempt, At, CellPCs
    <3>2. rn.nb[rn.idx] \in Nat BY <3>1 DEF Runners, Notebooks
    <3>3. run.epoch \in Nat BY DEF Runs
    <3>4. cells[rn.idx].attempt \in Nat BY <3>1 DEF CellTable, CellRows
    <3> QED BY <3>1, <3>2, <3>3, <3>4
  <2>2. cells' \in CellTable BY <1>2, <2>1, BeginCellAttemptRows DEF BeginAttempt
  <2>3. ran' \in [Cells -> [epoch: Nat, attempt: Nat, src: Nat]]
    BY <1>2, <2>1 DEF BeginAttempt
  <2>4. run' \in Runs BY <1>2, UpdateRunningRow DEF BeginAttempt
  <2>5. ctl' \in Controls BY <1>2 DEF BeginAttempt, Controls
  <2>6. rn' \in Runners /\ rn'.pc = "exec" /\ rn'.idx = rn.idx
    BY <1>2, GotoRunner DEF BeginAttempt, PCs, AwaitPCs
  <2> QED BY <1>2, <2>1, <2>2, <2>3, <2>4, <2>5, <2>6 DEF BeginAttempt, At, Up
<1>3. CASE CellSucceeds
  <2>1. cells' \in CellTable
    BY <1>3, CompleteCellRows DEF CellSucceeds, CellStatus
  <2>2. rn' \in Runners /\ rn'.pc = "publishCell" /\ rn'.idx = rn.idx
    BY <1>3, GotoRunner DEF CellSucceeds, PCs, AwaitPCs
  <2> QED BY <1>3, <2>1, <2>2 DEF CellSucceeds, At, Up, CellPCs
<1>4. CASE CellPublished
  <2>1. rn' \in Runners /\ rn'.pc = "next"
    BY <1>4, CellBounds DEF CellPublished, At, CellPCs, Runners, SyncPCs
  <2> QED BY <1>4, <2>1 DEF CellPublished, At, Up, CellPCs, durable
<1>5. CASE FailureSettles
  <2>1. run' \in Runs /\ ctl' \in Controls /\ queue' \in Seq(0 .. Len(actions))
    BY <1>5, CancelKeepsTypes DEF FailureSettles
  <2>2. cells' \in CellTable
    BY <1>5, CompleteCellRows DEF FailureSettles, CellStatus
  <2>3. /\ rn' \in Runners /\ rn'.pc \in {"teardown", "pausing"}
        /\ rn'.pc = "pausing" => rn'.idx = rn.idx
    <3>1. CASE Leave("cancel") BY <3>1, LeaveRunner DEF Outcomes
    <3>2. CASE Goto("pausing") BY <3>2, GotoRunner DEF PCs, AwaitPCs
    <3> QED BY <1>5, <3>1, <3>2 DEF FailureSettles
  <2> QED BY <1>5, <2>1, <2>2, <2>3 DEF FailureSettles, At, Up, CellPCs
<1>6. CASE PauseFailedCell
  <2>1. cells' \in CellTable
    BY <1>6, CompleteCellRows DEF PauseFailedCell, CellStatus
  <2>2. rn.idx \in Cells /\ cells[rn.idx].attempt \in Nat
    BY <1>6 DEF PauseFailedCell, At, CellPCs, CellTable, CellRows
  <2>3. run' \in Runs BY <1>6, <2>2, PauseFailedRunRow DEF PauseFailedCell
  <2>4. ctl' \in Controls BY <1>6 DEF PauseFailedCell, Controls
  <2>5. rn' \in Runners /\ rn'.pc = "recover" /\ rn'.idx = rn.idx
    BY <1>6, GotoRunner DEF PauseFailedCell, PCs, AwaitPCs
  <2> QED BY <1>6, <2>1, <2>2, <2>3, <2>4, <2>5 DEF PauseFailedCell, At, Up
<1>7. CASE RecordInterrupted
  <2>1. cells' \in CellTable
    BY <1>7, CompleteCellRows DEF RecordInterrupted, CellStatus
  <2>2. rn' \in Runners /\ rn'.pc = "teardown"
    BY <1>7, LeaveRunner DEF RecordInterrupted, Outcomes
  <2> QED BY <1>7, <2>1, <2>2 DEF RecordInterrupted, At, Up, CellPCs
<1> QED BY <1>1, <1>2, <1>3, <1>4, <1>5, <1>6, <1>7 DEF RunCells

LEMMA ExecEndsKeepsTypes ==
  ASSUME TypeInv, ExecEnds
  PROVE  TypeInv'
<1> USE DEF TypeInv, StoreOK, ProcOK, RunnerOK, MemoryOK, HistoryOK, durable
<1>1. ctl' \in Controls BY DEF ExecEnds, ExecReturns, ExecFails, ExecBreaks, Controls
<1>2. CASE ExecReturns
  <2>1. rn' \in Runners /\ rn'.pc = "settle" /\ rn'.idx = rn.idx
    BY <1>2, GotoRunner DEF ExecReturns, PCs, AwaitPCs
  <2> QED BY <1>1, <1>2, <2>1 DEF ExecReturns, At, Up, CellPCs
<1>3. CASE ExecFails
  <2>1. rn' \in Runners /\ rn'.pc = "failing" /\ rn'.idx = rn.idx
    BY <1>3 DEF ExecFails, Runners, AwaitPCs
  <2> QED BY <1>1, <1>3, <2>1 DEF ExecFails, At, Up, CellPCs
<1>4. CASE ExecBreaks
  <2>1. rn' \in Runners /\ rn'.pc \in {"interrupted", "teardown"} /\ rn'.idx = rn.idx
    <3>1. CASE Goto("interrupted") BY <3>1, GotoRunner DEF PCs, AwaitPCs
    <3>2. CASE rn' = [rn EXCEPT !.pc = "teardown", !.outcome = "fail",
                                !.failure = "run.runner_error"]
      BY <3>2 DEF Runners, AwaitPCs, Outcomes, Failures
    <3> QED BY <1>4, <3>1, <3>2 DEF ExecBreaks
  <2> QED BY <1>1, <1>4, <2>1 DEF ExecBreaks, At, Up, CellPCs
<1> QED BY <1>2, <1>3, <1>4 DEF ExecEnds

LEMMA RecoverKeepsTypes ==
  ASSUME TypeInv, Recover
  PROVE  TypeInv'
<1> USE DEF TypeInv, StoreOK, ProcOK, RunnerOK, MemoryOK, HistoryOK, context, tasks
<1>1. CASE TakeCommand
  <2>1. Head(queue) \in 0 .. Len(actions) /\ queue' \in Seq(0 .. Len(actions))
    BY <1>1, HeadTailProperties DEF TakeCommand
  <2>2. actions' \in Seq(Actions) /\ Len(actions') = Len(actions)
    BY <1>1, FinishActionRows DEF TakeCommand, ActionStatus
  <2>3. CASE UNCHANGED rn BY <1>1, <2>1, <2>2, <2>3 DEF TakeCommand, At, Up
  <2>4. CASE Leave("cancel")
    <3>1. rn' \in Runners /\ rn'.pc = "teardown" BY <2>4, LeaveRunner DEF Outcomes
    <3> QED BY <1>1, <2>1, <2>2, <3>1 DEF TakeCommand, At, Up, CellPCs
  <2>5. CASE /\ Head(queue) # 0
             /\ rn' = [rn EXCEPT !.pc = "apply", !.cmd = Head(queue)]
    <3>1. /\ rn' \in Runners /\ rn'.pc = "apply" /\ rn'.idx = rn.idx
          /\ rn'.cmd \in 1 .. Len(actions)
      <4>1. Len(actions) \in Nat BY LenProperties
      <4>2. Head(queue) \in 1 .. Len(actions) BY <2>1, <2>5, <4>1
      <4>3. PICK id \in 1 .. Len(actions) : id = Head(queue) BY <4>2
      <4>4. rn' = [rn EXCEPT !.pc = "apply", !.cmd = id] BY <2>5, <4>3
      <4>5. id \in Nat BY <4>1
      <4>6. rn' \in Runners BY <4>4, <4>5 DEF Runners, SyncPCs
      <4>7. rn'.pc = "apply" /\ rn'.idx = rn.idx /\ rn'.cmd = id BY <4>4 DEF Runners
      <4> QED BY <4>6, <4>7
    <3> QED BY <1>1, <2>1, <2>2, <3>1 DEF TakeCommand, At, Up, CellPCs
  <2> QED BY <1>1, <2>3, <2>4, <2>5 DEF TakeCommand
<1>2. CASE ApplyRecovery
  <2>1. cells' \in CellTable BY <1>2, UpdateSourceRows DEF ApplyRecovery
  <2>2. run' \in Runs BY <1>2, UpdateRunStatusRow DEF ApplyRecovery, RunStatus
  <2>3. actions' \in Seq(Actions) /\ Len(actions') = Len(actions)
    BY <1>2, FinishActionRows DEF ApplyRecovery, ActionStatus
  <2>4. ctl' \in Controls BY <1>2 DEF ApplyRecovery, Controls
  <2>5. /\ rn' \in Runners /\ rn'.pc \in {"accept", "recover"} /\ rn'.idx = rn.idx
        /\ rn'.cmd = rn.cmd
    <3>1. rn.cmd \in 1 .. Len(actions) BY <1>2 DEF ApplyRecovery, At
    <3>2. actions[rn.cmd].from \in Cells BY <3>1, ActionFields
    <3>3. CASE Goto("recover") BY <3>3, GotoRunner DEF PCs, AwaitPCs
    <3>4. CASE ~Goto("recover")
      BY <1>2, <3>2, <3>4 DEF ApplyRecovery, Runners, SyncPCs, Outcomes
    <3> QED BY <3>3, <3>4
  <2> QED BY <1>2, <2>1, <2>2, <2>3, <2>4, <2>5 DEF ApplyRecovery, At, Up, CellPCs
<1>3. CASE AcceptRecovery
  <2>1. actions' \in Seq(Actions) /\ Len(actions') = Len(actions)
    BY <1>3, FinishActionRows DEF AcceptRecovery, ActionStatus
  <2>2. rn' \in Runners /\ rn'.pc \in {"teardown", "begin"} /\ rn'.idx = rn.idx
    BY <1>3 DEF AcceptRecovery, Runners, AwaitPCs, SyncPCs
  <2> QED BY <1>3, <2>1, <2>2 DEF AcceptRecovery, At, Up, CellPCs
<1> QED BY <1>1, <1>2, <1>3 DEF Recover

LEMMA FinishRunnerKeepsTypes ==
  ASSUME TypeInv, FinishRunner \/ BlockingWaitTimesOut
  PROVE  TypeInv'
<1> USE DEF TypeInv, StoreOK, ProcOK, RunnerOK, MemoryOK, HistoryOK, context, tasks
<1>1. CASE LeaveEpoch
  <2>1. ctl' \in Controls BY <1>1 DEF LeaveEpoch, Controls
  <2>2. rn' \in Runners /\ rn'.pc \in {"failckpt", "stopres", "load", "output"}
    <3>1. CASE Fail("run.runner_error") BY <3>1, FailRunner DEF Failures
    <3>2. CASE Finish("stopres") BY <3>2, FinishedRunner DEF PCs, AwaitPCs
    <3>3. CASE Finish("output") BY <3>3, FinishedRunner DEF PCs, AwaitPCs
    <3>4. CASE Goto("load") BY <3>4, GotoRunner DEF PCs, SyncPCs
    <3> QED BY <1>1, <3>1, <3>2, <3>3, <3>4 DEF LeaveEpoch
  <2> QED BY <1>1, <2>1, <2>2 DEF LeaveEpoch, At, Up, CellPCs, durable
<1>2. CASE OutputPublished
  <2>1. run' \in Runs BY <1>2, UpdateRunStatusRow DEF OutputPublished, RunStatus
  <2>2. rn' \in Runners /\ rn'.pc = "external"
    BY <1>2, FinishedRunner DEF OutputPublished, PCs, AwaitPCs
  <2> QED BY <1>2, <2>1, <2>2 DEF OutputPublished, At, Up, CellPCs
<1>3. CASE BlockingWaitEnds
  <2>1. run' \in Runs BY <1>3, UpdateRunStatusRow DEF BlockingWaitEnds, RunStatus
  <2>2. rn' \in Runners /\ rn'.pc \in {"failckpt", "stopres", "finalckpt"}
    <3>1. CASE Fail("run.failed_external") BY <3>1, FailRunner DEF Failures
    <3>2. CASE Finish("stopres") BY <3>2, FinishedRunner DEF PCs, AwaitPCs
    <3>3. CASE Finish("finalckpt") BY <3>3, FinishedRunner DEF PCs, AwaitPCs
    <3> QED BY <1>3, <3>1, <3>2, <3>3 DEF BlockingWaitEnds
  <2> QED BY <1>3, <2>1, <2>2 DEF BlockingWaitEnds, At, Up, CellPCs
<1>4. CASE BlockingWaitTimesOut
  <2>1. rn' \in Runners /\ rn'.pc = "failckpt"
    BY <1>4, FailRunner DEF BlockingWaitTimesOut, Failures
  <2> QED BY <1>4, <2>1 DEF BlockingWaitTimesOut, At, Up, CellPCs, durable
<1>5. CASE FinishSucceeded
  <2>1. run' \in Runs
    BY <1>5, FinishRunRow, EventsOfStatus DEF FinishSucceeded, TerminalStatus
  <2>2. rn' \in Runners /\ rn'.pc \in {"stopres", "returned"}
    BY <1>5, FinishedRunner DEF FinishSucceeded, PCs, AwaitPCs
  <2> QED BY <1>5, <2>1, <2>2 DEF FinishSucceeded, At, Up, CellPCs
<1>6. CASE FinishCancelled
  <2>1. run' \in Runs
    BY <1>6, FinishRunRow, EventsOfStatus DEF FinishCancelled, TerminalStatus
  <2>2. rn' \in Runners /\ rn'.pc = "returned"
    BY <1>6, FinishedRunner DEF FinishCancelled, PCs, AwaitPCs
  <2>3. res' \in ResStatus BY <1>6 DEF FinishCancelled, ResStatus
  <2> QED BY <1>6, <2>1, <2>2, <2>3 DEF FinishCancelled, At, Up, CellPCs
<1>7. CASE FinishFailed
  <2>1. rn.failure \in TerminalEventsOf("failed")
    BY EventsOfStatus DEF Runners, Failures
  <2>2. run' \in Runs BY <1>7, <2>1, FinishRunRow DEF FinishFailed, TerminalStatus
  <2>3. rn' \in Runners /\ rn'.pc = "returned"
    BY <1>7, FinishedRunner DEF FinishFailed, PCs, AwaitPCs
  <2> QED BY <1>7, <2>2, <2>3 DEF FinishFailed, At, Up, CellPCs
<1>8. CASE Finalize
  <2>1. run.status \in RunStatus BY DEF Runs
  <2>2. run' \in Runs BY <1>8, <2>1, MarkRunFinalizedRow DEF Finalize
  <2>3. rn' \in Runners /\ rn'.pc = "finalized"
    BY <1>8, FinishedRunner DEF Finalize, PCs, AwaitPCs
  <2> QED BY <1>8, <2>2, <2>3 DEF Finalize, At, Up, CellPCs
<1>9. CASE StopCancelResources
  BY <1>9 DEF StopCancelResources, ResStatus, At, Up
<1> QED BY <1>1, <1>2, <1>3, <1>4, <1>5, <1>6, <1>7, <1>8, <1>9 DEF FinishRunner

LEMMA RunnerErrorKeepsTypes ==
  ASSUME TypeInv, RunnerError
  PROVE  TypeInv'
<1> USE DEF TypeInv, StoreOK, ProcOK, RunnerOK, MemoryOK, HistoryOK, durable, tasks
<1>1. /\ rn' \in Runners /\ rn'.pc \in {"interrupted", "teardown", "failckpt"}
      /\ rn'.pc = "interrupted" => rn'.idx \in Cells
  <2>1. CASE rn.pc \in CellPCs /\ Goto("interrupted")
    BY <2>1, GotoRunner DEF PCs, AwaitPCs
  <2>2. CASE Leave("fail") BY <2>2, LeaveRunner DEF Outcomes
  <2>3. CASE Fail("run.runner_error") BY <2>3, FailRunner DEF Failures
  <2> QED BY <2>1, <2>2, <2>3 DEF RunnerError, CellPCs
<1> QED BY <1>1 DEF RunnerError, Suspended, AwaitPCs, Up, CellPCs

LEMMA ActionLoopKeepsTypes ==
  ASSUME TypeInv, ActionLoop
  PROVE  TypeInv'
<1> USE DEF TypeInv, StoreOK, ProcOK, RunnerOK, MemoryOK, HistoryOK, context
<1>1. actions' \in Seq(Actions) /\ Len(actions') = Len(actions)
  BY ClaimActionRows, FinishActionRows DEF ActionLoop, DispatchRecovery, DispatchStop,
     RequestResourceStop, StopIsAccepted, StopIsRefused, StopIsConfirmed,
     StopTimesOut, StopCascades, SettleAction, ActionStatus
<1>2. UNCHANGED <<cells, source, proc, rn, signal, cli, ran>>
  BY DEF ActionLoop, DispatchRecovery, DispatchStop,
     RequestResourceStop, StopIsAccepted, StopIsRefused, StopIsConfirmed,
     StopTimesOut, StopCascades
<1>3. res' \in ResStatus
  BY DEF ActionLoop, DispatchRecovery, DispatchStop,
     RequestResourceStop, StopIsAccepted, StopIsRefused, StopIsConfirmed,
     StopTimesOut, StopCascades, ResStatus
<1>4. Cancel \/ (UNCHANGED <<run, ctl>> /\ (UNCHANGED queue \/ DispatchRecovery))
  BY DEF ActionLoop, DispatchStop,
     RequestResourceStop, StopIsAccepted, StopIsRefused, StopIsConfirmed,
     StopTimesOut, StopCascades, DispatchRecovery
<1>5. run' \in Runs /\ ctl' \in Controls /\ queue' \in Seq(0 .. Len(actions))
  <2>1. CASE Cancel BY <2>1, CancelKeepsTypes
  <2>2. CASE UNCHANGED <<run, ctl, queue>> BY <2>2
  <2>3. CASE UNCHANGED <<run, ctl>> /\ DispatchRecovery
    <3>1. PICK i \in ActionIds(actions) : queue' = queue \/ queue' = Append(queue, i)
      BY <2>3 DEF DispatchRecovery
    <3>2. i \in 0 .. Len(actions) BY LenProperties DEF ActionIds
    <3>3. Append(queue, i) \in Seq(0 .. Len(actions)) BY <3>2, AppendProperties
    <3> QED BY <2>3, <3>1, <3>3
  <2> QED BY <1>4, <2>1, <2>2, <2>3
<1>6. al' \in Loops
  <2>1. CASE DispatchStop
    <3>1. \A i \in ActionIds(actions) : i \in Nat BY LenProperties DEF ActionIds
    <3> QED BY <2>1, <3>1 DEF DispatchStop, IdleLoop, Loops
  <2>2. CASE ~DispatchStop
    BY <2>2 DEF ActionLoop, DispatchRecovery,
       RequestResourceStop, StopIsAccepted, StopIsRefused, StopIsConfirmed,
       StopTimesOut, StopCascades, SettleAction, IdleLoop, Loops
  <2> QED BY <2>1, <2>2
<1> QED BY <1>1, <1>2, <1>3, <1>5, <1>6 DEF Up

LEMMA EnvironmentKeepsTypes ==
  ASSUME TypeInv, Environment \/ ServeSignal
  PROVE  TypeInv'
<1> USE DEF TypeInv, StoreOK, ProcOK, RunnerOK, MemoryOK, HistoryOK, context, tasks
<1>1. CASE Signal BY <1>1 DEF Signal, Signals, Up, durable
<1>2. CASE ServeSignal BY <1>2, CancelKeepsTypes DEF ServeSignal, Signals, Up
<1>3. CASE RegisterResource BY <1>3 DEF RegisterResource, ResStatus, Up
<1>4. CASE ObserveResourceEnd BY <1>4 DEF ObserveResourceEnd, ResStatus, Up
<1>5. CASE Edit
  <2>1. PICK c \in CodeCells, version \in 1 .. MaxEdits :
          source' = [source EXCEPT ![c] = version]
    BY <1>5 DEF Edit
  <2>2. version \in Nat BY BoundsAreNaturals
  <2>3. source' \in Notebooks BY <2>1, <2>2 DEF Notebooks
  <2> QED BY <1>5, <2>3 DEF Edit, Up
<1>6. CASE CliReads
  <2>1. cli' \in Actions
    BY <1>6, KindsOfActions, BlankIsNotebook, NewActionRow DEF CliReads
  <2> QED BY <1>6, <2>1 DEF CliReads, Up, durable
<1>7. CASE CliInserts
  <2>1. PICK a \in Actions : actions' = Append(actions, a)
    BY <1>7 DEF CliInserts, Actions
  <2>2. actions' \in Seq(Actions) /\ Len(actions') = Len(actions) + 1
    BY <2>1, AppendProperties
  <2>3. Len(actions) \in Nat BY LenProperties
  <2>4. queue \in Seq(0 .. Len(actions'))
    <3>1. 0 .. Len(actions) \subseteq 0 .. Len(actions') BY <2>2, <2>3
    <3> QED BY <3>1, SeqMonotonic
  <2> QED BY <1>7, <2>2, <2>3, <2>4, NoCommandIsAction DEF CliInserts, Up
<1> QED BY <1>1, <1>2, <1>3, <1>4, <1>5, <1>6, <1>7 DEF Environment

\* What the runner and the memory refer to stays when actions are added.
LEMMA MemoryGrows ==
  ASSUME TypeInv, Len(actions') \in Nat, Len(actions') >= Len(actions), Up' <=> Up,
         UNCHANGED <<rn, tasks>>
  PROVE  RunnerOK' /\ MemoryOK'
<1>1. Len(actions) \in Nat BY LenProperties DEF TypeInv, StoreOK
<1>2. 0 .. Len(actions) \subseteq 0 .. Len(actions') BY <1>1
<1>3. queue \in Seq(0 .. Len(actions'))
  BY <1>2, SeqMonotonic DEF TypeInv, MemoryOK
<1> QED BY <1>1, <1>3 DEF TypeInv, RunnerOK, MemoryOK, tasks

LEMMA TakeUpKeepsTypes ==
  ASSUME TypeInv, proc.state = "down", NEW state \in {"preparing", "offline"},
         NEW boot \in ActionKind, NEW as \in Seq(Actions), NEW i \in 1 .. Len(as),
         Len(as) >= Len(actions), TakeUp(state, boot, as, i),
         UNCHANGED <<run, cells, source, res, rn, tasks, cli, ran>>
  PROVE  TypeInv'
<1> USE DEF TypeInv, StoreOK, ProcOK, HistoryOK
<1>0. Len(as) \in Nat /\ i \in Nat /\ i \in 0 .. Len(as)
  <2>1. Len(as) \in Nat BY LenProperties
  <2>2. \A n \in Nat : 1 .. n \subseteq Nat /\ 1 .. n \subseteq 0 .. n OBVIOUS
  <2> QED BY <2>1, <2>2
<1>1. Len(as) \in Nat /\ Len(actions) \in Nat /\ actions' = as
  BY LenProperties DEF TakeUp
<1>2. PICK n \in Nat, off \in {"idle", "claim"}, id \in Nat :
        /\ n = proc.number + 1 /\ id = i
        /\ off = IF state = "offline" THEN "claim" ELSE "idle"
  BY <1>1 DEF Processes
<1>3. proc' = [proc EXCEPT !.state = state, !.number = n, !.boot = boot,
                           !.action = id, !.off = off]
  BY <1>2 DEF TakeUp
<1>4. proc' \in Processes BY <1>3 DEF Processes, ActionKind
<1>5. proc'.action = i /\ proc'.state = state BY <1>2, <1>3 DEF Processes
<1>6. RunnerOK' /\ MemoryOK' BY <1>1, <1>5, MemoryGrows DEF Up
<1>7. ProcOK'
  <2>1. proc'.action \in 0 .. Len(actions') BY <1>0, <1>1, <1>5
  <2> QED BY <1>4, <2>1
<1>8. StoreOK' /\ HistoryOK' BY <1>1
<1> QED BY <1>6, <1>7, <1>8

LEMMA RequestRecoveryKeepsTypes ==
  ASSUME TypeInv, RequestRecovery
  PROVE  TypeInv'
<1>1. PICK kind \in Kinds \cap RecoveryKind, from \in Cells :
        LET wanted == NewAction(kind, run, source, from)
            found == RecoverIncompleteActions(actions)
        IN \/ TakeUp("preparing", kind, Append(RejectRequestsAfter(found, 0), wanted),
                     Len(actions) + 1)
           \/ \E i \in RecoveryRequests(found) :
                TakeUp("preparing", kind, RejectRequestsAfter(found, i), i)
  BY DEF RequestRecovery
<1> DEFINE wanted == NewAction(kind, run, source, from)
           found == RecoverIncompleteActions(actions)
           rejected == RejectRequestsAfter(found, 0)
<1>2. kind \in ActionKind BY KindsOfActions
<1>3. /\ Len(actions) \in Nat /\ proc.state = "down"
      /\ UNCHANGED <<run, cells, source, res, rn, tasks, cli, ran>>
  BY LenProperties DEF RequestRecovery, TypeInv, StoreOK
<1>4. found \in Seq(Actions) /\ Len(found) = Len(actions)
  BY RecoverRows DEF TypeInv, StoreOK
<1>5. CASE TakeUp("preparing", kind, Append(rejected, wanted), Len(actions) + 1)
  <2>1. rejected \in Seq(Actions) /\ Len(rejected) = Len(actions) BY <1>4, RejectRows
  <2>2. wanted \in Actions
    BY <1>2, NewActionRow DEF TypeInv, StoreOK
  <2> DEFINE as == Append(rejected, wanted)
  <2>3. as \in Seq(Actions) /\ Len(as) = Len(actions) + 1
    BY <2>1, <2>2, AppendProperties
  <2> HIDE DEF as
  <2>4. PICK id \in 1 .. Len(as) : id = Len(actions) + 1 BY <1>3, <2>3
  <2>5. TakeUp("preparing", kind, as, id) BY <1>5, <2>4 DEF as
  <2>6. Len(as) >= Len(actions) BY <1>3, <2>3
  <2> QED BY <1>2, <1>3, <2>3, <2>5, <2>6, TakeUpKeepsTypes
<1>6. ASSUME NEW i \in RecoveryRequests(found),
             TakeUp("preparing", kind, RejectRequestsAfter(found, i), i)
      PROVE  TypeInv'
  <2> DEFINE as == RejectRequestsAfter(found, i)
  <2>1. as \in Seq(Actions) /\ Len(as) = Len(actions) BY <1>4, RejectRows
  <2>2. i \in 1 .. Len(actions) BY <1>4 DEF RecoveryRequests, Pending, ActionIds
  <2> HIDE DEF as
  <2>3. TakeUp("preparing", kind, as, i) BY <1>6 DEF as
  <2>4. i \in 1 .. Len(as) /\ Len(as) >= Len(actions) BY <1>3, <2>1, <2>2
  <2> QED BY <1>2, <1>3, <2>1, <2>3, <2>4, TakeUpKeepsTypes
<1> QED BY <1>1, <1>5, <1>6

LEMMA ProcessKeepsTypes ==
  ASSUME TypeInv, Process
  PROVE  TypeInv'
<1> USE DEF TypeInv, StoreOK, ProcOK, HistoryOK
<1>1. CASE RequestRecovery BY <1>1, RequestRecoveryKeepsTypes
<1>2. CASE ClaimBootstrap
  <2> DEFINE found == RecoverIncompleteActions(actions)
             claimed == ClaimAction(found, proc.action)
  <2>1. found \in Seq(Actions) /\ Len(found) = Len(actions) BY RecoverRows
  <2>2. claimed \in Seq(Actions) /\ Len(claimed) = Len(actions)
    BY <2>1, ClaimActionRows
  <2>3. actions' \in Seq(Actions) /\ Len(actions') = Len(actions)
    BY <1>2, <2>2, FinishActionRows DEF ClaimBootstrap, ActionStatus
  <2>4. CASE Down
    <3>1. Len(actions) \in Nat BY LenProperties
    <3> QED BY <1>2, <2>3, <2>4, <3>1, DownKeepsTypes DEF ClaimBootstrap
  <2>5. CASE /\ proc' = [proc EXCEPT !.state = "starting",
                             !.stopPending = HasUnfinishedStopActions(found),
                             !.cancelling = run.status = "cancelling"]
             /\ UNCHANGED <<rn, tasks>>
    <3>1. HasUnfinishedStopActions(found) \in BOOLEAN
      BY DEF HasUnfinishedStopActions
    <3>2. proc' \in Processes /\ proc'.action = proc.action /\ ~Up' /\ ~Up
      BY <1>2, <2>5, <3>1 DEF ClaimBootstrap, Processes, Up
    <3> QED BY <1>2, <2>3, <2>5, <3>2 DEF ClaimBootstrap, RunnerOK, MemoryOK, tasks
  <2> QED BY <1>2, <2>4, <2>5 DEF ClaimBootstrap
<1>3. CASE Serve
  <2>1. actions' \in Seq(Actions) /\ Len(actions') = Len(actions)
    BY <1>3, FinishActionRows DEF Serve, ActionStatus
  <2>2. CASE Down
    <3>1. Len(actions) \in Nat BY LenProperties
    <3> QED BY <1>3, <2>1, <2>2, <3>1, DownKeepsTypes DEF Serve
  <2>3. CASE /\ proc' = [proc EXCEPT !.state = "up",
                             !.stopPending = @ \/ HasUnfinishedStopActions(actions)]
             /\ rn' = [NoRunner EXCEPT !.pc = "gate"]
             /\ UNCHANGED <<tasks>>
    <3>1. HasUnfinishedStopActions(actions) \in BOOLEAN
      BY DEF HasUnfinishedStopActions
    <3>2. proc' \in Processes /\ proc'.action = proc.action /\ Up'
      BY <2>3, <3>1 DEF Processes, Up
    <3>3. rn' \in Runners /\ rn'.pc = "gate"
      BY <2>3, NoRunnerIsRunner DEF Runners, AwaitPCs
    <3> QED BY <1>3, <2>1, <2>3, <3>2, <3>3 DEF Serve, RunnerOK, MemoryOK, tasks, CellPCs
  <2> QED BY <1>3, <2>2, <2>3 DEF Serve
<1>4. CASE Quiesce
  <2>1. run' \in Runs BY <1>4, UpdateRunStatusRow DEF Quiesce, RunStatus
  <2>2. Len(actions) \in Nat BY LenProperties
  <2> QED BY <1>4, <2>1, <2>2, DownKeepsTypes DEF Quiesce
<1>5. CASE Crash
  <2>1. Len(actions) \in Nat BY LenProperties
  <2> QED BY <1>5, <2>1, DownKeepsTypes DEF Crash, durable
<1> QED BY <1>1, <1>2, <1>3, <1>4, <1>5 DEF Process

LEMMA OfflineStopPreparesKeepsTypes ==
  ASSUME TypeInv, OfflineStopPrepares
  PROVE  TypeInv'
<1> DEFINE found == RecoverIncompleteActions(actions)
           new == NewAction("stop_resource", run, BlankNotebook, 0)
<1>1. found \in Seq(Actions) /\ Len(found) = Len(actions)
  BY RecoverRows DEF TypeInv, StoreOK
<1>2. new \in Actions
  BY BlankIsNotebook, CellsAreNaturals, NewActionRow DEF ActionKind, TypeInv, StoreOK
<1>3. /\ proc.state = "down" /\ Len(actions) \in Nat /\ "stop_resource" \in ActionKind
      /\ UNCHANGED <<run, cells, source, res, rn, tasks, cli, ran>>
  BY LenProperties DEF OfflineStopPrepares, ActionKind, TypeInv, StoreOK
<1>4. CASE TakeUp("offline", "stop_resource", Append(found, new), Len(actions) + 1)
  <2> DEFINE as == Append(found, new)
  <2>1. as \in Seq(Actions) /\ Len(as) = Len(actions) + 1
    BY <1>1, <1>2, AppendProperties
  <2> HIDE DEF as
  <2>2. PICK id \in 1 .. Len(as) : id = Len(actions) + 1 BY <1>3, <2>1
  <2>3. TakeUp("offline", "stop_resource", as, id) BY <1>4, <2>2 DEF as
  <2>4. Len(as) >= Len(actions) BY <1>3, <2>1
  <2> QED BY <1>3, <2>1, <2>3, <2>4, TakeUpKeepsTypes
<1>5. ASSUME NEW i \in Pending(found, "requested"),
             TakeUp("offline", "stop_resource", found, i)
      PROVE  TypeInv'
  <2>1. i \in 1 .. Len(found) BY DEF Pending, ActionIds
  <2>2. Len(found) >= Len(actions) BY <1>1, <1>3
  <2> HIDE DEF found
  <2> QED BY <1>1, <1>3, <1>5, <2>1, <2>2, TakeUpKeepsTypes
<1> QED BY <1>4, <1>5 DEF OfflineStopPrepares

LEMMA OfflineStopKeepsTypes ==
  ASSUME TypeInv, OfflineStop
  PROVE  TypeInv'
<1> USE DEF TypeInv, StoreOK, ProcOK, HistoryOK, Off
<1>0. Len(actions) \in Nat BY LenProperties
<1>1. CASE OfflineStopPrepares BY <1>1, OfflineStopPreparesKeepsTypes
<1>2. CASE ~OfflineStopPrepares
  <2>1. actions' \in Seq(Actions) /\ Len(actions') = Len(actions)
    BY <1>2, ClaimActionRows, FinishActionRows
       DEF OfflineStop, OfflineStopClaims, OfflineStopRequests, OfflineStopAccepted,
           OfflineStopRefused, OfflineStopConfirmed, OfflineStopCancels,
           OfflineStopFinishes, OfflineStopCompletes, OfflineSettles, ActionStatus
  <2>2. run' \in Runs
    <3>1. RequestRunCancellation(run, proc.number) \in Runs
      BY RequestRunCancellationRow DEF Processes
    <3>2. FinishRun(run, "cancelled", "run.cancelled") \in Runs
      BY FinishRunRow, EventsOfStatus DEF TerminalStatus
    <3> QED BY <1>2, <3>1, <3>2
       DEF OfflineStop, OfflineStopClaims, OfflineStopRequests, OfflineStopAccepted,
           OfflineStopRefused, OfflineStopConfirmed, OfflineStopCancels,
           OfflineStopFinishes, OfflineStopCompletes
  <2>3. res' \in ResStatus /\ UNCHANGED <<cells, source, cli, ran>>
    BY <1>2 DEF OfflineStop, OfflineStopClaims, OfflineStopRequests, OfflineStopAccepted,
           OfflineStopRefused, OfflineStopConfirmed, OfflineStopCancels,
           OfflineStopFinishes, OfflineStopCompletes, ResStatus
  <2>4. \/ Down
        \/ /\ UNCHANGED <<rn, tasks>> /\ proc.state = "offline"
           /\ \E step \in {"request", "adapter", "confirm", "cancel", "finish", "complete"} :
                OffTo(step)
    BY <1>2 DEF OfflineStop, OfflineStopClaims, OfflineStopRequests, OfflineStopAccepted,
           OfflineStopRefused, OfflineStopConfirmed, OfflineStopCancels,
           OfflineStopFinishes, OfflineStopCompletes, OfflineSettles
  <2>5. CASE Down BY <1>0, <2>1, <2>2, <2>3, <2>5, DownKeepsTypes
  <2>6. ASSUME UNCHANGED <<rn, tasks>>, proc.state = "offline",
               NEW step \in {"request", "adapter", "confirm", "cancel", "finish", "complete"},
               OffTo(step)
        PROVE  TypeInv'
    <3>1. proc' \in Processes /\ proc'.action = proc.action /\ ~Up' /\ ~Up
      <4>1. \A off \in {"request", "adapter", "confirm", "cancel", "finish", "complete"} :
              proc' = [proc EXCEPT !.off = off] =>
                proc' \in Processes /\ proc'.action = proc.action /\ proc'.state = proc.state
        BY DEF Processes
      <4> QED BY <2>6, <4>1 DEF OffTo, Up
    <3>2. Len(actions') \in Nat /\ Len(actions') >= Len(actions) BY <1>0, <2>1
    <3>3. (Up' <=> Up) /\ UNCHANGED <<rn, tasks>> BY <2>6, <3>1
    <3>4. RunnerOK' /\ MemoryOK' BY <3>2, <3>3, MemoryGrows
    <3> QED BY <1>0, <2>1, <2>2, <2>3, <3>1, <3>4
  <2> QED BY <2>4, <2>5, <2>6
<1> QED BY <1>1, <1>2

-----------------------------------------------------------------------------
(* The types, at every step. *)

LEMMA StepTypeInv == TypeInv /\ [Next]_vars => TypeInv'
<1>1. ASSUME TypeInv, Next PROVE TypeInv'
  BY <1>1, StartRunnerKeepsTypes, RunCellsKeepsTypes, ExecEndsKeepsTypes,
     RecoverKeepsTypes, FinishRunnerKeepsTypes, RunnerErrorKeepsTypes,
     ActionLoopKeepsTypes, EnvironmentKeepsTypes, ProcessKeepsTypes,
     OfflineStopKeepsTypes DEF Next, Runner
<1>2. ASSUME TypeInv, UNCHANGED vars PROVE TypeInv'
  BY <1>2 DEF vars, TypeInv, StoreOK, ProcOK, RunnerOK, MemoryOK, HistoryOK, Up
<1> QED BY <1>1, <1>2

\* The rows, the memory and what refers from one to the other stay of their
\* types, for any notebook, bounds, commands, crashes and signals.
THEOREM AlwaysTypeInv == Spec => []TypeInv
<1>1. Init => TypeInv BY InitTypeInv
<1>2. TypeInv /\ [Next]_vars => TypeInv' BY StepTypeInv
<1> QED BY <1>1, <1>2, PTL DEF Spec

\* The type invariant of the run's model.
THEOREM TypeCorrect == Spec => []TypeOK
<1>1. TypeInv => TypeOK BY TypeInvImpliesTypeOK
<1> QED BY <1>1, AlwaysTypeInv, PTL

-----------------------------------------------------------------------------
(* How the row of the run evolves.                                         *)
(*                                                                         *)
(* The inductive invariant is LiveRunner: from the gate on until it        *)
(* returns, the runner has a run that is not terminal; so all that it      *)
(* writes without a guard in the store is written on such a run.           *)

LiveRunner ==
  Up /\ rn.pc \notin {"gate", "returned", "finalized"} => ~IsTerminal(run)

SettledInv == LiveRunner /\ TerminalEventMatchesRun /\ FinalizedRunIsTerminal

MayRestart == Up /\ proc.boot = "restart" /\ ~proc.stopPending
LiveStatus == RunStatus \ TerminalStatus

RunMoves ==
  \/ run' = UpdateRunning(run) \/ run' = BeginKernelEpoch(run)
  \/ \E c \in Cells, n \in Nat : run' = PauseFailedRun(run, c, n)
  \/ \E s \in LiveStatus : run' = UpdateRunStatus(run, s)

RunSettles ==
  /\ \E s \in TerminalStatus : \E e \in TerminalEventsOf(s) :
       run' = FinishRun(run, s, e) /\ (s = "succeeded" => Up /\ ~ctl.cancelReq)
  /\ ~Up' \/ rn'.pc = "returned"

RunEvolves ==
  \/ UNCHANGED run
  \/ /\ run' = RequestRunCancellation(run, proc.number)
     /\ ctl'.cancelReq \/ proc.state = "offline"
  \/ run' = MarkRunFinalized(run, run.status)
  \/ ~IsTerminal(run) /\ RunMoves
  \/ MayRestart /\ At("gate") /\ run' = UpdateRunStatus(run, "starting")
  \/ RunSettles

LEMMA CancelEvolves ==
  ASSUME TypeInv, Cancel
  PROVE  \/ UNCHANGED run
         \/ run' = RequestRunCancellation(run, proc.number) /\ ctl'.cancelReq
  BY DEF Cancel, TypeInv, MemoryOK, Controls

LEMMA RunnerEvolves ==
  ASSUME TypeInv, LiveRunner, Runner
  PROVE  RunEvolves
<1> USE DEF RunEvolves, LiveRunner, At
<1>1. CASE LeaveGate
  BY <1>1 DEF LeaveGate, RunMoves, MayRestart, LiveStatus, RunStatus, TerminalStatus, TypeInv, ProcOK, Processes
<1>2. CASE ReadAndBeginEpoch BY <1>2 DEF ReadAndBeginEpoch, RunMoves
<1>3. CASE RecordSource BY <1>3 DEF RecordSource
<1>4. CASE ReplaceCells BY <1>4 DEF ReplaceCells
<1>5. CASE KernelStarts BY <1>5 DEF KernelStarts, RunMoves
<1>6. CASE NextCell BY <1>6 DEF NextCell
<1>7. CASE BeginAttempt BY <1>7 DEF BeginAttempt, RunMoves
<1>8. CASE CellSucceeds BY <1>8 DEF CellSucceeds
<1>9. CASE CellPublished BY <1>9 DEF CellPublished, durable
<1>10. CASE FailureSettles BY <1>10, CancelEvolves DEF FailureSettles
<1>11. CASE PauseFailedCell
  <2>1. rn.idx \in Cells /\ cells[rn.idx].attempt \in Nat
    BY <1>11 DEF PauseFailedCell, TypeInv, RunnerOK, StoreOK, CellPCs, CellTable, CellRows
  <2> QED BY <1>11, <2>1 DEF PauseFailedCell, RunMoves
<1>12. CASE RecordInterrupted BY <1>12 DEF RecordInterrupted
<1>13. CASE TakeCommand BY <1>13 DEF TakeCommand
<1>14. CASE ApplyRecovery
  BY <1>14 DEF ApplyRecovery, RunMoves, LiveStatus, RunStatus, TerminalStatus
<1>15. CASE AcceptRecovery BY <1>15 DEF AcceptRecovery
<1>16. CASE LeaveEpoch BY <1>16 DEF LeaveEpoch, durable
<1>17. CASE OutputPublished
  BY <1>17 DEF OutputPublished, RunMoves, LiveStatus, RunStatus, TerminalStatus
<1>18. CASE BlockingWaitEnds
  BY <1>18 DEF BlockingWaitEnds, RunMoves, LiveStatus, RunStatus, TerminalStatus
<1>19. CASE FinishSucceeded
  <2>1. CASE UNCHANGED run BY <2>1
  <2>2. CASE ~ctl.cancelReq /\ Finish("returned") /\ run' = FinishRun(run, "succeeded", "run.succeeded")
    <3>1. rn'.pc = "returned" BY <2>2, FinishedRunner DEF PCs, AwaitPCs, TypeInv, RunnerOK
    <3> QED BY <1>19, <2>2, <3>1, EventsOfStatus DEF FinishSucceeded, RunSettles, TerminalStatus
  <2> QED BY <1>19, <2>1, <2>2 DEF FinishSucceeded
<1>20. CASE FinishCancelled
  <2>1. rn'.pc = "returned"
    BY <1>20, FinishedRunner DEF FinishCancelled, PCs, AwaitPCs, TypeInv, RunnerOK
  <2> QED BY <1>20, <2>1, EventsOfStatus DEF FinishCancelled, RunSettles, TerminalStatus
<1>21. CASE FinishFailed
  <2>1. rn'.pc = "returned"
    BY <1>21, FinishedRunner DEF FinishFailed, PCs, AwaitPCs, TypeInv, RunnerOK
  <2>2. rn.failure \in TerminalEventsOf("failed")
    BY EventsOfStatus DEF TypeInv, RunnerOK, Runners, Failures
  <2> QED BY <1>21, <2>1, <2>2 DEF FinishFailed, RunSettles, TerminalStatus
<1>22. CASE Finalize BY <1>22 DEF Finalize
<1>23. CASE StopCancelResources BY <1>23 DEF StopCancelResources
<1> QED BY <1>1, <1>2, <1>3, <1>4, <1>5, <1>6, <1>7, <1>8, <1>9, <1>10, <1>11, <1>12,
           <1>13, <1>14, <1>15, <1>16, <1>17, <1>18, <1>19, <1>20, <1>21, <1>22, <1>23
        DEF Runner, StartRunner, RunCells, Recover, FinishRunner

LEMMA OfflineStopEvolves ==
  ASSUME TypeInv, OfflineStop
  PROVE  RunEvolves /\ proc.state # "up" /\ ~Up'
<1>1. OfflineStopPrepares =>
        UNCHANGED run /\ proc.state = "down" /\ proc'.state = "offline"
  BY DEF OfflineStopPrepares, TakeUp, TypeInv, ProcOK, Processes
<1>2. OfflineStop /\ ~OfflineStopPrepares =>
        proc.state = "offline" /\ proc'.state \in {"offline", "down"}
  BY DEF OfflineStop, OfflineStopClaims, OfflineStopRequests, OfflineStopAccepted,
         OfflineStopRefused, OfflineStopConfirmed, OfflineStopCancels,
         OfflineStopFinishes, OfflineStopCompletes, OfflineSettles, Off, OffTo, Down,
         TypeInv, ProcOK, Processes
<1>3. OfflineStop => \/ UNCHANGED run
                     \/ /\ run' = RequestRunCancellation(run, proc.number)
                        /\ proc.state = "offline"
                     \/ run' = FinishRun(run, "cancelled", "run.cancelled")
  BY DEF OfflineStop, OfflineStopPrepares, OfflineStopClaims, OfflineStopRequests,
         OfflineStopAccepted, OfflineStopRefused, OfflineStopConfirmed, OfflineStopCancels,
         OfflineStopFinishes, OfflineStopCompletes, Off
<1>4. proc.state # "up" /\ ~Up' BY <1>1, <1>2 DEF Up
<1> QED BY <1>3, <1>4, EventsOfStatus DEF RunEvolves, RunSettles, TerminalStatus

LEMMA StepEvolves ==
  ASSUME TypeInv, LiveRunner, Next
  PROVE  RunEvolves
<1> USE DEF RunEvolves
<1>1. CASE Runner BY <1>1, RunnerEvolves
<1>2. CASE ExecEnds \/ RunnerError \/ BlockingWaitTimesOut
  BY <1>2 DEF ExecEnds, ExecReturns, ExecFails, ExecBreaks, RunnerError,
              BlockingWaitTimesOut, durable
<1>3. CASE ActionLoop \/ ServeSignal
  BY <1>3, CancelEvolves DEF ActionLoop, DispatchRecovery, DispatchStop, RequestResourceStop,
     StopIsAccepted, StopIsRefused, StopIsConfirmed, StopTimesOut, StopCascades, ServeSignal
<1>4. CASE Environment
  BY <1>4 DEF Environment, Signal, RegisterResource, ObserveResourceEnd, Edit, CliReads,
     CliInserts, durable
<1>5. CASE Process
  <2>1. CASE Quiesce
    BY <2>1 DEF Quiesce, RunMoves, LiveStatus, RunStatus, TerminalStatus
  <2>2. CASE ~Quiesce
    BY <1>5, <2>2 DEF Process, RequestRecovery, ClaimBootstrap, Serve, Crash, durable
  <2> QED BY <2>1, <2>2
<1>6. CASE OfflineStop BY <1>6, OfflineStopEvolves
<1> QED BY <1>1, <1>2, <1>3, <1>4, <1>5, <1>6 DEF Next

\* Where the runner is live after a step, it was live before, or it has just
\* passed the gate.
LEMMA StepLive ==
  ASSUME TypeInv, Next, Up', rn'.pc \notin {"gate", "returned", "finalized"}
  PROVE  \/ Up /\ rn.pc \notin {"gate", "returned", "finalized"}
         \/ At("gate") /\ ~IsTerminal(run')
<1> USE DEF At
<1>1. CASE Runner
  <2>1. CASE LeaveGate
    <3>1. CASE Finish("returned")
      BY <3>1, FinishedRunner DEF PCs, AwaitPCs, TypeInv, RunnerOK
    <3>2. CASE run' = UpdateRunStatus(run, "starting")
      BY <2>1, <3>2, UpdateRunStatusRow
         DEF LeaveGate, IsTerminal, RunStatus, TerminalStatus, TypeInv, StoreOK
    <3>3. CASE run.status = "cancelling" /\ UNCHANGED run
      BY <2>1, <3>3 DEF LeaveGate, IsTerminal, TerminalStatus
    <3> QED BY <2>1, <3>1, <3>2, <3>3 DEF LeaveGate
  <2>2. CASE Finalize
    BY <2>2, FinishedRunner DEF Finalize, PCs, AwaitPCs, TypeInv, RunnerOK
  <2>3. CASE ~LeaveGate /\ ~Finalize
    BY <1>1, <2>3 DEF Runner, StartRunner, RunCells, Recover, FinishRunner,
       ReadAndBeginEpoch, RecordSource, ReplaceCells, KernelStarts,
       NextCell, BeginAttempt, CellSucceeds, CellPublished, FailureSettles, PauseFailedCell,
       RecordInterrupted, TakeCommand, ApplyRecovery, AcceptRecovery, LeaveEpoch,
       OutputPublished, BlockingWaitEnds, FinishSucceeded, FinishCancelled, FinishFailed,
       StopCancelResources
  <2> QED BY <2>1, <2>2, <2>3
<1>2. CASE ExecEnds \/ RunnerError \/ BlockingWaitTimesOut
  BY <1>2 DEF ExecEnds, ExecReturns, ExecFails, ExecBreaks, RunnerError,
              BlockingWaitTimesOut, Suspended
<1>3. CASE ActionLoop \/ ServeSignal \/ Environment
  <2>1. UNCHANGED <<rn, proc>>
    BY <1>3 DEF ActionLoop, DispatchRecovery, DispatchStop, RequestResourceStop,
     StopIsAccepted, StopIsRefused, StopIsConfirmed, StopTimesOut, StopCascades, ServeSignal,
     Environment, Signal, RegisterResource, ObserveResourceEnd, Edit, CliReads,
     CliInserts, context
  <2> QED BY <2>1 DEF Up
<1>4. CASE Process
  <2>1. CASE Down BY <2>1, DownKeepsTypes
  <2>2. CASE RequestRecovery
    BY <2>2 DEF RequestRecovery, TakeUp, Up, TypeInv, ProcOK, Processes
  <2>3. CASE ClaimBootstrap
    BY <2>1, <2>3 DEF ClaimBootstrap, Up, TypeInv, ProcOK, Processes
  <2>4. CASE Serve
    BY <2>1, <2>4, NoRunnerIsRunner DEF Serve, Runners
  <2> QED BY <1>4, <2>1, <2>2, <2>3, <2>4 DEF Process, Quiesce, Crash
<1>5. CASE OfflineStop BY <1>5, OfflineStopEvolves
<1> QED BY <1>1, <1>2, <1>3, <1>4, <1>5 DEF Next

-----------------------------------------------------------------------------
(* What every evolution of the row keeps. *)

\* A terminal row is left only at the gate of a restart.
LEMMA TerminalStays ==
  ASSUME TypeInv, RunEvolves, IsTerminal(run)
  PROVE  \/ MayRestart /\ At("gate") /\ run' = UpdateRunStatus(run, "starting")
         \/ run'.status = run.status
<1> USE DEF TypeInv, StoreOK, ProcOK
<1>1. CASE run' = RequestRunCancellation(run, proc.number)
  BY <1>1, RequestRunCancellationRow DEF Processes
<1>2. CASE run' = MarkRunFinalized(run, run.status)
  BY <1>2, MarkRunFinalizedRow DEF Runs
<1>3. CASE RunSettles BY <1>3, FinishRunRow DEF RunSettles
<1> QED BY <1>1, <1>2, <1>3 DEF RunEvolves

\* A live row stays live unless the runner returns or the process is over.
LEMMA LiveStays ==
  ASSUME TypeInv, RunEvolves, ~IsTerminal(run)
  PROVE  ~IsTerminal(run') \/ ~Up' \/ rn'.pc = "returned"
<1> USE DEF TypeInv, StoreOK, ProcOK, IsTerminal, TerminalStatus
<1>1. CASE run' = RequestRunCancellation(run, proc.number)
  BY <1>1, RequestRunCancellationRow DEF Processes
<1>2. CASE run' = MarkRunFinalized(run, run.status)
  BY <1>2, MarkRunFinalizedRow DEF Runs
<1>3. CASE RunMoves
  BY <1>3, UpdateRunningRow, BeginKernelEpochRow, PauseFailedRunRow, UpdateRunStatusRow
     DEF RunMoves, LiveStatus
<1>4. CASE run' = UpdateRunStatus(run, "starting")
  BY <1>4, UpdateRunStatusRow DEF RunStatus
<1>5. CASE RunSettles BY <1>5 DEF RunSettles
<1> QED BY <1>1, <1>2, <1>3, <1>4, <1>5 DEF RunEvolves

LEMMA EvolvesKeepsEvents ==
  ASSUME TypeInv, RunEvolves, TerminalEventMatchesRun, FinalizedRunIsTerminal
  PROVE  TerminalEventMatchesRun' /\ FinalizedRunIsTerminal'
<1> USE DEF TypeInv, StoreOK, ProcOK, TerminalEventMatchesRun, FinalizedRunIsTerminal
<1>1. CASE UNCHANGED run BY <1>1
<1>2. CASE run' = RequestRunCancellation(run, proc.number)
  BY <1>2, RequestRunCancellationRow DEF Processes, IsTerminal, TerminalStatus
<1>3. CASE run' = MarkRunFinalized(run, run.status)
  <2>1. run.status \in RunStatus BY DEF Runs
  <2> QED BY <1>3, <2>1, MarkRunFinalizedRow DEF IsTerminal
<1>4. CASE ~IsTerminal(run) /\ RunMoves
  <2>1. ~IsTerminal(run') /\ (run'.finalized => run.finalized)
    BY <1>4, UpdateRunningRow, BeginKernelEpochRow, PauseFailedRunRow, UpdateRunStatusRow
       DEF RunMoves, LiveStatus, IsTerminal, TerminalStatus
  <2> QED BY <1>4, <2>1
<1>5. CASE run' = UpdateRunStatus(run, "starting")
  BY <1>5 DEF UpdateRunStatus, IsTerminal, TerminalStatus, Runs
<1>6. CASE RunSettles
  <2>1. CASE IsTerminal(run) BY <1>6, <2>1, FinishRunRow DEF RunSettles
  <2>2. CASE ~IsTerminal(run)
    BY <1>6, <2>2, FinishRunRow DEF RunSettles, IsTerminal
  <2> QED BY <2>1, <2>2
<1> QED BY <1>1, <1>2, <1>3, <1>4, <1>5, <1>6 DEF RunEvolves

LEMMA InitSettledInv == Init => SettledInv
  BY DEF Init, SettledInv, LiveRunner, TerminalEventMatchesRun, FinalizedRunIsTerminal,
         Up, NewRun, IsTerminal, TerminalStatus

LEMMA StepSettledInv == TypeInv /\ SettledInv /\ [Next]_vars => SettledInv'
<1>1. ASSUME TypeInv, SettledInv, Next PROVE SettledInv'
  <2>1. RunEvolves BY <1>1, StepEvolves DEF SettledInv
  <2>2. LiveRunner'
    <3> SUFFICES ASSUME Up', rn'.pc \notin {"gate", "returned", "finalized"}
                 PROVE  ~IsTerminal(run')
      BY DEF LiveRunner
    <3> QED BY <1>1, <2>1, StepLive, LiveStays DEF SettledInv, LiveRunner
  <2> QED BY <1>1, <2>1, <2>2, EvolvesKeepsEvents DEF SettledInv
<1>2. ASSUME SettledInv, UNCHANGED vars PROVE SettledInv'
  BY <1>2 DEF vars, SettledInv, LiveRunner, TerminalEventMatchesRun,
     FinalizedRunIsTerminal, Up
<1> QED BY <1>1, <1>2

\* The runner is live only on a run that is not terminal; a terminal run has
\* its event; only a terminal run is finalized.
THEOREM AlwaysSettledInv == Spec => []SettledInv
<1>1. Init => SettledInv BY InitSettledInv
<1>2. TypeInv /\ SettledInv /\ [Next]_vars => SettledInv' BY StepSettledInv
<1> QED BY <1>1, <1>2, AlwaysTypeInv, PTL DEF Spec

\* Every terminal run has a terminal event of its status and its epoch,
\* wherever processes crash between the commits.
THEOREM EventMatches == Spec => []TerminalEventMatchesRun
<1>1. SettledInv => TerminalEventMatchesRun BY DEF SettledInv
<1> QED BY <1>1, AlwaysSettledInv, PTL

\* The run directory is never offered for removal while the run is live.
THEOREM Finalization == Spec => []FinalizedRunIsTerminal
<1>1. SettledInv => FinalizedRunIsTerminal BY DEF SettledInv
<1> QED BY <1>1, AlwaysSettledInv, PTL

\* Only the runner of a process started by `restart` makes a terminal run
\* live again; no cancellation, quiesce or late stop does.
THEOREM TerminalIsFinal == Spec => TerminalLeftOnlyByRestart
<1>1. TypeInv /\ SettledInv /\ [Next]_vars =>
        [IsTerminal(run) /\ run'.status # run.status =>
           Up /\ proc.boot = "restart" /\ ~proc.stopPending]_vars
  BY StepEvolves, TerminalStays DEF SettledInv, MayRestart
<1> QED BY <1>1, AlwaysTypeInv, AlwaysSettledInv, PTL DEF Spec, TerminalLeftOnlyByRestart

-----------------------------------------------------------------------------
(* Cancellation: what a process has persisted it remembers. *)

AskedInv ==
  /\ proc.number >= 1 /\ run.asked <= proc.number
  /\ proc.state = "preparing" => run.asked < proc.number
  /\ proc.state \in {"starting", "up"} /\ run.asked = proc.number => ctl.cancelReq

LEMMA AskedEvolves ==
  ASSUME TypeInv, RunEvolves
  PROVE  \/ run'.asked \in {run.asked, 0}
         \/ run'.asked = proc.number /\ (ctl'.cancelReq \/ proc.state = "offline")
<1> USE DEF TypeInv, StoreOK, ProcOK
<1>1. CASE UNCHANGED run BY <1>1
<1>2. CASE /\ run' = RequestRunCancellation(run, proc.number)
           /\ ctl'.cancelReq \/ proc.state = "offline"
  BY <1>2, RequestRunCancellationRow DEF Processes
<1>3. CASE run' = MarkRunFinalized(run, run.status)
  BY <1>3, MarkRunFinalizedRow DEF Runs
<1>4. CASE RunMoves
  BY <1>4, UpdateRunningRow, BeginKernelEpochRow, PauseFailedRunRow, UpdateRunStatusRow
     DEF RunMoves, LiveStatus
<1>5. CASE run' = UpdateRunStatus(run, "starting")
  BY <1>5, UpdateRunStatusRow DEF RunStatus
<1>6. CASE RunSettles BY <1>6, FinishRunRow DEF RunSettles
<1> QED BY <1>1, <1>2, <1>3, <1>4, <1>5, <1>6 DEF RunEvolves

Serving == {"starting", "up"}

\* How the process moves on, and that its cancel flag is never withdrawn.
LEMMA ProcessMoves ==
  ASSUME TypeInv, Next
  PROVE  \/ /\ proc'.number = proc.number + 1 /\ UNCHANGED run
            /\ proc'.state \in {"preparing", "offline"}
         \/ /\ proc'.number = proc.number
            /\ \/ proc'.state = "down"
               \/ proc.state = "offline" /\ proc'.state = "offline"
               \/ /\ proc.state = "preparing" /\ UNCHANGED run
                  /\ proc'.state \in {"preparing", "starting"}
               \/ /\ proc.state \in Serving /\ proc'.state \in Serving
                  /\ ctl.cancelReq => ctl'.cancelReq
<1> USE DEF Serving, TypeInv, ProcOK, MemoryOK, Processes, Controls
<1>1. CASE Runner
  <2>1. UNCHANGED proc /\ proc.state = "up"
    BY <1>1 DEF Runner, StartRunner, RunCells, Recover, FinishRunner, LeaveGate,
       ReadAndBeginEpoch, RecordSource, ReplaceCells, KernelStarts,
       NextCell, BeginAttempt, CellSucceeds, CellPublished, FailureSettles, PauseFailedCell,
       RecordInterrupted, TakeCommand, ApplyRecovery, AcceptRecovery, LeaveEpoch,
       OutputPublished, BlockingWaitEnds, FinishSucceeded, FinishCancelled,
       StopCancelResources, FinishFailed,
       Finalize, context, At, Up
  <2>2. ctl.cancelReq => ctl'.cancelReq
    BY <1>1 DEF Runner, StartRunner, RunCells, Recover, FinishRunner, LeaveGate,
       ReadAndBeginEpoch, RecordSource, ReplaceCells, KernelStarts,
       NextCell, BeginAttempt, CellSucceeds, CellPublished, FailureSettles, PauseFailedCell,
       RecordInterrupted, TakeCommand, ApplyRecovery, AcceptRecovery, LeaveEpoch,
       OutputPublished, BlockingWaitEnds, FinishSucceeded, FinishCancelled,
       StopCancelResources, FinishFailed,
       Finalize, Cancel, tasks
  <2> QED BY <2>1, <2>2
<1>2. CASE ExecEnds \/ RunnerError \/ BlockingWaitTimesOut
  BY <1>2 DEF ExecEnds, ExecReturns, ExecFails, ExecBreaks, RunnerError,
              BlockingWaitTimesOut, Suspended, At, Up, tasks
<1>3. CASE ActionLoop \/ ServeSignal
  <2>1. UNCHANGED proc /\ proc.state \in Serving
    BY <1>3 DEF ActionLoop, DispatchRecovery, DispatchStop, RequestResourceStop,
     StopIsAccepted, StopIsRefused, StopIsConfirmed, StopTimesOut, StopCascades, ServeSignal,
     Suspended, Up, context
  <2>2. Cancel \/ UNCHANGED ctl
    BY <1>3 DEF ActionLoop, DispatchRecovery, DispatchStop, RequestResourceStop,
     StopIsAccepted, StopIsRefused, StopIsConfirmed, StopTimesOut, StopCascades, ServeSignal
  <2>3. ctl.cancelReq => ctl'.cancelReq BY <2>2 DEF Cancel
  <2> QED BY <2>1, <2>3
<1>4. CASE Environment
  BY <1>4 DEF Environment, Signal, RegisterResource, ObserveResourceEnd, Edit, CliReads,
     CliInserts, durable, tasks
<1>5. CASE Process
  <2>1. CASE Down BY <2>1 DEF Down
  <2>2. CASE RequestRecovery BY <2>2 DEF RequestRecovery, TakeUp
  <2>3. CASE ClaimBootstrap BY <2>1, <2>3 DEF ClaimBootstrap
  <2>4. CASE Serve BY <2>1, <2>4 DEF Serve, tasks
  <2> QED BY <1>5, <2>1, <2>2, <2>3, <2>4 DEF Process, Quiesce, Crash
<1>6. CASE OfflineStop
  <2>1. CASE OfflineStopPrepares BY <2>1 DEF OfflineStopPrepares, TakeUp
  <2>2. CASE ~OfflineStopPrepares
    BY <1>6, <2>2 DEF OfflineStop, OfflineStopClaims, OfflineStopRequests,
         OfflineStopAccepted, OfflineStopRefused, OfflineStopConfirmed, OfflineStopCancels,
         OfflineStopFinishes, OfflineStopCompletes, OfflineSettles, Off, OffTo, Down
  <2> QED BY <2>1, <2>2
<1> QED BY <1>1, <1>2, <1>3, <1>4, <1>5, <1>6 DEF Next

LEMMA StepAskedInv == TypeInv /\ LiveRunner /\ AskedInv /\ [Next]_vars => AskedInv'
<1>1. ASSUME TypeInv, LiveRunner, AskedInv, Next PROVE AskedInv'
  <2>1. proc.number \in Nat /\ run.asked \in Nat BY <1>1 DEF TypeInv, StoreOK, ProcOK, Processes, Runs
  <2>2. RunEvolves BY <1>1, StepEvolves
  <2> QED BY <1>1, <2>1, <2>2, AskedEvolves, ProcessMoves DEF AskedInv, Serving
<1>2. ASSUME AskedInv, UNCHANGED vars PROVE AskedInv' BY <1>2 DEF vars, AskedInv
<1> QED BY <1>1, <1>2

\* The process that persisted the cancellation has its cancel flag set.
THEOREM AlwaysAskedInv == Spec => []AskedInv
<1>1. Init => AskedInv BY DEF Init, AskedInv, NewRun
<1>2. TypeInv /\ SettledInv /\ AskedInv /\ [Next]_vars => AskedInv'
  BY StepAskedInv DEF SettledInv
<1> QED BY <1>1, <1>2, AlwaysTypeInv, AlwaysSettledInv, PTL DEF Spec

LEMMA SuccessIsNotCancelled ==
  ASSUME TypeInv, RunEvolves, run'.status = "succeeded", run.status # "succeeded"
  PROVE  Up /\ ~ctl.cancelReq
<1> USE DEF TypeInv, StoreOK, ProcOK
<1>1. CASE run' = RequestRunCancellation(run, proc.number)
  BY <1>1, RequestRunCancellationRow DEF Processes
<1>2. CASE run' = MarkRunFinalized(run, run.status)
  BY <1>2, MarkRunFinalizedRow DEF Runs
<1>3. CASE RunMoves
  BY <1>3, UpdateRunningRow, BeginKernelEpochRow, PauseFailedRunRow, UpdateRunStatusRow
     DEF RunMoves, LiveStatus, TerminalStatus
<1>4. CASE run' = UpdateRunStatus(run, "starting")
  BY <1>4, UpdateRunStatusRow DEF RunStatus
<1>5. CASE RunSettles
  BY <1>5, FinishRunRow DEF RunSettles
<1> QED BY <1>1, <1>2, <1>3, <1>4, <1>5 DEF RunEvolves

\* A run whose cancellation this process has persisted, or been asked for,
\* does not succeed, in whatever await the request finds the runner.
THEOREM CancelledNeverSucceeds == Spec => NoSuccessAfterCancel
<1>1. TypeInv /\ SettledInv /\ AskedInv /\ [Next]_vars =>
        [run'.status = "succeeded" /\ run.status # "succeeded" =>
           ~ctl.cancelReq /\ run.asked # proc.number]_vars
  BY StepEvolves, SuccessIsNotCancelled DEF SettledInv, AskedInv, Up
<1> QED BY <1>1, AlwaysTypeInv, AlwaysSettledInv, AlwaysAskedInv, PTL
        DEF Spec, NoSuccessAfterCancel

-----------------------------------------------------------------------------
(* A process that finds the run cancelling: its runner goes from the gate  *)
(* to the end without a kernel, and has no checkpoint that could fail.     *)

RecoveredPCs == {"gate", "stopres", "returned", "finalized"}

RecoveredInv ==
  proc.cancelling =>
    /\ proc.state = "starting" => run.status = "cancelling"
    /\ Up => /\ rn.pc \in RecoveredPCs
             /\ rn.pc = "gate" => run.status = "cancelling"
             /\ rn.pc \in {"gate", "stopres"} => ~rn.checkpoints

LEMMA CancellingStays ==
  ASSUME TypeInv, Cancel, run.status = "cancelling"
  PROVE  run'.status = "cancelling"
  BY DEF Cancel, RequestRunCancellation

LEMMA NextRecoveredInv ==
  ASSUME TypeInv, RecoveredInv, Next
  PROVE  RecoveredInv'
<1> USE DEF RecoveredInv
<1>1. CASE Runner
  <2>1. UNCHANGED proc /\ Up /\ Up' /\ proc.state # "starting"
    BY <1>1 DEF Runner, StartRunner, RunCells, Recover, FinishRunner, LeaveGate,
       ReadAndBeginEpoch, RecordSource, ReplaceCells, KernelStarts,
       NextCell, BeginAttempt, CellSucceeds, CellPublished, FailureSettles, PauseFailedCell,
       RecordInterrupted, TakeCommand, ApplyRecovery, AcceptRecovery, LeaveEpoch,
       OutputPublished, BlockingWaitEnds, FinishSucceeded, FinishCancelled,
       StopCancelResources, FinishFailed,
       Finalize, context, durable, At, Up
  <2> SUFFICES ASSUME proc.cancelling
               PROVE  /\ rn'.pc \in {"stopres", "returned", "finalized"}
                      /\ rn'.pc = "stopres" => ~rn'.checkpoints
    BY <2>1 DEF RecoveredPCs
  <2>2. rn.pc \in RecoveredPCs /\ rn \in Runners BY <2>1 DEF TypeInv, RunnerOK
  <2>3. CASE LeaveGate
    <3>1. Finish("stopres") /\ ~rn.checkpoints BY <2>1, <2>3 DEF LeaveGate, At
    <3> QED BY <2>2, <3>1, FinishedRunner DEF PCs, AwaitPCs
  <2>4. CASE FinishCancelled
    BY <2>2, <2>4, FinishedRunner DEF FinishCancelled, PCs, AwaitPCs
  <2>5. CASE Finalize BY <2>2, <2>5, FinishedRunner DEF Finalize, PCs, AwaitPCs
  <2>6. CASE ~(LeaveGate \/ FinishCancelled \/ Finalize)
    BY <1>1, <2>2, <2>6 DEF RecoveredPCs, Runner, StartRunner, RunCells, Recover,
       FinishRunner, ReadAndBeginEpoch, RecordSource, ReplaceCells, KernelStarts,
       NextCell, BeginAttempt, CellSucceeds, CellPublished, FailureSettles, PauseFailedCell,
       RecordInterrupted, TakeCommand, ApplyRecovery, AcceptRecovery, LeaveEpoch,
       OutputPublished, BlockingWaitEnds, StopCancelResources, FinishSucceeded,
       FinishFailed, At
  <2> QED BY <2>3, <2>4, <2>5, <2>6
<1>2. CASE ExecEnds \/ RunnerError \/ BlockingWaitTimesOut
  <2>1. UNCHANGED proc /\ Up
    BY <1>2 DEF ExecEnds, ExecReturns, ExecFails, ExecBreaks, RunnerError,
                BlockingWaitTimesOut, Suspended, At
  <2>2. ~proc.cancelling
    BY <1>2, <2>1 DEF ExecEnds, ExecReturns, ExecFails, ExecBreaks, RunnerError,
                BlockingWaitTimesOut, At, RecoveredPCs
  <2> QED BY <2>1, <2>2
<1>3. CASE ActionLoop \/ ServeSignal
  <2>1. UNCHANGED <<proc, rn>>
    BY <1>3 DEF ActionLoop, DispatchRecovery, DispatchStop, RequestResourceStop,
     StopIsAccepted, StopIsRefused, StopIsConfirmed, StopTimesOut, StopCascades, ServeSignal,
     context
  <2>2. Cancel \/ UNCHANGED run
    BY <1>3 DEF ActionLoop, DispatchRecovery, DispatchStop, RequestResourceStop,
     StopIsAccepted, StopIsRefused, StopIsConfirmed, StopTimesOut, StopCascades, ServeSignal
  <2>3. run.status = "cancelling" => run'.status = "cancelling"
    BY <2>2, CancellingStays
  <2> QED BY <2>1, <2>3 DEF Up
<1>4. CASE Environment
  BY <1>4 DEF Environment, Signal, RegisterResource, ObserveResourceEnd, Edit, CliReads,
     CliInserts, durable, Up
<1>5. CASE Process
  <2> USE DEF TypeInv, ProcOK, Processes, Up
  <2>1. CASE Down BY <2>1 DEF Down
  <2>2. CASE RequestRecovery BY <2>2 DEF RequestRecovery, TakeUp
  <2>3. CASE ClaimBootstrap BY <2>1, <2>3 DEF ClaimBootstrap
  <2>4. CASE Serve /\ ~Down
    <3>1. proc'.cancelling = proc.cancelling /\ UNCHANGED run /\ proc'.state = "up"
      BY <2>4 DEF Serve
    <3>2. rn'.pc = "gate" /\ ~rn'.checkpoints
      BY <2>4, NoRunnerIsRunner DEF Serve, NoRunner
    <3> QED BY <2>4, <3>1, <3>2 DEF Serve, RecoveredPCs
  <2> QED BY <1>5, <2>1, <2>2, <2>3, <2>4 DEF Process, Quiesce, Crash
<1>6. CASE OfflineStop
  <2> USE DEF TypeInv, ProcOK, Processes, Up
  <2>1. CASE OfflineStopPrepares BY <2>1 DEF OfflineStopPrepares, TakeUp
  <2>2. CASE ~OfflineStopPrepares
    BY <1>6, <2>2 DEF OfflineStop, OfflineStopClaims, OfflineStopRequests,
         OfflineStopAccepted, OfflineStopRefused, OfflineStopConfirmed, OfflineStopCancels,
         OfflineStopFinishes, OfflineStopCompletes, OfflineSettles, Off, OffTo, Down
  <2> QED BY <2>1, <2>2
<1> QED BY <1>1, <1>2, <1>3, <1>4, <1>5, <1>6 DEF Next

\* A recovered cancellation is finished without a kernel being started or a
\* cell executed, whatever brought the process up.
THEOREM RecoveredCancellation == Spec => []RecoveredCancellationExecutesNothing
<1>1. Init => RecoveredInv BY DEF Init, RecoveredInv, Up
<1>2. TypeInv /\ RecoveredInv /\ [Next]_vars => RecoveredInv'
  <2>1. ASSUME RecoveredInv, UNCHANGED vars PROVE RecoveredInv'
    BY <2>1 DEF vars, RecoveredInv, Up
  <2> QED BY <2>1, NextRecoveredInv
<1>3. RecoveredInv => RecoveredCancellationExecutesNothing
  BY DEF RecoveredInv, RecoveredCancellationExecutesNothing, RecoveredPCs
<1> QED BY <1>1, <1>2, <1>3, AlwaysTypeInv, PTL DEF Spec

\* A cancellation on record is honoured by the process that persisted it, and by
\* every one that finds it.
THEOREM CancellationKept == Spec => CancellationIsKept
BY CancelledNeverSucceeds, RecoveredCancellation DEF CancellationIsKept
-----------------------------------------------------------------------------
(* A paused runner. *)

\* A cancel command is in the queue.
Called == \E k \in 1 .. Len(queue) : queue[k] = 0

\* A runner that waits for a command waits on the failure on record, and the
\* cancel command that was sent while it was paused is in its queue; none was
\* sent before it paused, though a cancellation may have been asked for.
PausedInv ==
  /\ ctl.enqueued => ctl.cancelReq
  /\ rn.pc \in {"exec", "failing", "pausing"} => ~ctl.paused
  /\ rn.pc = "pausing" => ~ctl.enqueued
  /\ rn.pc \in {"recover", "apply"} =>
       /\ ctl.paused
       /\ run.failedCell = rn.idx /\ run.failedAttempt = cells[rn.idx].attempt
       /\ cells[rn.idx].status = "failed"
       /\ ctl.enqueued => Called
       /\ run.status = "paused" \/ (run.status = "cancelling" /\ Called)

LEMMA CalledStays ==
  ASSUME TypeInv, Called
  PROVE  /\ \A i : i \in Nat => (\E k \in 1 .. Len(Append(queue, i)) : Append(queue, i)[k] = 0)
         /\ queue # <<>> /\ Head(queue) # 0 =>
              \E k \in 1 .. Len(Tail(queue)) : Tail(queue)[k] = 0
<1>1. queue \in Seq(0 .. Len(actions)) /\ Len(actions) \in Nat /\ Len(queue) \in Nat
  BY LenProperties DEF TypeInv, MemoryOK, StoreOK
<1>2. PICK k \in 1 .. Len(queue) : queue[k] = 0 BY DEF Called
<1>3. queue \in Seq(Nat)
  <2>1. 0 .. Len(actions) \subseteq Nat BY <1>1
  <2> QED BY <1>1, <2>1, SeqMonotonic
<1>4. ASSUME NEW i \in Nat
      PROVE  \E m \in 1 .. Len(Append(queue, i)) : Append(queue, i)[m] = 0
  <2>1. Len(Append(queue, i)) = Len(queue) + 1 /\ Append(queue, i)[k] = queue[k]
    BY <1>2, <1>3, <1>4, AppendProperties
  <2> QED BY <1>1, <1>2, <2>1
<1>5. ASSUME queue # <<>>, Head(queue) # 0
      PROVE  \E m \in 1 .. Len(Tail(queue)) : Tail(queue)[m] = 0
  <2>1. /\ Head(queue) = queue[1] /\ Len(Tail(queue)) = Len(queue) - 1
        /\ \A m \in 1 .. Len(Tail(queue)) : Tail(queue)[m] = queue[m + 1]
    BY <1>3, <1>5, HeadTailProperties
  <2>2. k # 1 /\ k - 1 \in 1 .. Len(Tail(queue)) /\ (k - 1) + 1 = k BY <1>1, <1>2, <1>5, <2>1
  <2> QED BY <1>2, <2>1, <2>2
<1> QED BY <1>4, <1>5

\* cancel() puts its command in the queue of a paused runner, once.
LEMMA CancelCalls ==
  ASSUME TypeInv, PausedInv, Cancel
  PROVE  /\ (ctl'.paused <=> ctl.paused) /\ (ctl'.enqueued => ctl'.cancelReq)
         /\ ~ctl.paused => (ctl'.enqueued <=> ctl.enqueued)
         /\ run'.failedCell = run.failedCell /\ run'.failedAttempt = run.failedAttempt
         /\ rn.pc \in {"recover", "apply"} =>
              /\ ctl'.enqueued => Called'
              /\ run'.status = "paused" \/ (run'.status = "cancelling" /\ Called')
<1> USE DEF TypeInv, MemoryOK, StoreOK, ProcOK
<1>1. CASE IsTerminal(run)
  <2>1. UNCHANGED <<run, ctl, queue>> BY <1>1 DEF Cancel
  <2> QED BY <2>1 DEF PausedInv, Called
<1>2. CASE ~IsTerminal(run)
  <2>1. run' = run \/ run' = RequestRunCancellation(run, proc.number)
    BY <1>2 DEF Cancel
  <2>2. /\ run'.failedCell = run.failedCell /\ run'.failedAttempt = run.failedAttempt
        /\ run'.status \in {run.status, "cancelling"}
    BY <2>1 DEF RequestRunCancellation, Runs
  <2>3. /\ (ctl'.paused <=> ctl.paused) /\ ctl'.cancelReq
        /\ ctl'.enqueued <=> (ctl.enqueued \/ (ctl.paused /\ ~ctl.enqueued))
    BY <1>2 DEF Cancel, Controls
  <2>4. ctl.paused /\ (ctl.enqueued => Called) => Called'
    <3>1. CASE ctl.paused /\ ~ctl.enqueued
      <4>1. queue' = Append(queue, 0) BY <1>2, <3>1 DEF Cancel
      <4>2. Len(queue) \in Nat /\ Len(queue') = Len(queue) + 1 /\ queue'[Len(queue) + 1] = 0
        <5>1. 0 \in 0 .. Len(actions) BY LenProperties
        <5> QED BY <4>1, <5>1, AppendProperties, LenProperties
      <4>3. Len(queue) + 1 \in 1 .. Len(queue') BY <4>2
      <4> QED BY <4>2, <4>3 DEF Called
    <3>2. CASE ctl.enqueued /\ Called
      <4>1. queue' = queue BY <1>2, <3>2 DEF Cancel
      <4> QED BY <3>2, <4>1 DEF Called
    <3> QED BY <3>1, <3>2
  <2> QED BY <2>2, <2>3, <2>4 DEF PausedInv
<1> QED BY <1>1, <1>2
\* The runner pauses, and takes commands.
LEMMA RunnerKeepsPaused ==
  ASSUME TypeInv, PausedInv, Runner
  PROVE  PausedInv'
<1> USE DEF At
<1>0. rn \in Runners /\ ctl \in Controls BY DEF TypeInv, RunnerOK, MemoryOK
<1>1. CASE StartRunner
  <2>1. ctl' = ctl \/ (ctl' = [ctl EXCEPT !.cancelReq = TRUE])
    BY <1>1 DEF StartRunner, LeaveGate, ReadAndBeginEpoch, RecordSource, ReplaceCells,
                KernelStarts, tasks
  <2>2. rn'.pc \in {"stopres", "returned", "load", "update", "failckpt", "replace", "kernel", "next"}
    BY <1>0, <1>1, FinishedRunner, FailRunner
       DEF StartRunner, LeaveGate, ReadAndBeginEpoch, RecordSource, ReplaceCells,
           KernelStarts, PCs, AwaitPCs, SyncPCs, Runners, Goto, Failures
  <2>3. ctl'.enqueued => ctl'.cancelReq BY <1>0, <2>1 DEF PausedInv, Controls
  <2> QED BY <2>2, <2>3 DEF PausedInv
<1>2. CASE RunCells
  <2>1. CASE NextCell \/ CellSucceeds \/ CellPublished \/ RecordInterrupted
    <3>1. ctl' = ctl
      BY <2>1 DEF NextCell, CellSucceeds, CellPublished, RecordInterrupted, tasks
    <3>2. rn'.pc \in {"teardown", "begin", "next", "publishCell"}
      BY <1>0, <2>1 DEF NextCell, CellSucceeds, CellPublished, RecordInterrupted, Leave,
                        Goto, Runners
    <3> QED BY <3>1, <3>2 DEF PausedInv
  <2>2. CASE BeginAttempt
    <3>1. rn'.pc = "exec" /\ ctl' = [ctl EXCEPT !.paused = FALSE]
      BY <1>0, <2>2 DEF BeginAttempt, Goto, Runners
    <3> QED BY <1>0, <3>1 DEF PausedInv, Controls
  <2>3. CASE FailureSettles
    <3>1. Cancel \/ UNCHANGED ctl BY <2>3 DEF FailureSettles
    <3>2. /\ ctl'.enqueued => ctl'.cancelReq
          /\ ~ctl'.paused
      BY <2>3, <3>1, CancelCalls DEF PausedInv, FailureSettles
    <3>3. rn'.pc = "teardown" \/ (rn'.pc = "pausing" /\ ~ctl'.cancelReq)
      BY <1>0, <2>3 DEF FailureSettles, Leave, Goto, Runners
    <3> QED BY <3>2, <3>3 DEF PausedInv
  <2>4. CASE PauseFailedCell
    <3>1. rn'.pc = "recover" /\ rn'.idx = rn.idx /\ rn.idx \in Cells
      BY <1>0, <2>4 DEF PauseFailedCell, Goto, Runners, TypeInv, RunnerOK, CellPCs
    <3>2. ctl' = [ctl EXCEPT !.paused = TRUE] /\ ~ctl.enqueued
      BY <2>4 DEF PauseFailedCell, PausedInv
    <3>3. /\ cells'[rn.idx].status = "failed"
          /\ cells'[rn.idx].attempt = cells[rn.idx].attempt
      BY <2>4, <3>1 DEF PauseFailedCell, CompleteCell, TypeInv, StoreOK, CellTable, CellRows
    <3>4. /\ run'.status = "paused" /\ run'.failedCell = rn.idx
          /\ run'.failedAttempt = cells[rn.idx].attempt
      BY <2>4 DEF PauseFailedCell, PauseFailedRun, TypeInv, StoreOK, Runs
    <3> QED BY <1>0, <3>1, <3>2, <3>3, <3>4 DEF PausedInv, Controls
  <2> QED BY <1>2, <2>1, <2>2, <2>3, <2>4 DEF RunCells
<1>3. CASE TakeCommand
  <2>1. UNCHANGED <<run, cells, ctl>> BY <1>3 DEF TakeCommand
  <2>2. CASE rn'.pc = "teardown" BY <2>1, <2>2 DEF PausedInv
  <2>3. CASE Head(queue) # 0
    <3>1. rn'.pc \in {"recover", "apply"} /\ rn'.idx = rn.idx
      BY <1>0, <1>3, <2>3 DEF TakeCommand, Runners
    <3>2. Called => Called' BY <1>3, <2>3, CalledStays DEF TakeCommand, Called
    <3> QED BY <1>3, <2>1, <3>1, <3>2 DEF PausedInv, TakeCommand
  <2>4. CASE Head(queue) = 0
    BY <1>0, <1>3, <2>2, <2>4 DEF TakeCommand, Leave, Runners
  <2> QED BY <2>3, <2>4
<1>4. CASE ApplyRecovery
  <2>1. CASE rn'.pc = "accept"
    <3>1. ctl'.enqueued => ctl'.cancelReq
      BY <1>0, <1>4 DEF ApplyRecovery, PausedInv, Controls
    <3> QED BY <2>1, <3>1 DEF PausedInv
  <2>2. CASE Goto("recover") /\ UNCHANGED <<run, cells, ctl>>
    <3>1. rn'.pc = "recover" /\ rn'.idx = rn.idx BY <1>0, <2>2 DEF Goto, Runners
    <3>2. Called' <=> Called BY <1>4 DEF ApplyRecovery, Called
    <3> QED BY <1>4, <2>2, <3>1, <3>2 DEF PausedInv, ApplyRecovery
  <2> QED BY <1>0, <1>4, <2>1, <2>2 DEF ApplyRecovery, Runners
<1>5. CASE AcceptRecovery
  <2>1. rn'.pc \in {"teardown", "begin"} /\ UNCHANGED ctl
    BY <1>0, <1>5 DEF AcceptRecovery, Runners, tasks
  <2> QED BY <2>1 DEF PausedInv
<1>6. CASE FinishRunner
  <2>1. rn'.pc \in {"failckpt", "stopres", "load", "output", "external", "finalckpt", "returned",
                    "finalized"}
    BY <1>0, <1>6, FinishedRunner, FailRunner
       DEF FinishRunner, LeaveEpoch, OutputPublished, BlockingWaitEnds, StopCancelResources,
           FinishSucceeded, FinishCancelled, FinishFailed, Finalize, PCs, AwaitPCs, SyncPCs,
           Goto, Runners, Failures
  <2>2. ctl' = ctl \/ (\E b \in BOOLEAN : ctl' = [ctl EXCEPT !.cancelReq = @ \/ b])
    BY <1>6 DEF FinishRunner, LeaveEpoch, OutputPublished, BlockingWaitEnds,
           StopCancelResources, FinishSucceeded, FinishCancelled, FinishFailed, Finalize, tasks
  <2>3. ctl'.enqueued => ctl'.cancelReq BY <1>0, <2>2 DEF PausedInv, Controls
  <2> QED BY <2>1, <2>3 DEF PausedInv
<1> QED BY <1>1, <1>2, <1>3, <1>4, <1>5, <1>6 DEF Runner, Recover

\* The loop, the signal and the end of an execution find the runner where it waits.
LEMMA OthersKeepPaused ==
  ASSUME TypeInv, PausedInv,
         ExecEnds \/ RunnerError \/ BlockingWaitTimesOut \/ ActionLoop \/ ServeSignal
  PROVE  PausedInv'
<1>0. rn \in Runners /\ ctl \in Controls BY DEF TypeInv, RunnerOK, MemoryOK
<1>1. CASE ExecEnds
  <2>1. ctl' = [ctl EXCEPT !.escalating = FALSE]
    BY <1>1 DEF ExecEnds, ExecReturns, ExecFails, ExecBreaks
  <2>2. rn.pc = "exec" /\ rn'.pc \in {"settle", "failing", "interrupted", "teardown"}
    BY <1>0, <1>1 DEF ExecEnds, ExecReturns, ExecFails, ExecBreaks, Goto, Runners, At
  <2> QED BY <1>0, <2>1, <2>2 DEF PausedInv, Controls
<1>2. CASE RunnerError \/ BlockingWaitTimesOut
  <2>1. ctl' = ctl BY <1>2 DEF RunnerError, BlockingWaitTimesOut, tasks
  <2>2. rn'.pc \in {"interrupted", "teardown", "failckpt"}
    BY <1>0, <1>2, FailRunner
       DEF RunnerError, BlockingWaitTimesOut, Goto, Leave, Runners, Failures
  <2> QED BY <2>1, <2>2 DEF PausedInv
<1>3. CASE Cancel /\ UNCHANGED <<rn, cells>>
  BY <1>3, CancelCalls DEF PausedInv
<1>4. CASE DispatchRecovery
  <2>1. UNCHANGED <<run, cells, rn, ctl>> BY <1>4 DEF DispatchRecovery
  <2>2. Called => Called'
    <3>1. \A i : i \in ActionIds(actions) => i \in Nat BY DEF ActionIds
    <3>2. queue' = queue \/ \E i \in Nat : queue' = Append(queue, i)
      BY <1>4, <3>1 DEF DispatchRecovery
    <3> QED BY <3>2, CalledStays DEF Called
  <2> QED BY <2>1, <2>2 DEF PausedInv
<1>5. CASE UNCHANGED <<run, cells, rn, ctl, queue>>
  BY <1>5 DEF PausedInv, Called
<1>6. CASE ActionLoop
  BY <1>3, <1>4, <1>5, <1>6
     DEF ActionLoop, DispatchStop, RequestResourceStop, StopIsAccepted, StopIsRefused,
         StopIsConfirmed, StopTimesOut, StopCascades, context
<1>7. CASE ServeSignal BY <1>3, <1>7 DEF ServeSignal
<1> QED BY <1>1, <1>2, <1>6, <1>7

\* A process that begins or ends has no runner that waits.
LEMMA ProcessRunner ==
  ASSUME TypeInv, Process \/ OfflineStop
  PROVE  \/ rn.pc = "none" /\ rn'.pc \in {"none", "gate"} /\ UNCHANGED tasks
         \/ rn'.pc = "none" /\ Forget
<1>1. Down => rn'.pc = "none" /\ Forget BY NoRunnerIsRunner DEF Down, Forget
<1>2. proc.state # "up" => rn.pc = "none" BY DEF TypeInv, RunnerOK, Up
<1>3. CASE Serve /\ ~Down
  <2>1. rn' = [NoRunner EXCEPT !.pc = "gate"] /\ UNCHANGED tasks BY <1>3 DEF Serve
  <2> QED BY <1>2, <1>3, <2>1, NoRunnerIsRunner DEF Runners, Serve
<1>4. CASE RequestRecovery \/ (ClaimBootstrap /\ ~Down)
  BY <1>2, <1>4 DEF RequestRecovery, ClaimBootstrap, tasks
<1>5. CASE Quiesce \/ Crash BY <1>1, <1>5 DEF Quiesce, Crash
<1>6. CASE OfflineStop
  BY <1>1, <1>2, <1>6 DEF OfflineStop, OfflineStopPrepares, OfflineStopClaims, OfflineStopRequests,
         OfflineStopAccepted, OfflineStopRefused, OfflineStopConfirmed, OfflineStopCancels,
         OfflineStopFinishes, OfflineStopCompletes, OfflineSettles, Off, OffTo, tasks
<1> QED BY <1>1, <1>3, <1>4, <1>5, <1>6 DEF Process

LEMMA StepPausedInv == TypeInv /\ PausedInv /\ [Next]_vars => PausedInv'
<1>1. ASSUME TypeInv, PausedInv, Process \/ OfflineStop PROVE PausedInv'
  BY <1>1, ProcessRunner DEF PausedInv, Forget, NoControl, tasks
<1>2. ASSUME PausedInv, Environment PROVE PausedInv'
  <2>1. UNCHANGED <<run, cells, rn, ctl, queue>>
    BY <1>2 DEF Environment, Signal, RegisterResource, ObserveResourceEnd, Edit, CliReads,
                CliInserts, durable, tasks
  <2> QED BY <1>2, <2>1 DEF PausedInv, Called
<1>3. ASSUME PausedInv, UNCHANGED vars PROVE PausedInv'
  BY <1>3 DEF PausedInv, Called, vars
<1> QED BY <1>1, <1>2, <1>3, RunnerKeepsPaused, OthersKeepPaused DEF Next

\* The runner that waits for a command waits on the failure on record, and a
\* cancellation reaches it: when the run is cancelling, the cancel command is in
\* its queue, whether it was asked for before, while or after the cell paused.
THEOREM PausesAreReachable == Spec => []PausedRunnerIsReachable
<1>1. Init => PausedInv BY NoRunnerIsRunner DEF Init, PausedInv, NoControl
<1>2. TypeInv /\ PausedInv /\ [Next]_vars => PausedInv' BY StepPausedInv
<1>3. PausedInv => PausedRunnerIsReachable
  BY DEF PausedInv, PausedRunnerIsReachable, At, Called
<1> QED BY <1>1, <1>2, <1>3, AlwaysTypeInv, PTL DEF Spec
-----------------------------------------------------------------------------
(* What the cells of a run show.                                           *)

Current(c) == cells[c].epoch = run.epoch
\* A cell that the kernel was given.
Entered == {"running", "succeeded", "interrupted"}
RanAs(c) == ran[c] = [epoch |-> run.epoch, attempt |-> cells[c].attempt, src |-> cells[c].src]

\* What SucceededRunIsComplete asks of each cell.
Done(c) ==
  \/ /\ cells[c].status = "not_replayed"
     /\ \A d \in 0 .. c : cells[d].status = "not_replayed"
  \/ c \notin CodeCells /\ cells[c].status = "skipped"
  \/ /\ c \in CodeCells /\ cells[c].status = "succeeded"
     /\ cells[c].epoch = run.epoch /\ ran[c].epoch = run.epoch

\* Where the rows show the notebook that the runner has read, and where its cell
\* has been given to the kernel.
ReadPCs == {"replace", "kernel", "next"} \cup (CellPCs \ {"interrupted"})
EnteredPCs == {"exec", "settle", "publishCell", "failing", "pausing", "interrupted"}

\* No row is of a later epoch than the run, all are of an earlier one until they
\* are replaced, and no cell that the runner has yet to come to was entered.
EpochInv ==
  /\ \A c \in Cells : cells[c].epoch <= run.epoch
  /\ rn.pc \in {"update", "replace"} => \A c \in Cells : ~Current(c)
  /\ rn.pc \in ReadPCs => \A c \in Cells : cells[c].src = rn.nb[c]
  /\ rn.pc = "kernel" => \A c \in Cells : Current(c) => cells[c].status \notin Entered
  /\ rn.pc \in {"next", "begin"} =>
       \A c \in Cells : c >= rn.idx /\ Current(c) => cells[c].status \notin Entered
  /\ rn.pc \in CellPCs =>
       /\ rn.idx \in CodeCells
       /\ \A c \in Cells : c > rn.idx /\ Current(c) => cells[c].status \notin Entered
  /\ rn.pc \in EnteredPCs => Current(rn.idx) /\ RanAs(rn.idx)
  /\ rn.pc = "publishCell" => cells[rn.idx].status = "succeeded"
  /\ rn.pc \in {"recover", "apply", "accept"} => cells[rn.idx].status = "failed"

\* What the runner has left behind is done.
DoneInv ==
  /\ rn.pc = "kernel" => \A c \in Cells : c < rn.from => cells[c].status = "not_replayed"
  /\ rn.pc \in {"next"} \cup CellPCs => \A c \in Cells : c < rn.idx => Done(c)
  /\ rn.pc = "accept" => rn.outcome \in {"complete", "restart"}
  /\ (\/ rn.pc = "teardown" /\ rn.outcome = "complete"
      \/ rn.pc \in {"output", "external", "finalckpt"}) => \A c \in Cells : Done(c)

SourceInv == SuccessIsOfTheSource /\ EpochInv /\ DoneInv

\* What is done stays done while nothing before it changes.
LEMMA DoneKept ==
  ASSUME NEW n \in Nat, run'.epoch = run.epoch,
         \A c \in Cells : c < n => /\ cells'[c].status = cells[c].status
                                   /\ cells'[c].epoch = cells[c].epoch
                                   /\ ran'[c].epoch = ran[c].epoch
  PROVE  \A c \in Cells : c < n /\ Done(c) => Done(c)'
<1> SUFFICES ASSUME NEW c \in Cells, c < n, Done(c) PROVE Done(c)'
  OBVIOUS
<1>1. \A d \in 0 .. c : d \in Cells /\ d < n BY NotebookHasCells DEF Cells
<1>2. cells'[c].status = cells[c].status /\ \A d \in 0 .. c : cells'[d].status = cells[d].status
  BY <1>1
<1> QED BY <1>2 DEF Done

LEMMA SuccessIsDone == SucceededRunIsComplete <=> (run.status = "succeeded" => \A c \in Cells : Done(c))
  BY DEF SucceededRunIsComplete, Done

LEMMA CellsAreBounded == \A c \in Cells : c < NumCells
  BY NotebookHasCells DEF Cells

\* A step that leaves the rows of the cells alone.
LEMMA SameCells ==
  ASSUME SourceInv, UNCHANGED <<cells, ran>>, run'.epoch = run.epoch,
         run'.status = "succeeded" => run.status = "succeeded"
  PROVE  /\ SuccessIsOfTheSource'
         /\ \A c \in Cells : cells'[c].epoch <= run'.epoch
         /\ \A c \in Cells : Done(c)' <=> Done(c)
         /\ \A c \in Cells : (Current(c)' <=> Current(c)) /\ (RanAs(c)' <=> RanAs(c))
<1>1. \A c \in Cells : Done(c)' <=> Done(c) BY DEF Done
<1>2. \A c \in Cells : (Current(c)' <=> Current(c)) /\ (RanAs(c)' <=> RanAs(c))
  BY DEF Current, RanAs
<1>3. SucceededRunIsComplete' BY <1>1 DEF SourceInv, SuccessIsOfTheSource, SucceededRunIsComplete, Done
<1>4. RecordedSourceRan' BY DEF SourceInv, SuccessIsOfTheSource, RecordedSourceRan
<1> QED BY <1>1, <1>2, <1>3, <1>4 DEF SuccessIsOfTheSource, SourceInv, EpochInv

\* ... and comes to where nothing is said of them.
OutPCs == {"none", "gate", "load", "stopres", "failckpt", "returned", "finalized"}
LEMMA OutKeepsSource ==
  ASSUME SourceInv, UNCHANGED <<cells, ran>>, run'.epoch = run.epoch,
         run'.status = "succeeded" => run.status = "succeeded",
         rn'.pc \in OutPCs \/ (rn'.pc = "teardown" /\ rn'.outcome # "complete")
  PROVE  SourceInv'
<1>1. /\ SuccessIsOfTheSource'
      /\ \A c \in Cells : cells'[c].epoch <= run'.epoch
  BY SameCells
<1>2. EpochInv' BY <1>1 DEF EpochInv, OutPCs, ReadPCs, CellPCs, EnteredPCs
<1>3. DoneInv' BY DEF DoneInv, OutPCs, CellPCs
<1> QED BY <1>1, <1>2, <1>3 DEF SourceInv
\* Only a new kernel begins an epoch, and only a finished runner succeeds.
LEMMA RowOf ==
  ASSUME TypeInv
  PROVE  /\ \A s : UpdateRunStatus(run, s).epoch = run.epoch /\ UpdateRunStatus(run, s).status = s
         /\ UpdateRunning(run).epoch = run.epoch /\ UpdateRunning(run).status = "running"
         /\ \A c, n : /\ PauseFailedRun(run, c, n).epoch = run.epoch
                      /\ PauseFailedRun(run, c, n).status = "paused"
         /\ \A s, e : /\ FinishRun(run, s, e).epoch = run.epoch
                      /\ FinishRun(run, s, e).status \in {run.status, s}
         /\ \A s : /\ MarkRunFinalized(run, s).epoch = run.epoch
                   /\ MarkRunFinalized(run, s).status = run.status
         /\ \A n : /\ RequestRunCancellation(run, n).epoch = run.epoch
                   /\ RequestRunCancellation(run, n).status \in {run.status, "cancelling"}
<1> USE DEF TypeInv, StoreOK
<1>1. \A s : UpdateRunStatus(run, s).epoch = run.epoch /\ UpdateRunStatus(run, s).status = s
  BY DEF UpdateRunStatus, Runs
<1>2. UpdateRunning(run).epoch = run.epoch /\ UpdateRunning(run).status = "running"
  BY DEF UpdateRunning, UpdateRunStatus, Runs
<1>3. \A c, n : /\ PauseFailedRun(run, c, n).epoch = run.epoch
                /\ PauseFailedRun(run, c, n).status = "paused"
  BY DEF PauseFailedRun, Runs
<1>4. \A s, e : /\ FinishRun(run, s, e).epoch = run.epoch
                /\ FinishRun(run, s, e).status \in {run.status, s}
  BY DEF FinishRun, Runs
<1>5. \A s : /\ MarkRunFinalized(run, s).epoch = run.epoch
             /\ MarkRunFinalized(run, s).status = run.status
  BY DEF MarkRunFinalized, Runs
<1>6. \A n : /\ RequestRunCancellation(run, n).epoch = run.epoch
             /\ RequestRunCancellation(run, n).status \in {run.status, "cancelling"}
  BY DEF RequestRunCancellation, Runs
<1> QED BY <1>1, <1>2, <1>3, <1>4, <1>5, <1>6

\* Another notebook in the rows: nothing else of them changes.
LEMMA UpdatedCells ==
  ASSUME TypeInv, NEW src \in Notebooks
  PROVE  \A c \in Cells : /\ UpdateSource(cells, src)[c].status = cells[c].status
                          /\ UpdateSource(cells, src)[c].epoch = cells[c].epoch
                          /\ UpdateSource(cells, src)[c].attempt = cells[c].attempt
                          /\ UpdateSource(cells, src)[c].src = src[c]
  BY DEF TypeInv, StoreOK, CellTable, CellRows, UpdateSource

LEMMA CompletedCell ==
  ASSUME TypeInv, NEW i \in Cells, NEW s
  PROVE  /\ \A c \in Cells \ {i} : CompleteCell(cells, i, s)[c] = cells[c]
         /\ CompleteCell(cells, i, s)[i].status = s
         /\ CompleteCell(cells, i, s)[i].epoch = cells[i].epoch
         /\ CompleteCell(cells, i, s)[i].attempt = cells[i].attempt
         /\ CompleteCell(cells, i, s)[i].src = cells[i].src
  BY DEF TypeInv, StoreOK, CellTable, CellRows, CompleteCell

\* The kernel is started on the notebook that was read.
LEMMA StartKeepsSource ==
  ASSUME TypeInv, LiveRunner, SourceInv, StartRunner
  PROVE  SourceInv'
<1> USE DEF At
<1>0. /\ rn \in Runners /\ run \in Runs /\ cells \in CellTable /\ run.epoch \in Nat
      /\ \A c \in Cells : cells[c].epoch \in Nat
      /\ rn.nb \in Notebooks /\ rn.from \in Cells
  BY DEF TypeInv, RunnerOK, StoreOK, Runs, CellTable, CellRows, Runners
<1>1. CASE LeaveGate
  <2>1. UNCHANGED <<cells, ran>> BY <1>1 DEF LeaveGate
  <2>2. rn'.pc \in {"stopres", "returned", "load"}
    BY <1>0, <1>1, FinishedRunner DEF LeaveGate, PCs, AwaitPCs, Runners
  <2>3. run'.epoch = run.epoch /\ (run'.status = "succeeded" => run.status = "succeeded")
    BY <1>1, RowOf DEF LeaveGate
  <2> QED BY <2>1, <2>2, <2>3, OutKeepsSource DEF OutPCs
<1>2. CASE ReadAndBeginEpoch
  <2>1. UNCHANGED <<cells, ran>> BY <1>2 DEF ReadAndBeginEpoch
  <2>2. CASE UNCHANGED run /\ (Finish("stopres") \/ Fail("run.runner_error"))
    <3>1. rn'.pc \in {"stopres", "failckpt"}
      BY <1>0, <2>2, FinishedRunner, FailRunner DEF PCs, AwaitPCs, Failures
    <3> QED BY <2>1, <2>2, <3>1, OutKeepsSource DEF OutPCs
  <2>3. CASE rn' = [rn EXCEPT !.pc = "update", !.nb = source] /\ run' = BeginKernelEpoch(run)
    <3>1. rn'.pc = "update" BY <1>0, <2>3 DEF Runners
    <3>2. run'.epoch = run.epoch + 1 /\ run'.status = run.status
      BY <1>0, <2>3 DEF BeginKernelEpoch, Runs
    <3>3. run'.status # "succeeded"
      BY <1>2, <3>2 DEF ReadAndBeginEpoch, LiveRunner, IsTerminal, TerminalStatus
    <3>4. \A c \in Cells : cells'[c].epoch <= run'.epoch /\ cells'[c].epoch # run'.epoch
      BY <1>0, <2>1, <3>2 DEF SourceInv, EpochInv
    <3>5. EpochInv'
      BY <3>1, <3>4 DEF EpochInv, Current, ReadPCs, CellPCs, EnteredPCs
    <3>6. DoneInv' BY <3>1 DEF DoneInv, CellPCs
    <3>7. SuccessIsOfTheSource'
      BY <3>3, <3>4 DEF SuccessIsOfTheSource, SucceededRunIsComplete, RecordedSourceRan
    <3> QED BY <3>5, <3>6, <3>7 DEF SourceInv
  <2> QED BY <1>2, <2>2, <2>3 DEF ReadAndBeginEpoch
<1>3. CASE RecordSource
  <2>1. /\ rn'.pc = "replace" /\ rn'.nb = rn.nb /\ UNCHANGED <<run, ran>>
        /\ cells' = UpdateSource(cells, rn.nb) /\ rn.pc = "update"
    BY <1>0, <1>3 DEF RecordSource, Goto, Runners
  <2>2. \A c \in Cells : /\ cells'[c].epoch = cells[c].epoch
                         /\ cells'[c].epoch # run'.epoch /\ cells'[c].epoch <= run'.epoch
                         /\ cells'[c].src = rn'.nb[c]
    BY <1>0, <2>1, UpdatedCells DEF SourceInv, EpochInv, Current
  <2>3. run'.status # "succeeded"
    BY <1>3, <2>1 DEF RecordSource, LiveRunner, IsTerminal, TerminalStatus
  <2>4. EpochInv' BY <2>1, <2>2 DEF EpochInv, Current, ReadPCs, CellPCs, EnteredPCs
  <2>5. DoneInv' BY <2>1 DEF DoneInv, CellPCs
  <2>6. SuccessIsOfTheSource'
    BY <2>2, <2>3 DEF SuccessIsOfTheSource, SucceededRunIsComplete, RecordedSourceRan
  <2> QED BY <2>4, <2>5, <2>6 DEF SourceInv
<1>4. CASE ReplaceCells
  <2>1. /\ rn'.pc = "kernel" /\ rn'.nb = rn.nb /\ rn'.from = rn.from /\ UNCHANGED <<run, ran>>
        /\ rn.pc = "replace"
    BY <1>0, <1>4 DEF ReplaceCells, Runners
  <2>2. run'.status # "succeeded"
    BY <1>4, <2>1 DEF ReplaceCells, LiveRunner, IsTerminal, TerminalStatus
  <2>3. \A c \in Cells : /\ cells'[c].epoch <= run'.epoch /\ cells'[c].src = rn'.nb[c]
                         /\ cells'[c].epoch = run'.epoch => cells'[c].status \notin Entered
                         /\ c < rn'.from => cells'[c].status = "not_replayed"
    <3>1. CASE cells' = ReplaceCellsForRestart(rn.nb, run.epoch, rn.from)
      BY <1>0, <2>1, <3>1 DEF ReplaceCellsForRestart, Entered
    <3>2. CASE cells' = cells /\ ~(rn.from > 0)
      <4>1. \A c \in Cells : ~(c < rn.from) BY <1>0, <3>2, NotebookHasCells DEF Cells
      <4> QED BY <2>1, <3>2, <4>1 DEF SourceInv, EpochInv, ReadPCs, Current
    <3> QED BY <1>4, <3>1, <3>2 DEF ReplaceCells
  <2>4. EpochInv' BY <2>1, <2>3 DEF EpochInv, Current, ReadPCs, CellPCs, EnteredPCs
  <2>5. DoneInv' BY <2>1, <2>3 DEF DoneInv, CellPCs
  <2>6. SuccessIsOfTheSource'
    BY <2>2, <2>3 DEF SuccessIsOfTheSource, SucceededRunIsComplete, RecordedSourceRan, Entered
  <2> QED BY <2>4, <2>5, <2>6 DEF SourceInv
<1>5. CASE KernelStarts
  <2>1. /\ rn'.pc = "next" /\ rn'.nb = rn.nb /\ rn'.idx = rn.from /\ UNCHANGED <<cells, ran>>
        /\ rn.pc = "kernel"
    BY <1>0, <1>5 DEF KernelStarts, Runners
  <2>2. run'.epoch = run.epoch /\ run'.status # "succeeded"
    BY <1>5, RowOf DEF KernelStarts
  <2>3. /\ SuccessIsOfTheSource'
        /\ \A c \in Cells : cells'[c].epoch <= run'.epoch
        /\ \A c \in Cells : Current(c)' <=> Current(c)
    BY <2>1, <2>2, SameCells
  <2>4. EpochInv'
    BY <2>1, <2>3 DEF SourceInv, EpochInv, ReadPCs, CellPCs, EnteredPCs
  <2>5. \A c \in Cells : c < rn.from => Done(c)'
    <3> SUFFICES ASSUME NEW c \in Cells, c < rn.from PROVE Done(c)' OBVIOUS
    <3>1. \A d \in 0 .. c : d \in Cells /\ d < rn.from
      BY <1>0, NotebookHasCells DEF Cells
    <3> QED BY <2>1, <3>1 DEF SourceInv, DoneInv, Done
  <2>6. DoneInv' BY <2>1, <2>5 DEF DoneInv, CellPCs
  <2> QED BY <2>3, <2>4, <2>6 DEF SourceInv
<1> QED BY <1>1, <1>2, <1>3, <1>4, <1>5 DEF StartRunner
\* The runner stays on its cell; of the rows at most that of the cell changes,
\* and not what was executed.
LEMMA CellSettles ==
  ASSUME TypeInv, LiveRunner, SourceInv, Up, rn.pc \in EnteredPCs \ {"publishCell"},
         NEW i \in Cells, i = rn.idx, NEW s \in CellStatus,
         cells' = cells \/ cells' = CompleteCell(cells, i, s),
         UNCHANGED ran, run'.epoch = run.epoch, run'.status # "succeeded"
  PROVE  /\ SuccessIsOfTheSource'
         /\ \A c \in Cells : cells'[c].epoch <= run'.epoch /\ cells'[c].src = cells[c].src
         /\ \A c \in Cells : c # i => cells'[c] = cells[c]
         /\ \A c \in Cells : c < i => Done(c)'
         /\ Current(i)' /\ RanAs(i)'
         /\ cells' # cells => cells'[i].status = s
<1>0. i \in Nat BY CellsAreNaturals
<1>1. /\ \A c \in Cells \ {i} : cells'[c] = cells[c]
      /\ cells'[i].epoch = cells[i].epoch
      /\ cells'[i].attempt = cells[i].attempt
      /\ cells'[i].src = cells[i].src
      /\ cells' # cells => cells'[i].status = s
  BY <1>0, CompletedCell
<1>2. Current(i)' /\ RanAs(i)'
  BY <1>1 DEF SourceInv, EpochInv, Current, RanAs
<1>3. SuccessIsOfTheSource'
  BY <1>1, <1>2 DEF SuccessIsOfTheSource, SucceededRunIsComplete, RecordedSourceRan, RanAs,
                    SourceInv
<1>4. \A c \in Cells : c < i => Done(c)
  BY DEF SourceInv, DoneInv, CellPCs, EnteredPCs
<1>5. \A c \in Cells : c < i => cells'[c] = cells[c]
  BY <1>0, <1>1, CellsAreNaturals
<1>6. \A c \in Cells : c < i => Done(c)'
  BY <1>0, <1>4, <1>5, DoneKept
<1> QED BY <1>1, <1>2, <1>3, <1>6 DEF SourceInv, EpochInv

LEMMA CellsKeepSource ==
  ASSUME TypeInv, LiveRunner, SourceInv, RunCells
  PROVE  SourceInv'
<1> USE DEF At
<1>0. /\ rn \in Runners /\ run \in Runs /\ cells \in CellTable /\ run.epoch \in Nat
      /\ \A c \in Cells : cells[c].epoch \in Nat /\ cells[c].attempt \in Nat
      /\ rn.nb \in Notebooks /\ rn.idx \in 0 .. NumCells
      /\ ran \in [Cells -> [epoch: Nat, attempt: Nat, src: Nat]]
      /\ rn.pc \in CellPCs => rn.idx \in Cells
  BY DEF TypeInv, RunnerOK, StoreOK, HistoryOK, Runs, CellTable, CellRows, Runners
<1>n. Cells \subseteq Nat /\ NumCells \in Nat /\ rn.idx \in Nat
  BY <1>0, CellsAreNaturals, NotebookHasCells
<1>1. CASE NextCell
  <2>1. UNCHANGED <<run, ran>> /\ rn.pc = "next" /\ run'.status # "succeeded"
    BY <1>1 DEF NextCell, LiveRunner, IsTerminal, TerminalStatus
  <2>2. CASE Leave("complete") /\ UNCHANGED cells /\ rn.idx = NumCells
    <3>1. rn'.pc = "teardown" BY <1>0, <2>2 DEF Leave, Runners
    <3>2. \A c \in Cells : Done(c)
      BY <2>1, <2>2, CellsAreBounded DEF SourceInv, DoneInv
    <3>3. /\ SuccessIsOfTheSource'
          /\ \A c \in Cells : cells'[c].epoch <= run'.epoch
          /\ \A c \in Cells : Done(c)'
      BY <2>1, <2>2, <3>2, SameCells
    <3>4. EpochInv' BY <3>1, <3>3 DEF EpochInv, ReadPCs, CellPCs, EnteredPCs
    <3>5. DoneInv' BY <3>1, <3>3 DEF DoneInv, CellPCs
    <3> QED BY <3>3, <3>4, <3>5 DEF SourceInv
  <2>3. CASE Leave("cancel") /\ UNCHANGED cells
    <3>1. rn'.pc = "teardown" /\ rn'.outcome = "cancel" BY <1>0, <2>3 DEF Leave, Runners
    <3> QED BY <2>1, <2>3, <3>1, OutKeepsSource
  <2>4. CASE rn.idx \in CodeCells /\ Goto("begin") /\ UNCHANGED cells
    <3>1. rn'.pc = "begin" /\ rn'.idx = rn.idx /\ rn'.nb = rn.nb
      BY <1>0, <2>4 DEF Goto, Runners
    <3>2. /\ SuccessIsOfTheSource'
          /\ \A c \in Cells : cells'[c].epoch <= run'.epoch
          /\ \A c \in Cells : (Done(c)' <=> Done(c)) /\ (Current(c)' <=> Current(c))
      BY <2>1, <2>4, SameCells
    <3>3. \A c \in Cells : c >= rn.idx /\ Current(c) => cells[c].status \notin Entered
      BY <2>1 DEF SourceInv, EpochInv
    <3>4. \A c \in Cells : c > rn.idx => c >= rn.idx BY <1>n
    <3>5. EpochInv'
      BY <2>1, <2>4, <3>1, <3>2, <3>3, <3>4
         DEF SourceInv, EpochInv, ReadPCs, CellPCs, EnteredPCs
    <3>6. DoneInv' BY <2>1, <3>1, <3>2 DEF SourceInv, DoneInv, CellPCs
    <3> QED BY <3>2, <3>5, <3>6 DEF SourceInv
  <2>5. CASE /\ rn.idx # NumCells /\ rn.idx \notin CodeCells
             /\ cells' = MarkCellSkipped(cells, rn.idx) /\ rn' = [rn EXCEPT !.idx = @ + 1]
    <3>1. rn'.pc = "next" /\ rn'.idx = rn.idx + 1 /\ rn'.nb = rn.nb
      BY <1>0, <2>1, <2>5 DEF Runners
    <3>2. PICK i \in Cells : i = rn.idx /\ i \in Nat BY <1>0, <1>n, <2>5, CellBounds
    <3>3. /\ \A c \in Cells \ {i} : cells'[c] = cells[c]
          /\ cells'[i].status = "skipped"
          /\ cells'[i].epoch = cells[i].epoch
          /\ cells'[i].src = cells[i].src
      BY <2>5, <3>2, CompletedCell DEF MarkCellSkipped
    <3>4. SuccessIsOfTheSource'
      BY <2>1, <3>3 DEF SuccessIsOfTheSource, SucceededRunIsComplete, RecordedSourceRan,
                        SourceInv
    <3>5. \A c \in Cells : c < i => cells'[c] = cells[c] BY <1>n, <3>2, <3>3
    <3>6. \A c \in Cells : c < i => Done(c)'
      BY <2>1, <3>2, <3>5, DoneKept DEF SourceInv, DoneInv
    <3>7. Done(i)' BY <2>5, <3>2, <3>3 DEF Done
    <3>8. \A c \in Cells : c < rn'.idx => c < i \/ c = i
      <4>1. \A c \in Nat : c < i + 1 => c < i \/ c = i BY <3>2
      <4> QED BY <1>n, <3>1, <3>2, <4>1
    <3>9. \A c \in Cells : c >= rn'.idx => c >= rn.idx /\ c # i BY <1>n, <3>1, <3>2
    <3>10. EpochInv'
      <4>1. \A c \in Cells : cells'[c].epoch <= run'.epoch /\ cells'[c].src = rn'.nb[c]
        BY <2>1, <3>1, <3>3 DEF SourceInv, EpochInv, ReadPCs
      <4>2. \A c \in Cells : c >= rn'.idx /\ Current(c)' => cells'[c].status \notin Entered
        BY <2>1, <3>3, <3>9 DEF SourceInv, EpochInv, Current
      <4> QED BY <3>1, <4>1, <4>2 DEF EpochInv, CellPCs, EnteredPCs
    <3>11. DoneInv' BY <3>1, <3>6, <3>7, <3>8 DEF DoneInv, CellPCs
    <3> QED BY <3>4, <3>10, <3>11 DEF SourceInv
  <2> QED BY <1>1, <2>2, <2>3, <2>4, <2>5 DEF NextCell
<1>2. CASE BeginAttempt
  <2>1. /\ rn'.pc = "exec" /\ rn'.idx = rn.idx /\ rn'.nb = rn.nb /\ rn.pc = "begin"
        /\ rn.idx \in Cells /\ rn.idx \in Nat
    BY <1>0, <1>2, <1>n DEF BeginAttempt, Goto, Runners, CellPCs
  <2>2. run'.epoch = run.epoch /\ run'.status # "succeeded"
    BY <1>2, RowOf DEF BeginAttempt
  <2>3. /\ \A c \in Cells \ {rn.idx} : cells'[c] = cells[c] /\ ran'[c] = ran[c]
        /\ cells'[rn.idx] = [status |-> "running", attempt |-> cells[rn.idx].attempt + 1,
                             epoch |-> run.epoch, src |-> rn.nb[rn.idx]]
        /\ ran'[rn.idx] = [epoch |-> run.epoch, src |-> rn.nb[rn.idx],
                           attempt |-> cells[rn.idx].attempt + 1]
    BY <1>0, <1>2, <2>1 DEF BeginAttempt, BeginCellAttempt, CellTable
  <2>4. Current(rn.idx)' /\ RanAs(rn.idx)' BY <2>1, <2>2, <2>3 DEF Current, RanAs
  <2>5. SuccessIsOfTheSource'
    <3>1. RecordedSourceRan BY DEF SourceInv, SuccessIsOfTheSource
    <3>2. ASSUME NEW c \in Cells, cells'[c].epoch = run'.epoch,
                 cells'[c].status \in {"running", "succeeded", "interrupted"}
          PROVE  ran'[c] = [epoch |-> run'.epoch, attempt |-> cells'[c].attempt,
                            src |-> cells'[c].src]
      <4>1. CASE c = rn.idx BY <2>2, <2>3, <4>1
      <4>2. CASE c # rn.idx
        <5>1. cells'[c] = cells[c] /\ ran'[c] = ran[c] BY <2>3, <4>2
        <5> QED BY <2>2, <3>1, <3>2, <5>1 DEF RecordedSourceRan
      <4> QED BY <4>1, <4>2
    <3>3. RecordedSourceRan' BY <3>2 DEF RecordedSourceRan
    <3> QED BY <2>2, <3>3 DEF SuccessIsOfTheSource, SucceededRunIsComplete
  <2>6. \A c \in Cells : c < rn.idx => cells'[c] = cells[c] /\ ran'[c] = ran[c]
    <3>1. \A c \in Cells : c < rn.idx => c # rn.idx BY <1>n, <2>1
    <3> QED BY <2>3, <3>1
  <2>7. \A c \in Cells : c < rn.idx => Done(c)'
    BY <2>1, <2>2, <2>6, DoneKept DEF SourceInv, DoneInv, CellPCs
  <2>8. EpochInv'
    <3>1. \A c \in Cells : cells'[c].epoch <= run'.epoch /\ cells'[c].src = rn'.nb[c]
      BY <1>0, <2>1, <2>2, <2>3 DEF SourceInv, EpochInv, ReadPCs, CellPCs
    <3>2. \A c \in Cells : c > rn.idx => c # rn.idx BY <1>n, <2>1
    <3>3. /\ rn.idx \in CodeCells
          /\ \A c \in Cells : c > rn.idx /\ Current(c)' => cells'[c].status \notin Entered
      BY <2>1, <2>2, <2>3, <3>2 DEF SourceInv, EpochInv, Current, CellPCs
    <3> QED BY <2>1, <2>4, <3>1, <3>3 DEF EpochInv
  <2>9. DoneInv' BY <2>1, <2>7 DEF DoneInv
  <2> QED BY <2>5, <2>8, <2>9 DEF SourceInv
<1>3. CASE CellPublished
  <2>1. /\ rn'.pc = "next" /\ rn'.idx = rn.idx + 1 /\ rn'.nb = rn.nb /\ rn.pc = "publishCell"
        /\ rn.idx \in Cells /\ rn.idx \in Nat /\ UNCHANGED <<run, cells, ran>>
    BY <1>0, <1>3, <1>n DEF CellPublished, Runners, CellPCs, durable
  <2>2. /\ SuccessIsOfTheSource'
        /\ \A c \in Cells : cells'[c].epoch <= run'.epoch
        /\ \A c \in Cells : (Done(c)' <=> Done(c)) /\ (Current(c)' <=> Current(c))
    BY <2>1, SameCells
  <2>3. Done(rn.idx)
    BY <2>1 DEF SourceInv, EpochInv, CellPCs, EnteredPCs, Done, Current, RanAs
  <2>4. \A c \in Cells : /\ c < rn'.idx => c < rn.idx \/ c = rn.idx
                         /\ c >= rn'.idx => c > rn.idx
    BY <1>n, <2>1
  <2>5. EpochInv'
    BY <2>1, <2>2, <2>4 DEF SourceInv, EpochInv, ReadPCs, CellPCs, EnteredPCs
  <2>6. DoneInv' BY <2>1, <2>2, <2>3, <2>4 DEF SourceInv, DoneInv, CellPCs
  <2> QED BY <2>2, <2>5, <2>6 DEF SourceInv
<1>4. CASE CellSucceeds \/ FailureSettles \/ PauseFailedCell \/ RecordInterrupted
  <2>1. rn.pc \in EnteredPCs \ {"publishCell"} /\ Up /\ UNCHANGED ran
    BY <1>4 DEF CellSucceeds, FailureSettles, PauseFailedCell, RecordInterrupted, EnteredPCs
  <2>2. run'.epoch = run.epoch /\ run'.status # "succeeded"
    <3>1. run.status # "succeeded"
      BY <2>1 DEF LiveRunner, IsTerminal, TerminalStatus, EnteredPCs
    <3>2. CASE run' = run BY <3>1, <3>2
    <3>3. CASE FailureSettles
      BY <3>1, <3>2, <3>3, CancelEvolves, RowOf DEF FailureSettles
    <3>4. CASE PauseFailedCell BY <3>4, RowOf DEF PauseFailedCell
    <3> QED BY <1>4, <3>2, <3>3, <3>4 DEF CellSucceeds, RecordInterrupted
  <2>3. PICK s \in {"succeeded", "interrupted", "failed"} :
          /\ cells' = cells \/ cells' = CompleteCell(cells, rn.idx, s)
          /\ \/ s = "succeeded" /\ rn'.pc = "publishCell" /\ cells' = CompleteCell(cells, rn.idx, s)
             \/ s = "interrupted" /\ rn'.pc = "teardown" /\ rn'.outcome = "cancel"
             \/ s = "interrupted" /\ rn'.pc = "pausing" /\ cells' = cells
             \/ s = "failed" /\ rn'.pc = "recover" /\ cells' = CompleteCell(cells, rn.idx, s)
    BY <1>0, <1>4 DEF CellSucceeds, FailureSettles, PauseFailedCell, RecordInterrupted, Goto,
                      Leave, Runners
  <2>4. rn'.idx = rn.idx /\ rn'.nb = rn.nb
    BY <1>0, <1>4 DEF CellSucceeds, FailureSettles, PauseFailedCell, RecordInterrupted, Goto,
                      Leave, Runners
  <2>5. s \in CellStatus BY DEF CellStatus
  <2>6. /\ SuccessIsOfTheSource'
        /\ \A c \in Cells : cells'[c].epoch <= run'.epoch /\ cells'[c].src = cells[c].src
        /\ \A c \in Cells : c # rn.idx => cells'[c] = cells[c]
        /\ \A c \in Cells : c < rn.idx => Done(c)'
        /\ Current(rn.idx)' /\ RanAs(rn.idx)'
    <3>1. PICK i \in Cells : i = rn.idx BY <1>0, <2>1 DEF EnteredPCs, CellPCs
    <3>2. Current(i)' /\ RanAs(i)' BY <2>1, <2>2, <2>3, <2>5, <3>1, CellSettles
    <3>3. Current(rn.idx)' /\ RanAs(rn.idx)' BY <2>4, <3>1, <3>2 DEF Current, RanAs
    <3> QED BY <2>1, <2>2, <2>3, <2>5, <3>1, <3>3, CellSettles
  <2>7. cells' = CompleteCell(cells, rn.idx, s) => cells'[rn.idx].status = s
    BY <1>0, <2>1, CompletedCell DEF EnteredPCs, CellPCs
  <2>8. CASE rn'.pc = "teardown"
    <3>1. EpochInv' BY <2>6, <2>8 DEF EpochInv, ReadPCs, CellPCs, EnteredPCs
    <3>2. DoneInv' BY <2>3, <2>8 DEF DoneInv, CellPCs
    <3> QED BY <2>6, <3>1, <3>2 DEF SourceInv
  <2>9. CASE rn'.pc \in {"publishCell", "pausing", "recover"}
    <3>1. rn.idx \in Cells /\ rn.idx \in Nat BY <1>0, <1>n, <2>1 DEF EnteredPCs, CellPCs
    <3>2. \A c \in Cells : c > rn.idx => c # rn.idx BY <1>n, <3>1
    <3>3. /\ rn.idx \in CodeCells
          /\ \A c \in Cells : c > rn.idx /\ Current(c)' => cells'[c].status \notin Entered
      BY <2>1, <2>2, <2>6, <3>2 DEF SourceInv, EpochInv, CellPCs, EnteredPCs, Current
    <3>4. \A c \in Cells : cells'[c].src = rn'.nb[c]
      <4>1. rn.pc \in ReadPCs
        BY <1>0, <1>4, <2>9 DEF ReadPCs, CellPCs, CellSucceeds, FailureSettles,
                                PauseFailedCell, RecordInterrupted, Leave, Runners
      <4> QED BY <2>4, <2>6, <4>1 DEF SourceInv, EpochInv
    <3>5. EpochInv'
      BY <2>3, <2>4, <2>6, <2>7, <2>9, <3>3, <3>4 DEF EpochInv, CellPCs, EnteredPCs
    <3>6. DoneInv' BY <2>4, <2>6, <2>9 DEF DoneInv, CellPCs
    <3> QED BY <2>6, <3>5, <3>6 DEF SourceInv
  <2> QED BY <2>3, <2>8, <2>9
<1> QED BY <1>1, <1>2, <1>3, <1>4 DEF RunCells
\* An execution ends, or an await of the runner raises.
LEMMA ErrorsKeepSource ==
  ASSUME TypeInv, LiveRunner, SourceInv, ExecEnds \/ RunnerError \/ BlockingWaitTimesOut
  PROVE  SourceInv'
<1> USE DEF At, Suspended
<1>0. rn \in Runners BY DEF TypeInv, RunnerOK
<1>1. UNCHANGED <<run, cells, ran>>
  BY DEF ExecEnds, ExecReturns, ExecFails, ExecBreaks, RunnerError, BlockingWaitTimesOut, durable
<1>2. \/ rn'.pc = "failckpt" \/ (rn'.pc = "teardown" /\ rn'.outcome = "fail")
      \/ /\ rn.pc \in {"exec", "settle", "publishCell"}
         /\ rn'.pc \in {"settle", "failing", "interrupted"}
         /\ rn'.pc # "interrupted" => rn.pc = "exec"
         /\ rn'.idx = rn.idx /\ rn'.nb = rn.nb
  BY <1>0, FailRunner
     DEF ExecEnds, ExecReturns, ExecFails, ExecBreaks, RunnerError, BlockingWaitTimesOut, Goto,
         Leave, Runners, Failures
<1>3. CASE rn'.pc = "failckpt" \/ (rn'.pc = "teardown" /\ rn'.outcome = "fail")
  BY <1>1, <1>3, OutKeepsSource DEF OutPCs
<1>4. CASE /\ rn.pc \in {"exec", "settle", "publishCell"}
           /\ rn'.pc \in {"settle", "failing", "interrupted"}
           /\ rn'.pc # "interrupted" => rn.pc = "exec"
           /\ rn'.idx = rn.idx /\ rn'.nb = rn.nb
  <2>1. /\ SuccessIsOfTheSource'
        /\ \A c \in Cells : cells'[c].epoch <= run'.epoch
        /\ \A c \in Cells : (Done(c)' <=> Done(c)) /\ (Current(c)' <=> Current(c))
    BY <1>1, SameCells
  <2>2. Current(rn.idx)' /\ RanAs(rn.idx)'
    BY <1>1, <1>4 DEF SourceInv, EpochInv, EnteredPCs, Current, RanAs
  <2>3. EpochInv'
    BY <1>1, <1>4, <2>1, <2>2 DEF SourceInv, EpochInv, ReadPCs, CellPCs, EnteredPCs
  <2>4. DoneInv' BY <1>1, <1>4, <2>1 DEF SourceInv, DoneInv, CellPCs
  <2> QED BY <2>1, <2>3, <2>4 DEF SourceInv
<1> QED BY <1>2, <1>3, <1>4

\* A recovery takes over the cells that the kernel was not given.
LEMMA RecoverKeepsSource ==
  ASSUME TypeInv, LiveRunner, SourceInv, Recover
  PROVE  SourceInv'
<1> USE DEF At
<1>0. /\ rn \in Runners /\ run \in Runs /\ cells \in CellTable /\ source \in Notebooks
      /\ rn.pc \in CellPCs => rn.idx \in Cells
  BY DEF TypeInv, RunnerOK, StoreOK
<1>1. CASE TakeCommand
  <2>1. UNCHANGED <<run, cells, ran>> /\ rn.pc = "recover" BY <1>1 DEF TakeCommand
  <2>2. \/ rn'.pc = "teardown" /\ rn'.outcome = "cancel"
        \/ rn'.pc \in {"recover", "apply"} /\ rn'.idx = rn.idx /\ rn'.nb = rn.nb
    BY <1>0, <1>1 DEF TakeCommand, Leave, Runners
  <2>3. CASE rn'.pc = "teardown" /\ rn'.outcome = "cancel"
    BY <2>1, <2>3, OutKeepsSource
  <2>4. CASE rn'.pc \in {"recover", "apply"} /\ rn'.idx = rn.idx /\ rn'.nb = rn.nb
    <3>1. /\ SuccessIsOfTheSource'
          /\ \A c \in Cells : cells'[c].epoch <= run'.epoch
          /\ \A c \in Cells : (Done(c)' <=> Done(c)) /\ (Current(c)' <=> Current(c))
      BY <2>1, SameCells
    <3>2. EpochInv'
      BY <2>1, <2>4, <3>1 DEF SourceInv, EpochInv, ReadPCs, CellPCs, EnteredPCs
    <3>3. DoneInv' BY <2>1, <2>4, <3>1 DEF SourceInv, DoneInv, CellPCs
    <3> QED BY <3>1, <3>2, <3>3 DEF SourceInv
  <2> QED BY <2>2, <2>3, <2>4
<1>2. CASE ApplyRecovery
  <2>1. UNCHANGED ran /\ rn.pc = "apply" /\ rn.idx \in Cells
    BY <1>0, <1>2 DEF ApplyRecovery, CellPCs
  <2>2. run'.epoch = run.epoch /\ run'.status # "succeeded"
    <3>1. run.status # "succeeded"
      BY <1>2 DEF ApplyRecovery, LiveRunner, IsTerminal, TerminalStatus
    <3> QED BY <1>2, <3>1, RowOf DEF ApplyRecovery
  <2>3. CASE /\ \A c \in 0 .. rn.idx - 1 : source[c] = rn.nb[c]
             /\ rn' = [rn EXCEPT !.pc = "accept", !.outcome = "complete", !.nb = source]
             /\ cells' = UpdateSource(cells, source)
    <3>1. rn'.pc = "accept" /\ rn'.idx = rn.idx /\ rn'.nb = source /\ rn'.outcome = "complete"
      BY <1>0, <2>3 DEF Runners
    <3>2. \A c \in Cells : /\ cells'[c].status = cells[c].status
                           /\ cells'[c].epoch = cells[c].epoch
                           /\ cells'[c].attempt = cells[c].attempt
                           /\ cells'[c].src = source[c]
      BY <1>0, <2>3, UpdatedCells
    <3>3. \A c \in Cells : c < rn.idx => c \in 0 .. rn.idx - 1
      BY <2>1, NotebookHasCells DEF Cells
    <3>4. \A c \in Cells : c < rn.idx => cells'[c].src = cells[c].src
      BY <2>1, <2>3, <3>2, <3>3 DEF SourceInv, EpochInv, ReadPCs, CellPCs
    <3>5. \A c \in Cells : c < rn.idx \/ c = rn.idx \/ c > rn.idx
      BY <2>1, NotebookHasCells DEF Cells
    <3>6. \A c \in Cells : Current(c) /\ cells[c].status \in Entered => c < rn.idx
      BY <2>1, <3>5 DEF SourceInv, EpochInv, CellPCs, Entered
    <3>7. SuccessIsOfTheSource'
      BY <2>1, <2>2, <3>2, <3>4, <3>6
         DEF SourceInv, SuccessIsOfTheSource, SucceededRunIsComplete, RecordedSourceRan,
             Current, Entered
    <3>8. \A c \in Cells : c < rn.idx => Done(c)'
      <4>1. rn.idx \in Nat BY <2>1, CellsAreNaturals
      <4> QED BY <2>1, <2>2, <3>2, <4>1, DoneKept DEF SourceInv, DoneInv, CellPCs
    <3>9. EpochInv'
      BY <2>1, <2>2, <3>1, <3>2 DEF SourceInv, EpochInv, ReadPCs, CellPCs, EnteredPCs, Current
    <3>10. DoneInv' BY <3>1, <3>8 DEF DoneInv, CellPCs
    <3> QED BY <3>7, <3>9, <3>10 DEF SourceInv
  <2>4. CASE UNCHANGED cells /\ rn'.pc \in {"accept", "recover"} /\ rn'.idx = rn.idx
               /\ rn'.nb = rn.nb /\ (rn'.pc = "accept" => rn'.outcome = "restart")
    <3>1. /\ SuccessIsOfTheSource'
          /\ \A c \in Cells : cells'[c].epoch <= run'.epoch
          /\ \A c \in Cells : (Done(c)' <=> Done(c)) /\ (Current(c)' <=> Current(c))
      BY <2>1, <2>2, <2>4, SameCells
    <3>2. EpochInv'
      BY <2>1, <2>4, <3>1 DEF SourceInv, EpochInv, ReadPCs, CellPCs, EnteredPCs
    <3>3. DoneInv' BY <2>1, <2>4, <3>1 DEF SourceInv, DoneInv, CellPCs
    <3> QED BY <3>1, <3>2, <3>3 DEF SourceInv
  <2> QED BY <1>0, <1>2, <2>3, <2>4 DEF ApplyRecovery, Goto, Runners
<1>3. CASE AcceptRecovery
  <2>1. UNCHANGED <<run, cells, ran>> /\ rn.pc = "accept" BY <1>3 DEF AcceptRecovery
  <2>2. \/ rn'.pc = "teardown" /\ rn'.outcome = "restart"
        \/ rn'.pc = "begin" /\ rn'.idx = rn.idx /\ rn'.nb = rn.nb
    BY <1>0, <1>3 DEF AcceptRecovery, Runners
  <2>3. CASE rn'.pc = "teardown" /\ rn'.outcome = "restart"
    BY <2>1, <2>3, OutKeepsSource
  <2>4. CASE rn'.pc = "begin" /\ rn'.idx = rn.idx /\ rn'.nb = rn.nb
    <3>1. /\ SuccessIsOfTheSource'
          /\ \A c \in Cells : cells'[c].epoch <= run'.epoch
          /\ \A c \in Cells : (Done(c)' <=> Done(c)) /\ (Current(c)' <=> Current(c))
      BY <2>1, SameCells
    <3>2. rn.idx \in Cells BY <1>0, <2>1 DEF CellPCs
    <3>3. \A c \in Cells : c >= rn.idx => c = rn.idx \/ c > rn.idx
      BY <3>2, NotebookHasCells DEF Cells
    <3>4. \A c \in Cells : c >= rn.idx /\ Current(c) => cells[c].status \notin Entered
      BY <2>1, <3>2, <3>3 DEF SourceInv, EpochInv, CellPCs, Entered
    <3>5. EpochInv'
      BY <2>1, <2>4, <3>1, <3>4 DEF SourceInv, EpochInv, ReadPCs, CellPCs, EnteredPCs
    <3>6. DoneInv' BY <2>1, <2>4, <3>1 DEF SourceInv, DoneInv, CellPCs
    <3> QED BY <3>1, <3>5, <3>6 DEF SourceInv
  <2> QED BY <2>2, <2>3, <2>4
<1> QED BY <1>1, <1>2, <1>3 DEF Recover

\* The epoch ends, and the run succeeds only if all of its cells were done.
LEMMA FinishKeepsSource ==
  ASSUME TypeInv, LiveRunner, SourceInv, FinishRunner
  PROVE  SourceInv'
<1> USE DEF At
<1>0. rn \in Runners /\ rn.outcome \in Outcomes BY DEF TypeInv, RunnerOK, Runners
<1>1. UNCHANGED <<cells, ran>> /\ run'.epoch = run.epoch
  BY RowOf DEF FinishRunner, LeaveEpoch, OutputPublished, BlockingWaitEnds, StopCancelResources,
     FinishSucceeded, FinishCancelled, FinishFailed, Finalize, durable
<1>2. CASE FinishSucceeded /\ run' = FinishRun(run, "succeeded", "run.succeeded")
  <2>1. rn.pc = "finalckpt" BY <1>2 DEF FinishSucceeded
  <2>2. rn'.pc \in {"stopres", "returned"}
    BY <1>0, <1>2, FinishedRunner DEF FinishSucceeded, PCs, AwaitPCs
  <2>3. \A c \in Cells : Done(c) BY <2>1 DEF SourceInv, DoneInv
  <2>4. \A c \in Cells : Done(c)' BY <1>1, <2>3 DEF Done
  <2>5. SucceededRunIsComplete' BY <2>4 DEF SucceededRunIsComplete, Done
  <2>6. RecordedSourceRan'
    BY <1>1 DEF SourceInv, SuccessIsOfTheSource, RecordedSourceRan
  <2>7. EpochInv'
    BY <1>1, <2>2 DEF SourceInv, EpochInv, ReadPCs, CellPCs, EnteredPCs
  <2>8. DoneInv' BY <2>2 DEF DoneInv, CellPCs
  <2> QED BY <2>5, <2>6, <2>7, <2>8 DEF SourceInv, SuccessIsOfTheSource
<1>3. CASE ~(FinishSucceeded /\ run' = FinishRun(run, "succeeded", "run.succeeded"))
  <2>1. run'.status = "succeeded" => run.status = "succeeded"
    BY <1>3, RowOf DEF FinishRunner, LeaveEpoch, OutputPublished, BlockingWaitEnds,
       StopCancelResources, FinishSucceeded, FinishCancelled, FinishFailed, Finalize, durable
  <2>2. CASE LeaveEpoch /\ rn.outcome = "complete" /\ rn'.pc = "output"
    <3>1. /\ SuccessIsOfTheSource'
          /\ \A c \in Cells : cells'[c].epoch <= run'.epoch
          /\ \A c \in Cells : Done(c)' <=> Done(c)
      BY <1>1, <2>1, SameCells
    <3>2. \A c \in Cells : Done(c) BY <2>2 DEF LeaveEpoch, SourceInv, DoneInv
    <3>3. EpochInv' BY <2>2, <3>1 DEF EpochInv, ReadPCs, CellPCs, EnteredPCs
    <3>4. DoneInv' BY <2>2, <3>1, <3>2 DEF DoneInv, CellPCs
    <3> QED BY <3>1, <3>3, <3>4 DEF SourceInv
  <2>3. CASE rn.pc \in {"output", "external"} /\ rn'.pc \in {"external", "finalckpt"}
    <3>1. /\ SuccessIsOfTheSource'
          /\ \A c \in Cells : cells'[c].epoch <= run'.epoch
          /\ \A c \in Cells : Done(c)' <=> Done(c)
      BY <1>1, <2>1, SameCells
    <3>2. \A c \in Cells : Done(c) BY <2>3 DEF SourceInv, DoneInv
    <3>3. EpochInv' BY <2>3, <3>1 DEF EpochInv, ReadPCs, CellPCs, EnteredPCs
    <3>4. DoneInv' BY <2>3, <3>1, <3>2 DEF DoneInv, CellPCs
    <3> QED BY <3>1, <3>3, <3>4 DEF SourceInv
  <2>4. CASE rn'.pc \in OutPCs BY <1>1, <2>1, <2>4, OutKeepsSource
  <2>5. rn'.pc \in OutPCs \/ (rn.pc \in {"output", "external"} /\ rn'.pc \in {"external", "finalckpt"})
          \/ (LeaveEpoch /\ rn.outcome = "complete" /\ rn'.pc = "output")
    <3>1. LeaveEpoch => rn'.pc \in OutPCs \/ (rn.outcome = "complete" /\ rn'.pc = "output")
      <4>1. CASE rn.outcome = "fail" \/ rn.outcome = "cancel" \/ rn.outcome = "restart"
        <5>1. LeaveEpoch /\ rn.outcome = "cancel" => Finish("stopres")
          BY DEF LeaveEpoch, TypeInv, MemoryOK, Controls
        <5>2. LeaveEpoch /\ rn.outcome # "cancel" =>
                Fail("run.runner_error") \/ Finish("stopres") \/ Goto("load")
          BY <4>1 DEF LeaveEpoch
        <5> QED BY <1>0, <4>1, <5>1, <5>2, FinishedRunner, FailRunner, GotoRunner
                DEF PCs, AwaitPCs, SyncPCs, OutPCs, Failures
      <4>2. CASE rn.outcome = "complete"
        BY <1>0, <4>2, FinishedRunner DEF LeaveEpoch, PCs, AwaitPCs, OutPCs
      <4> QED BY <1>0, <4>1, <4>2 DEF Outcomes
    <3>2. OutputPublished \/ BlockingWaitEnds =>
            rn'.pc \in OutPCs \/ (rn.pc \in {"output", "external"} /\ rn'.pc \in {"external", "finalckpt"})
      BY <1>0, FinishedRunner, FailRunner
         DEF OutputPublished, BlockingWaitEnds, PCs, AwaitPCs, OutPCs, Failures
    <3>3. StopCancelResources \/ FinishSucceeded \/ FinishCancelled \/ FinishFailed \/ Finalize =>
            rn'.pc \in OutPCs
      BY <1>0, FinishedRunner
         DEF StopCancelResources, FinishSucceeded, FinishCancelled, FinishFailed, Finalize, PCs,
             AwaitPCs, OutPCs
    <3> QED BY <3>1, <3>2, <3>3 DEF FinishRunner
  <2> QED BY <2>2, <2>3, <2>4, <2>5
<1> QED BY <1>2, <1>3
\* The loop, other processes and the user touch neither the cells nor what ran.
LEMMA OthersKeepSource ==
  ASSUME TypeInv, LiveRunner, SourceInv, ActionLoop \/ ServeSignal \/ Environment
  PROVE  SourceInv'
<1>1. UNCHANGED <<cells, ran, rn>>
  BY DEF ActionLoop, DispatchRecovery, DispatchStop, RequestResourceStop,
     StopIsAccepted, StopIsRefused, StopIsConfirmed, StopTimesOut, StopCascades, ServeSignal,
     Environment, Signal, RegisterResource, ObserveResourceEnd, Edit, CliReads, CliInserts,
     durable, context
<1>2. Cancel \/ UNCHANGED run
  BY DEF ActionLoop, DispatchRecovery, DispatchStop, RequestResourceStop,
     StopIsAccepted, StopIsRefused, StopIsConfirmed, StopTimesOut, StopCascades, ServeSignal,
     Environment, Signal, RegisterResource, ObserveResourceEnd, Edit, CliReads, CliInserts,
     durable
<1>3. run'.epoch = run.epoch /\ (run'.status = "succeeded" => run.status = "succeeded")
  BY <1>2, CancelEvolves, RowOf
<1>4. /\ SuccessIsOfTheSource'
      /\ \A c \in Cells : cells'[c].epoch <= run'.epoch
      /\ \A c \in Cells : Done(c)' <=> Done(c)
      /\ \A c \in Cells : (Current(c)' <=> Current(c)) /\ (RanAs(c)' <=> RanAs(c))
  BY <1>1, <1>3, SameCells
<1>5. rn.pc \in EnteredPCs => Current(rn.idx)' /\ RanAs(rn.idx)'
  BY <1>1, <1>3 DEF SourceInv, EpochInv, Current, RanAs
<1>6. EpochInv' BY <1>1, <1>4, <1>5 DEF SourceInv, EpochInv
<1>7. DoneInv' BY <1>1, <1>4 DEF SourceInv, DoneInv
<1> QED BY <1>4, <1>6, <1>7 DEF SourceInv

LEMMA ProcessKeepsSource ==
  ASSUME TypeInv, SourceInv, Process \/ OfflineStop
  PROVE  SourceInv'
<1>1. UNCHANGED <<cells, ran>>
  BY DEF Process, RequestRecovery, ClaimBootstrap, Serve, Quiesce, Crash, durable, OfflineStop,
     OfflineStopPrepares, OfflineStopClaims, OfflineStopRequests, OfflineStopAccepted,
     OfflineStopRefused, OfflineStopConfirmed, OfflineStopCancels, OfflineStopFinishes,
     OfflineStopCompletes, OfflineSettles
<1>2. run'.epoch = run.epoch /\ (run'.status = "succeeded" => run.status = "succeeded")
  BY RowOf DEF Process, RequestRecovery, ClaimBootstrap, Serve, Quiesce, Crash, durable,
     OfflineStop, OfflineStopPrepares, OfflineStopClaims, OfflineStopRequests,
     OfflineStopAccepted, OfflineStopRefused, OfflineStopConfirmed, OfflineStopCancels,
     OfflineStopFinishes, OfflineStopCompletes, OfflineSettles
<1>3. rn'.pc \in OutPCs BY ProcessRunner DEF OutPCs
<1> QED BY <1>1, <1>2, <1>3, OutKeepsSource

\* A run that succeeded rests on cells that its last kernel executed, in the
\* version that the store shows, however the notebook was edited, read again and
\* replayed on the way.
THEOREM SuccessesAreOfTheSource == Spec => []SuccessIsOfTheSource
<1>1. Init => SourceInv
  <2> SUFFICES ASSUME Init PROVE SourceInv OBVIOUS
  <2>1. /\ rn.pc = "none" /\ run.status = "created" /\ run.epoch = 0
        /\ \A c \in Cells : cells[c].epoch = 0 /\ cells[c].status = "pending"
    BY NoRunnerIsRunner DEF Init, NewRun, InitializeCells
  <2>2. EpochInv BY <2>1 DEF EpochInv, ReadPCs, CellPCs, EnteredPCs
  <2>3. DoneInv BY <2>1 DEF DoneInv, CellPCs
  <2> QED BY <2>1, <2>2, <2>3
          DEF SourceInv, SuccessIsOfTheSource, SucceededRunIsComplete, RecordedSourceRan
<1>2. TypeInv /\ SettledInv /\ SourceInv /\ [Next]_vars => SourceInv'
  <2>1. ASSUME SourceInv, UNCHANGED vars PROVE SourceInv'
    <3>1. SuccessIsOfTheSource'
      BY <2>1 DEF vars, SourceInv, SuccessIsOfTheSource, SucceededRunIsComplete,
                  RecordedSourceRan
    <3>2. EpochInv' BY <2>1 DEF vars, SourceInv, EpochInv, Current, RanAs
    <3>3. DoneInv' BY <2>1 DEF vars, SourceInv, DoneInv, Done
    <3> QED BY <3>1, <3>2, <3>3 DEF SourceInv
  <2> QED BY <2>1, StartKeepsSource, CellsKeepSource, RecoverKeepsSource, FinishKeepsSource,
             ErrorsKeepSource, OthersKeepSource, ProcessKeepsSource DEF Next, Runner, SettledInv
<1>3. SourceInv => SuccessIsOfTheSource BY DEF SourceInv
<1> QED BY <1>1, <1>2, <1>3, AlwaysTypeInv, AlwaysSettledInv, PTL DEF Spec
-----------------------------------------------------------------------------
(* Recoveries: one at a time, and of the failure on record.                *)

\* What each operation on the table of actions does to the requests in it: what
\* was asked for stays, and of the recoveries none begins, ends or completes.
Keeps(as, bs) ==
  \A i \in ActionIds(as) : /\ i \in ActionIds(bs) /\ bs[i].kind = as[i].kind
                           /\ bs[i].epoch = as[i].epoch /\ bs[i].attempt = as[i].attempt
                           /\ bs[i].failedCell = as[i].failedCell
InFlight(as, i) == as[i].kind \in RecoveryKind /\ as[i].status = "executing"
NoneBegins(as, bs) ==
  \A i \in ActionIds(bs) : InFlight(bs, i) => i \in ActionIds(as) /\ InFlight(as, i)
NoneEnds(as, bs) == \A i \in ActionIds(as) : InFlight(as, i) => InFlight(bs, i)
NoneCompletes(as, bs) ==
  \A i \in ActionIds(as) : bs[i].kind \in RecoveryKind /\ bs[i].status = "completed" =>
                             as[i].status = "completed"
Undisturbed(as, bs) ==
  Keeps(as, bs) /\ NoneBegins(as, bs) /\ NoneEnds(as, bs) /\ NoneCompletes(as, bs)

\* All but the action i are as they were, and that one is of the same request.
SameBut(as, bs, i) ==
  /\ Keeps(as, bs) /\ ActionIds(bs) = ActionIds(as)
  /\ \A j \in ActionIds(as) : j # i => bs[j] = as[j]

LEMMA FinishDoes ==
  ASSUME NEW as \in Seq(Actions), NEW i, NEW status \in ActionStatus
  PROVE  /\ SameBut(as, FinishAction(as, i, status), i)
         /\ i \in ActionIds(as) =>
              FinishAction(as, i, status)[i].status =
                IF as[i].status \in {"requested", "executing"} THEN status
                ELSE as[i].status
<1> DEFINE bs == FinishAction(as, i, status)
<1>1. Len(as) \in Nat /\ as \in [1 .. Len(as) -> Actions] BY LenProperties
<1>2. Len(bs) = Len(as) BY FinishActionRows
<1>3. ActionIds(bs) = ActionIds(as) BY <1>2 DEF ActionIds
<1>4. \A j \in ActionIds(as) : j # i => bs[j] = as[j]
  BY <1>1 DEF FinishAction, ActionIds
<1>5. i \in ActionIds(as) =>
        /\ bs[i].kind = as[i].kind
        /\ bs[i].epoch = as[i].epoch /\ bs[i].attempt = as[i].attempt
        /\ bs[i].failedCell = as[i].failedCell
        /\ bs[i].status = IF as[i].status \in {"requested", "executing"} THEN status
                          ELSE as[i].status
  BY <1>1 DEF FinishAction, ActionIds, Actions
<1> HIDE DEF bs
<1>6. Keeps(as, bs) BY <1>3, <1>4, <1>5 DEF Keeps
<1>7. SameBut(as, bs, i) BY <1>3, <1>4, <1>6 DEF SameBut
<1> QED BY <1>5, <1>7 DEF bs

LEMMA ClaimDoes ==
  ASSUME NEW as \in Seq(Actions), NEW i
  PROVE  /\ SameBut(as, ClaimAction(as, i), i)
         /\ i \in ActionIds(as) => ClaimAction(as, i)[i].status = "executing"
<1> DEFINE bs == ClaimAction(as, i)
<1>1. Len(as) \in Nat /\ as \in [1 .. Len(as) -> Actions] BY LenProperties
<1>2. Len(bs) = Len(as) BY ClaimActionRows
<1>3. ActionIds(bs) = ActionIds(as) BY <1>2 DEF ActionIds
<1>4. \A j \in ActionIds(as) : j # i => bs[j] = as[j]
  BY <1>1 DEF ClaimAction, ActionIds
<1>5. i \in ActionIds(as) =>
        /\ bs[i].kind = as[i].kind
        /\ bs[i].epoch = as[i].epoch /\ bs[i].attempt = as[i].attempt
        /\ bs[i].failedCell = as[i].failedCell
        /\ bs[i].status = "executing"
  BY <1>1 DEF ClaimAction, ActionIds, Actions
<1> HIDE DEF bs
<1>6. Keeps(as, bs) BY <1>3, <1>4, <1>5 DEF Keeps
<1>7. SameBut(as, bs, i) BY <1>3, <1>4, <1>6 DEF SameBut
<1> QED BY <1>5, <1>7 DEF bs

LEMMA RecoverDoes ==
  ASSUME NEW as \in Seq(Actions)
  PROVE  /\ Keeps(as, RecoverIncompleteActions(as))
         /\ ActionIds(RecoverIncompleteActions(as)) = ActionIds(as)
         /\ NoneCompletes(as, RecoverIncompleteActions(as))
         /\ \A i \in ActionIds(as) : RecoverIncompleteActions(as)[i].status # "executing"
<1> DEFINE bs == RecoverIncompleteActions(as)
<1>1. Len(as) \in Nat /\ as \in [1 .. Len(as) -> Actions] BY LenProperties
<1>2. Len(bs) = Len(as) BY RecoverRows
<1>3. ActionIds(bs) = ActionIds(as) BY <1>2 DEF ActionIds
<1>4. \A i \in ActionIds(as) :
        /\ bs[i].kind = as[i].kind
        /\ bs[i].epoch = as[i].epoch /\ bs[i].attempt = as[i].attempt
        /\ bs[i].failedCell = as[i].failedCell
        /\ bs[i].status = IF as[i].status = "executing" THEN "requested" ELSE as[i].status
  BY <1>1 DEF RecoverIncompleteActions, ActionIds, Actions
<1> HIDE DEF bs
<1>5. Keeps(as, bs) BY <1>3, <1>4 DEF Keeps
<1>6. NoneCompletes(as, bs) BY <1>4 DEF NoneCompletes
<1> QED BY <1>3, <1>4, <1>5, <1>6 DEF bs

LEMMA RejectDoes ==
  ASSUME NEW as \in Seq(Actions), NEW i
  PROVE  /\ Keeps(as, RejectRequestsAfter(as, i))
         /\ ActionIds(RejectRequestsAfter(as, i)) = ActionIds(as)
         /\ NoneCompletes(as, RejectRequestsAfter(as, i))
<1> DEFINE bs == RejectRequestsAfter(as, i)
<1>1. Len(as) \in Nat /\ as \in [1 .. Len(as) -> Actions] BY LenProperties
<1>2. Len(bs) = Len(as) BY RejectRows
<1>3. ActionIds(bs) = ActionIds(as) BY <1>2 DEF ActionIds
<1>4. \A j \in ActionIds(as) :
        /\ bs[j].kind = as[j].kind
        /\ bs[j].epoch = as[j].epoch /\ bs[j].attempt = as[j].attempt
        /\ bs[j].failedCell = as[j].failedCell
        /\ bs[j].status \in {as[j].status, "rejected"}
  BY <1>1 DEF RejectRequestsAfter, ActionIds, Actions
<1> HIDE DEF bs
<1>5. Keeps(as, bs) BY <1>3, <1>4 DEF Keeps
<1>6. NoneCompletes(as, bs) BY <1>4 DEF NoneCompletes
<1> QED BY <1>3, <1>4, <1>5, <1>6 DEF bs

LEMMA AppendDoes ==
  ASSUME NEW as \in Seq(Actions), NEW a \in Actions
  PROVE  /\ Keeps(as, Append(as, a))
         /\ \A i \in ActionIds(as) : Append(as, a)[i] = as[i]
         /\ \A i \in ActionIds(Append(as, a)) :
              i \notin ActionIds(as) => i = Len(as) + 1 /\ Append(as, a)[i] = a
         /\ Len(as) + 1 \in ActionIds(Append(as, a))
<1> DEFINE bs == Append(as, a)
<1>1. Len(as) \in Nat BY LenProperties
<1>2. Len(bs) = Len(as) + 1 /\ bs[Len(as) + 1] = a BY AppendProperties
<1>3. \A i \in 1 .. Len(as) : bs[i] = as[i] BY AppendProperties
<1> DEFINE n == Len(as)
<1>8. ActionIds(as) = 1 .. n /\ ActionIds(bs) = 1 .. (n + 1) BY <1>2 DEF ActionIds
<1>9. n \in Nat BY <1>1
<1> HIDE DEF bs, n
<1>10. \A i \in 1 .. (n + 1) : i \in 1 .. n \/ i = n + 1 BY <1>9
<1>11. n + 1 \in 1 .. (n + 1) /\ \A i \in 1 .. n : i \in 1 .. (n + 1) BY <1>9
<1>4. \A i \in ActionIds(as) : i \in ActionIds(bs) /\ bs[i] = as[i]
  BY <1>3, <1>8, <1>11 DEF n
<1>5. \A i \in ActionIds(bs) : i \notin ActionIds(as) => i = Len(as) + 1
  BY <1>8, <1>10 DEF n
<1>6. Len(as) + 1 \in ActionIds(bs) BY <1>8, <1>11 DEF n
<1>7. Keeps(as, bs) BY <1>4 DEF Keeps
<1> QED BY <1>2, <1>4, <1>5, <1>6, <1>7 DEF bs

LEMMA KeepsAll ==
  ASSUME NEW as, NEW bs, NEW cs, Keeps(as, bs), Keeps(bs, cs)
  PROVE  /\ Keeps(as, cs)
         /\ NoneCompletes(as, bs) /\ NoneCompletes(bs, cs) => NoneCompletes(as, cs)
  BY DEF Keeps, NoneCompletes

LEMMA SameButBoth ==
  ASSUME NEW as, NEW bs, NEW cs, NEW i, SameBut(as, bs, i), SameBut(bs, cs, i)
  PROVE  SameBut(as, cs, i)
  BY KeepsAll DEF SameBut

\* Where only a stop has changed, no recovery is concerned.
LEMMA StopChanges ==
  ASSUME NEW as, NEW bs, NEW i \in ActionIds(as), as[i].kind = "stop_resource",
         SameBut(as, bs, i)
  PROVE  Undisturbed(as, bs)
<1>1. bs[i].kind \notin RecoveryKind /\ as[i].kind \notin RecoveryKind
  BY DEF SameBut, Keeps, RecoveryKind
<1> QED BY <1>1 DEF SameBut, Undisturbed, NoneBegins, NoneEnds, NoneCompletes, InFlight

\* A stop comes to its end.
LEMMA StopSettles ==
  ASSUME NEW as \in Seq(Actions), NEW i \in ActionIds(as), as[i].kind = "stop_resource",
         NEW status \in ActionStatus
  PROVE  /\ Undisturbed(as, FinishAction(as, i, status))
         /\ Undisturbed(as, ClaimAction(as, i))
         /\ Undisturbed(as, FinishAction(ClaimAction(as, i), i, status))
<1> DEFINE bs == ClaimAction(as, i)
           cs == FinishAction(bs, i, status)
<1>1. SameBut(as, bs, i) BY ClaimDoes
<1>2. bs \in Seq(Actions) BY ClaimActionRows
<1>3. SameBut(as, FinishAction(as, i, status), i) BY FinishDoes
<1> HIDE DEF bs
<1>4. SameBut(bs, cs, i) BY <1>2, FinishDoes
<1> HIDE DEF cs
<1>5. SameBut(as, cs, i) BY <1>1, <1>4, SameButBoth
<1>6. Undisturbed(as, bs) /\ Undisturbed(as, cs) BY <1>1, <1>5, StopChanges
<1>7. Undisturbed(as, FinishAction(as, i, status)) BY <1>3, StopChanges
<1> QED BY <1>6, <1>7 DEF bs, cs
\* A recovery that acts, of the failure on record.
OfThisFailure(i) ==
  /\ actions[i].epoch = run.epoch /\ actions[i].attempt = run.failedAttempt
  /\ actions[i].failedCell = run.failedCell
SameFailure ==
  /\ run'.epoch = run.epoch /\ run'.failedAttempt = run.failedAttempt
  /\ run'.failedCell = run.failedCell

\* From here on the runner takes no command.
LeavingPCs == {"stopres", "failckpt", "returned", "finalized"}
Leaving == \/ rn.pc \in LeavingPCs
           \/ rn.pc = "teardown" /\ rn.outcome \in {"cancel", "fail"}

\* Whose action it is: the loop and an offline process have a stop, a process
\* that starts has the only recovery that is claimed.
HandsInv ==
  /\ cli # NoCommand => cli.status = "requested"
  /\ al.pc # "poll" => /\ al.id \in ActionIds(actions)
                       /\ actions[al.id].kind = "stop_resource"
  /\ proc.state = "offline" => /\ proc.action \in ActionIds(actions)
                               /\ actions[proc.action].kind = "stop_resource"
  /\ proc.state = "starting" =>
       /\ \A i \in ActionIds(actions) : InFlight(actions, i) => i = proc.action
       /\ proc.action # 0 => OfThisFailure(proc.action)

\* The one recovery in flight is in the queue or in the runner's hands, and the
\* runner waits for it on the failure that it was sent for, or has been called
\* away.
QueuedRecovery(k) ==
  /\ Leaving \/ rn.pc = "recover"
  /\ queue[k] \in ActionIds(actions) /\ InFlight(actions, queue[k])
  /\ OfThisFailure(queue[k])
  /\ \A m \in 1 .. Len(queue) : queue[m] # 0 => m = k

FlightInv ==
  /\ Up => \A i, j \in ActionIds(actions) :
             InFlight(actions, i) /\ InFlight(actions, j) => i = j
  /\ ctl.paused => Leaving \/ rn.pc \in {"recover", "apply"}
  /\ \A k \in 1 .. Len(queue) : queue[k] # 0 => QueuedRecovery(k)
  /\ rn.pc \in {"apply", "accept"} => InFlight(actions, rn.cmd) /\ OfThisFailure(rn.cmd)

RecoveryInv == HandsInv /\ FlightInv

NothingQueued == \A k \in 1 .. Len(queue) : queue[k] = 0

LEMMA UnpausedQueue ==
  ASSUME FlightInv, ~Leaving, rn.pc # "recover"
  PROVE  NothingQueued
  BY DEF FlightInv, QueuedRecovery, NothingQueued

\* The entries of the queue once one is added or taken.
LEMMA QueueEntries ==
  ASSUME TypeInv
  PROVE  /\ \A i \in Nat : /\ Len(Append(queue, i)) = Len(queue) + 1
                           /\ Append(queue, i)[Len(queue) + 1] = i
                           /\ \A k \in 1 .. Len(queue) : Append(queue, i)[k] = queue[k]
         /\ queue # <<>> => /\ Len(Tail(queue)) = Len(queue) - 1 /\ Head(queue) = queue[1]
                            /\ \A k \in 1 .. Len(Tail(queue)) : Tail(queue)[k] = queue[k + 1]
         /\ Len(queue) \in Nat
         /\ \A k \in 1 .. Len(queue) : queue[k] # 0 => queue[k] \in ActionIds(actions)
<1>1. queue \in Seq(0 .. Len(actions)) /\ Len(actions) \in Nat /\ Len(queue) \in Nat
  BY LenProperties DEF TypeInv, MemoryOK, StoreOK
<1>2. queue \in Seq(Nat)
  <2>1. 0 .. Len(actions) \subseteq Nat BY <1>1
  <2> QED BY <1>1, <2>1, SeqMonotonic
<1>3. ASSUME NEW i \in Nat
      PROVE  /\ Len(Append(queue, i)) = Len(queue) + 1
             /\ Append(queue, i)[Len(queue) + 1] = i
             /\ \A k \in 1 .. Len(queue) : Append(queue, i)[k] = queue[k]
  BY <1>2, <1>3, AppendProperties
<1>4. ASSUME queue # <<>>
      PROVE  /\ Len(Tail(queue)) = Len(queue) - 1 /\ Head(queue) = queue[1]
             /\ \A k \in 1 .. Len(Tail(queue)) : Tail(queue)[k] = queue[k + 1]
  BY <1>2, <1>4, HeadTailProperties
<1>5. ASSUME NEW k \in 1 .. Len(queue), queue[k] # 0
      PROVE  queue[k] \in ActionIds(actions)
  <2>1. queue[k] \in 0 .. Len(actions) BY <1>1, LenProperties
  <2>2. \A n \in 0 .. Len(actions) : n # 0 => n \in 1 .. Len(actions) BY <1>1
  <2> QED BY <1>5, <2>1, <2>2 DEF ActionIds
<1> QED BY <1>1, <1>3, <1>4, <1>5

\* Whatever is added to the queue is at its end.
LEMMA QueueGrows ==
  ASSUME TypeInv, NEW i \in Nat, queue' = Append(queue, i)
  PROVE  /\ \A k \in 1 .. Len(queue') :
              (k \in 1 .. Len(queue) /\ queue'[k] = queue[k]) \/ (k = Len(queue) + 1 /\ queue'[k] = i)
         /\ \A k \in 1 .. Len(queue) : k \in 1 .. Len(queue') /\ queue'[k] = queue[k]
<1> DEFINE n == Len(queue)
<1>1. n \in Nat /\ Len(queue') = n + 1 /\ queue'[n + 1] = i
  BY QueueEntries
<1>2. \A k \in 1 .. n : queue'[k] = queue[k] BY QueueEntries
<1> HIDE DEF n
<1>3. \A k \in 1 .. n + 1 : k \in 1 .. n \/ k = n + 1 BY <1>1
<1>4. \A k \in 1 .. n : k \in 1 .. n + 1 BY <1>1
<1> QED BY <1>1, <1>2, <1>3, <1>4 DEF n
\* What is queued stays good: no recovery ends, and the runner neither begins to
\* work on another failure nor comes back.
LEMMA QueueKept ==
  ASSUME TypeInv, FlightInv, Keeps(actions, actions'), NoneEnds(actions, actions'),
         queue' = queue \/ queue' = Append(queue, 0),
         \/ NothingQueued
         \/ SameFailure /\ (Leaving \/ rn.pc = "recover" => Leaving' \/ rn'.pc = "recover")
  PROVE  \A k \in 1 .. Len(queue') : queue'[k] # 0 => QueuedRecovery(k)'
<1>1. /\ \A k \in 1 .. Len(queue') : queue'[k] # 0 => k \in 1 .. Len(queue) /\ queue'[k] = queue[k]
  BY QueueGrows
<1> SUFFICES ASSUME NEW k \in 1 .. Len(queue'), queue'[k] # 0
             PROVE  QueuedRecovery(k)'
  OBVIOUS
<1>2. k \in 1 .. Len(queue) /\ queue'[k] = queue[k] /\ queue[k] # 0 BY <1>1
<1>3. QueuedRecovery(k) BY <1>2 DEF FlightInv
<1>4. SameFailure /\ (Leaving' \/ rn'.pc = "recover")
  BY <1>2, <1>3 DEF NothingQueued, QueuedRecovery
<1>5. /\ queue[k] \in ActionIds(actions') /\ InFlight(actions', queue[k])
      /\ actions'[queue[k]].epoch = run'.epoch
      /\ actions'[queue[k]].attempt = run'.failedAttempt
      /\ actions'[queue[k]].failedCell = run'.failedCell
  BY <1>3, <1>4 DEF QueuedRecovery, Keeps, NoneEnds, OfThisFailure, SameFailure
<1>6. \A m \in 1 .. Len(queue') : queue'[m] # 0 => m = k
  BY <1>1, <1>3 DEF QueuedRecovery
<1> QED BY <1>2, <1>4, <1>5, <1>6 DEF QueuedRecovery, OfThisFailure

LEMMA HandsKept ==
  ASSUME TypeInv, HandsInv, Keeps(actions, actions'), NoneBegins(actions, actions'),
         SameFailure \/ proc.state = "up", proc' = proc,
         cli' # NoCommand => cli'.status = "requested",
         al'.pc # "poll" => al'.id \in ActionIds(actions)
                              /\ actions[al'.id].kind = "stop_resource"
  PROVE  HandsInv'
<1>1. proc.action # 0 => proc.action \in ActionIds(actions)
  BY LenProperties DEF TypeInv, ProcOK, StoreOK, ActionIds
<1>2. al'.pc # "poll" => /\ al'.id \in ActionIds(actions')
                         /\ actions'[al'.id].kind = "stop_resource"
  BY DEF Keeps
<1>3. proc'.state = "offline" => /\ proc'.action \in ActionIds(actions')
                                 /\ actions'[proc'.action].kind = "stop_resource"
  BY DEF HandsInv, Keeps
<1>4. ASSUME proc'.state = "starting"
      PROVE  /\ \A i \in ActionIds(actions') : InFlight(actions', i) => i = proc'.action
             /\ proc'.action # 0 => /\ actions'[proc'.action].epoch = run'.epoch
                                    /\ actions'[proc'.action].attempt = run'.failedAttempt
                                    /\ actions'[proc'.action].failedCell = run'.failedCell
  BY <1>1, <1>4 DEF HandsInv, NoneBegins, Keeps, OfThisFailure, SameFailure
<1> QED BY <1>2, <1>3, <1>4 DEF HandsInv, OfThisFailure

\* The runner waits on, and no recovery is concerned.
LEMMA UndisturbedKeeps ==
  ASSUME TypeInv, FlightInv, Undisturbed(actions, actions'), SameFailure,
         UNCHANGED <<proc, rn>>, queue' = queue \/ queue' = Append(queue, 0),
         ctl'.paused <=> ctl.paused
  PROVE  FlightInv'
<1>1. Leaving' <=> Leaving BY DEF Leaving
<1>2. \A k \in 1 .. Len(queue') : queue'[k] # 0 => QueuedRecovery(k)'
  BY <1>1, QueueKept DEF Undisturbed
<1>3. Up' => \A i, j \in ActionIds(actions') :
               InFlight(actions', i) /\ InFlight(actions', j) => i = j
  BY DEF Undisturbed, NoneBegins, FlightInv, Up
<1>4. ASSUME rn.pc \in {"apply", "accept"}
      PROVE  /\ InFlight(actions', rn.cmd) /\ actions'[rn.cmd].epoch = run'.epoch
             /\ actions'[rn.cmd].attempt = run'.failedAttempt
             /\ actions'[rn.cmd].failedCell = run'.failedCell
  <2>1. rn.cmd \in ActionIds(actions) BY <1>4 DEF TypeInv, RunnerOK, ActionIds
  <2> QED BY <1>4, <2>1 DEF FlightInv, Undisturbed, NoneEnds, Keeps, OfThisFailure, SameFailure
<1> QED BY <1>1, <1>2, <1>3, <1>4 DEF FlightInv, OfThisFailure

LEMMA NoChangeUndisturbed == \A as : Undisturbed(as, as)
  BY DEF Undisturbed, Keeps, NoneBegins, NoneEnds, NoneCompletes
-----------------------------------------------------------------------------
\* The runner, but for the recovery itself: it never touches an action, and once
\* it is called away it works on no other failure.
LEMMA RunnerLeaves ==
  ASSUME TypeInv,
         \/ StartRunner \/ RunCells \/ FinishRunner \/ ExecEnds
         \/ RunnerError \/ BlockingWaitTimesOut
  PROVE  /\ UNCHANGED <<actions, al, proc, cli>>
         /\ queue' = queue \/ queue' = Append(queue, 0)
         /\ rn.pc \notin {"recover", "apply", "accept"} /\ rn'.pc \notin {"apply", "accept"}
         /\ Leaving => Leaving' /\ SameFailure
         /\ ctl'.paused => ctl.paused \/ rn'.pc = "recover"
<1> USE DEF At
<1>0. rn \in Runners /\ ctl \in Controls /\ run \in Runs
  BY DEF TypeInv, RunnerOK, MemoryOK, StoreOK
<1>1. CASE StartRunner
  <2>1. /\ UNCHANGED <<actions, al, proc, cli, queue>>
        /\ rn.pc \in {"gate", "load", "update", "replace", "kernel"}
        /\ ctl'.paused <=> ctl.paused
    BY <1>0, <1>1 DEF StartRunner, LeaveGate, ReadAndBeginEpoch, RecordSource, ReplaceCells,
                KernelStarts, tasks, context, Controls
  <2>2. rn'.pc \in {"stopres", "returned", "load", "update", "failckpt", "replace", "kernel", "next"}
    BY <1>0, <1>1, FinishedRunner, FailRunner
       DEF StartRunner, LeaveGate, ReadAndBeginEpoch, RecordSource, ReplaceCells,
           KernelStarts, PCs, AwaitPCs, SyncPCs, Runners, Goto, Failures
  <2> QED BY <2>1, <2>2 DEF Leaving, LeavingPCs
<1>2. CASE RunCells
  <2>1. /\ UNCHANGED <<actions, al, proc, cli>>
        /\ queue' = queue \/ queue' = Append(queue, 0)
        /\ rn.pc \in {"next", "begin", "settle", "publishCell", "failing", "pausing", "interrupted"}
    <3>1. Cancel => queue' = queue \/ queue' = Append(queue, 0) BY DEF Cancel
    <3>2. CASE FailureSettles BY <3>1, <3>2 DEF FailureSettles, context
    <3>3. CASE ~FailureSettles
      BY <1>2, <3>3 DEF RunCells, NextCell, BeginAttempt, CellSucceeds, CellPublished,
                        PauseFailedCell, RecordInterrupted, tasks, context, durable
    <3> QED BY <3>2, <3>3
  <2>2. rn'.pc \in {"next", "begin", "exec", "publishCell", "pausing", "recover", "teardown"}
    BY <1>0, <1>2 DEF RunCells, NextCell, BeginAttempt, CellSucceeds, CellPublished,
                FailureSettles, PauseFailedCell, RecordInterrupted, Goto, Leave, Runners
  <2>3. ctl'.paused => ctl.paused \/ rn'.pc = "recover"
    <3>1. CASE PauseFailedCell BY <1>0, <3>1 DEF PauseFailedCell, Goto, Runners
    <3>2. CASE ~PauseFailedCell
      BY <1>0, <1>2, <3>2 DEF RunCells, NextCell, BeginAttempt, CellSucceeds, CellPublished,
                FailureSettles, RecordInterrupted, Cancel, tasks, Controls
    <3> QED BY <3>1, <3>2
  <2> QED BY <2>1, <2>2, <2>3 DEF Leaving, LeavingPCs
<1>3. CASE ExecEnds \/ BlockingWaitTimesOut
  <2>1. /\ UNCHANGED <<actions, al, proc, cli, queue>>
        /\ rn.pc \in {"exec", "external"}
        /\ ctl'.paused <=> ctl.paused
    BY <1>0, <1>3 DEF ExecEnds, ExecReturns, ExecFails, ExecBreaks, BlockingWaitTimesOut, tasks,
                durable, Controls
  <2>2. rn'.pc \in {"settle", "failing", "interrupted", "teardown", "failckpt"}
    BY <1>0, <1>3, FailRunner DEF ExecEnds, ExecReturns, ExecFails, ExecBreaks,
           BlockingWaitTimesOut, Goto, Runners, Failures
  <2> QED BY <2>1, <2>2 DEF Leaving, LeavingPCs
<1>4. CASE RunnerError
  <2>1. UNCHANGED <<run, actions, al, proc, cli, queue, ctl>>
    BY <1>4 DEF RunnerError, tasks, durable
  <2>2. /\ rn.pc \notin {"recover", "apply", "accept"}
        /\ rn'.pc \in {"interrupted", "teardown", "failckpt"}
        /\ rn'.pc = "failckpt" \/ rn.pc \notin LeavingPCs \cup {"teardown"}
    BY <1>0, <1>4, FailRunner DEF RunnerError, Goto, Leave, Runners, Failures, LeavingPCs
  <2> QED BY <2>1, <2>2 DEF Leaving, LeavingPCs, SameFailure
<1>5. CASE FinishRunner
  <2>1. /\ UNCHANGED <<actions, al, proc, cli, queue>>
        /\ ctl'.paused <=> ctl.paused
        /\ rn.pc \in {"teardown", "output", "external", "stopres", "finalckpt", "failckpt", "returned"}
    BY <1>0, <1>5 DEF FinishRunner, LeaveEpoch, OutputPublished, BlockingWaitEnds,
           StopCancelResources, FinishSucceeded, FinishCancelled, FinishFailed, Finalize, tasks,
           context, durable, Controls
  <2>2. rn'.pc \in {"failckpt", "stopres", "load", "output", "external", "finalckpt", "returned",
                    "finalized"}
    BY <1>0, <1>5, FinishedRunner, FailRunner
       DEF FinishRunner, LeaveEpoch, OutputPublished, BlockingWaitEnds, StopCancelResources,
           FinishSucceeded, FinishCancelled, FinishFailed, Finalize, PCs, AwaitPCs, SyncPCs,
           Goto, Runners, Failures
  <2>3. ASSUME Leaving PROVE rn'.pc \in LeavingPCs /\ SameFailure
    <3>1. CASE LeaveEpoch
      <4>1. rn.outcome \in {"cancel", "fail"} /\ UNCHANGED run
        BY <2>3, <3>1 DEF LeaveEpoch, Leaving, LeavingPCs, durable
      <4>2. ctl'.cancelReq \/ rn.outcome = "fail"
        BY <1>0, <3>1, <4>1 DEF LeaveEpoch, Controls
      <4>3. rn'.pc \in {"failckpt", "stopres"}
        BY <1>0, <3>1, <4>2, FinishedRunner, FailRunner
           DEF LeaveEpoch, PCs, AwaitPCs, Failures
      <4> QED BY <4>1, <4>3 DEF LeavingPCs, SameFailure
    <3>2. CASE StopCancelResources
      BY <3>2 DEF StopCancelResources, LeavingPCs, SameFailure
    <3>3. CASE FinishCancelled \/ FinishFailed
      <4>1. rn'.pc = "returned"
        BY <1>0, <3>3, FinishedRunner DEF FinishCancelled, FinishFailed, PCs, AwaitPCs
      <4>2. SameFailure
        BY <1>0, <3>3 DEF FinishCancelled, FinishFailed, FinishRun, SameFailure, Runs
      <4> QED BY <4>1, <4>2 DEF LeavingPCs
    <3>4. CASE Finalize
      <4>1. rn'.pc = "finalized"
        BY <1>0, <3>4, FinishedRunner DEF Finalize, PCs, AwaitPCs
      <4>2. SameFailure BY <1>0, <3>4 DEF Finalize, MarkRunFinalized, SameFailure, Runs
      <4> QED BY <4>1, <4>2 DEF LeavingPCs
    <3>5. CASE OutputPublished \/ BlockingWaitEnds \/ FinishSucceeded
      BY <2>3, <3>5 DEF OutputPublished, BlockingWaitEnds, FinishSucceeded, Leaving, LeavingPCs
    <3> QED BY <1>5, <3>1, <3>2, <3>3, <3>4, <3>5 DEF FinishRunner
  <2> QED BY <2>1, <2>2, <2>3 DEF Leaving
<1> QED BY <1>1, <1>2, <1>3, <1>4, <1>5

LEMMA RunnerKeepsRecovery ==
  ASSUME TypeInv, RecoveryInv,
         \/ StartRunner \/ RunCells \/ FinishRunner \/ ExecEnds
         \/ RunnerError \/ BlockingWaitTimesOut
  PROVE  RecoveryInv' /\ UNCHANGED actions
<1>1. /\ UNCHANGED <<actions, al, proc, cli>>
      /\ queue' = queue \/ queue' = Append(queue, 0)
      /\ rn.pc \notin {"recover", "apply", "accept"} /\ rn'.pc \notin {"apply", "accept"}
      /\ Leaving => Leaving' /\ SameFailure
      /\ ctl'.paused => ctl.paused \/ rn'.pc = "recover"
  BY RunnerLeaves
<1>2. Undisturbed(actions, actions') BY <1>1, NoChangeUndisturbed
<1>3. Up
  BY DEF StartRunner, LeaveGate, ReadAndBeginEpoch, RecordSource, ReplaceCells, KernelStarts,
     RunCells, NextCell, BeginAttempt, CellSucceeds, CellPublished, FailureSettles,
     PauseFailedCell, RecordInterrupted, FinishRunner, LeaveEpoch, OutputPublished,
     BlockingWaitEnds, StopCancelResources, FinishSucceeded, FinishCancelled, FinishFailed,
     Finalize, ExecEnds, ExecReturns, ExecFails, ExecBreaks, RunnerError, BlockingWaitTimesOut,
     At, Suspended
<1>4. HandsInv'
  BY <1>1, <1>2, <1>3, HandsKept DEF RecoveryInv, HandsInv, Undisturbed, Up
<1>5. \A k \in 1 .. Len(queue') : queue'[k] # 0 => QueuedRecovery(k)'
  <2>1. CASE Leaving BY <1>1, <1>2, <2>1, QueueKept DEF RecoveryInv, Undisturbed
  <2>2. CASE ~Leaving
    <3>1. NothingQueued BY <1>1, <2>2, UnpausedQueue DEF RecoveryInv
    <3> QED BY <1>1, <1>2, <3>1, QueueKept DEF RecoveryInv, Undisturbed
  <2> QED BY <2>1, <2>2
<1>6. FlightInv' BY <1>1, <1>5 DEF RecoveryInv, FlightInv, Up
<1> QED BY <1>1, <1>4, <1>6 DEF RecoveryInv
\* The runner takes a recovery from the queue, applies it and accepts it: the one
\* in flight, on the failure that it waits on.
LEMMA RecoverKeepsRecovery ==
  ASSUME TypeInv, RecoveryInv, Recover
  PROVE  /\ RecoveryInv'
         /\ \A i \in ActionIds(actions) :
              (/\ actions[i].kind \in RecoveryKind
               /\ actions[i].status # "completed" /\ actions'[i].status = "completed") =>
                OfThisFailure(i)
<1> USE DEF At
<1>0. /\ rn \in Runners /\ ctl \in Controls /\ run \in Runs /\ actions \in Seq(Actions)
      /\ {"rejected", "completed"} \subseteq ActionStatus
  BY DEF TypeInv, RunnerOK, MemoryOK, StoreOK, ActionStatus
<1>1. UNCHANGED <<proc, cli, al>> /\ Up
  BY DEF Recover, TakeCommand, ApplyRecovery, AcceptRecovery, context, tasks
<1>2. ASSUME NEW i, NEW status \in {"rejected", "completed"},
             actions' = FinishAction(actions, i, status)
      PROVE  /\ Keeps(actions, actions') /\ NoneBegins(actions, actions')
             /\ \A j \in ActionIds(actions) : j # i => actions'[j] = actions[j]
             /\ status = "rejected" => NoneCompletes(actions, actions')
  <2>1. /\ SameBut(actions, actions', i)
        /\ i \in ActionIds(actions) =>
             actions'[i].status = IF actions[i].status \in {"requested", "executing"}
                                  THEN status ELSE actions[i].status
    BY <1>0, <1>2, FinishDoes
  <2> QED BY <2>1 DEF SameBut, NoneBegins, NoneCompletes, InFlight, Keeps
<1>3. ASSUME Keeps(actions, actions'), NoneBegins(actions, actions')
      PROVE  /\ HandsInv'
             /\ Up' => \A i, j \in ActionIds(actions') :
                         InFlight(actions', i) /\ InFlight(actions', j) => i = j
  <2>1. HandsInv' BY <1>1, <1>3, HandsKept DEF RecoveryInv, HandsInv, Up
  <2> QED BY <1>1, <1>3, <2>1 DEF RecoveryInv, FlightInv, NoneBegins, Up
<1>4. ASSUME NoneCompletes(actions, actions'), NEW i \in ActionIds(actions),
             Keeps(actions, actions'),
             actions[i].kind \in RecoveryKind, actions[i].status # "completed",
             actions'[i].status = "completed"
      PROVE  FALSE
  BY <1>4 DEF NoneCompletes, Keeps
<1>5. CASE TakeCommand
  <2> DEFINE id == Head(queue)
  <2>1. /\ rn.pc = "recover" /\ queue # <<>> /\ queue' = Tail(queue)
        /\ UNCHANGED <<run, ctl>>
    BY <1>5 DEF TakeCommand
  <2>2. /\ Len(queue') = Len(queue) - 1 /\ id = queue[1] /\ Len(queue) \in Nat
        /\ \A k \in 1 .. Len(queue') : queue'[k] = queue[k + 1]
    BY <2>1, QueueEntries
  <2>3. 1 \in 1 .. Len(queue) /\ \A k \in 1 .. Len(queue') : k + 1 \in 1 .. Len(queue) /\ k + 1 # 1
    <3>1. Len(queue) # 0 BY <2>1, EmptySeq, <1>0 DEF TypeInv, MemoryOK
    <3> QED BY <2>2, <3>1
  <2>4. CASE id = 0
    <3>1. UNCHANGED actions /\ Leave("cancel") BY <1>5, <2>4 DEF TakeCommand
    <3>2. Leaving' /\ rn'.pc = "teardown" BY <1>0, <3>1 DEF Leave, Leaving, Runners
    <3>3. Undisturbed(actions, actions') BY <3>1, NoChangeUndisturbed
    <3>4. ASSUME NEW k \in 1 .. Len(queue'), queue'[k] # 0 PROVE QueuedRecovery(k)'
      <4>1. QueuedRecovery(k + 1) BY <2>2, <2>3, <3>4 DEF RecoveryInv, FlightInv
      <4>2. \A m \in 1 .. Len(queue') : queue'[m] # 0 => m = k
        <5>1. \A m \in 1 .. Len(queue') : queue'[m] # 0 => m + 1 = k + 1
          BY <2>2, <2>3, <4>1 DEF QueuedRecovery
        <5>2. Len(queue') \in Int BY <2>2
        <5> QED BY <5>1, <5>2
      <4> QED BY <2>1, <2>2, <3>1, <3>2, <4>1, <4>2 DEF QueuedRecovery, OfThisFailure
    <3>5. HandsInv' /\ FlightInv'
      BY <1>3, <2>1, <3>1, <3>2, <3>3, <3>4 DEF RecoveryInv, FlightInv, Undisturbed
    <3> QED BY <1>4, <3>3, <3>5 DEF RecoveryInv, Undisturbed
  <2>5. CASE id # 0
    <3>1. QueuedRecovery(1) BY <2>2, <2>3, <2>5 DEF RecoveryInv, FlightInv
    <3>2. NothingQueued'
      BY <2>2, <2>3, <3>1 DEF QueuedRecovery, NothingQueued
    <3>3. CASE /\ actions' = FinishAction(actions, id, "rejected") /\ UNCHANGED rn
      <4>1. /\ Keeps(actions, actions') /\ NoneBegins(actions, actions')
            /\ NoneCompletes(actions, actions')
        BY <1>2, <3>3
      <4>2. HandsInv' /\ FlightInv'
        BY <1>3, <2>1, <3>2, <3>3, <4>1 DEF RecoveryInv, FlightInv, NothingQueued, Leaving
      <4> QED BY <1>4, <4>1, <4>2 DEF RecoveryInv
    <3>4. CASE rn' = [rn EXCEPT !.pc = "apply", !.cmd = id] /\ UNCHANGED actions
      <4>1. Undisturbed(actions, actions') BY <3>4, NoChangeUndisturbed
      <4>2. rn'.pc = "apply" /\ rn'.cmd = queue[1] BY <1>0, <2>2, <3>4 DEF Runners
      <4>3. /\ InFlight(actions', rn'.cmd)
            /\ actions'[rn'.cmd].epoch = run'.epoch
            /\ actions'[rn'.cmd].attempt = run'.failedAttempt
            /\ actions'[rn'.cmd].failedCell = run'.failedCell
        BY <2>1, <3>1, <3>4, <4>2 DEF QueuedRecovery, OfThisFailure
      <4>4. HandsInv' /\ FlightInv'
        BY <1>3, <2>1, <3>2, <4>1, <4>2, <4>3
           DEF RecoveryInv, FlightInv, NothingQueued, Undisturbed, OfThisFailure
      <4> QED BY <1>4, <4>1, <4>4 DEF RecoveryInv, Undisturbed
    <3> QED BY <1>5, <2>5, <3>3, <3>4 DEF TakeCommand
  <2> QED BY <2>4, <2>5
<1>6. CASE ApplyRecovery
  <2>1. /\ rn.pc = "apply" /\ UNCHANGED queue
        /\ UNCHANGED actions \/ actions' = FinishAction(actions, rn.cmd, "rejected")
    BY <1>6 DEF ApplyRecovery
  <2>2. NothingQueued' BY <2>1, UnpausedQueue DEF Leaving, LeavingPCs, RecoveryInv, NothingQueued
  <2>3. /\ Keeps(actions, actions') /\ NoneBegins(actions, actions')
        /\ NoneCompletes(actions, actions')
    BY <1>2, <2>1, NoChangeUndisturbed DEF Undisturbed
  <2>4. CASE rn'.pc = "recover"
    BY <1>3, <1>4, <2>2, <2>3, <2>4 DEF RecoveryInv, FlightInv, NothingQueued
  <2>5. CASE rn'.pc # "recover"
    <3>1. /\ rn'.pc = "accept" /\ rn'.cmd = rn.cmd /\ UNCHANGED actions /\ SameFailure
          /\ ~ctl'.paused
      BY <1>0, <1>6, <2>5
         DEF ApplyRecovery, Goto, Runners, Controls, SameFailure, UpdateRunStatus, Runs
    <3>2. /\ InFlight(actions', rn'.cmd)
          /\ actions'[rn'.cmd].epoch = run'.epoch
          /\ actions'[rn'.cmd].attempt = run'.failedAttempt
          /\ actions'[rn'.cmd].failedCell = run'.failedCell
      BY <2>1, <3>1 DEF RecoveryInv, FlightInv, OfThisFailure, SameFailure
    <3> QED BY <1>3, <1>4, <2>2, <2>3, <3>1, <3>2
            DEF RecoveryInv, FlightInv, NothingQueued, OfThisFailure
  <2> QED BY <2>4, <2>5
<1>7. CASE AcceptRecovery
  <2>1. /\ rn.pc = "accept" /\ UNCHANGED <<queue, ctl, run>>
        /\ actions' = FinishAction(actions, rn.cmd, "completed")
        /\ rn'.pc \in {"teardown", "begin"}
    BY <1>0, <1>7 DEF AcceptRecovery, tasks, Runners
  <2>2. NothingQueued' /\ ~ctl'.paused
    BY <2>1, UnpausedQueue DEF Leaving, LeavingPCs, RecoveryInv, NothingQueued, FlightInv
  <2>3. /\ Keeps(actions, actions') /\ NoneBegins(actions, actions')
        /\ \A j \in ActionIds(actions) : j # rn.cmd => actions'[j] = actions[j]
    BY <1>2, <2>1
  <2>4. OfThisFailure(rn.cmd) BY <2>1 DEF RecoveryInv, FlightInv
  <2>5. RecoveryInv'
    BY <1>3, <2>1, <2>2, <2>3 DEF RecoveryInv, FlightInv, NothingQueued
  <2> QED BY <2>3, <2>4, <2>5
<1> QED BY <1>5, <1>6, <1>7 DEF Recover
\* The loop, the signal, the resource and the other processes.
LEMMA CancelKeepsFailure ==
  ASSUME TypeInv, Cancel
  PROVE  /\ SameFailure /\ (ctl'.paused <=> ctl.paused)
         /\ queue' = queue \/ queue' = Append(queue, 0)
<1>0. ctl \in Controls /\ run \in Runs BY DEF TypeInv, MemoryOK, StoreOK
<1>1. run' = run \/ run' = RequestRunCancellation(run, proc.number) BY DEF Cancel
<1>2. SameFailure BY <1>0, <1>1 DEF RequestRunCancellation, Runs, SameFailure
<1>3. ctl'.paused <=> ctl.paused BY <1>0 DEF Cancel, Controls
<1>4. queue' = queue \/ queue' = Append(queue, 0) BY DEF Cancel
<1> QED BY <1>2, <1>3, <1>4

\* What the loop does of a stop.
LEMMA LoopKeepsRecoveries ==
  ASSUME TypeInv, RecoveryInv, ActionLoop \/ ServeSignal, ~DispatchRecovery
  PROVE  /\ Undisturbed(actions, actions') /\ SameFailure
         /\ UNCHANGED <<proc, rn, cli>>
         /\ queue' = queue \/ queue' = Append(queue, 0)
         /\ ctl'.paused <=> ctl.paused
         /\ al'.pc # "poll" => al'.id \in ActionIds(actions)
                               /\ actions[al'.id].kind = "stop_resource"
<1>0. /\ actions \in Seq(Actions) /\ al \in Loops
      /\ {"rejected", "completed", "failed", "executing"} \subseteq ActionStatus
  BY DEF TypeInv, StoreOK, MemoryOK, ActionStatus
<1>1. al.pc # "poll" => al.id \in ActionIds(actions) /\ actions[al.id].kind = "stop_resource"
  BY DEF RecoveryInv, HandsInv
<1>2. ASSUME NEW status \in ActionStatus, SettleAction(status), al.pc # "poll"
      PROVE  Undisturbed(actions, actions') /\ al'.pc = "poll"
  <2>1. actions' = FinishAction(actions, al.id, status) /\ al' = IdleLoop
    BY <1>2 DEF SettleAction
  <2> QED BY <1>0, <1>1, <1>2, <2>1, StopSettles DEF IdleLoop
<1>3. CASE DispatchStop
  <2>1. UNCHANGED <<run, proc, rn, cli, queue, ctl>> BY <1>3 DEF DispatchStop, context
  <2>2. PICK i \in ActionIds(actions), settled \in {"completed", "rejected", "executing"} :
          /\ actions[i].kind = "stop_resource"
          /\ actions' = FinishAction(ClaimAction(actions, i), i, settled)
          /\ al' = IdleLoop \/ al'.id = i
    BY <1>3 DEF DispatchStop
  <2>3. settled \in ActionStatus BY DEF ActionStatus
  <2>4. Undisturbed(actions, actions') BY <1>0, <2>2, <2>3, StopSettles
  <2> QED BY <2>1, <2>2, <2>4 DEF SameFailure, IdleLoop
<1>4. CASE RequestResourceStop
  <2>1. UNCHANGED <<run, proc, rn, cli, queue, ctl>> /\ al.pc = "stop"
    BY <1>4 DEF RequestResourceStop
  <2>2. \/ UNCHANGED actions /\ al'.id = al.id
        \/ SettleAction("rejected")
    BY <1>0, <1>4 DEF RequestResourceStop, Loops
  <2> QED BY <1>0, <1>1, <1>2, <2>1, <2>2, NoChangeUndisturbed DEF SameFailure
<1>5. CASE StopIsAccepted
  <2>1. Cancel /\ UNCHANGED <<actions, proc, rn, cli>> /\ al.pc = "adapter" /\ al'.id = al.id
    BY <1>0, <1>5 DEF StopIsAccepted, context, Loops
  <2> QED BY <1>1, <2>1, CancelKeepsFailure, NoChangeUndisturbed
<1>6. CASE StopIsRefused \/ StopTimesOut
  <2>1. /\ UNCHANGED <<run, proc, rn, cli, queue, ctl>> /\ al.pc # "poll"
        /\ SettleAction("failed")
    BY <1>6 DEF StopIsRefused, StopTimesOut
  <2> QED BY <1>0, <1>2, <2>1 DEF SameFailure
<1>7. CASE StopIsConfirmed
  <2>1. /\ UNCHANGED <<proc, rn, cli>> /\ al.pc # "poll" /\ Cancel
        /\ SettleAction("completed") \/ (UNCHANGED actions /\ al'.id = al.id)
    BY <1>0, <1>7 DEF StopIsConfirmed, Loops
  <2> QED BY <1>0, <1>1, <1>2, <2>1, CancelKeepsFailure, NoChangeUndisturbed
<1>8. CASE StopCascades
  <2>1. /\ UNCHANGED <<run, proc, rn, cli, queue, ctl>> /\ al.pc # "poll"
        /\ SettleAction("completed")
    BY <1>8 DEF StopCascades, context
  <2> QED BY <1>0, <1>2, <2>1 DEF SameFailure
<1>9. CASE ServeSignal
  <2>1. Cancel /\ UNCHANGED <<actions, proc, rn, cli, al>> BY <1>9 DEF ServeSignal, context
  <2> QED BY <1>1, <2>1, CancelKeepsFailure, NoChangeUndisturbed
<1> QED BY <1>3, <1>4, <1>5, <1>6, <1>7, <1>8, <1>9 DEF ActionLoop

\* What the others do: at most a request is added.
LEMMA EnvironmentKeepsRecoveries ==
  ASSUME TypeInv, RecoveryInv, Environment
  PROVE  /\ Undisturbed(actions, actions') /\ SameFailure
         /\ UNCHANGED <<proc, rn, al, queue, ctl>>
         /\ cli' # NoCommand => cli'.status = "requested"
<1>1. CASE CliInserts
  <2>0. actions \in Seq(Actions) /\ cli \in Actions /\ source \in Notebooks
        /\ cli.status = "requested"
    BY <1>1 DEF TypeInv, StoreOK, HistoryOK, CliInserts, RecoveryInv, HandsInv
  <2>1. PICK a \in Actions : a.status = "requested" /\ actions' = Append(actions, a)
    <3>1. [cli EXCEPT !.src = source] \in Actions
          /\ [cli EXCEPT !.src = source].status = "requested"
      BY <2>0 DEF Actions
    <3>2. \/ actions' = Append(actions, [cli EXCEPT !.src = source])
          \/ actions' = Append(actions, cli)
      BY <1>1 DEF CliInserts
    <3> QED BY <2>0, <3>1, <3>2
  <2>2. /\ Keeps(actions, actions')
        /\ \A i \in ActionIds(actions) : actions'[i] = actions[i]
        /\ \A i \in ActionIds(actions') : i \notin ActionIds(actions) => actions'[i] = a
    BY <2>0, <2>1, AppendDoes
  <2>3. Undisturbed(actions, actions')
    BY <2>1, <2>2 DEF Undisturbed, NoneBegins, NoneEnds, NoneCompletes, InFlight
  <2> QED BY <1>1, <2>3 DEF CliInserts, SameFailure, tasks
<1>2. CASE Environment /\ ~CliInserts
  <2>1. UNCHANGED <<run, actions, proc, rn, al, queue, ctl>>
    BY <1>2 DEF Environment, Signal, RegisterResource, ObserveResourceEnd, Edit, CliReads,
                durable, tasks
  <2>2. cli' = cli \/ cli'.status = "requested"
    BY <1>2 DEF Environment, Signal, RegisterResource, ObserveResourceEnd, Edit, CliReads,
                NewAction
  <2> QED BY <2>1, <2>2, NoChangeUndisturbed DEF SameFailure, RecoveryInv, HandsInv
<1> QED BY <1>1, <1>2

LEMMA OthersKeepRecovery ==
  ASSUME TypeInv, RecoveryInv,
         ((ActionLoop \/ ServeSignal) /\ ~DispatchRecovery) \/ Environment
  PROVE  RecoveryInv' /\ NoneCompletes(actions, actions')
<1>1. /\ Undisturbed(actions, actions') /\ SameFailure /\ UNCHANGED <<proc, rn>>
      /\ queue' = queue \/ queue' = Append(queue, 0)
      /\ ctl'.paused <=> ctl.paused
      /\ cli' # NoCommand => cli'.status = "requested"
      /\ al'.pc # "poll" => al'.id \in ActionIds(actions)
                            /\ actions[al'.id].kind = "stop_resource"
  BY LoopKeepsRecoveries, EnvironmentKeepsRecoveries DEF RecoveryInv, HandsInv
<1>2. HandsInv' BY <1>1, HandsKept DEF RecoveryInv, Undisturbed
<1>3. FlightInv' BY <1>1, UndisturbedKeeps DEF RecoveryInv
<1> QED BY <1>1, <1>2, <1>3 DEF RecoveryInv, Undisturbed

\* A recovery is dispatched only where no other is in flight and the runner waits
\* on its failure, or has left meanwhile.
LEMMA DispatchKeepsRecovery ==
  ASSUME TypeInv, RecoveryInv, DispatchRecovery
  PROVE  RecoveryInv' /\ NoneCompletes(actions, actions')
<1>0. /\ actions \in Seq(Actions) /\ "rejected" \in ActionStatus
      /\ \A i \in ActionIds(actions) : i \in Nat /\ i # 0
  BY DEF TypeInv, StoreOK, ActionStatus, ActionIds
<1>1. /\ UNCHANGED <<run, proc, rn, cli, al, ctl>> /\ al.pc = "poll" /\ Up
  BY DEF DispatchRecovery, context, Suspended
<1>2. PICK i \in ActionIds(actions) :
        /\ IsNextAction(actions, i) /\ actions[i].kind \in RecoveryKind
        /\ \/ /\ actions' = FinishAction(ClaimAction(actions, i), i, "rejected")
              /\ queue' = queue
           \/ /\ ~LiveRecoveryRejected(i) /\ actions' = ClaimAction(actions, i)
              /\ queue' = Append(queue, i)
  BY DEF DispatchRecovery
<1>3. actions[i].status = "requested" BY <1>2 DEF IsNextAction, Pending
<1>4. ASSUME actions' = FinishAction(ClaimAction(actions, i), i, "rejected"), queue' = queue
      PROVE  RecoveryInv' /\ NoneCompletes(actions, actions')
  <2> DEFINE bs == ClaimAction(actions, i)
  <2>1. bs \in Seq(Actions) /\ SameBut(actions, bs, i) /\ bs[i].status = "executing"
    BY <1>0, ClaimActionRows, ClaimDoes
  <2>2. i \in ActionIds(bs) BY <2>1 DEF SameBut
  <2> HIDE DEF bs
  <2>3. SameBut(bs, actions', i) /\ actions'[i].status = "rejected"
    BY <1>0, <1>4, <2>1, <2>2, FinishDoes DEF bs
  <2>4. SameBut(actions, actions', i) BY <2>1, <2>3, SameButBoth
  <2>5. Undisturbed(actions, actions')
    BY <1>3, <2>3, <2>4
       DEF SameBut, Undisturbed, NoneBegins, NoneEnds, NoneCompletes, InFlight
  <2>6. SameFailure BY <1>1 DEF SameFailure
  <2>7. FlightInv' BY <1>1, <1>4, <2>5, <2>6, UndisturbedKeeps DEF RecoveryInv
  <2>8. HandsInv' BY <1>1, <2>5, <2>6, HandsKept DEF RecoveryInv, HandsInv, Undisturbed
  <2> QED BY <2>5, <2>7, <2>8 DEF RecoveryInv, Undisturbed
<1>5. ASSUME ~LiveRecoveryRejected(i), actions' = ClaimAction(actions, i),
             queue' = Append(queue, i)
      PROVE  RecoveryInv' /\ NoneCompletes(actions, actions')
  <2>1. SameBut(actions, actions', i) /\ actions'[i].status = "executing"
    BY <1>0, <1>5, ClaimDoes
  <2>2. /\ \A j \in ActionIds(actions) : ~InFlight(actions, j)
        /\ OfThisFailure(i) /\ ctl.paused
    BY <1>3, <1>5 DEF LiveRecoveryRejected, AnotherRecoveryIsExecuting, InFlight, OfThisFailure
  <2>3. /\ ActionIds(actions') = ActionIds(actions) /\ InFlight(actions', i)
        /\ \A j \in ActionIds(actions') : InFlight(actions', j) => j = i
        /\ actions'[i].epoch = run'.epoch /\ actions'[i].attempt = run'.failedAttempt
        /\ actions'[i].failedCell = run'.failedCell
        /\ NoneCompletes(actions, actions')
    BY <1>1, <1>2, <2>1, <2>2
       DEF SameBut, Keeps, InFlight, OfThisFailure, NoneCompletes
  <2>4. NothingQueued
    BY <2>2 DEF NothingQueued, RecoveryInv, FlightInv, QueuedRecovery
  <2>5. rn.pc \notin {"apply", "accept"}
    <3>1. rn.pc \in {"apply", "accept"} => rn.cmd \in ActionIds(actions)
      BY DEF TypeInv, RunnerOK, ActionIds
    <3> QED BY <2>2, <3>1 DEF RecoveryInv, FlightInv
  <2>6. Leaving' \/ rn'.pc = "recover"
    BY <1>1, <2>2, <2>5 DEF RecoveryInv, FlightInv, Leaving
  <2>7. /\ \A k \in 1 .. Len(queue') : queue'[k] # 0 => k = Len(queue) + 1 /\ queue'[k] = i
    <3>1. i \in Nat BY <1>0
    <3> QED BY <1>5, <2>4, <3>1, QueueGrows DEF NothingQueued
  <2>8. ASSUME NEW k \in 1 .. Len(queue'), queue'[k] # 0 PROVE QueuedRecovery(k)'
    BY <2>3, <2>6, <2>7, <2>8 DEF QueuedRecovery, OfThisFailure
  <2>9. FlightInv'
    BY <1>1, <2>3, <2>5, <2>6, <2>8 DEF RecoveryInv, FlightInv, Leaving
  <2>10. HandsInv' BY <1>1, <2>1 DEF RecoveryInv, HandsInv, Up, SameBut, Keeps
  <2> QED BY <2>3, <2>9, <2>10 DEF RecoveryInv
<1> QED BY <1>2, <1>4, <1>5
\* A process that begins finds nothing executing but what it claims itself.
AnswersItsFailure ==
  \A i \in ActionIds(actions) :
    (/\ actions[i].kind \in RecoveryKind
     /\ actions[i].status # "completed" /\ actions'[i].status = "completed") =>
      OfThisFailure(i)

LEMMA NoneAnswered ==
  ASSUME Keeps(actions, actions'), NoneCompletes(actions, actions')
  PROVE  AnswersItsFailure
  BY DEF AnswersItsFailure, NoneCompletes, Keeps

LEMMA DownState ==
  ASSUME TypeInv, Down
  PROVE  proc'.state = "down" /\ ~Up'
  BY DEF TypeInv, ProcOK, Down, Processes, Up

LEMMA RequestDoes ==
  ASSUME TypeInv, RequestRecovery
  PROVE  /\ Keeps(actions, actions') /\ NoneCompletes(actions, actions')
         /\ proc'.state = "preparing"
<1>0. actions \in Seq(Actions) /\ run \in Runs /\ source \in Notebooks /\ proc \in Processes
  BY DEF TypeInv, StoreOK, ProcOK
<1>1. PICK kind \in Kinds \cap RecoveryKind, from \in Cells :
        LET wanted == NewAction(kind, run, source, from)
            found == RecoverIncompleteActions(actions)
        IN \/ TakeUp("preparing", kind, Append(RejectRequestsAfter(found, 0), wanted),
                     Len(actions) + 1)
           \/ \E i \in RecoveryRequests(found) :
                TakeUp("preparing", kind, RejectRequestsAfter(found, i), i)
  BY DEF RequestRecovery
<1> DEFINE wanted == NewAction(kind, run, source, from)
           found == RecoverIncompleteActions(actions)
           rejected == RejectRequestsAfter(found, 0)
<1>2. wanted \in Actions BY <1>0, KindsOfActions, NewActionRow
<1>3. /\ found \in Seq(Actions) /\ Keeps(actions, found) /\ NoneCompletes(actions, found)
  BY <1>0, RecoverRows, RecoverDoes
<1>4. \E as, i : TakeUp("preparing", kind, as, i) BY <1>1
<1>5. proc'.state = "preparing" BY <1>0, <1>4 DEF TakeUp, Processes
<1> HIDE DEF wanted, found
<1>6. CASE TakeUp("preparing", kind, Append(rejected, wanted), Len(actions) + 1)
  <2>1. /\ rejected \in Seq(Actions) /\ Keeps(found, rejected) /\ NoneCompletes(found, rejected)
    BY <1>3, RejectRows, RejectDoes
  <2> HIDE DEF rejected
  <2>2. /\ Keeps(rejected, Append(rejected, wanted))
        /\ NoneCompletes(rejected, Append(rejected, wanted))
    BY <1>2, <2>1, AppendDoes DEF NoneCompletes
  <2>3. actions' = Append(rejected, wanted) BY <1>6 DEF TakeUp
  <2>4. Keeps(actions, rejected) /\ NoneCompletes(actions, rejected)
    BY <1>3, <2>1, KeepsAll
  <2> QED BY <1>5, <2>2, <2>3, <2>4, KeepsAll
<1>7. ASSUME NEW i \in RecoveryRequests(found),
             TakeUp("preparing", kind, RejectRequestsAfter(found, i), i)
      PROVE  Keeps(actions, actions') /\ NoneCompletes(actions, actions')
  <2>1. actions' = RejectRequestsAfter(found, i) BY <1>7 DEF TakeUp
  <2>2. Keeps(found, actions') /\ NoneCompletes(found, actions') BY <1>3, <2>1, RejectDoes
  <2> QED BY <1>3, <2>2, KeepsAll
<1> QED BY <1>1, <1>5, <1>6, <1>7 DEF wanted, found

LEMMA ClaimBootstrapDoes ==
  ASSUME TypeInv, ClaimBootstrap
  PROVE  /\ Keeps(actions, actions') /\ NoneCompletes(actions, actions')
         /\ proc'.state \in {"down", "starting"}
         /\ proc'.state = "starting" =>
              /\ \A i \in ActionIds(actions') : InFlight(actions', i) => i = proc'.action
              /\ proc'.action # 0 =>
                   /\ actions'[proc'.action].epoch = run'.epoch
                   /\ actions'[proc'.action].attempt = run'.failedAttempt
                   /\ actions'[proc'.action].failedCell = run'.failedCell
<1>0. actions \in Seq(Actions) /\ proc \in Processes /\ "rejected" \in ActionStatus
  BY DEF TypeInv, StoreOK, ProcOK, ActionStatus
<1> DEFINE found == RecoverIncompleteActions(actions)
           claimed == ClaimAction(found, proc.action)
<1>1. /\ found \in Seq(Actions) /\ Keeps(actions, found) /\ NoneCompletes(actions, found)
      /\ ActionIds(found) = ActionIds(actions)
      /\ \A i \in ActionIds(found) : ~InFlight(found, i)
  BY <1>0, RecoverRows, RecoverDoes DEF InFlight
<1>2. /\ run' = run
      /\ \/ actions' = FinishAction(claimed, proc.action, "rejected") /\ Down
         \/ /\ actions' = claimed
            /\ actions[proc.action].epoch = run.epoch
            /\ actions[proc.action].attempt = run.failedAttempt
            /\ actions[proc.action].failedCell = run.failedCell
            /\ proc' = [proc EXCEPT !.state = "starting",
                            !.stopPending = HasUnfinishedStopActions(found),
                            !.cancelling = run.status = "cancelling"]
  BY DEF ClaimBootstrap
<1> HIDE DEF found
<1>3. /\ claimed \in Seq(Actions) /\ SameBut(found, claimed, proc.action)
      /\ proc.action \in ActionIds(found) => claimed[proc.action].status = "executing"
  BY <1>1, ClaimActionRows, ClaimDoes
<1> HIDE DEF claimed
<1>4. Keeps(actions, claimed) BY <1>1, <1>3, KeepsAll DEF SameBut
<1>5. NoneCompletes(actions, claimed)
  BY <1>1, <1>3 DEF SameBut, NoneCompletes
<1>6. CASE actions' = FinishAction(claimed, proc.action, "rejected") /\ Down
  <2>1. /\ SameBut(claimed, actions', proc.action)
        /\ proc.action \in ActionIds(claimed) => actions'[proc.action].status = "rejected"
    BY <1>0, <1>1, <1>3, <1>6, FinishDoes DEF SameBut
  <2>2. NoneCompletes(claimed, actions') BY <2>1 DEF SameBut, NoneCompletes
  <2>3. Keeps(claimed, actions') BY <2>1 DEF SameBut
  <2> QED BY <1>4, <1>5, <1>6, <2>2, <2>3, KeepsAll, DownState
<1>7. CASE /\ actions' = claimed
           /\ actions[proc.action].epoch = run.epoch
           /\ actions[proc.action].attempt = run.failedAttempt
           /\ actions[proc.action].failedCell = run.failedCell
           /\ proc' = [proc EXCEPT !.state = "starting",
                           !.stopPending = HasUnfinishedStopActions(found),
                           !.cancelling = run.status = "cancelling"]
  <2>1. proc'.state = "starting" /\ proc'.action = proc.action BY <1>0, <1>7 DEF Processes
  <2>2. \A i \in ActionIds(actions') : InFlight(actions', i) => i = proc.action
    BY <1>1, <1>3, <1>7 DEF SameBut, InFlight
  <2>3. proc.action # 0 => proc.action \in ActionIds(actions)
    BY LenProperties DEF TypeInv, ProcOK, StoreOK, ActionIds
  <2>4. proc.action # 0 => /\ actions'[proc.action].epoch = run'.epoch
                           /\ actions'[proc.action].attempt = run'.failedAttempt
                           /\ actions'[proc.action].failedCell = run'.failedCell
    BY <1>2, <1>4, <1>7, <2>3 DEF Keeps
  <2> QED BY <1>4, <1>5, <1>7, <2>1, <2>2, <2>4
<1> QED BY <1>2, <1>6, <1>7

LEMMA ServeDoes ==
  ASSUME TypeInv, RecoveryInv, Serve
  PROVE  /\ Keeps(actions, actions') /\ AnswersItsFailure
         /\ proc'.state \in {"down", "up"}
         /\ Up' => \A i \in ActionIds(actions') : ~InFlight(actions', i)
<1>0. /\ actions \in Seq(Actions) /\ proc \in Processes
      /\ {"rejected", "completed"} \subseteq ActionStatus
  BY DEF TypeInv, StoreOK, ProcOK, ActionStatus
<1>1. proc.state = "starting" /\ (proc'.state = "up" \/ proc'.state = "down")
  BY <1>0, DownState DEF Serve, Processes
<1>2. /\ \A i \in ActionIds(actions) : InFlight(actions, i) => i = proc.action
      /\ proc.action # 0 => OfThisFailure(proc.action) /\ proc.action \in ActionIds(actions)
  BY <1>1, LenProperties DEF RecoveryInv, HandsInv, TypeInv, ProcOK, StoreOK, ActionIds
<1>3. CASE proc.action = 0
  <2>1. UNCHANGED actions BY <1>3 DEF Serve
  <2>2. \A i \in ActionIds(actions) : ~InFlight(actions, i)
    <3>1. 0 \notin ActionIds(actions) BY DEF ActionIds
    <3> QED BY <1>2, <1>3, <3>1
  <2> QED BY <1>1, <2>1, <2>2, NoChangeUndisturbed DEF Undisturbed, AnswersItsFailure
<1>4. CASE proc.action # 0
  <2>1. PICK status \in {"rejected", "completed"} :
          actions' = FinishAction(actions, proc.action, status)
    BY <1>4 DEF Serve
  <2>2. /\ SameBut(actions, actions', proc.action)
        /\ actions'[proc.action].status # "executing"
    BY <1>0, <1>2, <1>4, <2>1, FinishDoes
  <2>3. \A i \in ActionIds(actions') : ~InFlight(actions', i)
    BY <1>2, <2>2 DEF SameBut, InFlight
  <2>4. AnswersItsFailure BY <1>2, <1>4, <2>2 DEF AnswersItsFailure, SameBut
  <2> QED BY <1>1, <2>2, <2>3, <2>4 DEF SameBut
<1> QED BY <1>3, <1>4

LEMMA OfflineStopDoes ==
  ASSUME TypeInv, RecoveryInv, OfflineStop
  PROVE  /\ Keeps(actions, actions') /\ NoneCompletes(actions, actions')
         /\ proc'.state \in {"down", "offline"}
         /\ proc'.state = "offline" => /\ proc'.action \in ActionIds(actions')
                                       /\ actions'[proc'.action].kind = "stop_resource"
<1>0. /\ actions \in Seq(Actions) /\ proc \in Processes /\ run \in Runs
      /\ {"rejected", "completed", "failed"} \subseteq ActionStatus
  BY DEF TypeInv, StoreOK, ProcOK, ActionStatus
<1>1. CASE OfflineStopPrepares
  <2> DEFINE found == RecoverIncompleteActions(actions)
             new == NewAction("stop_resource", run, BlankNotebook, 0)
  <2>1. /\ found \in Seq(Actions) /\ Keeps(actions, found) /\ NoneCompletes(actions, found)
        /\ ActionIds(found) = ActionIds(actions)
    BY <1>0, RecoverRows, RecoverDoes
  <2>2. new \in Actions /\ new.kind = "stop_resource"
    BY <1>0, BlankIsNotebook, CellsAreNaturals, NewActionRow DEF ActionKind, NewAction
  <2>3. Len(found) = Len(actions) /\ Len(actions) \in Nat BY <1>0, RecoverRows, LenProperties
  <2>4. PICK i \in Nat :
          \/ TakeUp("offline", "stop_resource", Append(found, new), i) /\ i = Len(found) + 1
          \/ /\ TakeUp("offline", "stop_resource", found, i)
             /\ i \in ActionIds(found) /\ found[i].kind = "stop_resource"
    <3>1. \A i \in ActionIds(found) : i \in Nat BY DEF ActionIds
    <3>2. Len(actions) + 1 \in Nat BY <2>3
    <3> HIDE DEF new
    <3> QED BY <1>1, <2>3, <3>1, <3>2 DEF OfflineStopPrepares, Pending, new
  <2> HIDE DEF found, new
  <2>5. proc'.state = "offline" /\ proc'.action = i
    <3>1. \E as : TakeUp("offline", "stop_resource", as, i) BY <2>4
    <3> QED BY <1>0, <3>1 DEF TakeUp, Processes
  <2>6. CASE actions' = Append(found, new) /\ i = Len(found) + 1
    <3>1. /\ Keeps(found, actions') /\ NoneCompletes(found, actions')
          /\ i \in ActionIds(actions')
      BY <2>1, <2>2, <2>6, AppendDoes DEF NoneCompletes
    <3>2. actions'[i] = new BY <2>1, <2>2, <2>6, AppendProperties
    <3> QED BY <2>1, <2>2, <2>5, <3>1, <3>2, KeepsAll
  <2>7. CASE actions' = found /\ i \in ActionIds(found) /\ found[i].kind = "stop_resource"
    BY <2>1, <2>5, <2>7
  <2> QED BY <2>4, <2>6, <2>7 DEF TakeUp
<1>2. CASE ~OfflineStopPrepares
  <2>1. proc.action \in ActionIds(actions) /\ actions[proc.action].kind = "stop_resource"
    BY <1>2 DEF OfflineStop, OfflineStopClaims, OfflineStopRequests, OfflineStopAccepted,
           OfflineStopRefused, OfflineStopConfirmed, OfflineStopCancels,
           OfflineStopFinishes, OfflineStopCompletes, Off, RecoveryInv, HandsInv
  <2>2. \/ actions' = actions \/ actions' = ClaimAction(actions, proc.action)
        \/ \E status \in {"rejected", "completed", "failed"} :
             actions' = FinishAction(actions, proc.action, status)
    BY <1>2 DEF OfflineStop, OfflineStopClaims, OfflineStopRequests, OfflineStopAccepted,
           OfflineStopRefused, OfflineStopConfirmed, OfflineStopCancels,
           OfflineStopFinishes, OfflineStopCompletes, OfflineSettles
  <2>3. Undisturbed(actions, actions') BY <1>0, <2>1, <2>2, StopSettles, NoChangeUndisturbed
  <2>4. Down \/ (proc.state = "offline" /\ proc'.state = "offline" /\ proc'.action = proc.action)
    BY <1>0, <1>2 DEF OfflineStop, OfflineStopClaims, OfflineStopRequests, OfflineStopAccepted,
           OfflineStopRefused, OfflineStopConfirmed, OfflineStopCancels,
           OfflineStopFinishes, OfflineStopCompletes, OfflineSettles, Off, OffTo, Processes
  <2>5. proc.action \in ActionIds(actions') /\ actions'[proc.action].kind = "stop_resource"
    BY <2>1, <2>3 DEF Undisturbed, Keeps
  <2> QED BY <2>3, <2>4, <2>5, DownState DEF Undisturbed
<1> QED BY <1>1, <1>2

LEMMA ProcessKeepsRecovery ==
  ASSUME TypeInv, RecoveryInv, Process \/ OfflineStop
  PROVE  RecoveryInv' /\ AnswersItsFailure
<1>1. /\ Keeps(actions, actions') /\ AnswersItsFailure
      /\ proc'.state = "offline" => /\ proc'.action \in ActionIds(actions')
                                    /\ actions'[proc'.action].kind = "stop_resource"
      /\ proc'.state = "starting" =>
              /\ \A i \in ActionIds(actions') : InFlight(actions', i) => i = proc'.action
              /\ proc'.action # 0 =>
                   /\ actions'[proc'.action].epoch = run'.epoch
                   /\ actions'[proc'.action].attempt = run'.failedAttempt
                   /\ actions'[proc'.action].failedCell = run'.failedCell
      /\ Up' => \A i \in ActionIds(actions') : ~InFlight(actions', i)
  <2>1. CASE RequestRecovery BY <2>1, RequestDoes, NoneAnswered DEF Up
  <2>2. CASE ClaimBootstrap BY <2>2, ClaimBootstrapDoes, NoneAnswered DEF Up
  <2>3. CASE Serve BY <2>3, ServeDoes
  <2>4. CASE Quiesce \/ Crash
    <3>1. UNCHANGED actions /\ Down BY <2>4 DEF Quiesce, Crash, durable
    <3> QED BY <3>1, DownState, NoChangeUndisturbed, NoneAnswered DEF Undisturbed
  <2>5. CASE OfflineStop BY <2>5, OfflineStopDoes, NoneAnswered DEF Up
  <2> QED BY <2>1, <2>2, <2>3, <2>4, <2>5 DEF Process
<1>2. cli' = cli
  BY DEF Process, RequestRecovery, ClaimBootstrap, Serve, Quiesce, Crash, OfflineStop,
         OfflineStopPrepares, OfflineStopClaims, OfflineStopRequests, OfflineStopAccepted,
         OfflineStopRefused, OfflineStopConfirmed, OfflineStopCancels,
         OfflineStopFinishes, OfflineStopCompletes
<1>3. /\ rn'.pc \notin {"apply", "accept"} /\ ~ctl'.paused /\ NothingQueued'
      /\ al' = al \/ al'.pc = "poll"
  <2>1. CASE rn.pc = "none" /\ rn'.pc \in {"none", "gate"} /\ UNCHANGED tasks
    <3>1. ~Leaving /\ rn.pc \notin {"recover", "apply"} BY <2>1 DEF Leaving, LeavingPCs
    <3>2. NothingQueued /\ ~ctl.paused BY <3>1, UnpausedQueue DEF RecoveryInv, FlightInv
    <3> QED BY <2>1, <3>2 DEF tasks, NothingQueued
  <2>2. CASE rn'.pc = "none" /\ Forget
    BY <2>2, EmptySeq DEF Forget, NoControl, IdleLoop, NothingQueued
  <2> QED BY <2>1, <2>2, ProcessRunner
<1>4. HandsInv' BY <1>1, <1>2, <1>3 DEF RecoveryInv, HandsInv, Keeps, OfThisFailure
<1>5. FlightInv' BY <1>1, <1>3 DEF FlightInv, NothingQueued
<1> QED BY <1>1, <1>4, <1>5 DEF RecoveryInv
LEMMA InitRecoveryInv == Init => RecoveryInv
<1> SUFFICES ASSUME Init PROVE RecoveryInv OBVIOUS
<1>1. /\ rn.pc = "none" /\ cli = NoCommand /\ al.pc = "poll" /\ proc.state = "starting"
      /\ proc.action = 0 /\ ~ctl.paused
  BY NoRunnerIsRunner DEF Init, IdleLoop, NoControl
<1>2. ActionIds(actions) = {} /\ NothingQueued BY EmptySeq DEF Init, ActionIds, NothingQueued
<1> QED BY <1>1, <1>2 DEF RecoveryInv, HandsInv, FlightInv, NothingQueued, Up

LEMMA StepRecoveryInv ==
  ASSUME TypeInv, RecoveryInv, [Next]_vars
  PROVE  RecoveryInv' /\ AnswersItsFailure
<1>1. CASE UNCHANGED vars
  <2>1. RecoveryInv'
    BY <1>1 DEF vars, RecoveryInv, HandsInv, FlightInv, QueuedRecovery, OfThisFailure,
                Leaving, Up
  <2> QED BY <1>1, <2>1 DEF vars, AnswersItsFailure
<1>2. CASE Runner /\ ~Recover
  <2>1. RecoveryInv' /\ UNCHANGED actions BY <1>2, RunnerKeepsRecovery DEF Runner
  <2> QED BY <2>1 DEF AnswersItsFailure
<1>3. CASE Recover BY <1>3, RecoverKeepsRecovery DEF AnswersItsFailure
<1>4. CASE ExecEnds \/ RunnerError \/ BlockingWaitTimesOut
  <2>1. RecoveryInv' /\ UNCHANGED actions BY <1>4, RunnerKeepsRecovery
  <2> QED BY <2>1 DEF AnswersItsFailure
<1>5. CASE ((ActionLoop \/ ServeSignal) /\ ~DispatchRecovery) \/ Environment
  <2>1. RecoveryInv' /\ NoneCompletes(actions, actions') BY <1>5, OthersKeepRecovery
  <2>2. Keeps(actions, actions')
    BY <1>5, LoopKeepsRecoveries, EnvironmentKeepsRecoveries DEF Undisturbed
  <2> QED BY <2>1, <2>2, NoneAnswered
<1>6. CASE DispatchRecovery
  <2>1. RecoveryInv' /\ NoneCompletes(actions, actions') BY <1>6, DispatchKeepsRecovery
  <2>2. Keeps(actions, actions')
    <3>1. actions \in Seq(Actions) /\ "rejected" \in ActionStatus
      BY DEF TypeInv, StoreOK, ActionStatus
    <3>2. PICK i \in ActionIds(actions) :
            actions' \in {ClaimAction(actions, i),
                          FinishAction(ClaimAction(actions, i), i, "rejected")}
      BY <1>6 DEF DispatchRecovery
    <3>3. ClaimAction(actions, i) \in Seq(Actions) /\ Keeps(actions, ClaimAction(actions, i))
      BY <3>1, ClaimActionRows, ClaimDoes DEF SameBut
    <3>4. Keeps(ClaimAction(actions, i), FinishAction(ClaimAction(actions, i), i, "rejected"))
      BY <3>1, <3>3, FinishDoes DEF SameBut
    <3> QED BY <3>2, <3>3, <3>4, KeepsAll
  <2> QED BY <2>1, <2>2, NoneAnswered
<1>7. CASE Process \/ OfflineStop BY <1>7, ProcessKeepsRecovery
<1> QED BY <1>1, <1>2, <1>3, <1>4, <1>5, <1>6, <1>7 DEF Next, Runner

THEOREM AlwaysRecoveryInv == Spec => []RecoveryInv
<1>1. Init => RecoveryInv BY InitRecoveryInv
<1>2. TypeInv /\ RecoveryInv /\ [Next]_vars => RecoveryInv' BY StepRecoveryInv
<1> QED BY <1>1, <1>2, AlwaysTypeInv, PTL DEF Spec

\* Of the recoveries that operators send, by any number of processes, at most one
\* acts at a time, and it is accepted only for the kernel epoch, the cell and the
\* attempt that it was sent for: however often the cell has failed again, the
\* process has died or a cancellation has come in between.
THEOREM RecoveriesAreOfTheirFailures == Spec => RecoveryIsOfItsFailure
<1>1. RecoveryInv => OneRecoveryInFlight
  BY DEF RecoveryInv, FlightInv, OneRecoveryInFlight, InFlight
<1>2. TypeInv /\ RecoveryInv /\ [Next]_vars =>
        [\A i \in ActionIds(actions) :
           (/\ actions[i].kind \in RecoveryKind
            /\ actions[i].status # "completed" /\ actions'[i].status = "completed") =>
             /\ actions[i].epoch = run.epoch
             /\ actions[i].attempt = run.failedAttempt
             /\ actions[i].failedCell = run.failedCell]_vars
  BY StepRecoveryInv DEF AnswersItsFailure, OfThisFailure
<1> QED BY <1>1, <1>2, AlwaysTypeInv, AlwaysRecoveryInv, PTL
        DEF Spec, RecoveryIsOfItsFailure, RecoveryMatchesFailure

=============================================================================
