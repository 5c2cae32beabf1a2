----------------------------- MODULE MarimoGraph -----------------------------
(***************************************************************************)
(* A run on the Marimo backend: the runner that submits batches of the     *)
(* dependency graph, pauses it and repairs it (_marimo_runner.py), the     *)
(* runtime it owns and the event stream it reads (_marimo_session.py), the *)
(* part of the supervisor that dispatches recoveries (supervisor.py), and  *)
(* the rows of RunStore.                                                   *)
(*                                                                         *)
(* The runtime is external: a lazy Marimo kernel that executes what it is  *)
(* told in the order of the graph and says of each cell when it runs and   *)
(* when it is idle.  Its messages lie on the wire until the reader task    *)
(* takes them, which may be late (an output's asset is fetched first).     *)
(* Every execution ends with a marker on the same stream, so one that is   *)
(* answered leaves nothing unread.                                         *)
(*                                                                         *)
(* A step is the code between two awaits.  Edits change the body of a      *)
(* cell and not its dependencies; disabled cells and mo.stop are left out. *)
(***************************************************************************)
EXTENDS RunStore, FiniteSets

CONSTANTS Parents,        \* the graph
          Starts,         \* bound on where an execution is asked to start: cells,
                          \* or NoCell for all of them
          Edited,         \* bound on the cells that are edited
          MaxEpochs,      \* bound on kernel epochs
          MaxProcesses,   \* bound on the processes of the controller
          MaxActions, MaxEdits,
          MaxFaults       \* bound on deaths, errors, timeouts and stops

ASSUME ParentsAreCells == Parents \in [Cells -> SUBSET Cells]
ASSUME StartsAreCells == Starts \subseteq Cells \cup {NoCell}
ASSUME EditedAreCells == Edited \subseteq Cells
ASSUME GraphBoundsAreNatural ==
  /\ MaxEpochs \in Nat /\ MaxProcesses \in Nat /\ MaxActions \in Nat
  /\ MaxEdits \in Nat /\ MaxFaults \in Nat

VARIABLES
  run, cells, actions,   \* the rows
  source,    \* source.py, with what the user saved
  identity,  \* process.json: the epoch whose runtime it names, or 0
  alive,     \* the runtimes that live, by epoch
  kernel,    \* the runtime of the current epoch
  wire,      \* what it sent and the reader has not read
  g,         \* the runner's memory
  queue,     \* its command queue: actions, and 0 for the internal cancel
  ran,       \* history of the epoch: the code that each cell ran with last,
             \* and the cells that something they need has run after
  unnamed,   \* history: runtimes that a crash left before process.json
  used       \* counters of the bounds

rows == <<run, cells, actions>>
runtime == <<identity, alive, kernel, wire, ran, unnamed>>
vars == <<rows, source, runtime, g, queue, used>>

CellState == {"none", "idle", "exception", "interrupted", "cancelled", "stale"}
Startup == {"begin", "reap", "spawned", "connect"}
Runner == {"down"} \cup Startup
            \cup {"batch", "inventory", "settled", "pausing", "recover", "reading",
                  "repairing", "closing", "killing", "final", "cancelled", "over"}
Outcomes == {"complete", "cancel", "restart", "failed"}

NoKernel == [code |-> [c \in Cells |-> 0], state |-> [c \in Cells |-> "none"],
             batch |-> {}, on |-> NoCell, interrupted |-> FALSE]
Stopped == [pc |-> "down", doc |-> [c \in Cells |-> 0], fresh |-> [c \in Cells |-> 0],
            selected |-> {}, from |-> NoCell, timedOut |-> {}, error |-> FALSE,
            dead |-> FALSE, hung |-> FALSE, paused |-> FALSE, cancel |-> FALSE,
            escalating |-> FALSE, command |-> 0, next |-> "complete"]
NothingRan == [code |-> [c \in Cells |-> 0], outdated |-> {}]

Init ==
  /\ run = NewRun /\ cells = InitializeCells([c \in Cells |-> 0]) /\ actions = <<>>
  /\ source = [c \in Cells |-> 0]
  /\ identity = 0 /\ alive = {} /\ kernel = NoKernel /\ wire = <<>>
  /\ g = Stopped /\ queue = <<>>
  /\ ran = NothingRan /\ unnamed = {}
  /\ used = [processes |-> 0, edits |-> 0, faults |-> 0]

-----------------------------------------------------------------------------
(* The graph.                                                              *)

\* The least set with c that has all that the cells in it need.
Ancestors ==
  [c \in Cells |-> {d \in Cells : \A T \in SUBSET Cells :
     c \in T /\ (\A e \in T : Parents[e] \subseteq T) => d \in T}]
AncestorsOf(S) == UNION {Ancestors[c] : c \in S}
DescendantsOf(S) == {d \in Cells : Ancestors[d] \cap S # {}}

\* MarimoDocument.selection: the cell, what depends on it, and all that is needed.
Selection(from) ==
  IF from = NoCell THEN Cells ELSE AncestorsOf(DescendantsOf({from}))

\* What _execute_graph takes for a reason to pause, and then to execute again.
UnsuccessfulButStale == {"failed", "interrupted", "blocked"}     \* mutant
Unsuccessful == {"failed", "interrupted", "blocked", "stale"}
Failed == {c \in g.selected : cells[c].status \in Unsuccessful}

\* _settled_status, for a cell in this kernel.
SettledStatus(c, state) ==
  IF c \notin g.selected THEN "not_replayed"
  ELSE IF c \in g.timedOut THEN "failed"
  ELSE [none |-> "skipped", idle |-> "succeeded", exception |-> "failed",
        interrupted |-> "interrupted", cancelled |-> "blocked", stale |-> "stale"][state]

\* _reconcile
Reconcile(rws, k) ==
  [c \in Cells |-> [rws[c] EXCEPT !.status = SettledStatus(c, k.state[c])]]

\* _interrupt_active
InterruptActive(rws) ==
  [c \in Cells |-> IF rws[c].status = "running" THEN [rws[c] EXCEPT !.status = "interrupted"]
                   ELSE rws[c]]

\* The failure that the pause names: a cell that failed itself, if there is one.
Primary ==
  LET own == {c \in Failed : cells[c].status \in {"failed", "interrupted"}}
      First(S) == CHOOSE c \in S : \A d \in S : c <= d
  IN IF own # {} THEN First(own) ELSE IF Failed # {} THEN First(Failed) ELSE NoCell

-----------------------------------------------------------------------------
Up == g.pc # "down"
Goto(pc) == g' = [g EXCEPT !.pc = pc]
Leave(outcome) == g' = [g EXCEPT !.pc = "closing", !.next = outcome]
Alive == run.epoch \in alive
Fault ==
  /\ used.faults < MaxFaults
  /\ used' = [used EXCEPT !.faults = @ + 1]

-----------------------------------------------------------------------------
(* The runtime (external), and the reader of its events.                   *)

Working == Alive /\ kernel.batch # {}
Busy(c) == AncestorsOf(Parents[c]) \cap kernel.batch # {}

\* A cell is executed when nothing it needs is to be executed first, unless
\* something it needs has not succeeded.
KernelRuns(c) ==
  /\ Working /\ kernel.on = NoCell /\ c \in kernel.batch /\ ~Busy(c)
  /\ IF \A p \in Parents[c] : kernel.state[p] = "idle"
     THEN /\ kernel' = [kernel EXCEPT !.on = c]
          /\ wire' = Append(wire, [cell |-> c, status |-> "running", error |-> FALSE])
          /\ ran' = [ran EXCEPT !.code[c] = kernel.code[c],
                              !.outdated = (@ \cup DescendantsOf({c})) \ {c}]
     ELSE /\ kernel' = [kernel EXCEPT !.state[c] = "cancelled", !.batch = @ \ {c}]
          /\ UNCHANGED <<wire, ran>>
  /\ UNCHANGED <<rows, source, identity, alive, g, queue, unnamed, used>>

\* It ends, and what depends on it and is not in the batch becomes stale.
KernelEnds(c) ==
  /\ Working /\ kernel.on = c
  /\ \E state \in {"idle", "exception"}
                    \cup (IF kernel.interrupted THEN {"interrupted"} ELSE {}) :
       LET rest == IF state = "interrupted" THEN kernel.batch \ {c} ELSE {}
           old == DescendantsOf({c}) \ kernel.batch
       IN /\ kernel' = [kernel EXCEPT
               !.state = [d \in Cells |->
                            IF d = c THEN state
                            ELSE IF d \in rest THEN "cancelled"
                            ELSE IF d \in old /\ kernel.state[d] = "idle" THEN "stale"
                            ELSE kernel.state[d]],
               !.batch = @ \ ({c} \cup rest), !.on = NoCell, !.interrupted = FALSE]
          /\ wire' = Append(wire, [cell |-> c, status |-> "idle", error |-> state # "idle"])
  /\ UNCHANGED <<rows, source, identity, alive, g, queue, ran, unnamed, used>>

Dies ==
  /\ alive' = alive \ {run.epoch}
  /\ kernel' = [kernel EXCEPT !.batch = {}, !.on = NoCell, !.interrupted = FALSE]
\* What a runtime does that nobody listens to any more is not followed.
Unheard == kernel' = NoKernel /\ wire' = <<>>
KernelDies ==
  /\ Alive /\ Fault
  /\ Dies
  /\ UNCHANGED <<rows, source, identity, wire, g, queue, ran, unnamed>>

\* _on_message.  Nothing stops the reader before the session is closed.
Reading == g.pc \notin {"down", "over", "final", "cancelled", "killing"} \cup Startup
Read ==
  /\ Reading /\ wire # <<>>
  /\ LET m == Head(wire)
     IN IF m.status = "running"
        THEN /\ cells' = BeginCellAttempt(cells, m.cell, g.doc[m.cell], run.epoch)
             /\ run' = UpdateRunStatus(run, "running")
        ELSE /\ cells' = IF cells[m.cell].status # "running" THEN cells
                         ELSE CompleteCell(cells, m.cell,
                                           IF m.error THEN "failed" ELSE "settling")
             /\ UNCHANGED run
  /\ wire' = Tail(wire)
  /\ UNCHANGED <<actions, source, identity, alive, kernel, g, queue, ran, unnamed, used>>

-----------------------------------------------------------------------------
(* The process, and the start of an epoch.                                 *)

\* start and run: a process that finds the run cancelling only finishes that;
\* a settled run is only restarted, from a cell or from the beginning.
Open(from) ==
  /\ ~Up /\ used.processes < MaxProcesses
  /\ used' = [used EXCEPT !.processes = @ + 1]
  /\ actions' = RecoverIncompleteActions(actions)
  /\ IF run.status = "cancelling"
     THEN g' = [Stopped EXCEPT !.pc = "cancelled", !.cancel = TRUE] /\ UNCHANGED run
     ELSE /\ g' = [Stopped EXCEPT !.pc = "begin", !.from = from]
          /\ run' = UpdateRunStatus(run, "starting")
  /\ UNCHANGED <<cells, source, runtime, queue>>

\* _run_kernel_epochs, up to the start of the session.
BeginEpoch ==
  /\ g.pc = "begin" /\ (~g.cancel => run.epoch < MaxEpochs)
  /\ IF g.cancel THEN Goto("cancelled") /\ UNCHANGED <<run, cells, kernel, wire, ran>>
     ELSE /\ g' = [g EXCEPT !.pc = "reap", !.doc = source, !.dead = FALSE,
                            !.selected = Selection(g.from)]
          /\ run' = BeginKernelEpoch(run)
          /\ cells' = UpdateSource(ReplaceCellsForRestart(source, run.epoch + 1, 0), source)
          /\ kernel' = [NoKernel EXCEPT !.code = source]
          /\ wire' = <<>> /\ ran' = NothingRan
  /\ UNCHANGED <<actions, source, identity, alive, queue, unnamed, used>>

\* reap_previous: the runtime that process.json names is stopped.
OwnRuntime == {}           \* mutant: of this session only, which has none yet
PreviousRuntime == {identity}
Reap ==
  /\ g.pc = "reap"
  /\ alive' = (alive \ PreviousRuntime) \cup {run.epoch} /\ identity' = 0
  /\ Goto("spawned")
  /\ UNCHANGED <<rows, source, kernel, wire, ran, queue, unnamed, used>>

\* The process exists, and process.json is written.
NameRuntime ==
  /\ g.pc = "spawned"
  /\ identity' = run.epoch
  /\ Goto("connect")
  /\ UNCHANGED <<rows, source, alive, kernel, wire, ran, queue, unnamed, used>>

StartFails ==
  /\ g.pc \in {"reap", "connect"}
  /\ IF g.pc = "connect" /\ ~Alive THEN UNCHANGED used ELSE Fault
  /\ Leave("failed")
  /\ UNCHANGED <<rows, source, runtime, queue>>

\* _run_batch, up to the submission.
BeginBatch(targets, doc) ==
  /\ g' = [g EXCEPT !.pc = "batch", !.doc = doc, !.timedOut = {}, !.error = FALSE,
                    !.hung = FALSE, !.paused = FALSE, !.escalating = FALSE,
                    !.command = 0]
  /\ run' = UpdateRunning(run)

Connected ==
  /\ g.pc = "connect" /\ Alive
  /\ IF g.cancel THEN Leave("cancel") /\ UNCHANGED <<run, kernel>>
     ELSE /\ BeginBatch(g.selected, g.doc)
          /\ kernel' = [kernel EXCEPT !.batch = g.selected]
  /\ UNCHANGED <<cells, actions, source, identity, alive, wire, ran, queue, unnamed, used>>

-----------------------------------------------------------------------------
(* A batch.                                                                *)

\* _watch_execution: a cell is over its time, and the kernel is interrupted.
TimeOut(c) ==
  /\ g.pc = "batch" /\ Alive /\ cells[c].status = "running" /\ c \notin g.timedOut
  /\ Fault
  /\ g' = [g EXCEPT !.timedOut = @ \cup {c}]
  /\ kernel' = [kernel EXCEPT !.interrupted = kernel.on # NoCell]
  /\ UNCHANGED <<rows, source, identity, alive, wire, ran, queue, unnamed>>

\* The execution's marker has been answered and has been read: nobody watches
\* the kernel any more, and the inventory is asked for.
HasEnded == kernel.batch = {}          \* mutant: the stream is not waited for
HasEndedAndIsRead == kernel.batch = {} /\ wire = <<>>
BatchEnds ==
  /\ g.pc = "batch" /\ Alive /\ HasEndedAndIsRead
  /\ Goto("inventory")
  /\ UNCHANGED <<rows, source, runtime, queue, used>>

\* The inventory is here, with its own marker; the cells are what the kernel says.
InventoryRead ==
  /\ g.pc = "inventory" /\ Alive /\ HasEndedAndIsRead
  /\ cells' = Reconcile(cells, kernel)
  /\ g' = [g EXCEPT !.pc = "settled", !.hung = FALSE]
  /\ UNCHANGED <<run, actions, source, runtime, queue, used>>

GiveUpBatch ==
  /\ cells' = InterruptActive(cells)
  /\ Dies
  /\ g' = [g EXCEPT !.pc = "settled", !.error = TRUE, !.dead = TRUE, !.hung = FALSE]
  /\ UNCHANGED <<run, actions, source, identity, wire, ran, queue, unnamed>>

\* The kernel is gone, the transport fails, a cell outlives its interrupt, or
\* the last stage of the escalation: the kernel is given up and killed.
BatchIsLost ==
  /\ g.pc = "batch"
  /\ IF ~Alive \/ g.timedOut # {} THEN UNCHANGED used ELSE Fault
  /\ GiveUpBatch

\* The request for the inventory breaks off, as it does when the runtime ends --
\* or the runner of a run that is being cancelled is, while it waits for it.
InventoryFails ==
  /\ g.pc = "inventory"
  /\ IF Alive \/ g.hung THEN Fault ELSE UNCHANGED used
  /\ GiveUpBatch

\* A request that nobody watches gets no answer, and no error (external): the
\* client reads without a timeout.  It may still get one late.
Unwatched == {"inventory", "repairing"}
RequestHangs ==
  /\ g.pc \in Unwatched /\ ~g.hung
  /\ IF Alive THEN Fault ELSE UNCHANGED used
  /\ g' = [g EXCEPT !.hung = TRUE]
  /\ UNCHANGED <<rows, source, runtime, queue>>

\* The batch's checkpoint is written; _execute_graph goes on from there.
BatchSettled ==
  /\ g.pc = "settled"
  /\ IF g.cancel THEN Leave("cancel") /\ UNCHANGED run
     ELSE IF Failed = {} /\ ~g.error THEN Leave("complete") /\ UNCHANGED run
     ELSE /\ run' = PauseFailedRun(run, Primary, IF Primary = NoCell THEN NoAttempt
                                                 ELSE cells[Primary].attempt)
          /\ Goto("pausing")
  /\ UNCHANGED <<cells, actions, source, runtime, queue, used>>

\* _pause_graph's checkpoint is written.
GraphPaused ==
  /\ g.pc = "pausing"
  /\ g' = [g EXCEPT !.pc = "recover", !.paused = TRUE]
  /\ UNCHANGED <<rows, source, runtime, queue, used>>

CheckpointFails ==
  /\ g.pc \in {"settled", "pausing"} /\ Fault
  /\ Leave("failed")
  /\ UNCHANGED <<rows, source, runtime, queue>>

-----------------------------------------------------------------------------
(* Recovery.                                                               *)

\* Edits are made where the source is read next: elsewhere they come to the same.
Edit(c) ==
  /\ used.edits < MaxEdits /\ g.pc \in {"begin", "recover", "reading"}
  /\ source' = [source EXCEPT ![c] = used.edits + 1]
  /\ used' = [used EXCEPT !.edits = @ + 1]
  /\ UNCHANGED <<rows, runtime, g, queue>>

\* The operator's command, bound to what is there: a graph that is paused, or
\* (as any time before, or after) one that has yet to pause.
RequestRecovery(kind, from) ==
  /\ g.pc \in {"settled", "recover"} /\ Len(actions) < MaxActions
  /\ actions' = Append(actions, NewAction(kind, run, source, from))
  /\ UNCHANGED <<run, cells, source, runtime, g, queue, used>>

LiveRecoveryRejected(i) ==
  LET a == actions[i]
  IN \/ run.status # "paused" \/ ~g.paused
     \/ a.epoch # run.epoch \/ a.attempt # run.failedAttempt
     \/ a.failedCell # run.failedCell \/ a.src # source
     \/ AnotherRecoveryIsExecuting(actions, i)

Dispatch ==
  /\ Up
  /\ \E i \in ActionIds(actions) :
       /\ IsNextAction(actions, i)
       /\ IF LiveRecoveryRejected(i)
          THEN actions' = FinishAction(actions, i, "rejected") /\ UNCHANGED queue
          ELSE actions' = ClaimAction(actions, i) /\ queue' = Append(queue, i)
  /\ UNCHANGED <<run, cells, source, runtime, g, used>>

\* _check_command, then the source is read in a thread.
TakeCommand ==
  /\ g.pc = "recover" /\ queue # <<>>
  /\ queue' = Tail(queue)
  /\ LET i == Head(queue)
     IN IF i = 0 THEN Leave("cancel") /\ UNCHANGED actions
        ELSE LET a == actions[i]
             IN IF a.epoch # run.epoch \/ a.attempt # run.failedAttempt \/ a.src # source
                THEN actions' = FinishAction(actions, i, "rejected") /\ UNCHANGED g
                ELSE /\ g' = [g EXCEPT !.pc = "reading", !.command = i]
                     /\ UNCHANGED actions
  /\ UNCHANGED <<run, cells, source, runtime, used>>

RejectsAndHolds(i) ==      \* mutant
  /\ actions' = FinishAction(actions, i, "rejected")
  /\ g' = [g EXCEPT !.pc = "recover"]
Rejects(i) ==
  /\ actions' = FinishAction(actions, i, "rejected")
  /\ g' = [g EXCEPT !.pc = "recover", !.command = 0]

\* A restart, and any recovery of a dead kernel, takes a new epoch; a resume
\* sends the cells that differ, or is refused for more than their bodies.
SourceRead ==
  LET i == g.command IN
  /\ g.pc = "reading"
  /\ IF actions[i].kind = "restart" \/ g.dead
     THEN /\ actions' = FinishAction(actions, i, "completed")
          /\ g' = [g EXCEPT !.pc = "closing", !.next = "restart", !.command = 0,
                            !.from = actions[i].from, !.paused = FALSE]
     ELSE \/ g' = [g EXCEPT !.pc = "repairing", !.fresh = source] /\ UNCHANGED actions
          \/ Rejects(i)
  /\ UNCHANGED <<run, cells, source, runtime, queue, used>>

\* _apply_repair: the runtime has taken the edits, and told its cells.
Repaired ==
  LET edited == {c \in Cells : g.fresh[c] # g.doc[c]}
      k == [kernel EXCEPT !.code = g.fresh,
                          !.state = [c \in Cells |->
                             IF c \in DescendantsOf(edited) /\ kernel.state[c] # "none"
                             THEN "stale" ELSE kernel.state[c]]]
      told == UpdateSource(Reconcile(cells, k), g.fresh)
      targets == {c \in g.selected :
                    told[c].status \in Unsuccessful \cup {"pending"}}
  IN /\ g.pc = "repairing" /\ Alive /\ wire = <<>>
     /\ actions' = FinishAction(actions, g.command, "completed")
     /\ cells' = told
     /\ IF g.cancel
        THEN /\ g' = [g EXCEPT !.pc = "closing", !.next = "cancel", !.command = 0,
                               !.doc = g.fresh, !.hung = FALSE, !.paused = FALSE]
             /\ kernel' = k /\ UNCHANGED run
        ELSE /\ BeginBatch(targets, g.fresh)
             /\ kernel' = [k EXCEPT !.batch = targets]
     /\ UNCHANGED <<source, identity, alive, wire, ran, queue, unnamed, used>>

RepairFails ==
  /\ g.pc = "repairing"
  /\ IF Alive \/ g.hung THEN Fault ELSE UNCHANGED used
  /\ actions' = FinishAction(actions, g.command, "rejected")
  /\ g' = [g EXCEPT !.pc = "recover", !.command = 0, !.dead = TRUE, !.hung = FALSE]
  /\ Dies
  /\ UNCHANGED <<run, cells, source, identity, wire, ran, queue, unnamed>>

-----------------------------------------------------------------------------
(* Cancellation.                                                           *)

\* RunnerCore.cancel: a paused runner is told, an execution is escalated.  A
\* runner that waits for the inventory is neither.
Cancel ==
  /\ Up /\ ~g.cancel /\ ~IsTerminal(run)
  /\ run' = RequestRunCancellation(run, 1)
  /\ queue' = IF g.paused THEN Append(queue, 0) ELSE queue
  /\ g' = [g EXCEPT !.cancel = TRUE, !.escalating = g.pc = "batch"]
  /\ UNCHANGED <<cells, actions, source, runtime, used>>

EscalatingOnce ==          \* mutant: the interrupt is not followed up
  g.pc = "batch" /\ g.escalating /\ ~kernel.interrupted
Escalating == g.pc = "batch" /\ g.escalating

\* _escalate_cancellation: the interrupt, which the kernel may ignore ...
EscalateInterrupt ==
  /\ Escalating /\ kernel.on # NoCell /\ ~kernel.interrupted
  /\ kernel' = [kernel EXCEPT !.interrupted = TRUE]
  /\ UNCHANGED <<rows, source, identity, alive, wire, ran, g, queue, unnamed, used>>

\* ... and the signals, of which it does not survive the last.
EscalateKill ==
  /\ Escalating /\ Alive
  /\ Dies
  /\ g' = [g EXCEPT !.dead = TRUE]
  /\ UNCHANGED <<rows, source, identity, wire, ran, queue, unnamed, used>>

-----------------------------------------------------------------------------
(* The end of a session, and of the run.                                   *)

\* MarimoSession.close: first the reader, then the runtime.
ReaderStops ==
  /\ g.pc = "closing"
  /\ Unheard
  /\ Goto("killing")
  /\ UNCHANGED <<rows, source, identity, alive, ran, queue, unnamed, used>>

AfterClose ==
  [restart |-> "begin", complete |-> "final", cancel |-> "cancelled", failed |-> "over"]

SessionClosed ==
  /\ g.pc = "killing"
  /\ alive' = alive \ {run.epoch, identity} /\ identity' = 0
  /\ Goto(AfterClose[g.next])
  /\ run' = IF g.next = "failed" THEN FinishRun(run, "failed", "run.runner_error") ELSE run
  /\ UNCHANGED <<cells, actions, source, kernel, wire, ran, queue, unnamed, used>>

Finish ==
  /\ g.pc \in {"final", "cancelled"}
  /\ IF g.pc = "final" /\ g.cancel THEN Goto("cancelled") /\ UNCHANGED run
     ELSE /\ Goto("over")
          /\ run' = IF g.pc = "final" THEN FinishRun(run, "succeeded", "run.succeeded")
                    ELSE FinishRun(run, "cancelled", "run.cancelled")
  /\ UNCHANGED <<cells, actions, source, runtime, queue, used>>

\* quiesce: the runner is cancelled where it waits and closes its session, if
\* it has one -- unless it was closing it: a second close returns at once.  A
\* batch that is being cancelled takes it for the end of its escalation
\* (BatchIsLost, InventoryFails).
InSession == g.pc \notin {"begin", "closing", "killing", "final", "cancelled", "over"}
Quiesce ==
  /\ Up /\ ~(g.pc \in {"batch", "inventory"} /\ g.cancel)
  /\ IF g.pc = "over" THEN UNCHANGED used ELSE Fault
  /\ IF InSession THEN alive' = alive \ {run.epoch, identity} /\ identity' = 0
     ELSE UNCHANGED <<identity, alive>>
  /\ run' = IF IsTerminal(run) THEN run ELSE UpdateRunStatus(run, "paused")
  /\ g' = Stopped /\ queue' = <<>>
  /\ Unheard /\ ran' = NothingRan
  /\ UNCHANGED <<cells, actions, source, unnamed>>

Crash ==
  /\ Up /\ Fault
  /\ unnamed' = IF g.pc = "spawned" THEN unnamed \cup {run.epoch} ELSE unnamed
  /\ g' = Stopped /\ queue' = <<>>
  /\ Unheard /\ ran' = NothingRan
  /\ UNCHANGED <<rows, source, identity, alive>>

-----------------------------------------------------------------------------
Runtime == KernelDies \/ \E c \in Cells : KernelRuns(c) \/ KernelEnds(c)
Graph ==
  \/ BeginEpoch \/ Reap \/ NameRuntime \/ StartFails \/ Connected
  \/ BatchEnds \/ BatchIsLost \/ InventoryRead \/ InventoryFails
  \/ BatchSettled \/ GraphPaused \/ CheckpointFails
  \/ TakeCommand \/ SourceRead \/ Repaired \/ RepairFails
  \/ ReaderStops \/ SessionClosed \/ Finish
Operator ==
  \/ RequestRecovery("resume", NoCell)
  \/ \E from \in Starts : Open(from) \/ RequestRecovery("restart", from)
  \/ \E c \in Edited : Edit(c)
  \/ Cancel \/ Quiesce \/ Crash

Next ==
  \/ Runtime \/ Read \/ Graph \/ RequestHangs \/ Dispatch \/ Operator
  \/ (\E c \in Cells : TimeOut(c)) \/ EscalateInterrupt \/ EscalateKill

Spec == Init /\ [][Next]_vars

\* The runner's awaits end, but for a request that hangs; the reader and the
\* action loop get their turns and an escalation goes to its end.  A cell may
\* execute for ever.
Fairness == /\ WF_vars(~g.hung /\ Graph) /\ WF_vars(Read) /\ WF_vars(Dispatch)
            /\ WF_vars(EscalateKill)
FairSpec == Spec /\ Fairness

-----------------------------------------------------------------------------
(* Properties.                                                             *)

\* Every variable has its type, a command is held exactly while it is being
\* applied, and only epochs that have begun have runtimes.
TypeOK ==
  /\ run \in Runs /\ cells \in [Cells -> CellRows]
  /\ actions \in Seq([kind: RecoveryKind, status: ActionStatus, epoch: Nat,
                       attempt: Nat, failedCell: Cells \cup {NoCell}, src: Notebooks,
                       from: Cells \cup {NoCell}, recovered: BOOLEAN])
  /\ source \in Notebooks /\ ran \in [code: Notebooks, outdated: SUBSET Cells]
  /\ identity \in 0 .. run.epoch
  /\ alive \subseteq 1 .. run.epoch /\ unnamed \subseteq 1 .. run.epoch
  /\ kernel \in [code: Notebooks, state: [Cells -> CellState], batch: SUBSET Cells,
                  on: Cells \cup {NoCell}, interrupted: BOOLEAN]
  /\ wire \in Seq([cell: Cells, status: {"running", "idle"}, error: BOOLEAN])
  /\ g \in [pc: Runner, doc: Notebooks, fresh: Notebooks, selected: SUBSET Cells,
             from: Cells \cup {NoCell}, timedOut: SUBSET Cells, error: BOOLEAN,
             dead: BOOLEAN, hung: BOOLEAN, paused: BOOLEAN, cancel: BOOLEAN,
             escalating: BOOLEAN, command: ActionIds(actions) \cup {0}, next: Outcomes]
  /\ queue \in Seq(ActionIds(actions) \cup {0})
  /\ used \in [processes: Nat, edits: Nat, faults: Nat]
  /\ g.pc \in {"reading", "repairing"} <=> g.command # 0

\* A graph that waits for a recovery with its kernel intact can be recovered:
\* the row says that the run is paused, at the cell and the attempt that the
\* runner waits with, and no cell is left as running (_pause_graph after
\* _reconcile: a message read late would put the run back to running).
PausedGraphIsRecoverable ==
  g.pc = "recover" /\ ~g.dead /\ ~g.cancel =>
    /\ run.status = "paused"
    /\ run.failedCell # NoCell
    /\ run.failedAttempt = cells[run.failedCell].attempt
    /\ \A c \in Cells : cells[c].status \notin {"running", "settling"}

\* What a batch leaves as succeeded did run, and so did all that it needs, each
\* with the code that is recorded for it and after what it needs itself; and a
\* run succeeds only when that holds of all that was selected (_settled_status, the cells _execute_graph pauses for and executes
\* again, the mapping that _apply_repair takes over).
RanAsRecorded(c) == ran.code[c] = cells[c].src /\ c \notin ran.outdated
SuccessIsCurrent ==
  /\ g.pc \in {"settled", "pausing", "recover"} /\ ~g.dead =>
       \A c \in Cells : cells[c].status = "succeeded" =>
         \A d \in Ancestors[c] : RanAsRecorded(d) /\ ran.code[d] = g.doc[d]
  /\ g.pc = "final" \/ (g.pc = "over" /\ run.status = "succeeded") =>
       \A c \in g.selected : cells[c].status = "succeeded" /\ RanAsRecorded(c)

\* A runtime is started when no other lives, and none outlives the last session
\* of a process (reap_previous, close) -- but for those that a crash left before
\* process.json named them, and the one that a process does not reap because it
\* is cancelled before it begins an epoch, or found the run so.
OneRuntime ==
  /\ Cardinality(alive \ unnamed) <= 1
  /\ g.pc \in {"begin", "final", "cancelled", "over"} /\ g.selected # {} =>
       alive \subseteq unnamed

\* A cancellation that finds a batch, or its checkpoint, comes to an end: the
\* interrupt or the last signal ends the batch, whatever the cells do.  Not so
\* when the runtime owes the inventory that follows the batch: no escalation is
\* under way then, nothing watches the kernel and the request has no timeout.
CancellationSettles ==
  (g.pc \in {"batch", "inventory", "settled"} /\ g.cancel)
    ~> (IsTerminal(run) \/ ~Up \/ g.hung)

=============================================================================
