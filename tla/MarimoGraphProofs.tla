--------------------------- MODULE MarimoGraphProofs ---------------------------
(***************************************************************************)
(* What MarimoGraph guarantees for any graph, bounds, and faults.          *)
(*                                                                         *)
(*   TypeInv      TypeOK, and that a runtime is started in an epoch        *)
(*   RuntimesInv  which runtimes live, for OneRuntime                      *)
(*   SettledInv   a settled batch that was not lost is what the rows say   *)
(*   PausedInv    the pause on record is the runner's                      *)
(*   KernelInv    what has run in an intact kernel, and with what          *)
(*   SuccessInv   a run that is complete stays as its last batch left it   *)
(*                                                                         *)
(* are inductive, each relative to the ones before it.                     *)
(***************************************************************************)
EXTENDS MarimoGraph, RunStoreProofs, FiniteSetTheorems, WellFoundedInduction

\* The rows of actions as this backend has them: a restart may be from all cells.
GraphActions == [kind: RecoveryKind, status: ActionStatus, epoch: Nat, attempt: Nat,
                 failedCell: Cells \cup {NoCell}, src: Notebooks,
                 from: Cells \cup {NoCell}, recovered: BOOLEAN]

RowsOK == run \in Runs /\ cells \in CellTable /\ actions \in Seq(GraphActions)
Kernels == [code: Notebooks, state: [Cells -> CellState], batch: SUBSET Cells,
            on: Cells \cup {NoCell}, interrupted: BOOLEAN]
Messages == [cell: Cells, status: {"running", "idle"}, error: BOOLEAN]
RuntimeOK ==
  /\ source \in Notebooks /\ ran \in [code: Notebooks, outdated: SUBSET Cells]
  /\ identity \in 0 .. run.epoch
  /\ alive \subseteq 1 .. run.epoch /\ unnamed \subseteq 1 .. run.epoch
  /\ kernel \in Kernels /\ wire \in Seq(Messages)

Memories == [pc: Runner, doc: Notebooks, fresh: Notebooks, selected: SUBSET Cells,
             from: Cells \cup {NoCell}, timedOut: SUBSET Cells, error: BOOLEAN,
             dead: BOOLEAN, hung: BOOLEAN, paused: BOOLEAN, cancel: BOOLEAN,
             escalating: BOOLEAN, command: Nat, next: Outcomes]
Commands == ActionIds(actions) \cup {0}
Counters == [processes: Nat, edits: Nat, faults: Nat]
MemoryOK ==
  /\ g \in Memories /\ g.command \in Commands /\ queue \in Seq(Commands)
  /\ used \in Counters
  /\ g.pc \in {"reading", "repairing"} <=> g.command # 0

\* TypeOK is inductive but for one thing: a runtime is started in an epoch.
TypeInv == RowsOK /\ RuntimeOK /\ MemoryOK /\ (g.pc \in {"reap", "spawned"} => run.epoch # 0)

\* Who has a name: the runtime that process.json names is the only one that a
\* crash has not orphaned, but for the moment before the name is written.
Named == alive \ unnamed
RuntimesInv ==
  /\ g.pc # "spawned" => Named \subseteq {identity}
  /\ g.pc = "spawned" => Named \subseteq {run.epoch}
  /\ g.pc \in {"begin", "final", "cancelled", "over"} /\ g.selected # {} => Named = {}

Waiting == {"settled", "pausing", "recover", "reading", "repairing"}

\* Before the first batch nothing has run and nothing was said.
FreshKernel ==
  g.pc \in {"reap", "spawned", "connect"} =>
    wire = <<>> /\ kernel = [NoKernel EXCEPT !.code = g.doc]
ExecutesItsBatch == kernel.on # NoCell => kernel.on \in kernel.batch

\* A kernel that is given up is known to be dead; a lost batch is an error.
DeadIsKnown ==
  /\ g.pc \in {"reap", "spawned", "connect", "repairing"} => ~g.dead
  /\ g.pc = "batch" => ~g.error /\ (g.dead => ~Alive)
  /\ g.pc = "inventory" => ~g.error /\ ~g.dead
  /\ g.pc \in Waiting /\ g.error => g.dead
  /\ g.pc = "settled" /\ g.dead => g.error

\* After a batch that was not lost the stream is read, nothing executes and the
\* rows are what the kernel says.
RowsAreSettled ==
  g.pc \in Waiting /\ ~g.dead =>
    /\ wire = <<>> /\ kernel.batch = {} /\ kernel.on = NoCell
    /\ \A c \in Cells : cells[c].status = SettledStatus(c, kernel.state[c])

SettledInv == FreshKernel /\ ExecutesItsBatch /\ DeadIsKnown /\ RowsAreSettled

\* The pause that the rows tell of is the one that the runner waits with.
PausedInv ==
  g.pc \in {"pausing", "recover", "reading", "repairing"} /\ ~g.dead /\ ~g.cancel =>
    /\ run.status = "paused" /\ run.failedCell \in Cells
    /\ run.failedAttempt = cells[run.failedCell].attempt

\* What a kernel did that is intact (a batch that is not lost).
Intact == \/ g.pc \in {"batch", "inventory"} /\ Alive
          \/ g.pc \in Waiting /\ ~g.dead
AsOf(c) == \A d \in Ancestors[c] : ran.code[d] = kernel.code[d] /\ d \notin ran.outdated
SourcesAgree ==
  g.pc \in {"reap", "spawned", "connect", "batch", "inventory"} \cup Waiting =>
    /\ kernel.code = g.doc
    /\ \A c \in Cells : cells[c].src = g.doc[c]
RanInOrder ==
  Intact =>
    /\ kernel.on # NoCell => AsOf(kernel.on)
    /\ \A c \in Cells \ kernel.batch :
         /\ kernel.state[c] = "idle" /\ kernel.on \notin Ancestors[c] => AsOf(c)
         /\ c \in g.selected => kernel.state[c] # "none"
KernelInv == SourcesAgree /\ RanInOrder

\* From the last batch to the success of the run.
Sessionless == {"down", "begin", "killing", "final", "cancelled", "over"}
Completed == \/ g.pc \in {"closing", "killing"} /\ g.next = "complete"
             \/ g.pc = "final"
             \/ g.pc = "over" /\ run.status = "succeeded"
SuccessInv ==
  /\ g.pc \notin {"down", "over"} => ~IsTerminal(run)
  /\ g.pc \in Sessionless => kernel.batch = {}
  /\ Completed =>
       /\ wire = <<>> /\ kernel.batch = {}
       /\ \A c \in g.selected : cells[c].status = "succeeded" /\ RanAsRecorded(c)
-----------------------------------------------------------------------------
(* The graph: what the least closed set contains. *)

ClosedUnderNeeds(T) == \A e \in T : Parents[e] \subseteq T

LEMMA ParentsInCells ==
  ASSUME NEW c \in Cells
  PROVE  Parents[c] \subseteq Cells
  BY ParentsAreCells

LEMMA AncestorMember ==
  ASSUME NEW c \in Cells, NEW d
  PROVE  d \in Ancestors[c] <=>
           /\ d \in Cells
           /\ \A T \in SUBSET Cells : c \in T /\ ClosedUnderNeeds(T) => d \in T
  BY DEF Ancestors, ClosedUnderNeeds

LEMMA AncestorsAreCells == ASSUME NEW c \in Cells PROVE Ancestors[c] \in SUBSET Cells
  BY AncestorMember

LEMMA OwnAncestor == ASSUME NEW c \in Cells PROVE c \in Ancestors[c]
  BY AncestorMember

LEMMA AncestorsOfAncestors ==
  ASSUME NEW c \in Cells, NEW d \in Ancestors[c]
  PROVE  Ancestors[d] \subseteq Ancestors[c]
<1>1. d \in Cells BY AncestorMember
<1> SUFFICES ASSUME NEW e \in Ancestors[d] PROVE e \in Ancestors[c] OBVIOUS
<1>2. e \in Cells BY <1>1, AncestorMember
<1>3. ASSUME NEW T \in SUBSET Cells, c \in T, ClosedUnderNeeds(T) PROVE e \in T
  <2>1. d \in T BY <1>3, AncestorMember
  <2> QED BY <1>1, <1>3, <2>1, AncestorMember
<1> QED BY <1>2, <1>3, AncestorMember

LEMMA ParentIsAncestor ==
  ASSUME NEW c \in Cells, NEW p \in Parents[c]
  PROVE  p \in Ancestors[c] /\ p \in Cells
<1>1. p \in Cells BY ParentsInCells
<1>2. ASSUME NEW T \in SUBSET Cells, c \in T, ClosedUnderNeeds(T) PROVE p \in T
  BY <1>2 DEF ClosedUnderNeeds
<1> QED BY <1>1, <1>2, AncestorMember

\* A cell needs nothing but itself and what its parents need.
LEMMA AncestorsThroughParents ==
  ASSUME NEW c \in Cells, NEW d \in Ancestors[c], d # c
  PROVE  \E p \in Parents[c] : d \in Ancestors[p]
<1> DEFINE T == {c} \cup UNION {Ancestors[p] : p \in Parents[c]}
<1>1. T \in SUBSET Cells BY ParentsInCells, AncestorsAreCells
<1>2. ASSUME NEW e \in T PROVE Parents[e] \subseteq T
  <2>1. CASE e = c
    <3> SUFFICES ASSUME NEW p \in Parents[c] PROVE p \in Ancestors[p] BY <2>1
    <3> QED BY ParentsInCells, OwnAncestor
  <2>2. CASE e # c
    <3>1. PICK p \in Parents[c] : e \in Ancestors[p] BY <1>2, <2>2
    <3>2. p \in Cells BY ParentsInCells
    <3>3. e \in Cells BY <3>1, <3>2, AncestorMember
    <3>4. ASSUME NEW q \in Parents[e] PROVE q \in Ancestors[p]
      <4>1. q \in Ancestors[e] BY <3>3, ParentIsAncestor
      <4> QED BY <3>1, <3>2, <4>1, AncestorsOfAncestors
    <3> QED BY <3>4
  <2> QED BY <2>1, <2>2
<1>3. c \in T /\ ClosedUnderNeeds(T) BY <1>2 DEF ClosedUnderNeeds
<1>4. d \in T
  <2> HIDE DEF T
  <2> QED BY <1>1, <1>3, AncestorMember
<1> QED BY <1>4

LEMMA DescendantsAreCells == \A S : DescendantsOf(S) \in SUBSET Cells
  BY DEF DescendantsOf

LEMMA AncestorsOfAreCells ==
  ASSUME NEW S \in SUBSET Cells
  PROVE  AncestorsOf(S) \in SUBSET Cells
  BY AncestorsAreCells DEF AncestorsOf

LEMMA SelectionIsCells ==
  ASSUME NEW from \in Cells \cup {NoCell}
  PROVE  Selection(from) \in SUBSET Cells
  BY DescendantsAreCells, AncestorsOfAreCells DEF Selection

-----------------------------------------------------------------------------
(* The cell that a pause names: a set of cells has a least one. *)

Less == {ss \in Nat \X Nat : ss[1] < ss[2]}

LEMMA LessIsWellFounded == IsWellFoundedOn(Less, Nat)
  BY NatLessThanWellFounded, Zenon DEF OpToRel, Less

LEMMA LeastCell ==
  ASSUME NEW S \in SUBSET Cells, S # {}
  PROVE  \E c \in S : \A d \in S : c <= d
<1>1. S \in SUBSET Nat BY CellsAreNaturals
<1>2. PICK c \in S : \A d \in S : <<d, c>> \notin Less
  BY <1>1, LessIsWellFounded, WFMin
<1>3. \A d \in S : ~(d < c) BY <1>1, <1>2 DEF Less
<1> QED BY <1>1, <1>2, <1>3

LEMMA PrimaryIsFailed ==
  ASSUME g.selected \in SUBSET Cells
  PROVE  Primary \in Failed \cup {NoCell} /\ (Failed # {} => Primary \in Failed)
<1> DEFINE own == {c \in Failed : cells[c].status \in {"failed", "interrupted"}}
           First(S) == CHOOSE c \in S : \A d \in S : c <= d
<1>1. Failed \in SUBSET Cells BY DEF Failed
<1>2. own # {} => First(own) \in own BY <1>1, LeastCell
<1>3. Failed # {} => First(Failed) \in Failed BY <1>1, LeastCell
<1> QED BY <1>2, <1>3 DEF Primary

-----------------------------------------------------------------------------
(* The rows. *)

LEMMA NewGraphActionRow ==
  ASSUME NEW kind \in RecoveryKind, NEW r \in Runs, NEW src \in Notebooks,
         NEW from \in Cells \cup {NoCell}
  PROVE  NewAction(kind, r, src, from) \in GraphActions
  BY DEF NewAction, GraphActions, Runs, ActionStatus

LEMMA RowsStayGraphActions ==
  ASSUME NEW as \in Seq(GraphActions), NEW bs, DOMAIN bs = DOMAIN as,
         bs = [i \in DOMAIN bs |-> bs[i]],
         \A i \in ActionIds(as) : bs[i] \in GraphActions
  PROVE  bs \in Seq(GraphActions) /\ Len(bs) = Len(as)
<1>1. Len(as) \in Nat /\ DOMAIN as = 1 .. Len(as) BY LenProperties
<1>2. bs \in [1 .. Len(as) -> GraphActions] BY <1>1 DEF ActionIds
<1> QED BY <1>1, <1>2, FunctionIsSeq

LEMMA ClaimGraphAction ==
  ASSUME NEW as \in Seq(GraphActions), NEW i
  PROVE  ClaimAction(as, i) \in Seq(GraphActions) /\ Len(ClaimAction(as, i)) = Len(as)
<1> DEFINE bs == ClaimAction(as, i)
<1>1. Len(as) \in Nat /\ as \in [1 .. Len(as) -> GraphActions] BY LenProperties
<1>2. DOMAIN bs = DOMAIN as /\ bs = [j \in DOMAIN bs |-> bs[j]]
  BY <1>1 DEF ClaimAction
<1>3. \A j \in ActionIds(as) : bs[j] \in GraphActions
  BY <1>1 DEF ClaimAction, GraphActions, ActionStatus, ActionIds
<1> QED BY <1>2, <1>3, RowsStayGraphActions

LEMMA FinishGraphAction ==
  ASSUME NEW as \in Seq(GraphActions), NEW i, NEW status \in ActionStatus
  PROVE  /\ FinishAction(as, i, status) \in Seq(GraphActions)
         /\ Len(FinishAction(as, i, status)) = Len(as)
<1> DEFINE bs == FinishAction(as, i, status)
<1>1. Len(as) \in Nat /\ as \in [1 .. Len(as) -> GraphActions] BY LenProperties
<1>2. DOMAIN bs = DOMAIN as /\ bs = [j \in DOMAIN bs |-> bs[j]]
  BY <1>1 DEF FinishAction
<1>3. \A j \in ActionIds(as) : bs[j] \in GraphActions
  BY <1>1 DEF FinishAction, GraphActions, ActionStatus, ActionIds
<1> QED BY <1>2, <1>3, RowsStayGraphActions

LEMMA RecoverGraphActions ==
  ASSUME NEW as \in Seq(GraphActions)
  PROVE  /\ RecoverIncompleteActions(as) \in Seq(GraphActions)
         /\ Len(RecoverIncompleteActions(as)) = Len(as)
<1> DEFINE bs == RecoverIncompleteActions(as)
<1>1. Len(as) \in Nat /\ as \in [1 .. Len(as) -> GraphActions] BY LenProperties
<1>2. DOMAIN bs = DOMAIN as /\ bs = [j \in DOMAIN bs |-> bs[j]]
  BY <1>1 DEF RecoverIncompleteActions, ActionIds
<1>3. \A j \in ActionIds(as) : bs[j] \in GraphActions
  BY <1>1 DEF RecoverIncompleteActions, GraphActions, ActionStatus, ActionIds
<1> QED BY <1>2, <1>3, RowsStayGraphActions

LEMMA SettledStatusIsStatus ==
  ASSUME NEW c, NEW state \in CellState
  PROVE  SettledStatus(c, state) \in CellStatus \ {"running", "settling", "pending"}
  BY DEF SettledStatus, CellState, CellStatus

LEMMA ReconcileRows ==
  ASSUME NEW cs \in CellTable, NEW k \in Kernels
  PROVE  /\ Reconcile(cs, k) \in CellTable
         /\ \A c \in Cells : /\ Reconcile(cs, k)[c].status = SettledStatus(c, k.state[c])
                              /\ Reconcile(cs, k)[c].src = cs[c].src
                              /\ Reconcile(cs, k)[c].attempt = cs[c].attempt
<1>1. \A c \in Cells : SettledStatus(c, k.state[c]) \in CellStatus
  BY SettledStatusIsStatus DEF Kernels
<1> QED BY <1>1 DEF Reconcile, CellTable, CellRows

LEMMA InterruptActiveRows ==
  ASSUME NEW cs \in CellTable
  PROVE  /\ InterruptActive(cs) \in CellTable
         /\ \A c \in Cells : InterruptActive(cs)[c].src = cs[c].src
  BY DEF InterruptActive, CellTable, CellRows, CellStatus

LEMMA UpdateSourceFields ==
  ASSUME NEW cs \in CellTable, NEW src \in Notebooks
  PROVE  /\ UpdateSource(cs, src) \in CellTable
         /\ \A c \in Cells : /\ UpdateSource(cs, src)[c].src = src[c]
                              /\ UpdateSource(cs, src)[c].status = cs[c].status
  BY DEF UpdateSource, CellTable, CellRows, Notebooks

LEMMA PauseGraphRow ==
  ASSUME NEW r \in Runs, NEW c \in Cells \cup {NoCell}, NEW n \in Nat
  PROVE  /\ PauseFailedRun(r, c, n) \in Runs
         /\ PauseFailedRun(r, c, n).status = "paused"
         /\ PauseFailedRun(r, c, n).failedCell = c
         /\ PauseFailedRun(r, c, n).failedAttempt = n
         /\ PauseFailedRun(r, c, n).epoch = r.epoch
  BY DEF PauseFailedRun, Runs, RunStatus

\* What a commit on the run does to its epoch.
LEMMA EpochsOfCommits ==
  ASSUME NEW r \in Runs
  PROVE  /\ r.epoch \in Nat
         /\ \A s : UpdateRunStatus(r, s).epoch = r.epoch
         /\ UpdateRunning(r).epoch = r.epoch
         /\ \A s, e : FinishRun(r, s, e).epoch = r.epoch
         /\ \A n : RequestRunCancellation(r, n).epoch = r.epoch
         /\ BeginKernelEpoch(r).epoch = r.epoch + 1
  BY DEF Runs, UpdateRunStatus, UpdateRunning, FinishRun, RequestRunCancellation,
         BeginKernelEpoch

-----------------------------------------------------------------------------
(* Types. *)

LEMMA TypeInvImpliesTypeOK == TypeInv => TypeOK
<1> SUFFICES ASSUME TypeInv PROVE TypeOK OBVIOUS
<1> USE DEF TypeInv, RowsOK, RuntimeOK, MemoryOK
<1>1. g \in [pc: Runner, doc: Notebooks, fresh: Notebooks, selected: SUBSET Cells,
             from: Cells \cup {NoCell}, timedOut: SUBSET Cells, error: BOOLEAN,
             dead: BOOLEAN, hung: BOOLEAN, paused: BOOLEAN, cancel: BOOLEAN,
             escalating: BOOLEAN, command: Commands, next: Outcomes]
  BY DEF Memories
<1> QED BY <1>1 DEF TypeOK, CellTable, GraphActions, Counters, Kernels, Messages, Commands

LEMMA BlankValues ==
  /\ [c \in Cells |-> 0] \in Notebooks
  /\ NoKernel \in Kernels /\ NothingRan \in [code: Notebooks, outdated: SUBSET Cells]
  /\ \A src \in Notebooks : [NoKernel EXCEPT !.code = src] \in Kernels
  /\ Stopped \in Memories /\ Stopped.pc = "down" /\ Stopped.command = 0
<1>1. [c \in Cells |-> 0] \in Notebooks BY DEF Notebooks
<1>2. [c \in Cells |-> "none"] \in [Cells -> CellState] BY DEF CellState
<1> QED
  BY <1>1, <1>2 DEF NoKernel, NothingRan, Stopped, Kernels, Memories, Runner, Outcomes

LEMMA InitTypeInv == Init => TypeInv
<1> SUFFICES ASSUME Init PROVE TypeInv OBVIOUS
<1>1. NewRun \in Runs /\ NewRun.epoch = 0
  BY CellsAreNaturals DEF NewRun, Runs, RunStatus, NoAttempt
<1>2. cells \in CellTable
  BY BlankValues DEF Init, InitializeCells, CellTable, CellRows, CellStatus, Notebooks
<1>3. RowsOK BY <1>1, <1>2, EmptySeq DEF Init, RowsOK
<1>4. RuntimeOK BY <1>1, BlankValues, EmptySeq DEF Init, RuntimeOK
<1>5. MemoryOK BY BlankValues, EmptySeq DEF Init, MemoryOK, Commands, Counters
<1> QED BY <1>3, <1>4, <1>5, BlankValues DEF Init, TypeInv

\* Commands that the runner and its queue hold are still there when actions are
\* added or answered.
LEMMA CommandsStay ==
  ASSUME TypeInv, actions' \in Seq(GraphActions), Len(actions) <= Len(actions')
  PROVE  /\ Commands \subseteq Commands' /\ Commands \subseteq Nat
         /\ queue \in Seq(Commands')
<1>1. Len(actions) \in Nat /\ Len(actions') \in Nat
  BY LenProperties DEF TypeInv, RowsOK
<1>2. Commands \subseteq Commands' /\ Commands \subseteq Nat
  BY <1>1 DEF Commands, ActionIds
<1> QED BY <1>2, SeqMonotonic DEF TypeInv, MemoryOK

LEMMA HeldAction ==
  ASSUME TypeInv, NEW i \in Commands, i # 0
  PROVE  i \in ActionIds(actions) /\ actions[i] \in GraphActions
<1>1. i \in 1 .. Len(actions) BY DEF Commands, ActionIds
<1> QED BY <1>1, ElementOfSeq DEF TypeInv, RowsOK, ActionIds

LEMMA CountedFault == ASSUME used \in Counters, Fault PROVE used' \in Counters
  BY DEF Counters, Fault

LEMMA DyingKernel ==
  ASSUME kernel \in Kernels, Dies
  PROVE  /\ kernel' \in Kernels /\ kernel'.code = kernel.code
         /\ kernel'.state = kernel.state /\ kernel'.batch = {} /\ kernel'.on = NoCell
  BY DEF Kernels, Dies

LEMMA KernelKeepsTypes ==
  ASSUME TypeInv, Runtime
  PROVE  TypeInv'
<1> USE DEF TypeInv, RowsOK, RuntimeOK, MemoryOK
<1>1. CASE KernelDies
  <2>1. kernel' \in Kernels BY <1>1, DyingKernel DEF KernelDies
  <2>2. used' \in Counters BY <1>1, CountedFault DEF KernelDies
  <2> QED BY <1>1, <2>1, <2>2 DEF KernelDies, Dies, rows, Commands
<1>2. ASSUME NEW c \in Cells, KernelRuns(c) PROVE TypeInv'
  <2>1. kernel' \in Kernels
    <3>1. CASE kernel' = [kernel EXCEPT !.on = c] BY <3>1 DEF Kernels
    <3>2. CASE kernel' = [kernel EXCEPT !.state[c] = "cancelled", !.batch = @ \ {c}]
      BY <3>2 DEF Kernels, CellState
    <3> QED BY <1>2, <3>1, <3>2 DEF KernelRuns
  <2>2. wire' \in Seq(Messages)
    <3>1. [cell |-> c, status |-> "running", error |-> FALSE] \in Messages BY DEF Messages
    <3>2. Append(wire, [cell |-> c, status |-> "running", error |-> FALSE]) \in Seq(Messages)
      BY <3>1, AppendProperties
    <3> QED BY <1>2, <3>2 DEF KernelRuns
  <2>3. ran' \in [code: Notebooks, outdated: SUBSET Cells]
    <3>1. CASE ran' = [ran EXCEPT !.code[c] = kernel.code[c],
                                !.outdated = (@ \cup DescendantsOf({c})) \ {c}]
      <4>1. kernel.code[c] \in Nat BY DEF Kernels, Notebooks
      <4>2. DescendantsOf({c}) \in SUBSET Cells BY DescendantsAreCells
      <4> QED BY <3>1, <4>1, <4>2 DEF Notebooks
    <3>2. CASE ran' = ran BY <3>2
    <3> QED BY <1>2, <3>1, <3>2 DEF KernelRuns
  <2> QED BY <1>2, <2>1, <2>2, <2>3 DEF KernelRuns, rows, Commands
<1>3. ASSUME NEW c \in Cells, KernelEnds(c) PROVE TypeInv'
  <2>1. PICK state \in {"idle", "exception"}
                    \cup (IF kernel.interrupted THEN {"interrupted"} ELSE {}) :
       LET rest == IF state = "interrupted" THEN kernel.batch \ {c} ELSE {}
           old == DescendantsOf({c}) \ kernel.batch
       IN /\ kernel' = [kernel EXCEPT
               !.state = [d \in Cells |->
                            IF d = c THEN state
                            ELSE IF d \in rest THEN "cancelled"
                            ELSE IF d \in old /\ kernel.state[d] = "idle" THEN "stale"
                            ELSE kernel.state[d]],
               !.batch = @ \ ({c} \cup rest), !.on = NoCell, !.interrupted = FALSE]
          /\ wire' = Append(wire, [cell |-> c, status |-> "idle", error |-> state # "idle"])
    BY <1>3 DEF KernelEnds
  <2>2. state \in CellState BY DEF CellState
  <2>3. kernel' \in Kernels BY <2>1, <2>2 DEF Kernels, CellState
  <2>4. wire' \in Seq(Messages)
    <3>1. [cell |-> c, status |-> "idle", error |-> state # "idle"] \in Messages
      BY DEF Messages
    <3> QED BY <2>1, <3>1, AppendProperties
  <2> QED BY <1>3, <2>3, <2>4 DEF KernelEnds, rows, Commands
<1> QED BY <1>1, <1>2, <1>3 DEF Runtime

LEMMA ReadKeepsTypes ==
  ASSUME TypeInv, Read
  PROVE  TypeInv'
<1> USE DEF TypeInv, RowsOK, RuntimeOK, MemoryOK
<1>1. Head(wire) \in Messages /\ Tail(wire) \in Seq(Messages)
  BY HeadTailProperties DEF Read
<1>2. Head(wire).cell \in Cells /\ Head(wire).error \in BOOLEAN BY <1>1 DEF Messages
<1>3. g.doc[Head(wire).cell] \in Nat /\ run.epoch \in Nat
  BY <1>2 DEF Memories, Notebooks, Runs
<1>4. cells' \in CellTable
  <2>1. BeginCellAttempt(cells, Head(wire).cell, g.doc[Head(wire).cell], run.epoch) \in CellTable
    BY <1>2, <1>3, BeginCellAttemptRows
  <2>2. \A status \in {"failed", "settling"} :
          CompleteCell(cells, Head(wire).cell, status) \in CellTable
    BY CompleteCellRows DEF CellStatus
  <2> QED BY <2>1, <2>2 DEF Read
<1>5. run' \in Runs /\ run'.epoch = run.epoch
  BY UpdateRunStatusRow, EpochsOfCommits DEF Read, RunStatus
<1> QED BY <1>1, <1>4, <1>5 DEF Read, Commands

LEMMA GotoMemory ==
  ASSUME g \in Memories, NEW pc \in Runner, Goto(pc)
  PROVE  g' \in Memories /\ g' = [g EXCEPT !.pc = pc] /\ g'.pc = pc /\ g'.command = g.command
  BY DEF Goto, Memories

LEMMA LeaveMemory ==
  ASSUME g \in Memories, NEW outcome \in Outcomes, Leave(outcome)
  PROVE  /\ g' \in Memories /\ g'.pc = "closing" /\ g'.next = outcome
         /\ g'.command = g.command
  BY DEF Leave, Memories, Runner

LEMMA EpochMemory ==
  ASSUME g \in Memories, NEW doc \in Notebooks,
         g' = [g EXCEPT !.pc = "reap", !.doc = doc, !.dead = FALSE,
                        !.selected = Selection(g.from)]
  PROVE  g' \in Memories /\ g'.pc = "reap" /\ g'.command = g.command
<1>1. g.from \in Cells \cup {NoCell} BY DEF Memories
<1>2. Selection(g.from) \in SUBSET Cells BY <1>1, SelectionIsCells
<1> QED BY <1>2 DEF Memories, Runner, Startup

LEMMA BatchMemory ==
  ASSUME g \in Memories, run \in Runs, NEW targets, NEW doc \in Notebooks,
         BeginBatch(targets, doc)
  PROVE  /\ g' \in Memories /\ g'.pc = "batch" /\ g'.command = 0
         /\ run' \in Runs /\ run'.epoch = run.epoch /\ run'.status = "running"
  BY UpdateRunningRow, EpochsOfCommits DEF BeginBatch, Memories, Runner

\* The steps of the session's start and of its end.
LEMMA EpochKeepsTypes ==
  ASSUME TypeInv, BeginEpoch \/ Reap \/ NameRuntime \/ StartFails \/ Connected
  PROVE  TypeInv'
<1> USE DEF TypeInv, RowsOK, RuntimeOK, MemoryOK
<1>0. run.epoch \in Nat BY EpochsOfCommits
<1>1. CASE BeginEpoch
  <2>1. CASE g.cancel
    <3>1. Goto("cancelled") BY <1>1, <2>1 DEF BeginEpoch
    <3>2. g' \in Memories /\ g'.pc = "cancelled" /\ g'.command = g.command
      BY <3>1, GotoMemory DEF Runner
    <3> QED BY <1>1, <2>1, <3>2 DEF BeginEpoch, Commands
  <2>2. CASE ~g.cancel
    <3>1. g' = [g EXCEPT !.pc = "reap", !.doc = source, !.dead = FALSE,
                       !.selected = Selection(g.from)]
      BY <1>1, <2>2 DEF BeginEpoch
    <3>3. g' \in Memories /\ g'.pc = "reap" /\ g'.command = g.command
      BY <3>1, EpochMemory
    <3>4. run' \in Runs /\ run'.epoch = run.epoch + 1
      BY <1>1, <2>2, BeginKernelEpochRow, EpochsOfCommits DEF BeginEpoch
    <3>5. cells' \in CellTable
      <4>1. ReplaceCellsForRestart(source, run.epoch + 1, 0) \in CellTable
        BY <1>0, ReplaceRows, CellsAreNaturals
      <4> QED BY <1>1, <2>2, <4>1, UpdateSourceRows DEF BeginEpoch
    <3>6. /\ kernel' \in Kernels /\ wire' \in Seq(Messages)
          /\ ran' \in [code: Notebooks, outdated: SUBSET Cells]
      BY <1>1, <2>2, BlankValues, EmptySeq DEF BeginEpoch
    <3>7. UNCHANGED <<actions, source, identity, alive, queue, unnamed, used>>
      BY <1>1 DEF BeginEpoch
    <3>8. identity \in 0 .. run'.epoch /\ alive \subseteq 1 .. run'.epoch
            /\ unnamed \subseteq 1 .. run'.epoch /\ run'.epoch # 0
      BY <1>0, <3>4
    <3>9. g.pc = "begin" BY <1>1 DEF BeginEpoch
    <3> QED BY <3>3, <3>4, <3>5, <3>6, <3>7, <3>8, <3>9 DEF Commands
  <2> QED BY <2>1, <2>2
<1>2. CASE Reap
  <2>1. Goto("spawned") /\ g.pc = "reap" BY <1>2 DEF Reap
  <2>2. "spawned" \in Runner BY DEF Runner, Startup
  <2>3. g' \in Memories /\ g'.pc = "spawned" /\ g'.command = g.command
    BY <2>1, <2>2, GotoMemory
  <2>4. identity' \in 0 .. run.epoch /\ run.epoch \in 1 .. run.epoch
    BY <1>0, <1>2, <2>1 DEF Reap
  <2>6. alive' \subseteq 1 .. run.epoch BY <1>2, <2>4 DEF Reap
  <2>5. UNCHANGED <<rows, source, kernel, wire, ran, queue, unnamed, used>>
    BY <1>2 DEF Reap
  <2> QED BY <1>0, <2>1, <2>3, <2>4, <2>5, <2>6 DEF rows, Commands
<1>3. CASE NameRuntime
  <2>1. g' \in Memories /\ g'.pc = "connect" /\ g'.command = g.command
    BY <1>3, GotoMemory DEF NameRuntime, Runner, Startup
  <2> QED BY <1>0, <1>3, <2>1 DEF NameRuntime, rows, Commands
<1>4. CASE StartFails
  <2>1. g' \in Memories /\ g'.pc = "closing" /\ g'.command = g.command
    BY <1>4, LeaveMemory DEF StartFails, Outcomes
  <2>2. used' \in Counters BY <1>4, CountedFault DEF StartFails
  <2> QED BY <1>4, <2>1, <2>2 DEF StartFails, rows, runtime, Commands
<1>5. CASE Connected
  <2>1. CASE g.cancel
    <3>1. g' \in Memories /\ g'.pc = "closing" /\ g'.command = g.command
      BY <1>5, <2>1, LeaveMemory DEF Connected, Outcomes
    <3> QED BY <1>5, <2>1, <3>1 DEF Connected, Commands
  <2>2. CASE ~g.cancel
    <3>1. g.doc \in Notebooks /\ BeginBatch(g.selected, g.doc)
      BY <1>5, <2>2 DEF Connected, Memories
    <3>2. /\ g' \in Memories /\ g'.pc = "batch" /\ g'.command = 0
          /\ run' \in Runs /\ run'.epoch = run.epoch
      BY <3>1, BatchMemory
    <3>3. kernel' \in Kernels
      <4>1. g.selected \in SUBSET Cells BY DEF Memories
      <4>2. kernel' = [kernel EXCEPT !.batch = g.selected] BY <1>5, <2>2 DEF Connected
      <4> QED BY <4>1, <4>2 DEF Kernels
    <3>4. UNCHANGED <<cells, actions, source, identity, alive, wire, ran, queue, unnamed, used>>
      BY <1>5 DEF Connected
    <3>5. 0 \in Commands /\ Commands' = Commands BY <3>4 DEF Commands
    <3> QED BY <3>2, <3>3, <3>4, <3>5
  <2> QED BY <2>1, <2>2
<1> QED BY <1>1, <1>2, <1>3, <1>4, <1>5

LEMMA BatchKeepsTypes ==
  ASSUME TypeInv, BatchEnds \/ BatchIsLost \/ InventoryRead \/ InventoryFails
                  \/ BatchSettled \/ GraphPaused \/ CheckpointFails
  PROVE  TypeInv'
<1> USE DEF TypeInv, RowsOK, RuntimeOK, MemoryOK
<1>1. CASE BatchEnds
  <2>1. g' \in Memories /\ g'.pc = "inventory" /\ g'.command = g.command
    BY <1>1, GotoMemory DEF BatchEnds, Runner
  <2> QED BY <1>1, <2>1 DEF BatchEnds, rows, runtime, Commands
<1>2. CASE BatchIsLost \/ InventoryFails
  <2>0. GiveUpBatch /\ g.pc \in {"batch", "inventory"} BY <1>2 DEF BatchIsLost, InventoryFails
  <2>1. g' \in Memories /\ g'.pc = "settled" /\ g'.command = g.command
    BY <2>0 DEF GiveUpBatch, Memories, Runner
  <2>2. cells' \in CellTable BY <2>0, InterruptActiveRows DEF GiveUpBatch
  <2>3. kernel' \in Kernels /\ alive' \subseteq alive
    BY <2>0, DyingKernel DEF GiveUpBatch, Dies
  <2>4. used' \in Counters BY <1>2, CountedFault DEF BatchIsLost, InventoryFails
  <2> QED BY <2>0, <2>1, <2>2, <2>3, <2>4 DEF GiveUpBatch, Commands
<1>6. CASE InventoryRead
  <2>1. g' \in Memories /\ g'.pc = "settled" /\ g'.command = g.command
    BY <1>6 DEF InventoryRead, Memories, Runner
  <2>2. cells' \in CellTable BY <1>6, ReconcileRows DEF InventoryRead
  <2> QED BY <1>6, <2>1, <2>2 DEF InventoryRead, runtime, Commands
<1>3. CASE BatchSettled
  <2>1. /\ g' \in Memories /\ g'.pc \in {"closing", "pausing"} /\ g'.command = g.command
        /\ run' \in Runs /\ run'.epoch = run.epoch
    <3>1. CASE Leave("cancel") \/ Leave("complete")
      <4>1. run' = run
        BY <1>3, <3>1 DEF BatchSettled, Leave, Goto, Memories
      <4> QED BY <3>1, <4>1, LeaveMemory DEF Outcomes
    <3>2. CASE Goto("pausing") /\
               run' = PauseFailedRun(run, Primary, IF Primary = NoCell THEN NoAttempt
                                                   ELSE cells[Primary].attempt)
      <4> DEFINE n == IF Primary = NoCell THEN NoAttempt ELSE cells[Primary].attempt
      <4>1. Primary \in Cells \cup {NoCell}
        BY PrimaryIsFailed DEF Memories, Failed
      <4>2. n \in Nat BY <4>1 DEF CellTable, CellRows, NoAttempt
      <4>5. run' = PauseFailedRun(run, Primary, n) BY <3>2
      <4> HIDE DEF n
      <4>6. run \in Runs OBVIOUS
      <4>7. PauseFailedRun(run, Primary, n) \in Runs
               /\ PauseFailedRun(run, Primary, n).epoch = run.epoch
        BY ONLY <4>1, <4>2, <4>6, PauseGraphRow
      <4>3. run' \in Runs /\ run'.epoch = run.epoch BY <4>5, <4>7
      <4>4. "pausing" \in Runner BY DEF Runner
      <4> QED BY <3>2, <4>3, <4>4, GotoMemory
    <3> QED BY <1>3, <3>1, <3>2 DEF BatchSettled
  <2> QED BY <1>3, <2>1 DEF BatchSettled, runtime, Commands
<1>4. CASE GraphPaused
  <2>1. g' \in Memories /\ g'.pc = "recover" /\ g'.command = g.command
    BY <1>4 DEF GraphPaused, Memories, Runner
  <2> QED BY <1>4, <2>1 DEF GraphPaused, rows, runtime, Commands
<1>5. CASE CheckpointFails
  <2>1. g' \in Memories /\ g'.pc = "closing" /\ g'.command = g.command
    BY <1>5, LeaveMemory DEF CheckpointFails, Outcomes
  <2>2. used' \in Counters BY <1>5, CountedFault DEF CheckpointFails
  <2> QED BY <1>5, <2>1, <2>2 DEF CheckpointFails, rows, runtime, Commands
<1> QED BY <1>1, <1>2, <1>3, <1>4, <1>5, <1>6

\* What a step that leaves the runner's memory, or its place, has to show.
LEMMA AnsweredKeepsTypes ==
  ASSUME TypeInv, NEW i, NEW status \in ActionStatus,
         actions' = FinishAction(actions, i, status)
  PROVE  /\ actions' \in Seq(GraphActions)
         /\ Commands' = Commands /\ queue \in Seq(Commands')
<1>1. actions' \in Seq(GraphActions) /\ Len(actions') = Len(actions)
  BY FinishGraphAction DEF TypeInv, RowsOK
<1>2. Commands' = Commands BY <1>1 DEF Commands, ActionIds
<1> QED BY <1>1, <1>2 DEF TypeInv, MemoryOK

LEMMA DispatchKeepsTypes ==
  ASSUME TypeInv, Dispatch
  PROVE  TypeInv'
<1>1. PICK i \in ActionIds(actions) :
        \/ actions' = FinishAction(actions, i, "rejected") /\ UNCHANGED queue
        \/ actions' = ClaimAction(actions, i) /\ queue' = Append(queue, i)
  BY DEF Dispatch
<1>2. actions' \in Seq(GraphActions) /\ Len(actions') = Len(actions)
  BY <1>1, FinishGraphAction, ClaimGraphAction DEF TypeInv, RowsOK, ActionStatus
<1>3. Commands' = Commands BY <1>2 DEF Commands, ActionIds
<1>4. queue' \in Seq(Commands')
  <2>1. queue \in Seq(Commands) /\ i \in Commands BY DEF TypeInv, MemoryOK, Commands
  <2> QED BY <1>1, <1>3, <2>1, AppendProperties
<1> QED BY <1>2, <1>3, <1>4 DEF Dispatch, TypeInv, RowsOK, RuntimeOK, MemoryOK, runtime

LEMMA RequestKeepsTypes ==
  ASSUME TypeInv, NEW kind \in RecoveryKind, NEW from \in Cells \cup {NoCell},
         RequestRecovery(kind, from)
  PROVE  TypeInv'
<1>1. NewAction(kind, run, source, from) \in GraphActions
  BY NewGraphActionRow DEF TypeInv, RowsOK, RuntimeOK
<1>2. actions' = Append(actions, NewAction(kind, run, source, from))
  BY DEF RequestRecovery
<1>3. actions' \in Seq(GraphActions) /\ Len(actions') = Len(actions) + 1
  BY <1>1, <1>2, AppendProperties DEF TypeInv, RowsOK
<1>4. Len(actions) \in Nat BY LenProperties DEF TypeInv, RowsOK
<1>5. Commands \subseteq Commands' /\ queue \in Seq(Commands')
  BY <1>3, <1>4, CommandsStay
<1> QED BY <1>3, <1>5 DEF RequestRecovery, TypeInv, RowsOK, RuntimeOK, MemoryOK, runtime

LEMMA TakeCommandKeepsTypes ==
  ASSUME TypeInv, TakeCommand
  PROVE  TypeInv'
<1> DEFINE i == Head(queue)
<1>1. i \in Commands /\ queue' \in Seq(Commands)
  <2>1. queue \in Seq(Commands) /\ queue # <<>> /\ queue' = Tail(queue)
    BY DEF TypeInv, MemoryOK, TakeCommand
  <2> QED BY <2>1, HeadTailProperties
<1>2. Commands \subseteq Nat BY CommandsStay DEF TypeInv, RowsOK, Commands, ActionIds
<1>3. g.pc = "recover" /\ g \in Memories /\ g.command = 0
  BY DEF TakeCommand, TypeInv, MemoryOK
<1>4. /\ actions' \in Seq(GraphActions) /\ Commands' = Commands
      /\ g' \in Memories /\ g'.command \in Commands
      /\ g'.pc \notin {"reap", "spawned"}
      /\ g'.pc \in {"reading", "repairing"} <=> g'.command # 0
  <2>1. CASE Leave("cancel") /\ UNCHANGED actions
    BY <2>1, <1>3, LeaveMemory DEF Outcomes, TypeInv, RowsOK, MemoryOK, Commands
  <2>2. CASE actions' = FinishAction(actions, i, "rejected") /\ UNCHANGED g
    <3>1. "rejected" \in ActionStatus BY DEF ActionStatus
    <3> QED BY <2>2, <1>3, <3>1, AnsweredKeepsTypes DEF TypeInv, MemoryOK
  <2>3. CASE i # 0 /\ g' = [g EXCEPT !.pc = "reading", !.command = i] /\ UNCHANGED actions
    <3> HIDE DEF i
    <3>1. g' \in Memories /\ g'.command = i /\ g'.pc = "reading"
      BY <2>3, <1>1, <1>2, <1>3 DEF Memories, Runner
    <3> QED BY <2>3, <1>1, <3>1 DEF TypeInv, RowsOK, Commands
  <2> QED BY <2>1, <2>2, <2>3 DEF TakeCommand
<1>5. UNCHANGED <<run, cells, source, runtime, used>> BY DEF TakeCommand
<1> QED BY <1>1, <1>4, <1>5 DEF TypeInv, RowsOK, RuntimeOK, MemoryOK, runtime

LEMMA SourceReadKeepsTypes ==
  ASSUME TypeInv, SourceRead
  PROVE  TypeInv'
<1>1. g.command \in Commands /\ g.command # 0 /\ g \in Memories /\ source \in Notebooks
  BY DEF SourceRead, TypeInv, MemoryOK, RuntimeOK
<1>2. actions[g.command].from \in Cells \cup {NoCell}
  BY <1>1, HeldAction DEF GraphActions
<1>3. /\ actions' \in Seq(GraphActions) /\ Commands' = Commands
      /\ g' \in Memories /\ g'.command \in Commands
      /\ g'.pc \notin {"reap", "spawned"}
      /\ g'.pc \in {"reading", "repairing"} <=> g'.command # 0
  <2>0. 0 \in Commands BY DEF Commands
  <2>1. CASE /\ actions' = FinishAction(actions, g.command, "completed")
             /\ g' = [g EXCEPT !.pc = "closing", !.next = "restart", !.command = 0,
                              !.from = actions[g.command].from, !.paused = FALSE]
    <3>1. "completed" \in ActionStatus BY DEF ActionStatus
    <3>2. g' \in Memories /\ g'.pc = "closing" /\ g'.command = 0
      BY <1>1, <1>2, <2>1 DEF Memories, Runner, Outcomes
    <3> QED BY <2>0, <2>1, <3>1, <3>2, AnsweredKeepsTypes
  <2>2. CASE g' = [g EXCEPT !.pc = "repairing", !.fresh = source] /\ UNCHANGED actions
    <3>1. g' \in Memories /\ g'.pc = "repairing" /\ g'.command = g.command
      BY <1>1, <2>2 DEF Memories, Runner
    <3> QED BY <1>1, <2>2, <3>1 DEF TypeInv, RowsOK, Commands
  <2>3. CASE Rejects(g.command)
    <3>1. "rejected" \in ActionStatus BY DEF ActionStatus
    <3>2. g' \in Memories /\ g'.pc = "recover" /\ g'.command = 0
      BY <1>1, <2>3 DEF Rejects, Memories, Runner
    <3> QED BY <2>0, <2>3, <3>1, <3>2, AnsweredKeepsTypes DEF Rejects
  <2> QED BY <2>1, <2>2, <2>3 DEF SourceRead
<1>4. UNCHANGED <<run, cells, source, runtime, queue, used>> BY DEF SourceRead
<1> QED BY <1>3, <1>4 DEF TypeInv, RowsOK, RuntimeOK, MemoryOK, runtime

\* The repaired kernel, the rows it tells of, and what is executed again.
EditedCells == {c \in Cells : g.fresh[c] # g.doc[c]}
RepairedKernel ==
  [kernel EXCEPT !.code = g.fresh,
                 !.state = [c \in Cells |->
                    IF c \in DescendantsOf(EditedCells) /\ kernel.state[c] # "none"
                    THEN "stale" ELSE kernel.state[c]]]
Targets == {c \in g.selected : cells'[c].status \in Unsuccessful \cup {"pending"}}

LEMMA RepairedFacts ==
  ASSUME TypeInv, Repaired
  PROVE  /\ g.pc = "repairing" /\ Alive /\ wire = <<>>
         /\ actions' = FinishAction(actions, g.command, "completed")
         /\ cells' = UpdateSource(Reconcile(cells, RepairedKernel), g.fresh)
         /\ \/ /\ g' = [g EXCEPT !.pc = "closing", !.next = "cancel", !.command = 0,
                                 !.doc = g.fresh, !.hung = FALSE, !.paused = FALSE]
               /\ g.cancel /\ kernel' = RepairedKernel /\ UNCHANGED run
            \/ /\ ~g.cancel /\ BeginBatch(Targets, g.fresh)
               /\ kernel' = [RepairedKernel EXCEPT !.batch = Targets]
         /\ UNCHANGED <<source, identity, alive, wire, ran, queue, unnamed, used>>
  BY DEF Repaired, EditedCells, RepairedKernel, Targets

LEMMA RepairedKernelIsKernel ==
  ASSUME TypeInv
  PROVE  RepairedKernel \in Kernels /\ RepairedKernel.code = g.fresh
         /\ RepairedKernel.batch = kernel.batch /\ RepairedKernel.on = kernel.on
<1>1. kernel \in Kernels /\ g.fresh \in Notebooks
  BY DEF TypeInv, RuntimeOK, MemoryOK, Memories
<1> QED BY <1>1 DEF RepairedKernel, Kernels, CellState

LEMMA RepairKeepsTypes ==
  ASSUME TypeInv, Repaired \/ RepairFails
  PROVE  TypeInv'
<1>0. /\ g \in Memories /\ cells \in CellTable /\ run \in Runs /\ 0 \in Commands
      /\ g.fresh \in Notebooks /\ g.selected \in SUBSET Cells
  BY DEF TypeInv, RowsOK, MemoryOK, Memories, Commands
<1>a. {"completed", "rejected"} \subseteq ActionStatus BY DEF ActionStatus
<1>1. CASE Repaired
  <2>1. cells' \in CellTable
    BY <1>0, <1>1, RepairedFacts, RepairedKernelIsKernel, ReconcileRows, UpdateSourceFields
  <2>2. /\ g' \in Memories /\ g'.pc \in {"closing", "batch"} /\ g'.command = 0
        /\ run' \in Runs /\ run'.epoch = run.epoch /\ kernel' \in Kernels
    <3>1. CASE /\ g' = [g EXCEPT !.pc = "closing", !.next = "cancel", !.command = 0,
                                !.doc = g.fresh, !.hung = FALSE, !.paused = FALSE]
               /\ kernel' = RepairedKernel /\ UNCHANGED run
      <4>1. g' \in Memories /\ g'.pc = "closing" /\ g'.command = 0
        BY <1>0, <3>1 DEF Memories, Runner, Outcomes
      <4> QED BY <1>0, <3>1, <4>1, RepairedKernelIsKernel
    <3>2. CASE BeginBatch(Targets, g.fresh) /\ kernel' = [RepairedKernel EXCEPT !.batch = Targets]
      <4>1. Targets \in SUBSET Cells BY <1>0 DEF Targets
      <4>2. kernel' \in Kernels BY <3>2, <4>1, RepairedKernelIsKernel DEF Kernels
      <4> QED BY <1>0, <3>2, <4>2, BatchMemory
    <3> QED BY <1>1, <3>1, <3>2, RepairedFacts
  <2>3. actions' \in Seq(GraphActions) /\ Commands' = Commands /\ queue \in Seq(Commands')
    BY <1>a, <1>1, RepairedFacts, AnsweredKeepsTypes
  <2>4. UNCHANGED <<source, identity, alive, wire, ran, queue, unnamed, used>>
    BY <1>1, RepairedFacts
  <2> QED BY <1>0, <2>1, <2>2, <2>3, <2>4 DEF TypeInv, RowsOK, RuntimeOK, MemoryOK
<1>2. CASE RepairFails
  <2>1. g' \in Memories /\ g'.pc = "recover" /\ g'.command = 0
    BY <1>0, <1>2 DEF RepairFails, Memories, Runner
  <2>2. actions' \in Seq(GraphActions) /\ Commands' = Commands /\ queue \in Seq(Commands')
    BY <1>a, <1>2, AnsweredKeepsTypes DEF RepairFails
  <2>3. kernel' \in Kernels /\ alive' \subseteq alive
    BY <1>2, DyingKernel DEF RepairFails, Dies, TypeInv, RuntimeOK
  <2>4. used' \in Counters
    BY <1>2, CountedFault DEF RepairFails, TypeInv, MemoryOK
  <2>5. UNCHANGED <<run, cells, source, identity, wire, ran, queue, unnamed>>
    BY <1>2 DEF RepairFails
  <2> QED BY <1>0, <2>1, <2>2, <2>3, <2>4, <2>5 DEF TypeInv, RowsOK, RuntimeOK, MemoryOK
<1> QED BY <1>1, <1>2

\* The steps that interrupt, cancel and end what the runner does.
LEMMA EscalationKeepsTypes ==
  ASSUME TypeInv,
         \/ \E c \in Cells : TimeOut(c)
         \/ Cancel \/ RequestHangs \/ EscalateInterrupt \/ EscalateKill
  PROVE  TypeInv'
<1>0. g \in Memories /\ kernel \in Kernels /\ run \in Runs /\ queue \in Seq(Commands)
  BY DEF TypeInv, RowsOK, MemoryOK, RuntimeOK
<1>1. ASSUME NEW c \in Cells, TimeOut(c) PROVE TypeInv'
  <2>1. g' \in Memories /\ g'.pc = g.pc /\ g'.command = g.command
    BY <1>0, <1>1 DEF TimeOut, Memories
  <2>2. kernel' \in Kernels BY <1>0, <1>1 DEF TimeOut, Kernels
  <2>3. used' \in Counters BY <1>1, CountedFault DEF TimeOut, TypeInv, MemoryOK
  <2>4. UNCHANGED <<rows, source, identity, alive, wire, ran, queue, unnamed>>
    BY <1>1 DEF TimeOut
  <2> QED BY <2>1, <2>2, <2>3, <2>4 DEF TypeInv, RowsOK, RuntimeOK, MemoryOK, rows, Commands
<1>2. CASE Cancel
  <2>1. g' \in Memories /\ g'.pc = g.pc /\ g'.command = g.command
    BY <1>0, <1>2 DEF Cancel, Memories
  <2>2. run' \in Runs /\ run'.epoch = run.epoch
    <3>1. RequestRunCancellation(run, 1) \in Runs BY <1>0, RequestRunCancellationRow
    <3> QED BY <1>0, <1>2, <3>1, EpochsOfCommits DEF Cancel
  <2>3. queue' \in Seq(Commands)
    <3>1. Append(queue, 0) \in Seq(Commands) BY <1>0, AppendProperties DEF Commands
    <3> QED BY <1>0, <1>2, <3>1 DEF Cancel
  <2>4. UNCHANGED <<cells, actions, source, runtime, used>> BY <1>2 DEF Cancel
  <2> QED BY <2>1, <2>2, <2>3, <2>4 DEF TypeInv, RowsOK, RuntimeOK, MemoryOK, runtime, Commands
<1>3. CASE EscalateInterrupt
  <2>1. kernel' \in Kernels BY <1>0, <1>3 DEF EscalateInterrupt, Kernels
  <2>2. UNCHANGED <<rows, source, identity, alive, wire, ran, g, queue, unnamed, used>>
    BY <1>3 DEF EscalateInterrupt
  <2> QED BY <2>1, <2>2 DEF TypeInv, RowsOK, RuntimeOK, MemoryOK, rows, Commands
<1>4. CASE EscalateKill
  <2>1. g' \in Memories /\ g'.pc = g.pc /\ g'.command = g.command
    BY <1>0, <1>4 DEF EscalateKill, Memories
  <2>2. kernel' \in Kernels /\ alive' \subseteq alive
    BY <1>0, <1>4, DyingKernel DEF EscalateKill, Dies
  <2>3. UNCHANGED <<rows, source, identity, wire, ran, queue, unnamed, used>>
    BY <1>4 DEF EscalateKill
  <2> QED BY <2>1, <2>2, <2>3 DEF TypeInv, RowsOK, RuntimeOK, MemoryOK, rows, Commands
<1>5. CASE RequestHangs
  <2>1. g' \in Memories /\ g'.pc = g.pc /\ g'.command = g.command
    BY <1>0, <1>5 DEF RequestHangs, Memories
  <2>2. used' \in Counters BY <1>5, CountedFault DEF RequestHangs, TypeInv, MemoryOK
  <2>3. UNCHANGED <<rows, source, runtime, queue>> BY <1>5 DEF RequestHangs
  <2> QED BY <2>1, <2>2, <2>3 DEF TypeInv, RowsOK, RuntimeOK, MemoryOK, rows, runtime, Commands
<1> QED BY <1>1, <1>2, <1>3, <1>4, <1>5

LEMMA NothingHeard ==
  ASSUME TypeInv, Unheard
  PROVE  kernel' \in Kernels /\ wire' \in Seq(Messages) /\ kernel'.batch = {} /\ wire' = <<>>
  BY BlankValues, EmptySeq DEF Unheard, NoKernel

LEMMA ClosingKeepsTypes ==
  ASSUME TypeInv, ReaderStops \/ SessionClosed \/ Finish
  PROVE  TypeInv'
<1>0. /\ g \in Memories /\ run \in Runs /\ run.epoch \in Nat /\ identity \in 0 .. run.epoch
      /\ alive \subseteq 1 .. run.epoch
  BY EpochsOfCommits DEF TypeInv, RowsOK, MemoryOK, RuntimeOK
<1>1. CASE ReaderStops
  <2>1. g' \in Memories /\ g'.pc = "killing" /\ g'.command = g.command
    BY <1>0, <1>1, GotoMemory DEF ReaderStops, Runner
  <2>2. kernel' \in Kernels /\ wire' \in Seq(Messages)
    BY <1>1, NothingHeard DEF ReaderStops
  <2>3. g.pc = "closing" /\ UNCHANGED <<rows, source, identity, alive, ran, queue, unnamed, used>>
    BY <1>1 DEF ReaderStops
  <2> QED BY <2>1, <2>2, <2>3 DEF TypeInv, RowsOK, RuntimeOK, MemoryOK, rows, Commands
<1>2. CASE SessionClosed
  <2>1. AfterClose[g.next] \in Runner /\ AfterClose[g.next] \in {"begin", "final", "cancelled", "over"}
    BY <1>0 DEF Memories, Outcomes, AfterClose, Runner, Startup
  <2>2. Goto(AfterClose[g.next]) BY <1>2 DEF SessionClosed
  <2>3. g' \in Memories /\ g'.pc = AfterClose[g.next] /\ g'.command = g.command
    BY <1>0, <2>1, <2>2, GotoMemory
  <2>4. run' \in Runs /\ run'.epoch = run.epoch
    <3>1. FinishRun(run, "failed", "run.runner_error") \in Runs
      BY <1>0, FinishRunRow, EventsOfStatus DEF TerminalStatus
    <3> QED BY <1>0, <1>2, <3>1, EpochsOfCommits DEF SessionClosed
  <2>5. alive' \subseteq alive /\ identity' = 0 BY <1>2 DEF SessionClosed
  <2>6. /\ g.pc = "killing"
        /\ UNCHANGED <<cells, actions, source, kernel, wire, ran, queue, unnamed, used>>
    BY <1>2 DEF SessionClosed
  <2>7. identity' \in 0 .. run'.epoch /\ alive' \subseteq 1 .. run'.epoch
    BY <1>0, <2>4, <2>5
  <2> QED BY <2>1, <2>3, <2>4, <2>6, <2>7 DEF TypeInv, RowsOK, RuntimeOK, MemoryOK, Commands
<1>3. CASE Finish
  <2>1. g' \in Memories /\ g'.pc \in {"cancelled", "over"} /\ g'.command = g.command
    <3>1. {"cancelled", "over"} \subseteq Runner BY DEF Runner
    <3> QED BY <1>0, <1>3, <3>1, GotoMemory DEF Finish
  <2>2. run' \in Runs /\ run'.epoch = run.epoch
    <3>1. FinishRun(run, "succeeded", "run.succeeded") \in Runs
      BY <1>0, FinishRunRow, EventsOfStatus DEF TerminalStatus
    <3>2. FinishRun(run, "cancelled", "run.cancelled") \in Runs
      BY <1>0, FinishRunRow, EventsOfStatus DEF TerminalStatus
    <3> QED BY <1>0, <1>3, <3>1, <3>2, EpochsOfCommits DEF Finish
  <2>3. g.pc \in {"final", "cancelled"} /\ UNCHANGED <<cells, actions, source, runtime, queue, used>>
    BY <1>3 DEF Finish
  <2> QED BY <2>1, <2>2, <2>3 DEF TypeInv, RowsOK, RuntimeOK, MemoryOK, runtime, Commands
<1> QED BY <1>1, <1>2, <1>3

\* The steps that a process begins or ends with, and the user's edits.
LEMMA ProcessKeepsTypes ==
  ASSUME TypeInv,
         \/ \E from \in Starts : Open(from)
         \/ \E c \in Edited : Edit(c)
         \/ Quiesce \/ Crash
  PROVE  TypeInv'
<1>0. /\ g \in Memories /\ run \in Runs /\ run.epoch \in Nat /\ identity \in 0 .. run.epoch
      /\ alive \subseteq 1 .. run.epoch /\ unnamed \subseteq 1 .. run.epoch /\ used \in Counters
  BY EpochsOfCommits DEF TypeInv, RowsOK, MemoryOK, RuntimeOK
<1>1. ASSUME NEW from \in Starts, Open(from) PROVE TypeInv'
  <2>0. from \in Cells \cup {NoCell} BY StartsAreCells
  <2>1. g' \in Memories /\ g'.pc \in {"cancelled", "begin"} /\ g'.command = 0
    <3>1. CASE g' = [Stopped EXCEPT !.pc = "cancelled", !.cancel = TRUE]
      BY <3>1, BlankValues DEF Memories, Runner
    <3>2. CASE g' = [Stopped EXCEPT !.pc = "begin", !.from = from]
      BY <3>2, <2>0, BlankValues DEF Memories, Runner, Startup
    <3> QED BY <1>1, <3>1, <3>2 DEF Open
  <2>2. run' \in Runs /\ run'.epoch = run.epoch
    <3>1. UpdateRunStatus(run, "starting") \in Runs BY <1>0, UpdateRunStatusRow DEF RunStatus
    <3> QED BY <1>0, <1>1, <3>1, EpochsOfCommits DEF Open
  <2>3. actions' \in Seq(GraphActions) /\ Len(actions') = Len(actions)
    <3>1. actions \in Seq(GraphActions) BY DEF TypeInv, RowsOK
    <3>2. actions' = RecoverIncompleteActions(actions) BY <1>1 DEF Open
    <3> QED BY <3>1, <3>2, RecoverGraphActions
  <2>4. used' \in Counters
    <3>1. used' = [used EXCEPT !.processes = @ + 1] BY <1>1 DEF Open
    <3> QED BY <1>0, <3>1 DEF Counters
  <2>5. Commands' = Commands BY <2>3 DEF Commands, ActionIds
  <2>6. UNCHANGED <<cells, source, runtime, queue>> BY <1>1 DEF Open
  <2>7. 0 \in Commands BY DEF Commands
  <2> QED BY <2>1, <2>2, <2>3, <2>4, <2>5, <2>6, <2>7
          DEF TypeInv, RowsOK, RuntimeOK, MemoryOK, runtime
<1>2. ASSUME NEW c \in Edited, Edit(c) PROVE TypeInv'
  <2>1. used.edits + 1 \in Nat /\ used' \in Counters BY <1>0, <1>2 DEF Edit, Counters
  <2>3. source \in Notebooks BY DEF TypeInv, RuntimeOK
  <2>4. source' \in Notebooks BY <1>2, <2>1, <2>3 DEF Edit, Notebooks
  <2>2. UNCHANGED <<rows, runtime, g, queue>> BY <1>2 DEF Edit
  <2> QED BY <2>1, <2>2, <2>4 DEF TypeInv, RowsOK, RuntimeOK, MemoryOK, rows, runtime, Commands
<1>3. ASSUME Quiesce \/ Crash PROVE TypeInv'
  <2>1. g' \in Memories /\ g'.pc = "down" /\ g'.command = 0
    BY <1>3, BlankValues DEF Quiesce, Crash
  <2>2. /\ kernel' \in Kernels /\ wire' \in Seq(Messages) /\ queue' \in Seq(Commands)
        /\ ran' \in [code: Notebooks, outdated: SUBSET Cells]
    BY <1>3, NothingHeard, BlankValues, EmptySeq DEF Quiesce, Crash
  <2>3. run' \in Runs /\ run'.epoch = run.epoch
    <3>1. UpdateRunStatus(run, "paused") \in Runs BY <1>0, UpdateRunStatusRow DEF RunStatus
    <3> QED BY <1>0, <1>3, <3>1, EpochsOfCommits DEF Quiesce, Crash, rows
  <2>4. used' \in Counters BY <1>0, <1>3, CountedFault DEF Quiesce, Crash
  <2>5. UNCHANGED <<cells, actions, source>> BY <1>3 DEF Quiesce, Crash, rows
  <2>6. /\ identity' \in 0 .. run.epoch /\ alive' \subseteq 1 .. run.epoch
        /\ unnamed' \subseteq 1 .. run.epoch
    <3>1. CASE Quiesce
      <4>1. identity' \in {0, identity} /\ alive' \subseteq alive /\ unnamed' = unnamed
        BY <3>1 DEF Quiesce
      <4> QED BY <1>0, <4>1
    <3>2. CASE Crash
      <4>1. g.pc = "spawned" => run.epoch \in 1 .. run.epoch BY <1>0 DEF TypeInv
      <4> QED BY <1>0, <3>2, <4>1 DEF Crash
    <3> QED BY <1>3, <3>1, <3>2
  <2>7. 0 \in Commands /\ Commands' = Commands BY <2>5 DEF Commands
  <2> QED BY <2>1, <2>2, <2>3, <2>4, <2>5, <2>6, <2>7 DEF TypeInv, RowsOK, RuntimeOK, MemoryOK
<1> QED BY <1>1, <1>2, <1>3

\* The disjuncts of Next in the groups that the lemmas of this module have.
LEMMA StepsOfNext ==
  ASSUME [Next]_vars
  PROVE  \/ Runtime \/ Read
         \/ BeginEpoch \/ Reap \/ NameRuntime \/ StartFails \/ Connected
         \/ BatchEnds \/ BatchIsLost \/ InventoryRead \/ InventoryFails
         \/ BatchSettled \/ GraphPaused \/ CheckpointFails
         \/ TakeCommand \/ SourceRead \/ Repaired \/ RepairFails
         \/ ReaderStops \/ SessionClosed \/ Finish \/ Dispatch
         \/ \E kind \in RecoveryKind, from \in Cells \cup {NoCell} : RequestRecovery(kind, from)
         \/ (\E from \in Starts : Open(from)) \/ (\E c \in Edited : Edit(c)) \/ Quiesce \/ Crash
         \/ (\E c \in Cells : TimeOut(c)) \/ Cancel \/ RequestHangs \/ EscalateInterrupt \/ EscalateKill
         \/ UNCHANGED vars
<1>1. CASE Operator
  <2>1. "resume" \in RecoveryKind /\ "restart" \in RecoveryKind BY DEF RecoveryKind
  <2>2. Starts \subseteq Cells \cup {NoCell} BY StartsAreCells
  <2> QED BY <1>1, <2>1, <2>2 DEF Operator
<1>2. CASE Graph BY <1>2 DEF Graph
<1> QED BY <1>1, <1>2 DEF Next

LEMMA NextKeepsTypes == TypeInv /\ [Next]_vars => TypeInv'
<1> SUFFICES ASSUME TypeInv, [Next]_vars PROVE TypeInv' OBVIOUS
<1>1. CASE UNCHANGED vars
  BY <1>1 DEF vars, rows, runtime, TypeInv, RowsOK, RuntimeOK, MemoryOK, Commands
<1> QED
  BY <1>1, StepsOfNext, KernelKeepsTypes, ReadKeepsTypes, EpochKeepsTypes, BatchKeepsTypes,
     TakeCommandKeepsTypes, SourceReadKeepsTypes, RepairKeepsTypes, ClosingKeepsTypes,
     DispatchKeepsTypes, RequestKeepsTypes, ProcessKeepsTypes, EscalationKeepsTypes

LEMMA TypeInvHolds == Spec => []TypeInv
  BY InitTypeInv, NextKeepsTypes, PTL DEF Spec

\* Every variable has its type, and a command is held exactly while it is being
\* applied.
THEOREM TypeCorrect == Spec => []TypeOK
  BY TypeInvHolds, TypeInvImpliesTypeOK, PTL

-----------------------------------------------------------------------------
(* One runtime. *)

\* A step that stays where it is in the life of a session, or goes on in it.
LEMMA SessionKeepsRuntimes ==
  ASSUME RuntimesInv, alive' \subseteq alive, UNCHANGED <<identity, unnamed>>,
         \/ g'.pc = g.pc /\ g'.selected = g.selected /\ run'.epoch = run.epoch
         \/ g.pc # "spawned"
            /\ g'.pc \notin {"spawned", "begin", "final", "cancelled", "over"}
  PROVE  RuntimesInv'
  BY DEF RuntimesInv, Named

\* The places that the steps of a session lead to.
LEMMA SessionSteps ==
  ASSUME TypeInv,
         \/ StartFails \/ Connected
         \/ BatchEnds \/ BatchIsLost \/ InventoryRead \/ InventoryFails
         \/ BatchSettled \/ GraphPaused \/ CheckpointFails
         \/ TakeCommand \/ SourceRead \/ Repaired \/ RepairFails \/ ReaderStops
  PROVE  /\ g.pc \notin {"down", "spawned", "begin", "killing", "final", "cancelled", "over"}
         /\ g'.pc \in {"batch", "inventory", "settled", "pausing", "recover", "reading", "repairing",
                      "closing", "killing"}
         /\ g'.selected = g.selected
         /\ alive' \subseteq alive /\ UNCHANGED <<identity, unnamed>>
<1>0. g \in Memories BY DEF TypeInv, MemoryOK
<1>1. CASE Repaired BY <1>0, <1>1, RepairedFacts DEF BeginBatch, Memories
<1>2. CASE StartFails \/ Connected
  BY <1>0, <1>2 DEF StartFails, Connected, BeginBatch, Leave, Memories, runtime
<1>3. CASE BatchEnds \/ BatchIsLost \/ InventoryRead \/ InventoryFails
           \/ BatchSettled \/ GraphPaused \/ CheckpointFails
  BY <1>0, <1>3 DEF BatchEnds, BatchIsLost, InventoryRead, InventoryFails, GiveUpBatch,
                    BatchSettled, GraphPaused, CheckpointFails, Leave, Goto, Memories, runtime, Dies
<1>4. CASE TakeCommand \/ ReaderStops
  BY <1>0, <1>4 DEF TakeCommand, ReaderStops, Leave, Goto, Memories, runtime
<1>5. CASE SourceRead BY <1>0, <1>5 DEF SourceRead, Rejects, Memories, runtime
<1>6. CASE RepairFails BY <1>0, <1>6 DEF RepairFails, Memories, Dies
<1> QED BY <1>1, <1>2, <1>3, <1>4, <1>5, <1>6

\* What happens beside the runner.
LEMMA BesideTheRunner ==
  ASSUME TypeInv,
         \/ Runtime \/ Read \/ Dispatch
         \/ \E kind \in RecoveryKind, from \in Cells \cup {NoCell} : RequestRecovery(kind, from)
         \/ \E c \in Edited : Edit(c)
         \/ \E c \in Cells : TimeOut(c)
         \/ Cancel \/ RequestHangs \/ EscalateInterrupt \/ EscalateKill \/ UNCHANGED vars
  PROVE  /\ g'.pc = g.pc /\ g'.selected = g.selected /\ run'.epoch = run.epoch
         /\ alive' \subseteq alive /\ UNCHANGED <<identity, unnamed>>
<1>0. g \in Memories /\ run \in Runs BY DEF TypeInv, MemoryOK, RowsOK
<1>1. CASE Runtime
  BY <1>1 DEF Runtime, KernelDies, KernelRuns, KernelEnds, Dies, rows
<1>2. CASE Read BY <1>0, <1>2, EpochsOfCommits DEF Read
<1>3. CASE Dispatch BY <1>3 DEF Dispatch, runtime
<1>4. ASSUME NEW kind \in RecoveryKind, NEW from \in Cells \cup {NoCell},
             RequestRecovery(kind, from)
      PROVE  UNCHANGED <<g, run, alive, identity, unnamed>>
  BY <1>4 DEF RequestRecovery, runtime
<1>5. ASSUME NEW c \in Edited, Edit(c) PROVE UNCHANGED <<g, run, alive, identity, unnamed>>
  BY <1>5 DEF Edit, rows, runtime
<1>6. ASSUME NEW c \in Cells, TimeOut(c)
      PROVE  /\ UNCHANGED <<run, alive, identity, unnamed>>
             /\ g'.pc = g.pc /\ g'.selected = g.selected
  BY <1>0, <1>6 DEF TimeOut, rows, Memories
<1>7. CASE Cancel BY <1>0, <1>7, EpochsOfCommits DEF Cancel, runtime, Memories
<1>10. CASE RequestHangs BY <1>0, <1>10 DEF RequestHangs, rows, runtime, Memories
<1>8. CASE EscalateInterrupt \/ EscalateKill
  BY <1>0, <1>8 DEF EscalateInterrupt, EscalateKill, Dies, rows, Memories
<1>9. CASE UNCHANGED vars BY <1>9 DEF vars, rows, runtime
<1> QED BY <1>1, <1>2, <1>3, <1>4, <1>5, <1>6, <1>7, <1>8, <1>9, <1>10

LEMMA NextKeepsRuntimes == TypeInv /\ RuntimesInv /\ [Next]_vars => RuntimesInv'
<1> SUFFICES ASSUME TypeInv, RuntimesInv, [Next]_vars PROVE RuntimesInv' OBVIOUS
<1>0. g \in Memories BY DEF TypeInv, MemoryOK
<1>1. CASE BeginEpoch
  <2>1. CASE g.cancel
    BY <1>0, <1>1, <2>1 DEF BeginEpoch, Goto, Memories, RuntimesInv, Named
  <2>2. CASE ~g.cancel
    <3>1. g.pc = "begin" /\ g'.pc = "reap" BY <1>0, <1>1, <2>2 DEF BeginEpoch, Memories
    <3> QED BY <1>1, <3>1, SessionKeepsRuntimes DEF BeginEpoch
  <2> QED BY <2>1, <2>2
<1>2. CASE Reap
  BY <1>0, <1>2 DEF Reap, PreviousRuntime, Goto, Memories, rows, RuntimesInv, Named
<1>3. CASE NameRuntime
  BY <1>0, <1>3 DEF NameRuntime, Goto, Memories, rows, RuntimesInv, Named
<1>4. CASE SessionClosed
  <2>1. g.pc = "killing" /\ g'.pc \in {"begin", "final", "cancelled", "over"}
    BY <1>0, <1>4 DEF SessionClosed, Goto, AfterClose, Memories, Outcomes
  <2> QED BY <1>4, <2>1 DEF SessionClosed, RuntimesInv, Named
<1>5. CASE Finish
  BY <1>0, <1>5 DEF Finish, Goto, Memories, runtime, RuntimesInv, Named
<1>6. ASSUME NEW from \in Starts, Open(from) PROVE RuntimesInv'
  <2>1. g'.pc # "spawned" /\ g'.selected = {} /\ g.pc = "down"
    BY <1>6 DEF Open, Up, Stopped
  <2> QED BY <1>6, <2>1 DEF Open, runtime, RuntimesInv, Named
<1>7. CASE Quiesce
  <2>1. g'.pc = "down" BY <1>7 DEF Quiesce, Stopped
  <2> QED BY <1>7, <2>1 DEF Quiesce, InSession, RuntimesInv, Named
<1>8. CASE Crash
  <2>1. g'.pc = "down" BY <1>8 DEF Crash, Stopped
  <2> QED BY <1>8, <2>1 DEF Crash, RuntimesInv, Named
<1> QED
  BY <1>1, <1>2, <1>3, <1>4, <1>5, <1>6, <1>7, <1>8, StepsOfNext, SessionSteps,
     BesideTheRunner, SessionKeepsRuntimes

\* A runtime is started when no other lives, and none outlives the last session
\* of a process, but for those that a crash left without a name and the one
\* that a process leaves which begins no epoch (reap_previous, close).
THEOREM OneRuntimeHolds == Spec => []OneRuntime
<1>1. Init => RuntimesInv BY DEF Init, Stopped, RuntimesInv, Named
<1>2. RuntimesInv => OneRuntime
  <2> SUFFICES ASSUME RuntimesInv PROVE OneRuntime OBVIOUS
  <2>1. PICK e : Named \subseteq {e} BY DEF RuntimesInv
  <2>2. IsFiniteSet({e}) /\ Cardinality({e}) = 1 BY FS_Singleton
  <2>3. Cardinality(Named) <= 1 BY <2>1, <2>2, FS_Subset
  <2> QED BY <2>3 DEF OneRuntime, Named, RuntimesInv
<1> QED BY <1>1, <1>2, NextKeepsRuntimes, TypeInvHolds, PTL DEF Spec

-----------------------------------------------------------------------------
(* A settled batch. *)

LEMMA NextKeepsDeadKnown ==
  ASSUME TypeInv, DeadIsKnown, [Next]_vars
  PROVE  DeadIsKnown'
<1>0. g \in Memories BY DEF TypeInv, MemoryOK
<1> USE DEF DeadIsKnown, Waiting
<1>1. CASE BeginEpoch BY <1>0, <1>1 DEF BeginEpoch, Goto, Memories
<1>2. CASE Reap \/ NameRuntime \/ StartFails \/ ReaderStops \/ Finish
  BY <1>0, <1>2 DEF Reap, NameRuntime, StartFails, ReaderStops, Finish, Goto, Leave, Memories
<1>3. CASE Connected BY <1>0, <1>3 DEF Connected, BeginBatch, Leave, Memories
<1>4. CASE BatchEnds BY <1>0, <1>4 DEF BatchEnds, Goto, Memories
<1>5. CASE BatchIsLost \/ InventoryFails
  BY <1>0, <1>5 DEF BatchIsLost, InventoryFails, GiveUpBatch, Memories
<1>17. CASE InventoryRead BY <1>0, <1>17 DEF InventoryRead, Memories
<1>6. CASE BatchSettled BY <1>0, <1>6 DEF BatchSettled, Goto, Leave, Memories
<1>7. CASE GraphPaused \/ CheckpointFails
  BY <1>0, <1>7 DEF GraphPaused, CheckpointFails, Leave, Memories
<1>8. CASE TakeCommand BY <1>0, <1>8 DEF TakeCommand, Leave, Memories
<1>9. CASE SourceRead
  <2>1. /\ g.pc = "reading" /\ g'.dead = g.dead /\ g'.error = g.error
        /\ g'.pc \in {"closing", "recover"} \/ (g'.pc = "repairing" /\ ~g.dead)
    BY <1>0, <1>9 DEF SourceRead, Rejects, Memories
  <2> QED BY <2>1
<1>10. CASE Repaired
  <2>1. g.pc = "repairing" /\ ~g.dead BY <1>10 DEF Repaired
  <2> QED BY <1>0, <1>10, <2>1, RepairedFacts DEF BeginBatch, Memories
<1>11. CASE RepairFails BY <1>0, <1>11 DEF RepairFails, Memories
<1>12. CASE SessionClosed
  <2>1. g'.pc \in {"begin", "final", "cancelled", "over"}
    BY <1>0, <1>12 DEF SessionClosed, Goto, AfterClose, Memories, Outcomes
  <2> QED BY <2>1
<1>13. ASSUME NEW from \in Starts, Open(from) PROVE DeadIsKnown'
  BY <1>13 DEF Open, Stopped
<1>14. CASE Quiesce \/ Crash BY <1>14 DEF Quiesce, Crash, Stopped
<1>15. CASE EscalateKill BY <1>0, <1>15 DEF EscalateKill, Dies, Alive, Escalating, rows, Memories
<1>16. ASSUME \/ Runtime \/ Read \/ Dispatch
              \/ \E kind \in RecoveryKind, from \in Cells \cup {NoCell} : RequestRecovery(kind, from)
              \/ \E c \in Edited : Edit(c)
              \/ \E c \in Cells : TimeOut(c)
              \/ Cancel \/ RequestHangs \/ EscalateInterrupt \/ UNCHANGED vars
       PROVE  DeadIsKnown'
  <2>1. g'.pc = g.pc /\ run'.epoch = run.epoch /\ alive' \subseteq alive
    BY <1>16, BesideTheRunner
  <2>2. g'.error = g.error /\ g'.dead = g.dead
    BY <1>0, <1>16 DEF Runtime, KernelDies, KernelRuns, KernelEnds, Read, Dispatch, TimeOut,
          RequestRecovery, Edit, Cancel, RequestHangs, EscalateInterrupt, vars, Memories
  <2> QED BY <2>1, <2>2 DEF Alive
<1> QED
  BY <1>1, <1>2, <1>3, <1>4, <1>5, <1>6, <1>7, <1>8, <1>9, <1>10, <1>11, <1>12, <1>13,
     <1>14, <1>15, <1>16, <1>17, StepsOfNext

LEMMA BlankKernel ==
  ASSUME NEW doc
  PROVE  /\ [NoKernel EXCEPT !.code = doc].batch = {}
         /\ [NoKernel EXCEPT !.code = doc].on = NoCell
         /\ [NoKernel EXCEPT !.code = doc].interrupted = FALSE
         /\ [NoKernel EXCEPT !.code = doc].code = doc
         /\ \A c \in Cells : [NoKernel EXCEPT !.code = doc].state[c] = "none"
  BY DEF NoKernel

LEMMA DyingChangesNothing ==
  ASSUME kernel \in Kernels, kernel.batch = {}, kernel.on = NoCell, ~kernel.interrupted, Dies
  PROVE  kernel' = kernel
  BY DEF Dies, Kernels

\* What the runtime and the reader do to a kernel that executes nothing.
LEMMA IdleKernelKeeps ==
  ASSUME TypeInv, kernel.batch = {}, wire = <<>>,
         \/ Runtime \/ Read \/ Dispatch
         \/ \E kind \in RecoveryKind, from \in Cells \cup {NoCell} : RequestRecovery(kind, from)
         \/ \E c \in Edited : Edit(c)
         \/ \E c \in Cells : TimeOut(c)
         \/ Cancel \/ RequestHangs \/ EscalateInterrupt \/ EscalateKill \/ UNCHANGED vars
  PROVE  /\ wire' = <<>> /\ kernel'.batch = {} /\ kernel'.state = kernel.state
         /\ kernel'.code = kernel.code /\ UNCHANGED <<cells, ran>>
         /\ kernel.on = NoCell => kernel'.on = NoCell
<1>0. kernel \in Kernels BY DEF TypeInv, RuntimeOK
<1>1. CASE Runtime
  <2>1. KernelDies BY <1>1 DEF Runtime, KernelRuns, KernelEnds, Working
  <2> QED BY <1>0, <2>1, DyingKernel DEF KernelDies, rows
<1>2. CASE Read BY <1>2 DEF Read
<1>3. CASE Dispatch BY <1>3 DEF Dispatch, runtime
<1>4. ASSUME NEW kind \in RecoveryKind, NEW from \in Cells \cup {NoCell},
             RequestRecovery(kind, from)
      PROVE  UNCHANGED <<wire, kernel, cells, ran>>
  BY <1>4 DEF RequestRecovery, runtime
<1>5. ASSUME NEW c \in Edited, Edit(c) PROVE UNCHANGED <<wire, kernel, cells, ran>>
  BY <1>5 DEF Edit, rows, runtime
<1>6. ASSUME NEW c \in Cells, TimeOut(c)
      PROVE  UNCHANGED <<wire, cells, ran>> /\ kernel' = [kernel EXCEPT !.interrupted = kernel.on # NoCell]
  BY <1>6 DEF TimeOut, rows
<1>7. CASE Cancel \/ RequestHangs BY <1>7 DEF Cancel, RequestHangs, rows, runtime
<1>8. CASE EscalateInterrupt
  BY <1>0, <1>8 DEF EscalateInterrupt, rows, Kernels
<1>9. CASE EscalateKill BY <1>0, <1>9, DyingKernel DEF EscalateKill, rows
<1>10. CASE UNCHANGED vars BY <1>10 DEF vars, rows, runtime
<1> QED
  BY <1>0, <1>1, <1>2, <1>3, <1>4, <1>5, <1>6, <1>7, <1>8, <1>9, <1>10 DEF Kernels

LEMMA NextKeepsFreshKernel ==
  ASSUME TypeInv, FreshKernel, [Next]_vars
  PROVE  FreshKernel'
<1>0. g \in Memories /\ kernel \in Kernels BY DEF TypeInv, MemoryOK, RuntimeOK
<1>1. CASE BeginEpoch BY <1>0, <1>1 DEF BeginEpoch, Goto, Memories, FreshKernel
<1>2. CASE Reap \/ NameRuntime
  BY <1>0, <1>2 DEF Reap, NameRuntime, Goto, Memories, FreshKernel
<1>3. CASE \/ SessionClosed \/ Finish \/ Quiesce \/ Crash
           \/ \E from \in Starts : Open(from)
  <2>1. g'.pc \in {"begin", "final", "cancelled", "over", "down"}
    <3>1. CASE SessionClosed
      BY <1>0, <3>1 DEF SessionClosed, Goto, AfterClose, Memories, Outcomes
    <3>2. CASE Finish BY <1>0, <3>2 DEF Finish, Goto, Memories
    <3>3. CASE Quiesce \/ Crash BY <3>3 DEF Quiesce, Crash, Stopped
    <3>4. ASSUME NEW from \in Starts, Open(from) PROVE g'.pc \in {"begin", "cancelled"}
      BY <3>4 DEF Open, Stopped
    <3> QED BY <1>3, <3>1, <3>2, <3>3, <3>4
  <2> QED BY <2>1 DEF FreshKernel
<1>4. CASE KernelDies
  <2>1. CASE g.pc \in {"reap", "spawned", "connect"}
    <3>1. kernel = [NoKernel EXCEPT !.code = g.doc] BY <2>1 DEF FreshKernel
    <3>2. kernel.batch = {} /\ kernel.on = NoCell /\ kernel.interrupted = FALSE
      <4> DEFINE doc == g.doc
      <4>1. kernel = [NoKernel EXCEPT !.code = doc] BY <3>1
      <4> HIDE DEF doc
      <4> QED BY <4>1, BlankKernel, Zenon
    <3>3. kernel' = kernel
      BY <1>0, <1>4, <3>2, DyingChangesNothing DEF KernelDies
    <3> QED BY <1>4, <3>3 DEF KernelDies, FreshKernel
  <2> QED BY <1>4, <2>1 DEF KernelDies, FreshKernel
<1>5. ASSUME \/ Runtime /\ ~KernelDies
             \/ Read
             \/ Dispatch
             \/ \E kind \in RecoveryKind, from \in Cells \cup {NoCell} : RequestRecovery(kind, from)
             \/ \E c \in Edited : Edit(c)
             \/ \E c \in Cells : TimeOut(c)
             \/ Cancel \/ RequestHangs \/ EscalateInterrupt \/ EscalateKill \/ UNCHANGED vars
      PROVE  FreshKernel'
  <2>1. CASE g.pc \in {"reap", "spawned", "connect"}
    <3>1. kernel.batch = {} /\ wire = <<>> BY <2>1, BlankKernel DEF FreshKernel
    <3>2. UNCHANGED <<wire, kernel>> /\ g'.doc = g.doc
      BY <1>0, <1>5, <2>1, <3>1
         DEF Runtime, KernelRuns, KernelEnds, Working, Read, Dispatch, RequestRecovery, Edit,
             TimeOut, Cancel, RequestHangs, EscalateInterrupt, EscalateKill, Escalating, vars,
             runtime, Memories
    <3> QED BY <2>1, <3>2 DEF FreshKernel
  <2>2. CASE g.pc \notin {"reap", "spawned", "connect"}
    <3>1. g'.pc = g.pc BY <1>5, BesideTheRunner
    <3> QED BY <2>2, <3>1 DEF FreshKernel
  <2> QED BY <2>1, <2>2
<1>6. ASSUME \/ StartFails \/ Connected
             \/ BatchEnds \/ BatchIsLost \/ InventoryRead \/ InventoryFails
             \/ BatchSettled \/ GraphPaused \/ CheckpointFails
             \/ TakeCommand \/ SourceRead \/ Repaired \/ RepairFails \/ ReaderStops
      PROVE  FreshKernel'
  BY <1>6, SessionSteps DEF FreshKernel
<1> QED BY <1>1, <1>2, <1>3, <1>4, <1>5, <1>6, StepsOfNext

LEMMA NextKeepsExecution ==
  ASSUME TypeInv, FreshKernel, ExecutesItsBatch, DeadIsKnown, RowsAreSettled, [Next]_vars
  PROVE  ExecutesItsBatch'
<1>0. kernel \in Kernels BY DEF TypeInv, RuntimeOK
<1>1. CASE Connected
  <2>3. g.pc = "connect" BY <1>1 DEF Connected
  <2>4. kernel = [NoKernel EXCEPT !.code = g.doc] BY <2>3 DEF FreshKernel
  <2>1. kernel.on = NoCell BY <2>4 DEF NoKernel
  <2>2. kernel'.on = NoCell BY <1>0, <1>1, <2>1 DEF Connected, Kernels
  <2> QED BY <2>2 DEF ExecutesItsBatch
<1>2. CASE Repaired
  <2>1. kernel.on = NoCell
    BY <1>2, RepairedFacts DEF RowsAreSettled, DeadIsKnown, Waiting
  <2>2. RepairedKernel \in Kernels /\ RepairedKernel.on = NoCell
    BY <2>1, RepairedKernelIsKernel
  <2>3. kernel'.on = NoCell BY <1>2, <2>2, RepairedFacts DEF Kernels
  <2> QED BY <2>3 DEF ExecutesItsBatch
<1>3. CASE BeginEpoch \/ ReaderStops \/ Quiesce \/ Crash
  BY <1>3, BlankKernel DEF BeginEpoch, ReaderStops, Quiesce, Crash, Unheard, NoKernel, ExecutesItsBatch
<1>4. CASE KernelDies \/ BatchIsLost \/ InventoryFails \/ RepairFails \/ EscalateKill
  BY <1>0, <1>4, DyingKernel
     DEF KernelDies, BatchIsLost, InventoryFails, GiveUpBatch, RepairFails, EscalateKill,
         ExecutesItsBatch
<1>5. ASSUME NEW c \in Cells, KernelRuns(c) PROVE ExecutesItsBatch'
  BY <1>0, <1>5 DEF KernelRuns, ExecutesItsBatch, Kernels
<1>6. ASSUME NEW c \in Cells, KernelEnds(c) PROVE ExecutesItsBatch'
  BY <1>0, <1>6 DEF KernelEnds, ExecutesItsBatch, Kernels
<1>7. ASSUME NEW c \in Cells, TimeOut(c) PROVE ExecutesItsBatch'
  BY <1>0, <1>7 DEF TimeOut, ExecutesItsBatch, Kernels
<1>8. CASE EscalateInterrupt
  BY <1>0, <1>8 DEF EscalateInterrupt, ExecutesItsBatch, Kernels
<1>9. CASE UNCHANGED kernel BY <1>9 DEF ExecutesItsBatch
<1> QED
  BY <1>1, <1>2, <1>3, <1>4, <1>5, <1>6, <1>7, <1>8, <1>9, StepsOfNext
     DEF Runtime, Read, Reap, NameRuntime, StartFails, BatchEnds, InventoryRead, BatchSettled,
         GraphPaused, CheckpointFails, TakeCommand, SourceRead, SessionClosed, Finish, Dispatch,
         RequestRecovery, Open, Edit, Cancel, RequestHangs, vars, runtime

LEMMA NextKeepsSettledRows ==
  ASSUME TypeInv, SettledInv, [Next]_vars
  PROVE  RowsAreSettled'
<1>0. /\ g \in Memories /\ kernel \in Kernels /\ cells \in CellTable
      /\ FreshKernel /\ ExecutesItsBatch /\ DeadIsKnown /\ RowsAreSettled
  BY DEF TypeInv, MemoryOK, RuntimeOK, RowsOK, SettledInv
\* A step of the runner that leaves the rows, the kernel and the selection.
<1>a. ASSUME UNCHANGED <<cells, kernel, wire>>, g'.selected = g.selected,
             g'.timedOut = g.timedOut, g'.dead = g.dead, g.pc \in Waiting
      PROVE  RowsAreSettled'
  BY <1>0, <1>a DEF RowsAreSettled, SettledStatus
<1>1. CASE InventoryRead
  <2>1. wire' = <<>> /\ kernel' = kernel /\ kernel.batch = {} /\ cells' = Reconcile(cells, kernel)
    BY <1>1 DEF InventoryRead, HasEndedAndIsRead, runtime
  <2>2. kernel.on = NoCell BY <1>0, <2>1 DEF ExecutesItsBatch
  <2>3. \A c \in Cells : cells'[c].status = SettledStatus(c, kernel.state[c])
    BY <1>0, <2>1, ReconcileRows
  <2>4. g'.selected = g.selected /\ g'.timedOut = g.timedOut
    BY <1>0, <1>1 DEF InventoryRead, Memories
  <2> QED BY <2>1, <2>2, <2>3, <2>4 DEF RowsAreSettled, SettledStatus
<1>2. CASE BatchIsLost \/ InventoryFails
  BY <1>0, <1>2 DEF BatchIsLost, InventoryFails, GiveUpBatch, Memories, RowsAreSettled
<1>3. CASE BatchSettled
  <2>1. CASE g'.pc \in Waiting
    <3>1. Goto("pausing") BY <1>0, <1>3, <2>1 DEF BatchSettled, Leave, Memories, Waiting
    <3> QED BY <1>0, <1>a, <1>3, <3>1 DEF BatchSettled, Goto, Memories, Waiting, runtime
  <2> QED BY <2>1 DEF RowsAreSettled
<1>4. CASE GraphPaused
  BY <1>0, <1>a, <1>4 DEF GraphPaused, Memories, Waiting, runtime, rows
<1>5. CASE TakeCommand
  <2>1. CASE Leave("cancel") BY <1>0, <2>1 DEF Leave, Memories, RowsAreSettled, Waiting
  <2>2. CASE ~Leave("cancel")
    BY <1>0, <1>a, <1>5, <2>2 DEF TakeCommand, Memories, Waiting, runtime
  <2> QED BY <2>1, <2>2
<1>6. CASE SourceRead
  <2>1. CASE g'.pc \in Waiting
    BY <1>0, <1>a, <1>6, <2>1 DEF SourceRead, Rejects, Memories, Waiting, runtime
  <2> QED BY <2>1 DEF RowsAreSettled
<1>7. CASE Repaired
  <2>1. g'.pc \in {"closing", "batch"} BY <1>0, <1>7, RepairedFacts DEF BeginBatch, Memories
  <2> QED BY <2>1 DEF RowsAreSettled, Waiting
<1>8. CASE RepairFails BY <1>0, <1>8 DEF RepairFails, Memories, RowsAreSettled
<1>9. ASSUME \/ BeginEpoch \/ Reap \/ NameRuntime \/ StartFails \/ Connected \/ CheckpointFails
             \/ BatchEnds \/ ReaderStops \/ SessionClosed \/ Finish \/ Quiesce \/ Crash
             \/ \E from \in Starts : Open(from)
      PROVE  RowsAreSettled'
  <2>1. CASE BeginEpoch \/ Reap \/ NameRuntime \/ StartFails \/ Connected \/ CheckpointFails
    <3>1. g'.pc \in {"reap", "cancelled", "spawned", "connect", "closing", "batch"}
      <4>1. CASE BeginEpoch BY <1>0, <4>1 DEF BeginEpoch, Goto, Memories
      <4>2. CASE Reap \/ NameRuntime BY <1>0, <4>2 DEF Reap, NameRuntime, Goto, Memories
      <4>3. CASE StartFails \/ CheckpointFails
        BY <1>0, <4>3 DEF StartFails, CheckpointFails, Leave, Memories
      <4>4. CASE Connected BY <1>0, <4>4 DEF Connected, BeginBatch, Leave, Memories
      <4> QED BY <2>1, <4>1, <4>2, <4>3, <4>4
    <3> QED BY <3>1 DEF RowsAreSettled, Waiting
  <2>2. CASE BatchEnds \/ ReaderStops \/ Finish
    BY <1>0, <2>2 DEF BatchEnds, ReaderStops, Finish, Goto, Memories, RowsAreSettled, Waiting
  <2>3. CASE SessionClosed
    <3>1. g'.pc \in {"begin", "final", "cancelled", "over"}
      BY <1>0, <2>3 DEF SessionClosed, Goto, AfterClose, Memories, Outcomes
    <3> QED BY <3>1 DEF RowsAreSettled, Waiting
  <2>4. CASE Quiesce \/ Crash BY <2>4 DEF Quiesce, Crash, Stopped, RowsAreSettled, Waiting
  <2>5. ASSUME NEW from \in Starts, Open(from) PROVE RowsAreSettled'
    BY <2>5 DEF Open, Stopped, RowsAreSettled, Waiting
  <2> QED BY <1>9, <2>1, <2>2, <2>3, <2>4, <2>5
<1>10. ASSUME \/ Runtime \/ Read \/ Dispatch
              \/ \E kind \in RecoveryKind, from \in Cells \cup {NoCell} : RequestRecovery(kind, from)
              \/ \E c \in Edited : Edit(c)
              \/ \E c \in Cells : TimeOut(c)
              \/ Cancel \/ RequestHangs \/ EscalateInterrupt \/ EscalateKill \/ UNCHANGED vars
       PROVE  RowsAreSettled'
  <2> SUFFICES ASSUME g'.pc \in Waiting, ~g'.dead
               PROVE  /\ wire' = <<>> /\ kernel'.batch = {} /\ kernel'.on = NoCell
                      /\ \A c \in Cells : cells'[c].status = SettledStatus(c, kernel.state[c])'
    BY DEF RowsAreSettled
  <2>1. g.pc \in Waiting /\ g'.selected = g.selected BY <1>10, BesideTheRunner
  <2>2. g'.timedOut = g.timedOut /\ g'.dead = g.dead
    BY <1>0, <1>10, <2>1
       DEF Runtime, KernelDies, KernelRuns, KernelEnds, Read, Dispatch, RequestRecovery, Edit,
           TimeOut, Cancel, RequestHangs, EscalateInterrupt, EscalateKill, Escalating, Waiting,
           vars, Memories
  <2>3. /\ wire = <<>> /\ kernel.batch = {} /\ kernel.on = NoCell
        /\ \A c \in Cells : cells[c].status = SettledStatus(c, kernel.state[c])
    BY <1>0, <2>1, <2>2 DEF RowsAreSettled
  <2>4. /\ wire' = <<>> /\ kernel'.batch = {} /\ kernel'.on = NoCell
        /\ kernel'.state = kernel.state /\ cells' = cells
    BY <1>10, <2>3, IdleKernelKeeps
  <2> QED BY <2>1, <2>2, <2>3, <2>4 DEF SettledStatus
<1> QED
  BY <1>1, <1>2, <1>3, <1>4, <1>5, <1>6, <1>7, <1>8, <1>9, <1>10, StepsOfNext

LEMMA NextKeepsSettled == TypeInv /\ SettledInv /\ [Next]_vars => SettledInv'
  BY NextKeepsDeadKnown, NextKeepsFreshKernel, NextKeepsExecution, NextKeepsSettledRows
     DEF SettledInv

LEMMA SettledInvHolds == Spec => []SettledInv
<1>1. Init => SettledInv
  BY DEF Init, Stopped, NoKernel, SettledInv, FreshKernel, ExecutesItsBatch, DeadIsKnown,
         RowsAreSettled, Waiting
<1> QED BY <1>1, NextKeepsSettled, TypeInvHolds, PTL DEF Spec

-----------------------------------------------------------------------------
(* A paused graph. *)

LEMMA NextKeepsPaused ==
  ASSUME TypeInv, SettledInv, PausedInv, [Next]_vars
  PROVE  PausedInv'
<1> DEFINE P == {"pausing", "recover", "reading", "repairing"}
<1>0. /\ g \in Memories /\ cells \in CellTable /\ run \in Runs /\ DeadIsKnown /\ RowsAreSettled
  BY DEF TypeInv, MemoryOK, RowsOK, SettledInv
\* A step that leaves the rows and stays in the pause.
<1>a. ASSUME UNCHANGED <<run, cells>>, g.pc \in P, g'.dead = g.dead, g'.cancel = g.cancel
      PROVE  PausedInv'
  BY <1>a DEF PausedInv
<1>b. ASSUME g'.pc \notin P PROVE PausedInv'
  BY <1>b DEF PausedInv
<1>1. CASE BatchSettled
  <2>1. CASE Goto("pausing")
    <3> DEFINE n == IF Primary = NoCell THEN NoAttempt ELSE cells[Primary].attempt
    <3> SUFFICES ASSUME ~g.dead PROVE PausedInv'
      BY <1>0, <2>1 DEF Goto, Memories, PausedInv
    <3>1. g.pc = "settled" /\ g'.pc = "pausing" /\ ~g.error
      BY <1>0, <1>1, <2>1 DEF BatchSettled, Goto, Memories, DeadIsKnown, Waiting
    <3>2. Failed # {} /\ run' = PauseFailedRun(run, Primary, n) /\ cells' = cells
      <4>1. ~Leave("cancel") /\ ~Leave("complete") BY <1>0, <2>1 DEF Leave, Goto, Memories
      <4> QED BY <1>1, <3>1, <4>1 DEF BatchSettled
    <3>3. Primary \in Cells /\ Primary # NoCell
      <4>1. Failed \subseteq Cells BY <1>0 DEF Failed, Memories
      <4>2. Primary \in Failed BY <1>0, <3>2, PrimaryIsFailed DEF Memories
      <4> QED BY <4>1, <4>2, CellsAreNaturals DEF Cells, NoCell
    <3>4. n = cells[Primary].attempt /\ n \in Nat BY <1>0, <3>3 DEF CellTable, CellRows
    <3>5. PauseFailedRun(run, Primary, n).status = "paused"
          /\ PauseFailedRun(run, Primary, n).failedCell = Primary
          /\ PauseFailedRun(run, Primary, n).failedAttempt = n
      <4> HIDE DEF n
      <4> QED BY ONLY <1>0, <3>3, <3>4, PauseGraphRow
    <3> QED BY <3>2, <3>3, <3>4, <3>5 DEF PausedInv
  <2>2. CASE ~Goto("pausing")
    <3>1. g'.pc = "closing" BY <1>0, <1>1, <2>2 DEF BatchSettled, Leave, Memories
    <3> QED BY <1>b, <3>1
  <2> QED BY <2>1, <2>2
<1>2. CASE GraphPaused BY <1>0, <1>2, <1>a DEF GraphPaused, rows, Memories
<1>3. CASE TakeCommand
  BY <1>0, <1>3, <1>a DEF TakeCommand, Leave, Memories
<1>4. CASE SourceRead BY <1>0, <1>4, <1>a DEF SourceRead, Rejects, Memories
<1>5. CASE Repaired
  <2>1. g'.pc \in {"closing", "batch"} BY <1>0, <1>5, RepairedFacts DEF BeginBatch, Memories
  <2> QED BY <1>b, <2>1
<1>6. CASE RepairFails BY <1>0, <1>6 DEF RepairFails, Memories, PausedInv
<1>7. CASE \/ StartFails \/ Connected \/ BatchEnds \/ BatchIsLost \/ InventoryRead
           \/ InventoryFails \/ CheckpointFails \/ ReaderStops
  <2>1. g'.pc \in {"batch", "inventory", "settled", "closing", "killing"}
    <3>1. CASE StartFails \/ CheckpointFails
      BY <1>0, <3>1 DEF StartFails, CheckpointFails, Leave, Memories
    <3>2. CASE Connected BY <1>0, <3>2 DEF Connected, BeginBatch, Leave, Memories
    <3>3. CASE BatchEnds \/ ReaderStops BY <1>0, <3>3 DEF BatchEnds, ReaderStops, Goto, Memories
    <3>4. CASE BatchIsLost \/ InventoryRead \/ InventoryFails
      BY <1>0, <3>4 DEF BatchIsLost, InventoryRead, InventoryFails, GiveUpBatch, Memories
    <3> QED BY <1>7, <3>1, <3>2, <3>3, <3>4
  <2> QED BY <1>b, <2>1
<1>8. ASSUME \/ BeginEpoch \/ Reap \/ NameRuntime \/ SessionClosed \/ Finish \/ Quiesce \/ Crash
             \/ \E from \in Starts : Open(from)
      PROVE  PausedInv'
  <2>1. g'.pc \notin P
    <3>1. CASE BeginEpoch BY <1>0, <3>1 DEF BeginEpoch, Goto, Memories
    <3>2. CASE Reap \/ NameRuntime \/ Finish
      BY <1>0, <3>2 DEF Reap, NameRuntime, Finish, Goto, Memories
    <3>3. CASE SessionClosed
      BY <1>0, <3>3 DEF SessionClosed, Goto, AfterClose, Memories, Outcomes
    <3>4. CASE Quiesce \/ Crash BY <3>4 DEF Quiesce, Crash, Stopped
    <3>5. ASSUME NEW from \in Starts, Open(from) PROVE g'.pc \notin P
      BY <3>5 DEF Open, Stopped
    <3> QED BY <1>8, <3>1, <3>2, <3>3, <3>4, <3>5
  <2> QED BY <1>b, <2>1
<1>9. ASSUME \/ Runtime \/ Read \/ Dispatch
             \/ \E kind \in RecoveryKind, from \in Cells \cup {NoCell} : RequestRecovery(kind, from)
             \/ \E c \in Edited : Edit(c)
             \/ \E c \in Cells : TimeOut(c)
             \/ Cancel \/ RequestHangs \/ EscalateInterrupt \/ EscalateKill \/ UNCHANGED vars
      PROVE  PausedInv'
  <2>1. g'.pc = g.pc BY <1>9, BesideTheRunner
  <2> SUFFICES ASSUME g.pc \in P, ~g'.dead, ~g'.cancel PROVE PausedInv'
    BY <2>1 DEF PausedInv
  <2>2. g'.dead = g.dead /\ g'.cancel = g.cancel /\ ~Cancel
    BY <1>0, <1>9
       DEF Runtime, KernelDies, KernelRuns, KernelEnds, Read, Dispatch, RequestRecovery, Edit,
           TimeOut, Cancel, RequestHangs, EscalateInterrupt, EscalateKill, Escalating, vars, Memories
  <2>3. wire = <<>> /\ kernel.batch = {}
    BY <1>0, <2>2 DEF RowsAreSettled, Waiting
  <2>4. UNCHANGED <<run, cells>>
    BY <1>9, <2>2, <2>3
       DEF Runtime, KernelDies, KernelRuns, KernelEnds, Working, Read, Dispatch, RequestRecovery,
           Edit, TimeOut, RequestHangs, EscalateInterrupt, EscalateKill, rows, vars
  <2> QED BY <1>a, <2>2, <2>4
<1> QED
  BY <1>1, <1>2, <1>3, <1>4, <1>5, <1>6, <1>7, <1>8, <1>9, StepsOfNext

\* A graph that waits for a recovery with its kernel intact is paused on record,
\* at the cell and the attempt that the runner waits with, and no cell is left
\* as running (_pause_graph, _reconcile).
THEOREM PausesAreRecoverable == Spec => []PausedGraphIsRecoverable
<1>1. Init => PausedInv BY DEF Init, Stopped, PausedInv
<1>2. TypeInv /\ SettledInv /\ PausedInv => PausedGraphIsRecoverable
  <2> SUFFICES ASSUME TypeInv, SettledInv, PausedInv, g.pc = "recover", ~g.dead, ~g.cancel
               PROVE  /\ run.status = "paused" /\ run.failedCell # NoCell
                      /\ run.failedAttempt = cells[run.failedCell].attempt
                      /\ \A c \in Cells : cells[c].status \notin {"running", "settling"}
    BY DEF PausedGraphIsRecoverable
  <2>1. \A c \in Cells : kernel.state[c] \in CellState
    BY DEF TypeInv, RuntimeOK, Kernels
  <2>2. \A c \in Cells : cells[c].status = SettledStatus(c, kernel.state[c])
    BY DEF SettledInv, RowsAreSettled, Waiting
  <2>3. \A c \in Cells : cells[c].status \notin {"running", "settling"}
    BY <2>1, <2>2, SettledStatusIsStatus
  <2>4. \A c \in Cells : c # NoCell BY NotebookHasCells DEF Cells, NoCell
  <2> QED BY <2>3, <2>4 DEF PausedInv
<1> QED BY <1>1, <1>2, NextKeepsPaused, TypeInvHolds, SettledInvHolds, PTL DEF Spec

-----------------------------------------------------------------------------
(* What has run. *)

\* What happens beside the runner leaves its document, and the code of the kernel.
LEMMA BesideTheSources ==
  ASSUME TypeInv,
         \/ Runtime \/ Read \/ Dispatch
         \/ \E kind \in RecoveryKind, from \in Cells \cup {NoCell} : RequestRecovery(kind, from)
         \/ \E c \in Edited : Edit(c)
         \/ \E c \in Cells : TimeOut(c)
         \/ Cancel \/ RequestHangs \/ EscalateInterrupt \/ EscalateKill \/ UNCHANGED vars
  PROVE  g'.doc = g.doc /\ g'.next = g.next /\ kernel'.code = kernel.code
<1>0. g \in Memories /\ kernel \in Kernels BY DEF TypeInv, MemoryOK, RuntimeOK
<1>1. CASE Runtime
  BY <1>0, <1>1 DEF Runtime, KernelDies, KernelRuns, KernelEnds, Dies, Kernels
<1>2. CASE Read \/ Dispatch BY <1>2 DEF Read, Dispatch, runtime
<1>3. ASSUME NEW kind \in RecoveryKind, NEW from \in Cells \cup {NoCell},
             RequestRecovery(kind, from)
      PROVE  UNCHANGED <<g, kernel>>
  BY <1>3 DEF RequestRecovery, runtime
<1>4. ASSUME NEW c \in Edited, Edit(c) PROVE UNCHANGED <<g, kernel>>
  BY <1>4 DEF Edit, runtime
<1>5. ASSUME NEW c \in Cells, TimeOut(c)
      PROVE  g'.doc = g.doc /\ g'.next = g.next /\ kernel'.code = kernel.code
  BY <1>0, <1>5 DEF TimeOut, Memories, Kernels
<1>6. CASE Cancel \/ RequestHangs BY <1>0, <1>6 DEF Cancel, RequestHangs, runtime, Memories
<1>7. CASE EscalateInterrupt \/ EscalateKill
  BY <1>0, <1>7 DEF EscalateInterrupt, EscalateKill, Dies, Memories, Kernels
<1>8. CASE UNCHANGED vars BY <1>8 DEF vars, runtime
<1> QED BY <1>1, <1>2, <1>3, <1>4, <1>5, <1>6, <1>7, <1>8

LEMMA ReadKeepsSources ==
  ASSUME TypeInv, Read, \A c \in Cells : cells[c].src = g.doc[c]
  PROVE  \A c \in Cells : cells'[c].src = g.doc[c]
<1>0. cells \in CellTable BY DEF TypeInv, RowsOK
<1>1. \/ cells' = cells
      \/ cells' = BeginCellAttempt(cells, Head(wire).cell, g.doc[Head(wire).cell], run.epoch)
      \/ \E s : cells' = CompleteCell(cells, Head(wire).cell, s)
  BY DEF Read
<1>2. ASSUME NEW m, NEW n, cells' = BeginCellAttempt(cells, m, g.doc[m], n), NEW c \in Cells
      PROVE  cells'[c].src = g.doc[c]
  BY <1>0, <1>2 DEF BeginCellAttempt, CellTable
<1>3. ASSUME NEW m, NEW status, cells' = CompleteCell(cells, m, status), NEW c \in Cells
      PROVE  cells'[c].src = g.doc[c]
  BY <1>0, <1>3 DEF CompleteCell, CellTable, CellRows
<1> QED BY <1>1, <1>2, <1>3

LEMMA NextKeepsSources ==
  ASSUME TypeInv, SourcesAgree, [Next]_vars
  PROVE  SourcesAgree'
<1> DEFINE P == {"reap", "spawned", "connect", "batch", "inventory"} \cup Waiting
<1>0. /\ g \in Memories /\ kernel \in Kernels /\ cells \in CellTable
      /\ source \in Notebooks /\ run.epoch \in Nat
  BY EpochsOfCommits DEF TypeInv, MemoryOK, RuntimeOK, RowsOK
<1>a. ASSUME g.pc \in P, g'.doc = g.doc, kernel'.code = kernel.code,
             \A c \in Cells : cells'[c].src = cells[c].src
      PROVE  SourcesAgree'
  BY <1>a DEF SourcesAgree
<1>b. ASSUME g'.pc \notin P PROVE SourcesAgree'
  BY <1>b DEF SourcesAgree
<1>1. CASE BeginEpoch
  <2>1. CASE g.cancel BY <1>0, <1>1, <2>1, <1>b DEF BeginEpoch, Goto, Memories, Waiting
  <2>2. CASE ~g.cancel
    <3>a. /\ g' = [g EXCEPT !.pc = "reap", !.doc = source, !.dead = FALSE,
                            !.selected = Selection(g.from)]
          /\ kernel' = [NoKernel EXCEPT !.code = source]
      BY <1>1, <2>2 DEF BeginEpoch
    <3>1. g'.doc = source /\ kernel'.code = source
      BY <1>0, <3>a, BlankKernel DEF Memories
    <3>2. ReplaceCellsForRestart(source, run.epoch + 1, 0) \in CellTable
      BY <1>0, ReplaceRows, CellsAreNaturals
    <3>3. \A c \in Cells : cells'[c].src = source[c]
      BY <1>0, <1>1, <2>2, <3>2, UpdateSourceFields DEF BeginEpoch
    <3> QED BY <3>1, <3>3 DEF SourcesAgree
  <2> QED BY <2>1, <2>2
<1>2. CASE Reap \/ NameRuntime
  BY <1>0, <1>2, <1>a DEF Reap, NameRuntime, Goto, Memories, rows
<1>3. CASE Connected
  BY <1>0, <1>3, <1>a DEF Connected, BeginBatch, Leave, Memories, Kernels
<1>4. CASE InventoryRead
  <2>1. \A c \in Cells : cells'[c].src = cells[c].src
    BY <1>0, <1>4, ReconcileRows DEF InventoryRead
  <2> QED BY <1>0, <1>4, <2>1, <1>a DEF InventoryRead, Memories, runtime
<1>5. CASE BatchIsLost \/ InventoryFails
  <2>1. GiveUpBatch /\ g.pc \in P BY <1>5 DEF BatchIsLost, InventoryFails
  <2>2. \A c \in Cells : cells'[c].src = cells[c].src
    BY <1>0, <2>1, InterruptActiveRows DEF GiveUpBatch
  <2> QED BY <1>0, <2>1, <2>2, <1>a DEF GiveUpBatch, Dies, Memories, Kernels
<1>6. CASE BatchEnds \/ BatchSettled \/ GraphPaused
  BY <1>0, <1>6, <1>a DEF BatchEnds, BatchSettled, GraphPaused, Goto, Leave, Memories, Waiting, rows, runtime
<1>7. CASE StartFails \/ CheckpointFails \/ ReaderStops \/ Finish
  BY <1>0, <1>7, <1>b DEF StartFails, CheckpointFails, ReaderStops, Finish, Goto, Leave, Memories,
                          Waiting
<1>8. CASE TakeCommand \/ SourceRead
  BY <1>0, <1>8, <1>a DEF TakeCommand, SourceRead, Rejects, Leave, Memories, Waiting, runtime
<1>9. CASE Repaired
  <2>1. g'.doc = g.fresh BY <1>0, <1>9, RepairedFacts DEF BeginBatch, Memories
  <2>2. RepairedKernel \in Kernels /\ RepairedKernel.code = g.fresh
    BY RepairedKernelIsKernel
  <2>3. kernel'.code = g.fresh BY <1>9, <2>2, RepairedFacts DEF Kernels
  <2>4. \A c \in Cells : cells'[c].src = g.fresh[c]
    <3>1. Reconcile(cells, RepairedKernel) \in CellTable BY <1>0, <2>2, ReconcileRows
    <3>2. g.fresh \in Notebooks BY <1>0 DEF Memories
    <3> QED BY <1>9, <3>1, <3>2, RepairedFacts, UpdateSourceFields
  <2> QED BY <2>1, <2>3, <2>4 DEF SourcesAgree
<1>10. CASE RepairFails
  BY <1>0, <1>10, <1>a DEF RepairFails, Dies, Memories, Kernels, Waiting
<1>11. CASE SessionClosed
  <2>1. g'.pc \in {"begin", "final", "cancelled", "over"}
    BY <1>0, <1>11 DEF SessionClosed, Goto, AfterClose, Memories, Outcomes
  <2> QED BY <2>1, <1>b DEF Waiting
<1>12. ASSUME NEW from \in Starts, Open(from) PROVE SourcesAgree'
  BY <1>12, <1>b DEF Open, Stopped, Waiting
<1>13. CASE Quiesce \/ Crash BY <1>13, <1>b DEF Quiesce, Crash, Stopped, Waiting
<1>14. ASSUME \/ Runtime \/ Read \/ Dispatch
              \/ \E kind \in RecoveryKind, from \in Cells \cup {NoCell} : RequestRecovery(kind, from)
              \/ \E c \in Edited : Edit(c)
              \/ \E c \in Cells : TimeOut(c)
              \/ Cancel \/ RequestHangs \/ EscalateInterrupt \/ EscalateKill \/ UNCHANGED vars
       PROVE  SourcesAgree'
  <2> SUFFICES ASSUME g.pc \in P PROVE SourcesAgree'
    BY <1>14, <1>b, BesideTheRunner
  <2>1. g'.doc = g.doc /\ kernel'.code = kernel.code BY <1>14, BesideTheSources
  <2>2. CASE Read
    BY <2>1, <2>2, ReadKeepsSources DEF SourcesAgree
  <2>3. CASE ~Read
    <3>1. UNCHANGED cells
      BY <1>14, <2>3 DEF Runtime, KernelDies, KernelRuns, KernelEnds, Dispatch, RequestRecovery,
           Edit, TimeOut, Cancel, RequestHangs, EscalateInterrupt, EscalateKill, rows, vars
    <3> QED BY <2>1, <3>1, <1>a
  <2> QED BY <2>2, <2>3
<1> QED
  BY <1>1, <1>2, <1>3, <1>4, <1>5, <1>6, <1>7, <1>8, <1>9, <1>10, <1>11, <1>12, <1>13, <1>14,
     StepsOfNext

\* What executes next has all that it needs behind it, and outdates only what
\* needs it.
LEMMA ExecutingKeepsOrder ==
  ASSUME TypeInv, SettledInv, RanInOrder, Intact, NEW c \in Cells, KernelRuns(c)
  PROVE  RanInOrder'
<1>0. kernel \in Kernels /\ ran \in [code: Notebooks, outdated: SUBSET Cells]
  BY DEF TypeInv, RuntimeOK
<1>1. /\ kernel.on = NoCell /\ c \in kernel.batch /\ ~Busy(c)
      /\ UNCHANGED <<rows, source, identity, alive, g, queue, unnamed, used>>
  BY DEF KernelRuns
<1>2. ASSUME NEW e \in Cells PROVE NoCell \notin Ancestors[e]
  <2>1. NoCell \notin Cells BY NotebookHasCells DEF Cells, NoCell
  <2> QED BY <2>1, AncestorMember
<1>3. ASSUME NEW e \in Cells, e \notin kernel.batch, kernel.state[e] = "idle" PROVE AsOf(e)
  BY <1>1, <1>2, <1>3 DEF RanInOrder
<1>4. \A e \in g.selected : e \in Cells \ kernel.batch => kernel.state[e] # "none"
  BY DEF RanInOrder
<1>5. CASE \A p \in Parents[c] : kernel.state[p] = "idle"
  <2>1. /\ kernel' = [kernel EXCEPT !.on = c]
        /\ ran' = [ran EXCEPT !.code[c] = kernel.code[c],
                             !.outdated = (@ \cup DescendantsOf({c})) \ {c}]
    BY <1>5 DEF KernelRuns
  <2>2. /\ kernel'.code = kernel.code /\ kernel'.state = kernel.state
        /\ kernel'.batch = kernel.batch /\ kernel'.on = c
    BY <1>0, <2>1 DEF Kernels
  <2>3. /\ ran'.code[c] = kernel.code[c] /\ c \notin ran'.outdated
        /\ \A d \in Cells : d # c => ran'.code[d] = ran.code[d]
        /\ \A d \in Cells : d \in ran'.outdated => d \in ran.outdated \/ c \in Ancestors[d]
    BY <1>0, <2>1 DEF Notebooks, DescendantsOf
  <2>4. ASSUME NEW e \in Cells, NEW d \in Ancestors[e], AsOf(e), c \notin Ancestors[e]
        PROVE  ran'.code[d] = kernel.code[d] /\ d \notin ran'.outdated
    <3>1. d \in Cells BY <2>4, AncestorMember
    <3>2. c \notin Ancestors[d] BY <2>4, <3>1, AncestorsOfAncestors
    <3>3. d # c BY <3>1, <3>2, OwnAncestor
    <3>4. ran.code[d] = kernel.code[d] /\ d \notin ran.outdated BY <2>4 DEF AsOf
    <3> QED BY <2>3, <3>1, <3>2, <3>3, <3>4
  <2>5. ASSUME NEW d \in Ancestors[c], d # c
        PROVE  ran'.code[d] = kernel.code[d] /\ d \notin ran'.outdated
    <3>1. PICK p \in Parents[c] : d \in Ancestors[p] BY <2>5, AncestorsThroughParents
    <3>2. p \in Cells BY ParentsInCells
    <3>3. Ancestors[p] \cap kernel.batch = {} BY <1>1 DEF Busy, AncestorsOf
    <3>4. p \notin kernel.batch /\ c \notin Ancestors[p] BY <1>1, <3>2, <3>3, OwnAncestor
    <3>5. AsOf(p) BY <1>3, <1>5, <3>2, <3>4
    <3> QED BY <2>4, <3>1, <3>2, <3>4, <3>5
  <2>6. AsOf(c)' BY <2>2, <2>3, <2>5 DEF AsOf
  <2>7. ASSUME NEW e \in Cells, e \notin kernel.batch, kernel.state[e] = "idle",
               c \notin Ancestors[e]
        PROVE  AsOf(e)'
    <3>1. AsOf(e) BY <1>3, <2>7
    <3> QED BY <2>2, <2>4, <2>7, <3>1 DEF AsOf
  <2> QED BY <1>1, <1>4, <2>2, <2>6, <2>7 DEF RanInOrder
<1>6. CASE ~(\A p \in Parents[c] : kernel.state[p] = "idle")
  <2>1. /\ kernel' = [kernel EXCEPT !.state[c] = "cancelled", !.batch = @ \ {c}]
        /\ ran' = ran
    BY <1>6 DEF KernelRuns
  <2>2. /\ kernel'.code = kernel.code /\ kernel'.batch = kernel.batch \ {c}
        /\ kernel'.on = NoCell /\ kernel'.state[c] = "cancelled"
        /\ \A e \in Cells : e # c => kernel'.state[e] = kernel.state[e]
    BY <1>0, <1>1, <2>1 DEF Kernels
  <2>3. \A e \in Cells : AsOf(e)' <=> AsOf(e) BY <2>1, <2>2 DEF AsOf
  <2> QED BY <1>1, <1>3, <1>4, <2>2, <2>3 DEF RanInOrder
<1> QED BY <1>5, <1>6

\* What needs the cell that ends, and is not to be executed, is stale after it.
LEMMA EndingKeepsOrder ==
  ASSUME TypeInv, SettledInv, RanInOrder, Intact, NEW c \in Cells, KernelEnds(c)
  PROVE  RanInOrder'
<1>0. kernel \in Kernels BY DEF TypeInv, RuntimeOK
<1>1. /\ kernel.on = c /\ c # NoCell
      /\ UNCHANGED <<rows, source, identity, alive, g, queue, ran, unnamed, used>>
  BY NotebookHasCells DEF KernelEnds, Cells, NoCell
<1>2. PICK state \in {"idle", "exception"}
                    \cup (IF kernel.interrupted THEN {"interrupted"} ELSE {}) :
       LET rest == IF state = "interrupted" THEN kernel.batch \ {c} ELSE {}
           old == DescendantsOf({c}) \ kernel.batch
       IN kernel' = [kernel EXCEPT
            !.state = [d \in Cells |->
                         IF d = c THEN state
                         ELSE IF d \in rest THEN "cancelled"
                         ELSE IF d \in old /\ kernel.state[d] = "idle" THEN "stale"
                         ELSE kernel.state[d]],
            !.batch = @ \ ({c} \cup rest), !.on = NoCell, !.interrupted = FALSE]
  BY DEF KernelEnds
<1> DEFINE rest == IF state = "interrupted" THEN kernel.batch \ {c} ELSE {}
<1>3. /\ kernel'.code = kernel.code /\ kernel'.on = NoCell
      /\ kernel'.batch = kernel.batch \ ({c} \cup rest)
      /\ \A d \in Cells : kernel'.state[d] =
            IF d = c THEN state
            ELSE IF d \in rest THEN "cancelled"
            ELSE IF d \in DescendantsOf({c}) \ kernel.batch /\ kernel.state[d] = "idle"
                 THEN "stale"
            ELSE kernel.state[d]
  BY <1>0, <1>2 DEF Kernels
<1> HIDE DEF rest
<1>4. AsOf(c) BY <1>1 DEF RanInOrder
<1>5. \A e \in Cells : AsOf(e)' <=> AsOf(e) BY <1>1, <1>3 DEF AsOf
<1>6. ASSUME NEW e \in Cells, e \notin kernel'.batch, kernel'.state[e] = "idle" PROVE AsOf(e)
  <2>1. CASE e = c BY <1>4, <2>1
  <2>2. CASE e # c
    <3>1. e \notin rest BY <1>3, <1>6, <2>2
    <3>2. e \notin kernel.batch BY <1>3, <1>6, <2>2, <3>1
    <3>3. kernel.state[e] = "idle" /\ e \notin DescendantsOf({c})
      BY <1>3, <1>6, <2>2, <3>1, <3>2
    <3>4. c \notin Ancestors[e] BY <3>3 DEF DescendantsOf
    <3> QED BY <1>1, <3>2, <3>3, <3>4 DEF RanInOrder
  <2> QED BY <2>1, <2>2
<1>7. ASSUME NEW e \in Cells, e \notin kernel'.batch, e \in g.selected
      PROVE  kernel'.state[e] # "none"
  <2>1. CASE e = c \/ e \in rest BY <1>3, <2>1
  <2>2. CASE e # c /\ e \notin rest
    <3>1. kernel.state[e] # "none" BY <1>3, <1>7, <2>2 DEF RanInOrder
    <3> QED BY <1>3, <2>2, <3>1
  <2> QED BY <2>1, <2>2
<1> QED BY <1>1, <1>3, <1>5, <1>6, <1>7 DEF RanInOrder

\* The cells that a repair leaves alone need none that was edited.
LEMMA RepairKeepsOrder ==
  ASSUME TypeInv, SettledInv, KernelInv, Repaired
  PROVE  RanInOrder'
<1>0. g \in Memories /\ kernel \in Kernels BY DEF TypeInv, MemoryOK, RuntimeOK
<1>1. g.pc = "repairing" /\ ~g.dead BY DEF Repaired, SettledInv, DeadIsKnown
<1>2. kernel.batch = {} /\ kernel.on = NoCell
  BY <1>1 DEF SettledInv, RowsAreSettled, Waiting
<1>3. kernel.code = g.doc /\ Intact
  BY <1>1 DEF KernelInv, SourcesAgree, Intact, Waiting
<1>4. ASSUME NEW e \in Cells, kernel.state[e] = "idle", NEW d \in Ancestors[e]
      PROVE  ran.code[d] = g.doc[d] /\ d \notin ran.outdated
  <2>1. NoCell \notin Cells BY NotebookHasCells DEF Cells, NoCell
  <2>2. kernel.on \notin Ancestors[e] BY <1>2, <2>1, AncestorMember
  <2>3. AsOf(e) BY <1>2, <1>3, <1>4, <2>2 DEF KernelInv, RanInOrder
  <2> QED BY <1>3, <2>3 DEF AsOf
<1>5. CASE g'.pc = "closing" BY <1>5 DEF RanInOrder, Intact, Waiting
<1>6. CASE BeginBatch(Targets, g.fresh) /\ kernel' = [RepairedKernel EXCEPT !.batch = Targets]
  <2>1. g'.selected = g.selected /\ ran' = ran
    BY <1>0, <1>6, RepairedFacts DEF BeginBatch, Memories
  <2>2. kernel'.code = g.fresh /\ kernel'.on = NoCell /\ kernel'.state = RepairedKernel.state
    BY <1>2, <1>6, RepairedKernelIsKernel DEF Kernels
  <2>3. \A e \in Cells : kernel'.state[e] =
          IF e \in DescendantsOf(EditedCells) /\ kernel.state[e] # "none" THEN "stale"
          ELSE kernel.state[e]
    BY <1>0, <2>2 DEF RepairedKernel, Kernels
  <2>4. ASSUME NEW e \in Cells, kernel'.state[e] = "idle" PROVE AsOf(e)'
    <3>1. kernel.state[e] = "idle" /\ e \notin DescendantsOf(EditedCells) BY <2>3, <2>4
    <3>2. \A d \in Ancestors[e] : ran.code[d] = g.doc[d] /\ d \notin ran.outdated
      BY <1>4, <3>1
    <3>3. ASSUME NEW d \in Ancestors[e] PROVE g.fresh[d] = g.doc[d]
      <4>1. d \in Cells BY AncestorMember
      <4> QED BY <3>1, <4>1 DEF DescendantsOf, EditedCells
    <3> QED BY <2>1, <2>2, <3>2, <3>3 DEF AsOf
  <2>5. \A e \in Cells : e \in g.selected => kernel'.state[e] # "none"
    BY <1>2, <1>3, <2>3 DEF KernelInv, RanInOrder
  <2> QED BY <2>1, <2>2, <2>4, <2>5 DEF RanInOrder
<1> QED BY <1>0, <1>5, <1>6, RepairedFacts DEF Memories

LEMMA NextKeepsOrder ==
  ASSUME TypeInv, SettledInv, KernelInv, [Next]_vars
  PROVE  RanInOrder'
<1>0. /\ g \in Memories /\ kernel \in Kernels /\ RanInOrder
      /\ FreshKernel /\ DeadIsKnown /\ RowsAreSettled
  BY DEF TypeInv, MemoryOK, RuntimeOK, SettledInv, KernelInv
\* A step that leaves what has run.
<1>a. ASSUME Intact, g'.selected = g.selected, UNCHANGED ran, kernel'.code = kernel.code,
             kernel'.state = kernel.state, kernel'.batch = kernel.batch, kernel'.on = kernel.on
      PROVE  RanInOrder'
  <2>1. \A e \in Cells : AsOf(e)' <=> AsOf(e) BY <1>a DEF AsOf
  <2>2. kernel.on \in Cells \cup {NoCell} BY <1>0 DEF Kernels
  <2> QED BY <1>0, <1>a, <2>1, <2>2 DEF RanInOrder
<1>b. ASSUME ~Intact' PROVE RanInOrder'
  BY <1>b DEF RanInOrder
<1>1. CASE Connected
  <2>1. CASE g.cancel
    BY <1>0, <1>1, <1>b, <2>1 DEF Connected, Leave, Memories, Intact, Waiting
  <2>2. CASE ~g.cancel
    <3>1. kernel = [NoKernel EXCEPT !.code = g.doc] BY <1>0, <1>1 DEF Connected, FreshKernel
    <3>2. kernel.on = NoCell /\ \A e \in Cells : kernel.state[e] = "none"
      BY <3>1 DEF NoKernel
    <3>3. /\ kernel'.on = NoCell /\ kernel'.batch = g.selected
          /\ \A e \in Cells : kernel'.state[e] = "none"
      BY <1>0, <1>1, <2>2, <3>2 DEF Connected, Kernels
    <3>4. g'.selected = g.selected BY <1>0, <1>1, <2>2 DEF Connected, BeginBatch, Memories
    <3> QED BY <3>3, <3>4 DEF RanInOrder
  <2> QED BY <2>1, <2>2
<1>2. CASE BatchEnds \/ InventoryRead
  <2>1. Intact BY <1>2 DEF BatchEnds, InventoryRead, Intact
  <2> QED BY <1>0, <1>2, <1>a, <2>1 DEF BatchEnds, InventoryRead, Goto, Memories, runtime
<1>3. CASE BatchSettled \/ GraphPaused \/ TakeCommand \/ SourceRead
  <2>1. /\ g.pc \in Waiting /\ UNCHANGED <<kernel, ran>>
        /\ g'.pc \in Waiting \cup {"closing"}
        /\ g'.selected = g.selected /\ g'.dead = g.dead
    BY <1>0, <1>3 DEF BatchSettled, GraphPaused, TakeCommand, SourceRead, Rejects, Goto, Leave,
                      Memories, Waiting, runtime
  <2>2. CASE g.dead \/ g'.pc = "closing" BY <1>b, <2>1, <2>2 DEF Intact, Waiting
  <2>3. CASE ~g.dead BY <1>a, <2>1, <2>3 DEF Intact
  <2> QED BY <2>2, <2>3
<1>4. CASE BatchIsLost \/ InventoryFails \/ RepairFails
  BY <1>0, <1>4, <1>b DEF BatchIsLost, InventoryFails, GiveUpBatch, RepairFails, Memories, Intact
<1>5. CASE \/ StartFails \/ CheckpointFails \/ ReaderStops \/ Finish
           \/ BeginEpoch \/ Reap \/ NameRuntime \/ SessionClosed \/ Quiesce \/ Crash
           \/ \E from \in Starts : Open(from)
  <2>1. g'.pc \in {"closing", "killing", "cancelled", "over", "begin", "reap", "spawned",
                   "connect", "final", "down"}
    <3>1. CASE StartFails \/ CheckpointFails
      BY <1>0, <3>1 DEF StartFails, CheckpointFails, Leave, Memories
    <3>2. CASE ReaderStops \/ Finish \/ Reap \/ NameRuntime
      BY <1>0, <3>2 DEF ReaderStops, Finish, Reap, NameRuntime, Goto, Memories
    <3>3. CASE BeginEpoch BY <1>0, <3>3 DEF BeginEpoch, Goto, Memories
    <3>4. CASE SessionClosed
      BY <1>0, <3>4 DEF SessionClosed, Goto, AfterClose, Memories, Outcomes
    <3>5. CASE Quiesce \/ Crash BY <3>5 DEF Quiesce, Crash, Stopped
    <3>6. ASSUME NEW from \in Starts, Open(from) PROVE g'.pc \in {"begin", "cancelled"}
      BY <3>6 DEF Open, Stopped
    <3> QED BY <1>5, <3>1, <3>2, <3>3, <3>4, <3>5, <3>6
  <2> QED BY <2>1, <1>b DEF Intact, Waiting
<1>6. CASE Repaired BY <1>6, RepairKeepsOrder
<1>7. ASSUME \/ Runtime \/ Read \/ Dispatch
             \/ \E kind \in RecoveryKind, from \in Cells \cup {NoCell} : RequestRecovery(kind, from)
             \/ \E c \in Edited : Edit(c)
             \/ \E c \in Cells : TimeOut(c)
             \/ Cancel \/ RequestHangs \/ EscalateInterrupt \/ EscalateKill \/ UNCHANGED vars
      PROVE  RanInOrder'
  <2> SUFFICES ASSUME Intact' PROVE RanInOrder' BY <1>b
  <2>1. g'.pc = g.pc /\ g'.selected = g.selected /\ run'.epoch = run.epoch /\ alive' \subseteq alive
    BY <1>7, BesideTheRunner
  <2>2. kernel'.code = kernel.code BY <1>7, BesideTheSources
  <2>3. CASE g.pc \in {"batch", "inventory"}
    <3>1. Intact /\ Alive' BY <2>1, <2>3 DEF Intact, Alive, Waiting
    <3>2. ~KernelDies /\ ~EscalateKill
      BY <3>1, <2>1 DEF KernelDies, EscalateKill, Dies, Alive
    <3>3. ASSUME NEW c \in Cells, KernelRuns(c) PROVE RanInOrder'
      BY <1>0, <3>1, <3>3, ExecutingKeepsOrder
    <3>4. ASSUME NEW c \in Cells, KernelEnds(c) PROVE RanInOrder'
      BY <1>0, <3>1, <3>4, EndingKeepsOrder
    <3>5. CASE ~Runtime
      <4>1. /\ UNCHANGED ran /\ kernel'.state = kernel.state
            /\ kernel'.batch = kernel.batch /\ kernel'.on = kernel.on
        BY <1>0, <1>7, <3>2, <3>5
           DEF Read, Dispatch, RequestRecovery, Edit, TimeOut, Cancel, RequestHangs,
               EscalateInterrupt, vars, runtime, Kernels
      <4> QED BY <1>a, <2>1, <2>2, <3>1, <4>1
    <3> QED BY <3>2, <3>3, <3>4, <3>5 DEF Runtime
  <2>4. CASE g.pc \in Waiting /\ ~g.dead
    <3>1. wire = <<>> /\ kernel.batch = {} /\ kernel.on = NoCell
      BY <1>0, <2>4 DEF RowsAreSettled
    <3>2. /\ kernel'.batch = {} /\ kernel'.state = kernel.state /\ UNCHANGED ran
          /\ kernel'.on = NoCell
      BY <1>7, <3>1, IdleKernelKeeps
    <3> QED BY <1>a, <2>1, <2>2, <2>4, <3>1, <3>2 DEF Intact
  <2>5. g.pc \in Waiting => g'.dead = g.dead
    BY <1>0, <1>7
       DEF Runtime, KernelDies, KernelRuns, KernelEnds, Read, Dispatch, RequestRecovery, Edit,
           TimeOut, Cancel, RequestHangs, EscalateInterrupt, EscalateKill, Escalating, Waiting,
           vars, Memories
  <2> QED BY <2>1, <2>3, <2>4, <2>5 DEF Intact
<1> QED BY <1>1, <1>2, <1>3, <1>4, <1>5, <1>6, <1>7, StepsOfNext

LEMMA KernelInvHolds == Spec => []KernelInv
<1>1. Init => KernelInv
  BY DEF Init, Stopped, KernelInv, SourcesAgree, RanInOrder, Intact, Waiting
<1>2. TypeInv /\ SettledInv /\ KernelInv /\ [Next]_vars => KernelInv'
  BY NextKeepsSources, NextKeepsOrder DEF KernelInv
<1> QED BY <1>1, <1>2, TypeInvHolds, SettledInvHolds, PTL DEF Spec

-----------------------------------------------------------------------------
(* A run that is complete. *)

\* Only the end of a session settles a run.
LEMMA NextKeepsRunOpen ==
  ASSUME TypeInv, g.pc \notin {"down", "over"} => ~IsTerminal(run), [Next]_vars
  PROVE  g'.pc \notin {"down", "over"} => ~IsTerminal(run')
<1>0. g \in Memories /\ run \in Runs /\ cells \in CellTable
  BY DEF TypeInv, MemoryOK, RowsOK
<1> USE DEF IsTerminal, TerminalStatus
<1>1. ASSUME NEW from \in Starts, Open(from) PROVE ~IsTerminal(run')
  BY <1>0, <1>1, UpdateRunStatusRow DEF Open, RunStatus
<1>2. CASE BeginEpoch
  BY <1>0, <1>2 DEF BeginEpoch, BeginKernelEpoch, Runs, Goto, Memories
<1>3. CASE Read
  BY <1>0, <1>3, UpdateRunStatusRow DEF Read, RunStatus
<1>4. CASE Connected \/ Repaired
  <2>1. g.pc \notin {"down", "over"} BY <1>4 DEF Connected, Repaired
  <2>2. run' = run \/ run'.status = "running"
    BY <1>0, <1>4, UpdateRunningRow, RepairedFacts DEF Connected, BeginBatch
  <2> QED BY <2>1, <2>2
<1>5. CASE BatchSettled
  BY <1>0, <1>5 DEF BatchSettled, PauseFailedRun, Runs
<1>6. CASE Cancel
  <2>1. RequestRunCancellation(run, 1).status = "cancelling"
    BY <1>0, <1>6, RequestRunCancellationRow DEF Cancel
  <2> QED BY <1>6, <2>1 DEF Cancel
<1>7. CASE SessionClosed
  BY <1>0, <1>7 DEF SessionClosed, Goto, AfterClose, Memories, Outcomes
<1>8. CASE Finish BY <1>0, <1>8 DEF Finish, Goto, Memories
<1>9. CASE Quiesce \/ Crash BY <1>9 DEF Quiesce, Crash, Stopped
<1>10. CASE \/ Reap \/ NameRuntime \/ StartFails
            \/ BatchEnds \/ BatchIsLost \/ InventoryRead \/ InventoryFails
            \/ GraphPaused \/ CheckpointFails
            \/ TakeCommand \/ SourceRead \/ RepairFails \/ ReaderStops
  BY <1>0, <1>10 DEF Reap, NameRuntime, StartFails, BatchEnds, BatchIsLost, InventoryRead,
        InventoryFails, GiveUpBatch, GraphPaused, CheckpointFails, TakeCommand, SourceRead, RepairFails, ReaderStops, rows
<1>11. ASSUME \/ Runtime \/ Dispatch
              \/ \E kind \in RecoveryKind, from \in Cells \cup {NoCell} : RequestRecovery(kind, from)
              \/ \E c \in Edited : Edit(c)
              \/ \E c \in Cells : TimeOut(c)
              \/ RequestHangs \/ EscalateInterrupt \/ EscalateKill \/ UNCHANGED vars
       PROVE  run' = run /\ g'.pc = g.pc
  BY <1>11, BesideTheRunner
     DEF Runtime, KernelDies, KernelRuns, KernelEnds, Dispatch, RequestRecovery, Edit, TimeOut,
         RequestHangs, EscalateInterrupt, EscalateKill, rows, vars
<1> QED
  BY <1>1, <1>2, <1>3, <1>4, <1>5, <1>6, <1>7, <1>8, <1>9, <1>10, <1>11, StepsOfNext

LEMMA NextKeepsSessionless ==
  ASSUME TypeInv, g.pc \in Sessionless => kernel.batch = {}, [Next]_vars
  PROVE  g'.pc \in Sessionless => kernel'.batch = {}
<1>0. g \in Memories /\ kernel \in Kernels BY DEF TypeInv, MemoryOK, RuntimeOK
<1>1. CASE BeginEpoch
  BY <1>0, <1>1, BlankKernel DEF BeginEpoch, Goto, Memories, Sessionless
<1>2. CASE SessionClosed \/ Finish
  BY <1>0, <1>2 DEF SessionClosed, Finish, runtime, Sessionless
<1>3. ASSUME NEW from \in Starts, Open(from) PROVE g.pc \in Sessionless /\ kernel' = kernel
  BY <1>3 DEF Open, Up, runtime, Sessionless
<1>4. CASE Quiesce \/ Crash \/ ReaderStops
  BY <1>4, NothingHeard DEF Quiesce, Crash, ReaderStops
<1>5. CASE Reap \/ NameRuntime
  BY <1>0, <1>5 DEF Reap, NameRuntime, Goto, Memories, Sessionless
<1>6. ASSUME \/ StartFails \/ Connected
             \/ BatchEnds \/ BatchIsLost \/ InventoryRead \/ InventoryFails
             \/ BatchSettled \/ GraphPaused \/ CheckpointFails
             \/ TakeCommand \/ SourceRead \/ Repaired \/ RepairFails
      PROVE  g'.pc \notin Sessionless
  <2>1. g'.pc # "killing"
    <3>1. CASE StartFails \/ CheckpointFails
      BY <1>0, <3>1 DEF StartFails, CheckpointFails, Leave, Memories
    <3>2. CASE Connected BY <1>0, <3>2 DEF Connected, BeginBatch, Leave, Memories
    <3>3. CASE BatchEnds \/ BatchIsLost \/ InventoryRead \/ InventoryFails \/ BatchSettled
      BY <1>0, <3>3 DEF BatchEnds, BatchIsLost, InventoryRead, InventoryFails, GiveUpBatch,
                        BatchSettled, Goto, Leave, Memories
    <3>4. CASE GraphPaused \/ TakeCommand \/ SourceRead \/ RepairFails
      BY <1>0, <3>4 DEF GraphPaused, TakeCommand, SourceRead, Rejects, RepairFails, Leave, Memories
    <3>5. CASE Repaired BY <1>0, <3>5, RepairedFacts DEF BeginBatch, Memories
    <3> QED BY <1>6, <3>1, <3>2, <3>3, <3>4, <3>5
  <2> QED BY <1>6, <2>1, SessionSteps DEF Sessionless
<1>7. ASSUME \/ Runtime \/ Read \/ Dispatch
             \/ \E kind \in RecoveryKind, from \in Cells \cup {NoCell} : RequestRecovery(kind, from)
             \/ \E c \in Edited : Edit(c)
             \/ \E c \in Cells : TimeOut(c)
             \/ Cancel \/ RequestHangs \/ EscalateInterrupt \/ EscalateKill \/ UNCHANGED vars
      PROVE  g'.pc \in Sessionless => kernel'.batch = {}
  <2> SUFFICES ASSUME g.pc \in Sessionless PROVE kernel'.batch = {} BY <1>7, BesideTheRunner
  <2>1. kernel.batch = {} /\ g.pc # "batch" BY DEF Sessionless
  <2> QED BY <1>0, <1>7, <2>1
       DEF Runtime, KernelDies, KernelRuns, KernelEnds, Working, Dies, Read, Dispatch,
           RequestRecovery, Edit, TimeOut, Cancel, RequestHangs, EscalateInterrupt, EscalateKill,
           Escalating, vars, runtime, Kernels
<1> QED BY <1>1, <1>2, <1>3, <1>4, <1>5, <1>6, <1>7, StepsOfNext

\* A batch that leaves nothing to pause for has executed all that was selected.
LEMMA CompleteBatch ==
  ASSUME TypeInv, SettledInv, KernelInv, g.pc = "settled", Failed = {}, ~g.error
  PROVE  /\ wire = <<>> /\ kernel.batch = {}
         /\ \A c \in g.selected : cells[c].status = "succeeded" /\ RanAsRecorded(c)
<1>0. g \in Memories /\ kernel \in Kernels BY DEF TypeInv, MemoryOK, RuntimeOK
<1>1. ~g.dead BY DEF SettledInv, DeadIsKnown
<1>2. /\ wire = <<>> /\ kernel.batch = {} /\ kernel.on = NoCell
      /\ \A c \in Cells : cells[c].status = SettledStatus(c, kernel.state[c])
  BY <1>1 DEF SettledInv, RowsAreSettled, Waiting
<1>3. ASSUME NEW c \in g.selected PROVE cells[c].status = "succeeded" /\ RanAsRecorded(c)
  <2>1. c \in Cells BY <1>0 DEF Memories
  <2>2. kernel.state[c] \in CellState \ {"none"}
    BY <1>0, <1>1, <1>2, <2>1 DEF KernelInv, RanInOrder, Intact, Waiting, Kernels
  <2>3. SettledStatus(c, kernel.state[c]) \notin Unsuccessful BY <1>2, <2>1 DEF Failed
  <2>4. SettledStatus(c, kernel.state[c]) = "succeeded" /\ kernel.state[c] = "idle"
    BY <2>2, <2>3 DEF SettledStatus, CellState, Unsuccessful
  <2>5. NoCell \notin Ancestors[c]
    <3>1. NoCell \notin Cells BY NotebookHasCells DEF Cells, NoCell
    <3> QED BY <2>1, <3>1, AncestorMember
  <2>6. AsOf(c)
    BY <1>1, <1>2, <2>1, <2>4, <2>5 DEF KernelInv, RanInOrder, Intact, Waiting
  <2>7. ran.code[c] = kernel.code[c] /\ c \notin ran.outdated
    BY <2>1, <2>6, OwnAncestor DEF AsOf
  <2>8. kernel.code = g.doc /\ cells[c].src = g.doc[c]
    BY <2>1 DEF KernelInv, SourcesAgree, Waiting
  <2>9. RanAsRecorded(c) BY <2>7, <2>8 DEF RanAsRecorded
  <2> QED BY <1>2, <2>1, <2>4, <2>9
<1> QED BY <1>2, <1>3

LEMMA NextKeepsSuccess ==
  ASSUME TypeInv, SettledInv, KernelInv, SuccessInv, [Next]_vars
  PROVE  SuccessInv'
<1>0. /\ g \in Memories /\ run \in Runs /\ kernel \in Kernels
  BY DEF TypeInv, MemoryOK, RowsOK, RuntimeOK
<1>1. /\ g'.pc \notin {"down", "over"} => ~IsTerminal(run')
      /\ g'.pc \in Sessionless => kernel'.batch = {}
  BY NextKeepsRunOpen, NextKeepsSessionless DEF SuccessInv
<1> DEFINE AllSucceeded ==
             \A c \in g.selected : cells[c].status = "succeeded" /\ RanAsRecorded(c)
<1>2. Completed' => wire' = <<>> /\ kernel'.batch = {} /\ AllSucceeded'
  \* What was complete stays so while the rows, the selection and what ran are left.
  <2>a. ASSUME Completed, UNCHANGED <<cells, ran>>, g'.selected = g.selected,
               wire' = <<>>, kernel'.batch = {}
        PROVE  wire' = <<>> /\ kernel'.batch = {} /\ AllSucceeded'
    BY <2>a DEF SuccessInv, RanAsRecorded
  <2>0. Completed => wire = <<>> /\ kernel.batch = {} BY DEF SuccessInv
  <2> SUFFICES ASSUME Completed' PROVE wire' = <<>> /\ kernel'.batch = {} /\ AllSucceeded'
    OBVIOUS
  <2>1. CASE BatchSettled
    <3>1. Leave("complete") /\ Failed = {} /\ ~g.error /\ g.pc = "settled"
      BY <1>0, <2>1 DEF BatchSettled, Goto, Leave, Memories, Completed
    <3>2. AllSucceeded /\ wire = <<>> /\ kernel.batch = {} BY <3>1, CompleteBatch
    <3>3. UNCHANGED <<cells, runtime>> /\ g'.selected = g.selected
      BY <1>0, <2>1, <3>1 DEF BatchSettled, Leave, Memories
    <3> QED BY <3>2, <3>3 DEF runtime, RanAsRecorded
  <2>2. CASE ReaderStops
    <3>1. g.pc = "closing" /\ g'.next = g.next /\ g'.selected = g.selected /\ g'.pc = "killing"
      BY <1>0, <2>2 DEF ReaderStops, Goto, Memories
    <3>2. Completed BY <3>1 DEF Completed
    <3> QED BY <2>2, <2>a, <3>1, <3>2, NothingHeard DEF ReaderStops, rows
  <2>3. CASE SessionClosed
    <3>1. g.pc = "killing" /\ g'.pc = AfterClose[g.next] /\ g'.selected = g.selected
          /\ UNCHANGED <<cells, kernel, wire, ran>>
      BY <1>0, <2>3 DEF SessionClosed, Goto, Memories
    <3>2. CASE g.next = "failed"
      <4>1. ~IsTerminal(run) BY <3>1 DEF SuccessInv
      <4>2. FinishRun(run, "failed", "run.runner_error").status = "failed"
        BY <1>0, <4>1, FinishRunRow, EventsOfStatus DEF TerminalStatus
      <4> QED BY <2>3, <3>1, <3>2, <4>2 DEF SessionClosed, Completed, AfterClose
    <3>3. CASE g.next # "failed"
      <4>1. g.next = "complete"
        BY <1>0, <3>1, <3>3 DEF Completed, AfterClose, Memories, Outcomes
      <4>2. Completed BY <3>1, <4>1 DEF Completed
      <4> QED BY <2>0, <2>a, <3>1, <4>2
    <3> QED BY <3>2, <3>3
  <2>4. CASE Finish
    <3>1. /\ g.pc \in {"final", "cancelled"} /\ g'.pc \in {"cancelled", "over"}
          /\ g'.selected = g.selected /\ UNCHANGED <<cells, kernel, wire, ran>>
      BY <1>0, <2>4 DEF Finish, Goto, Memories, runtime
    <3>2. CASE g.pc = "final" BY <2>0, <2>a, <3>1, <3>2 DEF Completed
    <3>3. CASE g.pc = "cancelled"
      <4>1. ~IsTerminal(run) BY <3>3 DEF SuccessInv
      <4>2. FinishRun(run, "cancelled", "run.cancelled").status = "cancelled"
        BY <1>0, <4>1, FinishRunRow, EventsOfStatus DEF TerminalStatus
      <4> QED BY <2>4, <3>1, <3>3, <4>2 DEF Finish, Completed
    <3> QED BY <3>1, <3>2, <3>3
  <2>5. ASSUME \/ Runtime \/ Read \/ Dispatch
               \/ \E kind \in RecoveryKind, from \in Cells \cup {NoCell} : RequestRecovery(kind, from)
               \/ \E c \in Edited : Edit(c)
               \/ \E c \in Cells : TimeOut(c)
               \/ Cancel \/ RequestHangs \/ EscalateInterrupt \/ EscalateKill \/ UNCHANGED vars
        PROVE  wire' = <<>> /\ kernel'.batch = {} /\ AllSucceeded'
    <3>1. g'.pc = g.pc /\ g'.selected = g.selected /\ g'.next = g.next
      BY <2>5, BesideTheRunner, BesideTheSources
    <3>2. g.pc = "over" => run.status = "succeeded"
      <4> SUFFICES ASSUME g.pc = "over" PROVE run.status = "succeeded" OBVIOUS
      <4>1. run'.status = "succeeded" BY <3>1 DEF Completed
      <4>2. ~Read BY DEF Read, Reading
      <4>3. CASE Cancel
        BY <1>0, <4>1, <4>3, RequestRunCancellationRow DEF Cancel
      <4>4. CASE ~Cancel
        <5>1. UNCHANGED run
          BY <2>5, <4>2, <4>4
             DEF Runtime, KernelDies, KernelRuns, KernelEnds, Dispatch, RequestRecovery, Edit,
                 TimeOut, RequestHangs, EscalateInterrupt, EscalateKill, rows, vars
        <5> QED BY <4>1, <5>1
      <4> QED BY <4>3, <4>4
    <3>3. Completed BY <3>1, <3>2 DEF Completed
    <3>4. wire' = <<>> /\ kernel'.batch = {} /\ UNCHANGED <<cells, ran>>
      BY <2>0, <2>5, <3>3, IdleKernelKeeps
    <3> QED BY <2>a, <3>1, <3>3, <3>4
  <2>6. ASSUME \/ BeginEpoch \/ Reap \/ NameRuntime \/ StartFails \/ Connected
               \/ BatchEnds \/ BatchIsLost \/ InventoryRead \/ InventoryFails
               \/ GraphPaused \/ CheckpointFails
               \/ TakeCommand \/ SourceRead \/ Repaired \/ RepairFails \/ Quiesce \/ Crash
               \/ \E from \in Starts : Open(from)
        PROVE  ~Completed'
    <3>1. CASE BeginEpoch BY <1>0, <3>1 DEF BeginEpoch, Goto, Memories, Completed
    <3>2. CASE Reap \/ NameRuntime \/ BatchEnds
      BY <1>0, <3>2 DEF Reap, NameRuntime, BatchEnds, Goto, Memories, Completed
    <3>3. CASE StartFails \/ CheckpointFails
      BY <1>0, <3>3 DEF StartFails, CheckpointFails, Leave, Memories, Completed
    <3>4. CASE Connected BY <1>0, <3>4 DEF Connected, BeginBatch, Leave, Memories, Completed
    <3>5. CASE BatchIsLost \/ InventoryRead \/ InventoryFails \/ GraphPaused
      BY <1>0, <3>5 DEF BatchIsLost, InventoryRead, InventoryFails, GiveUpBatch, GraphPaused,
                        Memories, Completed
    <3>6. CASE TakeCommand \/ SourceRead \/ RepairFails
      BY <1>0, <3>6 DEF TakeCommand, SourceRead, Rejects, RepairFails, Leave, Memories, Completed
    <3>7. CASE Repaired
      BY <1>0, <3>7, RepairedFacts DEF BeginBatch, Memories, Completed
    <3>8. CASE Quiesce \/ Crash BY <3>8 DEF Quiesce, Crash, Stopped, Completed
    <3>9. ASSUME NEW from \in Starts, Open(from) PROVE ~Completed'
      BY <3>9 DEF Open, Stopped, Completed
    <3> QED BY <2>6, <3>1, <3>2, <3>3, <3>4, <3>5, <3>6, <3>7, <3>8, <3>9
  <2> QED BY <2>1, <2>2, <2>3, <2>4, <2>5, <2>6, StepsOfNext
<1> QED BY <1>1, <1>2 DEF SuccessInv, IsTerminal

\* What a batch leaves as succeeded did run, and so did all that it needs, each
\* with the code that is recorded for it and after what it needs itself; and a
\* run succeeds only when that holds of all that was selected (_settled_status,
\* _execute_graph, _apply_repair).
THEOREM SuccessesAreCurrent == Spec => []SuccessIsCurrent
<1>1. Init => SuccessInv
  BY DEF Init, Stopped, NoKernel, SuccessInv, Completed
<1>2. TypeInv /\ SettledInv /\ KernelInv /\ SuccessInv => SuccessIsCurrent
  <2> SUFFICES ASSUME TypeInv, SettledInv, KernelInv, SuccessInv PROVE SuccessIsCurrent
    OBVIOUS
  <2>1. ASSUME g.pc \in {"settled", "pausing", "recover"}, ~g.dead, NEW c \in Cells,
               cells[c].status = "succeeded", NEW d \in Ancestors[c]
        PROVE  RanAsRecorded(d) /\ ran.code[d] = g.doc[d]
    <3>1. kernel.batch = {} /\ kernel.on = NoCell
          /\ cells[c].status = SettledStatus(c, kernel.state[c])
      BY <2>1 DEF SettledInv, RowsAreSettled, Waiting
    <3>2. kernel.state[c] = "idle"
      <4>1. kernel.state[c] \in CellState BY DEF TypeInv, RuntimeOK, Kernels
      <4> QED BY <2>1, <3>1, <4>1 DEF SettledStatus, CellState
    <3>3. NoCell \notin Ancestors[c]
      <4>1. NoCell \notin Cells BY NotebookHasCells DEF Cells, NoCell
      <4> QED BY <4>1, AncestorMember
    <3>4. AsOf(c) BY <2>1, <3>1, <3>2, <3>3 DEF KernelInv, RanInOrder, Intact, Waiting
    <3>5. d \in Cells BY AncestorMember
    <3>6. kernel.code = g.doc /\ cells[d].src = g.doc[d]
      BY <2>1, <3>5 DEF KernelInv, SourcesAgree, Waiting
    <3>7. ran.code[d] = kernel.code[d] /\ d \notin ran.outdated BY <3>4 DEF AsOf
    <3> QED BY <3>6, <3>7 DEF RanAsRecorded
  <2> QED BY <2>1 DEF SuccessIsCurrent, SuccessInv, Completed
<1> QED
  BY <1>1, <1>2, NextKeepsSuccess, TypeInvHolds, SettledInvHolds, KernelInvHolds, PTL DEF Spec

=============================================================================
