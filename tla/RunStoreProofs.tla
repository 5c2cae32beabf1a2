---------------------------- MODULE RunStoreProofs ----------------------------
(***************************************************************************)
(* The operations of RunStore keep the types of the rows, and what they do *)
(* to the fields that the run's invariants are about.                      *)
(***************************************************************************)
EXTENDS RunStore, SequenceTheorems, TLAPS

LEMMA CellsAreNaturals == Cells \subseteq Nat /\ NoCell \in Nat /\ 0 \in Cells
  BY NotebookHasCells DEF Cells, NoCell

LEMMA EventsOfStatus ==
  /\ "run.succeeded" \in TerminalEventsOf("succeeded")
  /\ "run.cancelled" \in TerminalEventsOf("cancelled")
  /\ {"run.runner_error", "run.failed_external", "run.external_timeout"}
       = TerminalEventsOf("failed")
  BY DEF TerminalEventsOf

LEMMA EventsAreTerminal ==
  \A s \in TerminalStatus : TerminalEventsOf(s) \subseteq TerminalEvents
  BY DEF TerminalEvents

-----------------------------------------------------------------------------
(* runs *)

LEMMA UpdateRunStatusRow ==
  ASSUME NEW r \in Runs, NEW s \in RunStatus
  PROVE  /\ UpdateRunStatus(r, s) \in Runs
         /\ UpdateRunStatus(r, s).status = s
         /\ UpdateRunStatus(r, s).asked = r.asked
         /\ UpdateRunStatus(r, s).finalized => r.finalized
  BY DEF UpdateRunStatus, Runs

LEMMA UpdateRunningRow ==
  ASSUME NEW r \in Runs
  PROVE  /\ UpdateRunning(r) \in Runs
         /\ UpdateRunning(r).status = "running"
         /\ UpdateRunning(r).asked = r.asked
         /\ UpdateRunning(r).finalized => r.finalized
  BY DEF UpdateRunning, UpdateRunStatus, Runs, RunStatus, NoAttempt

LEMMA FinishRunRow ==
  ASSUME NEW r \in Runs, NEW s \in TerminalStatus, NEW e \in TerminalEventsOf(s)
  PROVE  /\ FinishRun(r, s, e) \in Runs
         /\ IsTerminal(r) => FinishRun(r, s, e) = r
         /\ ~IsTerminal(r) => /\ FinishRun(r, s, e).status = s
                              /\ FinishRun(r, s, e).event = e
                              /\ FinishRun(r, s, e).eventEpoch = FinishRun(r, s, e).epoch
                              /\ ~FinishRun(r, s, e).finalized
                              /\ FinishRun(r, s, e).asked = 0
<1>1. e \in TerminalEvents BY EventsAreTerminal
<1> QED BY <1>1 DEF FinishRun, IsTerminal, Runs, RunStatus, TerminalStatus, NoAttempt

LEMMA RequestRunCancellationRow ==
  ASSUME NEW r \in Runs, NEW n \in Nat
  PROVE  /\ RequestRunCancellation(r, n) \in Runs
         /\ IsTerminal(r) => RequestRunCancellation(r, n) = r
         /\ ~IsTerminal(r) => RequestRunCancellation(r, n).status = "cancelling"
         /\ RequestRunCancellation(r, n).asked \in {r.asked, n}
         /\ RequestRunCancellation(r, n).finalized = r.finalized
  BY DEF RequestRunCancellation, IsTerminal, Runs, RunStatus

LEMMA BeginKernelEpochRow ==
  ASSUME NEW r \in Runs
  PROVE  /\ BeginKernelEpoch(r) \in Runs
         /\ BeginKernelEpoch(r).status = r.status
         /\ BeginKernelEpoch(r).asked = r.asked
         /\ ~BeginKernelEpoch(r).finalized
<1>1. PICK n \in Nat : n = r.epoch + 1 BY DEF Runs
<1>2. BeginKernelEpoch(r) = [r EXCEPT !.epoch = n, !.finalized = FALSE]
  BY <1>1 DEF BeginKernelEpoch
<1> QED BY <1>2 DEF Runs

LEMMA MarkRunFinalizedRow ==
  ASSUME NEW r \in Runs, NEW s \in RunStatus
  PROVE  /\ MarkRunFinalized(r, s) \in Runs
         /\ MarkRunFinalized(r, s).status = r.status
         /\ MarkRunFinalized(r, s).epoch = r.epoch
         /\ MarkRunFinalized(r, s).event = r.event
         /\ MarkRunFinalized(r, s).eventEpoch = r.eventEpoch
         /\ MarkRunFinalized(r, s).asked = r.asked
         /\ MarkRunFinalized(r, s).finalized => r.finalized \/ IsTerminal(r)
  BY DEF MarkRunFinalized, Runs

LEMMA PauseFailedRunRow ==
  ASSUME NEW r \in Runs, NEW c \in Cells, NEW n \in Nat
  PROVE  /\ PauseFailedRun(r, c, n) \in Runs
         /\ PauseFailedRun(r, c, n).status = "paused"
         /\ PauseFailedRun(r, c, n).asked = r.asked
         /\ PauseFailedRun(r, c, n).finalized = r.finalized
  BY DEF PauseFailedRun, Runs, RunStatus

-----------------------------------------------------------------------------
(* cells *)

CellTable == [Cells -> CellRows]

LEMMA UpdateSourceRows ==
  ASSUME NEW cs \in CellTable, NEW src \in Notebooks
  PROVE  UpdateSource(cs, src) \in CellTable
  BY DEF UpdateSource, CellTable, CellRows, Notebooks

LEMMA ReplaceRows ==
  ASSUME NEW src \in Notebooks, NEW epoch \in Nat, NEW from \in Cells
  PROVE  ReplaceCellsForRestart(src, epoch, from) \in CellTable
  BY DEF ReplaceCellsForRestart, CellTable, CellRows, Notebooks, CellStatus

LEMMA BeginCellAttemptRows ==
  ASSUME NEW cs \in CellTable, NEW c \in Cells, NEW src \in Nat, NEW epoch \in Nat
  PROVE  BeginCellAttempt(cs, c, src, epoch) \in CellTable
  BY DEF BeginCellAttempt, CellTable, CellRows, CellStatus

LEMMA CompleteCellRows ==
  ASSUME NEW cs \in CellTable, NEW c, NEW status \in CellStatus
  PROVE  CompleteCell(cs, c, status) \in CellTable
  BY DEF CompleteCell, CellTable, CellRows, CellStatus

-----------------------------------------------------------------------------
(* actions *)

LEMMA NewActionRow ==
  ASSUME NEW kind \in ActionKind, NEW r \in Runs, NEW src \in Notebooks, NEW from \in Cells
  PROVE  NewAction(kind, r, src, from) \in Actions
  BY DEF NewAction, Actions, Runs, ActionStatus

LEMMA FunctionIsSeq ==
  ASSUME NEW S, NEW n \in Nat, NEW f \in [1 .. n -> S]
  PROVE  f \in Seq(S) /\ Len(f) = n
<1>1. f \in Seq(S) BY SeqDef
<1>2. Len(f) \in Nat /\ 1 .. Len(f) = 1 .. n BY <1>1, LenProperties
<1>3. Len(f) = n BY <1>2
<1> QED BY <1>1, <1>3

\* An operation that changes rows one by one keeps the table of actions.
LEMMA RowsStayActions ==
  ASSUME NEW as \in Seq(Actions), NEW bs, DOMAIN bs = DOMAIN as,
         bs = [i \in DOMAIN bs |-> bs[i]],
         \A i \in ActionIds(as) : bs[i] \in Actions
  PROVE  bs \in Seq(Actions) /\ Len(bs) = Len(as)
<1>1. Len(as) \in Nat /\ DOMAIN as = 1 .. Len(as) BY LenProperties
<1>2. bs \in [1 .. Len(as) -> Actions] BY <1>1 DEF ActionIds
<1> QED BY <1>1, <1>2, FunctionIsSeq

LEMMA ClaimActionRows ==
  ASSUME NEW as \in Seq(Actions), NEW i
  PROVE  /\ ClaimAction(as, i) \in Seq(Actions)
         /\ Len(ClaimAction(as, i)) = Len(as)
<1> DEFINE bs == ClaimAction(as, i)
<1>1. Len(as) \in Nat /\ as \in [1 .. Len(as) -> Actions] BY LenProperties
<1>2. DOMAIN bs = DOMAIN as /\ bs = [j \in DOMAIN bs |-> bs[j]]
  BY <1>1 DEF ClaimAction
<1>3. \A j \in ActionIds(as) : bs[j] \in Actions
  BY <1>1 DEF ClaimAction, Actions, ActionStatus, ActionIds
<1> QED BY <1>2, <1>3, RowsStayActions

LEMMA FinishActionRows ==
  ASSUME NEW as \in Seq(Actions), NEW i, NEW status \in ActionStatus
  PROVE  /\ FinishAction(as, i, status) \in Seq(Actions)
         /\ Len(FinishAction(as, i, status)) = Len(as)
<1> DEFINE bs == FinishAction(as, i, status)
<1>1. Len(as) \in Nat /\ as \in [1 .. Len(as) -> Actions] BY LenProperties
<1>2. DOMAIN bs = DOMAIN as /\ bs = [j \in DOMAIN bs |-> bs[j]]
  BY <1>1 DEF FinishAction
<1>3. \A j \in ActionIds(as) : bs[j] \in Actions
  BY <1>1 DEF FinishAction, Actions, ActionStatus, ActionIds
<1> QED BY <1>2, <1>3, RowsStayActions

LEMMA RecoverRows ==
  ASSUME NEW as \in Seq(Actions)
  PROVE  /\ RecoverIncompleteActions(as) \in Seq(Actions)
         /\ Len(RecoverIncompleteActions(as)) = Len(as)
<1> DEFINE bs == RecoverIncompleteActions(as)
<1>1. Len(as) \in Nat /\ as \in [1 .. Len(as) -> Actions] BY LenProperties
<1>2. DOMAIN bs = DOMAIN as /\ bs = [j \in DOMAIN bs |-> bs[j]]
  BY <1>1 DEF RecoverIncompleteActions, ActionIds
<1>3. \A j \in ActionIds(as) : bs[j] \in Actions
  BY <1>1 DEF RecoverIncompleteActions, Actions, ActionStatus, ActionIds
<1> QED BY <1>2, <1>3, RowsStayActions

LEMMA RejectRows ==
  ASSUME NEW as \in Seq(Actions), NEW i
  PROVE  /\ RejectRequestsAfter(as, i) \in Seq(Actions)
         /\ Len(RejectRequestsAfter(as, i)) = Len(as)
<1> DEFINE bs == RejectRequestsAfter(as, i)
<1>1. Len(as) \in Nat /\ as \in [1 .. Len(as) -> Actions] BY LenProperties
<1>2. DOMAIN bs = DOMAIN as /\ bs = [j \in DOMAIN bs |-> bs[j]]
  BY <1>1 DEF RejectRequestsAfter, ActionIds
<1>3. \A j \in ActionIds(as) : bs[j] \in Actions
  BY <1>1 DEF RejectRequestsAfter, Actions, ActionStatus, ActionIds
<1> QED BY <1>2, <1>3, RowsStayActions
=============================================================================
