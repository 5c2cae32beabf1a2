------------------------------ MODULE RunStore ------------------------------
(***************************************************************************)
(* The durable state of a run, and the operations of storage.py on it.     *)
(*                                                                         *)
(* Every operation is one SQLite commit.  It is a function here, from the  *)
(* rows before to the rows after, so that a step of the supervisor can     *)
(* make it one of its own commits and a crash can fall between two.        *)
(* Timestamps, messages, labels, tracebacks and kernel ids are left out;   *)
(* a notebook is the version of the source of each cell, and a source hash *)
(* is the notebook it digests.                                             *)
(***************************************************************************)
EXTENDS Naturals, Sequences

CONSTANTS NumCells,   \* cells of the notebook
          CodeCells   \* those that hold code; the others are skipped

ASSUME NotebookHasCells == NumCells \in Nat \ {0}
ASSUME CodeIsInCells == CodeCells \subseteq 0 .. NumCells - 1

Cells == 0 .. NumCells - 1
NoCell == NumCells          \* SQL NULL in failed_cell_index
NoAttempt == 0              \* SQL NULL in failed_attempt

Notebooks == [Cells -> Nat]

RunStatus == {"created", "starting", "running", "paused", "restarting",
              "waiting_external", "finalizing", "succeeded", "failed",
              "cancelling", "cancelled"}
TerminalStatus == {"succeeded", "failed", "cancelled"}

\* _ALLOWED_TERMINAL_EVENTS
TerminalEventsOf(status) ==
  [succeeded |-> {"run.succeeded"},
   cancelled |-> {"run.cancelled"},
   failed    |-> {"run.runner_error", "run.failed_external",
                  "run.external_timeout"}][status]
TerminalEvents == UNION {TerminalEventsOf(s) : s \in TerminalStatus}

CellStatus == {"pending", "not_replayed", "running", "succeeded", "failed",
               "interrupted", "skipped", "settling", "stale", "blocked"}

ActionKind == {"resume", "restart", "stop_resource"}
RecoveryKind == {"resume", "restart"}
ActionStatus == {"requested", "executing", "completed", "rejected", "failed"}

\* A row of `runs`.  `asked` is history: the process (by number) in which the
\* cancellation of the current attempt at the run was persisted, else 0.
Runs == [status: RunStatus, epoch: Nat, failedCell: Cells \cup {NoCell},
         failedAttempt: Nat, event: TerminalEvents \cup {"none"},
         eventEpoch: Nat, finalized: BOOLEAN, asked: Nat]
CellRows == [status: CellStatus, attempt: Nat, epoch: Nat, src: Nat]
Actions == [kind: ActionKind, status: ActionStatus, epoch: Nat, attempt: Nat,
            failedCell: Cells \cup {NoCell}, src: Notebooks, from: Cells,
            recovered: BOOLEAN]

NewRun == [status |-> "created", epoch |-> 0, failedCell |-> NoCell,
           failedAttempt |-> NoAttempt, event |-> "none", eventEpoch |-> 0,
           finalized |-> FALSE, asked |-> 0]

-----------------------------------------------------------------------------
(* runs *)

IsTerminal(r) == r.status \in TerminalStatus


\* update_run_status: no guard on the status it replaces.
UpdateRunStatus(r, status) ==
  [r EXCEPT !.status = status,
            !.finalized = @ /\ status \notin {"starting", "restarting"}]

\* The callers that enter a cell or a kernel clear the failure as well.
UpdateRunning(r) ==
  [UpdateRunStatus(r, "running") EXCEPT !.failedCell = NoCell,
                                        !.failedAttempt = NoAttempt]

\* finish_run.  It raises, and changes nothing, on a terminal run.
FinishRun(r, status, event) ==
  IF IsTerminal(r) THEN r
  ELSE [r EXCEPT !.status = status,
                 !.event = event,
                 !.eventEpoch = r.epoch,
                 !.finalized = FALSE,
                 !.asked = 0,
                 !.failedCell = IF status = "succeeded" THEN NoCell ELSE @,
                 !.failedAttempt = IF status = "succeeded" THEN NoAttempt ELSE @]

\* request_run_cancellation, by the process with this number.
RequestRunCancellation(r, process) ==
  IF IsTerminal(r) \/ r.status = "cancelling" THEN r
  ELSE [r EXCEPT !.status = "cancelling", !.asked = process]

BeginKernelEpoch(r) == [r EXCEPT !.epoch = @ + 1, !.finalized = FALSE]

\* mark_run_finalized: ended_at is set exactly while the run is terminal.
MarkRunFinalized(r, expected) ==
  [r EXCEPT !.finalized = @ \/ (r.status = expected /\ IsTerminal(r))]

-----------------------------------------------------------------------------
(* cells *)

InitializeCells(src) ==
  [c \in Cells |-> [status |-> "pending", attempt |-> 0, epoch |-> 0, src |-> src[c]]]

UpdateSource(cs, src) == [c \in Cells |-> [cs[c] EXCEPT !.src = src[c]]]

ReplaceCellsForRestart(src, epoch, from) ==
  [c \in Cells |-> [status |-> IF c < from THEN "not_replayed" ELSE "pending",
                    attempt |-> 0, epoch |-> epoch, src |-> src[c]]]

BeginCellAttempt(cs, c, src, epoch) ==
  [cs EXCEPT ![c] = [status |-> "running", attempt |-> @.attempt + 1,
                     epoch |-> epoch, src |-> src]]

CompleteCell(cs, c, status) == [cs EXCEPT ![c].status = status]

MarkCellSkipped(cs, c) == CompleteCell(cs, c, "skipped")

\* pause_failed_cell: the failed cell, the paused run and the failure event
\* in one transaction.  (The attempt and the epoch it compares are the ones
\* its caller has just read.)
PauseFailedRun(r, c, attempt) ==
  [r EXCEPT !.status = "paused", !.failedCell = c, !.failedAttempt = attempt]

-----------------------------------------------------------------------------
(* actions, in the order of requested_at *)

ActionIds(as) == 1 .. Len(as)

NewAction(kind, r, src, from) ==
  [kind |-> kind, status |-> "requested", epoch |-> r.epoch,
   attempt |-> r.failedAttempt, failedCell |-> r.failedCell,
   src |-> src, from |-> from, recovered |-> FALSE]

Pending(as, status) == {i \in ActionIds(as) : as[i].status = status}

Unsettled(as) == Pending(as, "requested") \cup Pending(as, "executing")

\* claim_next_action takes the oldest request.
IsNextAction(as, i) ==
  /\ i \in Pending(as, "requested")
  /\ \A j \in Pending(as, "requested") : i <= j

ClaimAction(as, i) == [as EXCEPT ![i].status = "executing"]

\* finish_action leaves an action that has settled as it is.
FinishAction(as, i, status) ==
  [as EXCEPT ![i].status = IF @ \in {"requested", "executing"} THEN status ELSE @]

RecoverIncompleteActions(as) ==
  [i \in ActionIds(as) |->
     IF as[i].status = "executing"
     THEN [as[i] EXCEPT !.status = "requested", !.recovered = TRUE]
     ELSE as[i]]

RecoveryRequests(as) ==
  {i \in Pending(as, "requested") : as[i].kind \in RecoveryKind}

\* The newer requests of a recovery give way to the one that is taken up.
RejectRequestsAfter(as, i) ==
  [j \in ActionIds(as) |-> IF j \in RecoveryRequests(as) /\ j > i
                           THEN [as[j] EXCEPT !.status = "rejected"]
                           ELSE as[j]]

HasUnfinishedStopActions(as) ==
  \E i \in Unsettled(as) : as[i].kind = "stop_resource"

AnotherRecoveryIsExecuting(as, i) ==
  \E j \in ActionIds(as) \ {i} : /\ as[j].kind \in RecoveryKind
                                 /\ as[j].status = "executing"
=============================================================================
