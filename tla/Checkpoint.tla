----------------------------- MODULE Checkpoint -----------------------------
(***************************************************************************)
(* Rolling checkpoints and the write-back of the user's notebook           *)
(* (_runner_core.py): the notebook in memory is serialized on the event    *)
(* loop and written by a worker thread to executed.partial.ipynb; a forced *)
(* checkpoint at the end of a cell also replaces the user's notebook, which *)
(* the user may edit, guarded by a hash in writeback-state.json.           *)
(*                                                                         *)
(* Two tasks checkpoint: the runner and the checkpoint loop.  Cancelling a *)
(* task that awaits a thread releases its lock and leaves the thread at    *)
(* work: an orphan.  The run lock is released before asyncio.run joins the *)
(* orphans, so a thread of one process may meet the next process.          *)
(*                                                                         *)
(* A content of the notebook is a number from one clock, which also dates  *)
(* the state of the notebook in memory; 0 is the original.                 *)
(***************************************************************************)
EXTENDS Naturals

CONSTANTS MaxClock,     \* bound on changes of the notebook, in memory or by the user
          MaxFailures,  \* bound on failing file operations
          MaxProcesses  \* bound on the processes that work on the run

ASSUME BoundsAreNaturals == /\ MaxClock \in Nat \ {0} /\ MaxFailures \in Nat
                            /\ MaxProcesses \in Nat \ {0}

VARIABLES
  partial, notebook, guard,     \* the files: checkpoint, user's notebook, its hash
  doc,                          \* the notebook in memory
  requested, persisted, event,  \* checkpoint generations, _checkpoint_event
  expected,                     \* _expected_notebook_hash
  lock,                         \* the task that holds _checkpoint_lock
  rn, lp,                       \* the runner and the checkpoint loop
  th,                           \* the thread that each of them awaits
  orphans,                      \* the threads at work that nobody awaits
  number,                       \* how many processes there have been
  clock, failures,              \* counters
  edited, unguarded, overlap    \* history: see Edit and Reopen

files == <<partial, notebook, guard>>
generations == <<requested, persisted, event>>
history == <<edited, unguarded, overlap>>
counters == <<number, clock>>
vars == <<files, doc, generations, expected, lock, rn, lp, th, orphans,
          counters, failures, history>>

Contents == 0 .. MaxClock
NoGuard == MaxClock + 1
Documents == [content: Contents, at: Contents]

Tasks == {"runner", "loop"}
Other(task) == IF task = "runner" THEN "loop" ELSE "runner"

\* saved: the checkpoint is written; done: the notebook and its hash too.
Working == {"partial", "compare", "verify", "replace", "record"}
Steps == Working \cup {"idle", "saved", "done", "refused", "error"}
Threads == [step: Steps,
            snapshot: Documents, writeback: BOOLEAN, target: Nat,
            expected: Contents \cup {NoGuard}, seen: Contents, process: Nat]

Ended == {"succeeded", "cancelled", "failed", "quiesced"}
Results == {"exec", "succeeded", "cancelled", "external", "failed"}
Runners == [pc: {"none", "prepare", "baseline", "exec", "lock", "write", "closing"}
                  \cup Ended,
            then: Results, writeback: BOOLEAN]

Original == [content |-> 0, at |-> 0]
NoThread == [step |-> "idle", snapshot |-> Original, writeback |-> FALSE, target |-> 0,
             expected |-> 0, seen |-> 0, process |-> 0]

At(pc) == rn.pc = pc
Goto(pc) == rn' = [rn EXCEPT !.pc = pc]
AllThreads == orphans \cup {th[task] : task \in Tasks}
AtWork(t) == t.step \in Working
Left(task) == {t \in {th[task]} : AtWork(t)}   \* an orphan if the task goes

Init ==
  /\ partial = Original /\ notebook = 0 /\ guard = NoGuard
  /\ doc = Original /\ requested = 0 /\ persisted = 0 /\ event = FALSE
  /\ expected = NoGuard /\ lock = "free" /\ lp = "none"
  /\ rn = [pc |-> "prepare", then |-> "exec", writeback |-> FALSE]
  /\ th = [task \in Tasks |-> NoThread] /\ orphans = {}
  /\ number = 1 /\ clock = 0 /\ failures = 0
  /\ edited = {} /\ unguarded = {} /\ overlap = FALSE

-----------------------------------------------------------------------------
(* Threads.  t goes to step s.  An operation on a file takes effect whole, *)
(* and may raise with or without its effect (the directory is synchronized *)
(* after the replacement).                                                 *)

Effect(t) ==
  /\ partial' = IF t.step = "partial" THEN t.snapshot ELSE partial
  /\ notebook' = IF t.step = "replace" THEN t.snapshot.content ELSE notebook
  /\ guard' = IF t.step = "record" THEN t.snapshot.content ELSE guard

WritesFile(t, s) ==
  /\ t.step \in {"partial", "replace", "record"}
  /\ Effect(t) /\ UNCHANGED failures
  /\ s = [partial |-> "saved", replace |-> "record", record |-> "done"][t.step]

Compares(t, s) ==
  /\ t.step = "compare" /\ UNCHANGED <<files, failures>>
  /\ s = IF notebook = t.expected THEN "verify"
         ELSE IF notebook = t.snapshot.content THEN "record"
         ELSE "refused"

VerifiesNothing(t, s) ==   \* mutant: the notebook is not compared again
  /\ t.step = "verify" /\ UNCHANGED <<files, failures>>
  /\ s = "replace"

Verifies(t, s) ==
  /\ t.step = "verify" /\ UNCHANGED <<files, failures>>
  /\ s = IF notebook = t.seen THEN "replace" ELSE "refused"

Raises(t, s) ==
  /\ AtWork(t) /\ failures < MaxFailures
  /\ Effect(t) \/ UNCHANGED files
  /\ failures' = failures + 1
  /\ s = "error"

ThreadMoves(t, s) == WritesFile(t, s) \/ Compares(t, s) \/ Verifies(t, s) \/ Raises(t, s)

Moved(t, s) == [t EXCEPT !.step = s, !.seen = IF t.step = "compare" THEN notebook ELSE @]

\* The thread that has written the hash also sets it in memory.
TaskThread(task) ==
  \E s \in Steps :
    /\ ThreadMoves(th[task], s)
    /\ th' = [th EXCEPT ![task] = Moved(@, s)]
    /\ expected' = IF s = "done" THEN th[task].snapshot.content ELSE expected
    /\ UNCHANGED <<doc, generations, lock, rn, lp, orphans, counters, history>>

Orphan ==
  \E t \in orphans, s \in Steps :
    /\ ThreadMoves(t, s)
    /\ orphans' = (orphans \ {t}) \cup (IF s \in Working THEN {Moved(t, s)} ELSE {})
    /\ UNCHANGED <<doc, generations, expected, lock, rn, lp, th, counters, history>>

-----------------------------------------------------------------------------
(* _checkpoint.  The lock goes to the task that waits for it.              *)

Waits(task) == IF task = "runner" THEN At("lock") ELSE lp = "lock"
Released(task) == IF Waits(Other(task)) THEN Other(task) ELSE "free"
MayEnterAnytime(task) == Waits(task)   \* mutant: the lock is not awaited
MayEnter(task) == Waits(task) /\ lock \in {"free", task}

StartThread(task, writeback) ==
  /\ lock' = task
  /\ th' = [th EXCEPT ![task] =
              [NoThread EXCEPT !.step = "partial", !.snapshot = doc,
                               !.writeback = writeback, !.target = requested,
                               !.expected = expected, !.process = number]]

PersistedAll(task) ==   \* mutant: the event is cleared without a comparison
  /\ persisted' = IF th[task].target > persisted THEN th[task].target ELSE persisted
  /\ event' = FALSE
  /\ UNCHANGED requested

\* The generation written is compared with the one requested, and the event
\* cleared, without an await.
Persisted(task) ==
  /\ persisted' = IF th[task].target > persisted THEN th[task].target ELSE persisted
  /\ \/ persisted' >= requested /\ event' = FALSE
     \/ persisted' < requested /\ event' = TRUE
  /\ UNCHANGED requested

ThreadEnds(task) == /\ th' = [th EXCEPT ![task] = NoThread]
                    /\ lock' = Released(task)

-----------------------------------------------------------------------------
(* The checkpoint loop.                                                    *)

\* The event is set; the loop sleeps for the interval.
LoopWakes ==
  /\ lp = "wait" /\ event
  /\ lp' = "sleep"
  /\ UNCHANGED <<files, doc, generations, expected, lock, rn, th, orphans,
                 counters, failures, history>>

LoopChecks ==
  /\ lp = "sleep"
  /\ lp' = IF persisted >= requested THEN "wait" ELSE "lock"
  /\ UNCHANGED <<files, doc, generations, expected, lock, rn, th, orphans,
                 counters, failures, history>>

LoopEnters ==
  /\ MayEnter("loop")
  /\ \/ /\ persisted >= requested
        /\ lp' = "wait" /\ lock' = Released("loop") /\ UNCHANGED th
     \/ /\ persisted < requested
        /\ lp' = "write" /\ StartThread("loop", FALSE)
  /\ UNCHANGED <<files, doc, generations, expected, rn, orphans,
                 counters, failures, history>>

LoopSaved ==
  /\ lp = "write" /\ th["loop"].step = "saved"
  /\ Persisted("loop") /\ ThreadEnds("loop")
  /\ lp' = "wait"
  /\ UNCHANGED <<files, doc, expected, rn, orphans, counters, failures, history>>

LoopFailsAgain ==   \* mutant: the thread is tried again after the lock was released
  /\ lp = "write" /\ th["loop"].step = "error"
  /\ th' = [th EXCEPT !["loop"].step = "partial"] /\ lock' = Released("loop")
  /\ UNCHANGED <<files, doc, generations, expected, rn, lp, orphans,
                 counters, failures, history>>

LoopFailsSilently ==   \* mutant: the request is dropped with the failure
  /\ lp = "write" /\ th["loop"].step = "error"
  /\ ThreadEnds("loop")
  /\ lp' = "wait" /\ event' = FALSE
  /\ UNCHANGED <<files, doc, requested, persisted, expected, rn, orphans,
                 counters, failures, history>>

\* A failure is retried after a delay.
LoopFails ==
  /\ lp = "write" /\ th["loop"].step = "error"
  /\ ThreadEnds("loop")
  /\ lp' = "wait"
  /\ UNCHANGED <<files, doc, generations, expected, rn, orphans,
                 counters, failures, history>>

-----------------------------------------------------------------------------
(* The runner.                                                             *)

\* A state of the notebook that has not been, or, of cells executed again,
\* the one that an earlier process wrote back.
Changed ==
  /\ clock < MaxClock
  /\ clock' = clock + 1
  /\ \E c \in {clock + 1} \cup ({notebook} \ (edited \cup {0})) :
       doc' = [content |-> c, at |-> clock + 1]

Output ==
  /\ At("exec") /\ Changed
  /\ requested' = requested + 1 /\ event' = TRUE
  /\ UNCHANGED <<files, persisted, expected, lock, rn, lp, th, orphans,
                 number, failures, history>>

\* A new attempt, edits taken over, a new kernel: nothing is requested.
NotebookChanges ==
  /\ At("exec") /\ Changed
  /\ UNCHANGED <<files, generations, expected, lock, rn, lp, th, orphans,
                 number, failures, history>>

BeginForcedLocally ==   \* mutant: the last checkpoint leaves out the user's notebook
  /\ At("exec")
  /\ \E then \in Results :
       rn' = [pc |-> "lock", then |-> then, writeback |-> then = "exec"]
  /\ UNCHANGED <<files, doc, generations, expected, lock, lp, th, orphans,
                 counters, failures, history>>

\* A forced checkpoint: at the end of a cell and of the run, with the user's
\* notebook; without it where the run is cancelled, fails by a resource
\* (external) or by an error.
BeginForced ==
  /\ At("exec")
  /\ \E then \in Results :
       rn' = [pc |-> "lock", then |-> then, writeback |-> then \in {"exec", "succeeded"}]
  /\ UNCHANGED <<files, doc, generations, expected, lock, lp, th, orphans,
                 counters, failures, history>>

RunnerEnters ==
  /\ MayEnter("runner")
  /\ Goto("write") /\ StartThread("runner", rn.writeback)
  /\ UNCHANGED <<files, doc, generations, expected, lp, orphans,
                 counters, failures, history>>

\* The first thread has returned; the runner starts the second.
BeginWriteback ==
  /\ At("write") /\ th["runner"].step = "saved" /\ rn.writeback
  /\ th' = [th EXCEPT !["runner"].step = "compare"]
  /\ UNCHANGED <<files, doc, generations, expected, lock, rn, lp, orphans,
                 counters, failures, history>>

\* run() has its result and cancels the loop.
EndRun(status) ==
  /\ rn' = [pc |-> status, then |-> "exec", writeback |-> FALSE]
  /\ lp' = "none" /\ lock' = "free"
  /\ th' = [task \in Tasks |-> NoThread]
  /\ orphans' = orphans \cup Left("loop")

\* A cancellation may arrive during the last checkpoint.
RunnerSaved ==
  /\ At("write") /\ th["runner"].step = (IF rn.writeback THEN "done" ELSE "saved")
  /\ Persisted("runner")
  /\ \/ rn.then # "exec" /\ EndRun(IF rn.then = "external" THEN "failed" ELSE rn.then)
     \/ /\ rn.then = "exec"
        /\ Goto("exec") /\ ThreadEnds("runner") /\ UNCHANGED <<lp, orphans>>
     \/ /\ rn.then = "succeeded"
        /\ rn' = [pc |-> "lock", then |-> "cancelled", writeback |-> FALSE]
        /\ ThreadEnds("runner") /\ UNCHANGED <<lp, orphans>>
  /\ UNCHANGED <<files, doc, expected, counters, failures, history>>

\* run() checkpoints once more, and fails.
RunnerFails ==
  /\ At("write") /\ th["runner"].step \in {"refused", "error"}
  /\ \/ rn.then = "failed" /\ EndRun("failed")
     \/ /\ rn.then # "failed"
        /\ rn' = [pc |-> "lock", then |-> "failed", writeback |-> FALSE]
        /\ ThreadEnds("runner") /\ UNCHANGED <<lp, orphans>>
  /\ UNCHANGED <<files, doc, generations, expected, counters, failures, history>>

-----------------------------------------------------------------------------
(* The process and the user.                                               *)

\* quiesce cancels the runner at its await; the kernel is shut down first.
Quiesce ==
  /\ rn.pc \in {"exec", "lock", "write"}
  /\ rn' = [pc |-> "closing", then |-> "exec", writeback |-> FALSE]
  /\ orphans' = orphans \cup Left("runner")
  /\ th' = [th EXCEPT !["runner"] = NoThread]
  /\ lock' = IF lock = "runner" THEN Released("runner") ELSE lock
  /\ UNCHANGED <<files, doc, generations, expected, lp, counters, failures, history>>

Closed ==
  /\ At("closing") /\ EndRun("quiesced")
  /\ UNCHANGED <<files, doc, generations, expected, counters, failures, history>>

NoProcess ==
  /\ rn' = [pc |-> "none", then |-> "exec", writeback |-> FALSE]
  /\ lp' = "none" /\ lock' = "free" /\ th' = [task \in Tasks |-> NoThread]
  /\ doc' = Original /\ requested' = 0 /\ persisted' = 0 /\ event' = FALSE
  /\ expected' = NoGuard

\* The run lock is released; orphans go on.
Release ==
  /\ rn.pc \in Ended /\ NoProcess
  /\ UNCHANGED <<files, orphans, counters, failures, history>>

Crash ==
  /\ ~At("none") /\ NoProcess
  /\ orphans' = {t \in orphans : t.process # number}
  /\ UNCHANGED <<files, counters, failures, history>>

\* resume or restart; history notes that an orphan may still be at work.
Reopen ==
  /\ At("none") /\ number < MaxProcesses /\ clock < MaxClock
  /\ number' = number + 1 /\ clock' = clock + 1
  /\ doc' = [content |-> clock + 1, at |-> clock + 1]
  /\ overlap' = (overlap \/ orphans # {})
  /\ Goto("prepare")
  /\ UNCHANGED <<files, generations, expected, lock, lp, th, orphans, failures,
                 edited, unguarded>>

\* _load_writeback_hash: a run without a recorded hash takes the notebook as
\* it is now, which need not be what source.ipynb was copied from.
LoadHash ==
  /\ At("prepare")
  /\ \/ guard = NoGuard /\ expected' = notebook /\ Goto("baseline") /\ UNCHANGED lp
     \/ guard # NoGuard /\ expected' = guard /\ Goto("exec") /\ lp' = "wait"
  /\ UNCHANGED <<files, doc, generations, lock, th, orphans, counters, failures, history>>

RecordBaseline ==
  /\ At("baseline")
  /\ guard' = expected
  /\ Goto("exec") /\ lp' = "wait"
  /\ UNCHANGED <<partial, notebook, doc, generations, expected, lock, th, orphans,
                 counters, failures, history>>

\* The user saves the notebook.  Nothing guards it before the first hash is
\* recorded, nor between the last comparison and the replacement.
Edit ==
  /\ clock < MaxClock /\ clock' = clock + 1
  /\ notebook' = clock + 1
  /\ edited' = edited \cup {clock + 1}
  /\ unguarded' = IF \/ guard = NoGuard
                     \/ \E t \in AllThreads : t.step = "replace"
                  THEN unguarded \cup {clock + 1} ELSE unguarded
  /\ UNCHANGED <<partial, guard, doc, generations, expected, lock, rn, lp, th, orphans,
                 number, failures, overlap>>

-----------------------------------------------------------------------------
Loop == LoopWakes \/ LoopChecks \/ LoopEnters \/ LoopSaved \/ LoopFails

Forced == RunnerEnters \/ BeginWriteback \/ RunnerSaved \/ RunnerFails

Next ==
  \/ Loop \/ Forced \/ TaskThread("loop") \/ TaskThread("runner") \/ Orphan
  \/ Output \/ NotebookChanges \/ BeginForced
  \/ Quiesce \/ Closed \/ Release \/ Crash \/ Reopen \/ LoadHash \/ RecordBaseline \/ Edit

Spec == Init /\ [][Next]_vars

\* The loop's delays end, the lock is handed on, and a thread returns.
Fairness ==
  /\ WF_vars(Loop) /\ WF_vars(Forced)
  /\ WF_vars(TaskThread("loop")) /\ WF_vars(TaskThread("runner"))

FairSpec == Spec /\ Fairness

-----------------------------------------------------------------------------
\* A task that writes holds the checkpoint lock.
TypeOK ==
  /\ At("write") => lock = "runner"
  /\ lp = "write" => lock = "loop"
  /\ partial \in Documents /\ notebook \in Contents /\ guard \in Contents \cup {NoGuard}
  /\ doc \in Documents /\ requested \in Nat /\ persisted \in Nat /\ event \in BOOLEAN
  /\ expected \in Contents \cup {NoGuard} /\ lock \in Tasks \cup {"free"}
  /\ rn \in Runners /\ lp \in {"none", "wait", "sleep", "lock", "write"}
  /\ th \in [Tasks -> Threads] /\ orphans \subseteq Threads
  /\ number \in Nat /\ clock \in Contents /\ failures \in Nat
  /\ edited \subseteq Contents /\ unguarded \subseteq edited /\ overlap \in BOOLEAN

\* A request is never lost between a write and the clearing of the event: the
\* loop is woken exactly while a generation is not persisted.
PendingGenerationIsAwaited == event <=> persisted < requested

\* A forced checkpoint returns with the notebook as it is in memory on disk,
\* though the loop had an older snapshot in a thread.
CheckpointReturnsDurable ==
  [][(At("write") /\ rn'.pc \in {"exec", "succeeded", "cancelled"} /\ ~overlap)
       => partial = doc]_vars

\* executed.partial.ipynb never goes back to an earlier state, unless a
\* thread of one process outlived its lock and met the next process.
PartialNeverGoesBack == [][~overlap => partial'.at >= partial.at]_vars

\* Both: what a checkpoint returned for is on disk and is not replaced by less.
CheckpointsMoveForward == CheckpointReturnsDurable /\ PartialNeverGoesBack

\* A save by the user that some guard protects is never replaced.
EditsAreKept ==
  [][(notebook \in edited \ unguarded) =>
       notebook' = notebook \/ notebook' \in edited']_vars

\* A run that succeeds has its last state in the user's notebook, unless the
\* user saved it since, and the hash on record says so.
SuccessIsWrittenBack ==
  [][(~At("succeeded") /\ rn'.pc = "succeeded" /\ ~overlap) =>
       /\ guard = doc.content /\ partial = doc
       /\ notebook \in {doc.content} \cup edited]_vars

\* Whatever fails, a generation that was requested is persisted while the
\* loop lives.
PendingIsWritten ==
  (lp # "none" /\ persisted < requested) ~> (lp = "none" \/ persisted = requested)

=============================================================================
