-------------------------- MODULE CheckpointProofs --------------------------
(***************************************************************************)
(* What Checkpoint guarantees for any number of changes, failures and      *)
(* processes: no request for a checkpoint is lost; no save of the user     *)
(* that some guard protects is replaced; a forced checkpoint is on disk    *)
(* when it returns, and the files are never set back to an earlier state,  *)
(* unless a thread of one process lives to meet the next.                  *)
(*                                                                         *)
(* Each has its own invariant: GInv (the generations), EInv (the user's    *)
(* notebook), ForwardInv (the order of the checkpoints).                   *)
(***************************************************************************)
EXTENDS Checkpoint, TLAPS

TaskStep == TaskThread("loop") \/ TaskThread("runner")
Work == Output \/ NotebookChanges \/ BeginForced
Environment == Quiesce \/ Closed \/ Release \/ Crash \/ Reopen \/ LoadHash \/ RecordBaseline \/ Edit

-----------------------------------------------------------------------------
(* Threads. *)

LEMMA NoThreadIsThread == NoThread \in Threads /\ Original \in Documents
  BY BoundsAreNaturals DEF NoThread, Threads, Steps, Documents, Original, Contents

LEMMA MovedIsThread ==
  ASSUME TypeOK, NEW t \in Threads, NEW s \in Steps
  PROVE  Moved(t, s) \in Threads
  BY DEF Moved, Threads, TypeOK

LEMMA NewThread ==
  ASSUME TypeOK, NEW w \in BOOLEAN
  PROVE  [NoThread EXCEPT !.step = "partial", !.snapshot = doc, !.writeback = w,
                          !.target = requested, !.expected = expected,
                          !.process = number] \in Threads
  BY NoThreadIsThread DEF Threads, Steps, Working, TypeOK

\* Whatever a thread does to the files keeps their types.
LEMMA MoveKeepsFiles ==
  ASSUME TypeOK, NEW t \in Threads, NEW s \in Steps, ThreadMoves(t, s)
  PROVE  /\ partial' \in Documents /\ notebook' \in Contents
         /\ guard' \in Contents \cup {NoGuard} /\ failures' \in Nat
  BY DEF ThreadMoves, WritesFile, Compares, Verifies, Raises, Effect, TypeOK, Threads,
         Documents, files

LEMMA TaskStepKeepsTypes == ASSUME TypeOK, TaskStep PROVE TypeOK'
  <1>1. ASSUME NEW task \in Tasks, TaskThread(task) PROVE TypeOK'
    <2>1. PICK s \in Steps : /\ ThreadMoves(th[task], s)
                             /\ th' = [th EXCEPT ![task] = Moved(@, s)]
                             /\ expected' = IF s = "done" THEN th[task].snapshot.content
                                            ELSE expected
                             /\ UNCHANGED <<doc, generations, lock, rn, lp, orphans,
                                            counters, history>>
      BY <1>1 DEF TaskThread
    <2>2. th[task] \in Threads
      BY <1>1 DEF TypeOK
    <2>3. Moved(th[task], s) \in Threads
      BY <2>2, MovedIsThread
    <2>4. th' \in [Tasks -> Threads] /\ expected' \in Contents \cup {NoGuard}
      BY <2>1, <2>2, <2>3 DEF TypeOK, Threads, Documents
    <2>5. /\ partial' \in Documents /\ notebook' \in Contents
          /\ guard' \in Contents \cup {NoGuard} /\ failures' \in Nat
      BY <2>1, <2>2, MoveKeepsFiles
    <2> QED
      BY <2>1, <2>4, <2>5 DEF TypeOK, generations, counters, history, At
  <1> QED
    BY <1>1 DEF TaskStep, Tasks

LEMMA OrphanKeepsTypes == ASSUME TypeOK, Orphan PROVE TypeOK'
  <1>1. PICK t \in orphans, s \in Steps :
          /\ ThreadMoves(t, s)
          /\ orphans' = (orphans \ {t}) \cup (IF s \in Working THEN {Moved(t, s)} ELSE {})
          /\ UNCHANGED <<doc, generations, expected, lock, rn, lp, th, counters, history>>
    BY DEF Orphan
  <1>2. t \in Threads /\ Moved(t, s) \in Threads
    BY MovedIsThread DEF TypeOK
  <1>3. orphans' \subseteq Threads
    BY <1>1, <1>2 DEF TypeOK
  <1>4. /\ partial' \in Documents /\ notebook' \in Contents
        /\ guard' \in Contents \cup {NoGuard} /\ failures' \in Nat
    BY <1>1, <1>2, MoveKeepsFiles
  <1> QED
    BY <1>1, <1>3, <1>4 DEF TypeOK, generations, counters, history, At

LEMMA LeftAreThreads == ASSUME TypeOK, NEW task \in Tasks PROVE Left(task) \subseteq Threads
  BY DEF Left, TypeOK

LEMMA PersistedTypes ==
  ASSUME TypeOK, NEW task \in Tasks, Persisted(task)
  PROVE  requested' \in Nat /\ persisted' \in Nat /\ event' \in BOOLEAN
  <1>1. th[task].target \in Nat /\ requested \in Nat /\ persisted \in Nat
    BY DEF TypeOK, Threads
  <1>2. event' \in BOOLEAN
    BY DEF Persisted
  <1> QED
    BY <1>1, <1>2 DEF Persisted

LEMMA LoopKeepsTypes == ASSUME TypeOK, Loop PROVE TypeOK'
  <1>1. CASE LoopWakes
    BY <1>1 DEF LoopWakes, TypeOK, files, generations, counters, history, At
  <1>2. CASE LoopChecks
    BY <1>2 DEF LoopChecks, TypeOK, files, generations, counters, history, At
  <1>3. CASE LoopEnters
    <2>1. CASE lp' = "write" /\ StartThread("loop", FALSE)
      <3>1. th' \in [Tasks -> Threads]
        BY <2>1, NewThread DEF StartThread, TypeOK
      <3> QED
        BY <1>3, <2>1, <3>1 DEF LoopEnters, StartThread, MayEnter, TypeOK, Tasks, files, generations,
           counters, history, At
    <2>2. CASE lp' = "wait" /\ lock' = Released("loop") /\ UNCHANGED th
      BY <1>3, <2>2 DEF LoopEnters, Released, Waits, Other, MayEnter, TypeOK, Tasks, files,
         generations, counters, history, At
    <2> QED
      BY <1>3, <2>1, <2>2 DEF LoopEnters
  <1>4. CASE LoopSaved \/ LoopFails
    <2>1. th' \in [Tasks -> Threads]
      BY <1>4, NoThreadIsThread DEF LoopSaved, LoopFails, ThreadEnds, TypeOK
    <2>2. requested' \in Nat /\ persisted' \in Nat /\ event' \in BOOLEAN
      BY <1>4, PersistedTypes DEF LoopSaved, LoopFails, generations, TypeOK, Tasks
    <2>3. lock' \in Tasks \cup {"free"} /\ ~At("write")
      BY <1>4 DEF LoopSaved, LoopFails, ThreadEnds, Released, Waits, Other, TypeOK, Tasks, At
    <2> QED
      BY <1>4, <2>1, <2>2, <2>3 DEF LoopSaved, LoopFails, TypeOK, files, counters, history, At
  <1> QED
    BY <1>1, <1>2, <1>3, <1>4 DEF Loop

LEMMA RunEnds ==
  ASSUME TypeOK, NEW status \in Ended, EndRun(status)
  PROVE  /\ rn' \in Runners /\ ~At("write")' /\ lp' = "none" /\ lock' = "free"
         /\ th' \in [Tasks -> Threads] /\ orphans' \subseteq Threads
  BY NoThreadIsThread, LeftAreThreads DEF EndRun, Runners, Results, Ended, At, TypeOK, Tasks

LEMMA ForcedKeepsTypes == ASSUME TypeOK, Forced PROVE TypeOK'
  <1>1. CASE RunnerEnters
    <2>1. rn.writeback \in BOOLEAN
      BY DEF TypeOK, Runners
    <2>2. th' \in [Tasks -> Threads] /\ rn' \in Runners
      BY <1>1, <2>1, NewThread DEF RunnerEnters, StartThread, Goto, TypeOK, Runners
    <2> QED
      BY <1>1, <2>2 DEF RunnerEnters, StartThread, MayEnter, Goto, TypeOK, Tasks, files,
         generations, counters, history, At
  <1>2. CASE BeginWriteback
    <2>1. th' \in [Tasks -> Threads]
      BY <1>2 DEF BeginWriteback, TypeOK, Threads, Steps, Working, Tasks
    <2> QED
      BY <1>2, <2>1 DEF BeginWriteback, TypeOK, files, generations, counters, history, At
  <1>3. CASE RunnerSaved \/ RunnerFails
    <2>1. requested' \in Nat /\ persisted' \in Nat /\ event' \in BOOLEAN
      BY <1>3, PersistedTypes DEF RunnerSaved, RunnerFails, generations, TypeOK, Tasks
    <2>2. /\ rn' \in Runners /\ (At("write")' => lock' = "runner")
          /\ lock' \in Tasks \cup {"free"} /\ (lp' = "write" => lock' = "loop")
          /\ lp' \in {"none", "wait", "sleep", "lock", "write"}
          /\ th' \in [Tasks -> Threads] /\ orphans' \subseteq Threads
      <3>1. CASE \E status \in Ended : EndRun(status)
        BY <3>1, RunEnds
      <3>2. CASE /\ ThreadEnds("runner") /\ UNCHANGED <<lp, orphans>>
                 /\ \/ Goto("exec")
                    \/ \E then \in {"cancelled", "failed"} :
                         rn' = [pc |-> "lock", then |-> then, writeback |-> FALSE]
        <4>1. At("write") /\ lock = "runner" /\ lp # "write"
          BY <1>3 DEF RunnerSaved, RunnerFails, TypeOK
        <4>2. th' \in [Tasks -> Threads] /\ lock' \in Tasks \cup {"free"}
          BY <3>2, NoThreadIsThread DEF ThreadEnds, Released, Waits, Other, TypeOK, Tasks
        <4>3. rn' \in Runners /\ ~At("write")'
          <5>1. CASE Goto("exec")
            BY <5>1 DEF Goto, TypeOK, Runners, At
          <5>2. ASSUME NEW then \in {"cancelled", "failed"},
                       rn' = [pc |-> "lock", then |-> then, writeback |-> FALSE]
                PROVE  rn' \in Runners /\ ~At("write")'
            BY <5>2 DEF Runners, Results, At
          <5> QED
            BY <3>2, <5>1, <5>2
        <4> QED
          BY <3>2, <4>1, <4>2, <4>3 DEF TypeOK
      <3> QED
        BY <1>3, <3>1, <3>2 DEF RunnerSaved, RunnerFails, TypeOK, Runners, Results, Ended
    <2> QED
      BY <1>3, <2>1, <2>2 DEF RunnerSaved, RunnerFails, TypeOK, files, counters, history
  <1> QED
    BY <1>1, <1>2, <1>3 DEF Forced

LEMMA WorkKeepsTypes == ASSUME TypeOK, Work PROVE TypeOK'
  <1>1. CASE Output \/ NotebookChanges
    <2>1. doc' \in Documents /\ clock' \in Contents
      BY <1>1, BoundsAreNaturals DEF Output, NotebookChanges, Changed, TypeOK, Documents, Contents
    <2>2. requested' \in Nat /\ persisted' \in Nat
      BY <1>1 DEF Output, NotebookChanges, generations, TypeOK
    <2>3. event' \in BOOLEAN
      BY <1>1, Zenon DEF Output, NotebookChanges, generations, TypeOK
    <2>4. /\ UNCHANGED <<files, expected, lock, rn, lp, th, orphans, failures, history>>
          /\ number' = number
      BY <1>1 DEF Output, NotebookChanges
    <2> QED
      BY <2>1, <2>2, <2>3, <2>4 DEF TypeOK, files, history, At
  <1>2. CASE BeginForced
    <2>1. rn' \in Runners /\ ~At("write")'
      BY <1>2 DEF BeginForced, Runners, At
    <2> QED
      BY <1>2, <2>1 DEF BeginForced, TypeOK, files, generations, counters, history, At
  <1> QED
    BY <1>1, <1>2 DEF Work

LEMMA EnvironmentKeepsTypes == ASSUME TypeOK, Environment PROVE TypeOK'
  <1>1. CASE Quiesce
    <2>1. /\ rn' \in Runners /\ ~At("write")' /\ orphans' \subseteq Threads
          /\ th' \in [Tasks -> Threads]
      BY <1>1, NoThreadIsThread, LeftAreThreads DEF Quiesce, Runners, Results, At, TypeOK, Tasks
    <2>2. lock' \in Tasks \cup {"free"} /\ (lp' = "write" => lock' = "loop")
      BY <1>1 DEF Quiesce, Released, Waits, Other, TypeOK, Tasks
    <2> QED
      BY <1>1, <2>1, <2>2 DEF Quiesce, TypeOK, files, generations, counters, history
  <1>2. CASE Closed
    <2>1. EndRun("quiesced") /\ "quiesced" \in Ended
      BY <1>2 DEF Closed, Ended
    <2>2. /\ rn' \in Runners /\ ~At("write")' /\ lp' = "none" /\ lock' = "free"
          /\ th' \in [Tasks -> Threads] /\ orphans' \subseteq Threads
      BY <2>1, RunEnds
    <2>3. UNCHANGED <<files, doc, generations, expected, counters, failures, history>>
      BY <1>2 DEF Closed
    <2> QED
      BY <2>2, <2>3 DEF TypeOK, files, generations, counters, history
  <1>3. CASE Release \/ Crash
    <2>1. NoProcess /\ UNCHANGED <<files, counters, failures, history>>
      BY <1>3 DEF Release, Crash
    <2>2. rn' \in Runners /\ ~At("write")' /\ lp' = "none" /\ lock' = "free"
      BY <2>1 DEF NoProcess, Runners, Results, At
    <2>3. /\ doc' \in Documents /\ requested' = 0 /\ persisted' = 0
          /\ event' = FALSE /\ expected' = NoGuard
      BY <2>1, NoThreadIsThread DEF NoProcess
    <2>4. th' \in [Tasks -> Threads] /\ orphans' \subseteq Threads
      BY <1>3, <2>1, NoThreadIsThread DEF Release, Crash, NoProcess, TypeOK
    <2> QED
      BY <2>1, <2>2, <2>3, <2>4 DEF TypeOK, files, counters, history
  <1>4. CASE Reopen
    <2>1. doc' \in Documents /\ clock' \in Contents /\ number' \in Nat
      BY <1>4, BoundsAreNaturals DEF Reopen, TypeOK, Documents, Contents
    <2>2. rn' \in Runners /\ ~At("write")'
      BY <1>4 DEF Reopen, Goto, At, TypeOK, Runners
    <2> QED
      BY <1>4, <2>1, <2>2 DEF Reopen, TypeOK, files, generations
  <1>5. CASE LoadHash \/ RecordBaseline
    <2>1. rn' \in Runners /\ ~At("write")'
      BY <1>5 DEF LoadHash, RecordBaseline, Goto, At, TypeOK, Runners
    <2> QED
      BY <1>5, <2>1 DEF LoadHash, RecordBaseline, TypeOK, files, generations, counters, history
  <1>6. CASE Edit
    <2>1. clock + 1 \in Contents
      BY <1>6, BoundsAreNaturals DEF Edit, TypeOK, Contents
    <2> QED
      BY <1>6, <2>1 DEF Edit, TypeOK, generations, At
  <1> QED
    BY <1>1, <1>2, <1>3, <1>4, <1>5, <1>6 DEF Environment

LEMMA StepTypeOK == TypeOK /\ [Next]_vars => TypeOK'
  <1>1. ASSUME TypeOK, UNCHANGED vars PROVE TypeOK'
    BY <1>1 DEF TypeOK, vars, files, generations, counters, history, At
  <1> QED
    BY <1>1, TaskStepKeepsTypes, OrphanKeepsTypes, LoopKeepsTypes, ForcedKeepsTypes,
       WorkKeepsTypes, EnvironmentKeepsTypes DEF Next, TaskStep, Work, Environment

LEMMA InitTypeOK == ASSUME Init PROVE TypeOK
  <1>1. ~At("write") /\ lp # "write" /\ rn \in Runners
    BY DEF Init, At, Runners, Results
  <1>2. th \in [Tasks -> Threads] /\ orphans \subseteq Threads
    BY NoThreadIsThread DEF Init
  <1>3. /\ partial \in Documents /\ doc \in Documents /\ notebook \in Contents
        /\ clock \in Contents /\ guard = NoGuard /\ expected = NoGuard
    BY NoThreadIsThread, BoundsAreNaturals DEF Init, Contents
  <1>4. requested \in Nat /\ persisted \in Nat /\ number \in Nat /\ failures \in Nat
    BY DEF Init
  <1>5. event \in BOOLEAN /\ overlap \in BOOLEAN
    BY DEF Init
  <1>6. /\ edited \subseteq Contents /\ unguarded \subseteq edited
        /\ lock \in Tasks \cup {"free"} /\ lp \in {"none", "wait", "sleep", "lock", "write"}
    BY DEF Init
  <1> QED
    BY <1>1, <1>2, <1>3, <1>4, <1>5, <1>6 DEF TypeOK

\* Type correctness, and that whoever writes holds the checkpoint lock.
THEOREM TypeCorrect == Spec => []TypeOK
  BY InitTypeOK, StepTypeOK, PTL DEF Spec

-----------------------------------------------------------------------------
(* Generations: none is persisted that was not requested. *)

GenerationsInOrder ==
  /\ persisted <= requested
  /\ \A task \in Tasks : th[task].target <= requested

GInv == TypeOK /\ GenerationsInOrder /\ PendingGenerationIsAwaited

\* A step that leaves the generations alone, and every target that a task has.
Still ==
  /\ UNCHANGED generations
  /\ \A task \in Tasks : th'[task].target \in {th[task].target, requested, 0}

LEMMA StillKeepsGenerations ==
  ASSUME GInv, Still
  PROVE  GenerationsInOrder' /\ PendingGenerationIsAwaited'
  <1>1. requested' = requested /\ persisted' = persisted /\ event' = event /\ requested \in Nat
    BY DEF Still, generations, GInv, TypeOK
  <1>2. ASSUME NEW task \in Tasks PROVE th'[task].target <= requested
    BY <1>1, <1>2 DEF Still, GInv, GenerationsInOrder
  <1> QED
    BY <1>1, <1>2 DEF GInv, GenerationsInOrder, PendingGenerationIsAwaited

\* The thread of one task is gone or replaced.
LEMMA TargetsKept ==
  ASSUME TypeOK, NEW task \in Tasks, NEW t, th' = [th EXCEPT ![task] = t],
         t.target \in {th[task].target, requested, 0}
  PROVE  \A other \in Tasks : th'[other].target \in {th[other].target, requested, 0}
  BY DEF TypeOK

LEMMA WrittenKeepsGenerations ==
  ASSUME GInv, NEW task \in Tasks, Persisted(task),
         \A other \in Tasks : th'[other].target \in {th[other].target, 0}
  PROVE  GenerationsInOrder' /\ PendingGenerationIsAwaited'
  <1>1. requested' = requested /\ requested \in Nat /\ persisted \in Nat
    BY DEF Persisted, GInv, TypeOK
  <1>2. th[task].target <= requested /\ persisted <= requested
    BY DEF GInv, GenerationsInOrder
  <1>3. persisted' <= requested /\ persisted' \in Nat
    BY <1>1, <1>2 DEF Persisted, GInv, TypeOK, Threads
  <1>4. ASSUME NEW other \in Tasks PROVE th'[other].target <= requested
    BY <1>1, <1>4 DEF GInv, GenerationsInOrder
  <1>5. PendingGenerationIsAwaited'
    BY <1>1, <1>3 DEF Persisted, PendingGenerationIsAwaited
  <1> QED
    BY <1>1, <1>3, <1>4, <1>5 DEF GenerationsInOrder

LEMMA StartHasTarget ==
  ASSUME TypeOK, NEW task \in Tasks, NEW w \in BOOLEAN, StartThread(task, w)
  PROVE  \A other \in Tasks : th'[other].target \in {th[other].target, requested, 0}
  BY DEF StartThread, TypeOK, NoThread

LEMMA EndHasNoTarget ==
  ASSUME TypeOK, NEW task \in Tasks, th' = [th EXCEPT ![task] = NoThread]
  PROVE  \A other \in Tasks : th'[other].target \in {th[other].target, 0}
  BY DEF TypeOK, NoThread

LEMMA NoThreadsNoTargets ==
  ASSUME th' = [task \in Tasks |-> NoThread]
  PROVE  \A other \in Tasks : th'[other].target = 0
  BY DEF NoThread

LEMMA TaskStepKeepsGenerations ==
  ASSUME GInv, TaskStep PROVE GenerationsInOrder' /\ PendingGenerationIsAwaited'
  <1>1. PICK task \in Tasks : TaskThread(task)
    BY DEF TaskStep, Tasks
  <1>2. PICK s \in Steps : th' = [th EXCEPT ![task] = Moved(@, s)]
    BY <1>1 DEF TaskThread
  <1>3. UNCHANGED generations
    BY <1>1 DEF TaskThread
  <1>4. th[task] \in Threads
    BY DEF GInv, TypeOK
  <1>5. Moved(th[task], s).target = th[task].target
    BY <1>4 DEF Moved, Threads
  <1>6. th' = [th EXCEPT ![task] = Moved(th[task], s)]
    BY <1>2
  <1> QED
    BY <1>3, <1>5, <1>6, TargetsKept, StillKeepsGenerations DEF GInv, Still

LEMMA LoopKeepsGenerations ==
  ASSUME GInv, Loop PROVE GenerationsInOrder' /\ PendingGenerationIsAwaited'
  <1> USE DEF GInv
  <1>1. CASE LoopWakes \/ LoopChecks
    BY <1>1, StillKeepsGenerations DEF LoopWakes, LoopChecks, Still
  <1>2. CASE LoopEnters
    BY <1>2, StartHasTarget, StillKeepsGenerations DEF LoopEnters, Still, Tasks
  <1>3. CASE LoopSaved
    BY <1>3, EndHasNoTarget, WrittenKeepsGenerations DEF LoopSaved, ThreadEnds, Tasks
  <1>4. CASE LoopFails
    BY <1>4, EndHasNoTarget, StillKeepsGenerations DEF LoopFails, ThreadEnds, Still, Tasks
  <1> QED
    BY <1>1, <1>2, <1>3, <1>4 DEF Loop

LEMMA ForcedKeepsGenerations ==
  ASSUME GInv, Forced PROVE GenerationsInOrder' /\ PendingGenerationIsAwaited'
  <1> USE DEF GInv
  <1>1. CASE RunnerEnters
    <2>1. rn.writeback \in BOOLEAN
      BY DEF TypeOK, Runners
    <2> QED
      BY <1>1, <2>1, StartHasTarget, StillKeepsGenerations DEF RunnerEnters, Still, Tasks
  <1>2. CASE BeginWriteback
    <2>1. \A other \in Tasks : th'[other].target = th[other].target
      BY <1>2 DEF BeginWriteback, TypeOK, Threads
    <2> QED
      BY <1>2, <2>1, StillKeepsGenerations DEF BeginWriteback, Still
  <1>3. CASE RunnerSaved \/ RunnerFails
    <2>1. \A other \in Tasks : th'[other].target \in {th[other].target, 0}
      <3>1. th' = [task \in Tasks |-> NoThread] \/ th' = [th EXCEPT !["runner"] = NoThread]
        BY <1>3 DEF RunnerSaved, RunnerFails, EndRun, ThreadEnds
      <3> QED
        BY <3>1, EndHasNoTarget, NoThreadsNoTargets DEF Tasks
    <2>2. CASE RunnerSaved
      BY <2>1, <2>2, WrittenKeepsGenerations DEF RunnerSaved, Tasks
    <2>3. CASE RunnerFails
      BY <2>1, <2>3, StillKeepsGenerations DEF RunnerFails, Still
    <2> QED
      BY <1>3, <2>2, <2>3
  <1> QED
    BY <1>1, <1>2, <1>3 DEF Forced

LEMMA OthersKeepGenerations ==
  ASSUME GInv, Work \/ Environment \/ Orphan \/ UNCHANGED vars
  PROVE  GenerationsInOrder' /\ PendingGenerationIsAwaited'
  <1> USE DEF GInv
  <1>1. CASE Output
    <2>1. /\ requested' = requested + 1 /\ event' = TRUE /\ persisted' = persisted
          /\ th' = th /\ requested \in Nat /\ persisted \in Nat
      BY <1>1 DEF Output, TypeOK
    <2>2. ASSUME NEW task \in Tasks PROVE th[task].target <= requested + 1
      BY <2>1, <2>2 DEF GenerationsInOrder, TypeOK, Threads
    <2> QED
      BY <2>1, <2>2 DEF GenerationsInOrder, PendingGenerationIsAwaited
  <1>2. CASE Quiesce
    BY <1>2, EndHasNoTarget, StillKeepsGenerations DEF Quiesce, Still, Tasks
  <1>3. CASE Closed
    BY <1>3, NoThreadsNoTargets, StillKeepsGenerations DEF Closed, EndRun, Still
  <1>4. CASE Release \/ Crash
    <2>1. requested' = 0 /\ persisted' = 0 /\ event' = FALSE /\ th' = [task \in Tasks |-> NoThread]
      BY <1>4 DEF Release, Crash, NoProcess
    <2>2. \A task \in Tasks : th'[task].target <= 0
      BY <2>1, NoThreadsNoTargets
    <2> QED
      BY <2>1, <2>2 DEF GenerationsInOrder, PendingGenerationIsAwaited
  <1>5. CASE UNCHANGED <<generations, th>>
    BY <1>5, StillKeepsGenerations DEF Still
  <1>6. CASE Orphan \/ NotebookChanges \/ BeginForced
    BY <1>6, <1>5 DEF Orphan, NotebookChanges, BeginForced
  <1>7. CASE Reopen \/ LoadHash \/ RecordBaseline \/ Edit
    BY <1>7, <1>5 DEF Reopen, LoadHash, RecordBaseline, Edit
  <1>8. CASE UNCHANGED vars
    BY <1>8, <1>5 DEF vars
  <1> QED
    BY <1>1, <1>2, <1>3, <1>4, <1>6, <1>7, <1>8 DEF Work, Environment

\* Every request for a checkpoint is either written or still awaited, whatever
\* fails and in whichever order the runner and the loop write.
THEOREM PendingGenerationAwaited == Spec => []PendingGenerationIsAwaited
  <1>1. Init => GInv
    <2> SUFFICES ASSUME Init PROVE GInv
      OBVIOUS
    <2>1. GenerationsInOrder /\ PendingGenerationIsAwaited
      BY DEF Init, GenerationsInOrder, PendingGenerationIsAwaited, NoThread
    <2> QED
      BY <2>1, InitTypeOK DEF GInv
  <1>2. GInv /\ [Next]_vars => GInv'
    <2> SUFFICES ASSUME GInv, [Next]_vars PROVE GInv'
      OBVIOUS
    <2>1. TypeOK'
      BY StepTypeOK DEF GInv
    <2>2. GenerationsInOrder' /\ PendingGenerationIsAwaited'
      BY TaskStepKeepsGenerations, LoopKeepsGenerations, ForcedKeepsGenerations,
         OthersKeepGenerations DEF Next, TaskStep, Work, Environment
    <2> QED
      BY <2>1, <2>2 DEF GInv
  <1>3. GInv => PendingGenerationIsAwaited
    BY DEF GInv
  <1> QED
    BY <1>1, <1>2, <1>3, PTL DEF Spec

-----------------------------------------------------------------------------
(* The user's notebook. *)

Protected == edited \ unguarded

\* Nothing that the user saved under a guard, and nothing from the future.
Ours(c) == c \notin Protected /\ (c = NoGuard \/ c <= clock)

Safe(t) ==
  /\ Ours(t.snapshot.content) /\ Ours(t.expected)
  /\ t.step = "verify" => t.seen = t.expected
  /\ t.step = "replace" => notebook \notin Protected

Guarded ==
  /\ edited \subseteq 1 .. clock /\ notebook <= clock
  /\ Ours(doc.content) /\ Ours(guard) /\ Ours(expected)
  /\ \A t \in AllThreads : Safe(t)
  /\ guard = NoGuard => Protected = {}
  /\ At("baseline") => expected # NoGuard

EInv == TypeOK /\ Guarded

LEMMA Numbers == ASSUME TypeOK
                 PROVE  clock \in Nat /\ clock <= MaxClock /\ NoGuard \notin Contents
                        /\ Contents \subseteq Nat
  BY BoundsAreNaturals DEF TypeOK, Contents, NoGuard

\* A thread that moves: it does not replace what is protected, and stays safe.
LEMMA SafeMove ==
  ASSUME EInv, NEW t \in AllThreads, t \in Threads, NEW s \in Steps, ThreadMoves(t, s),
         UNCHANGED <<clock, edited, unguarded>>
  PROVE  /\ notebook' \in {notebook, t.snapshot.content} /\ notebook' <= clock'
         /\ notebook \in Protected => notebook' = notebook
         /\ Ours(guard)' /\ (guard' = NoGuard => Protected' = {})
         /\ \A u \in AllThreads : Safe(u)'
         /\ \A m : m = Moved(t, s) => Safe(m)'
  <1>1. Safe(t) /\ t.snapshot.content \in Contents
    BY DEF EInv, Guarded, Threads, Documents
  <1>2. Protected' = Protected /\ clock' = clock /\ t.snapshot.content <= clock
    BY <1>1, Numbers DEF Protected, Safe, Ours, EInv, Guarded
  <1>3. notebook' \in {notebook, t.snapshot.content} /\ guard' \in {guard, t.snapshot.content}
    BY DEF ThreadMoves, WritesFile, Compares, Verifies, Raises, Effect, files
  <1>4. notebook' # notebook => t.step = "replace"
    BY DEF ThreadMoves, WritesFile, Compares, Verifies, Raises, Effect, files
  <1>5. notebook \in Protected => notebook' = notebook
    BY <1>1, <1>4 DEF Safe
  <1>6. notebook' <= clock'
    BY <1>2, <1>3 DEF EInv, Guarded
  <1>7. Ours(guard)' /\ (guard' = NoGuard => Protected' = {})
    BY <1>1, <1>2, <1>3, Numbers DEF Ours, Safe, EInv, Guarded
  <1>8. ASSUME NEW u, Safe(u) PROVE Safe(u)'
    BY <1>1, <1>2, <1>3, <1>8 DEF Safe, Ours
  <1>9. ASSUME NEW m, m = Moved(t, s) PROVE Safe(m)'
    <2>1. /\ m.snapshot = t.snapshot /\ m.expected = t.expected /\ m.step = s
          /\ t.step = "compare" => m.seen = notebook
          /\ t.step # "compare" => m.seen = t.seen
      BY <1>9 DEF Moved, Threads
    <2>2. s = "verify" => t.step = "compare" /\ notebook = t.expected
      BY DEF ThreadMoves, WritesFile, Compares, Verifies, Raises
    <2>3. s = "replace" => t.step = "verify" /\ notebook = t.seen /\ notebook' = notebook
      BY DEF ThreadMoves, WritesFile, Compares, Verifies, Raises, files
    <2>4. s = "replace" => notebook' \notin Protected'
      BY <1>1, <1>2, <2>3 DEF Safe, Ours
    <2>5. Ours(t.snapshot.content)' /\ Ours(t.expected)'
      BY <1>1, <1>2 DEF Safe, Ours
    <2> QED
      BY <2>1, <2>2, <2>4, <2>5 DEF Safe
  <1> QED
    BY <1>3, <1>5, <1>6, <1>7, <1>8, <1>9 DEF EInv, Guarded

\* A new thread has the notebook in memory, and compares nothing yet.
Fresh(t) ==
  /\ t.snapshot.content \in {doc.content, 0} \cup {u.snapshot.content : u \in AllThreads}
  /\ t.expected \in {expected, 0} \cup {u.expected : u \in AllThreads}
  /\ t.step \notin {"verify", "replace"}

\* The threads after a step that is not a thread's.
ThreadsKept == \A t \in AllThreads' : t \in AllThreads \/ Fresh(t)

\* A step that leaves the user's notebook alone.
Quiet ==
  /\ UNCHANGED <<notebook, edited, unguarded>> /\ clock <= clock'
  /\ Ours(doc.content)' /\ Ours(guard)' /\ Ours(expected)'
  /\ guard' = NoGuard => Protected = {}
  /\ At("baseline")' => expected' # NoGuard
  /\ ThreadsKept

LEMMA QuietKeepsGuarded == ASSUME EInv, TypeOK', Quiet PROVE Guarded'
  <1>1. Protected' = Protected /\ notebook' = notebook /\ clock \in Nat /\ clock' \in Nat
    BY Numbers DEF Quiet, Protected, EInv, Guarded, TypeOK, Contents
  <1>2. ASSUME NEW c \in Contents \cup {NoGuard}, Ours(c) PROVE Ours(c)'
    BY <1>1, <1>2, Numbers DEF Ours, Quiet, EInv, Guarded
  <1>3. edited' \subseteq 1 .. clock' /\ notebook' <= clock'
    BY <1>1, Numbers DEF Quiet, EInv, Guarded, TypeOK
  <1>4. Ours(0) /\ 0 \in Contents
    BY <1>1, BoundsAreNaturals DEF EInv, Guarded, Ours, Protected, Contents
  <1>5. ASSUME NEW u \in AllThreads
        PROVE  /\ u.snapshot.content \in Contents /\ u.expected \in Contents \cup {NoGuard}
               /\ Ours(u.snapshot.content)' /\ Ours(u.expected)'
    <2>1. u \in Threads
      BY DEF AllThreads, EInv, Guarded, TypeOK
    <2>2. u.snapshot.content \in Contents /\ u.expected \in Contents \cup {NoGuard}
      BY <2>1 DEF Threads, Documents
    <2>3. Ours(u.snapshot.content) /\ Ours(u.expected)
      BY DEF EInv, Guarded, Safe
    <2> QED
      BY <1>2, <2>2, <2>3
  <1>6. doc.content \in Contents /\ expected \in Contents \cup {NoGuard}
    BY DEF EInv, Guarded, TypeOK, Documents
  <1>7. \A c \in {doc.content, expected, 0} : Ours(c)'
    BY <1>2, <1>4, <1>6 DEF EInv, Guarded
  <1>8. ASSUME NEW t \in AllThreads' PROVE Safe(t)'
    <2>1. CASE t \in AllThreads
      BY <1>1, <1>5, <2>1 DEF Safe, EInv, Guarded
    <2>2. CASE t \notin AllThreads
      BY <1>5, <1>7, <1>8, <2>2 DEF Quiet, ThreadsKept, Fresh, Safe
    <2> QED
      BY <2>1, <2>2
  <1> QED
    BY <1>1, <1>3, <1>8 DEF Guarded, Quiet

Unmoved == UNCHANGED <<files, doc, expected, clock, edited, unguarded>>

LEMMA UnmovedKeepsGuarded ==
  ASSUME EInv, TypeOK', Unmoved, ThreadsKept, At("baseline")' => At("baseline")
  PROVE  Guarded'
  <1>1. UNCHANGED <<notebook, edited, unguarded>> /\ clock <= clock'
    BY Numbers DEF Unmoved, files, EInv
  <1>2. Ours(doc.content)' /\ Ours(guard)' /\ Ours(expected)'
    BY DEF Unmoved, files, EInv, Guarded, Ours, Protected
  <1>3. guard' = NoGuard => Protected = {}
    BY DEF Unmoved, files, EInv, Guarded
  <1>4. At("baseline")' => expected' # NoGuard
    BY DEF Unmoved, EInv, Guarded
  <1> QED
    BY <1>1, <1>2, <1>3, <1>4, QuietKeepsGuarded DEF Quiet

LEMMA NoThreadIsFresh == Fresh(NoThread)
  BY DEF Fresh, NoThread, Original

LEMMA TaskStepKeepsGuarded == ASSUME EInv, TaskStep PROVE Guarded'
  <1>1. PICK task \in Tasks, s \in Steps :
          /\ ThreadMoves(th[task], s)
          /\ th' = [th EXCEPT ![task] = Moved(@, s)]
          /\ expected' = IF s = "done" THEN th[task].snapshot.content ELSE expected
          /\ UNCHANGED <<doc, generations, lock, rn, lp, orphans, counters, history>>
    BY DEF TaskStep, TaskThread, Tasks
  <1>2. th[task] \in AllThreads /\ th[task] \in Threads
    BY DEF AllThreads, EInv, TypeOK
  <1>3. UNCHANGED <<clock, edited, unguarded>> /\ UNCHANGED <<doc, rn, orphans>>
    BY <1>1 DEF counters, history
  <1>4. /\ notebook' <= clock'
        /\ Ours(guard)' /\ (guard' = NoGuard => Protected' = {})
        /\ \A u \in AllThreads : Safe(u)'
        /\ \A m : m = Moved(th[task], s) => Safe(m)'
    BY <1>1, <1>2, <1>3, SafeMove
  <1>5. \A t \in AllThreads' : t \in AllThreads \/ t = Moved(th[task], s)
    BY <1>1, <1>3 DEF AllThreads, EInv, TypeOK
  <1>6. \A t \in AllThreads' : Safe(t)'
    BY <1>4, <1>5
  <1>7. /\ Ours(expected)' /\ Ours(doc.content)' /\ edited' \subseteq 1 .. clock'
        /\ At("baseline")' => expected' # NoGuard
    <2>1. th[task].snapshot.content \in Contents /\ Safe(th[task])
      BY <1>2 DEF EInv, Guarded, Threads, Documents
    <2>2. expected' \in {expected, th[task].snapshot.content}
      BY <1>1
    <2> QED
      BY <1>3, <2>1, <2>2, Numbers DEF Ours, Protected, Safe, EInv, Guarded, At
  <1> QED
    BY <1>4, <1>6, <1>7 DEF Guarded

LEMMA OrphanKeepsGuarded == ASSUME EInv, Orphan PROVE Guarded'
  <1>1. PICK t \in orphans, s \in Steps :
          /\ ThreadMoves(t, s)
          /\ orphans' = (orphans \ {t}) \cup (IF s \in Working THEN {Moved(t, s)} ELSE {})
          /\ UNCHANGED <<doc, generations, expected, lock, rn, lp, th, counters, history>>
    BY DEF Orphan
  <1>2. t \in AllThreads /\ t \in Threads
    BY DEF AllThreads, EInv, TypeOK
  <1>3. UNCHANGED <<clock, edited, unguarded>> /\ UNCHANGED <<doc, expected, rn, th>>
    BY <1>1 DEF counters, history
  <1>4. /\ notebook' <= clock'
        /\ Ours(guard)' /\ (guard' = NoGuard => Protected' = {})
        /\ \A u \in AllThreads : Safe(u)'
        /\ \A m : m = Moved(t, s) => Safe(m)'
    BY <1>1, <1>2, <1>3, SafeMove
  <1>5. \A u \in AllThreads' : u \in AllThreads \/ u = Moved(t, s)
    BY <1>1, <1>3 DEF AllThreads
  <1>6. \A u \in AllThreads' : Safe(u)'
    BY <1>4, <1>5
  <1>7. /\ Ours(expected)' /\ Ours(doc.content)' /\ edited' \subseteq 1 .. clock'
        /\ At("baseline")' => expected' # NoGuard
    BY <1>3 DEF Ours, Protected, EInv, Guarded, At
  <1> QED
    BY <1>4, <1>6, <1>7 DEF Guarded

LEMMA SameThreads == ASSUME UNCHANGED <<th, orphans>> PROVE ThreadsKept
  BY DEF ThreadsKept, AllThreads

LEMMA StartKeepsThreads ==
  ASSUME EInv, NEW task \in Tasks, NEW w \in BOOLEAN, StartThread(task, w),
         UNCHANGED orphans
  PROVE  ThreadsKept
  <1> DEFINE new == [NoThread EXCEPT !.step = "partial", !.snapshot = doc, !.writeback = w,
                       !.target = requested, !.expected = expected, !.process = number]
  <1>1. Fresh(new)
    BY DEF Fresh, NoThread
  <1>2. \A t \in AllThreads' : t \in AllThreads \/ t = new
    BY DEF StartThread, AllThreads, EInv, TypeOK
  <1> QED
    BY <1>1, <1>2 DEF ThreadsKept

LEMMA EndKeepsThreads ==
  ASSUME EInv, NEW task \in Tasks, th' = [th EXCEPT ![task] = NoThread],
         orphans' \subseteq AllThreads
  PROVE  ThreadsKept
  BY NoThreadIsFresh DEF ThreadsKept, AllThreads, EInv, TypeOK

LEMMA NoThreadsKeepThreads ==
  ASSUME th' = [task \in Tasks |-> NoThread], orphans' \subseteq AllThreads
  PROVE  ThreadsKept
  BY NoThreadIsFresh DEF ThreadsKept, AllThreads

LEMMA LeftIsThread == ASSUME NEW task \in Tasks
                      PROVE  orphans \subseteq AllThreads /\ Left(task) \subseteq AllThreads
  BY DEF Left, AllThreads

LEMMA LoopKeepsGuarded == ASSUME EInv, Loop, TypeOK' PROVE Guarded'
  <1>1. Unmoved /\ UNCHANGED rn /\ orphans' = orphans
    BY DEF Loop, LoopWakes, LoopChecks, LoopEnters, LoopSaved, LoopFails, Unmoved, counters,
       history
  <1>2. ThreadsKept
    <2>1. CASE UNCHANGED th
      BY <1>1, <2>1, SameThreads
    <2>2. CASE StartThread("loop", FALSE)
      BY <1>1, <2>2, StartKeepsThreads DEF Tasks
    <2>3. CASE ThreadEnds("loop")
      BY <1>1, <2>3, EndKeepsThreads, LeftIsThread DEF ThreadEnds, Tasks
    <2> QED
      BY <2>1, <2>2, <2>3 DEF Loop, LoopWakes, LoopChecks, LoopEnters, LoopSaved, LoopFails
  <1> QED
    BY <1>1, <1>2, UnmovedKeepsGuarded DEF At

LEMMA ForcedKeepsGuarded == ASSUME EInv, Forced, TypeOK' PROVE Guarded'
  <1>1. Unmoved
    BY DEF Forced, RunnerEnters, BeginWriteback, RunnerSaved, RunnerFails, Unmoved, counters,
       history
  <1>2. At("baseline")' => At("baseline")
    BY DEF Forced, RunnerEnters, BeginWriteback, RunnerSaved, RunnerFails, EndRun, Goto, At,
       EInv, TypeOK, Runners, Results
  <1>3. CASE RunnerEnters
    <2>1. rn.writeback \in BOOLEAN
      BY DEF EInv, TypeOK, Runners
    <2> QED
      BY <1>1, <1>2, <1>3, <2>1, StartKeepsThreads, UnmovedKeepsGuarded DEF RunnerEnters, Tasks
  <1>4. CASE BeginWriteback
    <2>1. th["runner"] \in Threads /\ th["runner"] \in AllThreads
      BY DEF EInv, TypeOK, Tasks, AllThreads
    <2>2. \A t \in AllThreads' : t \in AllThreads \/ t = [th["runner"] EXCEPT !.step = "compare"]
      BY <1>4 DEF BeginWriteback, AllThreads, EInv, TypeOK
    <2>3. Fresh([th["runner"] EXCEPT !.step = "compare"])
      BY <2>1 DEF Fresh, Threads
    <2> QED
      BY <1>1, <1>2, <2>2, <2>3, UnmovedKeepsGuarded DEF ThreadsKept
  <1>5. CASE RunnerSaved \/ RunnerFails
    <2>1. orphans' \subseteq AllThreads
      BY <1>5, LeftIsThread DEF RunnerSaved, RunnerFails, EndRun, Tasks
    <2>2. th' = [task \in Tasks |-> NoThread] \/ th' = [th EXCEPT !["runner"] = NoThread]
      BY <1>5 DEF RunnerSaved, RunnerFails, EndRun, ThreadEnds
    <2> QED
      BY <1>1, <1>2, <2>1, <2>2, NoThreadsKeepThreads, EndKeepsThreads, UnmovedKeepsGuarded
         DEF Tasks
  <1> QED
    BY <1>3, <1>4, <1>5 DEF Forced

LEMMA WorkKeepsGuarded == ASSUME EInv, Work, TypeOK' PROVE Guarded'
  <1>1. CASE BeginForced
    <2>1. Unmoved /\ UNCHANGED <<th, orphans>> /\ ~At("baseline")'
      BY <1>1 DEF BeginForced, Unmoved, At, counters, history
    <2> QED
      BY <2>1, SameThreads, UnmovedKeepsGuarded
  <1>2. CASE Output \/ NotebookChanges
    <2>1. /\ Changed /\ At("exec")
          /\ UNCHANGED <<notebook, guard, expected, rn, th, orphans, edited, unguarded>>
      BY <1>2 DEF Output, NotebookChanges, files, history
    <2>2. clock \in Nat /\ clock' = clock + 1
          /\ doc'.content \in {clock + 1} \cup ({notebook} \ (edited \cup {0}))
      BY <2>1, Numbers DEF Changed, EInv
    <2>3. notebook \in Nat /\ notebook <= clock /\ clock + 1 \notin edited
      BY <2>2, Numbers DEF EInv, Guarded, TypeOK
    <2>4. Ours(doc.content)'
      BY <2>1, <2>2, <2>3 DEF Ours, Protected
    <2>5. clock <= clock' /\ Ours(guard)' /\ Ours(expected)'
      BY <2>1, <2>2, Numbers DEF Ours, Protected, EInv, Guarded, TypeOK, Contents
    <2>6. (guard' = NoGuard => Protected = {}) /\ ~At("baseline")'
      BY <2>1 DEF EInv, Guarded, At
    <2> QED
      BY <2>1, <2>4, <2>5, <2>6, SameThreads, QuietKeepsGuarded DEF Quiet
  <1> QED
    BY <1>1, <1>2 DEF Work

\* The original notebook, and the absence of a hash, are no saves of the user.
LEMMA ZeroAndNoGuardAreOurs ==
  ASSUME EInv, clock' \in Nat, UNCHANGED <<edited, unguarded>>
  PROVE  Ours(0)' /\ Ours(NoGuard)'
  <1>1. clock \in Nat /\ clock <= MaxClock /\ MaxClock \in Nat
    BY Numbers, BoundsAreNaturals DEF EInv
  <1>2. 0 \notin edited /\ NoGuard \notin edited
    BY <1>1 DEF EInv, Guarded, NoGuard
  <1> QED
    BY <1>2 DEF Ours, Protected

LEMMA ProcessEndKeepsGuarded == ASSUME EInv, Release \/ Crash, TypeOK' PROVE Guarded'
  <1>1. NoProcess /\ UNCHANGED <<notebook, guard, clock, edited, unguarded>>
    BY DEF Release, Crash, files, counters, history
  <1>2. doc' = Original /\ expected' = NoGuard /\ th' = [task \in Tasks |-> NoThread]
        /\ ~At("baseline")'
    BY <1>1 DEF NoProcess, At
  <1>3. orphans' \subseteq AllThreads
    BY DEF Release, Crash, AllThreads
  <1>4. ThreadsKept
    BY <1>2, <1>3, NoThreadsKeepThreads
  <1>5. clock \in Nat /\ clock <= clock' /\ Ours(0)' /\ Ours(NoGuard)'
    BY <1>1, Numbers, ZeroAndNoGuardAreOurs DEF EInv
  <1>6. Ours(doc.content)' /\ Ours(guard)' /\ Ours(expected)'
    BY <1>1, <1>2, <1>5 DEF Original, Ours, Protected, EInv, Guarded
  <1>7. guard' = NoGuard => Protected = {}
    BY <1>1 DEF EInv, Guarded
  <1> QED
    BY <1>1, <1>2, <1>4, <1>5, <1>6, <1>7, QuietKeepsGuarded DEF Quiet

LEMMA ReopenKeepsGuarded == ASSUME EInv, Reopen, TypeOK' PROVE Guarded'
  <1>1. /\ UNCHANGED <<notebook, guard, expected, th, orphans, edited, unguarded>>
        /\ clock' = clock + 1 /\ doc' = [content |-> clock + 1, at |-> clock + 1]
    BY DEF Reopen, files
  <1>2. rn'.pc = "prepare"
    BY DEF Reopen, Goto, EInv, TypeOK, Runners
  <1>3. clock \in Nat /\ clock + 1 \notin edited
    BY Numbers DEF EInv, Guarded
  <1>4. Ours(doc.content)'
    BY <1>1, <1>3 DEF Ours, Protected
  <1>5. clock <= clock' /\ Ours(guard)' /\ Ours(expected)'
    BY <1>1, <1>3, Numbers DEF Ours, Protected, EInv, Guarded, TypeOK
  <1>6. (guard' = NoGuard => Protected = {}) /\ ~At("baseline")'
    BY <1>1, <1>2 DEF EInv, Guarded, At
  <1> QED
    BY <1>1, <1>4, <1>5, <1>6, SameThreads, QuietKeepsGuarded DEF Quiet

\* The hash that is loaded is on record, or nothing is protected yet.
LEMMA LoadHashKeepsGuarded == ASSUME EInv, LoadHash, TypeOK' PROVE Guarded'
  <1>1. /\ UNCHANGED <<notebook, guard, doc, th, orphans, clock, edited, unguarded>>
        /\ clock \in Nat
    BY Numbers DEF LoadHash, files, counters, history, EInv
  <1>2. Ours(doc.content)' /\ Ours(guard)' /\ (guard' = NoGuard => Protected = {})
    BY <1>1 DEF Ours, Protected, EInv, Guarded
  <1>3. \/ Protected = {} /\ expected' = notebook
        \/ guard # NoGuard /\ expected' = guard
    BY DEF LoadHash, EInv, Guarded
  <1>4. Ours(expected)'
    BY <1>1, <1>3 DEF Ours, Protected, EInv, Guarded
  <1>5. expected' # NoGuard
    BY <1>3, Numbers DEF EInv, TypeOK
  <1> QED
    BY <1>1, <1>2, <1>4, <1>5, SameThreads, QuietKeepsGuarded DEF Quiet

LEMMA RecordBaselineKeepsGuarded == ASSUME EInv, RecordBaseline, TypeOK' PROVE Guarded'
  <1>1. /\ UNCHANGED <<notebook, doc, expected, th, orphans, clock, edited, unguarded>>
        /\ guard' = expected /\ At("baseline") /\ clock \in Nat
    BY Numbers DEF RecordBaseline, counters, history, EInv
  <1>2. Ours(doc.content)' /\ Ours(guard)' /\ Ours(expected)' /\ expected' # NoGuard
    BY <1>1 DEF Ours, Protected, EInv, Guarded
  <1> QED
    BY <1>1, <1>2, SameThreads, QuietKeepsGuarded DEF Quiet

LEMMA EditKeepsGuarded == ASSUME EInv, Edit, TypeOK' PROVE Guarded'
  <1> DEFINE new == clock + 1
  <1>1. /\ UNCHANGED <<guard, doc, expected, rn, th, orphans>>
        /\ clock' = new /\ notebook' = new /\ edited' = edited \cup {new}
        /\ unguarded' = unguarded \/ unguarded' = unguarded \cup {new}
        /\ clock \in Nat /\ new \in Contents /\ clock < MaxClock
    BY Numbers DEF Edit, EInv, TypeOK
  <1>2. Protected' \subseteq Protected \cup {new} /\ new \notin Protected
        /\ edited' \subseteq 1 .. clock' /\ NoGuard # new
    BY <1>1, BoundsAreNaturals DEF Protected, EInv, Guarded, NoGuard
  <1>3. ASSUME NEW c \in Contents \cup {NoGuard}, Ours(c) PROVE Ours(c)'
    BY <1>1, <1>2, <1>3, Numbers DEF Ours, EInv
  <1>4. Ours(doc.content)' /\ Ours(guard)' /\ Ours(expected)'
    <2>1. \A c \in {doc.content, guard, expected} : c \in Contents \cup {NoGuard} /\ Ours(c)
      BY DEF EInv, Guarded, TypeOK, Documents
    <2>2. \A c \in {doc.content, guard, expected} : Ours(c)'
      BY <1>3, <2>1
    <2> QED
      BY <1>1, <2>2 DEF Ours
  <1>5. (guard = NoGuard \/ \E t \in AllThreads : t.step = "replace")
          => Protected' = Protected
    BY <1>1, <1>2 DEF Edit, Protected
  <1>6. ASSUME NEW t \in AllThreads PROVE Safe(t)'
    <2>1. t \in Threads /\ Safe(t)
      BY DEF AllThreads, EInv, TypeOK, Guarded
    <2>2. Ours(t.snapshot.content)' /\ Ours(t.expected)'
      <3>1. t.snapshot.content \in Contents /\ t.expected \in Contents \cup {NoGuard}
        BY <2>1 DEF Threads, Documents
      <3> QED
        BY <1>3, <2>1, <3>1 DEF Safe
    <2>3. t.step = "replace" => notebook' \notin Protected'
      BY <1>1, <1>2, <1>5
    <2> QED
      BY <2>1, <2>2, <2>3 DEF Safe
  <1>7. AllThreads' = AllThreads /\ (guard' = NoGuard => Protected' = {})
        /\ (At("baseline")' => expected' # NoGuard)
    BY <1>1, <1>5 DEF AllThreads, EInv, Guarded, At
  <1>8. edited' \subseteq 1 .. clock' /\ notebook' <= clock'
    BY <1>1, <1>2
  <1> QED
    BY <1>4, <1>6, <1>7, <1>8 DEF Guarded

LEMMA EnvironmentKeepsGuarded == ASSUME EInv, Environment, TypeOK' PROVE Guarded'
  <1>1. CASE Quiesce \/ Closed
    <2>1. Unmoved /\ ~At("baseline")'
      BY <1>1 DEF Quiesce, Closed, EndRun, Unmoved, At, counters, history
    <2>2. orphans' \subseteq AllThreads
      BY <1>1, LeftIsThread DEF Quiesce, Closed, EndRun, Tasks
    <2>3. th' = [task \in Tasks |-> NoThread] \/ th' = [th EXCEPT !["runner"] = NoThread]
      BY <1>1 DEF Quiesce, Closed, EndRun
    <2> QED
      BY <2>1, <2>2, <2>3, NoThreadsKeepThreads, EndKeepsThreads, UnmovedKeepsGuarded DEF Tasks
  <1> QED
    BY <1>1, ProcessEndKeepsGuarded, ReopenKeepsGuarded, LoadHashKeepsGuarded,
       RecordBaselineKeepsGuarded, EditKeepsGuarded DEF Environment

LEMMA StutterKeepsGuarded == ASSUME EInv, UNCHANGED vars, TypeOK' PROVE Guarded'
  <1>1. Unmoved /\ UNCHANGED <<th, orphans, rn>>
    BY DEF vars, Unmoved, counters, history
  <1> QED
    BY <1>1, SameThreads, UnmovedKeepsGuarded DEF At

LEMMA StepEInv == ASSUME EInv, [Next]_vars PROVE EInv'
  <1>1. TypeOK'
    BY StepTypeOK DEF EInv
  <1>2. Guarded'
    BY <1>1, TaskStepKeepsGuarded, OrphanKeepsGuarded, LoopKeepsGuarded, ForcedKeepsGuarded,
       WorkKeepsGuarded, EnvironmentKeepsGuarded, StutterKeepsGuarded
       DEF Next, TaskStep, Work, Environment
  <1> QED
    BY <1>1, <1>2 DEF EInv

LEMMA InitEInv == ASSUME Init PROVE EInv
  <1>1. /\ edited = {} /\ Protected = {} /\ notebook = 0 /\ clock = 0 /\ guard = NoGuard
        /\ doc.content = 0 /\ expected = NoGuard /\ ~At("baseline")
    BY DEF Init, Protected, Original, At
  <1>2. \A t \in AllThreads : t = NoThread
    BY DEF Init, AllThreads
  <1>3. \A t \in AllThreads : Safe(t)
    BY <1>1, <1>2 DEF Safe, Ours, NoThread, Original
  <1> QED
    BY <1>1, <1>3, InitTypeOK DEF EInv, Guarded, Ours

\* A save by the user of the notebook that some guard protects is never
\* replaced by a write-back, of whichever process.
THEOREM GuardedEditsAreKept == Spec => EditsAreKept
  <1> DEFINE Keeps == (notebook \in edited \ unguarded) =>
                        notebook' = notebook \/ notebook' \in edited'
  <1>1. Init => EInv
    BY InitEInv
  <1>2. EInv /\ [Next]_vars => EInv'
    BY StepEInv
  <1>3. EInv /\ [Next]_vars => [Keeps]_vars
    <2> SUFFICES ASSUME EInv, Next, notebook \in Protected
                 PROVE  notebook' = notebook \/ notebook' \in edited'
      BY DEF Protected
    <2>1. CASE TaskStep
      <3>1. PICK task \in Tasks, s \in Steps :
              /\ ThreadMoves(th[task], s)
              /\ UNCHANGED <<doc, generations, lock, rn, lp, orphans, counters, history>>
        BY <2>1 DEF TaskStep, TaskThread, Tasks
      <3>2. th[task] \in AllThreads /\ th[task] \in Threads
        BY DEF AllThreads, EInv, TypeOK
      <3> QED
        BY <3>1, <3>2, SafeMove DEF counters, history
    <2>2. CASE Orphan
      <3>1. PICK t \in orphans, s \in Steps :
              /\ ThreadMoves(t, s)
              /\ UNCHANGED <<doc, generations, expected, lock, rn, lp, th, counters, history>>
        BY <2>2 DEF Orphan
      <3>2. t \in AllThreads /\ t \in Threads
        BY DEF AllThreads, EInv, TypeOK
      <3> QED
        BY <3>1, <3>2, SafeMove DEF counters, history
    <2>3. CASE Loop \/ Forced \/ Work
      BY <2>3 DEF Loop, LoopWakes, LoopChecks, LoopEnters, LoopSaved, LoopFails, Forced,
         RunnerEnters, BeginWriteback, RunnerSaved, RunnerFails, Work, Output, NotebookChanges,
         BeginForced, files
    <2>4. CASE Environment
      BY <2>4 DEF Environment, Quiesce, Closed, Release, Crash, Reopen, LoadHash,
         RecordBaseline, Edit, files
    <2> QED
      BY <2>1, <2>2, <2>3, <2>4 DEF Next, TaskStep, Work, Environment
  <1> QED
    BY <1>1, <1>2, <1>3, PTL DEF Spec, EditsAreKept

-----------------------------------------------------------------------------
(* The checkpoint. *)

\* A task has a thread only where it awaits one, the loop lives only beside a
\* runner, and a run that is to succeed writes the user's notebook.
TasksAwait ==
  /\ ~At("write") => th["runner"] = NoThread
  /\ lp # "write" => th["loop"] = NoThread
  /\ lp # "none" => rn.pc \in {"exec", "lock", "write", "closing"}
  /\ rn.then = "succeeded" => rn.writeback

\* The threads at work have one snapshot, which is not older than what they write
\* it over and not younger than the notebook in memory.
Workers == {t \in AllThreads : AtWork(t)}
WorkersAgree ==
  /\ \A t, u \in Workers : t.snapshot = u.snapshot
  /\ \A t \in AllThreads : t # NoThread => t.process = number
  /\ \A t \in Workers : /\ t.snapshot.at <= clock
                        /\ t.step = "partial" => partial.at <= t.snapshot.at
                        /\ ~At("none") => t.snapshot.at <= doc.at
  /\ partial.at <= clock /\ doc.at <= clock
  /\ ~At("none") => partial.at <= doc.at

\* There are orphans only when the runner is on its way out, and until the loop is
\* cancelled too they have what is in memory.
OrphansAreLate ==
  /\ orphans # {} => rn.pc \in {"closing", "none"} \cup Ended
  /\ At("closing") => \A t \in orphans : t.snapshot = doc
  /\ \A t \in orphans : AtWork(t)

\* What the runner's thread has done of a checkpoint.
Wrote == {"saved", "compare", "verify", "replace", "record", "done"}
ForcedIsWritten ==
  At("write") =>
    /\ th["runner"].snapshot = doc
    /\ th["runner"].step \in Wrote => partial = doc
    /\ th["runner"].step \in {"record", "done"} => notebook \in {doc.content} \cup edited
    /\ th["runner"].step = "done" => guard = doc.content

Ahead == WorkersAgree /\ OrphansAreLate /\ ForcedIsWritten
ForwardInv ==
  /\ TypeOK /\ TasksAwait
  /\ ~overlap => Ahead

LEMMA Dates ==
  ASSUME TypeOK
  PROVE  /\ clock \in Nat /\ doc.at \in Nat /\ partial.at \in Nat /\ doc \in Documents
         /\ \A t \in AllThreads : t \in Threads /\ t.snapshot.at \in Nat
<1>1. \A t \in AllThreads : t \in Threads BY DEF AllThreads, TypeOK
<1> QED BY <1>1, Numbers DEF TypeOK, Threads, Documents

LEMMA NoThreadIsIdle == ~AtWork(NoThread) /\ NoThread.step = "idle"
  BY DEF AtWork, NoThread, Working

\* The tasks and their threads.
LEMMA StepTasksAwait ==
  ASSUME TypeOK, TasksAwait, [Next]_vars
  PROVE  TasksAwait'
<1> USE DEF TasksAwait, At
<1>0. th \in [Tasks -> Threads] /\ Tasks = {"runner", "loop"} /\ rn \in Runners
  BY DEF TypeOK, Tasks
<1>1. ASSUME NEW task \in Tasks, TaskThread(task) PROVE TasksAwait'
  <2>1. PICK s \in Steps : /\ ThreadMoves(th[task], s)
                           /\ th' = [th EXCEPT ![task] = Moved(@, s)]
                           /\ UNCHANGED <<rn, lp>>
    BY <1>1 DEF TaskThread
  <2>2. th[task] # NoThread
    BY <2>1, NoThreadIsIdle DEF ThreadMoves, WritesFile, Compares, Verifies, Raises, AtWork
  <2> QED BY <1>0, <1>1, <2>1, <2>2
<1>2. CASE Orphan
  <2>1. UNCHANGED <<th, rn, lp>> BY <1>2 DEF Orphan
  <2> QED BY <2>1
<1>3. CASE Loop
  BY <1>0, <1>3 DEF Loop, LoopWakes, LoopChecks, LoopEnters, LoopSaved, LoopFails, StartThread,
     ThreadEnds, MayEnter, Waits, TypeOK
<1>4. CASE RunnerEnters
  BY <1>0, <1>4 DEF RunnerEnters, StartThread, Goto, MayEnter, Waits, Runners
<1>5. CASE BeginWriteback BY <1>0, <1>5 DEF BeginWriteback
<1>6. CASE RunnerSaved
  <2>1. CASE \E status : EndRun(status) BY <1>0, <2>1 DEF EndRun
  <2>2. CASE Goto("exec") /\ ThreadEnds("runner") /\ UNCHANGED <<lp, orphans>>
    BY <1>0, <2>2 DEF Goto, ThreadEnds, Runners
  <2>3. CASE /\ rn' = [pc |-> "lock", then |-> "cancelled", writeback |-> FALSE]
             /\ ThreadEnds("runner") /\ UNCHANGED <<lp, orphans>>
    BY <1>0, <2>3 DEF ThreadEnds
  <2> QED BY <1>6, <2>1, <2>2, <2>3 DEF RunnerSaved
<1>7. CASE RunnerFails
  <2>1. CASE EndRun("failed") BY <1>0, <2>1 DEF EndRun
  <2>2. CASE /\ rn' = [pc |-> "lock", then |-> "failed", writeback |-> FALSE]
             /\ ThreadEnds("runner") /\ UNCHANGED <<lp, orphans>>
    BY <1>0, <2>2 DEF ThreadEnds
  <2> QED BY <1>7, <2>1, <2>2 DEF RunnerFails
<1>8. CASE Output \/ NotebookChanges
  <2>1. UNCHANGED <<th, rn, lp>> BY <1>8 DEF Output, NotebookChanges
  <2> QED BY <2>1
<1>9. CASE BeginForced
  <2>1. PICK then \in Results :
          rn' = [pc |-> "lock", then |-> then, writeback |-> then \in {"exec", "succeeded"}]
    BY <1>9 DEF BeginForced
  <2>2. rn'.pc = "lock" /\ rn'.then = then /\ (then = "succeeded" => rn'.writeback)
    BY <2>1
  <2>3. UNCHANGED <<th, lp>> /\ At("exec") BY <1>9 DEF BeginForced
  <2> QED BY <2>2, <2>3
<1>10. CASE Quiesce BY <1>0, <1>10 DEF Quiesce
<1>11. CASE Closed BY <1>0, <1>11 DEF Closed, EndRun
<1>12. CASE Release \/ Crash BY <1>0, <1>12 DEF Release, Crash, NoProcess
<1>13. CASE Reopen BY <1>0, <1>13 DEF Reopen, Goto, Runners
<1>14. CASE LoadHash BY <1>0, <1>14 DEF LoadHash, Goto, Runners
<1>15. CASE RecordBaseline BY <1>0, <1>15 DEF RecordBaseline, Goto, Runners
<1>16. CASE Edit
  <2>1. UNCHANGED <<th, rn, lp>> BY <1>16 DEF Edit
  <2> QED BY <2>1
<1>17. CASE UNCHANGED vars
  <2>1. UNCHANGED <<th, rn, lp>> BY <1>17 DEF vars
  <2> QED BY <2>1
<1> QED
  BY <1>1, <1>2, <1>3, <1>4, <1>5, <1>6, <1>7, <1>8, <1>9, <1>10, <1>11, <1>12, <1>13, <1>14,
     <1>15, <1>16, <1>17 DEF Next, Forced, Tasks

\* A step that starts no thread and writes none of the files of a checkpoint.
LEMMA WorkersStay ==
  ASSUME TypeOK, TypeOK', WorkersAgree, partial' = partial, number' = number, clock <= clock',
         \A t \in AllThreads' : t \in AllThreads \/ t = NoThread,
         doc'.at <= clock', ~At("none")' => ~At("none") /\ doc.at <= doc'.at
  PROVE  WorkersAgree'
<1> USE DEF WorkersAgree
<1>1. \A t \in Workers' : t \in Workers BY NoThreadIsIdle DEF Workers, AtWork
<1>2. /\ clock \in Nat /\ doc.at \in Nat /\ partial.at \in Nat
      /\ \A t \in Workers : t.snapshot.at \in Nat
  BY Dates DEF Workers
<1>3. clock' \in Nat /\ doc'.at \in Nat BY Numbers DEF TypeOK, Documents
<1> QED BY <1>1, <1>2, <1>3

\* A thread is started, and all at work have what is in memory.
LEMMA WorkersHaveDoc ==
  ASSUME TypeOK, WorkersAgree, ~At("none"), UNCHANGED <<partial, number, clock, doc>>,
         \A t \in AllThreads' : t = NoThread \/ (t.snapshot = doc /\ t.process = number)
  PROVE  WorkersAgree'
<1> USE DEF WorkersAgree
<1>1. \A t \in Workers' : t.snapshot = doc BY NoThreadIsIdle DEF Workers, AtWork
<1>2. doc.at \in Nat BY Dates
<1> QED BY <1>1, <1>2

\* A thread moves: partial is written with what all that are at work have.
LEMMA MoveKeepsWorkers ==
  ASSUME TypeOK, WorkersAgree, NEW t \in AllThreads, NEW s \in Steps, ThreadMoves(t, s),
         UNCHANGED <<doc, number, clock, rn>>,
         \A u \in AllThreads' : u \in AllThreads \/ u = Moved(t, s)
  PROVE  WorkersAgree' /\ AtWork(t) /\ partial' \in {partial, t.snapshot}
         /\ partial'.at >= partial.at
<1> USE DEF WorkersAgree
<1>1. /\ AtWork(t) /\ t \in Workers /\ s # "partial"
  BY DEF ThreadMoves, WritesFile, Compares, Verifies, Raises, AtWork, Working, Workers, Steps
<1>2. partial' = partial \/ (t.step = "partial" /\ partial' = t.snapshot)
  BY DEF ThreadMoves, WritesFile, Compares, Verifies, Raises, Effect, files
<1>3. t \in Threads BY Dates
<1>4. \A u : u = Moved(t, s) =>
         u.snapshot = t.snapshot /\ u.process = t.process /\ u.step # "partial"
  BY <1>1, <1>3 DEF Moved, Threads
<1>9. \A u \in Workers' : u \in Workers \/ u = Moved(t, s) BY DEF Workers, AtWork
<1>10. \A u \in AllThreads' : u # NoThread => u.process = number'
  BY <1>1, <1>4, NoThreadIsIdle
<1>5. /\ clock \in Nat /\ doc.at \in Nat /\ partial.at \in Nat
      /\ \A u \in Workers : u.snapshot.at \in Nat
  BY Dates DEF Workers
<1>6. partial'.at >= partial.at /\ partial'.at <= clock /\ (~At("none") => partial'.at <= doc.at)
  BY <1>1, <1>2, <1>5
<1>7. At("none")' <=> At("none") BY DEF At
<1>8. \A u \in Workers : u.step = "partial" => partial'.at <= u.snapshot.at
  BY <1>1, <1>2, <1>5
<1> QED BY <1>1, <1>2, <1>4, <1>5, <1>6, <1>7, <1>8, <1>9, <1>10

\* What the runner's own thread does, when it moves to s.
LEMMA RunnerThreadKeepsWritten ==
  ASSUME TypeOK, ForcedIsWritten, At("write"), NEW s \in Steps,
         ThreadMoves(th["runner"], s), th'["runner"] = Moved(th["runner"], s),
         UNCHANGED <<doc, edited, rn>>
  PROVE  ForcedIsWritten'
<1> DEFINE t == th["runner"]
<1> USE DEF ForcedIsWritten
<1>0. t \in Threads BY DEF TypeOK, Tasks
<1>1. t.snapshot = doc /\ (t.step \in Wrote => partial = doc)
      /\ (t.step = "record" => notebook \in {doc.content} \cup edited)
  OBVIOUS
<1>2. /\ th'["runner"].step = s /\ th'["runner"].snapshot = doc
  BY <1>0, <1>1 DEF Moved, Threads
<1> SUFFICES /\ s \in Wrote => partial' = doc
             /\ s \in {"record", "done"} => notebook' \in {doc.content} \cup edited
             /\ s = "done" => guard' = doc.content
  BY <1>2
<1> HIDE DEF ForcedIsWritten
<1>3. CASE WritesFile(t, s)
  <2>1. CASE t.step = "partial"
    BY <1>1, <1>3, <2>1 DEF WritesFile, Effect
  <2>2. CASE t.step = "replace"
    BY <1>1, <1>3, <2>2 DEF WritesFile, Effect, Wrote
  <2>3. CASE t.step = "record"
    BY <1>1, <1>3, <2>3 DEF WritesFile, Effect, Wrote
  <2> QED BY <1>3, <2>1, <2>2, <2>3 DEF WritesFile
<1>4. CASE Compares(t, s)
  BY <1>1, <1>4 DEF Compares, Wrote, files
<1>5. CASE Verifies(t, s)
  BY <1>1, <1>5 DEF Verifies, Wrote, files
<1>6. CASE Raises(t, s)
  BY <1>6 DEF Raises, Wrote
<1> QED BY <1>3, <1>4, <1>5, <1>6 DEF ThreadMoves

LEMMA ThreadKeepsAhead ==
  ASSUME TypeOK, TasksAwait, Ahead, TaskStep \/ Orphan
  PROVE  Ahead' /\ partial'.at >= partial.at
<1> USE DEF Ahead
<1>1. ASSUME NEW task \in Tasks, TaskThread(task)
      PROVE  Ahead' /\ partial'.at >= partial.at
  <2>1. PICK s \in Steps :
          /\ ThreadMoves(th[task], s)
          /\ th' = [th EXCEPT ![task] = Moved(@, s)]
          /\ UNCHANGED <<doc, rn, lp, lock, orphans, number, clock, edited>>
    BY <1>1 DEF TaskThread, counters, history
  <2>2. th[task] \in AllThreads /\ th \in [Tasks -> Threads] BY DEF AllThreads, TypeOK
  <2>3. \A u \in AllThreads' : u \in AllThreads \/ u = Moved(th[task], s)
    BY <2>1, <2>2 DEF AllThreads
  <2>4. WorkersAgree' /\ AtWork(th[task]) /\ partial'.at >= partial.at
    BY <2>1, <2>2, <2>3, MoveKeepsWorkers
  <2>5. OrphansAreLate' BY <2>1 DEF OrphansAreLate, At, AtWork
  <2>6. CASE task = "runner"
    <3>1. At("write") BY <2>4, <2>6, NoThreadIsIdle DEF TasksAwait
    <3> QED BY <2>1, <2>2, <2>4, <2>5, <2>6, <3>1, RunnerThreadKeepsWritten DEF Tasks
  <2>7. CASE task = "loop"
    <3>1. lp = "write" BY <2>4, <2>7, NoThreadIsIdle DEF TasksAwait
    <3>2. ~At("write")' BY <2>1, <3>1 DEF TypeOK, At
    <3> QED BY <2>4, <2>5, <3>2 DEF ForcedIsWritten
  <2> QED BY <2>6, <2>7 DEF Tasks
<1>2. CASE Orphan
  <2>1. PICK t \in orphans, s \in Steps :
          /\ ThreadMoves(t, s)
          /\ orphans' = (orphans \ {t}) \cup (IF s \in Working THEN {Moved(t, s)} ELSE {})
          /\ UNCHANGED <<doc, rn, th, number, clock>>
    BY <1>2 DEF Orphan, counters
  <2>2. t \in AllThreads /\ t \in Threads BY Dates DEF AllThreads
  <2>3. \A u \in AllThreads' : u \in AllThreads \/ u = Moved(t, s)
    BY <2>1 DEF AllThreads
  <2>4. WorkersAgree' /\ partial'.at >= partial.at
    BY <2>1, <2>2, <2>3, MoveKeepsWorkers
  <2>5. Moved(t, s).snapshot = t.snapshot /\ Moved(t, s).step = s BY <2>2 DEF Moved, Threads
  <2>6. OrphansAreLate'
    BY <2>1, <2>5 DEF OrphansAreLate, At, AtWork
  <2>7. ~At("write")'
    BY <2>1 DEF OrphansAreLate, At, Ended
  <2> QED BY <2>4, <2>6, <2>7 DEF ForcedIsWritten
<1> QED BY <1>1, <1>2 DEF TaskStep, Tasks

LEMMA LoopKeepsAhead ==
  ASSUME TypeOK, TypeOK', TasksAwait, Ahead, Loop
  PROVE  Ahead' /\ partial' = partial
<1> USE DEF Ahead
<1>0. /\ UNCHANGED <<partial, notebook, guard, doc, rn, orphans, number, clock, edited>>
      /\ th \in [Tasks -> Threads] /\ Tasks = {"runner", "loop"}
  BY DEF Loop, LoopWakes, LoopChecks, LoopEnters, LoopSaved, LoopFails, files, counters,
     history, TypeOK, Tasks
<1>1. doc.at <= clock /\ doc.at <= doc'.at /\ clock <= clock'
  BY <1>0, Dates DEF WorkersAgree
<1>2. OrphansAreLate' BY <1>0 DEF OrphansAreLate, At, AtWork
<1>3. CASE StartThread("loop", FALSE) /\ LoopEnters
  <2> DEFINE w == [NoThread EXCEPT !.step = "partial", !.snapshot = doc,
                      !.writeback = FALSE, !.target = requested, !.expected = expected,
                      !.process = number]
  <2>1. th' = [th EXCEPT !["loop"] = w] BY <1>3 DEF StartThread
  <2>2. w.snapshot = doc /\ w.process = number BY DEF NoThread
  <2> HIDE DEF w
  <2>3. ~At("write") /\ ~At("none") /\ (orphans # {} => At("closing"))
    BY <1>3 DEF LoopEnters, MayEnter, Waits, TypeOK, TasksAwait, At, OrphansAreLate, Ended
  <2>4. th["runner"] = NoThread BY <2>3 DEF TasksAwait
  <2>5. \A t \in orphans : t.snapshot = doc /\ t.process = number
    BY <2>3, NoThreadIsIdle DEF OrphansAreLate, WorkersAgree, AllThreads
  <2>6. \A t \in AllThreads' : t \in orphans \/ t = w \/ t = NoThread
    BY <1>0, <2>1, <2>4 DEF AllThreads
  <2>7. WorkersAgree'
    BY <1>0, <2>2, <2>3, <2>5, <2>6, WorkersHaveDoc
  <2> QED BY <1>0, <1>2, <2>3, <2>7 DEF ForcedIsWritten, At
<1>4. CASE th' = th \/ ThreadEnds("loop")
  <2>1. \A t \in AllThreads' : t \in AllThreads \/ t = NoThread
    BY <1>0, <1>4 DEF AllThreads, ThreadEnds
  <2>2. WorkersAgree' BY <1>0, <1>1, <2>1, WorkersStay DEF At
  <2>3. th'["runner"] = th["runner"] BY <1>0, <1>4 DEF ThreadEnds
  <2>4. ForcedIsWritten' BY <1>0, <2>3 DEF ForcedIsWritten, At
  <2> QED BY <1>0, <1>2, <2>2, <2>4
<1> QED
  BY <1>3, <1>4 DEF Loop, LoopWakes, LoopChecks, LoopEnters, LoopSaved, LoopFails

LEMMA ForcedKeepsAhead ==
  ASSUME TypeOK, TypeOK', TasksAwait, Ahead, Forced
  PROVE  Ahead' /\ partial' = partial
<1> USE DEF Ahead
<1>0. /\ UNCHANGED <<partial, notebook, guard, doc, number, clock, edited>>
      /\ th \in [Tasks -> Threads] /\ Tasks = {"runner", "loop"} /\ rn \in Runners
  BY DEF Forced, RunnerEnters, BeginWriteback, RunnerSaved, RunnerFails, files, counters,
     history, TypeOK, Tasks
<1>1. doc.at <= clock /\ doc.at <= doc'.at /\ clock <= clock'
  BY <1>0, Dates DEF WorkersAgree
<1>2. ~At("none") /\ rn.pc \in {"lock", "write"}
  BY DEF Forced, RunnerEnters, BeginWriteback, RunnerSaved, RunnerFails, MayEnter, Waits, At
<1>3. orphans = {} BY <1>2 DEF OrphansAreLate, Ended
<1>4. CASE RunnerEnters
  <2> DEFINE w == [NoThread EXCEPT !.step = "partial", !.snapshot = doc,
                      !.writeback = rn.writeback, !.target = requested, !.expected = expected,
                      !.process = number]
  <2>1. th' = [th EXCEPT !["runner"] = w] /\ orphans' = {} /\ lp' = lp /\ lock' = "runner"
    BY <1>3, <1>4 DEF RunnerEnters, StartThread
  <2>2. w.snapshot = doc /\ w.process = number /\ w.step = "partial" BY DEF NoThread
  <2> HIDE DEF w
  <2>3. th["loop"] = NoThread
    BY <1>4 DEF RunnerEnters, MayEnter, TypeOK, TasksAwait
  <2>4. \A t \in AllThreads' : t = w \/ t = NoThread
    BY <1>0, <2>1, <2>3 DEF AllThreads
  <2>5. WorkersAgree'
    BY <1>0, <1>2, <2>2, <2>4, WorkersHaveDoc
  <2>6. th'["runner"] = w BY <1>0, <2>1
  <2> QED BY <1>0, <2>1, <2>2, <2>5, <2>6 DEF ForcedIsWritten, Wrote, OrphansAreLate
<1>5. CASE BeginWriteback
  <2> DEFINE t == th["runner"]
             w == [t EXCEPT !.step = "compare"]
  <2>1. /\ th' = [th EXCEPT !["runner"] = w] /\ orphans' = {} /\ rn' = rn /\ At("write")
        /\ t.step = "saved"
    BY <1>3, <1>5 DEF BeginWriteback
  <2>2. t.snapshot = doc /\ partial = doc BY <2>1 DEF ForcedIsWritten, Wrote
  <2>3. t \in Threads BY <1>0
  <2>4. w.snapshot = doc /\ w.process = t.process /\ w.step = "compare"
    BY <2>2, <2>3 DEF Threads
  <2> HIDE DEF w
  <2>5. th["loop"] = NoThread BY <2>1 DEF TypeOK, TasksAwait
  <2>6. \A u \in AllThreads' : u = w \/ u = NoThread
    BY <1>0, <2>1, <2>5 DEF AllThreads
  <2>7. t.process = number
    <3>1. t # NoThread BY <2>1, NoThreadIsIdle
    <3> QED BY <1>0, <3>1 DEF WorkersAgree, AllThreads
  <2>8. WorkersAgree'
    BY <1>0, <1>2, <2>4, <2>6, <2>7, WorkersHaveDoc
  <2>9. th'["runner"] = w BY <1>0, <2>1
  <2> QED BY <1>0, <2>1, <2>2, <2>4, <2>8, <2>9 DEF ForcedIsWritten, OrphansAreLate
<1>6. CASE RunnerSaved \/ RunnerFails
  <2>1. At("write") BY <1>6 DEF RunnerSaved, RunnerFails
  <2>2. th["loop"] = NoThread BY <2>1 DEF TypeOK, TasksAwait
  <2>3. Left("loop") = {} BY <2>2, NoThreadIsIdle DEF Left
  <2>4. orphans' = {} BY <1>3, <1>6, <2>3 DEF RunnerSaved, RunnerFails, EndRun
  <2>5. th' = [task \in Tasks |-> NoThread] \/ th' = [th EXCEPT !["runner"] = NoThread]
    BY <1>6 DEF RunnerSaved, RunnerFails, EndRun, ThreadEnds
  <2>6. \A t \in AllThreads' : t \in AllThreads \/ t = NoThread
    BY <1>0, <2>4, <2>5 DEF AllThreads
  <2>7. rn'.pc \notin {"write", "none"}
    <3>1. CASE \E status \in {"succeeded", "cancelled", "failed"} : EndRun(status)
      BY <3>1 DEF EndRun
    <3>2. CASE Goto("exec") BY <1>0, <3>2 DEF Goto, Runners
    <3>3. CASE \E then \in Results : rn' = [pc |-> "lock", then |-> then, writeback |-> FALSE]
      BY <3>3
    <3> QED
      BY <1>0, <1>6, <3>1, <3>2, <3>3 DEF RunnerSaved, RunnerFails, Runners, Results
  <2>8. WorkersAgree' BY <1>0, <1>1, <1>2, <2>6, WorkersStay DEF At
  <2> QED BY <1>0, <2>4, <2>7, <2>8 DEF OrphansAreLate, ForcedIsWritten, At
<1> QED BY <1>4, <1>5, <1>6 DEF Forced

LEMMA WorkKeepsAhead ==
  ASSUME TypeOK, TypeOK', TasksAwait, Ahead, Work
  PROVE  Ahead' /\ partial' = partial
<1> USE DEF Ahead
<1>0. /\ UNCHANGED <<partial, th, orphans, number>> /\ At("exec") /\ rn'.pc \in {"exec", "lock"}
  BY DEF Work, Output, NotebookChanges, BeginForced, files, counters, At
<1>1. orphans = {} BY <1>0 DEF OrphansAreLate, At, Ended
<1>2. OrphansAreLate' /\ ForcedIsWritten' BY <1>0, <1>1 DEF OrphansAreLate, ForcedIsWritten, At
<1>3. \/ clock' = clock /\ doc' = doc
      \/ clock' = clock + 1 /\ doc'.at = clock + 1
  BY DEF Work, Output, NotebookChanges, BeginForced, Changed, counters
<1>4. clock <= clock' /\ doc'.at <= clock' /\ doc.at <= doc'.at
  <2>1. clock \in Nat /\ doc.at \in Nat /\ doc.at <= clock BY Dates DEF WorkersAgree
  <2> QED BY <1>3, <2>1
<1>5. AllThreads' = AllThreads BY <1>0 DEF AllThreads
<1>6. ~At("none") /\ ~At("none")' BY <1>0 DEF At
<1>7. WorkersAgree' BY <1>0, <1>4, <1>5, <1>6, WorkersStay
<1> QED BY <1>0, <1>2, <1>7

\* The process ends, begins and is edited.
LEMMA EnvironmentKeepsAhead ==
  ASSUME TypeOK, TypeOK', TasksAwait, Ahead, Environment, ~overlap'
  PROVE  Ahead' /\ partial' = partial
<1> USE DEF Ahead
<1>0. /\ partial' = partial /\ th \in [Tasks -> Threads] /\ Tasks = {"runner", "loop"}
      /\ rn \in Runners
  BY DEF Environment, Quiesce, Closed, Release, Crash, Reopen, LoadHash, RecordBaseline, Edit,
     files, TypeOK, Tasks
<1>1. /\ clock \in Nat /\ doc.at \in Nat /\ partial.at \in Nat /\ doc.at <= clock
      /\ partial.at <= clock
  BY Dates DEF WorkersAgree
<1>2. CASE Quiesce
  <2>1. /\ UNCHANGED <<doc, number, clock>> /\ rn.pc \in {"exec", "lock", "write"}
        /\ rn'.pc = "closing" /\ orphans' = orphans \cup Left("runner")
        /\ th' = [th EXCEPT !["runner"] = NoThread]
    BY <1>2 DEF Quiesce, counters
  <2>2. orphans = {} BY <2>1 DEF OrphansAreLate, Ended, At
  <2>3. \A t \in Left("runner") : t \in AllThreads /\ AtWork(t) /\ t.snapshot = doc
    BY <2>1, NoThreadIsIdle DEF Left, AllThreads, Tasks, TasksAwait, ForcedIsWritten
  <2>4. \A t \in AllThreads' : t \in AllThreads \/ t = NoThread
    BY <1>0, <2>1, <2>2, <2>3 DEF AllThreads
  <2>5. WorkersAgree' BY <1>0, <1>1, <2>1, <2>4, WorkersStay DEF At
  <2>6. OrphansAreLate' BY <2>1, <2>2, <2>3 DEF OrphansAreLate, At, AtWork
  <2> QED BY <1>0, <2>1, <2>5, <2>6 DEF ForcedIsWritten, At
<1>3. CASE Closed
  <2>1. /\ UNCHANGED <<doc, number, clock>> /\ At("closing")
        /\ rn'.pc = "quiesced" /\ orphans' = orphans \cup Left("loop")
        /\ th' = [task \in Tasks |-> NoThread]
    BY <1>3 DEF Closed, EndRun, counters
  <2>2. \A t \in Left("loop") : t \in AllThreads /\ AtWork(t)
    BY DEF Left, AllThreads, Tasks
  <2>3. \A t \in AllThreads' : t \in AllThreads \/ t = NoThread
    BY <1>0, <2>1, <2>2 DEF AllThreads
  <2>4. WorkersAgree' BY <1>0, <1>1, <2>1, <2>3, WorkersStay DEF At
  <2>5. OrphansAreLate' BY <2>1, <2>2 DEF OrphansAreLate, At, AtWork, Ended
  <2> QED BY <1>0, <2>1, <2>4, <2>5 DEF ForcedIsWritten, At
<1>4. CASE Release \/ Crash
  <2>1. /\ UNCHANGED <<number, clock>> /\ rn'.pc = "none" /\ doc' = Original
        /\ th' = [task \in Tasks |-> NoThread] /\ orphans' \subseteq orphans
    BY <1>4 DEF Release, Crash, NoProcess, counters
  <2>2. \A t \in AllThreads' : t \in AllThreads \/ t = NoThread
    BY <1>0, <2>1 DEF AllThreads
  <2>3. doc'.at = 0 BY <2>1 DEF Original
  <2>4. WorkersAgree' BY <1>0, <1>1, <2>1, <2>2, <2>3, WorkersStay DEF At
  <2>5. OrphansAreLate' BY <2>1 DEF OrphansAreLate, At, AtWork
  <2> QED BY <1>0, <2>1, <2>4, <2>5 DEF ForcedIsWritten, At
<1>5. CASE Reopen
  <2>1. /\ At("none") /\ UNCHANGED <<th, orphans, lp>> /\ orphans = {}
        /\ clock' = clock + 1 /\ doc'.at = clock + 1 /\ Goto("prepare")
    BY <1>5 DEF Reopen
  <2>2. th["runner"] = NoThread /\ th["loop"] = NoThread
    BY <2>1 DEF TasksAwait, At
  <2>3. \A t \in AllThreads' : t = NoThread
    BY <1>0, <2>1, <2>2 DEF AllThreads
  <2>4. Workers' = {} BY <2>3, NoThreadIsIdle DEF Workers, AtWork
  <2>5. rn'.pc = "prepare" BY <1>0, <2>1 DEF Goto, Runners
  <2>6. WorkersAgree' BY <1>0, <1>1, <2>1, <2>3, <2>4 DEF WorkersAgree
  <2> QED BY <1>0, <2>1, <2>5, <2>6 DEF OrphansAreLate, ForcedIsWritten, At
<1>6. CASE LoadHash \/ RecordBaseline
  <2>1. /\ UNCHANGED <<doc, number, clock, th, orphans>> /\ rn.pc \in {"prepare", "baseline"}
        /\ rn'.pc \in {"baseline", "exec"}
    BY <1>0, <1>6 DEF LoadHash, RecordBaseline, counters, At, Goto, Runners
  <2>2. AllThreads' = AllThreads BY <2>1 DEF AllThreads
  <2>3. WorkersAgree' BY <1>0, <1>1, <2>1, <2>2, WorkersStay DEF At
  <2>4. orphans = {} BY <2>1 DEF OrphansAreLate, Ended, At
  <2> QED BY <1>0, <2>1, <2>3, <2>4 DEF OrphansAreLate, ForcedIsWritten, At
<1>7. CASE Edit
  <2>1. /\ UNCHANGED <<doc, number, guard, rn, th, orphans>> /\ clock' = clock + 1
        /\ notebook' = clock + 1 /\ edited' = edited \cup {clock + 1}
    BY <1>7 DEF Edit
  <2>2. AllThreads' = AllThreads BY <2>1 DEF AllThreads
  <2>3. clock <= clock' /\ doc'.at <= clock' /\ doc.at <= doc'.at BY <1>1, <2>1
  <2>4. At("none")' <=> At("none") BY <2>1 DEF At
  <2>5. WorkersAgree' BY <1>0, <2>1, <2>2, <2>3, <2>4, WorkersStay
  <2>6. OrphansAreLate' BY <2>1 DEF OrphansAreLate, At, AtWork
  <2>7. ForcedIsWritten' BY <1>0, <2>1 DEF ForcedIsWritten, At
  <2> QED BY <1>0, <2>5, <2>6, <2>7
<1> QED BY <1>2, <1>3, <1>4, <1>5, <1>6, <1>7 DEF Environment

LEMMA StepForwardInv ==
  ASSUME ForwardInv, [Next]_vars
  PROVE  ForwardInv' /\ (~overlap => partial'.at >= partial.at)
<1> USE DEF ForwardInv
<1>1. TypeOK' /\ TasksAwait' BY StepTypeOK, StepTasksAwait
<1>2. overlap' = overlap \/ (overlap' = (overlap \/ orphans # {}) /\ partial' = partial)
  BY DEF Next, Loop, LoopWakes, LoopChecks, LoopEnters, LoopSaved, LoopFails, Forced,
     RunnerEnters, BeginWriteback, RunnerSaved, RunnerFails, TaskThread, Orphan, Output,
     NotebookChanges, BeginForced, Quiesce, Closed, Release, Crash, Reopen, LoadHash,
     RecordBaseline, Edit, files, history, vars
<1>3. ~overlap => ~overlap' \/ partial' = partial BY <1>2
<1>4. ASSUME ~overlap' PROVE Ahead' /\ partial'.at >= partial.at
  <2>0. TypeOK /\ TasksAwait /\ Ahead BY <1>2, <1>4
  <2>1. partial' = partial => partial'.at >= partial.at BY <2>0, Dates
  <2>2. CASE TaskStep \/ Orphan BY <2>0, <2>2, ThreadKeepsAhead
  <2>3. CASE Loop BY <1>1, <2>0, <2>1, <2>3, LoopKeepsAhead
  <2>4. CASE Forced BY <1>1, <2>0, <2>1, <2>4, ForcedKeepsAhead
  <2>5. CASE Work BY <1>1, <2>0, <2>1, <2>5, WorkKeepsAhead
  <2>6. CASE Environment BY <1>1, <1>4, <2>0, <2>1, <2>6, EnvironmentKeepsAhead
  <2>7. CASE UNCHANGED vars
    <3>1. UNCHANGED <<partial, notebook, guard, doc, rn, lp, th, orphans, number, clock, edited>>
      BY <2>7 DEF vars, files, counters, history
    <3>2. Ahead'
      BY <2>0, <3>1 DEF Ahead, WorkersAgree, OrphansAreLate, ForcedIsWritten, Workers, AllThreads,
         At, AtWork
    <3> QED BY <2>1, <3>1, <3>2
  <2> QED BY <2>2, <2>3, <2>4, <2>5, <2>6, <2>7 DEF Next, TaskStep, Work, Environment
<1>5. partial' = partial => partial'.at >= partial.at BY Dates
<1> QED BY <1>1, <1>3, <1>4, <1>5

THEOREM CheckpointsStayAhead == Spec => []ForwardInv
<1>1. Init => ForwardInv
  <2> SUFFICES ASSUME Init PROVE ForwardInv
    OBVIOUS
  <2>1. \A t \in AllThreads : t = NoThread BY DEF Init, AllThreads
  <2>2. Workers = {} BY <2>1, NoThreadIsIdle DEF Workers
  <2>3. TypeOK BY InitTypeOK
  <2>4. TasksAwait BY DEF Init, TasksAwait, At, Tasks
  <2>5. WorkersAgree BY <2>1, <2>2 DEF Init, WorkersAgree, Original
  <2>6. OrphansAreLate /\ ForcedIsWritten BY DEF Init, OrphansAreLate, ForcedIsWritten, At
  <2> QED BY <2>3, <2>4, <2>5, <2>6 DEF ForwardInv, Ahead
<1>2. ForwardInv /\ [Next]_vars => ForwardInv'
  BY StepForwardInv
<1> QED BY <1>1, <1>2, PTL DEF Spec

\* The runner returns from a forced checkpoint only where its thread has come to the
\* end of it.
LEMMA RunnerReturns ==
  ASSUME TypeOK, [Next]_vars, At("write"), rn'.pc \in {"exec", "succeeded", "cancelled"},
         rn'.pc # rn.pc
  PROVE  /\ RunnerSaved /\ th["runner"].step = (IF rn.writeback THEN "done" ELSE "saved")
         /\ rn'.pc = "succeeded" => rn.then = "succeeded"
         /\ UNCHANGED <<files, overlap>>
<1>0. rn.pc = "write" /\ rn \in Runners BY DEF At, TypeOK
<1>1. rn' # rn BY <1>0
<1>2. CASE RunnerFails
  BY <1>0, <1>2 DEF RunnerFails, EndRun
<1>3. CASE RunnerSaved
  <2>1. th["runner"].step = (IF rn.writeback THEN "done" ELSE "saved") /\ UNCHANGED <<files, overlap>>
    BY <1>3 DEF RunnerSaved, history
  <2>2. rn'.pc = "succeeded" => rn.then = "succeeded"
    BY <1>0, <1>3 DEF RunnerSaved, EndRun, Goto, Runners
  <2> QED BY <1>3, <2>1, <2>2
<1>4. CASE Loop \/ TaskStep \/ Orphan \/ BeginWriteback \/ Output \/ NotebookChanges \/ Edit
           \/ UNCHANGED vars
  BY <1>1, <1>4 DEF Loop, LoopWakes, LoopChecks, LoopEnters, LoopSaved, LoopFails, TaskStep,
     TaskThread, Orphan, BeginWriteback, Output, NotebookChanges, Edit, vars
<1>5. CASE RunnerEnters \/ BeginForced \/ Closed \/ Release \/ Reopen \/ LoadHash \/ RecordBaseline
  BY <1>0, <1>5 DEF RunnerEnters, MayEnter, Waits, BeginForced, Closed, Release, Reopen, LoadHash,
     RecordBaseline, At, Ended
<1>6. CASE Quiesce \/ Crash
  BY <1>0, <1>6 DEF Quiesce, Crash, NoProcess
<1> QED BY <1>2, <1>3, <1>4, <1>5, <1>6 DEF Next, Forced, TaskStep

LEMMA SucceedsFromWrite ==
  ASSUME TypeOK, [Next]_vars, ~At("succeeded"), rn'.pc = "succeeded"
  PROVE  At("write")
<1>0. rn.pc # "succeeded" /\ rn \in Runners BY DEF At, TypeOK
<1>1. rn' # rn BY <1>0
<1>2. CASE RunnerFails \/ RunnerSaved BY <1>2 DEF RunnerFails, RunnerSaved
<1>3. CASE Loop \/ TaskStep \/ Orphan \/ BeginWriteback \/ Output \/ NotebookChanges \/ Edit
           \/ UNCHANGED vars
  BY <1>1, <1>3 DEF Loop, LoopWakes, LoopChecks, LoopEnters, LoopSaved, LoopFails, TaskStep,
     TaskThread, Orphan, BeginWriteback, Output, NotebookChanges, Edit, vars
<1>4. CASE RunnerEnters \/ BeginForced \/ Closed \/ Release \/ Reopen \/ LoadHash \/ RecordBaseline
           \/ Quiesce \/ Crash
  BY <1>0, <1>4 DEF RunnerEnters, BeginForced, Closed, Release, Reopen, LoadHash,
     RecordBaseline, Quiesce, Crash, NoProcess, EndRun, Goto, Runners
<1> QED BY <1>2, <1>3, <1>4 DEF Next, Forced, TaskStep

\* A forced checkpoint returns with the notebook in memory on disk, and the file is
\* never set back -- though threads outlive the tasks that awaited them -- as long as
\* none outlives the process and meets the next (_checkpoint, _serialize_checkpoint).
THEOREM ForwardCheckpoints == Spec => CheckpointsMoveForward
<1>1. ForwardInv /\ [Next]_vars =>
        [(At("write") /\ rn'.pc \in {"exec", "succeeded", "cancelled"} /\ ~overlap)
           => partial = doc]_vars
  <2> SUFFICES ASSUME ForwardInv, [Next]_vars, At("write"), ~overlap,
                      rn'.pc \in {"exec", "succeeded", "cancelled"}
               PROVE  partial = doc
    OBVIOUS
  <2>1. th["runner"].step \in Wrote
    BY RunnerReturns DEF ForwardInv, Wrote, At
  <2> QED BY <2>1 DEF ForwardInv, Ahead, ForcedIsWritten
<1> DEFINE GoesOn == ~overlap => partial'.at >= partial.at
<1>2. ForwardInv /\ [Next]_vars => [GoesOn]_vars
  BY StepForwardInv
<1>3. Spec => CheckpointReturnsDurable
  BY <1>1, CheckpointsStayAhead, PTL DEF Spec, CheckpointReturnsDurable
<1>4. Spec => PartialNeverGoesBack
  BY <1>2, CheckpointsStayAhead, PTL DEF Spec, PartialNeverGoesBack
<1> QED BY <1>3, <1>4 DEF CheckpointsMoveForward

\* A run that succeeds has its last state in the checkpoint and in the user's notebook,
\* which only the user may have saved since, and the recorded hash is of that state
\* (_write_back_original_notebook, the last checkpoint of run).
THEOREM SuccessesAreWrittenBack == Spec => SuccessIsWrittenBack
<1>1. ForwardInv /\ [Next]_vars =>
        [(~At("succeeded") /\ rn'.pc = "succeeded" /\ ~overlap) =>
           /\ guard = doc.content /\ partial = doc
           /\ notebook \in {doc.content} \cup edited]_vars
  <2> SUFFICES ASSUME ForwardInv, [Next]_vars, ~At("succeeded"), rn'.pc = "succeeded", ~overlap
               PROVE  /\ guard = doc.content /\ partial = doc
                      /\ notebook \in {doc.content} \cup edited
    OBVIOUS
  <2>1. At("write") BY SucceedsFromWrite DEF ForwardInv
  <2>2. th["runner"].step = "done"
    BY <2>1, RunnerReturns DEF ForwardInv, TasksAwait, At
  <2> QED BY <2>1, <2>2 DEF ForwardInv, Ahead, ForcedIsWritten, Wrote
<1> QED BY <1>1, CheckpointsStayAhead, PTL DEF Spec, SuccessIsWrittenBack

=============================================================================
