--------------------------- MODULE ResourcesProofs ---------------------------
(***************************************************************************)
(* Proofs about Resources: types, the exclusion of stops by the stop lock, *)
(* what rows keep of the jobs, confirmed stops, and the monitors that the  *)
(* end of a run waits for.                                                 *)
(***************************************************************************)
EXTENDS Resources, FiniteSetTheorems, TLAPS

-----------------------------------------------------------------------------
(* What the operators on rows return.                                      *)

SameIdentity(v, w) == v.known = w.known /\ v.life = w.life

LEMMA SetStatusRow ==
  ASSUME NEW w \in Row, NEW status \in Status
  PROVE  /\ SetStatus(w, status) \in Row
         /\ SetStatus(w, status).status = status
         /\ SetStatus(w, status).terminal = w.terminal
         /\ SetStatus(w, status).closed = w.closed
         /\ SetStatus(w, status).disp = w.disp
         /\ SameIdentity(SetStatus(w, status), w)
  BY DEF SetStatus, Row, SameIdentity

LEMMA SetDispositionRow ==
  ASSUME NEW w \in Row, NEW disp \in Disposition
  PROVE  /\ SetDisposition(w, disp) \in Row
         /\ SetDisposition(w, disp).status = w.status
         /\ SetDisposition(w, disp).terminal = w.terminal
         /\ SetDisposition(w, disp).closed = w.closed
         /\ SetDisposition(w, disp).disp = disp
         /\ SameIdentity(SetDisposition(w, disp), w)
  BY DEF SetDisposition, Row, SameIdentity

LEMMA ClosedRow ==
  ASSUME NEW w \in Row, NEW closed \in BOOLEAN
  PROVE  /\ [w EXCEPT !.closed = closed] \in Row
         /\ [w EXCEPT !.closed = closed].status = w.status
         /\ [w EXCEPT !.closed = closed].terminal = w.terminal
         /\ [w EXCEPT !.closed = closed].closed = closed
         /\ [w EXCEPT !.closed = closed].disp = w.disp
         /\ SameIdentity([w EXCEPT !.closed = closed], w)
  BY DEF Row, SameIdentity

LEMMA ObserveRow ==
  ASSUME NEW w \in Row, NEW status \in Status, NEW terminal \in BOOLEAN,
         NEW disp \in Disposition
  PROVE  /\ Observe(w, status, terminal, disp) \in Row
         /\ Observe(w, status, terminal, disp).status = status
         /\ Observe(w, status, terminal, disp).terminal = terminal
         /\ terminal => Observe(w, status, terminal, disp).disp = disp
         /\ ~terminal => Observe(w, status, terminal, disp).disp = w.disp
         /\ ~terminal \/ disp = "active" =>
              Observe(w, status, terminal, disp).closed = w.closed
         /\ SameIdentity(Observe(w, status, terminal, disp), w)
  BY DEF Observe, Row, SameIdentity

\* What an inspection makes of a row, by what was sampled.
LEMMA InspectedRow ==
  ASSUME NEW r \in Rs, row[r] \in Row, sample[r] \in Jobs,
         NEW disp \in Disposition, NEW preserve \in BOOLEAN
  PROVE  /\ Inspected(r, disp, preserve) \in Row
         /\ SameIdentity(Inspected(r, disp, preserve), row[r])
         /\ Inspected(r, disp, preserve).terminal =
              (sample[r] # "running" \/ (preserve /\ row[r].terminal))
         /\ Inspected(r, disp, preserve).terminal => Inspected(r, disp, preserve).disp = disp
         /\ ~Inspected(r, disp, preserve).terminal =>
              /\ Inspected(r, disp, preserve).disp = row[r].disp
              /\ Inspected(r, disp, preserve).closed = row[r].closed
              /\ row[r].status = "stopping" => Inspected(r, disp, preserve).status = "stopping"
         /\ disp = "active" => Inspected(r, disp, preserve).closed = row[r].closed
<1> DEFINE o == Seen(r, preserve)
<1>1. row[r].status \in Status /\ row[r].terminal \in BOOLEAN BY DEF Row
<1>2. /\ o.status \in Status /\ o.terminal \in BOOLEAN
      /\ o.terminal = (sample[r] # "running" \/ (preserve /\ row[r].terminal))
      /\ ~o.terminal /\ row[r].status = "stopping" => o.status = "stopping"
  BY <1>1 DEF Seen, Status, Jobs, Ended
<1>3. Inspected(r, disp, preserve) = Observe(row[r], o.status, o.terminal, disp)
  BY DEF Inspected
<1> DEFINE w == Inspected(r, disp, preserve)
<1>4. /\ w \in Row /\ w.status = o.status /\ w.terminal = o.terminal
      /\ o.terminal => w.disp = disp
      /\ ~o.terminal => w.disp = row[r].disp
      /\ ~o.terminal \/ disp = "active" => w.closed = row[r].closed
      /\ SameIdentity(w, row[r])
  <2> HIDE DEF o
  <2>1. o.status \in Status /\ o.terminal \in BOOLEAN BY <1>2
  <2>2. QED BY <2>1, <1>3, ObserveRow, SMT
<1> HIDE DEF o, w
<1> QED BY <1>2, <1>4 DEF w

-----------------------------------------------------------------------------
(* Types.                                                                  *)

PCs == MonitorPCs \cup StopperPCs
\* A stop, from its request to its return.
Busy == Stopping \cup {"queued", "adrift", "close"}
KnownIds == {r \in Rs : row[r].known}

\* Which task works on what.
TasksInv ==
  /\ \A r \in Rs : task[r].on = r /\ task[r].pc \in MonitorPCs
  /\ \A s \in Stoppers : /\ task[s].pc \in StopperPCs
                         /\ task[s].pc \in Busy => task[s].on \in Rs
                         /\ task[s].pc \in Stopping => row[task[s].on].known
  /\ task["runner"].pc = "waiting" => reg = NoRegistration

\* Nothing is recorded, or done, of a resource that is not registered.
KnownInv ==
  /\ IsFiniteSet(KnownIds)
  /\ reg # NoRegistration => reg.on \in Rs /\ reg.old \in Rs /\ row[reg.on].known
  /\ Unanswered => action.on \in Rs
  /\ \A r \in Rs : ~row[r].known => ~row[r].terminal /\ task[r].pc = "none"
  /\ \A r \in Rs : row[r].known => row[r].life \in Lifecycles[r]

TypeInv == TypeOK /\ TasksInv /\ KnownInv

LEMMA Names ==
  /\ "loop" \in Stoppers /\ "runner" \in Stoppers /\ "loop" \notin Rs /\ "runner" \notin Rs
  /\ Rs \subseteq Tasks /\ Stoppers \subseteq Tasks /\ Rs \cap Stoppers = {}
  /\ None \notin Rs /\ None \notin Stoppers
  BY NamesDiffer DEF Stoppers, Tasks

LEMMA InspectionPCs ==
  /\ Inspections \subseteq PCs /\ Stopping \subseteq StopperPCs
  /\ MonitorPCs \subseteq PCs /\ StopperPCs \subseteq PCs /\ Busy \subseteq StopperPCs
  BY DEF Inspections, PCs, Stopping, MonitorPCs, StopperPCs, Busy

LEMMA IdleTask ==
  ASSUME NEW pc \in PCs, NEW on \in Rs \cup {None}
  PROVE  Idle(pc, on) \in Task /\ Idle(pc, on).pc = pc /\ Idle(pc, on).on = on
         /\ Idle(pc, on).confirmed = FALSE
  BY DEF Idle, Task, PCs, Status, Ended

LEMMA GotoTask ==
  ASSUME task \in [Tasks -> Task], NEW t \in Tasks, NEW pc \in PCs
  PROVE  /\ Goto(t, pc) \in [Tasks -> Task]
         /\ Goto(t, pc)[t].pc = pc
         /\ Goto(t, pc)[t].on = task[t].on
         /\ Goto(t, pc)[t].confirmed = task[t].confirmed
         /\ \A u \in Tasks \ {t} : Goto(t, pc)[u] = task[u]
  BY DEF Goto, Task, PCs

LEMMA RestartedTask ==
  ASSUME NEW tasks \in [Tasks -> Task], NEW r \in Rs, tasks[r].on = r
  PROVE  /\ Restarted(tasks, r) \in [Tasks -> Task]
         /\ Restarted(tasks, r)[r].on = r
         /\ tasks[r].pc \in {"none", "done"} => Restarted(tasks, r)[r].pc = "start"
         /\ tasks[r].pc \notin {"none", "done"} => Restarted(tasks, r) = tasks
         /\ \A u \in Tasks \ {r} : Restarted(tasks, r)[u] = tasks[u]
<1>1. "start" \in PCs /\ r \in Rs \cup {None} /\ r \in Tasks
  BY DEF PCs, MonitorPCs, Tasks
<1>2. Idle("start", r) \in Task /\ Idle("start", r).pc = "start" /\ Idle("start", r).on = r
  BY <1>1, IdleTask
<1> QED BY <1>1, <1>2 DEF Restarted

LEMMA PrunedTask ==
  ASSUME task \in [Tasks -> Task], NEW r \in Rs
  PROVE  /\ Pruned(r) \in [Tasks -> Task]
         /\ \A t \in Rs : Pruned(r)[t] = task[t]
         /\ \A s \in Stoppers :
              /\ Pruned(r)[s].on = task[s].on /\ Pruned(r)[s].confirmed = task[s].confirmed
              /\ Pruned(r)[s].own = task[s].own /\ Pruned(r)[s].ok = task[s].ok
              /\ IF task[s].on = r /\ task[s].pc = "queued" THEN Pruned(r)[s].pc = "adrift"
                 ELSE Pruned(r)[s].pc = task[s].pc
  BY Names DEF Pruned, Task, StopperPCs

LEMMA ReleaseTypes ==
  ASSUME NEW S, NEW lock \in [Rs -> S], None \in S, NEW r \in Rs, NEW t
  PROVE  /\ Release(lock, r, t) \in [Rs -> S]
         /\ \A q \in Rs \ {r} : Release(lock, r, t)[q] = lock[q]
         /\ Release(lock, r, t)[r] = IF lock[r] = t THEN None ELSE lock[r]
  BY DEF Release

LEMMA ReleaseBothTypes ==
  ASSUME TypeOK, NEW r \in Rs, NEW t, ReleaseBoth(r, t)
  PROVE  /\ inspecting' \in [Rs -> Tasks \cup {None}]
         /\ sample' \in [Rs -> Jobs] /\ finalizing' \in [Rs -> Tasks \cup {None}]
  BY ReleaseTypes DEF ReleaseBoth, TypeOK, Jobs

LEMMA EndInspectionTypes ==
  ASSUME TypeOK, NEW t \in Tasks, task[t].on \in Rs, EndInspection(t)
  PROVE  /\ inspecting' \in [Rs -> Tasks \cup {None}] /\ sample' \in [Rs -> Jobs]
  BY ReleaseTypes DEF EndInspection, TypeOK, Jobs

LEMMA PruneTypes ==
  ASSUME TypeOK, NEW r \in Rs, Prune(r)
  PROVE  /\ stopLock' \in [Rs -> Stoppers \cup {None}] /\ marked' \in [Rs -> BOOLEAN]
         /\ astray' \subseteq Rs
  BY DEF Prune, TypeOK

\* Rows that keep their identity keep what KnownInv says of them.
LEMMA KnownIdsKept ==
  ASSUME \A r \in Rs : SameIdentity(row'[r], row[r])
  PROVE  KnownIds' = KnownIds
  BY DEF KnownIds, SameIdentity

LEMMA FaultTypes ==
  ASSUME TypeInv, Fault
  PROVE  faults' \in 0 .. MaxEvents
<1>1. Cardinality(KnownIds) \in Nat BY FS_CardinalityType DEF TypeInv, KnownInv
<1>2. faults \in Nat /\ MaxEvents \in Nat /\ faults + Cardinality(KnownIds) < MaxEvents
  BY BoundsAreNatural DEF Fault, Eventful, TypeInv, TypeOK, KnownIds
<1>3. faults' = faults + 1 BY DEF Fault
<1> QED BY <1>1, <1>2, <1>3

LEMMA KnownStep ==
  ASSUME TypeInv, \A r \in Rs : SameIdentity(row'[r], row[r]),
         reg' \in {reg, NoRegistration},
         Unanswered' => action'.on \in Rs,
         \A r \in Rs : ~row[r].known => ~row'[r].terminal /\ task'[r].pc = "none"
  PROVE  KnownInv'
<1>1. KnownIds' = KnownIds BY KnownIdsKept
<1>2. \A r \in Rs : row'[r].known = row[r].known /\ row'[r].life = row[r].life
  BY DEF SameIdentity
<1>3. reg' # NoRegistration => reg' = reg OBVIOUS
<1> QED BY <1>1, <1>2, <1>3 DEF TypeInv, KnownInv

LEMMA UnchangedRows ==
  ASSUME UNCHANGED row PROVE \A r \in Rs : SameIdentity(row'[r], row[r])
  BY DEF SameIdentity

LEMMA InitTypes == Init => TypeInv
<1> SUFFICES ASSUME Init PROVE TypeInv OBVIOUS
<1>1. task \in [Tasks -> Task]
  <2>1. \A r \in Rs : "none" \in PCs /\ r \in Rs \cup {None} BY DEF PCs, MonitorPCs
  <2>2. "idle" \in PCs /\ None \in Rs \cup {None} BY DEF PCs, StopperPCs
  <2> QED BY <2>1, <2>2, IdleTask, Names DEF Init, Tasks
<1>2. row \in [Rs -> Row]
  BY DEF Init, Row, Status, Disposition
<1>3. TypeOK
  <2>1. NoAction \in Actions BY DEF NoAction, Actions
  <2>2. MaxEvents \in Nat BY BoundsAreNatural
  <2>3. /\ job \in [Rs -> Jobs] /\ sample \in [Rs -> Jobs]
        /\ inspecting \in [Rs -> Tasks \cup {None}]
        /\ finalizing \in [Rs -> Tasks \cup {None}]
        /\ stopLock \in [Rs -> Stoppers \cup {None}] /\ marked \in [Rs -> BOOLEAN]
    BY DEF Init, Jobs
  <2>4. /\ closers \subseteq Rs /\ action \in Actions /\ cancelling \in BOOLEAN
        /\ faults \in 0 .. MaxEvents /\ astray \subseteq Rs /\ orphans \subseteq Rs
    <3>1. /\ closers = {} /\ action = NoAction /\ cancelling = FALSE /\ faults = 0
          /\ astray = {} /\ orphans = {}
      BY DEF Init
    <3>2. faults \in 0 .. MaxEvents BY <2>2, <3>1
    <3>3. cancelling \in BOOLEAN BY <3>1
    <3>4. closers \subseteq Rs /\ action \in Actions /\ astray \subseteq Rs /\ orphans \subseteq Rs
      BY <2>1, <3>1
    <3> QED BY <3>2, <3>3, <3>4
  <2>5. reg \in [on: Rs \cup {None}, old: Rs \cup {None}] BY DEF Init, NoRegistration
  <2> QED BY <1>1, <1>2, <2>3, <2>4, <2>5 DEF TypeOK
<1>4. \A r \in Rs : task[r] = Idle("none", r)
  BY Names DEF Init
<1>5. \A s \in Stoppers : task[s] = Idle("idle", None)
  <2>1. task = [t \in Tasks |-> IF t \in Rs THEN Idle("none", t) ELSE Idle("idle", None)]
    BY DEF Init
  <2>2. \A s \in Stoppers : s \in Tasks /\ s \notin Rs BY Names
  <2> QED BY <2>1, <2>2, Zenon
<1>6. TasksInv
  <2>1. \A r \in Rs : task[r].on = r /\ task[r].pc \in MonitorPCs
    <3> SUFFICES ASSUME NEW r \in Rs PROVE task[r].on = r /\ task[r].pc \in MonitorPCs
      OBVIOUS
    <3>1. task[r] = Idle("none", r) BY <1>4
    <3> QED BY <3>1 DEF Idle, MonitorPCs
  <2>2. \A s \in Stoppers : task[s].pc = "idle" BY <1>5 DEF Idle
  <2> QED BY <2>1, <2>2, Names DEF TasksInv, StopperPCs, Busy, Stopping
<1>7. KnownInv
  <2>1. \A r \in Rs : ~row[r].known /\ ~row[r].terminal
    <3>1. row = [r \in Rs |->
              [known |-> FALSE, status |-> "running", terminal |-> FALSE,
               disp |-> "active", closed |-> FALSE,
               life |-> [monitor |-> FALSE, blocking |-> FALSE], fresh |-> FALSE]]
      BY DEF Init
    <3>2. QED BY <3>1, Zenon
  <2>2. KnownIds = {} BY <2>1 DEF KnownIds
  <2>3. action.status = "none" /\ reg = NoRegistration BY DEF Init, NoAction
  <2>4. \A r \in Rs : task[r].pc = "none"
    <3> SUFFICES ASSUME NEW r \in Rs PROVE task[r].pc = "none" OBVIOUS
    <3>1. task[r] = Idle("none", r) BY <1>4
    <3> QED BY <3>1 DEF Idle
  <2> QED BY <2>1, <2>2, <2>3, <2>4, FS_EmptySet DEF KnownInv, Unanswered
<1> QED BY <1>3, <1>6, <1>7 DEF TypeInv

LEMMA JobEndsTypes ==
  ASSUME TypeInv, NEW r \in Rs, JobEnds(r)
  PROVE  TypeInv'
<1>1. TypeOK'
  BY DEF JobEnds, TypeInv, TypeOK, locks, stops, control, Jobs
<1>2. TasksInv' BY DEF JobEnds, TypeInv, TasksInv
<1>3. KnownInv'
  BY KnownStep, UnchangedRows DEF JobEnds, TypeInv, KnownInv, control, Unanswered
<1> QED BY <1>1, <1>2, <1>3 DEF TypeInv

LEMMA AdapterClosesTypes ==
  ASSUME TypeInv, NEW r \in Rs, AdapterCloses(r)
  PROVE  TypeInv'
<1>0. TypeOK /\ task \in [Tasks -> Task] BY DEF TypeInv, TypeOK
<1>1. task' = Pruned(r) /\ Prune(r) /\ UNCHANGED <<row, reg, control>> BY DEF AdapterCloses
<1>2. TypeOK'
  <2>1. task' \in [Tasks -> Task] BY <1>0, <1>1, PrunedTask
  <2> QED BY <1>0, <1>1, <2>1, PruneTypes DEF AdapterCloses, TypeOK, locks, control
<1>3. TasksInv'
  BY <1>0, <1>1, PrunedTask, Names DEF TypeInv, TasksInv, Busy, Stopping, StopperPCs
<1>4. KnownInv'
  <2>1. \A q \in Rs : task'[q] = task[q] BY <1>0, <1>1, PrunedTask
  <2> QED BY <1>1, <2>1, KnownStep, UnchangedRows DEF TypeInv, KnownInv, control, Unanswered
<1> QED BY <1>2, <1>3, <1>4 DEF TypeInv

LEMMA ReconcileTypes ==
  ASSUME TypeInv, NEW r \in Rs, Reconcile(r)
  PROVE  TypeInv'
<1>0. TypeOK /\ TasksInv /\ KnownInv /\ row \in [Rs -> Row] BY DEF TypeInv, TypeOK
<1>1. PICK life \in Lifecycles[r] : row' = [row EXCEPT ![r].life = life, ![r].fresh = FALSE]
  BY DEF Reconcile
<1>2. row[r].known BY DEF Reconcile, ActiveRow
<1>3. life \in [monitor: BOOLEAN, blocking: BOOLEAN]
  BY LifecyclesAreValid
<1>4. row' \in [Rs -> Row] BY <1>0, <1>1, <1>3 DEF Row
<1>5. UNCHANGED <<task, reg, action>> BY DEF Reconcile, control
<1>6. \A q \in Rs : /\ row'[q].known = row[q].known /\ row'[q].terminal = row[q].terminal
                    /\ q # r => row'[q] = row[q]
                    /\ q = r => row'[q].life = life
  BY <1>0, <1>1 DEF Row
<1>7. TypeOK'
  BY <1>0, <1>4 DEF Reconcile, TypeOK, locks, stops, control
<1>8. TasksInv' BY <1>0, <1>5, <1>6, Names DEF TasksInv, Busy
<1>9. KnownInv'
  <2>1. KnownIds' = KnownIds BY <1>6 DEF KnownIds
  <2> QED BY <1>0, <1>5, <1>6, <2>1 DEF KnownInv, Unanswered
<1> QED BY <1>7, <1>8, <1>9 DEF TypeInv

LEMMA RowReplaced ==
  ASSUME TypeInv, NEW r \in Rs, row[r].known, NEW w \in Row, SameIdentity(w, row[r]),
         row' = [row EXCEPT ![r] = w]
  PROVE  /\ row' \in [Rs -> Row] /\ row'[r] = w
         /\ \A q \in Rs \ {r} : row'[q] = row[q]
         /\ \A q \in Rs : SameIdentity(row'[q], row[q])
         /\ \A q \in Rs : row'[q].known = row[q].known
         /\ \A q \in Rs : ~row[q].known => ~row'[q].terminal
<1>1. row \in [Rs -> Row] /\ KnownInv BY DEF TypeInv, TypeOK
<1>2. row' \in [Rs -> Row] /\ row'[r] = w /\ \A q \in Rs \ {r} : row'[q] = row[q]
  BY <1>1
<1>3. \A q \in Rs : SameIdentity(row'[q], row[q]) BY <1>2 DEF SameIdentity
<1> QED BY <1>1, <1>2, <1>3 DEF SameIdentity, KnownInv

\* A step that moves one task, within its program, and leaves what it works on.
LEMMA TaskMoved ==
  ASSUME TypeInv, NEW t \in Tasks, task' \in [Tasks -> Task],
         task'[t].on = task[t].on,
         t \in Rs => task[t].pc # "none" /\ task'[t].pc \in MonitorPCs,
         t \in Stoppers => /\ task[t].pc \in Busy \/ task'[t].pc \notin Busy
                           /\ task[t].pc \in Stopping \/ task'[t].pc \notin Stopping
                           /\ task'[t].pc \in StopperPCs \ {"waiting"},
         \A u \in Tasks \ {t} : task'[u] = task[u],
         \A r \in Rs : row'[r].known = row[r].known,
         reg' = reg
  PROVE  /\ TasksInv'
         /\ \A r \in Rs : ~row[r].known => task'[r].pc = "none"
<1>1. TasksInv /\ KnownInv BY DEF TypeInv
<1>2. TasksInv'
  BY <1>1, Names, InspectionPCs DEF TasksInv, Busy, Stopping
<1>3. \A r \in Rs : ~row[r].known => task'[r].pc = "none"
  BY <1>1, Names DEF KnownInv
<1> QED BY <1>2, <1>3

\* A monitor that does anything works on a registered resource.
LEMMA AtWork ==
  ASSUME TypeInv, NEW t \in Tasks, task[t].pc \in Inspections \cup {"finalize"}
  PROVE  task[t].on \in Rs /\ row[task[t].on].known
<1>1. TasksInv /\ KnownInv BY DEF TypeInv
<1>2. CASE t \in Rs
  BY <1>1, <1>2, Names DEF TasksInv, KnownInv, Inspections
<1>3. CASE t \in Stoppers
  BY <1>1, <1>3 DEF TasksInv, Inspections, Busy, Stopping, StopperPCs
<1> QED BY <1>2, <1>3 DEF Tasks

LEMMA MonitorEndsTypes ==
  ASSUME TypeInv, NEW r \in Rs, row[r].known, task[r].pc # "none", NEW w, MonitorEnds(r, w)
  PROVE  /\ task' \in [Tasks -> Task] /\ closers' \subseteq Rs
         /\ task'[r].on = task[r].on /\ task'[r].pc \in {"none", "done"}
         /\ \A u \in Tasks \ {r} : task'[u] = task[u]
<1>1. task \in [Tasks -> Task] /\ closers \subseteq Rs BY DEF TypeInv, TypeOK
<1>2. PICK pc \in {"none", "done"} : task' = Goto(r, pc) BY DEF MonitorEnds
<1>3. pc \in PCs BY <1>2 DEF PCs, MonitorPCs
<1>4. task' \in [Tasks -> Task] /\ task'[r].on = task[r].on /\ task'[r].pc = pc
      /\ \A u \in Tasks \ {r} : task'[u] = task[u]
  BY <1>1, <1>2, <1>3, GotoTask, Names
<1> QED BY <1>1, <1>4 DEF MonitorEnds

LEMMA MonitorWakesTypes ==
  ASSUME TypeInv, NEW r \in Rs, MonitorWakes(r)
  PROVE  TypeInv'
<1>0. TypeOK /\ TasksInv /\ KnownInv /\ task \in [Tasks -> Task] BY DEF TypeInv, TypeOK
<1>1. task[r].pc \in {"start", "sleep"} /\ UNCHANGED <<row, reg, action>>
  BY DEF MonitorWakes, control
<1>2. row[r].known BY <1>0, <1>1 DEF KnownInv
<1>3. /\ task' \in [Tasks -> Task] /\ closers' \subseteq Rs
      /\ task'[r].on = task[r].on /\ task'[r].pc \in {"none", "done", "finalize", "poll"}
      /\ \A u \in Tasks \ {r} : task'[u] = task[u]
  <2>1. CASE task' = Goto(r, "finalize") /\ UNCHANGED closers
    BY <1>0, <2>1, GotoTask, Names DEF PCs, MonitorPCs, TypeOK
  <2>2. CASE task' = Goto(r, "poll") /\ UNCHANGED closers
    BY <1>0, <2>2, GotoTask, Names DEF PCs, MonitorPCs, TypeOK
  <2>3. CASE MonitorEnds(r, row[r])
    BY <1>1, <1>2, <2>3, MonitorEndsTypes
  <2> QED BY <2>1, <2>2, <2>3 DEF MonitorWakes
<1>4. TypeOK' BY <1>0, <1>3 DEF MonitorWakes, TypeOK, locks, control
<1>5. TasksInv' /\ \A q \in Rs : ~row[q].known => task'[q].pc = "none"
  BY <1>1, <1>3, TaskMoved, Names DEF MonitorPCs
<1>6. KnownInv' BY <1>0, <1>1, <1>5, KnownStep, UnchangedRows DEF KnownInv, Unanswered
<1> QED BY <1>4, <1>5, <1>6 DEF TypeInv

LEMMA BeginInspectionTypes ==
  ASSUME TypeInv, NEW t \in Tasks, BeginInspection(t)
  PROVE  TypeInv'
<1>1. task[t].on \in Rs BY AtWork DEF BeginInspection
<1>2. TypeOK'
  BY <1>1 DEF TypeInv, TypeOK, BeginInspection, stops, control
<1>3. UNCHANGED <<row, task, reg, action>> BY DEF BeginInspection, control
<1>4. TasksInv' BY <1>3 DEF TypeInv, TasksInv
<1>5. KnownInv' BY <1>3, KnownStep, UnchangedRows DEF TypeInv, KnownInv, Unanswered
<1> QED BY <1>2, <1>4, <1>5 DEF TypeInv

LEMMA StopDispositionType == ASSUME NEW r PROVE StopDisposition(r) \in Disposition
  BY DEF StopDisposition, Disposition

LEMMA PollTypes ==
  ASSUME TypeInv, NEW r \in Rs, task[r].pc = "poll", NEW w \in Row, SameIdentity(w, row[r]),
         row' = [row EXCEPT ![r] = w], NEW errs \in Nat, NEW pc \in {"finalize", "sleep"},
         task' = [task EXCEPT ![r].errs = errs, ![r].pc = pc],
         EndInspection(r), faults' \in 0 .. MaxEvents,
         UNCHANGED <<job, finalizing, stops, reg, control>>
  PROVE  TypeInv'
<1>0. TypeOK /\ TasksInv /\ KnownInv /\ task \in [Tasks -> Task] BY DEF TypeInv, TypeOK
<1>1. row[r].known /\ task[r].on = r BY <1>0 DEF KnownInv, TasksInv
<1>2. r \in Tasks BY Names
<1>3. /\ task' \in [Tasks -> Task] /\ task'[r].on = task[r].on /\ task'[r].pc = pc
      /\ \A u \in Tasks \ {r} : task'[u] = task[u]
  BY <1>0, <1>2 DEF Task, MonitorPCs
<1>4. /\ row' \in [Rs -> Row] /\ \A q \in Rs : SameIdentity(row'[q], row[q])
      /\ \A q \in Rs : row'[q].known = row[q].known
      /\ \A q \in Rs : ~row[q].known => ~row'[q].terminal
  BY <1>1, RowReplaced
<1>5. TypeOK'
  BY <1>0, <1>1, <1>2, <1>3, <1>4, EndInspectionTypes DEF TypeOK, stops, control
<1>6. TasksInv' /\ \A q \in Rs : ~row[q].known => task'[q].pc = "none"
  BY <1>0, <1>2, <1>3, <1>4, TaskMoved, Names DEF MonitorPCs
<1>7. KnownInv' BY <1>0, <1>4, <1>6, KnownStep DEF KnownInv, control, Unanswered
<1> QED BY <1>5, <1>6, <1>7 DEF TypeInv

LEMMA PollEndsTypes ==
  ASSUME TypeInv, NEW r \in Rs, PollEnds(r)
  PROVE  TypeInv'
<1> DEFINE w == Inspected(r, StopDisposition(r), FALSE)
           pc == IF w.terminal THEN "finalize" ELSE "sleep"
<1>1. row[r] \in Row /\ sample[r] \in Jobs BY DEF TypeInv, TypeOK
<1>2. w \in Row /\ SameIdentity(w, row[r]) BY <1>1, StopDispositionType, InspectedRow
<1>3. faults' \in 0 .. MaxEvents BY DEF PollEnds, TypeInv, TypeOK
<1>4. /\ task[r].pc = "poll" /\ row' = [row EXCEPT ![r] = w] /\ EndInspection(r)
      /\ task' = [task EXCEPT ![r].errs = 0, ![r].pc = pc]
      /\ UNCHANGED <<job, finalizing, stops, reg, control>>
  BY DEF PollEnds, Holds
<1>5. 0 \in Nat /\ pc \in {"finalize", "sleep"} OBVIOUS
<1> HIDE DEF w, pc
<1> QED BY <1>2, <1>3, <1>4, <1>5, PollTypes

\* What a failed poll writes.
Noted(r) == IF row[r].status = "stopping" THEN row[r] ELSE SetStatus(row[r], "monitor_error")
GivenUp(r) == [Observe(Noted(r), "failed", TRUE, "active") EXCEPT !.closed = TRUE]

LEMMA NotedRow ==
  ASSUME NEW r \in Rs, row[r] \in Row
  PROVE  /\ Noted(r) \in Row /\ SameIdentity(Noted(r), row[r])
         /\ Noted(r).terminal = row[r].terminal /\ Noted(r).closed = row[r].closed
         /\ Noted(r).disp = row[r].disp
         /\ Noted(r).status = "stopping" <=> row[r].status = "stopping"
         /\ Noted(r).status # "stopping" => Noted(r).status = "monitor_error"
  BY SetStatusRow DEF Noted, Status, SameIdentity

LEMMA GivenUpRow ==
  ASSUME NEW r \in Rs, row[r] \in Row
  PROVE  /\ GivenUp(r) \in Row /\ SameIdentity(GivenUp(r), row[r])
         /\ GivenUp(r).terminal /\ GivenUp(r).closed
         /\ GivenUp(r).status = "failed" /\ GivenUp(r).disp = "active"
<1>1. Noted(r) \in Row /\ SameIdentity(Noted(r), row[r]) BY NotedRow
<1>2. "failed" \in Status /\ "active" \in Disposition BY DEF Status, Ended, Disposition
<1>3. \A terminal, closed \in BOOLEAN :
        LET o == Observe(Noted(r), "failed", terminal, "active")
            w == [o EXCEPT !.closed = closed]
        IN terminal /\ closed => /\ w \in Row /\ SameIdentity(w, row[r])
                                 /\ w.terminal /\ w.closed
                                 /\ w.status = "failed" /\ w.disp = "active"
  <2> TAKE terminal, closed \in BOOLEAN
  <2> DEFINE o == Observe(Noted(r), "failed", terminal, "active")
             w == [o EXCEPT !.closed = closed]
  <2>1. /\ o \in Row /\ o.status = "failed" /\ o.terminal = terminal
        /\ terminal => o.disp = "active"
        /\ SameIdentity(o, Noted(r))
    BY <1>1, <1>2, ObserveRow
  <2> HIDE DEF o
  <2>2. /\ w \in Row /\ w.status = o.status /\ w.terminal = o.terminal
        /\ w.closed = closed /\ w.disp = o.disp /\ SameIdentity(w, o)
    BY <2>1, ClosedRow
  <2> HIDE DEF w
  <2> QED BY <1>1, <2>1, <2>2 DEF SameIdentity, o, w
<1> QED BY <1>3, Zenon DEF GivenUp

\* A failed poll, taken apart: whether it gives up, and the row it leaves.
LEMMA PollFailsParts ==
  ASSUME TypeInv, NEW r \in Rs, PollFails(r)
  PROVE  \E errs \in Nat, gives \in BOOLEAN, w \in {Noted(r), GivenUp(r)} :
           /\ task[r].pc = "poll" /\ inspecting[r] = r /\ row' = [row EXCEPT ![r] = w]
           /\ gives => row[r].status # "stopping"
           /\ w = GivenUp(r) => (gives /\ Allowed(r, GivenUp(r))) \/ GivenUp(r) = Noted(r)
           /\ gives => w = GivenUp(r) \/ ~Allowed(r, GivenUp(r))
           /\ task' = [task EXCEPT ![r].errs = errs,
                                   ![r].pc = IF gives THEN "finalize" ELSE "sleep"]
           /\ EndInspection(r) /\ faults' \in 0 .. MaxEvents
           /\ UNCHANGED <<job, finalizing, stops, reg, control>>
<1> DEFINE errs == task[r].errs + 1
           gives == row[r].life.blocking /\ errs >= ErrorLimit /\ Noted(r).status # "stopping"
           w == IF gives /\ Allowed(r, GivenUp(r)) THEN GivenUp(r) ELSE Noted(r)
           e == IF errs > ErrorLimit THEN ErrorLimit ELSE errs
<1>1. task[r].errs \in Nat /\ task[r].on = r /\ row[r] \in Row
  BY Names DEF TypeInv, TypeOK, TasksInv, Task
<1>2. e \in Nat BY <1>1, BoundsAreNatural
<1>3. faults' \in 0 .. MaxEvents
  BY FaultTypes DEF PollFails, InspectionFails, TypeInv, TypeOK
<1>4. /\ Holds(r, "poll") /\ row' = [row EXCEPT ![r] = w]
      /\ task' = [task EXCEPT ![r].errs = e, ![r].pc = IF gives THEN "finalize" ELSE "sleep"]
      /\ EndInspection(r) /\ UNCHANGED <<job, finalizing, stops, reg, control>>
  BY DEF PollFails, Noted, GivenUp
<1>5. gives => row[r].status # "stopping" BY <1>1, NotedRow
<1>6. /\ gives \in BOOLEAN /\ w \in {Noted(r), GivenUp(r)}
      /\ w = GivenUp(r) => (gives /\ Allowed(r, GivenUp(r))) \/ GivenUp(r) = Noted(r)
      /\ gives => w = GivenUp(r) \/ ~Allowed(r, GivenUp(r))
  OBVIOUS
<1> HIDE DEF errs, gives, w, e
<1> QED BY <1>1, <1>2, <1>3, <1>4, <1>5, <1>6 DEF Holds

-----------------------------------------------------------------------------
(* Types: the end of a stop, and finalization.                             *)

LEMMA StopEndsTypes ==
  ASSUME TypeInv, NEW s \in Stoppers, task[s].pc \in Stopping,
         NEW w \in Row, SameIdentity(w, row[task[s].on]), NEW ok \in BOOLEAN,
         StopEnds(s, w, ok), reg' = reg
  PROVE  /\ row' \in [Rs -> Row] /\ row'[task[s].on] = w
         /\ \A q \in Rs \ {task[s].on} : row'[q] = row[q]
         /\ \A q \in Rs : SameIdentity(row'[q], row[q])
         /\ \A q \in Rs : ~row[q].known => ~row'[q].terminal /\ task'[q].pc = "none"
         /\ task' \in [Tasks -> Task] /\ TasksInv'
         /\ task'[s].pc = "close" /\ task'[s].on = task[s].on
         /\ task'[s].confirmed = task[s].confirmed /\ task'[s].ok = ok
         /\ \A u \in Tasks \ {s} : task'[u] = task[u]
         /\ stopLock' \in [Rs -> Stoppers \cup {None}] /\ marked' \in [Rs -> BOOLEAN]
         /\ UNCHANGED <<closers, astray>>
         /\ \A q \in Rs : stopLock'[q] = IF q = task[s].on /\ stopLock[q] = s THEN None
                                         ELSE stopLock[q]
<1> DEFINE r == task[s].on
<1>0. TypeOK /\ TasksInv /\ KnownInv /\ task \in [Tasks -> Task] BY DEF TypeInv, TypeOK
<1>1. s \in Tasks /\ s \notin Rs /\ r \in Rs /\ row[r].known
  BY <1>0, Names DEF TasksInv, Busy
<1>2. /\ row' = [row EXCEPT ![r] = w] /\ stopLock' = Release(stopLock, r, s)
      /\ marked' = [marked EXCEPT ![r] = FALSE] /\ UNCHANGED <<closers, astray>>
  BY DEF StopEnds
<1>3. PICK prune \in BOOLEAN :
        task' = [task EXCEPT ![s].pc = "close", ![s].ok = ok, ![s].prune = prune]
  <2> DEFINE p == /\ w.closed \/ w.disp # "active"
                  /\ stopLock[r] \in {None, s} /\ ~Live(r)
  <2>1. p \in BOOLEAN OBVIOUS
  <2>2. task' = [task EXCEPT ![s].pc = "close", ![s].ok = ok, ![s].prune = p]
    BY DEF StopEnds
  <2> HIDE DEF p
  <2> QED BY <2>1, <2>2
<1>4. /\ task' \in [Tasks -> Task] /\ task'[s].pc = "close" /\ task'[s].on = r
      /\ task'[s].confirmed = task[s].confirmed /\ task'[s].ok = ok
      /\ \A u \in Tasks \ {s} : task'[u] = task[u]
  <2> DEFINE x == [task[s] EXCEPT !.pc = "close", !.ok = ok, !.prune = prune]
  <2>1. task' = [task EXCEPT ![s] = x] BY <1>0, <1>1, <1>3
  <2>2. task[s] \in Task BY <1>0, <1>1
  <2>3. "close" \in MonitorPCs \cup StopperPCs BY DEF StopperPCs
  <2>4. x \in Task BY <2>2, <2>3 DEF Task
  <2>5. x.pc = "close" /\ x.on = r /\ x.confirmed = task[s].confirmed /\ x.ok = ok
    BY <2>2 DEF Task
  <2> HIDE DEF x
  <2> QED BY <1>0, <1>1, <2>1, <2>4, <2>5
<1>5. /\ row' \in [Rs -> Row] /\ row'[r] = w /\ \A q \in Rs \ {r} : row'[q] = row[q]
      /\ \A q \in Rs : SameIdentity(row'[q], row[q]) /\ row'[q].known = row[q].known
      /\ \A q \in Rs : ~row[q].known => ~row'[q].terminal
  BY <1>1, <1>2, RowReplaced
<1>6. /\ stopLock' \in [Rs -> Stoppers \cup {None}] /\ marked' \in [Rs -> BOOLEAN]
      /\ \A q \in Rs : stopLock'[q] = IF q = r /\ stopLock[q] = s THEN None ELSE stopLock[q]
  BY <1>0, <1>1, <1>2 DEF Release, TypeOK
<1>7. TasksInv' /\ \A q \in Rs : ~row[q].known => task'[q].pc = "none"
  BY <1>0, <1>1, <1>4, <1>5, TaskMoved DEF Busy, Stopping, StopperPCs
<1> QED BY <1>2, <1>4, <1>5, <1>6, <1>7

\* A stop ends with a row that names the same resource.
LEMMA StopEndsStep ==
  ASSUME TypeInv, NEW s \in Stoppers, task[s].pc \in Stopping,
         NEW w \in Row, SameIdentity(w, row[task[s].on]), NEW ok \in BOOLEAN,
         StopEnds(s, w, ok), reg' = reg, job' = job, orphans' = orphans,
         inspecting' \in [Rs -> Tasks \cup {None}], sample' \in [Rs -> Jobs],
         finalizing' \in [Rs -> Tasks \cup {None}],
         action' = action, cancelling' = cancelling, faults' \in 0 .. MaxEvents
  PROVE  TypeInv'
<1>0. TypeOK /\ KnownInv BY DEF TypeInv
<1>1. TypeOK' BY <1>0, StopEndsTypes DEF TypeOK
<1>2. TasksInv' BY StopEndsTypes
<1>3. KnownInv' BY <1>0, StopEndsTypes, KnownStep DEF KnownInv, Unanswered
<1> QED BY <1>1, <1>2, <1>3 DEF TypeInv

LEMMA AfterFinalizeTypes ==
  ASSUME TypeInv, NEW t \in Tasks, task[t].pc \in {"finalize", "last"},
         NEW w \in Row, SameIdentity(w, row[task[t].on]), AfterFinalize(t, w),
         reg' = reg, job' = job, orphans' = orphans,
         inspecting' \in [Rs -> Tasks \cup {None}], sample' \in [Rs -> Jobs],
         finalizing' \in [Rs -> Tasks \cup {None}],
         action' = action, cancelling' = cancelling, faults' \in 0 .. MaxEvents
  PROVE  TypeInv'
<1> DEFINE r == task[t].on
<1>0. TypeOK /\ TasksInv /\ KnownInv /\ task \in [Tasks -> Task] BY DEF TypeInv, TypeOK
<1>1. r \in Rs /\ row[r].known BY AtWork DEF Inspections
<1>2. CASE t \in Rs
  <2>1. r = t BY <1>0, <1>2 DEF TasksInv
  <2>2. MonitorEnds(t, w) /\ row' = [row EXCEPT ![t] = w] /\ UNCHANGED <<stopLock, marked, astray>>
    BY <1>2 DEF AfterFinalize
  <2>3. /\ task' \in [Tasks -> Task] /\ closers' \subseteq Rs
        /\ task'[t].on = task[t].on /\ task'[t].pc \in {"none", "done"}
        /\ \A u \in Tasks \ {t} : task'[u] = task[u]
    BY <1>1, <1>2, <2>1, <2>2, MonitorEndsTypes
  <2>4. /\ row' \in [Rs -> Row] /\ \A q \in Rs : SameIdentity(row'[q], row[q])
        /\ \A q \in Rs : row'[q].known = row[q].known
        /\ \A q \in Rs : ~row[q].known => ~row'[q].terminal
    BY <1>1, <1>2, <2>1, <2>2, RowReplaced
  <2>5. TypeOK' BY <1>0, <2>2, <2>3, <2>4 DEF TypeOK
  <2>6. TasksInv' /\ \A q \in Rs : ~row[q].known => task'[q].pc = "none"
    BY <1>2, <2>3, <2>4, TaskMoved, Names DEF MonitorPCs
  <2>7. KnownInv' BY <1>0, <2>4, <2>6, KnownStep DEF KnownInv, Unanswered
  <2> QED BY <2>5, <2>6, <2>7 DEF TypeInv
<1>3. CASE t \in Stoppers /\ task[t].confirmed
  <2>1. t \notin Rs BY <1>3, Names
  <2>2. task' = Goto(t, "begin") /\ row' = [row EXCEPT ![r] = w] /\ UNCHANGED stops
    BY <1>3, <2>1 DEF AfterFinalize
  <2>3. /\ task' \in [Tasks -> Task] /\ task'[t].on = task[t].on /\ task'[t].pc = "begin"
        /\ \A u \in Tasks \ {t} : task'[u] = task[u]
    BY <1>0, <2>2, GotoTask DEF PCs, StopperPCs
  <2>4. /\ row' \in [Rs -> Row] /\ \A q \in Rs : SameIdentity(row'[q], row[q])
        /\ \A q \in Rs : row'[q].known = row[q].known
        /\ \A q \in Rs : ~row[q].known => ~row'[q].terminal
    BY <1>1, <2>2, RowReplaced
  <2>5. TypeOK' BY <1>0, <2>2, <2>3, <2>4 DEF TypeOK, stops
  <2>6. TasksInv' /\ \A q \in Rs : ~row[q].known => task'[q].pc = "none"
    BY <2>1, <2>3, <2>4, TaskMoved DEF Busy, Stopping, StopperPCs
  <2>7. KnownInv' BY <1>0, <2>4, <2>6, KnownStep DEF KnownInv, Unanswered
  <2> QED BY <2>5, <2>6, <2>7 DEF TypeInv
<1>4. CASE t \in Stoppers /\ ~task[t].confirmed
  <2>1. t \notin Rs BY <1>4, Names
  <2>2. StopEnds(t, SetDisposition(w, "cancelled"), TRUE) BY <1>4, <2>1 DEF AfterFinalize
  <2>3. "cancelled" \in Disposition /\ TRUE \in BOOLEAN BY DEF Disposition
  <2>4. SetDisposition(w, "cancelled") \in Row /\ SameIdentity(SetDisposition(w, "cancelled"), row[r])
    BY <2>3, SetDispositionRow DEF SameIdentity
  <2>5. task[t].pc \in Stopping BY DEF Stopping
  <2> QED BY <1>4, <2>2, <2>3, <2>4, <2>5, StopEndsStep
<1> QED BY <1>2, <1>3, <1>4 DEF Tasks

LEMMA FinalizeSkipsTypes ==
  ASSUME TypeInv, NEW t \in Tasks, FinalizeSkips(t)
  PROVE  TypeInv'
<1>1. task[t].on \in Rs /\ task[t].pc = "finalize" BY AtWork DEF FinalizeSkips
<1>2. row[task[t].on] \in Row /\ SameIdentity(row[task[t].on], row[task[t].on])
  BY <1>1 DEF TypeInv, TypeOK, SameIdentity
<1> QED BY <1>1, <1>2, AfterFinalizeTypes DEF FinalizeSkips, TypeInv, TypeOK, locks, control

LEMMA FinalizeStartsTypes ==
  ASSUME TypeInv, NEW t \in Tasks, FinalizeStarts(t)
  PROVE  TypeInv'
<1>0. TypeOK /\ TasksInv /\ KnownInv /\ task \in [Tasks -> Task] BY DEF TypeInv, TypeOK
<1>1. task[t].on \in Rs /\ task[t].pc = "finalize" BY AtWork DEF FinalizeStarts
<1>2. /\ finalizing' = [finalizing EXCEPT ![task[t].on] = t] /\ task' = Goto(t, "last")
      /\ UNCHANGED <<row, job, inspecting, sample, stops, reg, control, faults>>
  BY DEF FinalizeStarts
<1>3. /\ task' \in [Tasks -> Task] /\ task'[t].on = task[t].on /\ task'[t].pc = "last"
      /\ \A u \in Tasks \ {t} : task'[u] = task[u]
  BY <1>0, <1>2, GotoTask DEF PCs, MonitorPCs
<1>4. TypeOK' BY <1>0, <1>1, <1>2, <1>3 DEF TypeOK, stops, control
<1>5. TasksInv' /\ \A q \in Rs : ~row[q].known => task'[q].pc = "none"
  BY <1>1, <1>2, <1>3, TaskMoved DEF Busy, Stopping, StopperPCs, MonitorPCs
<1>6. KnownInv' BY <1>0, <1>2, <1>5, KnownStep, UnchangedRows DEF KnownInv, control, Unanswered
<1> QED BY <1>4, <1>5, <1>6 DEF TypeInv

LEMMA FinalizeEndsTypes ==
  ASSUME TypeInv, NEW t \in Tasks, FinalizeEnds(t)
  PROVE  TypeInv'
<1> DEFINE r == task[t].on
           w == Inspected(r, StopDisposition(r), TRUE)
<1>0. TypeOK BY DEF TypeInv
<1>1. task[t].pc = "last" BY DEF FinalizeEnds, Holds
<1>2. r \in Rs BY <1>1, AtWork DEF Inspections
<1>3. row[r] \in Row /\ sample[r] \in Jobs BY <1>0, <1>2 DEF TypeOK
<1>4. w \in Row /\ SameIdentity(w, row[r])
  BY <1>2, <1>3, StopDispositionType, InspectedRow
<1>5. ReleaseBoth(r, t) /\ UNCHANGED <<job, reg, control>> BY DEF FinalizeEnds
<1>6. faults' \in 0 .. MaxEvents
  BY <1>0, FaultTypes DEF FinalizeEnds, InspectionFails, TypeOK
<1> HIDE DEF w
<1>7. /\ [w EXCEPT !.closed = TRUE] \in Row
      /\ SameIdentity([w EXCEPT !.closed = TRUE], row[r])
  BY <1>4 DEF Row, SameIdentity
<1>8. /\ [row[r] EXCEPT !.closed = TRUE] \in Row
      /\ SameIdentity([row[r] EXCEPT !.closed = TRUE], row[r])
  BY <1>3 DEF Row, SameIdentity
<1>9. AfterFinalize(t, [w EXCEPT !.closed = TRUE])
      \/ AfterFinalize(t, [row[r] EXCEPT !.closed = TRUE])
  BY DEF FinalizeEnds, w
<1>10. /\ inspecting' \in [Rs -> Tasks \cup {None}] /\ sample' \in [Rs -> Jobs]
       /\ finalizing' \in [Rs -> Tasks \cup {None}]
  BY <1>0, <1>2, <1>5, ReleaseBothTypes
<1>11. UNCHANGED <<job, reg, action, cancelling, orphans>> BY <1>5 DEF control
<1>12. CASE AfterFinalize(t, [w EXCEPT !.closed = TRUE])
  BY <1>1, <1>6, <1>7, <1>10, <1>11, <1>12, AfterFinalizeTypes
<1>13. CASE AfterFinalize(t, [row[r] EXCEPT !.closed = TRUE])
  BY <1>1, <1>6, <1>8, <1>10, <1>11, <1>13, AfterFinalizeTypes
<1> QED BY <1>9, <1>12, <1>13

-----------------------------------------------------------------------------
(* Types: a stop.                                                          *)

\* The two ways that a stop begins: accepted, or refused.
StopAccepted(s, me) ==
  LET r == me.on IN
  /\ ActiveRow(r) /\ ~row[r].terminal
  /\ row' = [row EXCEPT ![r] = SetStatus(@, "stopping")]
  /\ stopLock' \in {stopLock, [stopLock EXCEPT ![r] = s]}
  /\ me.pc # "adrift" => stopLock' = [stopLock EXCEPT ![r] = s]
  /\ marked' = [marked EXCEPT ![r] = TRUE]
  /\ task'[s].pc \in {"check", "ask"}

StopRefused(s) ==
  UNCHANGED <<row, stopLock, marked>> /\ task'[s].pc \in {"close", "queued"}

LEMMA EnterStopParts ==
  ASSUME TypeInv, NEW s \in Stoppers, NEW me \in Task, me.on \in Rs, EnterStop(s, me)
  PROVE  /\ task' \in [Tasks -> Task] /\ task'[s].on = me.on
         /\ task'[s].confirmed = me.confirmed
         /\ \A u \in Tasks \ {s} : task'[u] = task[u]
         /\ StopAccepted(s, me) \/ StopRefused(s)
<1> DEFINE r == me.on
<1>0. TypeOK /\ task \in [Tasks -> Task] /\ s \in Tasks BY Names DEF TypeInv, TypeOK
<1>1. row[r] \in Row BY <1>0 DEF TypeOK
<1>2. {"check", "ask", "close"} \subseteq MonitorPCs \cup StopperPCs /\ row[r].status \in Status
  BY <1>1 DEF StopperPCs, Stopping, Row
<1>3. CASE Eligible(me)
  <2> DEFINE already == row[r].status = "stopping"
             pc == IF already THEN "check" ELSE "ask"
             x == [me EXCEPT !.pc = pc, !.prev = row[r].status, !.already = already]
  <2>1. /\ task' = [task EXCEPT ![s] = x]
        /\ row' = [row EXCEPT ![r] = SetStatus(@, "stopping")]
        /\ stopLock' = IF me.pc = "adrift" THEN stopLock ELSE [stopLock EXCEPT ![r] = s]
        /\ marked' = [marked EXCEPT ![r] = TRUE]
    BY <1>3 DEF EnterStop
  <2>2. already \in BOOLEAN /\ pc \in {"check", "ask"} OBVIOUS
  <2> HIDE DEF already, pc
  <2>3. x \in Task /\ x.pc = pc /\ x.on = r /\ x.confirmed = me.confirmed
    BY <1>2, <2>2 DEF Task
  <2> HIDE DEF x
  <2>4. /\ task' \in [Tasks -> Task] /\ task'[s] = x /\ \A u \in Tasks \ {s} : task'[u] = task[u]
    BY <1>0, <2>1, <2>3
  <2>5. ActiveRow(r) /\ ~row[r].terminal BY <1>3 DEF Eligible
  <2>6. StopAccepted(s, me) BY <2>1, <2>2, <2>3, <2>4, <2>5 DEF StopAccepted
  <2> QED BY <2>3, <2>4, <2>6
<1>4. CASE ~Eligible(me)
  <2> DEFINE p == Retirable(r, row[r]) /\ ~Live(r)
             x == [me EXCEPT !.pc = "close", !.ok = FALSE, !.prune = p]
  <2>1. task' = [task EXCEPT ![s] = x] /\ UNCHANGED <<row, stopLock, marked>>
    BY <1>4 DEF EnterStop
  <2>2. p \in BOOLEAN OBVIOUS
  <2> HIDE DEF p
  <2>3. x \in Task /\ x.pc = "close" /\ x.on = r /\ x.confirmed = me.confirmed
    BY <1>2, <2>2 DEF Task
  <2> HIDE DEF x
  <2>4. /\ task' \in [Tasks -> Task] /\ task'[s] = x /\ \A u \in Tasks \ {s} : task'[u] = task[u]
    BY <1>0, <2>1, <2>3
  <2>5. StopRefused(s) BY <2>1, <2>3, <2>4 DEF StopRefused
  <2> QED BY <2>3, <2>4, <2>5
<1> QED BY <1>3, <1>4

LEMMA StopResourceParts ==
  ASSUME TypeInv, NEW s \in Stoppers, NEW me \in Task, me.on \in Rs, StopResource(s, me)
  PROVE  /\ task' \in [Tasks -> Task] /\ task'[s].on = me.on
         /\ task'[s].confirmed = me.confirmed
         /\ \A u \in Tasks \ {s} : task'[u] = task[u]
         /\ (stopLock[me.on] = None /\ StopAccepted(s, me)) \/ StopRefused(s)
         /\ UNCHANGED <<closers, astray>>
<1>0. TypeOK /\ task \in [Tasks -> Task] /\ s \in Tasks BY Names DEF TypeInv, TypeOK
<1>1. CASE stopLock[me.on] = None
  <2>1. EnterStop(s, me) /\ UNCHANGED <<closers, astray>> BY <1>1 DEF StopResource
  <2> QED BY <1>1, <2>1, EnterStopParts
<1>2. CASE stopLock[me.on] # None
  <2> DEFINE x == [me EXCEPT !.pc = "queued"]
  <2>1. /\ task' = [task EXCEPT ![s] = x] /\ UNCHANGED <<row, stopLock, marked>>
        /\ UNCHANGED <<closers, astray>>
    BY <1>2 DEF StopResource
  <2>2. x \in Task /\ x.pc = "queued" /\ x.on = me.on /\ x.confirmed = me.confirmed
    BY DEF Task, StopperPCs
  <2> HIDE DEF x
  <2>3. /\ task' \in [Tasks -> Task] /\ task'[s] = x /\ \A u \in Tasks \ {s} : task'[u] = task[u]
    BY <1>0, <2>1, <2>2
  <2> QED BY <2>1, <2>2, <2>3 DEF StopRefused
<1> QED BY <1>1, <1>2

\* What a stop that begins leaves of the types, whichever way it begins.
LEMMA StopBeginsTypes ==
  ASSUME TypeInv, NEW s \in Stoppers, NEW me \in Task, me.on \in Rs,
         task[s].pc # "waiting",
         task' \in [Tasks -> Task], task'[s].on = me.on,
         \A u \in Tasks \ {s} : task'[u] = task[u],
         StopAccepted(s, me) \/ StopRefused(s),
         UNCHANGED <<job, locks, closers, astray, orphans, reg, cancelling, faults>>,
         action' \in Actions, action'.on = action.on,
         Unanswered' => Unanswered
  PROVE  TypeInv'
<1> DEFINE r == me.on
<1>0. TypeOK /\ TasksInv /\ KnownInv BY DEF TypeInv
<1>1. row[r] \in Row /\ s \in Tasks /\ s \notin Rs BY <1>0, Names DEF TypeOK
<1>2. /\ row' \in [Rs -> Row] /\ \A q \in Rs : SameIdentity(row'[q], row[q])
      /\ \A q \in Rs : row'[q].known = row[q].known
      /\ \A q \in Rs : ~row[q].known => ~row'[q].terminal
      /\ stopLock' \in [Rs -> Stoppers \cup {None}] /\ marked' \in [Rs -> BOOLEAN]
      /\ task'[s].pc \in Busy /\ (task'[s].pc \in Stopping => row[r].known)
  <2>1. CASE StopAccepted(s, me)
    <3>1. "stopping" \in Status BY DEF Status
    <3>2. SetStatus(row[r], "stopping") \in Row
          /\ SameIdentity(SetStatus(row[r], "stopping"), row[r])
      BY <1>1, <3>1, SetStatusRow
    <3>3. row' = [row EXCEPT ![r] = SetStatus(row[r], "stopping")] /\ row[r].known
      BY <2>1 DEF StopAccepted, ActiveRow
    <3>4. /\ row' \in [Rs -> Row] /\ \A q \in Rs : SameIdentity(row'[q], row[q])
          /\ \A q \in Rs : row'[q].known = row[q].known
          /\ \A q \in Rs : ~row[q].known => ~row'[q].terminal
      BY <3>2, <3>3, RowReplaced
    <3>5. /\ stopLock' \in [Rs -> Stoppers \cup {None}] /\ marked' \in [Rs -> BOOLEAN]
          /\ task'[s].pc \in Busy
      BY <1>0, <2>1 DEF StopAccepted, TypeOK, Busy, Stopping
    <3> QED BY <3>3, <3>4, <3>5
  <2>2. CASE StopRefused(s)
    <3>1. UNCHANGED <<row, stopLock, marked>> /\ task'[s].pc \in {"close", "queued"}
      BY <2>2 DEF StopRefused
    <3> QED BY <1>0, <3>1, UnchangedRows DEF TypeOK, Busy, Stopping, KnownInv
  <2> QED BY <2>1, <2>2
<1>3. TypeOK' BY <1>0, <1>2 DEF TypeOK, locks
<1>4. TasksInv'
  <2>1. task'[s].pc \in StopperPCs /\ task'[s].pc # "waiting"
    BY <1>2 DEF Busy, Stopping, StopperPCs
  <2>2. \A q \in Rs : task'[q] = task[q] BY <1>1, Names
  <2>3. \A u \in Stoppers \ {s} : task'[u] = task[u] BY Names
  <2>4. Stopping \subseteq Busy BY DEF Busy
  <2>5. \A q \in Rs : task'[q].on = q /\ task'[q].pc \in MonitorPCs
    BY <1>0, <2>2 DEF TasksInv
  <2>6. ASSUME NEW u \in Stoppers
        PROVE  /\ task'[u].pc \in StopperPCs
               /\ task'[u].pc \in Busy => task'[u].on \in Rs
               /\ task'[u].pc \in Stopping => row'[task'[u].on].known
    <3>1. CASE u = s BY <1>2, <2>1, <3>1
    <3>2. CASE u # s BY <1>0, <1>2, <2>3, <2>4, <3>2 DEF TasksInv
    <3> QED BY <3>1, <3>2
  <2>7. task'["runner"].pc = "waiting" => reg' = NoRegistration
    BY <1>0, <2>1, <2>3, Names DEF TasksInv
  <2> QED BY <2>5, <2>6, <2>7 DEF TasksInv
<1>5. KnownInv'
  <2>1. \A q \in Rs : task'[q] = task[q] BY <1>1, Names
  <2> QED BY <1>0, <1>2, <2>1, KnownStep DEF KnownInv
<1> QED BY <1>3, <1>4, <1>5 DEF TypeInv

LEMMA StopDequeuedTypes ==
  ASSUME TypeInv, NEW s \in Stoppers, StopDequeued(s)
  PROVE  TypeInv'
<1>1. /\ task[s].pc \in {"queued", "adrift"} /\ EnterStop(s, task[s])
      /\ UNCHANGED <<job, locks, closers, astray, reg, control, faults>>
  BY DEF StopDequeued
<1>2. task[s] \in Task /\ task[s].on \in Rs
  BY <1>1, Names DEF TypeInv, TypeOK, TasksInv, Busy
<1>3. /\ task' \in [Tasks -> Task] /\ task'[s].on = task[s].on
      /\ \A u \in Tasks \ {s} : task'[u] = task[u]
      /\ StopAccepted(s, task[s]) \/ StopRefused(s)
  BY <1>1, <1>2, EnterStopParts
<1> QED BY <1>1, <1>2, <1>3, StopBeginsTypes DEF TypeInv, TypeOK, control, Unanswered

LEMMA CascadeStopsTypes ==
  ASSUME TypeInv, NEW s \in Stoppers, CascadeStops(s)
  PROVE  TypeInv'
<1>0. TypeOK /\ task[s] \in Task BY Names DEF TypeInv, TypeOK
<1>1. PICK r \in task[s].rest :
        StopResource(s, [task[s] EXCEPT !.on = r, !.rest = @ \ {r},
                                        !.allow = r \in task[s].stoppingRest])
  BY DEF CascadeStops
<1> DEFINE b == r \in task[s].stoppingRest
           me == [task[s] EXCEPT !.on = r, !.rest = @ \ {r}, !.allow = b]
<1>2. b \in BOOLEAN /\ r \in Rs BY <1>0 DEF Task
<1> HIDE DEF b
<1>3. me \in Task /\ me.on = r BY <1>0, <1>2 DEF Task
<1>4. StopResource(s, me) BY <1>1 DEF b
<1> HIDE DEF me
<1>5. /\ task' \in [Tasks -> Task] /\ task'[s].on = me.on
      /\ \A u \in Tasks \ {s} : task'[u] = task[u]
      /\ StopAccepted(s, me) \/ StopRefused(s)
      /\ UNCHANGED <<closers, astray>>
  BY <1>2, <1>3, <1>4, StopResourceParts
<1>6. task[s].pc # "waiting" /\ UNCHANGED <<job, locks, reg, control, faults>>
  BY DEF CascadeStops
<1> QED BY <1>0, <1>2, <1>3, <1>5, <1>6, StopBeginsTypes DEF TypeOK, control, Unanswered

\* The inspections of a stop: the row is what was observed, or STOPPING.
StopInspected(s) ==
  LET r == task[s].on IN
  row' \in {[row EXCEPT ![r] = Inspected(r, "cancelled", FALSE)],
            [row EXCEPT ![r] = SetStatus(@, "stopping")]}

LEMMA StopInspectedRow ==
  ASSUME TypeInv, NEW s \in Stoppers, task[s].pc \in Stopping, StopInspected(s)
  PROVE  /\ row' \in [Rs -> Row] /\ \A q \in Rs : SameIdentity(row'[q], row[q])
         /\ \A q \in Rs : row'[q].known = row[q].known
         /\ \A q \in Rs : ~row[q].known => ~row'[q].terminal
         /\ \A q \in Rs \ {task[s].on} : row'[q] = row[q]
<1> DEFINE r == task[s].on
<1>1. r \in Rs /\ row[r].known BY DEF TypeInv, TasksInv, Busy
<1>2. row[r] \in Row /\ sample[r] \in Jobs BY <1>1 DEF TypeInv, TypeOK
<1>3. "cancelled" \in Disposition /\ "stopping" \in Status BY DEF Disposition, Status
<1>4. CASE row' = [row EXCEPT ![r] = Inspected(r, "cancelled", FALSE)]
  <2>1. Inspected(r, "cancelled", FALSE) \in Row
        /\ SameIdentity(Inspected(r, "cancelled", FALSE), row[r])
    BY <1>1, <1>2, <1>3, InspectedRow
  <2> QED BY <1>1, <1>4, <2>1, RowReplaced
<1>5. CASE row' = [row EXCEPT ![r] = SetStatus(@, "stopping")]
  <2>1. SetStatus(row[r], "stopping") \in Row /\ SameIdentity(SetStatus(row[r], "stopping"), row[r])
    BY <1>2, <1>3, SetStatusRow
  <2>2. row' = [row EXCEPT ![r] = SetStatus(row[r], "stopping")] BY <1>5
  <2> QED BY <1>1, <2>1, <2>2, RowReplaced
<1> QED BY <1>4, <1>5 DEF StopInspected

LEMMA StopMovesTypes ==
  ASSUME TypeInv, NEW s \in Stoppers, task[s].pc \in Stopping, NEW pc \in Stopping,
         task' = Goto(s, pc), row' \in [Rs -> Row],
         \A q \in Rs : SameIdentity(row'[q], row[q]),
         \A q \in Rs : row'[q].known = row[q].known,
         \A q \in Rs : ~row[q].known => ~row'[q].terminal,
         inspecting' \in [Rs -> Tasks \cup {None}], sample' \in [Rs -> Jobs],
         cancelling' \in BOOLEAN, faults' \in 0 .. MaxEvents,
         UNCHANGED <<job, finalizing, stops, reg, action, orphans>>
  PROVE  TypeInv'
<1>0. TypeOK /\ TasksInv /\ KnownInv /\ task \in [Tasks -> Task] /\ s \in Tasks /\ s \notin Rs
  BY Names DEF TypeInv, TypeOK
<1>1. /\ task' \in [Tasks -> Task] /\ task'[s].on = task[s].on /\ task'[s].pc = pc
      /\ \A u \in Tasks \ {s} : task'[u] = task[u]
  BY <1>0, GotoTask, InspectionPCs DEF PCs
<1>2. TypeOK' BY <1>0, <1>1 DEF TypeOK, stops
<1>3. pc \in StopperPCs \ {"waiting"} BY DEF Stopping, StopperPCs
<1>4. TasksInv' /\ \A q \in Rs : ~row[q].known => task'[q].pc = "none"
  BY <1>0, <1>1, <1>3, TaskMoved DEF Busy
<1>5. KnownInv' BY <1>0, <1>4, KnownStep DEF KnownInv, Unanswered
<1> QED BY <1>2, <1>4, <1>5 DEF TypeInv

LEMMA CancelRunType ==
  ASSUME TypeInv, NEW s \in Stoppers, CancelRun(s) PROVE cancelling' \in BOOLEAN
<1>1. task[s].own \in BOOLEAN /\ cancelling \in BOOLEAN
  BY Names DEF TypeInv, TypeOK, Task
<1> QED BY <1>1 DEF CancelRun

LEMMA CheckEndsParts ==
  ASSUME TypeInv, NEW s \in Stoppers, CheckEnds(s)
  PROVE  /\ task[s].pc = "check" /\ inspecting[task[s].on] = s /\ StopInspected(s)
         /\ task' \in {Goto(s, "ask"), Goto(s, "finalize")}
         /\ task' = Goto(s, "finalize") => row'[task[s].on].terminal \/ Goto(s, "finalize") = Goto(s, "ask")
         /\ cancelling' \in BOOLEAN /\ faults' \in 0 .. MaxEvents /\ EndInspection(s)
         /\ UNCHANGED <<job, finalizing, stops, reg, action, orphans>>
<1> DEFINE r == task[s].on
           w == Inspected(r, "cancelled", FALSE)
<1>0. TypeOK /\ r \in Rs
  BY DEF CheckEnds, Holds, TypeInv, TasksInv, Busy, Stopping
<1>1. /\ task[s].pc = "check" /\ inspecting[task[s].on] = s /\ EndInspection(s)
      /\ UNCHANGED <<job, finalizing, stops, reg, action, orphans>>
  BY DEF CheckEnds, Holds
<1>2. \/ /\ row' = [row EXCEPT ![r] = w]
         /\ task' = Goto(s, IF w.terminal THEN "finalize" ELSE "ask")
         /\ IF w.terminal THEN CancelRun(s) ELSE UNCHANGED cancelling
         /\ UNCHANGED faults
      \/ /\ InspectionFails(r, w)
         /\ row' = [row EXCEPT ![r] = SetStatus(@, "stopping")]
         /\ task' = Goto(s, "ask")
         /\ UNCHANGED cancelling
  BY DEF CheckEnds
<1>3. cancelling' \in BOOLEAN BY <1>0, <1>2, CancelRunType DEF TypeOK
<1>4. faults' \in 0 .. MaxEvents BY <1>0, <1>2, FaultTypes DEF InspectionFails, TypeOK
<1>5. row \in [Rs -> Row] BY <1>0 DEF TypeOK
<1> HIDE DEF w
<1>6. row' = [row EXCEPT ![r] = w] => row'[r] = w BY <1>0, <1>5
<1>7. StopInspected(s) BY <1>2 DEF StopInspected, w
<1> QED BY <1>1, <1>2, <1>3, <1>4, <1>6, <1>7

LEMMA CheckEndsTypes ==
  ASSUME TypeInv, NEW s \in Stoppers, CheckEnds(s) PROVE TypeInv'
<1>1. task[s].pc \in Stopping /\ {"ask", "finalize"} \subseteq Stopping
      /\ task[s].on \in Rs /\ s \in Tasks /\ TypeOK
  BY CheckEndsParts, Names DEF Stopping, TypeInv, TasksInv, Busy
<1>2. inspecting' \in [Rs -> Tasks \cup {None}] /\ sample' \in [Rs -> Jobs]
  BY <1>1, CheckEndsParts, EndInspectionTypes
<1>3. PICK pc \in Stopping : task' = Goto(s, pc) BY <1>1, CheckEndsParts
<1>4. /\ row' \in [Rs -> Row] /\ \A q \in Rs : SameIdentity(row'[q], row[q])
      /\ \A q \in Rs : row'[q].known = row[q].known
      /\ \A q \in Rs : ~row[q].known => ~row'[q].terminal
  BY <1>1, CheckEndsParts, StopInspectedRow
<1> QED BY <1>1, <1>2, <1>3, <1>4, CheckEndsParts, StopMovesTypes

LEMMA WatchEndsParts ==
  ASSUME TypeInv, NEW s \in Stoppers, WatchEnds(s)
  PROVE  /\ task[s].pc = "watch" /\ inspecting[task[s].on] = s /\ StopInspected(s)
         /\ task' \in {Goto(s, "sleep"), Goto(s, "finalize")}
         /\ task' = Goto(s, "finalize") => row'[task[s].on].terminal \/ Goto(s, "finalize") = Goto(s, "sleep")
         /\ faults' \in 0 .. MaxEvents /\ EndInspection(s)
         /\ UNCHANGED <<job, finalizing, stops, reg, control>>
<1> DEFINE r == task[s].on
           w == Inspected(r, "cancelled", FALSE)
<1>0. TypeOK /\ r \in Rs
  BY DEF WatchEnds, Holds, TypeInv, TasksInv, Busy, Stopping
<1>1. /\ task[s].pc = "watch" /\ inspecting[task[s].on] = s /\ EndInspection(s)
      /\ UNCHANGED <<job, finalizing, stops, reg, control>>
  BY DEF WatchEnds, Holds
<1>2. \/ /\ row' = [row EXCEPT ![r] = w]
         /\ task' = Goto(s, IF w.terminal THEN "finalize" ELSE "sleep")
         /\ UNCHANGED faults
      \/ /\ InspectionFails(r, w)
         /\ row' = [row EXCEPT ![r] = SetStatus(@, "stopping")]
         /\ task' = Goto(s, "sleep")
  BY DEF WatchEnds
<1>4. faults' \in 0 .. MaxEvents BY <1>0, <1>2, FaultTypes DEF InspectionFails, TypeOK
<1>5. row \in [Rs -> Row] BY <1>0 DEF TypeOK
<1> HIDE DEF w
<1>6. row' = [row EXCEPT ![r] = w] => row'[r] = w BY <1>0, <1>5
<1>7. StopInspected(s) BY <1>2 DEF StopInspected, w
<1> QED BY <1>1, <1>2, <1>4, <1>6, <1>7

LEMMA WatchEndsTypes ==
  ASSUME TypeInv, NEW s \in Stoppers, WatchEnds(s) PROVE TypeInv'
<1>1. task[s].pc \in Stopping /\ {"sleep", "finalize"} \subseteq Stopping
      /\ task[s].on \in Rs /\ s \in Tasks /\ TypeOK
  BY WatchEndsParts, Names DEF Stopping, TypeInv, TasksInv, Busy
<1>2. inspecting' \in [Rs -> Tasks \cup {None}] /\ sample' \in [Rs -> Jobs]
  BY <1>1, WatchEndsParts, EndInspectionTypes
<1>3. PICK pc \in Stopping : task' = Goto(s, pc) BY <1>1, WatchEndsParts
<1>4. /\ row' \in [Rs -> Row] /\ \A q \in Rs : SameIdentity(row'[q], row[q])
      /\ \A q \in Rs : row'[q].known = row[q].known
      /\ \A q \in Rs : ~row[q].known => ~row'[q].terminal
  BY <1>1, WatchEndsParts, StopInspectedRow
<1>5. cancelling' \in BOOLEAN /\ UNCHANGED <<job, finalizing, stops, reg, action, orphans>>
  BY <1>1, WatchEndsParts DEF control, TypeOK
<1> QED BY <1>1, <1>2, <1>3, <1>4, <1>5, WatchEndsParts, StopMovesTypes

LEMMA StopWakesTypes ==
  ASSUME TypeInv, NEW s \in Stoppers, StopWakes(s) PROVE TypeInv'
<1>0. TypeOK /\ KnownInv BY DEF TypeInv
<1>1. PICK pc \in Stopping : task' = Goto(s, pc)
  BY DEF StopWakes, Accepted, Stopping
<1>2. /\ task[s].pc \in Stopping
      /\ UNCHANGED <<row, job, locks, stops, reg, control, faults>>
  BY DEF StopWakes, Stopping
<1>3. /\ \A q \in Rs : SameIdentity(row'[q], row[q])
      /\ \A q \in Rs : row'[q].known = row[q].known
      /\ \A q \in Rs : ~row[q].known => ~row'[q].terminal
  BY <1>0, <1>2, UnchangedRows DEF KnownInv
<1>4. /\ row' \in [Rs -> Row] /\ inspecting' \in [Rs -> Tasks \cup {None}]
      /\ sample' \in [Rs -> Jobs] /\ cancelling' \in BOOLEAN /\ faults' \in 0 .. MaxEvents
      /\ UNCHANGED <<job, finalizing, stops, reg, action, orphans>>
  BY <1>0, <1>2 DEF TypeOK, locks, control
<1> QED BY <1>1, <1>2, <1>3, <1>4, StopMovesTypes

LEMMA AskEndsParts ==
  ASSUME TypeInv, NEW s \in Stoppers, AskEnds(s)
  PROVE  /\ task[s].pc = "ask" /\ task[s].on \in Rs /\ row[task[s].on].known
         /\ task' \in [Tasks -> Task]
         /\ task'[s].on = task[s].on /\ task'[s].confirmed = task[s].confirmed
         /\ task'[s].pc = IF row[task[s].on].terminal THEN "finalize" ELSE "watch"
         /\ \A u \in Stoppers \ {s} : task'[u] = task[u]
         /\ \A q \in Rs : \/ task'[q] = task[q]
                          \/ /\ q = task[s].on /\ task[q].pc \in {"none", "done"}
                             /\ task'[q].pc = "start" /\ task'[q].on = q
<1> DEFINE r == task[s].on
           pc == Accepted(s, row[r])
<1>0. TypeOK /\ TasksInv /\ task \in [Tasks -> Task] /\ s \in Tasks /\ s \notin Rs
  BY Names DEF TypeInv, TypeOK
<1>1. task[s].pc = "ask" /\ task' = Restarted(Goto(s, pc), r) BY DEF AskEnds
<1>2. r \in Rs /\ row[r].known /\ task[r].on = r /\ r # s /\ r \in Tasks
  BY <1>0, <1>1, Names DEF TasksInv, Busy, Stopping
<1>3. pc = (IF row[r].terminal THEN "finalize" ELSE "watch") /\ pc \in PCs
  BY DEF Accepted, PCs, StopperPCs, Stopping
<1> HIDE DEF pc
<1>4. /\ Goto(s, pc) \in [Tasks -> Task] /\ Goto(s, pc)[s].pc = pc
      /\ Goto(s, pc)[s].on = r /\ Goto(s, pc)[s].confirmed = task[s].confirmed
      /\ \A u \in Tasks \ {s} : Goto(s, pc)[u] = task[u]
  BY <1>0, <1>3, GotoTask
<1>5. Goto(s, pc)[r] = task[r] BY <1>2, <1>4
<1>6. /\ task' \in [Tasks -> Task] /\ task'[r].on = r
      /\ task[r].pc \in {"none", "done"} => task'[r].pc = "start"
      /\ task[r].pc \notin {"none", "done"} => task' = Goto(s, pc)
      /\ \A u \in Tasks \ {r} : task'[u] = Goto(s, pc)[u]
  BY <1>1, <1>2, <1>4, <1>5, RestartedTask
<1>7. \A q \in Rs \ {r} : task'[q] = task[q] BY <1>0, <1>4, <1>6, Names
<1>8. \A u \in Stoppers \ {s} : task'[u] = task[u] BY <1>2, <1>4, <1>6, Names
<1>9. task'[s] = Goto(s, pc)[s] BY <1>0, <1>2, <1>6
<1> QED BY <1>1, <1>2, <1>3, <1>4, <1>5, <1>6, <1>7, <1>8, <1>9

LEMMA AskEndsTypes ==
  ASSUME TypeInv, NEW s \in Stoppers, AskEnds(s) PROVE TypeInv'
<1>0. TypeOK /\ TasksInv /\ KnownInv BY DEF TypeInv
<1>1. UNCHANGED <<row, job, locks, stops, reg, action, orphans, faults>> /\ CancelRun(s)
  BY DEF AskEnds
<1>2. TypeOK' BY <1>0, <1>1, AskEndsParts, CancelRunType DEF TypeOK, locks, stops
<1>3. TasksInv'
  <2>1. \A q \in Rs : task'[q].on = q /\ task'[q].pc \in MonitorPCs
    BY <1>0, AskEndsParts DEF TasksInv, MonitorPCs
  <2>2. task'[s].pc \in Stopping /\ task'[s].pc # "waiting" BY AskEndsParts DEF Stopping
  <2>3. task'[s].on \in Rs /\ row[task'[s].on].known BY AskEndsParts
  <2>4. \A u \in Stoppers \ {s} : task'[u] = task[u] BY AskEndsParts
  <2>5. Stopping \subseteq StopperPCs BY InspectionPCs
  <2> QED BY <1>0, <1>1, <2>1, <2>2, <2>3, <2>4, <2>5, Names DEF TasksInv
<1>4. KnownInv'
  <2>1. \A q \in Rs : ~row[q].known => task'[q].pc = "none"
    BY <1>0, AskEndsParts DEF KnownInv
  <2> QED BY <1>0, <1>1, <2>1, KnownStep, UnchangedRows DEF KnownInv, Unanswered
<1> QED BY <1>2, <1>3, <1>4 DEF TypeInv

\* The row that a refused stop and one that is over its time leave.
LEMMA AskFailsParts ==
  ASSUME TypeInv, NEW s \in Stoppers, AskFails(s)
  PROVE  /\ task[s].pc = "ask" /\ faults' \in 0 .. MaxEvents
         /\ UNCHANGED <<job, locks, reg, control>>
         /\ \E w \in Row : /\ StopEnds(s, w, FALSE) /\ SameIdentity(w, row[task[s].on])
                           /\ w.terminal = row[task[s].on].terminal
                           /\ w.closed = row[task[s].on].closed
                           /\ w.disp = row[task[s].on].disp
<1> DEFINE r == task[s].on
           w == IF task[s].already THEN row[r] ELSE SetStatus(row[r], task[s].prev)
<1>1. /\ task[s].pc = "ask" /\ StopEnds(s, w, FALSE) /\ UNCHANGED <<job, locks, reg, control>>
  BY DEF AskFails
<1>2. faults' \in 0 .. MaxEvents BY FaultTypes DEF AskFails, TypeInv, TypeOK
<1>3. r \in Rs /\ row[r] \in Row /\ task[s] \in Task
  BY <1>1, Names DEF TypeInv, TasksInv, Busy, Stopping, TypeOK
<1>4. task[s].prev \in Status BY <1>3 DEF Task
<1>5. /\ w \in Row /\ SameIdentity(w, row[r]) /\ w.terminal = row[r].terminal
      /\ w.closed = row[r].closed /\ w.disp = row[r].disp
  BY <1>3, <1>4, SetStatusRow DEF SameIdentity
<1> HIDE DEF w
<1> QED BY <1>1, <1>2, <1>5

LEMMA AskFailsTypes ==
  ASSUME TypeInv, NEW s \in Stoppers, AskFails(s) PROVE TypeInv'
<1>1. PICK w \in Row : StopEnds(s, w, FALSE) /\ SameIdentity(w, row[task[s].on])
  BY AskFailsParts
<1>2. /\ task[s].pc \in Stopping /\ faults' \in 0 .. MaxEvents
      /\ UNCHANGED <<job, locks, reg, control>>
  BY AskFailsParts DEF Stopping
<1>3. FALSE \in BOOLEAN OBVIOUS
<1>4. /\ inspecting' \in [Rs -> Tasks \cup {None}] /\ sample' \in [Rs -> Jobs]
      /\ finalizing' \in [Rs -> Tasks \cup {None}]
      /\ UNCHANGED <<job, reg, orphans, action, cancelling>>
  BY <1>2 DEF TypeInv, TypeOK, locks, control
<1> QED BY <1>1, <1>2, <1>3, <1>4, StopEndsStep

LEMMA StopTimesOutParts ==
  ASSUME TypeInv, NEW s \in Stoppers, StopTimesOut(s)
  PROVE  /\ task[s].pc \in Stopping /\ ~task[s].confirmed /\ ReleaseBoth(task[s].on, s)
         /\ UNCHANGED <<job, reg, control, faults>>
         /\ \E w \in Row : /\ StopEnds(s, w, FALSE) /\ SameIdentity(w, row[task[s].on])
                           /\ w.terminal = row[task[s].on].terminal
                           /\ w.closed = row[task[s].on].closed
                           /\ w.disp = row[task[s].on].disp
<1> DEFINE r == task[s].on
           retry == IF row[r].terminal /\ row[r].disp # "active" THEN row[r].status
                    ELSE IF task[s].prev = "stopping" THEN "running" ELSE task[s].prev
<1>1. /\ task[s].pc \in Stopping /\ ~task[s].confirmed /\ ReleaseBoth(r, s)
      /\ StopEnds(s, SetStatus(row[r], retry), FALSE) /\ UNCHANGED <<job, reg, control, faults>>
  BY DEF StopTimesOut, Timed
<1>2. r \in Rs /\ row[r] \in Row /\ task[s] \in Task
  BY <1>1, Names DEF TypeInv, TasksInv, Busy, TypeOK
<1>3. retry \in Status BY <1>2 DEF Task, Row, Status
<1> HIDE DEF retry
<1>4. /\ SetStatus(row[r], retry) \in Row /\ SameIdentity(SetStatus(row[r], retry), row[r])
      /\ SetStatus(row[r], retry).terminal = row[r].terminal
      /\ SetStatus(row[r], retry).closed = row[r].closed
      /\ SetStatus(row[r], retry).disp = row[r].disp
  BY <1>2, <1>3, SetStatusRow
<1> QED BY <1>1, <1>4

LEMMA StopTimesOutTypes ==
  ASSUME TypeInv, NEW s \in Stoppers, StopTimesOut(s) PROVE TypeInv'
<1>1. PICK w \in Row : StopEnds(s, w, FALSE) /\ SameIdentity(w, row[task[s].on])
  BY StopTimesOutParts
<1>2. task[s].pc \in Stopping /\ UNCHANGED <<job, reg, control, faults>>
  BY StopTimesOutParts
<1>3. FALSE \in BOOLEAN OBVIOUS
<1>4. TypeOK /\ task[s].on \in Rs BY <1>2 DEF TypeInv, TasksInv, Busy
<1>5. /\ inspecting' \in [Rs -> Tasks \cup {None}] /\ sample' \in [Rs -> Jobs]
      /\ finalizing' \in [Rs -> Tasks \cup {None}]
  BY <1>4, StopTimesOutParts, ReleaseBothTypes
<1>6. UNCHANGED <<job, reg, orphans, action, cancelling>> /\ faults' \in 0 .. MaxEvents
  BY <1>2, <1>4 DEF control, TypeOK
<1> QED BY <1>1, <1>2, <1>3, <1>5, <1>6, StopEndsStep

\* What the return of a stop does to the tasks.
LEMMA StopReturnsParts ==
  ASSUME TypeInv, NEW s \in Stoppers, StopReturns(s)
  PROVE  /\ task[s].pc = "close" /\ task[s].on \in Rs
         /\ task' \in [Tasks -> Task] /\ task'[s].pc \in {"cascade", "begin", "idle"}
         /\ task'[s].confirmed = FALSE
         /\ \A q \in Rs : \/ task'[q] = task[q]
                          \/ task[s].prune /\ q = task[s].on /\ ~Live(q) /\ task'[q] = Idle("none", q)
         /\ \A u \in Stoppers \ {s} :
              /\ task'[u].on = task[u].on /\ task'[u].confirmed = task[u].confirmed
              /\ \/ task'[u].pc = task[u].pc
                 \/ /\ task[u].pc = "queued" /\ task'[u].pc = "adrift"
                    /\ task[s].prune /\ task[u].on = task[s].on
         /\ IF task[s].prune THEN Prune(task[s].on) ELSE UNCHANGED <<stopLock, marked, astray>>
         /\ action' \in Actions /\ action'.on = action.on
         /\ Unanswered' => Unanswered
<1> DEFINE r == task[s].on
           me == task[s]
           pc == IF ~me.own THEN "cascade" ELSE IF me.ok THEN "begin" ELSE "idle"
           on == IF me.own /\ me.ok THEN r ELSE None
           x == [Idle(pc, on) EXCEPT !.rest = me.rest, !.stoppingRest = me.stoppingRest]
           base == IF me.prune THEN Pruned(r) ELSE task
           z == IF me.prune /\ ~Live(r) THEN Idle("none", r) ELSE base[r]
<1>0. TypeOK /\ TasksInv /\ task \in [Tasks -> Task] /\ s \in Tasks /\ s \notin Rs
  BY Names DEF TypeInv, TypeOK
<1>1. me.pc = "close" /\ r \in Rs /\ me \in Task
  BY <1>0 DEF StopReturns, TasksInv, Busy
<1>2. r \in Tasks /\ r # s BY <1>0, <1>1, Names
<1>3. base \in [Tasks -> Task] BY <1>0, <1>1, PrunedTask
<1>4. task' = [base EXCEPT ![s] = x, ![r] = z]
  <2>1. task' = [base EXCEPT ![s] = x, ![r] = IF me.prune /\ ~Live(r) THEN Idle("none", r) ELSE @]
    BY DEF StopReturns
  <2> HIDE DEF base, x
  <2> QED BY <1>2, <1>3, <2>1
<1>5. x \in Task /\ x.pc = pc /\ x.confirmed = FALSE
  <2>1. pc \in PCs /\ on \in Rs \cup {None} BY <1>1 DEF PCs, StopperPCs
  <2> HIDE DEF pc, on
  <2>2. Idle(pc, on) \in Task /\ Idle(pc, on).pc = pc /\ Idle(pc, on).confirmed = FALSE
    BY <2>1, IdleTask
  <2>3. me.rest \in SUBSET Rs /\ me.stoppingRest \in SUBSET Rs BY <1>1 DEF Task
  <2> QED BY <2>2, <2>3 DEF Task
<1>6. z \in Task
  <2>1. "none" \in PCs /\ r \in Rs \cup {None} BY <1>1 DEF PCs, MonitorPCs
  <2> QED BY <1>2, <1>3, <2>1, IdleTask
<1>7. z = task[r] \/ (me.prune /\ ~Live(r) /\ z = Idle("none", r))
  BY <1>0, <1>1, PrunedTask
<1>8. \A q \in Rs : base[q] = task[q] BY <1>0, <1>1, PrunedTask
<1>9. \A u \in Stoppers : /\ base[u].on = task[u].on /\ base[u].confirmed = task[u].confirmed
                          /\ \/ base[u].pc = task[u].pc
                             \/ /\ task[u].pc = "queued" /\ base[u].pc = "adrift"
                                /\ me.prune /\ task[u].on = r
  BY <1>0, <1>1, PrunedTask
<1>10. pc \in {"cascade", "begin", "idle"} OBVIOUS
<1> HIDE DEF base, x, z, pc, on
<1>11. /\ task' \in [Tasks -> Task] /\ task'[s] = x /\ task'[r] = z
       /\ \A u \in Tasks \ {s, r} : task'[u] = base[u]
  BY <1>0, <1>2, <1>3, <1>4, <1>5, <1>6
<1>12. \A q \in Rs : task'[q] = task[q] \/ (me.prune /\ q = r /\ ~Live(q) /\ task'[q] = Idle("none", q))
  <2> TAKE q \in Rs
  <2>1. CASE q = r BY <1>7, <1>11, <2>1
  <2>2. CASE q # r BY <1>0, <1>8, <1>11, <2>2, Names
  <2> QED BY <2>1, <2>2
<1>13. \A u \in Stoppers \ {s} : task'[u] = base[u] BY <1>1, <1>11, Names
<1>14. IF me.prune THEN Prune(r) ELSE UNCHANGED <<stopLock, marked, astray>>
  BY DEF StopReturns
<1>15. /\ action' \in Actions /\ action'.on = action.on
       /\ Unanswered' => Unanswered
  <2>1. action' = IF me.own /\ ~me.ok THEN [action EXCEPT !.status = "rejected"] ELSE action
    BY DEF StopReturns
  <2> QED BY <1>0, <2>1 DEF TypeOK, Actions, Unanswered
<1> QED BY <1>1, <1>5, <1>9, <1>10, <1>11, <1>12, <1>13, <1>14, <1>15

LEMMA StopReturnsTypes ==
  ASSUME TypeInv, NEW s \in Stoppers, StopReturns(s) PROVE TypeInv'
<1> DEFINE r == task[s].on
<1>0. TypeOK /\ TasksInv /\ KnownInv BY DEF TypeInv
<1>1. UNCHANGED <<row, job, locks, closers, reg, cancelling, orphans, faults>>
  BY DEF StopReturns
<1>2. /\ stopLock' \in [Rs -> Stoppers \cup {None}] /\ marked' \in [Rs -> BOOLEAN]
      /\ astray' \subseteq Rs
  <2>1. r \in Rs /\ (Prune(r) \/ UNCHANGED <<stopLock, marked, astray>>)
    BY StopReturnsParts
  <2>2. CASE Prune(r) BY <1>0, <2>1, <2>2, PruneTypes
  <2>3. CASE UNCHANGED <<stopLock, marked, astray>> BY <1>0, <2>3 DEF TypeOK
  <2> QED BY <2>1, <2>2, <2>3
<1>3. TypeOK' BY <1>0, <1>1, <1>2, StopReturnsParts DEF TypeOK, locks
<1>4. \A q \in Rs : /\ task'[q].on = q /\ task'[q].pc \in MonitorPCs
                    /\ task[q].pc = "none" => task'[q].pc = "none"
  <2> TAKE q \in Rs
  <2>1. "none" \in PCs /\ q \in Rs \cup {None} BY DEF PCs, MonitorPCs
  <2>2. Idle("none", q).on = q /\ Idle("none", q).pc = "none" BY <2>1, IdleTask
  <2>3. task'[q] = task[q] \/ task'[q] = Idle("none", q) BY StopReturnsParts
  <2> QED BY <1>0, <2>2, <2>3 DEF TasksInv, MonitorPCs
<1>5. TasksInv'
  <2>1. ASSUME NEW u \in Stoppers
        PROVE  /\ task'[u].pc \in StopperPCs
               /\ task'[u].pc \in Busy => task'[u].on \in Rs
               /\ task'[u].pc \in Stopping => row'[task'[u].on].known
               /\ task'[u].pc = "waiting" => task[u].pc = "waiting"
    <3>1. CASE u = s
      BY <3>1, StopReturnsParts DEF StopperPCs, Busy, Stopping
    <3>2. CASE u # s
      BY <1>0, <1>1, <3>2, StopReturnsParts DEF TasksInv, StopperPCs, Busy, Stopping
    <3> QED BY <3>1, <3>2
  <2> QED BY <1>0, <1>1, <1>4, <2>1, Names DEF TasksInv
<1>6. KnownInv'
  <2>1. \A q \in Rs : ~row'[q].known => ~row'[q].terminal /\ task'[q].pc = "none"
    BY <1>0, <1>1, <1>4 DEF KnownInv
  <2>2. Unanswered' => action'.on \in Rs
    BY <1>0, StopReturnsParts DEF KnownInv
  <2> QED BY <1>0, <1>1, <2>1, <2>2, KnownStep, UnchangedRows DEF KnownInv
<1> QED BY <1>3, <1>5, <1>6 DEF TypeInv

-----------------------------------------------------------------------------
(* Types: the callers of stops, and the end of the run.                    *)

LEMMA RequestStopTypes ==
  ASSUME TypeInv, NEW r \in Rs, RequestStop(r) PROVE TypeInv'
<1>0. TypeOK /\ TasksInv /\ KnownInv /\ row \in [Rs -> Row] BY DEF TypeInv, TypeOK
<1>1. /\ row' = [row EXCEPT ![r].fresh = TRUE] /\ row[r].known
      /\ action' = [on |-> r, recovered |-> FALSE, number |-> action.number + 1,
                    status |-> "requested"]
      /\ UNCHANGED <<job, task, locks, stops, reg, cancelling, orphans, faults>>
  BY DEF RequestStop, ActiveRow
<1>2. /\ row' \in [Rs -> Row] /\ \A q \in Rs : SameIdentity(row'[q], row[q])
      /\ \A q \in Rs : row'[q].known = row[q].known /\ row'[q].terminal = row[q].terminal
  BY <1>0, <1>1 DEF Row, SameIdentity
<1>3. action' \in Actions BY <1>0, <1>1 DEF TypeOK, Actions
<1>4. TypeOK' BY <1>0, <1>1, <1>2, <1>3 DEF TypeOK, locks, stops
<1>5. TasksInv' BY <1>0, <1>1, <1>2 DEF TasksInv, Busy
<1>6. KnownInv' BY <1>0, <1>1, <1>2, KnownStep DEF KnownInv
<1> QED BY <1>4, <1>5, <1>6 DEF TypeInv

\* The three ways that the loop claims an action.
LEMMA ClaimActionParts ==
  ASSUME TypeInv, ClaimAction
  PROVE  /\ task["loop"].pc = "idle" /\ action.status = "requested" /\ action.on \in Rs
         /\ UNCHANGED <<job, locks, reg, cancelling, orphans, faults>>
         /\ action' \in Actions /\ action'.on = action.on
         /\ \/ /\ task' \in [Tasks -> Task] /\ task'["loop"].on = action.on
               /\ task'["loop"].pc = "finalize" /\ task'["loop"].confirmed
               /\ \A u \in Tasks \ {"loop"} : task'[u] = task[u]
               /\ row[action.on].terminal /\ UNCHANGED <<row, stops>>
            \/ UNCHANGED <<row, task, stops>>
            \/ \E me \in Task : /\ me.on = action.on /\ me.confirmed = FALSE
                                /\ me.pc = "idle" /\ StopResource("loop", me)
<1> DEFINE r == action.on
           me == [Idle("idle", r) EXCEPT !.own = TRUE, !.allow = action.recovered]
           x == [me EXCEPT !.pc = "finalize", !.confirmed = TRUE]
<1>0. TypeOK /\ KnownInv /\ task \in [Tasks -> Task] BY DEF TypeInv, TypeOK
<1>1. /\ task["loop"].pc = "idle" /\ action.status = "requested"
      /\ UNCHANGED <<job, locks, reg, cancelling, orphans, faults>>
  BY DEF ClaimAction
<1>2. r \in Rs BY <1>0, <1>1 DEF KnownInv, Unanswered
<1>3. action' = [action EXCEPT !.status = "executing"] \/ action' = [action EXCEPT !.status = "rejected"]
  BY DEF ClaimAction
<1>4. action' \in Actions /\ action'.on = r BY <1>0, <1>3 DEF TypeOK, Actions
<1>5. me \in Task /\ me.on = r /\ me.pc = "idle" /\ me.confirmed = FALSE
  <2>1. action.recovered \in BOOLEAN /\ "idle" \in PCs /\ r \in Rs \cup {None}
    BY <1>0, <1>2 DEF TypeOK, Actions, PCs, StopperPCs
  <2>2. Idle("idle", r) \in Task /\ Idle("idle", r).pc = "idle" /\ Idle("idle", r).on = r
        /\ Idle("idle", r).confirmed = FALSE
    BY <2>1, IdleTask
  <2> QED BY <2>1, <2>2 DEF Task
<1>6. \/ ConfirmedBefore(r) /\ task' = [task EXCEPT !["loop"] = x] /\ UNCHANGED <<row, stops>>
      \/ UNCHANGED <<row, task, stops>>
      \/ StopResource("loop", me)
  BY DEF ClaimAction
<1> HIDE DEF me
<1>7. x \in Task /\ x.pc = "finalize" /\ x.on = r /\ x.confirmed
  BY <1>5 DEF Task, StopperPCs, Stopping
<1> HIDE DEF x
<1>8. task' = [task EXCEPT !["loop"] = x] =>
        /\ task' \in [Tasks -> Task] /\ task'["loop"].on = r
        /\ task'["loop"].pc = "finalize" /\ task'["loop"].confirmed
        /\ \A u \in Tasks \ {"loop"} : task'[u] = task[u]
  BY <1>0, <1>7, Names
<1>9. ConfirmedBefore(r) => row[r].terminal BY DEF ConfirmedBefore
<1> QED BY <1>1, <1>2, <1>4, <1>5, <1>6, <1>8, <1>9

LEMMA ClaimActionTypes ==
  ASSUME TypeInv, ClaimAction PROVE TypeInv'
<1>0. TypeOK /\ TasksInv /\ KnownInv BY DEF TypeInv
<1>1. /\ UNCHANGED <<job, locks, reg, cancelling, orphans, faults>>
      /\ action' \in Actions /\ action'.on = action.on /\ action.on \in Rs
      /\ action.status = "requested" /\ task["loop"].pc = "idle"
  BY ClaimActionParts
<1>2. CASE /\ task' \in [Tasks -> Task] /\ task'["loop"].on = action.on
           /\ task'["loop"].pc = "finalize" /\ task'["loop"].confirmed
           /\ \A u \in Tasks \ {"loop"} : task'[u] = task[u]
           /\ row[action.on].terminal /\ UNCHANGED <<row, stops>>
  <2>1. TypeOK' BY <1>0, <1>1, <1>2 DEF TypeOK, locks, stops
  <2>2. row[action.on].known BY <1>0, <1>1, <1>2 DEF KnownInv
  <2>3. \A q \in Rs : task'[q] = task[q] BY <1>2, Names
  <2>4. task'["runner"] = task["runner"] BY <1>2, Names
  <2>5. TasksInv'
    BY <1>0, <1>1, <1>2, <2>2, <2>3, <2>4 DEF TasksInv, Stoppers, StopperPCs, Stopping, Busy
  <2>6. KnownInv' BY <1>0, <1>1, <1>2, <2>3, KnownStep, UnchangedRows DEF KnownInv
  <2> QED BY <2>1, <2>5, <2>6 DEF TypeInv
<1>3. CASE UNCHANGED <<row, task, stops>>
  <2>1. TypeOK' BY <1>0, <1>1, <1>3 DEF TypeOK, locks, stops
  <2>2. TasksInv' BY <1>0, <1>1, <1>3 DEF TasksInv
  <2>3. KnownInv' BY <1>0, <1>1, <1>3, KnownStep, UnchangedRows DEF KnownInv
  <2> QED BY <2>1, <2>2, <2>3 DEF TypeInv
<1>4. ASSUME NEW me \in Task, me.on = action.on, StopResource("loop", me)
      PROVE  TypeInv'
  <2>1. /\ task' \in [Tasks -> Task] /\ task'["loop"].on = me.on
        /\ \A u \in Tasks \ {"loop"} : task'[u] = task[u]
        /\ StopAccepted("loop", me) \/ StopRefused("loop")
        /\ UNCHANGED <<closers, astray>>
    BY <1>1, <1>4, StopResourceParts, Names
  <2>2. Unanswered' => Unanswered BY <1>1 DEF Unanswered
  <2> QED BY <1>1, <1>4, <2>1, <2>2, StopBeginsTypes, Names
<1> QED BY <1>2, <1>3, <1>4, ClaimActionParts

\* A stopper that is between stops moves to another place between stops.
LEMMA StopperMoves ==
  ASSUME TypeInv, NEW s \in Stoppers, task' \in [Tasks -> Task],
         \A u \in Tasks \ {s} : task'[u] = task[u],
         task'[s].pc \in StopperPCs \ Busy, task'[s].pc = "waiting" => reg = NoRegistration,
         UNCHANGED <<row, job, locks, stops, reg, orphans, faults>>,
         cancelling' \in BOOLEAN, action' \in Actions, action'.on = action.on,
         Unanswered' => Unanswered
  PROVE  TypeInv'
<1>0. TypeOK /\ TasksInv /\ KnownInv BY DEF TypeInv
<1>1. TypeOK' BY <1>0 DEF TypeOK, locks, stops
<1>2. \A q \in Rs : task'[q] = task[q] BY Names
<1>3. \A u \in Stoppers \ {s} : task'[u] = task[u] BY Names
<1>4. TasksInv' BY <1>0, <1>2, <1>3, Names DEF TasksInv, Busy
<1>5. KnownInv' BY <1>0, <1>2, KnownStep, UnchangedRows DEF KnownInv
<1> QED BY <1>1, <1>4, <1>5 DEF TypeInv

LEMMA BeginCascadeTypes ==
  ASSUME TypeInv, NEW s \in Stoppers, BeginCascade(s) PROVE TypeInv'
<1>0. TypeOK /\ task \in [Tasks -> Task] /\ s \in Tasks BY Names DEF TypeInv, TypeOK
<1> DEFINE idle == Idle("cascade", None)
<1>1. idle \in Task /\ idle.pc = "cascade" BY IdleTask DEF PCs, StopperPCs
<1> HIDE DEF idle
<1>2. CascadeOf(idle) \in Task /\ CascadeOf(idle).pc = "cascade"
  BY <1>1 DEF CascadeOf, Task, StopperPCs
<1>3. PICK x \in {idle, CascadeOf(idle)} : task' = [task EXCEPT ![s] = x]
  BY DEF BeginCascade, idle
<1>4. /\ task' \in [Tasks -> Task] /\ task'[s].pc = "cascade"
      /\ \A u \in Tasks \ {s} : task'[u] = task[u]
  BY <1>0, <1>1, <1>2, <1>3
<1>5. cancelling' \in BOOLEAN BY DEF BeginCascade
<1>6. UNCHANGED <<row, job, locks, stops, reg, action, orphans, faults>> BY DEF BeginCascade
<1>7. task'[s].pc \in StopperPCs \ Busy /\ task'[s].pc # "waiting"
  BY <1>4 DEF StopperPCs, Busy, Stopping
<1> QED BY <1>0, <1>4, <1>5, <1>6, <1>7, StopperMoves DEF TypeOK, Unanswered

LEMMA CascadeEndsTypes ==
  ASSUME TypeInv, NEW s \in Stoppers, CascadeEnds(s) PROVE TypeInv'
<1> DEFINE pc == IF s = "loop" THEN "idle" ELSE "after"
<1>0. TypeOK /\ task \in [Tasks -> Task] /\ s \in Tasks BY Names DEF TypeInv, TypeOK
<1>1. pc \in PCs /\ None \in Rs \cup {None} BY DEF PCs, StopperPCs
<1>2. pc \in StopperPCs \ Busy /\ pc # "waiting" BY DEF StopperPCs, Busy, Stopping
<1>3. task' = [task EXCEPT ![s] = Idle(pc, None)] BY DEF CascadeEnds
<1> HIDE DEF pc
<1>4. Idle(pc, None) \in Task /\ Idle(pc, None).pc = pc BY <1>1, IdleTask
<1>5. /\ task' \in [Tasks -> Task] /\ task'[s].pc = pc
      /\ \A u \in Tasks \ {s} : task'[u] = task[u]
  BY <1>0, <1>3, <1>4
<1>6. action' \in Actions /\ action'.on = action.on /\ (Unanswered' => Unanswered)
  BY <1>0 DEF CascadeEnds, TypeOK, Actions, Unanswered
<1>7. UNCHANGED <<row, job, locks, stops, reg, cancelling, orphans, faults>> BY DEF CascadeEnds
<1> QED BY <1>0, <1>2, <1>5, <1>6, <1>7, StopperMoves DEF TypeOK

LEMMA RunnerMovesTypes ==
  ASSUME TypeInv, RunnerWaits \/ WaitEnds PROVE TypeInv'
<1>0. TypeOK /\ task \in [Tasks -> Task] BY DEF TypeInv, TypeOK
<1>1. PICK pc \in {"waiting", "after", "raised"} :
        task' = Goto("runner", pc) /\ (pc = "waiting" => reg = NoRegistration)
  BY DEF RunnerWaits, WaitEnds
<1>2. UNCHANGED <<row, job, locks, stops, reg, control, faults>> BY DEF RunnerWaits, WaitEnds
<1>3. pc \in PCs /\ pc \in StopperPCs \ Busy BY DEF PCs, StopperPCs, Busy, Stopping
<1>4. /\ task' \in [Tasks -> Task] /\ task'["runner"].pc = pc
      /\ \A u \in Tasks \ {"runner"} : task'[u] = task[u]
  BY <1>0, <1>1, <1>3, GotoTask, Names
<1> QED BY <1>0, <1>1, <1>2, <1>3, <1>4, StopperMoves, Names DEF TypeOK, control, Unanswered

LEMMA CloseNonblockingTypes ==
  ASSUME TypeInv, CloseNonblocking
  PROVE  /\ TypeInv' /\ \A s \in Stoppers : task'[s].pc \in {"ended", task[s].pc}
         /\ task'["loop"] = task["loop"] /\ task'["runner"].pc = "ended"
         /\ \A q \in Rs : \/ task'[q] = task[q]
                          \/ ~row[q].life.blocking /\ task'[q].pc \in {"none", "done"}
         /\ \A q \in Rs : /\ SameIdentity(row'[q], row[q]) /\ row'[q].terminal = row[q].terminal
                          /\ row'[q].status = row[q].status /\ row'[q].disp = row[q].disp
                          /\ row[q].closed => row'[q].closed
         /\ \A q \in Rs : inspecting'[q] = None \/
              (inspecting'[q] = inspecting[q] /\ sample'[q] = sample[q])
<1> DEFINE closed == {r \in Rs : ~row[r].life.blocking /\ task[r].pc # "none"}
           retired == {r \in closed : stopLock[r] = None}
           x(t) == IF t = "runner" THEN Idle("ended", None)
                   ELSE IF t \in retired THEN Idle("none", t)
                   ELSE IF t \in closed THEN [task[t] EXCEPT !.pc = "done"]
                   ELSE task[t]
           Freed(lock, r) == r \in closed /\ lock[r] = r
<1>0. TypeOK /\ TasksInv /\ KnownInv /\ task \in [Tasks -> Task] /\ row \in [Rs -> Row]
  BY DEF TypeInv, TypeOK
<1>1. task' = [t \in Tasks |-> x(t)] BY DEF CloseNonblocking
<1>2. \A t \in Rs :
        /\ x(t) \in Task /\ x(t).on = t /\ x(t).pc \in MonitorPCs
        /\ task[t].pc = "none" => x(t).pc = "none"
        /\ \/ x(t) = task[t]
           \/ ~row[t].life.blocking /\ x(t).pc \in {"none", "done"}
  <2> TAKE t \in Rs
  <2>1. t \in Tasks /\ t # "runner" BY Names
  <2>2. "none" \in PCs /\ t \in Rs \cup {None} BY DEF PCs, MonitorPCs
  <2>3. Idle("none", t) \in Task /\ Idle("none", t).on = t /\ Idle("none", t).pc = "none"
    BY <2>2, IdleTask
  <2>4. /\ [task[t] EXCEPT !.pc = "done"] \in Task /\ [task[t] EXCEPT !.pc = "done"].on = t
        /\ [task[t] EXCEPT !.pc = "done"].pc = "done"
    BY <1>0, <2>1 DEF Task, MonitorPCs, TasksInv
  <2>5. CASE t \in retired BY <2>1, <2>3, <2>5 DEF MonitorPCs
  <2>6. CASE t \in closed \ retired
    <3>1. ~row[t].life.blocking /\ task[t].pc # "none" /\ x(t) = [task[t] EXCEPT !.pc = "done"]
      BY <2>1, <2>6
    <3> QED BY <2>4, <3>1 DEF MonitorPCs
  <2>7. CASE t \notin closed
    <3>1. x(t) = task[t] BY <2>1, <2>7
    <3>2. task[t] \in Task /\ task[t].on = t /\ task[t].pc \in MonitorPCs
      BY <1>0, <2>1 DEF TasksInv
    <3> QED BY <3>1, <3>2
  <2> QED BY <2>5, <2>6, <2>7
<1>3. /\ x("runner") \in Task /\ x("runner").pc = "ended"
      /\ x("loop") = task["loop"]
  <2>1. "ended" \in PCs /\ None \in Rs \cup {None} BY DEF PCs, StopperPCs
  <2>2. Idle("ended", None) \in Task /\ Idle("ended", None).pc = "ended" BY <2>1, IdleTask
  <2> QED BY <2>2, Names
<1>4. \A t \in Tasks : task'[t] = x(t) BY <1>1
<1> HIDE DEF x
<1>5. task' \in [Tasks -> Task]
  <2>1. task["loop"] \in Task BY <1>0, Names
  <2>2. \A t \in Tasks : x(t) \in Task BY <1>2, <1>3, <2>1 DEF Tasks, Stoppers
  <2> QED BY <1>1, <2>2
<1>6. /\ task'["loop"] = task["loop"] /\ task'["runner"].pc = "ended"
      /\ \A q \in Rs : task'[q] = x(q)
  BY <1>3, <1>4, Names
<1>7. /\ row' \in [Rs -> Row]
      /\ \A q \in Rs : /\ SameIdentity(row'[q], row[q]) /\ row'[q].terminal = row[q].terminal
                       /\ row'[q].status = row[q].status /\ row'[q].disp = row[q].disp
                       /\ row[q].closed => row'[q].closed
  <2>1. \A q \in Rs : row'[q] = [row[q] EXCEPT !.closed = @ \/ q \in closed]
    BY DEF CloseNonblocking
  <2>2. row' = [q \in Rs |-> [row[q] EXCEPT !.closed = @ \/ q \in closed]]
    BY DEF CloseNonblocking
  <2>3. \A q \in Rs : row[q] \in Row BY <1>0
  <2> HIDE DEF closed
  <2>4. \A q \in Rs : row'[q] \in Row BY <2>1, <2>3 DEF Row
  <2>5. \A q \in Rs :  /\ SameIdentity(row'[q], row[q]) /\ row'[q].terminal = row[q].terminal
                       /\ row'[q].status = row[q].status /\ row'[q].disp = row[q].disp
                       /\ row[q].closed => row'[q].closed
    BY <2>1, <2>3 DEF Row, SameIdentity
  <2> QED BY <2>2, <2>4, <2>5
<1>8. /\ inspecting' \in [Rs -> Tasks \cup {None}] /\ sample' \in [Rs -> Jobs]
      /\ finalizing' \in [Rs -> Tasks \cup {None}] /\ closers' \subseteq Rs
      /\ \A q \in Rs : inspecting'[q] = None \/
              (inspecting'[q] = inspecting[q] /\ sample'[q] = sample[q])
  <2>1. /\ inspecting' = [r \in Rs |-> IF Freed(inspecting, r) THEN None ELSE inspecting[r]]
        /\ sample' = [r \in Rs |-> IF Freed(inspecting, r) THEN "running" ELSE sample[r]]
        /\ finalizing' = [r \in Rs |-> IF Freed(finalizing, r) THEN None ELSE finalizing[r]]
        /\ closers' = closers \cup retired
    BY DEF CloseNonblocking
  <2>2. /\ inspecting \in [Rs -> Tasks \cup {None}] /\ sample \in [Rs -> Jobs]
        /\ finalizing \in [Rs -> Tasks \cup {None}] /\ closers \subseteq Rs
    BY <1>0 DEF TypeOK
  <2>3. "running" \in Jobs /\ retired \subseteq Rs BY DEF Jobs
  <2> HIDE DEF Freed, retired
  <2> QED BY <2>1, <2>2, <2>3
<1>9. UNCHANGED <<job, stopLock, marked, astray, reg, control, faults>> BY DEF CloseNonblocking
<1>10. TypeOK' BY <1>0, <1>5, <1>7, <1>8, <1>9 DEF TypeOK, control
<1>11. TasksInv'
  <2>1. \A q \in Rs : row'[q].known = row[q].known BY <1>7 DEF SameIdentity
  <2>2. "loop" \in Stoppers /\ \A s \in Stoppers : s \in {"loop", "runner"} BY DEF Stoppers
  <2>3. "ended" \in StopperPCs /\ "ended" \notin Busy \cup Stopping \cup {"waiting"}
        /\ Stopping \subseteq Busy
    BY DEF StopperPCs, Busy, Stopping
  <2> QED BY <1>0, <1>2, <1>6, <2>1, <2>2, <2>3 DEF TasksInv
<1>12. KnownInv'
  <2>1. \A q \in Rs : ~row[q].known => ~row'[q].terminal /\ task'[q].pc = "none"
    BY <1>0, <1>2, <1>6, <1>7 DEF KnownInv
  <2> QED BY <1>0, <1>7, <1>9, <2>1, KnownStep DEF KnownInv, Unanswered, control
<1>13. \A s \in Stoppers : s \in {"loop", "runner"} BY DEF Stoppers
<1> QED BY <1>2, <1>6, <1>7, <1>8, <1>10, <1>11, <1>12, <1>13 DEF TypeInv

LEMMA CrashAndReopenTypes ==
  ASSUME TypeInv, CrashAndReopen
  PROVE  /\ TypeInv' /\ \A s \in Stoppers : task'[s].pc = "idle"
         /\ \A q \in Rs : task'[q].pc = IF Pending(q) THEN "start" ELSE "none"
         /\ \A q \in Rs : inspecting'[q] = None
<1> DEFINE x(t) == IF t \in Rs THEN Idle(IF Pending(t) THEN "start" ELSE "none", t)
                   ELSE Idle("idle", None)
<1>0. TypeOK /\ TasksInv /\ KnownInv BY DEF TypeInv
<1>1. task' = [t \in Tasks |-> x(t)] BY DEF CrashAndReopen
<1>2. \A t \in Rs : /\ x(t) \in Task /\ x(t).on = t
                    /\ x(t).pc = IF Pending(t) THEN "start" ELSE "none"
  <2> TAKE t \in Rs
  <2> DEFINE pc == IF Pending(t) THEN "start" ELSE "none"
  <2>1. pc \in PCs /\ t \in Rs \cup {None} BY DEF PCs, MonitorPCs
  <2>2. Idle(pc, t) \in Task /\ Idle(pc, t).on = t /\ Idle(pc, t).pc = pc
    <3> HIDE DEF pc
    <3> QED BY <2>1, IdleTask
  <2> QED BY <2>2
<1>3. \A t \in Stoppers : x(t) \in Task /\ x(t).pc = "idle"
  <2> TAKE t \in Stoppers
  <2>1. "idle" \in PCs /\ None \in Rs \cup {None} /\ t \notin Rs BY Names DEF PCs, StopperPCs
  <2> QED BY <2>1, IdleTask
<1>4. \A t \in Tasks : task'[t] = x(t) BY <1>1
<1> HIDE DEF x
<1>5. task' \in [Tasks -> Task] BY <1>1, <1>2, <1>3 DEF Tasks
<1>6. /\ \A s \in Stoppers : task'[s].pc = "idle"
      /\ \A q \in Rs : task'[q].on = q /\ task'[q].pc = IF Pending(q) THEN "start" ELSE "none"
  BY <1>2, <1>3, <1>4, Names
<1>7. /\ inspecting' = [r \in Rs |-> None] /\ sample' = [r \in Rs |-> "running"]
      /\ finalizing' = [r \in Rs |-> None] /\ stopLock' = [r \in Rs |-> None]
      /\ marked' = [r \in Rs |-> FALSE] /\ closers' = {} /\ reg' = NoRegistration
      /\ orphans' \subseteq Rs /\ UNCHANGED <<row, job, astray, cancelling>>
      /\ faults' \in 0 .. MaxEvents
  <2>1. orphans \subseteq Rs BY <1>0 DEF TypeOK
  <2> QED BY <2>1, FaultTypes DEF CrashAndReopen
<1>8. action' \in Actions /\ action'.on = action.on /\ (Unanswered' => Unanswered)
  BY <1>0 DEF CrashAndReopen, TypeOK, Actions, Unanswered
<1>9. TypeOK'
  <2>1. reg' \in [on: Rs \cup {None}, old: Rs \cup {None}] BY <1>7 DEF NoRegistration
  <2> QED BY <1>0, <1>5, <1>7, <1>8, <2>1 DEF TypeOK, Jobs
<1>10. TasksInv' BY <1>6, Names DEF TasksInv, MonitorPCs, StopperPCs, Busy, Stopping
<1>11. KnownInv'
  <2>1. \A q \in Rs : ~row[q].known => ~Pending(q) BY DEF Pending
  <2>2. \A q \in Rs : ~row[q].known => ~row'[q].terminal /\ task'[q].pc = "none"
    BY <1>0, <1>6, <1>7, <2>1 DEF KnownInv
  <2> QED BY <1>0, <1>7, <1>8, <2>2, KnownStep, UnchangedRows DEF KnownInv
<1> QED BY <1>6, <1>7, <1>9, <1>10, <1>11 DEF TypeInv

-----------------------------------------------------------------------------
(* Types: registration.                                                    *)

LEMMA LifecycleTypes ==
  ASSUME NEW r \in Rs, NEW life \in Lifecycles[r]
  PROVE  life \in [monitor: BOOLEAN, blocking: BOOLEAN] /\ (life.blocking => life.monitor)
  BY LifecyclesAreValid

\* What a registration does to the rows and the tasks.
LEMMA RegisterParts ==
  ASSUME TypeInv, NEW r \in Rs, Register(r)
  PROVE  \E life \in Lifecycles[r], olds \in SUBSET (Rs \ {r}) :
           /\ \A q \in olds : q \in Keyed /\ ActiveRow(q)
           /\ r \in Keyed => \A q \in Keyed : ActiveRow(q) => q \in olds
           /\ ~row[r].known /\ task["runner"].pc = "idle" /\ reg = NoRegistration
           /\ row' \in [Rs -> Row]
           /\ row'[r].known /\ row'[r].life = life /\ row'[r].terminal = row[r].terminal
           /\ row'[r].status = row[r].status
           /\ \A q \in Rs \ {r} :
                /\ SameIdentity(row'[q], row[q]) /\ row'[q].terminal = row[q].terminal
                /\ row'[q].status = row[q].status
                /\ IF q \in olds THEN row'[q].closed /\ row'[q].disp = "superseded"
                   ELSE row'[q] = row[q]
           /\ UNCHANGED <<job, control, faults>>
           /\ \/ /\ olds = {} /\ UNCHANGED <<locks, stops, reg>>
                 /\ IF life.monitor THEN task' = Restarted(task, r) ELSE task' = task
              \/ \E q \in olds : /\ reg' = [on |-> r, old |-> q]
                                 /\ \/ Live(q) /\ CancelMonitor(q)
                                    \/ ~Live(q) /\ UNCHANGED <<task, locks, stops>>
<1>0. TypeOK /\ KnownInv /\ row \in [Rs -> Row] BY DEF TypeInv, TypeOK
<1>1. PICK life \in Lifecycles[r] :
       LET olds == {q \in Keyed : r \in Keyed /\ ActiveRow(q)}
           new == [row[r] EXCEPT !.known = TRUE, !.life = life]
           stays == olds = {}
       IN /\ row' = [q \in Rs |->
                      IF q = r THEN [new EXCEPT !.closed = stays /\ ~life.monitor]
                      ELSE IF q \in olds
                           THEN [row[q] EXCEPT !.disp = "superseded", !.closed = TRUE,
                                               !.fresh = FALSE]
                           ELSE row[q]]
          /\ IF stays
             THEN /\ task' = IF life.monitor THEN Restarted(task, r) ELSE task
                  /\ UNCHANGED <<locks, stops, reg>>
             ELSE \E q \in olds :
                    /\ reg' = [on |-> r, old |-> q]
                    /\ IF Live(q) THEN CancelMonitor(q)
                       ELSE UNCHANGED <<task, locks, stops>>
  BY DEF Register
<1> DEFINE olds == {q \in Keyed : r \in Keyed /\ ActiveRow(q)}
           new == [row[r] EXCEPT !.known = TRUE, !.life = life]
           c == olds = {} /\ ~life.monitor
           x == [new EXCEPT !.closed = c]
           y(q) == [row[q] EXCEPT !.disp = "superseded", !.closed = TRUE, !.fresh = FALSE]
<1>2. /\ ~row[r].known /\ task["runner"].pc = "idle" /\ reg = NoRegistration
      /\ UNCHANGED <<job, control, faults>>
  BY DEF Register
<1>3. /\ olds \in SUBSET (Rs \ {r}) /\ \A q \in olds : q \in Keyed /\ ActiveRow(q)
      /\ r \in Keyed => \A q \in Keyed : ActiveRow(q) => q \in olds
  BY <1>2, KeyedAreResources DEF ActiveRow
<1>4. life \in [monitor: BOOLEAN, blocking: BOOLEAN] BY LifecycleTypes
<1>5. row' = [q \in Rs |-> IF q = r THEN x ELSE IF q \in olds THEN y(q) ELSE row[q]]
  BY <1>1
<1>6. \/ /\ olds = {} /\ UNCHANGED <<locks, stops, reg>>
         /\ IF life.monitor THEN task' = Restarted(task, r) ELSE task' = task
      \/ \E q \in olds : /\ reg' = [on |-> r, old |-> q]
                         /\ \/ Live(q) /\ CancelMonitor(q)
                            \/ ~Live(q) /\ UNCHANGED <<task, locks, stops>>
  BY <1>1
<1>7. c \in BOOLEAN OBVIOUS
<1> HIDE DEF c
<1>8. /\ x \in Row /\ x.known /\ x.life = life /\ x.terminal = row[r].terminal
      /\ x.status = row[r].status
  BY <1>0, <1>4, <1>7 DEF Row
<1>9. \A q \in Rs : /\ y(q) \in Row /\ y(q).closed /\ y(q).disp = "superseded"
                    /\ SameIdentity(y(q), row[q]) /\ y(q).terminal = row[q].terminal
                    /\ y(q).status = row[q].status
  BY <1>0 DEF Row, Disposition, SameIdentity
<1> HIDE DEF x, y, olds
<1>10. row' \in [Rs -> Row] /\ row'[r] = x
       /\ \A q \in Rs \ {r} : row'[q] = IF q \in olds THEN y(q) ELSE row[q]
  BY <1>0, <1>5, <1>8, <1>9
<1>11. \A q \in Rs \ {r} :
                /\ SameIdentity(row'[q], row[q]) /\ row'[q].terminal = row[q].terminal
                /\ row'[q].status = row[q].status
                /\ IF q \in olds THEN row'[q].closed /\ row'[q].disp = "superseded"
                   ELSE row'[q] = row[q]
  BY <1>9, <1>10 DEF SameIdentity
<1> QED BY <1>2, <1>3, <1>6, <1>8, <1>10, <1>11

LEMMA RegisterTypes ==
  ASSUME TypeInv, NEW r \in Rs, Register(r) PROVE TypeInv'
<1>0. TypeOK /\ TasksInv /\ KnownInv /\ task \in [Tasks -> Task] BY DEF TypeInv, TypeOK
<1>1. PICK life \in Lifecycles[r], olds \in SUBSET (Rs \ {r}) :
           /\ \A q \in olds : q \in Keyed /\ ActiveRow(q)
           /\ r \in Keyed => \A q \in Keyed : ActiveRow(q) => q \in olds
           /\ ~row[r].known /\ task["runner"].pc = "idle" /\ reg = NoRegistration
           /\ row' \in [Rs -> Row]
           /\ row'[r].known /\ row'[r].life = life /\ row'[r].terminal = row[r].terminal
           /\ row'[r].status = row[r].status
           /\ \A q \in Rs \ {r} :
                /\ SameIdentity(row'[q], row[q]) /\ row'[q].terminal = row[q].terminal
                /\ row'[q].status = row[q].status
                /\ IF q \in olds THEN row'[q].closed /\ row'[q].disp = "superseded"
                   ELSE row'[q] = row[q]
           /\ UNCHANGED <<job, control, faults>>
           /\ \/ /\ olds = {} /\ UNCHANGED <<locks, stops, reg>>
                 /\ IF life.monitor THEN task' = Restarted(task, r) ELSE task' = task
              \/ \E q \in olds : /\ reg' = [on |-> r, old |-> q]
                                 /\ \/ Live(q) /\ CancelMonitor(q)
                                    \/ ~Live(q) /\ UNCHANGED <<task, locks, stops>>
  BY RegisterParts
<1>2. \A q \in Rs : row[q].known => row'[q].known
  BY <1>1 DEF SameIdentity
<1>3. task[r].on = r /\ task[r].pc = "none" /\ r \in Tasks BY <1>0, <1>1, Names DEF TasksInv, KnownInv
<1> DEFINE Typed ==
             /\ task' \in [Tasks -> Task] /\ \A s \in Stoppers : task'[s] = task[s]
             /\ \A q \in Rs : task'[q].on = q /\ task'[q].pc \in MonitorPCs
             /\ \A q \in Rs \ {r} : task[q].pc = "none" => task'[q].pc = "none"
             /\ inspecting' \in [Rs -> Tasks \cup {None}] /\ sample' \in [Rs -> Jobs]
             /\ finalizing' \in [Rs -> Tasks \cup {None}]
             /\ UNCHANGED <<stopLock, marked, astray>> /\ closers' \subseteq Rs
             /\ reg' \in [on: Rs \cup {None}, old: Rs \cup {None}]
             /\ reg' # NoRegistration => reg'.on = r /\ reg'.old \in Rs
<1>4. Typed
  <2>1. ASSUME olds = {}, UNCHANGED <<locks, stops, reg>>,
               IF life.monitor THEN task' = Restarted(task, r) ELSE task' = task
        PROVE  Typed
    <3>1. /\ task' \in [Tasks -> Task] /\ task'[r].on = r /\ task'[r].pc \in {"start", "none"}
          /\ \A u \in Tasks \ {r} : task'[u] = task[u]
      BY <1>0, <1>3, <2>1, RestartedTask
    <3>2. \A s \in Stoppers : task'[s] = task[s] BY <3>1, Names
    <3>3. \A q \in Rs \ {r} : task'[q] = task[q] BY <3>1, Names
    <3> QED BY <1>0, <1>1, <2>1, <3>1, <3>2, <3>3 DEF TypeOK, locks, stops, TasksInv, MonitorPCs
  <2>2. ASSUME NEW q \in olds, reg' = [on |-> r, old |-> q]
        PROVE  /\ reg' \in [on: Rs \cup {None}, old: Rs \cup {None}]
               /\ reg'.on = r /\ reg'.old \in Rs
    BY <2>2
  <2>3. ASSUME NEW q \in olds, reg' = [on |-> r, old |-> q], Live(q), CancelMonitor(q)
        PROVE  Typed
    <3>0. q \in Rs /\ q # r /\ row[q].known BY <1>1 DEF ActiveRow
    <3>1. ReleaseBoth(q, q) /\ UNCHANGED <<stopLock, marked, astray>>
          /\ MonitorEnds(q, [row[q] EXCEPT !.closed = TRUE])
      BY <2>3 DEF CancelMonitor
    <3>2. task[q].pc # "none" BY <2>3 DEF Live
    <3>3. /\ task' \in [Tasks -> Task] /\ closers' \subseteq Rs
          /\ task'[q].on = task[q].on /\ task'[q].pc \in {"none", "done"}
          /\ \A u \in Tasks \ {q} : task'[u] = task[u]
      BY <3>0, <3>1, <3>2, MonitorEndsTypes
    <3>4. \A p \in Rs : task'[p].on = p /\ task'[p].pc \in MonitorPCs
      BY <1>0, <3>3, Names DEF TasksInv, MonitorPCs
    <3>5. /\ inspecting' \in [Rs -> Tasks \cup {None}] /\ sample' \in [Rs -> Jobs]
          /\ finalizing' \in [Rs -> Tasks \cup {None}]
      BY <1>0, <3>0, <3>1, ReleaseBothTypes
    <3>6. /\ \A s \in Stoppers : task'[s] = task[s]
          /\ \A p \in Rs \ {r} : task[p].pc = "none" => task'[p].pc = "none"
      BY <3>0, <3>2, <3>3, Names
    <3> QED BY <2>2, <2>3, <3>1, <3>3, <3>4, <3>5, <3>6
  <2>4. ASSUME NEW q \in olds, reg' = [on |-> r, old |-> q], UNCHANGED <<task, locks, stops>>
        PROVE  Typed
    <3>1. UNCHANGED <<task, inspecting, sample, finalizing, stopLock, marked, closers, astray>>
      BY <2>4 DEF locks, stops
    <3> QED BY <1>0, <2>2, <2>4, <3>1 DEF TypeOK, TasksInv
  <2> HIDE DEF Typed
  <2> QED BY <1>1, <2>1, <2>3, <2>4
<1>5. TypeOK' BY <1>0, <1>1, <1>4 DEF TypeOK, control
<1>6. TasksInv'
  <2>1. task'["runner"].pc = "idle" BY <1>1, <1>4, Names
  <2>2. Stopping \subseteq Busy BY DEF Busy
  <2> QED BY <1>0, <1>2, <1>4, <2>1, <2>2 DEF TasksInv
<1>7. KnownInv'
  <2>1. KnownIds' = KnownIds \cup {r}
    BY <1>1 DEF KnownIds, SameIdentity
  <2>2. IsFiniteSet(KnownIds') BY <1>0, <2>1, FS_AddElement DEF KnownInv
  <2>3. \A q \in Rs : ~row'[q].known => ~row'[q].terminal /\ task'[q].pc = "none"
    BY <1>0, <1>1, <1>4 DEF KnownInv, SameIdentity
  <2>4. \A q \in Rs : row'[q].known => row'[q].life \in Lifecycles[q]
    BY <1>0, <1>1 DEF KnownInv, SameIdentity
  <2> QED BY <1>0, <1>1, <1>4, <2>2, <2>3, <2>4 DEF KnownInv, Unanswered, control
<1> QED BY <1>5, <1>6, <1>7 DEF TypeInv
\* What the end of a registration does to the rows and the tasks.
LEMMA RegisterEndsParts ==
  ASSUME TypeInv, RegisterEnds
  PROVE  /\ reg.on \in Rs /\ reg.old \in Rs /\ row[reg.on].known
         /\ task' \in [Tasks -> Task]
         /\ \A q \in Rs \ {reg.on} : task'[q] = task[q]
         /\ task'[reg.on].on = reg.on
         /\ task'[reg.on] = task[reg.on] \/ task'[reg.on].pc = "start"
         /\ row[reg.on].life.monitor => task'[reg.on].pc \notin {"none", "done"}
         /\ \A s \in Stoppers : /\ task'[s].on = task[s].on
                                /\ task'[s].confirmed = task[s].confirmed
                                /\ \/ task'[s].pc = task[s].pc
                                   \/ /\ task[s].pc = "queued" /\ task'[s].pc = "adrift"
                                      /\ task[s].on = reg.old /\ Prune(reg.old)
         /\ \/ Retirable(reg.old, row[reg.old]) /\ Prune(reg.old)
            \/ UNCHANGED <<stopLock, marked, astray>>
         /\ \E closed \in BOOLEAN :
              /\ row' = [row EXCEPT ![reg.on] = [row[reg.on] EXCEPT !.closed = closed]]
              /\ row[reg.on].closed => closed
         /\ reg' = NoRegistration
         /\ UNCHANGED <<job, locks, closers, control, faults>>
<1> DEFINE r == reg.on
           prunes == Retirable(reg.old, row[reg.old])
           left == IF prunes THEN Pruned(reg.old) ELSE task
           c == row[r].closed \/ ~row[r].life.monitor
<1>0. TypeOK /\ TasksInv /\ KnownInv /\ task \in [Tasks -> Task] /\ row \in [Rs -> Row]
  BY DEF TypeInv, TypeOK
<1>1. r \in Rs /\ reg.old \in Rs /\ row[r].known /\ r \in Tasks /\ row[r] \in Row
  BY <1>0, Names DEF RegisterEnds, KnownInv
<1>2. /\ left \in [Tasks -> Task] /\ \A q \in Rs : left[q] = task[q]
      /\ \A s \in Stoppers : /\ left[s].on = task[s].on
                             /\ left[s].confirmed = task[s].confirmed
                             /\ \/ left[s].pc = task[s].pc
                                \/ /\ task[s].pc = "queued" /\ left[s].pc = "adrift"
                                   /\ task[s].on = reg.old /\ prunes
  <2>1. CASE prunes BY <1>0, <1>1, <2>1, PrunedTask
  <2>2. CASE ~prunes BY <1>0, <2>2
  <2> QED BY <2>1, <2>2
<1>3. /\ task' = IF row[r].life.monitor THEN Restarted(left, r) ELSE left
      /\ IF prunes THEN Prune(reg.old) ELSE UNCHANGED <<stopLock, marked, astray>>
      /\ reg' = NoRegistration /\ UNCHANGED <<job, locks, closers, control, faults>>
  BY DEF RegisterEnds
<1>4. row' = [row EXCEPT ![r] = [row[r] EXCEPT !.closed = c]]
  <2>1. row' = [row EXCEPT ![r].closed = @ \/ ~row[r].life.monitor] BY DEF RegisterEnds
  <2> QED BY <1>0, <1>1, <2>1
<1>5. c \in BOOLEAN /\ (row[r].closed => c) BY <1>1 DEF Row
<1> HIDE DEF left, prunes, c
<1>6. task[r].on = r /\ left[r] = task[r] BY <1>0, <1>1, <1>2 DEF TasksInv
<1>7. /\ task' \in [Tasks -> Task] /\ task'[r].on = r
      /\ task'[r] = task[r] \/ task'[r].pc = "start"
      /\ row[r].life.monitor => task'[r].pc \notin {"none", "done"}
      /\ \A u \in Tasks \ {r} : task'[u] = left[u]
  <2>1. CASE row[r].life.monitor
    <3>1. /\ task' \in [Tasks -> Task] /\ task'[r].on = r
          /\ task[r].pc \in {"none", "done"} => task'[r].pc = "start"
          /\ task[r].pc \notin {"none", "done"} => task' = left
          /\ \A u \in Tasks \ {r} : task'[u] = left[u]
      BY <1>1, <1>2, <1>3, <1>6, <2>1, RestartedTask
    <3> QED BY <1>6, <3>1
  <2>2. CASE ~row[r].life.monitor BY <1>2, <1>3, <1>6, <2>2
  <2> QED BY <2>1, <2>2
<1>8. \A q \in Rs \ {r} : task'[q] = task[q] BY <1>2, <1>7, Names
<1>9. \A s \in Stoppers : task'[s] = left[s] BY <1>1, <1>7, Names
<1>10. \/ Retirable(reg.old, row[reg.old]) /\ Prune(reg.old)
       \/ UNCHANGED <<stopLock, marked, astray>>
  BY <1>3 DEF prunes
<1>11. \E closed \in BOOLEAN :
         /\ row' = [row EXCEPT ![r] = [row[r] EXCEPT !.closed = closed]]
         /\ row[r].closed => closed
  BY <1>4, <1>5
<1>12. \A s \in Stoppers : /\ task'[s].on = task[s].on
                           /\ task'[s].confirmed = task[s].confirmed
                           /\ \/ task'[s].pc = task[s].pc
                              \/ /\ task[s].pc = "queued" /\ task'[s].pc = "adrift"
                                 /\ task[s].on = reg.old /\ Prune(reg.old)
  BY <1>2, <1>3, <1>9
<1> QED BY <1>1, <1>3, <1>7, <1>8, <1>10, <1>11, <1>12

LEMMA RegisterEndsTypes ==
  ASSUME TypeInv, RegisterEnds PROVE TypeInv'
<1> DEFINE r == reg.on
<1>0. TypeOK /\ TasksInv /\ KnownInv /\ row \in [Rs -> Row] BY DEF TypeInv, TypeOK
<1>1. PICK closed \in BOOLEAN : row' = [row EXCEPT ![r] = [row[r] EXCEPT !.closed = closed]]
  BY RegisterEndsParts
<1>2. r \in Rs /\ row[r].known BY RegisterEndsParts
<1>3. [row[r] EXCEPT !.closed = closed] \in Row
      /\ SameIdentity([row[r] EXCEPT !.closed = closed], row[r])
  BY <1>0, <1>2, ClosedRow
<1>4. /\ row' \in [Rs -> Row] /\ \A q \in Rs : SameIdentity(row'[q], row[q])
      /\ \A q \in Rs : row'[q].known = row[q].known
      /\ \A q \in Rs : ~row[q].known => ~row'[q].terminal
  BY <1>1, <1>2, <1>3, RowReplaced
<1>5. /\ stopLock' \in [Rs -> Stoppers \cup {None}] /\ marked' \in [Rs -> BOOLEAN]
      /\ astray' \subseteq Rs
  BY <1>0, RegisterEndsParts, PruneTypes DEF TypeOK
<1>6. reg' \in [on: Rs \cup {None}, old: Rs \cup {None}]
  BY RegisterEndsParts DEF NoRegistration
<1>7. TypeOK' BY <1>0, <1>4, <1>5, <1>6, RegisterEndsParts DEF TypeOK, locks, control
<1>8. \A q \in Rs : /\ task'[q].on = q /\ task'[q].pc \in MonitorPCs
                    /\ q # r => task'[q] = task[q]
  <2> TAKE q \in Rs
  <2>1. CASE q = r BY <1>0, <2>1, RegisterEndsParts DEF TasksInv, MonitorPCs
  <2>2. CASE q # r BY <1>0, <2>2, RegisterEndsParts DEF TasksInv
  <2> QED BY <2>1, <2>2
<1>9. TasksInv'
  <2>1. ASSUME NEW s \in Stoppers
        PROVE  /\ task'[s].pc \in StopperPCs
               /\ task'[s].pc \in Busy => task'[s].on \in Rs
               /\ task'[s].pc \in Stopping => row'[task'[s].on].known
    <3>1. /\ task'[s].on = task[s].on
          /\ \/ task'[s].pc = task[s].pc
             \/ task[s].pc = "queued" /\ task'[s].pc = "adrift"
      BY RegisterEndsParts
    <3> QED BY <1>0, <1>4, <3>1 DEF TasksInv, StopperPCs, Busy, Stopping
  <2>2. reg' = NoRegistration BY RegisterEndsParts
  <2> QED BY <1>8, <2>1, <2>2 DEF TasksInv
<1>10. KnownInv'
  <2>1. \A q \in Rs : ~row[q].known => ~row'[q].terminal /\ task'[q].pc = "none"
    BY <1>0, <1>2, <1>4, <1>8 DEF KnownInv
  <2>2. reg' = NoRegistration /\ UNCHANGED action BY RegisterEndsParts DEF control
  <2> QED BY <1>0, <1>4, <2>1, <2>2, KnownStep DEF KnownInv, Unanswered
<1> QED BY <1>7, <1>9, <1>10 DEF TypeInv

LEMMA PollFailsTypes ==
  ASSUME TypeInv, NEW r \in Rs, PollFails(r) PROVE TypeInv'
<1>1. PICK errs \in Nat, gives \in BOOLEAN, w \in {Noted(r), GivenUp(r)} :
           /\ task[r].pc = "poll" /\ inspecting[r] = r /\ row' = [row EXCEPT ![r] = w]
           /\ gives => row[r].status # "stopping"
           /\ w = GivenUp(r) => (gives /\ Allowed(r, GivenUp(r))) \/ GivenUp(r) = Noted(r)
           /\ gives => w = GivenUp(r) \/ ~Allowed(r, GivenUp(r))
           /\ task' = [task EXCEPT ![r].errs = errs,
                                   ![r].pc = IF gives THEN "finalize" ELSE "sleep"]
           /\ EndInspection(r) /\ faults' \in 0 .. MaxEvents
           /\ UNCHANGED <<job, finalizing, stops, reg, control>>
  BY PollFailsParts
<1>2. row[r] \in Row BY DEF TypeInv, TypeOK
<1>3. w \in Row /\ SameIdentity(w, row[r]) BY <1>2, NotedRow, GivenUpRow
<1>4. PICK pc \in {"finalize", "sleep"} : task' = [task EXCEPT ![r].errs = errs, ![r].pc = pc]
  BY <1>1
<1> QED BY <1>1, <1>3, <1>4, PollTypes

-----------------------------------------------------------------------------
(* Types: every step.                                                      *)

LEMMA UnchangedTypes ==
  ASSUME TypeInv, UNCHANGED vars PROVE TypeInv'
<1>1. UNCHANGED <<row, job, task, inspecting, sample, finalizing, stopLock, marked, closers,
                  astray, reg, action, cancelling, orphans, faults>>
  BY DEF vars, locks, stops, control
<1>2. TypeOK' BY <1>1 DEF TypeInv, TypeOK
<1>3. TasksInv' BY <1>1 DEF TypeInv, TasksInv
<1>4. KnownInv' BY <1>1, KnownStep, UnchangedRows DEF TypeInv, KnownInv, Unanswered
<1> QED BY <1>2, <1>3, <1>4 DEF TypeInv

LEMMA NextTypes ==
  ASSUME TypeInv, [Next]_vars PROVE TypeInv'
<1>1. ASSUME NEW r \in Rs, JobEnds(r) \/ Register(r) \/ Reconcile(r) \/ AdapterCloses(r)
                           \/ RequestStop(r)
      PROVE  TypeInv'
  BY <1>1, JobEndsTypes, RegisterTypes, ReconcileTypes, AdapterClosesTypes, RequestStopTypes
<1>2. ASSUME NEW t \in Tasks, TaskStep(t) PROVE TypeInv'
  BY <1>2, BeginInspectionTypes, FinalizeSkipsTypes, FinalizeStartsTypes, FinalizeEndsTypes
  DEF TaskStep
<1>3. ASSUME NEW r \in Rs, MonitorStep(r) PROVE TypeInv'
  BY <1>2, <1>3, MonitorWakesTypes, PollEndsTypes, PollFailsTypes, Names DEF MonitorStep
<1>4. ASSUME NEW s \in Stoppers, StopStep(s) PROVE TypeInv'
  BY <1>2, <1>4, StopDequeuedTypes, CheckEndsTypes, AskEndsTypes, AskFailsTypes,
     WatchEndsTypes, StopWakesTypes, StopReturnsTypes, CascadeStopsTypes, CascadeEndsTypes,
     Names DEF StopStep
<1>5. ASSUME NEW s \in Stoppers, BeginCascade(s) \/ StopTimesOut(s) PROVE TypeInv'
  BY <1>5, BeginCascadeTypes, StopTimesOutTypes
<1>6. RegisterEnds \/ ClaimAction \/ RunnerWaits \/ WaitEnds \/ CloseNonblocking
        \/ CrashAndReopen => TypeInv'
  BY RegisterEndsTypes, ClaimActionTypes, RunnerMovesTypes, CloseNonblockingTypes,
     CrashAndReopenTypes
<1> QED BY <1>1, <1>3, <1>4, <1>5, <1>6, UnchangedTypes DEF Next

LEMMA TypeInvHolds == Spec => []TypeInv
<1>1. Init => TypeInv BY InitTypes
<1>2. TypeInv /\ [Next]_vars => TypeInv' BY NextTypes
<1> QED BY <1>1, <1>2, PTL DEF Spec

\* The rows of the table, the manager's tasks and its locks always have their
\* types: a stop works on a registered resource, the monitor of a resource on
\* that resource, and only a stop ever holds a stop lock.
THEOREM TypeCorrect == Spec => []TypeOK
<1>1. TypeInv => TypeOK BY DEF TypeInv
<1> QED BY <1>1, TypeInvHolds, PTL
-----------------------------------------------------------------------------
(* What is known of a resource while its stop lock was never thrown away.  *)

\* The job has ended and every inspection under way will say so.
Sure(r) == job[r] = "completed" /\ (inspecting[r] # None => sample[r] = "completed")
\* The row is one that a monitor gave up.
Guessed(r) == row[r].closed /\ row[r].status \in {"failed", "monitor_error"}

AllBlocking(r) == \A life \in Lifecycles[r] : life.blocking

\* A stop holds the lock from its request until it gives up or finalizes: the
\* row says STOPPING, or that the job has ended.
StopPart(r) ==
  \A s \in Stoppers : InStop(s, r) =>
    /\ stopLock[r] = s
    /\ row[r].terminal => Sure(r)
    /\ row[r].terminal \/ row[r].status = "stopping"
    /\ task[s].pc \in {"finalize", "last"} => row[r].terminal

\* What a terminal row rests on; a monitor finalizes only such a row.
EndedPart(r) ==
  /\ row[r].terminal => Sure(r) \/ Guessed(r)
  /\ task[r].pc \in {"finalize", "last"} => row[r].terminal

\* A monitor polls what is active, or has ended meanwhile.
PollPart(r) == task[r].pc = "poll" => ActiveRow(r) \/ row[r].terminal

\* What blocks the end of the run has a monitor, but for one whose registration
\* is still ending and one that a restored process found STOPPING.
WatchPart(r) ==
  r \notin orphans /\ AllBlocking(r) /\ ActiveRow(r) /\ ~Settled(r) /\ r # reg.on => Live(r)

ResourceInv(r) ==
  r \notin astray => StopPart(r) /\ EndedPart(r) /\ PollPart(r) /\ WatchPart(r)

\* A completed sample is true, a recovered action that needs no stop is only
\* finalized, who waits for a lock that was thrown away is known, and one row
\* is active for a logical key.
SampleInv == \A r \in Rs : sample[r] = "completed" => job[r] = "completed"
Unsettled == (Stopping \ {"finalize", "last"}) \cup {"queued", "adrift", "cascade"}
ConfirmedInv == \A s \in Stoppers : task[s].pc \in Unsettled => ~task[s].confirmed
AdriftInv == \A s \in Stoppers : task[s].pc = "adrift" => task[s].on \in astray
KeyInv == \A p, q \in Keyed : ActiveRow(p) /\ ActiveRow(q) => p = q

StopInv ==
  /\ TypeInv /\ SampleInv /\ ConfirmedInv /\ AdriftInv /\ KeyInv
  /\ \A r \in Rs : ResourceInv(r)

\* Inspections and samples, at every step: one that is under way goes on, ends,
\* or begins with the job as it is.
InspectStep(r) ==
  /\ job'[r] = job[r] \/ job'[r] = "completed"
  /\ \/ inspecting'[r] = None
     \/ inspecting'[r] = inspecting[r] /\ sample'[r] = sample[r]
     \/ sample'[r] = job[r] /\ job' = job
  /\ sample'[r] \in {"running", sample[r], job[r]}

LEMMA Inspecting ==
  ASSUME NEW r \in Rs, InspectStep(r), sample[r] = "completed" => job[r] = "completed"
  PROVE  /\ Sure(r) => Sure(r)'
         /\ sample'[r] = "completed" => job'[r] = "completed"
  BY DEF InspectStep, Sure

\* An inspection that saw the end of the job leaves nothing that would say
\* otherwise.
LEMMA SureAfterwards ==
  ASSUME NEW r \in Rs, inspecting'[r] = None, job' = job, job[r] = "completed"
  PROVE  Sure(r)'
  BY DEF Sure

LEMMA ReleaseSteps ==
  ASSUME TypeOK, NEW r \in Rs, NEW t, job' = job,
         \/ ReleaseBoth(r, t)
         \/ inspecting' = Release(inspecting, r, t) /\ sample' = [sample EXCEPT ![r] = "running"]
              /\ inspecting[r] = t
  PROVE  /\ \A q \in Rs : InspectStep(q)
         /\ inspecting[r] = t => inspecting'[r] = None
<1>1. inspecting \in [Rs -> Tasks \cup {None}] /\ sample \in [Rs -> Jobs] BY DEF TypeOK
<1>2. CASE ReleaseBoth(r, t)
  <2>1. /\ inspecting' = [inspecting EXCEPT ![r] = IF inspecting[r] = t THEN None ELSE inspecting[r]]
        /\ sample' = [sample EXCEPT ![r] = IF inspecting[r] = t THEN "running" ELSE sample[r]]
    BY <1>1, <1>2 DEF ReleaseBoth, Release
  <2> QED BY <1>1, <2>1 DEF InspectStep
<1>3. CASE /\ inspecting' = Release(inspecting, r, t) /\ inspecting[r] = t
           /\ sample' = [sample EXCEPT ![r] = "running"]
  <2>1. inspecting' = [inspecting EXCEPT ![r] = None]
    BY <1>1, <1>3 DEF Release
  <2> QED BY <1>1, <1>3, <2>1 DEF InspectStep
<1> QED BY <1>2, <1>3

LEMMA UnchangedInspections ==
  ASSUME UNCHANGED <<job, locks>> PROVE \A r \in Rs : InspectStep(r)
  BY DEF InspectStep, locks
LEMMA InspectionEnds ==
  ASSUME TypeInv, NEW t \in Tasks, NEW pc \in Inspections, Holds(t, pc), EndInspection(t), job' = job
  PROVE  /\ \A q \in Rs : InspectStep(q)
         /\ task[t].on \in Rs /\ inspecting[task[t].on] = t /\ inspecting'[task[t].on] = None
<1>1. task[t].on \in Rs BY AtWork DEF Holds
<1>2. /\ inspecting[task[t].on] = t /\ inspecting' = Release(inspecting, task[t].on, t)
      /\ sample' = [sample EXCEPT ![task[t].on] = "running"]
  BY DEF Holds, EndInspection
<1> QED BY <1>1, <1>2, ReleaseSteps DEF TypeInv

LEMMA TaskInspections ==
  ASSUME TypeInv, NEW t \in Tasks, TaskStep(t) PROVE \A q \in Rs : InspectStep(q)
<1>1. CASE BeginInspection(t)
  <2>1. /\ task[t].on \in Rs /\ inspecting' = [inspecting EXCEPT ![task[t].on] = t]
        /\ sample' = [sample EXCEPT ![task[t].on] = job[task[t].on]] /\ job' = job
    BY <1>1, AtWork DEF BeginInspection
  <2> QED BY <2>1 DEF InspectStep, TypeInv, TypeOK
<1>2. CASE FinalizeSkips(t) BY <1>2, UnchangedInspections DEF FinalizeSkips
<1>3. CASE FinalizeStarts(t) BY <1>3 DEF FinalizeStarts, InspectStep
<1>4. CASE FinalizeEnds(t)
  <2>1. ReleaseBoth(task[t].on, t) /\ job' = job BY <1>4 DEF FinalizeEnds
  <2>2. task[t].on \in Rs BY <1>4, AtWork DEF FinalizeEnds, Holds, Inspections
  <2> QED BY <2>1, <2>2, ReleaseSteps DEF TypeInv
<1> QED BY <1>1, <1>2, <1>3, <1>4 DEF TaskStep

LEMMA RegisterInspections ==
  ASSUME TypeInv, NEW r \in Rs, Register(r) PROVE \A q \in Rs : InspectStep(q)
<1>1. job' = job BY DEF Register
<1>2. CASE UNCHANGED locks BY <1>1, <1>2, UnchangedInspections
<1>3. CASE ~UNCHANGED locks
  <2>1. PICK q \in Rs : CancelMonitor(q) BY <1>3, KeyedAreResources DEF Register
  <2>2. ReleaseBoth(q, q) BY <2>1 DEF CancelMonitor
  <2> QED BY <1>1, <2>2, ReleaseSteps DEF TypeInv
<1> QED BY <1>2, <1>3

LEMMA CloseInspections ==
  ASSUME TypeInv, CloseNonblocking PROVE \A q \in Rs : InspectStep(q)
<1> DEFINE closed == {r \in Rs : ~row[r].life.blocking /\ task[r].pc # "none"}
           Freed(lock, r) == r \in closed /\ lock[r] = r
<1>1. /\ inspecting' = [r \in Rs |-> IF Freed(inspecting, r) THEN None ELSE inspecting[r]]
      /\ sample' = [r \in Rs |-> IF Freed(inspecting, r) THEN "running" ELSE sample[r]]
      /\ job' = job
  BY DEF CloseNonblocking
<1> QED BY <1>1 DEF InspectStep

LEMMA InspectSteps ==
  ASSUME TypeInv, [Next]_vars PROVE \A q \in Rs : InspectStep(q)
<1>1. ASSUME NEW r \in Rs, JobEnds(r) \/ Register(r) \/ Reconcile(r) \/ AdapterCloses(r)
                           \/ RequestStop(r)
      PROVE  \A q \in Rs : InspectStep(q)
  <2>1. CASE JobEnds(r)
    BY <2>1 DEF JobEnds, InspectStep, locks, TypeInv, TypeOK
  <2>2. CASE Reconcile(r) \/ AdapterCloses(r) \/ RequestStop(r)
    BY <2>2, UnchangedInspections DEF Reconcile, AdapterCloses, RequestStop
  <2> QED BY <1>1, <2>1, <2>2, RegisterInspections
<1>2. ASSUME NEW r \in Rs, MonitorStep(r) PROVE \A q \in Rs : InspectStep(q)
  <2>1. CASE MonitorWakes(r) BY <2>1, UnchangedInspections DEF MonitorWakes
  <2>2. CASE PollEnds(r) \/ PollFails(r)
    <3>1. Holds(r, "poll") /\ EndInspection(r) /\ job' = job
      BY <2>2 DEF PollEnds, PollFails
    <3> QED BY <3>1, InspectionEnds, Names DEF Inspections
  <2> QED BY <1>2, <2>1, <2>2, TaskInspections, Names DEF MonitorStep
<1>3. ASSUME NEW s \in Stoppers, StopStep(s) PROVE \A q \in Rs : InspectStep(q)
  <2>1. CASE CheckEnds(s)
    <3>1. Holds(s, "check") /\ EndInspection(s) /\ job' = job BY <2>1 DEF CheckEnds
    <3> QED BY <3>1, InspectionEnds, Names DEF Inspections
  <2>2. CASE WatchEnds(s)
    <3>1. Holds(s, "watch") /\ EndInspection(s) /\ job' = job BY <2>2 DEF WatchEnds
    <3> QED BY <3>1, InspectionEnds, Names DEF Inspections
  <2>3. CASE TaskStep(s) BY <2>3, TaskInspections, Names
  <2>4. CASE StopDequeued(s) \/ AskEnds(s) \/ AskFails(s) \/ StopWakes(s) \/ StopReturns(s)
               \/ CascadeStops(s) \/ CascadeEnds(s)
    <3>1. UNCHANGED <<job, locks>>
      BY <2>4 DEF StopDequeued, AskEnds, AskFails, StopWakes, StopReturns, CascadeStops, CascadeEnds
    <3> QED BY <3>1, UnchangedInspections
  <2> QED BY <1>3, <2>1, <2>2, <2>3, <2>4 DEF StopStep
<1>4. ASSUME NEW s \in Stoppers, BeginCascade(s) \/ StopTimesOut(s)
      PROVE  \A q \in Rs : InspectStep(q)
  <2>1. CASE BeginCascade(s) BY <2>1, UnchangedInspections DEF BeginCascade
  <2>2. CASE StopTimesOut(s)
    <3>1. ReleaseBoth(task[s].on, s) /\ job' = job /\ task[s].pc \in Stopping
      BY <2>2, StopTimesOutParts
    <3>2. task[s].on \in Rs BY <3>1 DEF TypeInv, TasksInv, Busy
    <3> QED BY <3>1, <3>2, ReleaseSteps DEF TypeInv
  <2> QED BY <1>4, <2>1, <2>2
<1>5. RegisterEnds \/ ClaimAction \/ RunnerWaits \/ WaitEnds => \A q \in Rs : InspectStep(q)
  BY UnchangedInspections DEF RegisterEnds, ClaimAction, RunnerWaits, WaitEnds
<1>6. CrashAndReopen => \A q \in Rs : InspectStep(q)
  BY DEF CrashAndReopen, InspectStep
<1>7. UNCHANGED vars => \A q \in Rs : InspectStep(q)
  BY UnchangedInspections DEF vars
<1> QED BY <1>1, <1>2, <1>3, <1>4, <1>5, <1>6, <1>7, CloseInspections DEF Next

\* What a step leaves alone of a resource, in the eyes of ResourceInv: it may
\* end what works on it, but begins nothing.
Quiet(r) ==
  /\ row'[r].status = row[r].status /\ row'[r].terminal = row[r].terminal
  /\ row[r].closed => row'[r].closed
  /\ ActiveRow(r)' => ActiveRow(r)
  /\ task'[r].pc \in {"finalize", "last"} =>
       task[r].pc \in {"finalize", "last"} \/ row[r].terminal
  /\ task'[r].pc = "poll" => \/ task[r].pc = "poll" /\ (ActiveRow(r) => ActiveRow(r)')
                             \/ ActiveRow(r)' \/ row[r].terminal
  /\ Live(r) /\ AllBlocking(r) /\ ActiveRow(r)' /\ ~Settled(r) => Live(r)'
  /\ reg.on = r /\ AllBlocking(r) => reg'.on = r \/ Live(r)'
  /\ \A s \in Stoppers : InStop(s, r)' =>
       /\ InStop(s, r)
       /\ task'[s].pc \in {"finalize", "last"} =>
            task[s].pc \in {"finalize", "last"} \/ row[r].terminal
  /\ \/ r \in astray' \/ stopLock'[r] = stopLock[r]
     \/ \A s \in Stoppers : ~InStop(s, r)'

LEMMA QuietKeeps ==
  ASSUME StopInv, NEW r \in Rs, Quiet(r), InspectStep(r),
         astray \subseteq astray', orphans \subseteq orphans'
  PROVE  ResourceInv(r)'
<1> SUFFICES ASSUME r \notin astray'
             PROVE  (StopPart(r) /\ EndedPart(r) /\ PollPart(r) /\ WatchPart(r))'
  BY DEF ResourceInv
<1>1. StopPart(r) /\ EndedPart(r) /\ PollPart(r) /\ WatchPart(r)
  BY DEF StopInv, ResourceInv
<1>2. Sure(r) => Sure(r)' BY Inspecting DEF StopInv, SampleInv
<1>3. StopPart(r)' BY <1>1, <1>2 DEF Quiet, StopPart
<1>4. EndedPart(r)' BY <1>1, <1>2 DEF Quiet, EndedPart, Guessed
<1>5. PollPart(r)' BY <1>1 DEF Quiet, PollPart
<1>6. WatchPart(r)'
  <2> SUFFICES ASSUME r \notin orphans', AllBlocking(r), ActiveRow(r)', ~Settled(r)', r # reg'.on
               PROVE  Live(r)'
    BY DEF WatchPart, AllBlocking
  <2>1. ActiveRow(r) /\ ~Settled(r) BY DEF Quiet, Settled
  <2>2. r = reg.on => Live(r)' BY DEF Quiet
  <2>3. r # reg.on => Live(r) BY <1>1, <2>1 DEF WatchPart
  <2> QED BY <2>1, <2>2, <2>3 DEF Quiet
<1> QED BY <1>3, <1>4, <1>5, <1>6

\* A step of one task leaves the other resources alone.
LEMMA QuietElsewhere ==
  ASSUME NEW q \in Rs, row'[q] = row[q], task'[q] = task[q],
         reg.on = q => reg'.on = q,
         NEW s, \A u \in Stoppers \ {s} : task'[u] = task[u],
         s \in Stoppers => task'[s].on # q \/ ~InStop(s, q)',
         stopLock'[q] = stopLock[q]
  PROVE  Quiet(q)
<1>1. ActiveRow(q)' = ActiveRow(q) BY DEF ActiveRow
<1>2. Live(q)' = Live(q) BY DEF Live
<1>3. \A u \in Stoppers : InStop(u, q)' => InStop(u, q) /\ task'[u] = task[u]
  BY DEF InStop
<1> QED BY <1>1, <1>2, <1>3 DEF Quiet
LEMMA Histories ==
  ASSUME [Next]_vars PROVE astray \subseteq astray' /\ orphans \subseteq orphans'
<1>1. ASSUME NEW r, Prune(r) PROVE astray \subseteq astray' BY <1>1 DEF Prune
<1>2. ASSUME NEW t, NEW w, AfterFinalize(t, w) PROVE astray' = astray
  BY <1>2 DEF AfterFinalize, StopEnds, stops
<1>3. ASSUME NEW t, TaskStep(t) PROVE astray' = astray /\ orphans' = orphans
  <2>1. CASE BeginInspection(t) \/ FinalizeStarts(t)
    BY <2>1 DEF BeginInspection, FinalizeStarts, stops, control
  <2>2. CASE FinalizeSkips(t) BY <1>2, <2>2 DEF FinalizeSkips, control
  <2>3. CASE FinalizeEnds(t) BY <1>2, <2>3 DEF FinalizeEnds, control
  <2> QED BY <1>3, <2>1, <2>2, <2>3 DEF TaskStep
<1>4. ASSUME NEW r, JobEnds(r) \/ Reconcile(r) \/ RequestStop(r)
      PROVE  astray' = astray /\ orphans' = orphans
  BY <1>4 DEF JobEnds, Reconcile, RequestStop, stops, control
<1>5. ASSUME NEW r, Register(r) PROVE astray' = astray /\ orphans' = orphans
  BY <1>5 DEF Register, CancelMonitor, stops, control
<1>6. ASSUME NEW r, AdapterCloses(r) PROVE astray \subseteq astray' /\ orphans' = orphans
  BY <1>1, <1>6 DEF AdapterCloses, control
<1>7. ASSUME NEW r, MonitorStep(r) PROVE astray' = astray /\ orphans' = orphans
  BY <1>3, <1>7 DEF MonitorStep, MonitorWakes, PollEnds, PollFails, stops, control
<1>8. ASSUME NEW s, StopStep(s) PROVE astray \subseteq astray' /\ orphans' = orphans
  <2>1. CASE StopReturns(s) BY <1>1, <2>1 DEF StopReturns
  <2>2. CASE StopDequeued(s) \/ CheckEnds(s) \/ AskEnds(s) \/ WatchEnds(s) \/ StopWakes(s)
               \/ CascadeEnds(s)
    BY <2>2 DEF StopDequeued, CheckEnds, AskEnds, WatchEnds, StopWakes, CascadeEnds, stops, control
  <2>3. CASE AskFails(s) BY <2>3 DEF AskFails, StopEnds, control
  <2>4. CASE CascadeStops(s) BY <2>4 DEF CascadeStops, StopResource, control
  <2> QED BY <1>3, <1>8, <2>1, <2>2, <2>3, <2>4 DEF StopStep
<1>9. ASSUME NEW s, BeginCascade(s) \/ StopTimesOut(s)
      PROVE  astray' = astray /\ orphans' = orphans
  BY <1>9 DEF BeginCascade, StopTimesOut, StopEnds, stops, control
<1>10. RegisterEnds => astray \subseteq astray' /\ orphans' = orphans
  BY <1>1 DEF RegisterEnds, control
<1>11. ClaimAction => astray' = astray /\ orphans' = orphans
  BY DEF ClaimAction, StopResource, stops
<1>12. RunnerWaits \/ WaitEnds \/ CloseNonblocking => astray' = astray /\ orphans' = orphans
  BY DEF RunnerWaits, WaitEnds, CloseNonblocking, stops, control
<1>13. CrashAndReopen => astray' = astray /\ orphans \subseteq orphans'
  BY DEF CrashAndReopen
<1>14. UNCHANGED vars => astray' = astray /\ orphans' = orphans
  BY DEF vars, stops, control
<1> QED BY <1>4, <1>5, <1>6, <1>7, <1>8, <1>9, <1>10, <1>11, <1>12, <1>13, <1>14 DEF Next

LEMMA StoppersKept ==
  ASSUME StopInv, astray \subseteq astray', NEW s,
         \A u \in Stoppers \ {s} : task'[u] = task[u],
         s \in Stoppers => /\ task'[s].pc \in Unsettled => ~task'[s].confirmed
                           /\ task'[s].pc = "adrift" => task'[s].on \in astray'
  PROVE  ConfirmedInv' /\ AdriftInv'
  BY DEF StopInv, ConfirmedInv, AdriftInv

LEMMA KeyKept ==
  ASSUME StopInv, NEW r \in Rs, \A q \in Rs \ {r} : row'[q] = row[q],
         ActiveRow(r)' => ActiveRow(r) \/ Allowed(r, row'[r])
  PROVE  KeyInv'
<1>1. KeyInv BY DEF StopInv
<1>2. \A q \in Rs \ {r} : ActiveRow(q)' = ActiveRow(q) BY DEF ActiveRow
<1>3. ActiveRow(r)' => row'[r].disp = "active" BY DEF ActiveRow
<1> QED BY <1>1, <1>2, <1>3, KeyedAreResources DEF KeyInv, Allowed

LEMMA KeyLost ==
  ASSUME StopInv, \A q \in Rs : ActiveRow(q)' => ActiveRow(q)
  PROVE  KeyInv'
  BY KeyedAreResources DEF KeyInv, StopInv

-----------------------------------------------------------------------------
(* Steps that move a job or a row but no task, and a monitor that wakes.   *)

StopGoal == /\ ConfirmedInv' /\ AdriftInv' /\ KeyInv'
            /\ \A q \in Rs : ResourceInv(q)'

LEMMA RowStepStops ==
  ASSUME StopInv, [Next]_vars, NEW r \in Rs, JobEnds(r) \/ Reconcile(r) \/ RequestStop(r)
  PROVE  StopGoal
<1>0. row \in [Rs -> Row] BY DEF StopInv, TypeInv, TypeOK
<1>1. UNCHANGED <<task, reg, stopLock>> BY DEF JobEnds, Reconcile, RequestStop, stops
<1>2. \A q \in Rs : /\ row'[q].known = row[q].known /\ row'[q].disp = row[q].disp
                    /\ row'[q].status = row[q].status /\ row'[q].terminal = row[q].terminal
                    /\ row'[q].closed = row[q].closed
  <2>1. CASE JobEnds(r) BY <2>1 DEF JobEnds
  <2>2. CASE Reconcile(r)
    <3>1. PICK life \in Lifecycles[r] : row' = [row EXCEPT ![r].life = life, ![r].fresh = FALSE]
      BY <2>2 DEF Reconcile
    <3> QED BY <1>0, <3>1 DEF Row
  <2>3. CASE RequestStop(r)
    <3>1. row' = [row EXCEPT ![r].fresh = TRUE] BY <2>3 DEF RequestStop
    <3> QED BY <1>0, <3>1 DEF Row
  <2> QED BY <2>1, <2>2, <2>3
<1>3. \A q \in Rs : ActiveRow(q)' = ActiveRow(q) BY <1>2 DEF ActiveRow
<1>4. \A q \in Rs : Quiet(q)
  BY <1>1, <1>2, <1>3 DEF Quiet, Live, InStop
<1>5. \A q \in Rs : ResourceInv(q)'
  BY <1>4, QuietKeeps, InspectSteps, Histories DEF StopInv
<1>6. ConfirmedInv' /\ AdriftInv' BY <1>1, Histories DEF StopInv, ConfirmedInv, AdriftInv
<1> QED BY <1>3, <1>5, <1>6, KeyLost DEF StopGoal

\* A step that changes only one task's resource leaves the others to Quiet.
LEMMA OneResource ==
  ASSUME StopInv, [Next]_vars, NEW r \in Rs, \A q \in Rs \ {r} : Quiet(q), ResourceInv(r)'
  PROVE  \A q \in Rs : ResourceInv(q)'
  BY QuietKeeps, InspectSteps, Histories DEF StopInv

LEMMA AstrayKept ==
  ASSUME [Next]_vars, NEW r \in Rs, r \in astray PROVE ResourceInv(r)'
  BY Histories DEF ResourceInv

LEMMA MonitorEndsParts ==
  ASSUME TypeInv, NEW r \in Rs, NEW w, MonitorEnds(r, w)
  PROVE  task'[r].pc \in {"none", "done"} /\ \A u \in Tasks \ {r} : task'[u] = task[u]
<1>1. task \in [Tasks -> Task] /\ r \in Tasks BY Names DEF TypeInv, TypeOK
<1>2. PICK pc \in {"none", "done"} : task' = Goto(r, pc) BY DEF MonitorEnds
<1>3. pc \in PCs BY <1>2 DEF PCs, MonitorPCs
<1> QED BY <1>1, <1>2, <1>3, GotoTask

LEMMA MonitorWakesStops ==
  ASSUME StopInv, [Next]_vars, NEW r \in Rs, MonitorWakes(r)
  PROVE  StopGoal
<1>0. TypeInv /\ task \in [Tasks -> Task] /\ r \in Tasks BY Names DEF StopInv, TypeInv, TypeOK
<1>1. UNCHANGED <<row, reg, stopLock>> /\ task[r].pc \in {"start", "sleep"}
  BY DEF MonitorWakes
<1>2. /\ \A u \in Tasks \ {r} : task'[u] = task[u]
      /\ \/ task'[r].pc = "finalize" /\ row[r].terminal
         \/ task'[r].pc = "poll" /\ ActiveRow(r)
         \/ task'[r].pc \in {"none", "done"} /\ ~ActiveRow(r)
  <2>1. CASE task' = Goto(r, "finalize") /\ row[r].terminal
    BY <1>0, <2>1, GotoTask DEF PCs, MonitorPCs
  <2>2. CASE task' = Goto(r, "poll") /\ ActiveRow(r)
    BY <1>0, <2>2, GotoTask DEF PCs, MonitorPCs
  <2>3. CASE MonitorEnds(r, row[r]) /\ ~ActiveRow(r)
    BY <1>0, <2>3, MonitorEndsParts
  <2> QED BY <2>1, <2>2, <2>3 DEF MonitorWakes
<1>3. \A u \in Stoppers : task'[u] = task[u] BY <1>2, Names
<1>4. \A q \in Rs \ {r} : Quiet(q)
  <2> TAKE q \in Rs \ {r}
  <2>1. task'[q] = task[q] /\ r \notin Stoppers BY <1>2, Names
  <2> QED BY <1>1, <1>3, <2>1, QuietElsewhere
<1>5. Quiet(r)
  <2>1. ActiveRow(r)' = ActiveRow(r) BY <1>1 DEF ActiveRow
  <2>2. \A s \in Stoppers : InStop(s, r)' = InStop(s, r) BY <1>3 DEF InStop
  <2> QED BY <1>1, <1>2, <1>3, <2>1, <2>2 DEF Quiet, Live
<1>6. \A q \in Rs : ResourceInv(q)'
  BY <1>4, <1>5, QuietKeeps, InspectSteps, Histories DEF StopInv
<1>7. ConfirmedInv' /\ AdriftInv' BY <1>3, Histories DEF StopInv, ConfirmedInv, AdriftInv
<1>8. KeyInv' BY <1>1, KeyLost DEF ActiveRow
<1> QED BY <1>6, <1>7, <1>8 DEF StopGoal
-----------------------------------------------------------------------------
(* A poll.                                                                 *)

LEMMA PollParts ==
  ASSUME TypeInv, NEW r \in Rs, NEW w \in Row, NEW errs, NEW pc \in {"finalize", "sleep"},
         row' = [row EXCEPT ![r] = w],
         task' = [task EXCEPT ![r].errs = errs, ![r].pc = pc]
  PROVE  /\ row'[r] = w /\ \A q \in Rs \ {r} : row'[q] = row[q]
         /\ task'[r].pc = pc /\ \A u \in Tasks \ {r} : task'[u] = task[u]
         /\ \A u \in Stoppers : task'[u] = task[u]
<1>1. row \in [Rs -> Row] /\ task \in [Tasks -> Task] /\ r \in Tasks
  BY Names DEF TypeInv, TypeOK
<1>2. task[r] \in Task BY <1>1
<1>3. task'[r].pc = pc BY <1>1, <1>2 DEF Task
<1> QED BY <1>1, <1>3, Names

LEMMA PollEndsStops ==
  ASSUME StopInv, [Next]_vars, NEW r \in Rs, PollEnds(r) PROVE StopGoal
<1> DEFINE w == Inspected(r, StopDisposition(r), FALSE)
           pc == IF w.terminal THEN "finalize" ELSE "sleep"
<1>0. /\ TypeInv /\ row[r] \in Row /\ sample[r] \in Jobs /\ r \in Tasks /\ task[r].on = r
      /\ sample[r] = "completed" => job[r] = "completed"
  BY Names DEF StopInv, TypeInv, TypeOK, SampleInv, TasksInv
<1>1. FALSE \in BOOLEAN /\ StopDisposition(r) \in Disposition BY StopDispositionType
<1>2. /\ w \in Row /\ w.known = row[r].known
      /\ w.terminal = (sample[r] # "running")
      /\ ~w.terminal => /\ w.disp = row[r].disp /\ w.closed = row[r].closed
                        /\ row[r].status = "stopping" => w.status = "stopping"
  BY <1>0, <1>1, InspectedRow DEF SameIdentity
<1>3. /\ Holds(r, "poll") /\ EndInspection(r) /\ job' = job /\ Allowed(r, w)
      /\ row' = [row EXCEPT ![r] = w] /\ task' = [task EXCEPT ![r].errs = 0, ![r].pc = pc]
      /\ UNCHANGED <<stopLock, reg>>
  BY DEF PollEnds, stops
<1>4. pc \in {"finalize", "sleep"} /\ (pc = "finalize" <=> w.terminal) OBVIOUS
<1> HIDE DEF w, pc
<1>5. /\ row'[r] = w /\ \A q \in Rs \ {r} : row'[q] = row[q]
      /\ task'[r].pc = pc /\ \A u \in Tasks \ {r} : task'[u] = task[u]
      /\ \A u \in Stoppers : task'[u] = task[u]
  BY <1>0, <1>2, <1>3, <1>4, PollParts
<1>6. /\ \A q \in Rs : InspectStep(q)
      /\ inspecting[r] = r /\ inspecting'[r] = None
  BY <1>0, <1>3, InspectionEnds DEF Inspections
<1>7. w.terminal => Sure(r)'
  BY <1>0, <1>2, <1>3, <1>6, SureAfterwards DEF Jobs
<1>8. \A q \in Rs \ {r} : Quiet(q)
  <2> TAKE q \in Rs \ {r}
  <2>1. task'[q] = task[q] /\ row'[q] = row[q] /\ r \notin Stoppers BY <1>5, Names
  <2> QED BY <1>3, <1>5, <2>1, QuietElsewhere
<1>9. ASSUME r \notin astray PROVE (StopPart(r) /\ EndedPart(r) /\ PollPart(r) /\ WatchPart(r))'
  <2>1. StopPart(r) BY <1>9 DEF StopInv, ResourceInv
  <2>2. Sure(r) => w.terminal BY <1>2, <1>6, Names DEF Sure
  <2>3. StopPart(r)'
    <3> SUFFICES ASSUME NEW s \in Stoppers, InStop(s, r)'
                 PROVE  /\ stopLock'[r] = s
                        /\ row'[r].terminal => Sure(r)'
                        /\ row'[r].terminal \/ row'[r].status = "stopping"
                        /\ task'[s].pc \in {"finalize", "last"} => row'[r].terminal
      BY DEF StopPart
    <3>1. InStop(s, r) /\ task'[s] = task[s] BY <1>5 DEF InStop
    <3> QED BY <1>2, <1>3, <1>5, <1>7, <2>1, <2>2, <3>1 DEF StopPart
  <2>4. EndedPart(r)' BY <1>4, <1>5, <1>7 DEF EndedPart
  <2>5. PollPart(r)' BY <1>4, <1>5 DEF PollPart
  <2>6. WatchPart(r)' BY <1>4, <1>5 DEF WatchPart, Live
  <2> QED BY <2>3, <2>4, <2>5, <2>6
<1>10. ResourceInv(r)' BY <1>9, AstrayKept DEF ResourceInv
<1>11. \A q \in Rs : ResourceInv(q)' BY <1>8, <1>10, OneResource
<1>12. ConfirmedInv' /\ AdriftInv' BY <1>5, Histories DEF StopInv, ConfirmedInv, AdriftInv
<1>13. KeyInv' BY <1>3, <1>5, KeyKept
<1> QED BY <1>11, <1>12, <1>13 DEF StopGoal

LEMMA PollFailsStops ==
  ASSUME StopInv, [Next]_vars, NEW r \in Rs, PollFails(r) PROVE StopGoal
<1>0. TypeInv /\ row[r] \in Row /\ r \in Tasks /\ task[r].on = r /\ KeyInv
  BY Names DEF StopInv, TypeInv, TypeOK, TasksInv
<1>1. PICK errs \in Nat, gives \in BOOLEAN, w \in {Noted(r), GivenUp(r)} :
           /\ task[r].pc = "poll" /\ inspecting[r] = r /\ row' = [row EXCEPT ![r] = w]
           /\ gives => row[r].status # "stopping"
           /\ w = GivenUp(r) => (gives /\ Allowed(r, GivenUp(r))) \/ GivenUp(r) = Noted(r)
           /\ gives => w = GivenUp(r) \/ ~Allowed(r, GivenUp(r))
           /\ task' = [task EXCEPT ![r].errs = errs,
                                   ![r].pc = IF gives THEN "finalize" ELSE "sleep"]
           /\ EndInspection(r) /\ faults' \in 0 .. MaxEvents
           /\ UNCHANGED <<job, finalizing, stops, reg, control>>
  BY <1>0, PollFailsParts
<1>2. /\ Noted(r) \in Row /\ Noted(r).known = row[r].known
      /\ Noted(r).terminal = row[r].terminal /\ Noted(r).closed = row[r].closed
      /\ Noted(r).disp = row[r].disp
      /\ Noted(r).status = "stopping" <=> row[r].status = "stopping"
      /\ Noted(r).status # "stopping" => Noted(r).status = "monitor_error"
  BY <1>0, NotedRow DEF SameIdentity
<1>3. /\ GivenUp(r) \in Row /\ GivenUp(r).terminal /\ GivenUp(r).closed
      /\ GivenUp(r).status = "failed" /\ GivenUp(r).disp = "active"
  BY <1>0, GivenUpRow
<1>4. w \in Row BY <1>2, <1>3
<1>5. PICK pc \in {"finalize", "sleep"} : /\ task' = [task EXCEPT ![r].errs = errs, ![r].pc = pc]
                                          /\ pc = "finalize" <=> gives
  BY <1>1
<1>6. /\ row'[r] = w /\ \A q \in Rs \ {r} : row'[q] = row[q]
      /\ task'[r].pc = pc /\ \A u \in Tasks \ {r} : task'[u] = task[u]
      /\ \A u \in Stoppers : task'[u] = task[u]
  <2>1. TypeInv /\ row' = [row EXCEPT ![r] = w] BY <1>0, <1>1
  <2>2. task' = [task EXCEPT ![r].errs = errs, ![r].pc = pc] BY <1>5
  <2> QED BY <1>4, <2>1, <2>2, PollParts
<1>7. UNCHANGED <<stopLock, reg>> BY <1>1 DEF stops
<1>8. \A q \in Rs \ {r} : Quiet(q)
  <2> TAKE q \in Rs \ {r}
  <2>1. task'[q] = task[q] /\ row'[q] = row[q] /\ r \notin Stoppers BY <1>6, Names
  <2> QED BY <1>6, <1>7, <2>1, QuietElsewhere
<1>9. w = Noted(r) \/ (w = GivenUp(r) /\ gives /\ Allowed(r, GivenUp(r))) BY <1>1
<1>10. Sure(r) => Sure(r)' BY InspectSteps, Inspecting DEF StopInv, SampleInv
<1>11. ASSUME r \notin astray PROVE (StopPart(r) /\ EndedPart(r) /\ PollPart(r) /\ WatchPart(r))'
  <2>1. StopPart(r) /\ EndedPart(r) /\ PollPart(r) BY <1>11 DEF StopInv, ResourceInv
  <2>2. StopPart(r)'
    <3> SUFFICES ASSUME NEW s \in Stoppers, InStop(s, r)'
                 PROVE  /\ stopLock'[r] = s
                        /\ row'[r].terminal => Sure(r)'
                        /\ row'[r].terminal \/ row'[r].status = "stopping"
                        /\ task'[s].pc \in {"finalize", "last"} => row'[r].terminal
      BY DEF StopPart
    <3>1. InStop(s, r) /\ task'[s] = task[s] BY <1>6 DEF InStop
    <3>2. /\ stopLock[r] = s
          /\ row[r].terminal => Sure(r)
          /\ row[r].terminal \/ row[r].status = "stopping"
          /\ task[s].pc \in {"finalize", "last"} => row[r].terminal
      BY <2>1, <3>1 DEF StopPart
    <3>3. CASE w = Noted(r) BY <1>2, <1>6, <1>7, <1>10, <3>1, <3>2, <3>3
    <3>4. CASE w = GivenUp(r) /\ gives BY <1>1, <1>3, <1>6, <1>7, <1>10, <3>1, <3>2, <3>4
    <3> QED BY <1>9, <3>3, <3>4
  <2>3. EndedPart(r)'
    <3>1. row'[r].terminal => Sure(r)' \/ Guessed(r)'
      BY <1>2, <1>3, <1>6, <1>9, <1>10, <2>1 DEF EndedPart, Guessed
    <3>2. gives => w.terminal
      <4>1. ASSUME ~Allowed(r, GivenUp(r)) PROVE ~ActiveRow(r)
        BY <1>0, <1>3, <4>1, KeyedAreResources DEF Allowed, KeyInv
      <4> QED BY <1>1, <1>2, <1>3, <2>1, <4>1 DEF PollPart
    <3> QED BY <1>5, <1>6, <3>1, <3>2 DEF EndedPart
  <2>4. PollPart(r)' BY <1>5, <1>6 DEF PollPart
  <2>5. WatchPart(r)' BY <1>5, <1>6 DEF WatchPart, Live
  <2> QED BY <2>2, <2>3, <2>4, <2>5
<1>12. ResourceInv(r)' BY <1>11, AstrayKept DEF ResourceInv
<1>13. \A q \in Rs : ResourceInv(q)' BY <1>8, <1>12, OneResource
<1>14. ConfirmedInv' /\ AdriftInv' BY <1>6, Histories DEF StopInv, ConfirmedInv, AdriftInv
<1>15. KeyInv'
  <2>1. ActiveRow(r)' => ActiveRow(r) \/ Allowed(r, row'[r])
    <3>1. CASE w = Noted(r)
      <4>1. row[r].known
        BY <1>0, <1>1 DEF TypeInv, KnownInv
      <4> QED BY <1>2, <1>6, <3>1, <4>1 DEF ActiveRow
    <3>2. CASE w = GivenUp(r) /\ Allowed(r, GivenUp(r)) BY <1>6, <3>2
    <3> QED BY <1>9, <3>1, <3>2
  <2> QED BY <1>6, <2>1, KeyKept
<1> QED BY <1>13, <1>14, <1>15 DEF StopGoal
-----------------------------------------------------------------------------
(* The end of a stop, and finalization.                                    *)

\* A stop ends with a row that keeps what was known.
LEMMA StopEndsStops ==
  ASSUME StopInv, [Next]_vars, NEW s \in Stoppers, NEW r \in Rs, r = task[s].on,
         task[s].pc \in Stopping, ~task[s].confirmed,
         NEW w \in Row, SameIdentity(w, row[r]), NEW ok \in BOOLEAN,
         StopEnds(s, w, ok), reg' = reg,
         w.disp = row[r].disp \/ w.disp # "active",
         r \notin astray =>
           /\ w.terminal <=> row[r].terminal
           /\ row[r].closed => w.closed
           /\ w.disp = row[r].disp \/ w.terminal
  PROVE  StopGoal
<1>0. TypeInv /\ s \notin Rs BY Names DEF StopInv
<1>1. /\ row'[r] = w /\ \A q \in Rs \ {r} : row'[q] = row[q]
      /\ task'[s].pc = "close" /\ task'[s].on = r
      /\ \A u \in Tasks \ {s} : task'[u] = task[u]
      /\ \A q \in Rs : stopLock'[q] = IF q = r /\ stopLock[q] = s THEN None ELSE stopLock[q]
  BY <1>0, StopEndsTypes
<1>2. \A q \in Rs : task'[q] = task[q] BY <1>0, <1>1, Names
<1>3. \A u \in Stoppers \ {s} : task'[u] = task[u] BY <1>1, Names
<1>4. \A q \in Rs \ {r} : Quiet(q)
  <2> TAKE q \in Rs \ {r}
  <2> QED BY <1>1, <1>2, <1>3, QuietElsewhere
<1>5. w.known = row[r].known BY DEF SameIdentity
<1>6. Sure(r) => Sure(r)' BY <1>0, InspectSteps, Inspecting DEF StopInv, SampleInv
<1>7. ASSUME r \notin astray PROVE (StopPart(r) /\ EndedPart(r) /\ PollPart(r) /\ WatchPart(r))'
  <2>1. StopPart(r) /\ EndedPart(r) /\ PollPart(r) /\ WatchPart(r)
    BY <1>0, <1>7 DEF StopInv, ResourceInv
  <2>2. InStop(s, r) BY DEF InStop
  <2>3. \A u \in Stoppers : ~InStop(u, r)'
    <3> SUFFICES ASSUME NEW u \in Stoppers, InStop(u, r)' PROVE FALSE OBVIOUS
    <3>1. u # s BY <1>1 DEF InStop, Stopping
    <3>2. InStop(u, r) BY <1>3, <3>1 DEF InStop
    <3> QED BY <2>1, <2>2, <3>1, <3>2 DEF StopPart
  <2>4. /\ w.terminal <=> row[r].terminal
        /\ row[r].closed => w.closed
        /\ w.disp = row[r].disp \/ w.terminal
        /\ w.disp = row[r].disp \/ w.disp # "active"
    BY <1>7
  <2>5. StopPart(r)' BY <2>3 DEF StopPart
  <2>6. EndedPart(r)' BY <1>0, <1>1, <1>2, <1>6, <2>1, <2>2, <2>4 DEF EndedPart, StopPart
  <2>7. PollPart(r)' BY <1>0, <1>1, <1>2, <1>5, <2>1, <2>4 DEF PollPart, ActiveRow
  <2>8. WatchPart(r)'
    <3>1. Live(r)' = Live(r) BY <1>0, <1>2 DEF Live
    <3>2. ActiveRow(r)' => ActiveRow(r) BY <1>1, <1>5, <2>4 DEF ActiveRow
    <3>3. Settled(r) => Settled(r)' BY <1>1, <2>4 DEF Settled
    <3>4. r \notin orphans' => r \notin orphans BY <1>0, Histories
    <3> QED BY <2>1, <3>1, <3>2, <3>3, <3>4 DEF WatchPart, AllBlocking
  <2> QED BY <2>5, <2>6, <2>7, <2>8
<1>8. ResourceInv(r)' BY <1>0, <1>7, AstrayKept DEF ResourceInv
<1>9. \A q \in Rs : ResourceInv(q)' BY <1>0, <1>4, <1>8, OneResource
<1>10. ConfirmedInv' /\ AdriftInv'
  <2>1. task'[s].pc \notin Unsettled /\ task'[s].pc # "adrift" BY <1>1 DEF Unsettled, Stopping
  <2> QED BY <1>3, <2>1, StoppersKept, Histories
<1>11. KeyInv'
  <2>1. ActiveRow(r)' => ActiveRow(r) BY <1>1, <1>5 DEF ActiveRow
  <2> QED BY <1>0, <1>1, <2>1, KeyKept
<1> QED BY <1>9, <1>10, <1>11 DEF StopGoal

\* What finalization makes of a row.
Finalized(r, v) ==
  /\ v \in Row /\ SameIdentity(v, row[r]) /\ v.closed
  /\ row[r].terminal => v.terminal
  /\ v.terminal => row[r].terminal \/ sample[r] = "completed"
  /\ ~v.terminal => v.disp = row[r].disp /\ (row[r].status = "stopping" => v.status = "stopping")
  /\ v.status # row[r].status => sample[r] = "completed" \/ ~row[r].terminal

\* A task that finalizes leaves such a row, and is at its end.
LEMMA FinalizedStops ==
  ASSUME StopInv, [Next]_vars, NEW t \in Tasks, NEW r \in Rs, r = task[t].on,
         task[t].pc \in {"finalize", "last"}, NEW v,
         Finalized(r, v) \/ (v = row[r] /\ (row[r].terminal => row[r].closed)),
         AfterFinalize(t, v), reg' = reg, job' = job,
         v = row[r] \/ (sample[r] = "completed" => inspecting'[r] = None),
         v.disp = row[r].disp \/ Allowed(r, v)
  PROVE  StopGoal
<1>0. /\ TypeInv /\ row \in [Rs -> Row] /\ task \in [Tasks -> Task] /\ row[r].known
      /\ sample[r] = "completed" => job[r] = "completed"
  <2>1. TypeInv BY DEF StopInv
  <2>2. row[r].known BY <2>1, AtWork DEF Inspections
  <2> QED BY <2>1, <2>2 DEF StopInv, TypeInv, TypeOK, SampleInv
<1>1. /\ v \in Row /\ SameIdentity(v, row[r]) /\ v.known
      /\ v.terminal => v.closed
      /\ row[r].terminal => v.terminal
  BY <1>0 DEF Finalized, SameIdentity
<1>2. Sure(r) => Sure(r)' BY InspectSteps, Inspecting DEF StopInv, SampleInv
<1>3. v.terminal /\ ~row[r].terminal => Sure(r)'
  BY <1>0, SureAfterwards DEF Finalized
<1>4. /\ ~v.terminal => v.disp = row[r].disp /\ (row[r].status = "stopping" => v.status = "stopping")
      /\ v.status # row[r].status /\ row[r].terminal => Sure(r)'
  BY <1>0, SureAfterwards DEF Finalized
<1>5. CASE t \in Stoppers /\ ~task[t].confirmed
  <2>1. t \notin Rs BY <1>5, Names
  <2>2. StopEnds(t, SetDisposition(v, "cancelled"), TRUE) BY <1>5, <2>1 DEF AfterFinalize
  <2>3. "cancelled" \in Disposition /\ TRUE \in BOOLEAN BY DEF Disposition
  <2> DEFINE w == SetDisposition(v, "cancelled")
  <2>4. w \in Row /\ SameIdentity(w, row[r]) /\ w.terminal = v.terminal
        /\ w.closed = v.closed /\ w.disp = "cancelled"
    BY <1>1, <2>3, SetDispositionRow DEF SameIdentity
  <2>5. task[t].pc \in Stopping /\ InStop(t, r) BY <1>5 DEF Stopping, InStop
  <2>6. r \notin astray => row[r].terminal BY <1>5, <2>5 DEF StopInv, ResourceInv, StopPart
  <2> HIDE DEF w
  <2>7. StopEnds(t, w, TRUE) BY <2>2 DEF w
  <2> QED BY <1>1, <1>5, <2>3, <2>4, <2>5, <2>6, <2>7, StopEndsStops
<1>6. CASE t \in Rs \/ task[t].confirmed
  <2>1. /\ row'[r] = v /\ \A q \in Rs \ {r} : row'[q] = row[q]
        /\ \A u \in Tasks \ {t} : task'[u] = task[u]
        /\ UNCHANGED <<stopLock, astray>>
        /\ t \in Rs => r = t /\ task'[t].pc \in {"none", "done"}
        /\ t \in Stoppers => task'[t].pc = "begin"
    <3>1. CASE t \in Rs
      <4>1. r = t BY <1>0, <3>1 DEF TypeInv, TasksInv
      <4>2. MonitorEnds(t, v) /\ row' = [row EXCEPT ![t] = v] /\ UNCHANGED <<stopLock, marked, astray>>
        BY <3>1 DEF AfterFinalize
      <4> QED BY <1>0, <3>1, <4>1, <4>2, MonitorEndsParts, Names
    <3>2. CASE t \notin Rs
      <4>1. task' = Goto(t, "begin") /\ row' = [row EXCEPT ![r] = v] /\ UNCHANGED stops
        BY <1>6, <3>2 DEF AfterFinalize
      <4> QED BY <1>0, <3>2, <4>1, GotoTask DEF PCs, StopperPCs, stops
    <3> QED BY <3>1, <3>2
  <2>2. \A u \in Stoppers \ {t} : task'[u] = task[u] BY <2>1, Names
  <2>3. \A q \in Rs \ {r} : Quiet(q)
    <3> TAKE q \in Rs \ {r}
    <3>1. task'[q] = task[q] BY <2>1, Names DEF Tasks
    <3>2. t \in Stoppers => ~InStop(t, q)' BY <2>1 DEF InStop, Stopping
    <3> QED BY <2>1, <2>2, <3>1, <3>2, QuietElsewhere
  <2>4. \A u \in Stoppers : InStop(u, r)' => InStop(u, r) /\ task'[u] = task[u]
    BY <2>1, <2>2 DEF InStop, Stopping
  <2>5. task'[r] = task[r] \/ task'[r].pc \in {"none", "done"}
    BY <2>1, Names DEF Tasks
  <2>6. ASSUME r \notin astray PROVE (StopPart(r) /\ EndedPart(r) /\ PollPart(r) /\ WatchPart(r))'
    <3>1. StopPart(r) /\ EndedPart(r) /\ PollPart(r) /\ WatchPart(r)
      BY <2>6 DEF StopInv, ResourceInv
    <3>2. StopPart(r)'
      <4> SUFFICES ASSUME NEW s \in Stoppers, InStop(s, r)'
                   PROVE  /\ stopLock'[r] = s
                          /\ row'[r].terminal => Sure(r)'
                          /\ row'[r].terminal \/ row'[r].status = "stopping"
                          /\ task'[s].pc \in {"finalize", "last"} => row'[r].terminal
        BY DEF StopPart
      <4>1. InStop(s, r) /\ task'[s] = task[s] BY <2>4
      <4> QED BY <1>1, <1>2, <1>3, <1>4, <2>1, <3>1, <4>1 DEF StopPart
    <3>3. EndedPart(r)'
      BY <1>1, <1>2, <1>3, <1>4, <2>1, <2>5, <3>1 DEF EndedPart, Guessed
    <3>4. PollPart(r)' BY <1>0, <1>1, <1>4, <2>1, <2>5, <3>1 DEF PollPart, ActiveRow
    <3>5. WatchPart(r)'
      <4>1. CASE v.terminal BY <1>1, <2>1, <4>1 DEF WatchPart, Settled
      <4>2. CASE ~v.terminal
        <5>1. t \notin Rs
          BY <1>1, <2>1, <3>1, <4>2 DEF EndedPart
        <5>2. task'[r] = task[r] BY <2>1, <5>1, Names
        <5>3. Live(r)' = Live(r) BY <5>2 DEF Live
        <5>4. ActiveRow(r)' => ActiveRow(r) BY <1>0, <1>4, <2>1, <4>2 DEF ActiveRow
        <5>5. ~Settled(r) BY <1>1, <4>2 DEF Settled
        <5>6. r \notin orphans' => r \notin orphans BY Histories
        <5> QED BY <3>1, <5>3, <5>4, <5>5, <5>6 DEF WatchPart, AllBlocking
      <4> QED BY <4>1, <4>2
    <3> QED BY <3>2, <3>3, <3>4, <3>5
  <2>7. ResourceInv(r)' BY <2>6, AstrayKept DEF ResourceInv
  <2>8. \A q \in Rs : ResourceInv(q)' BY <2>3, <2>7, OneResource
  <2>9. ConfirmedInv' /\ AdriftInv'
    <3>1. t \in Stoppers => task'[t].pc \notin Unsettled /\ task'[t].pc # "adrift"
      BY <2>1 DEF Unsettled, Stopping
    <3> QED BY <2>2, <3>1, StoppersKept, Histories
  <2>10. KeyInv'
    <3>1. ActiveRow(r)' => ActiveRow(r) \/ Allowed(r, row'[r]) BY <1>0, <2>1 DEF ActiveRow
    <3> QED BY <2>1, <3>1, KeyKept
  <2> QED BY <2>8, <2>9, <2>10 DEF StopGoal
<1> QED BY <1>5, <1>6 DEF Tasks
\* The row that a last inspection leaves.
LEMMA LastRow ==
  ASSUME TypeInv, NEW r \in Rs
  PROVE  /\ Finalized(r, [Inspected(r, StopDisposition(r), TRUE) EXCEPT !.closed = TRUE])
         /\ Finalized(r, [row[r] EXCEPT !.closed = TRUE])
<1> DEFINE w == Inspected(r, StopDisposition(r), TRUE)
<1>1. /\ row[r] \in Row /\ sample[r] \in Jobs /\ StopDisposition(r) \in Disposition
      /\ TRUE \in BOOLEAN
  BY StopDispositionType DEF TypeInv, TypeOK
<1>2. /\ w \in Row /\ SameIdentity(w, row[r])
      /\ w.terminal = (sample[r] # "running" \/ row[r].terminal)
      /\ ~w.terminal => /\ w.disp = row[r].disp /\ w.closed = row[r].closed
                        /\ row[r].status = "stopping" => w.status = "stopping"
  BY <1>1, InspectedRow
<1>3. w.status = Seen(r, TRUE).status
  <2>1. row[r].status \in Status /\ row[r].terminal \in BOOLEAN BY <1>1 DEF Row
  <2>2. Seen(r, TRUE).status \in Status /\ Seen(r, TRUE).terminal \in BOOLEAN
    BY <1>1, <2>1 DEF Seen, Status, Jobs, Ended
  <2>3. w = Observe(row[r], Seen(r, TRUE).status, Seen(r, TRUE).terminal, StopDisposition(r))
    BY DEF Inspected
  <2> DEFINE o == Seen(r, TRUE)
  <2>4. o.status \in Status /\ o.terminal \in BOOLEAN
        /\ w = Observe(row[r], o.status, o.terminal, StopDisposition(r))
    BY <2>2, <2>3
  <2> HIDE DEF w, o
  <2>5. w.status = o.status BY <1>1, <2>4, ObserveRow
  <2> QED BY <2>5 DEF o
<1>4. sample[r] # "completed" /\ row[r].terminal => w.status = row[r].status
  BY <1>1, <1>3 DEF Seen, Jobs
<1> HIDE DEF w
<1>5. /\ [w EXCEPT !.closed = TRUE] \in Row /\ [w EXCEPT !.closed = TRUE].closed
      /\ [w EXCEPT !.closed = TRUE].status = w.status
      /\ [w EXCEPT !.closed = TRUE].terminal = w.terminal
      /\ [w EXCEPT !.closed = TRUE].disp = w.disp
      /\ SameIdentity([w EXCEPT !.closed = TRUE], w)
  BY <1>1, <1>2, ClosedRow
<1>6. /\ [row[r] EXCEPT !.closed = TRUE] \in Row /\ [row[r] EXCEPT !.closed = TRUE].closed
      /\ [row[r] EXCEPT !.closed = TRUE].status = row[r].status
      /\ [row[r] EXCEPT !.closed = TRUE].terminal = row[r].terminal
      /\ [row[r] EXCEPT !.closed = TRUE].disp = row[r].disp
      /\ SameIdentity([row[r] EXCEPT !.closed = TRUE], row[r])
  BY <1>1, ClosedRow
<1>7. Finalized(r, [w EXCEPT !.closed = TRUE])
  BY <1>1, <1>2, <1>4, <1>5 DEF Finalized, SameIdentity, Jobs
<1>8. Finalized(r, [row[r] EXCEPT !.closed = TRUE]) BY <1>6 DEF Finalized
<1> QED BY <1>7, <1>8 DEF w

LEMMA FinalizeEndsStops ==
  ASSUME StopInv, [Next]_vars, NEW t \in Tasks, FinalizeEnds(t) PROVE StopGoal
<1>0. TypeInv /\ task[t].pc = "last" BY DEF StopInv, FinalizeEnds, Holds
<1>1. PICK r \in Rs : r = task[t].on BY <1>0, AtWork DEF Inspections
<1> DEFINE w == Inspected(r, StopDisposition(r), TRUE)
           v == [w EXCEPT !.closed = TRUE]
           x == [row[r] EXCEPT !.closed = TRUE]
<1>2. Finalized(r, v) /\ Finalized(r, x) BY <1>0, LastRow
<1>3. /\ inspecting[r] = t /\ ReleaseBoth(r, t) /\ UNCHANGED <<job, reg, control>>
      /\ (Allowed(r, w) /\ AfterFinalize(t, v)) \/ AfterFinalize(t, x)
  BY <1>1 DEF FinalizeEnds, Holds
<1>4. inspecting'[r] = None BY <1>0, <1>3, ReleaseSteps DEF TypeInv
<1>5. Allowed(r, w) => Allowed(r, v)
  <2>1. v.disp = w.disp
    <3>1. row[r] \in Row /\ sample[r] \in Jobs /\ StopDisposition(r) \in Disposition
          /\ TRUE \in BOOLEAN
      BY <1>0, StopDispositionType DEF TypeInv, TypeOK
    <3>2. w \in Row BY <3>1, InspectedRow
    <3> HIDE DEF w
    <3> QED BY <3>2, ClosedRow
  <2> QED BY <2>1 DEF Allowed
<1>6. x.disp = row[r].disp
  <2>1. row[r] \in Row BY <1>0 DEF TypeInv, TypeOK
  <2> QED BY <2>1, ClosedRow
<1> HIDE DEF v, x, w
<1>7. task[t].pc \in {"finalize", "last"} /\ reg' = reg /\ job' = job BY <1>0, <1>3
<1>8. CASE Allowed(r, w) /\ AfterFinalize(t, v)
  BY <1>1, <1>2, <1>4, <1>5, <1>7, <1>8, FinalizedStops
<1>9. CASE AfterFinalize(t, x)
  BY <1>1, <1>2, <1>4, <1>6, <1>7, <1>9, FinalizedStops
<1> QED BY <1>3, <1>8, <1>9

LEMMA FinalizeSkipsStops ==
  ASSUME StopInv, [Next]_vars, NEW t \in Tasks, FinalizeSkips(t) PROVE StopGoal
<1>0. TypeInv /\ task[t].pc = "finalize" BY DEF StopInv, FinalizeSkips
<1>1. PICK r \in Rs : r = task[t].on BY <1>0, AtWork
<1>2. /\ AfterFinalize(t, row[r]) /\ reg' = reg /\ job' = job
      /\ ~row[r].terminal \/ row[r].closed
  BY <1>1 DEF FinalizeSkips
<1> QED BY <1>0, <1>1, <1>2, FinalizedStops
LEMMA BeginInspectionStops ==
  ASSUME StopInv, [Next]_vars, NEW t \in Tasks, BeginInspection(t) PROVE StopGoal
<1>1. UNCHANGED <<row, task, reg, stopLock, astray>> BY DEF BeginInspection, stops
<1>2. \A q \in Rs : Quiet(q)
  BY <1>1 DEF Quiet, ActiveRow, Live, InStop
<1>3. \A q \in Rs : ResourceInv(q)'
  BY <1>2, QuietKeeps, InspectSteps, Histories DEF StopInv
<1>4. ConfirmedInv' /\ AdriftInv' BY <1>1 DEF StopInv, ConfirmedInv, AdriftInv
<1>5. KeyInv' BY <1>1, KeyLost DEF ActiveRow
<1> QED BY <1>3, <1>4, <1>5 DEF StopGoal

LEMMA FinalizeStartsStops ==
  ASSUME StopInv, [Next]_vars, NEW t \in Tasks, FinalizeStarts(t) PROVE StopGoal
<1>0. /\ TypeInv /\ task \in [Tasks -> Task] /\ task[t].pc = "finalize"
      /\ UNCHANGED <<row, reg, stopLock, astray>> /\ task' = Goto(t, "last")
  BY DEF StopInv, TypeInv, TypeOK, FinalizeStarts, stops
<1>1. /\ task'[t].pc = "last" /\ task'[t].on = task[t].on
      /\ task'[t].confirmed = task[t].confirmed
      /\ \A u \in Tasks \ {t} : task'[u] = task[u]
  BY <1>0, GotoTask DEF PCs, MonitorPCs
<1>2. \A q \in Rs : Quiet(q)
  <2> TAKE q \in Rs
  <2>1. ActiveRow(q)' = ActiveRow(q) BY <1>0 DEF ActiveRow
  <2>2. task'[q] = task[q] \/ (task[q].pc = "finalize" /\ task'[q].pc = "last")
    BY <1>0, <1>1, Names
  <2>3. \A s \in Stoppers : InStop(s, q)' =>
          /\ InStop(s, q)
          /\ task'[s].pc \in {"finalize", "last"} => task[s].pc \in {"finalize", "last"}
    BY <1>0, <1>1, Names DEF InStop, Stopping
  <2> QED BY <1>0, <2>1, <2>2, <2>3 DEF Quiet, Live
<1>3. \A q \in Rs : ResourceInv(q)'
  BY <1>2, QuietKeeps, InspectSteps, Histories DEF StopInv
<1>4. ConfirmedInv' /\ AdriftInv'
  <2>1. \A u \in Stoppers \ {t} : task'[u] = task[u] BY <1>1, Names
  <2>2. "last" \notin Unsettled BY DEF Unsettled
  <2> QED BY <1>1, <2>1, <2>2, StoppersKept, Histories
<1>5. KeyInv' BY <1>0, KeyLost DEF ActiveRow
<1> QED BY <1>3, <1>4, <1>5 DEF StopGoal

LEMMA TaskStops ==
  ASSUME StopInv, [Next]_vars, NEW t \in Tasks, TaskStep(t) PROVE StopGoal
  BY BeginInspectionStops, FinalizeSkipsStops, FinalizeStartsStops, FinalizeEndsStops
  DEF TaskStep

-----------------------------------------------------------------------------
(* A stop begins.                                                          *)

LEMMA BeginsStops ==
  ASSUME StopInv, [Next]_vars, NEW s \in Stoppers, NEW me \in Task, NEW r \in Rs, r = me.on,
         task'[s].on = r, ~task'[s].confirmed,
         \A u \in Tasks \ {s} : task'[u] = task[u],
         \/ /\ StopAccepted(s, me)
            /\ r \notin astray => me.pc # "adrift" /\ \A u \in Stoppers \ {s} : ~InStop(u, r)
         \/ StopRefused(s),
         reg' = reg
  PROVE  StopGoal
<1>0. TypeInv /\ row \in [Rs -> Row] /\ stopLock \in [Rs -> Stoppers \cup {None}]
  BY DEF StopInv, TypeInv, TypeOK
<1>1. \A q \in Rs : task'[q] = task[q] BY Names
<1>2. \A u \in Stoppers \ {s} : task'[u] = task[u] BY Names
<1>3. ConfirmedInv' /\ AdriftInv'
  <2>1. task'[s].pc # "adrift" BY DEF StopAccepted, StopRefused
  <2> QED BY <1>2, <2>1, StoppersKept, Histories
<1>4. CASE StopRefused(s)
  <2>1. UNCHANGED <<row, stopLock>> /\ task'[s].pc \notin Stopping
    BY <1>4 DEF StopRefused, Stopping
  <2>2. \A q \in Rs : Quiet(q)
    <3> TAKE q \in Rs
    <3>1. ~InStop(s, q)' BY <2>1 DEF InStop
    <3> QED BY <1>1, <1>2, <2>1, <3>1, QuietElsewhere
  <2>3. \A q \in Rs : ResourceInv(q)'
    BY <2>2, QuietKeeps, InspectSteps, Histories DEF StopInv
  <2>4. KeyInv' BY <2>1, KeyLost DEF ActiveRow
  <2> QED BY <1>3, <2>3, <2>4 DEF StopGoal
<1>5. CASE /\ StopAccepted(s, me)
           /\ r \notin astray => me.pc # "adrift" /\ \A u \in Stoppers \ {s} : ~InStop(u, r)
  <2> DEFINE w == SetStatus(row[r], "stopping")
  <2>1. /\ w \in Row /\ w.status = "stopping" /\ w.terminal = row[r].terminal
        /\ w.closed = row[r].closed /\ w.disp = row[r].disp /\ w.known = row[r].known
    <3>1. "stopping" \in Status BY DEF Status
    <3> QED BY <1>0, <3>1, SetStatusRow DEF SameIdentity
  <2>2. /\ ActiveRow(r) /\ ~row[r].terminal /\ row' = [row EXCEPT ![r] = w]
        /\ me.pc # "adrift" => stopLock' = [stopLock EXCEPT ![r] = s]
        /\ stopLock' \in {stopLock, [stopLock EXCEPT ![r] = s]}
        /\ task'[s].pc \in {"check", "ask"}
    BY <1>5 DEF StopAccepted
  <2> HIDE DEF w
  <2>3. row'[r] = w /\ \A q \in Rs \ {r} : row'[q] = row[q] /\ stopLock'[q] = stopLock[q]
    BY <1>0, <2>1, <2>2
  <2>4. \A q \in Rs \ {r} : Quiet(q)
    <3> TAKE q \in Rs \ {r}
    <3> QED BY <1>1, <1>2, <2>3, QuietElsewhere
  <2>5. ASSUME r \notin astray PROVE (StopPart(r) /\ EndedPart(r) /\ PollPart(r) /\ WatchPart(r))'
    <3>1. EndedPart(r) /\ PollPart(r) /\ WatchPart(r) BY <2>5 DEF StopInv, ResourceInv
    <3>2. stopLock'[r] = s BY <1>0, <1>5, <2>2, <2>5
    <3>3. StopPart(r)'
      <4> SUFFICES ASSUME NEW u \in Stoppers, InStop(u, r)'
                   PROVE  /\ stopLock'[r] = u
                          /\ row'[r].terminal => Sure(r)'
                          /\ row'[r].terminal \/ row'[r].status = "stopping"
                          /\ task'[u].pc \in {"finalize", "last"} => row'[r].terminal
        BY DEF StopPart
      <4>1. u = s BY <1>2, <1>5, <2>5 DEF InStop
      <4> QED BY <2>1, <2>2, <2>3, <3>2, <4>1
    <3>4. EndedPart(r)' BY <1>1, <2>1, <2>2, <2>3, <3>1 DEF EndedPart
    <3>5. PollPart(r)' BY <2>1, <2>2, <2>3 DEF PollPart, ActiveRow
    <3>6. WatchPart(r)'
      <4>1. Live(r)' = Live(r) BY <1>1 DEF Live
      <4>2. ~Settled(r) BY <2>2 DEF Settled
      <4>3. r \notin orphans' => r \notin orphans BY Histories
      <4> QED BY <2>2, <3>1, <4>1, <4>2, <4>3 DEF WatchPart, AllBlocking
    <3> QED BY <3>3, <3>4, <3>5, <3>6
  <2>6. ResourceInv(r)' BY <2>5, AstrayKept DEF ResourceInv
  <2>7. \A q \in Rs : ResourceInv(q)' BY <2>4, <2>6, OneResource
  <2>8. KeyInv' BY <2>2, <2>3, KeyKept
  <2> QED BY <1>3, <2>7, <2>8 DEF StopGoal
<1> QED BY <1>4, <1>5

LEMMA StopResourceStops ==
  ASSUME StopInv, [Next]_vars, NEW s \in Stoppers, NEW me \in Task, me.on \in Rs,
         ~me.confirmed, me.pc # "adrift", StopResource(s, me), reg' = reg
  PROVE  StopGoal
<1>1. PICK r \in Rs : r = me.on OBVIOUS
<1>2. TypeInv BY DEF StopInv
<1>3. /\ task'[s].on = r /\ task'[s].confirmed = me.confirmed
      /\ \A u \in Tasks \ {s} : task'[u] = task[u]
      /\ (stopLock[r] = None /\ StopAccepted(s, me)) \/ StopRefused(s)
  BY <1>1, <1>2, StopResourceParts
<1>4. CASE StopRefused(s) BY <1>1, <1>3, <1>4, BeginsStops
<1>5. CASE stopLock[r] = None /\ StopAccepted(s, me)
  <2>1. r \notin astray => \A u \in Stoppers : ~InStop(u, r)
    BY <1>5, Names DEF StopInv, ResourceInv, StopPart
  <2> QED BY <1>1, <1>3, <1>5, <2>1, BeginsStops
<1> QED BY <1>3, <1>4, <1>5
LEMMA StopDequeuedStops ==
  ASSUME StopInv, [Next]_vars, NEW s \in Stoppers, StopDequeued(s) PROVE StopGoal
<1>0. TypeInv /\ ConfirmedInv /\ AdriftInv BY DEF StopInv
<1>1. /\ task[s].pc \in {"queued", "adrift"} /\ EnterStop(s, task[s])
      /\ UNCHANGED <<job, locks, closers, astray, reg, control, faults>>
  BY DEF StopDequeued
<1>2. task[s] \in Task /\ task[s].on \in Rs
  BY <1>0, <1>1, Names DEF TypeInv, TypeOK, TasksInv, Busy
<1>3. PICK me \in Task, r \in Rs : me = task[s] /\ r = task[s].on BY <1>2
<1>4. /\ task'[s].on = r /\ task'[s].confirmed = me.confirmed
      /\ \A u \in Tasks \ {s} : task'[u] = task[u]
      /\ StopAccepted(s, me) \/ StopRefused(s)
  BY <1>0, <1>1, <1>3, EnterStopParts
<1>5. ~me.confirmed BY <1>0, <1>1, <1>3 DEF ConfirmedInv, Unsettled
<1>6. me.pc = "adrift" => r \in astray BY <1>0, <1>3 DEF AdriftInv
<1>7. \A u \in Stoppers \ {s} : ~InStop(u, r) BY <1>3 DEF StopDequeued, InStop
<1> QED BY <1>1, <1>3, <1>4, <1>5, <1>6, <1>7, BeginsStops

LEMMA CascadeStopsStops ==
  ASSUME StopInv, [Next]_vars, NEW s \in Stoppers, CascadeStops(s) PROVE StopGoal
<1>0. TypeInv /\ task[s] \in Task /\ task[s].pc = "cascade" /\ reg' = reg
  BY Names DEF StopInv, TypeInv, TypeOK, CascadeStops
<1>1. PICK r \in task[s].rest :
        StopResource(s, [task[s] EXCEPT !.on = r, !.rest = @ \ {r},
                                        !.allow = r \in task[s].stoppingRest])
  BY DEF CascadeStops
<1> DEFINE b == r \in task[s].stoppingRest
           x == [task[s] EXCEPT !.on = r, !.rest = @ \ {r}, !.allow = b]
<1>2. b \in BOOLEAN /\ r \in Rs BY <1>0 DEF Task
<1> HIDE DEF b
<1>3. x \in Task /\ x.on = r /\ x.pc = "cascade" /\ x.confirmed = task[s].confirmed
  BY <1>0, <1>2 DEF Task
<1>4. StopResource(s, x) BY <1>1 DEF b
<1>5. ~task[s].confirmed BY <1>0 DEF StopInv, ConfirmedInv, Unsettled
<1> HIDE DEF x
<1>6. PICK me \in Task : me = x BY <1>3
<1>7. StopResource(s, me) BY <1>4, <1>6
<1> QED BY <1>0, <1>2, <1>3, <1>5, <1>6, <1>7, StopResourceStops

\* A stopper that works on no resource afterwards.
LEMMA StopperMovesStops ==
  ASSUME StopInv, [Next]_vars, NEW s \in Stoppers,
         \A u \in Tasks \ {s} : task'[u] = task[u],
         task'[s].pc \notin Stopping \/ task'[s].confirmed,
         task'[s].pc \in Unsettled => ~task'[s].confirmed, task'[s].pc # "adrift",
         UNCHANGED <<row, stopLock, reg>>
  PROVE  StopGoal
<1>1. \A u \in Stoppers \ {s} : task'[u] = task[u] BY Names
<1>2. \A q \in Rs : task'[q] = task[q] BY Names
<1>3. \A q \in Rs : Quiet(q)
  <2> TAKE q \in Rs
  <2>1. ~InStop(s, q)' BY DEF InStop
  <2> QED BY <1>1, <1>2, <2>1, QuietElsewhere
<1>4. \A q \in Rs : ResourceInv(q)'
  BY <1>3, QuietKeeps, InspectSteps, Histories DEF StopInv
<1>5. ConfirmedInv' /\ AdriftInv' BY <1>1, StoppersKept, Histories
<1>6. KeyInv' BY KeyLost DEF ActiveRow
<1> QED BY <1>4, <1>5, <1>6 DEF StopGoal

LEMMA ClaimActionStops ==
  ASSUME StopInv, [Next]_vars, ClaimAction PROVE StopGoal
<1>0. TypeInv BY DEF StopInv
<1>1. UNCHANGED <<job, locks, reg, cancelling, orphans, faults>> /\ action.on \in Rs
  BY <1>0, ClaimActionParts
<1>2. CASE /\ task'["loop"].pc = "finalize" /\ task'["loop"].confirmed
           /\ \A u \in Tasks \ {"loop"} : task'[u] = task[u]
           /\ UNCHANGED <<row, stops>>
  <2>1. task'["loop"].pc \notin Unsettled /\ task'["loop"].pc # "adrift"
    BY <1>2 DEF Unsettled, Stopping
  <2>2. UNCHANGED <<row, stopLock, reg>> BY <1>1, <1>2 DEF stops
  <2> QED BY <1>2, <2>1, <2>2, StopperMovesStops, Names
<1>3. CASE UNCHANGED <<row, task, stops>>
  <2>1. UNCHANGED <<row, stopLock, reg>> BY <1>1, <1>3 DEF stops
  <2>2. \A q \in Rs : Quiet(q) BY <1>3, <2>1 DEF Quiet, ActiveRow, Live, InStop
  <2>3. \A q \in Rs : ResourceInv(q)'
    BY <2>2, QuietKeeps, InspectSteps, Histories DEF StopInv
  <2>4. ConfirmedInv' /\ AdriftInv' BY <1>3, Histories DEF StopInv, ConfirmedInv, AdriftInv
  <2>5. KeyInv' BY <2>1, KeyLost DEF ActiveRow
  <2> QED BY <2>3, <2>4, <2>5 DEF StopGoal
<1>4. ASSUME NEW me \in Task, me.on = action.on, me.confirmed = FALSE, me.pc = "idle",
             StopResource("loop", me)
      PROVE  StopGoal
  <2>1. me.on \in Rs /\ ~me.confirmed /\ me.pc # "adrift" /\ reg' = reg BY <1>1, <1>4
  <2> QED BY <1>4, <2>1, StopResourceStops, Names
<1> QED BY <1>0, <1>2, <1>3, <1>4, ClaimActionParts

LEMMA StoppersMoveStops ==
  ASSUME StopInv, [Next]_vars
  PROVE  /\ \A s \in Stoppers : BeginCascade(s) \/ CascadeEnds(s) => StopGoal
         /\ RunnerWaits \/ WaitEnds => StopGoal
<1>0. TypeInv /\ task \in [Tasks -> Task] BY DEF StopInv, TypeInv, TypeOK
<1>1. ASSUME NEW s \in Stoppers, BeginCascade(s) PROVE StopGoal
  <2> DEFINE idle == Idle("cascade", None)
  <2>1. idle \in Task /\ idle.pc = "cascade" /\ idle.confirmed = FALSE
    BY IdleTask DEF PCs, StopperPCs
  <2> HIDE DEF idle
  <2>2. /\ CascadeOf(idle).pc = "cascade" /\ CascadeOf(idle).confirmed = FALSE
        /\ CascadeOf(idle) \in Task
    BY <2>1 DEF CascadeOf, Task, StopperPCs
  <2>3. PICK x \in {idle, CascadeOf(idle)} : task' = [task EXCEPT ![s] = x]
    BY <1>1 DEF BeginCascade, idle
  <2>4. /\ task'[s].pc = "cascade" /\ ~task'[s].confirmed
        /\ \A u \in Tasks \ {s} : task'[u] = task[u]
    BY <1>0, <2>1, <2>2, <2>3, Names
  <2>5. UNCHANGED <<row, stopLock, reg>> BY <1>1 DEF BeginCascade, stops
  <2>6. task'[s].pc \notin Stopping BY <2>4 DEF Stopping
  <2> QED BY <2>4, <2>5, <2>6, StopperMovesStops
<1>2. ASSUME NEW s \in Stoppers, CascadeEnds(s) PROVE StopGoal
  <2> DEFINE pc == IF s = "loop" THEN "idle" ELSE "after"
  <2>1. pc \in PCs /\ pc \in {"idle", "after"} /\ None \in Rs \cup {None}
    BY DEF PCs, StopperPCs
  <2>2. task' = [task EXCEPT ![s] = Idle(pc, None)] BY <1>2 DEF CascadeEnds
  <2> HIDE DEF pc
  <2>3. Idle(pc, None).pc = pc BY <2>1, IdleTask
  <2>4. task'[s].pc = pc /\ \A u \in Tasks \ {s} : task'[u] = task[u]
    BY <1>0, <2>2, <2>3, Names
  <2>5. UNCHANGED <<row, stopLock, reg>> BY <1>2 DEF CascadeEnds, stops
  <2>6. task'[s].pc \notin Stopping \cup Unsettled \cup {"adrift"}
    BY <2>1, <2>4 DEF Stopping, Unsettled
  <2> QED BY <2>4, <2>5, <2>6, StopperMovesStops
<1>3. ASSUME RunnerWaits \/ WaitEnds PROVE StopGoal
  <2>1. PICK pc \in {"waiting", "after", "raised"} : task' = Goto("runner", pc)
    BY <1>3 DEF RunnerWaits, WaitEnds
  <2>2. pc \in PCs BY DEF PCs, StopperPCs
  <2>3. task'["runner"].pc = pc /\ \A u \in Tasks \ {"runner"} : task'[u] = task[u]
    BY <1>0, <2>1, <2>2, GotoTask, Names
  <2>4. UNCHANGED <<row, stopLock, reg>> BY <1>3 DEF RunnerWaits, WaitEnds, stops
  <2>5. task'["runner"].pc \notin Stopping \cup Unsettled \cup {"adrift"}
    BY <2>3 DEF Stopping, Unsettled
  <2> QED BY <2>3, <2>4, <2>5, StopperMovesStops, Names
<1> QED BY <1>1, <1>2, <1>3

-----------------------------------------------------------------------------
(* A stop goes on.                                                         *)

\* An inspection of a stop ends.
LEMMA StopInspectsStops ==
  ASSUME StopInv, [Next]_vars, NEW s \in Stoppers, NEW r \in Rs, r = task[s].on,
         task[s].pc \in {"check", "watch"}, inspecting[r] = s, StopInspected(s),
         NEW pc \in {"ask", "sleep", "finalize"}, task' = Goto(s, pc),
         pc = "finalize" => row'[r].terminal,
         EndInspection(s), job' = job, UNCHANGED <<stops, reg>>
  PROVE  StopGoal
<1>0. /\ TypeInv /\ task \in [Tasks -> Task] /\ s \in Tasks /\ ~task[s].confirmed
      /\ row[r] \in Row /\ sample[r] \in Jobs /\ row \in [Rs -> Row]
      /\ sample[r] = "completed" => job[r] = "completed"
  BY Names DEF StopInv, TypeInv, TypeOK, ConfirmedInv, Unsettled, Stopping, SampleInv
<1>1. /\ task'[s].pc = pc /\ task'[s].on = r /\ ~task'[s].confirmed
      /\ \A u \in Tasks \ {s} : task'[u] = task[u]
  <2>1. pc \in PCs BY DEF PCs, StopperPCs, Stopping
  <2> QED BY <1>0, <2>1, GotoTask
<1>2. \A q \in Rs : task'[q] = task[q] BY <1>1, Names
<1>3. \A u \in Stoppers \ {s} : task'[u] = task[u] BY <1>1, Names
<1>4. PICK w \in Row :
           /\ row'[r] = w /\ \A q \in Rs \ {r} : row'[q] = row[q]
           /\ w.known = row[r].known
           /\ \/ /\ w.terminal = (sample[r] # "running")
                 /\ w.terminal => w.disp = "cancelled"
                 /\ ~w.terminal => /\ w.disp = row[r].disp /\ w.closed = row[r].closed
                                   /\ row[r].status = "stopping" => w.status = "stopping"
              \/ /\ w.terminal = row[r].terminal /\ w.disp = row[r].disp
                 /\ w.closed = row[r].closed /\ w.status = "stopping"
  <2>1. "cancelled" \in Disposition /\ "stopping" \in Status /\ FALSE \in BOOLEAN
    BY DEF Disposition, Status
  <2>2. CASE row' = [row EXCEPT ![r] = Inspected(r, "cancelled", FALSE)]
    <3> DEFINE w == Inspected(r, "cancelled", FALSE)
    <3>1. /\ w \in Row /\ w.known = row[r].known
          /\ w.terminal = (sample[r] # "running")
          /\ w.terminal => w.disp = "cancelled"
          /\ ~w.terminal => /\ w.disp = row[r].disp /\ w.closed = row[r].closed
                            /\ row[r].status = "stopping" => w.status = "stopping"
      BY <1>0, <2>1, InspectedRow DEF SameIdentity
    <3> HIDE DEF w
    <3>2. row'[r] = w /\ \A q \in Rs \ {r} : row'[q] = row[q] BY <1>0, <2>2 DEF w
    <3> QED BY <3>1, <3>2
  <2>3. CASE row' = [row EXCEPT ![r] = SetStatus(@, "stopping")]
    <3> DEFINE w == SetStatus(row[r], "stopping")
    <3>1. /\ w \in Row /\ w.known = row[r].known /\ w.terminal = row[r].terminal
          /\ w.disp = row[r].disp /\ w.closed = row[r].closed /\ w.status = "stopping"
      BY <1>0, <2>1, SetStatusRow DEF SameIdentity
    <3>2. row'[r] = w /\ \A q \in Rs \ {r} : row'[q] = row[q] BY <1>0, <2>3
    <3> HIDE DEF w
    <3> QED BY <3>1, <3>2
  <2> QED BY <2>2, <2>3 DEF StopInspected
<1>5. inspecting'[r] = None
  <2>1. inspecting' = Release(inspecting, r, s) BY DEF EndInspection
  <2> QED BY <1>0, <2>1 DEF Release, TypeInv, TypeOK
<1>6. Sure(r) => Sure(r)' BY InspectSteps, Inspecting, <1>0 DEF SampleInv
<1>7. sample[r] = "completed" => Sure(r)' BY <1>0, <1>5, SureAfterwards
<1>8. \A q \in Rs \ {r} : Quiet(q)
  <2> TAKE q \in Rs \ {r}
  <2>1. reg' = reg /\ stopLock' = stopLock BY DEF stops
  <2> QED BY <1>1, <1>2, <1>3, <1>4, <2>1, QuietElsewhere
<1>9. ASSUME r \notin astray PROVE (StopPart(r) /\ EndedPart(r) /\ PollPart(r) /\ WatchPart(r))'
  <2>1. StopPart(r) /\ EndedPart(r) /\ PollPart(r) /\ WatchPart(r)
    BY <1>9 DEF StopInv, ResourceInv
  <2>2. InStop(s, r) BY <1>0 DEF InStop, Stopping
  <2>3. /\ stopLock[r] = s /\ (row[r].terminal => Sure(r))
        /\ row[r].terminal \/ row[r].status = "stopping"
    BY <2>1, <2>2 DEF StopPart
  <2>4. row[r].terminal => w.terminal
    BY <1>4, <2>3, Names DEF Sure
  <2>5. w.terminal => Sure(r)'
    BY <1>0, <1>4, <1>6, <1>7, <2>3 DEF Jobs
  <2>6. w.terminal \/ w.status = "stopping" BY <1>4, <2>3, <2>4
  <2>7. StopPart(r)'
    <3> SUFFICES ASSUME NEW u \in Stoppers, InStop(u, r)'
                 PROVE  /\ stopLock'[r] = u
                        /\ row'[r].terminal => Sure(r)'
                        /\ row'[r].terminal \/ row'[r].status = "stopping"
                        /\ task'[u].pc \in {"finalize", "last"} => row'[r].terminal
      BY DEF StopPart
    <3>1. u = s
      <4> SUFFICES ASSUME u # s PROVE FALSE OBVIOUS
      <4>1. InStop(u, r) BY <1>3 DEF InStop
      <4> QED BY <2>1, <2>3, <4>1 DEF StopPart
    <3>2. stopLock'[r] = s BY <2>3 DEF stops
    <3> QED BY <1>1, <1>4, <2>5, <2>6, <3>1, <3>2
  <2>8. EndedPart(r)' BY <1>2, <1>4, <2>1, <2>4, <2>5 DEF EndedPart
  <2>9. PollPart(r)'
    <3>1. ~w.terminal => (ActiveRow(r)' = ActiveRow(r)) BY <1>4, <2>4 DEF ActiveRow
    <3> QED BY <1>2, <1>4, <2>1, <2>4, <3>1 DEF PollPart
  <2>10. WatchPart(r)'
    <3>1. Live(r)' = Live(r) BY <1>2 DEF Live
    <3>2. ActiveRow(r)' => ActiveRow(r) /\ (Settled(r) => Settled(r)')
      BY <1>4, <2>4 DEF ActiveRow, Settled
    <3>3. r \notin orphans' => r \notin orphans BY Histories
    <3> QED BY <2>1, <3>1, <3>2, <3>3 DEF WatchPart, AllBlocking
  <2> QED BY <2>7, <2>8, <2>9, <2>10
<1>10. ResourceInv(r)' BY <1>9, AstrayKept DEF ResourceInv
<1>11. \A q \in Rs : ResourceInv(q)' BY <1>8, <1>10, OneResource
<1>12. ConfirmedInv' /\ AdriftInv'
  <2>1. task'[s].pc # "adrift" BY <1>1
  <2> QED BY <1>1, <1>3, <2>1, StoppersKept, Histories
<1>13. KeyInv'
  <2>1. ActiveRow(r)' => ActiveRow(r) BY <1>4 DEF ActiveRow
  <2> QED BY <1>4, <2>1, KeyKept
<1> QED BY <1>11, <1>12, <1>13 DEF StopGoal

LEMMA CheckEndsStops ==
  ASSUME StopInv, [Next]_vars, NEW s \in Stoppers, CheckEnds(s) PROVE StopGoal
<1>0. TypeInv BY DEF StopInv
<1>1. /\ task[s].pc = "check" /\ inspecting[task[s].on] = s /\ StopInspected(s)
      /\ task' \in {Goto(s, "ask"), Goto(s, "finalize")}
      /\ task' = Goto(s, "finalize") => row'[task[s].on].terminal \/ Goto(s, "finalize") = Goto(s, "ask")
      /\ EndInspection(s) /\ UNCHANGED <<job, stops, reg>>
  BY <1>0, CheckEndsParts
<1>2. PICK r \in Rs : r = task[s].on BY <1>0, <1>1 DEF TypeInv, TasksInv, Busy, Stopping
<1>3. PICK pc \in {"ask", "sleep", "finalize"} :
        task' = Goto(s, pc) /\ (pc = "finalize" => row'[r].terminal)
  BY <1>1, <1>2
<1> QED BY <1>1, <1>2, <1>3, StopInspectsStops

LEMMA WatchEndsStops ==
  ASSUME StopInv, [Next]_vars, NEW s \in Stoppers, WatchEnds(s) PROVE StopGoal
<1>0. TypeInv BY DEF StopInv
<1>1. /\ task[s].pc = "watch" /\ inspecting[task[s].on] = s /\ StopInspected(s)
      /\ task' \in {Goto(s, "sleep"), Goto(s, "finalize")}
      /\ task' = Goto(s, "finalize") => row'[task[s].on].terminal \/ Goto(s, "finalize") = Goto(s, "sleep")
      /\ EndInspection(s) /\ UNCHANGED <<job, stops, reg>>
  BY <1>0, WatchEndsParts
<1>2. PICK r \in Rs : r = task[s].on BY <1>0, <1>1 DEF TypeInv, TasksInv, Busy, Stopping
<1>3. PICK pc \in {"ask", "sleep", "finalize"} :
        task' = Goto(s, pc) /\ (pc = "finalize" => row'[r].terminal)
  BY <1>1, <1>2
<1> QED BY <1>1, <1>2, <1>3, StopInspectsStops

\* A stop that was accepted, or sleeps, looks at the row.
LEMMA StopLooksStops ==
  ASSUME StopInv, [Next]_vars, NEW s \in Stoppers, AskEnds(s) \/ StopWakes(s) PROVE StopGoal
<1>0. TypeInv /\ task \in [Tasks -> Task] /\ s \in Tasks BY Names DEF StopInv, TypeInv, TypeOK
<1>1. UNCHANGED <<row, stopLock, reg>> /\ task[s].pc \in {"ask", "sleep"}
  BY DEF AskEnds, StopWakes, stops
<1>2. ~task[s].confirmed BY <1>1 DEF StopInv, ConfirmedInv, Unsettled, Stopping
<1>3. PICK r \in Rs : r = task[s].on BY <1>0, <1>1 DEF TypeInv, TasksInv, Busy, Stopping
<1>4. /\ task'[s].on = r /\ ~task'[s].confirmed
      /\ task'[s].pc = IF row[r].terminal THEN "finalize" ELSE "watch"
      /\ \A u \in Stoppers \ {s} : task'[u] = task[u]
      /\ \A q \in Rs : task'[q] = task[q] \/ (task[q].pc \in {"none", "done"} /\ task'[q].pc = "start")
  <2>1. CASE AskEnds(s) BY <1>0, <1>2, <1>3, <2>1, AskEndsParts
  <2>2. CASE StopWakes(s)
    <3> DEFINE pc == Accepted(s, row[r])
    <3>1. task' = Goto(s, pc) BY <1>3, <2>2 DEF StopWakes
    <3>2. pc \in PCs /\ pc = IF row[r].terminal THEN "finalize" ELSE "watch"
      BY DEF Accepted, PCs, StopperPCs, Stopping
    <3> HIDE DEF pc
    <3>3. /\ task'[s].on = r /\ task'[s].pc = pc /\ task'[s].confirmed = task[s].confirmed
          /\ \A u \in Tasks \ {s} : task'[u] = task[u]
      BY <1>0, <1>3, <3>1, <3>2, GotoTask
    <3> QED BY <1>2, <3>2, <3>3, Names
  <2> QED BY <2>1, <2>2
<1>5. \A q \in Rs : Quiet(q)
  <2> TAKE q \in Rs
  <2>1. ActiveRow(q)' = ActiveRow(q) BY <1>1 DEF ActiveRow
  <2>2. Live(q) => Live(q)' BY <1>4 DEF Live
  <2>3. ASSUME NEW u \in Stoppers, InStop(u, q)'
        PROVE  /\ InStop(u, q)
               /\ task'[u].pc \in {"finalize", "last"} =>
                    task[u].pc \in {"finalize", "last"} \/ row[q].terminal
    <3>1. CASE u = s
      <4>1. q = r BY <1>4, <2>3, <3>1 DEF InStop
      <4>2. InStop(s, r) BY <1>1, <1>2, <1>3 DEF InStop, Stopping
      <4> QED BY <1>4, <3>1, <4>1, <4>2
    <3>2. CASE u # s BY <1>4, <2>3, <3>2 DEF InStop
    <3> QED BY <3>1, <3>2
  <2>4. /\ task'[q].pc \in {"finalize", "last"} => task[q].pc \in {"finalize", "last"}
        /\ task'[q].pc = "poll" => task[q].pc = "poll"
    BY <1>4
  <2> QED BY <1>1, <2>1, <2>2, <2>3, <2>4 DEF Quiet
<1>6. \A q \in Rs : ResourceInv(q)'
  BY <1>5, QuietKeeps, InspectSteps, Histories DEF StopInv
<1>7. ConfirmedInv' /\ AdriftInv'
  <2>1. task'[s].pc # "adrift" BY <1>4
  <2> QED BY <1>4, <2>1, StoppersKept, Histories
<1>8. KeyInv' BY <1>1, KeyLost DEF ActiveRow
<1> QED BY <1>6, <1>7, <1>8 DEF StopGoal

LEMMA StopFailsStops ==
  ASSUME StopInv, [Next]_vars, NEW s \in Stoppers, AskFails(s) \/ StopTimesOut(s)
  PROVE  StopGoal
<1>0. TypeInv BY DEF StopInv
<1>1. /\ task[s].pc \in Stopping /\ ~task[s].confirmed /\ reg' = reg
      /\ \E w \in Row : /\ StopEnds(s, w, FALSE) /\ SameIdentity(w, row[task[s].on])
                        /\ w.terminal = row[task[s].on].terminal
                        /\ w.closed = row[task[s].on].closed
                        /\ w.disp = row[task[s].on].disp
  <2>1. CASE AskFails(s)
    <3>1. task[s].pc = "ask" BY <2>1 DEF AskFails
    <3>2. ~task[s].confirmed /\ task[s].pc \in Stopping
      BY <3>1 DEF StopInv, ConfirmedInv, Unsettled, Stopping
    <3> QED BY <1>0, <2>1, <3>2, AskFailsParts
  <2>2. CASE StopTimesOut(s) BY <1>0, <2>2, StopTimesOutParts
  <2> QED BY <2>1, <2>2
<1>2. PICK r \in Rs : r = task[s].on BY <1>0, <1>1 DEF TypeInv, TasksInv, Busy
<1>3. PICK w \in Row : /\ StopEnds(s, w, FALSE) /\ SameIdentity(w, row[r])
                       /\ w.terminal = row[r].terminal
                       /\ w.closed = row[r].closed /\ w.disp = row[r].disp
  BY <1>1, <1>2
<1>4. FALSE \in BOOLEAN OBVIOUS
<1> QED BY <1>1, <1>2, <1>3, <1>4, StopEndsStops

-----------------------------------------------------------------------------
(* Retirement: what is left of a resource in memory is thrown away.        *)

\* A stop lock that is thrown away in use is one of `astray`.
LEMMA PruneParts ==
  ASSUME StopInv, NEW o \in Rs, Prune(o)
  PROVE  /\ \A q \in Rs : \/ q \in astray' \/ stopLock'[q] = stopLock[q]
                          \/ \A s \in Stoppers : ~InStop(s, q)
         /\ \A s \in Stoppers : task[s].pc = "queued" /\ task[s].on = o => o \in astray'
<1>1. stopLock \in [Rs -> Stoppers \cup {None}] BY DEF StopInv, TypeInv, TypeOK
<1>2. /\ stopLock' = [stopLock EXCEPT ![o] = None]
      /\ (\E s \in Stoppers : UsesStopLock(s, o)) => o \in astray'
  BY DEF Prune
<1>3. \A s \in Stoppers : InStop(s, o) => UsesStopLock(s, o) BY DEF InStop, UsesStopLock
<1>4. \A s \in Stoppers : task[s].pc = "queued" /\ task[s].on = o => UsesStopLock(s, o)
  BY DEF UsesStopLock, StopInv, ConfirmedInv, Unsettled
<1> QED BY <1>1, <1>2, <1>3, <1>4

\* The tasks keep their places, but for one stopper that is not in a stop
\* afterwards and those that waited for the lock.
LEMMA RetiredQuiet ==
  ASSUME StopInv, NEW o \in Rs, Prune(o) \/ UNCHANGED <<stopLock, marked, astray>>,
         \A u \in Stoppers :
           \/ task'[u].pc \notin Stopping
           \/ /\ task'[u].on = task[u].on /\ task'[u].confirmed = task[u].confirmed
              /\ task'[u].pc = task[u].pc,
         NEW q \in Rs
  PROVE  /\ \A s \in Stoppers : InStop(s, q)' =>
              /\ InStop(s, q)
              /\ task'[s].pc \in {"finalize", "last"} =>
                   task[s].pc \in {"finalize", "last"} \/ row[q].terminal
         /\ \/ q \in astray' \/ stopLock'[q] = stopLock[q]
            \/ \A s \in Stoppers : ~InStop(s, q)'
<1>1. \A s \in Stoppers : InStop(s, q)' => InStop(s, q) /\ task'[s].pc = task[s].pc
  BY DEF InStop
<1>2. \/ q \in astray' \/ stopLock'[q] = stopLock[q]
      \/ \A s \in Stoppers : ~InStop(s, q)
  BY PruneParts
<1> QED BY <1>1, <1>2

LEMMA AdapterClosesStops ==
  ASSUME StopInv, [Next]_vars, NEW r \in Rs, AdapterCloses(r) PROVE StopGoal
<1>0. TypeInv /\ task \in [Tasks -> Task] BY DEF StopInv, TypeInv, TypeOK
<1>1. task' = Pruned(r) /\ Prune(r) /\ UNCHANGED <<row, reg>> BY DEF AdapterCloses
<1>2. /\ \A q \in Rs : task'[q] = task[q]
      /\ \A u \in Stoppers :
           /\ task'[u].on = task[u].on /\ task'[u].confirmed = task[u].confirmed
           /\ \/ task'[u].pc = task[u].pc
              \/ task[u].pc = "queued" /\ task'[u].pc = "adrift" /\ task[u].on = r
  BY <1>0, <1>1, PrunedTask
<1>3. \A q \in Rs : Quiet(q)
  <2> TAKE q \in Rs
  <2>1. ActiveRow(q)' = ActiveRow(q) /\ Live(q)' = Live(q) BY <1>1, <1>2 DEF ActiveRow, Live
  <2>2. \A u \in Stoppers :
           \/ task'[u].pc \notin Stopping
           \/ /\ task'[u].on = task[u].on /\ task'[u].confirmed = task[u].confirmed
              /\ task'[u].pc = task[u].pc
    BY <1>2 DEF Stopping
  <2>3. /\ \A s \in Stoppers : InStop(s, q)' =>
              /\ InStop(s, q)
              /\ task'[s].pc \in {"finalize", "last"} =>
                   task[s].pc \in {"finalize", "last"} \/ row[q].terminal
        /\ \/ q \in astray' \/ stopLock'[q] = stopLock[q]
           \/ \A s \in Stoppers : ~InStop(s, q)'
    BY <1>1, <2>2, RetiredQuiet
  <2> QED BY <1>1, <1>2, <2>1, <2>3 DEF Quiet
<1>4. \A q \in Rs : ResourceInv(q)'
  BY <1>3, QuietKeeps, InspectSteps, Histories DEF StopInv
<1>5. ConfirmedInv'
  BY <1>2 DEF StopInv, ConfirmedInv, Unsettled
<1>6. AdriftInv'
  BY <1>1, <1>2, PruneParts, Histories DEF StopInv, AdriftInv
<1>7. KeyInv' BY <1>1, KeyLost DEF ActiveRow
<1> QED BY <1>4, <1>5, <1>6, <1>7 DEF StopGoal

LEMMA StopReturnsStops ==
  ASSUME StopInv, [Next]_vars, NEW s \in Stoppers, StopReturns(s) PROVE StopGoal
<1>0. TypeInv BY DEF StopInv
<1>1. UNCHANGED <<row, reg>> BY DEF StopReturns
<1>2. PICK r \in Rs : r = task[s].on BY <1>0, StopReturnsParts
<1>3. /\ task'[s].pc \in {"cascade", "begin", "idle"} /\ task'[s].confirmed = FALSE
      /\ \A q \in Rs : task'[q] = task[q] \/ (~Live(q) /\ task'[q].pc = "none")
      /\ \A u \in Stoppers \ {s} :
              /\ task'[u].on = task[u].on /\ task'[u].confirmed = task[u].confirmed
              /\ \/ task'[u].pc = task[u].pc
                 \/ /\ task[u].pc = "queued" /\ task'[u].pc = "adrift"
                    /\ Prune(r) /\ task[u].on = r
      /\ Prune(r) \/ UNCHANGED <<stopLock, marked, astray>>
  <2>1. \A q \in Rs : "none" \in PCs /\ q \in Rs \cup {None} BY DEF PCs, MonitorPCs
  <2>2. \A q \in Rs : Idle("none", q).pc = "none" BY <2>1, IdleTask
  <2>3. \A q \in Rs : task'[q] = task[q] \/ (~Live(q) /\ task'[q].pc = "none")
    BY <1>0, <2>2, StopReturnsParts
  <2>4. IF task[s].prune THEN Prune(r) ELSE UNCHANGED <<stopLock, marked, astray>>
    BY <1>0, <1>2, StopReturnsParts
  <2>5. /\ task'[s].pc \in {"cascade", "begin", "idle"} /\ task'[s].confirmed = FALSE
        /\ \A u \in Stoppers \ {s} :
             /\ task'[u].on = task[u].on /\ task'[u].confirmed = task[u].confirmed
             /\ \/ task'[u].pc = task[u].pc
                \/ /\ task[u].pc = "queued" /\ task'[u].pc = "adrift"
                   /\ task[s].prune /\ task[u].on = r
    BY <1>0, <1>2, StopReturnsParts
  <2> QED BY <2>3, <2>4, <2>5
<1>4. \A q \in Rs : Quiet(q)
  <2> TAKE q \in Rs
  <2>1. ActiveRow(q)' = ActiveRow(q) BY <1>1 DEF ActiveRow
  <2>2. Live(q)' = Live(q) BY <1>3 DEF Live
  <2>3. \A u \in Stoppers :
           \/ task'[u].pc \notin Stopping
           \/ /\ task'[u].on = task[u].on /\ task'[u].confirmed = task[u].confirmed
              /\ task'[u].pc = task[u].pc
    BY <1>3 DEF Stopping
  <2>4. /\ \A u \in Stoppers : InStop(u, q)' =>
              /\ InStop(u, q)
              /\ task'[u].pc \in {"finalize", "last"} =>
                   task[u].pc \in {"finalize", "last"} \/ row[q].terminal
        /\ \/ q \in astray' \/ stopLock'[q] = stopLock[q]
           \/ \A u \in Stoppers : ~InStop(u, q)'
    BY <1>3, <2>3, RetiredQuiet
  <2> QED BY <1>1, <1>3, <2>1, <2>2, <2>4 DEF Quiet
<1>5. \A q \in Rs : ResourceInv(q)'
  BY <1>4, QuietKeeps, InspectSteps, Histories DEF StopInv
<1>6. ConfirmedInv'
  BY <1>3 DEF StopInv, ConfirmedInv, Unsettled
<1>7. AdriftInv'
  <2> SUFFICES ASSUME NEW u \in Stoppers, task'[u].pc = "adrift"
               PROVE  task'[u].on \in astray'
    BY DEF AdriftInv
  <2>1. u # s BY <1>3
  <2>2. astray \subseteq astray' BY Histories
  <2>3. CASE task'[u].pc = task[u].pc BY <1>3, <2>1, <2>2, <2>3 DEF StopInv, AdriftInv
  <2>4. CASE task[u].pc = "queued" /\ Prune(r) /\ task[u].on = r
    BY <1>3, <2>1, <2>4, PruneParts
  <2> QED BY <1>3, <2>1, <2>3, <2>4
<1>8. KeyInv' BY <1>1, KeyLost DEF ActiveRow
<1> QED BY <1>5, <1>6, <1>7, <1>8 DEF StopGoal

LEMMA RegisterEndsStops ==
  ASSUME StopInv, [Next]_vars, RegisterEnds PROVE StopGoal
<1>0. TypeInv /\ row \in [Rs -> Row] BY DEF StopInv, TypeInv, TypeOK
<1>1. PICK n \in Rs, o \in Rs : n = reg.on /\ o = reg.old BY <1>0, RegisterEndsParts
<1>2. /\ row[n].known /\ \A q \in Rs \ {n} : task'[q] = task[q]
      /\ task'[n] = task[n] \/ task'[n].pc = "start"
      /\ row[n].life.monitor => Live(n)'
      /\ \A s \in Stoppers : /\ task'[s].on = task[s].on
                             /\ task'[s].confirmed = task[s].confirmed
                             /\ \/ task'[s].pc = task[s].pc
                                \/ /\ task[s].pc = "queued" /\ task'[s].pc = "adrift"
                                   /\ task[s].on = o /\ Prune(o)
      /\ Prune(o) \/ UNCHANGED <<stopLock, marked, astray>>
      /\ reg' = NoRegistration
  BY <1>0, <1>1, RegisterEndsParts DEF Live
<1>3. PICK closed \in BOOLEAN :
        /\ row' = [row EXCEPT ![n] = [row[n] EXCEPT !.closed = closed]]
        /\ row[n].closed => closed
  BY <1>0, <1>1, RegisterEndsParts
<1>4. \A q \in Rs : /\ row'[q].status = row[q].status /\ row'[q].terminal = row[q].terminal
                    /\ row[q].closed => row'[q].closed
                    /\ row'[q].known = row[q].known /\ row'[q].disp = row[q].disp
  BY <1>0, <1>3, ClosedRow DEF SameIdentity
<1>5. \A q \in Rs : ActiveRow(q)' = ActiveRow(q) BY <1>4 DEF ActiveRow
<1>6. AllBlocking(n) => Live(n)'
  BY <1>0, <1>2, LifecycleTypes DEF AllBlocking, TypeInv, KnownInv
<1>7. \A q \in Rs : Quiet(q)
  <2> TAKE q \in Rs
  <2>1. Live(q) => Live(q)'
    <3>1. CASE q = n BY <1>2, <3>1 DEF Live
    <3>2. CASE q # n BY <1>2, <3>2 DEF Live
    <3> QED BY <3>1, <3>2
  <2>2. \A u \in Stoppers :
           \/ task'[u].pc \notin Stopping
           \/ /\ task'[u].on = task[u].on /\ task'[u].confirmed = task[u].confirmed
              /\ task'[u].pc = task[u].pc
    BY <1>2 DEF Stopping
  <2>3. /\ \A u \in Stoppers : InStop(u, q)' =>
              /\ InStop(u, q)
              /\ task'[u].pc \in {"finalize", "last"} =>
                   task[u].pc \in {"finalize", "last"} \/ row[q].terminal
        /\ \/ q \in astray' \/ stopLock'[q] = stopLock[q]
           \/ \A u \in Stoppers : ~InStop(u, q)'
    BY <1>2, <2>2, RetiredQuiet
  <2>4. task'[q] = task[q] \/ task'[q].pc = "start"
    <3>1. CASE q = n BY <1>2, <3>1
    <3>2. CASE q # n BY <1>2, <3>2
    <3> QED BY <3>1, <3>2
  <2>5. reg.on = q /\ AllBlocking(q) => Live(q)' BY <1>1, <1>6
  <2> QED BY <1>4, <1>5, <2>1, <2>3, <2>4, <2>5 DEF Quiet
<1>8. \A q \in Rs : ResourceInv(q)'
  BY <1>7, QuietKeeps, InspectSteps, Histories DEF StopInv
<1>9. ConfirmedInv'
  BY <1>2 DEF StopInv, ConfirmedInv, Unsettled
<1>10. AdriftInv'
  <2> SUFFICES ASSUME NEW u \in Stoppers, task'[u].pc = "adrift"
               PROVE  task'[u].on \in astray'
    BY DEF AdriftInv
  <2>1. astray \subseteq astray' BY Histories
  <2>2. CASE task'[u].pc = task[u].pc BY <1>2, <2>1, <2>2 DEF StopInv, AdriftInv
  <2>3. CASE task[u].pc = "queued" /\ task[u].on = o /\ Prune(o) BY <1>2, <2>3, PruneParts
  <2> QED BY <1>2, <2>2, <2>3
<1>11. KeyInv' BY <1>5, KeyLost
<1> QED BY <1>8, <1>9, <1>10, <1>11 DEF StopGoal

-----------------------------------------------------------------------------
(* Registration, the end of the run, and a crash.                          *)

LEMMA RegisterStops ==
  ASSUME StopInv, [Next]_vars, NEW r \in Rs, Register(r) PROVE StopGoal
<1>0. TypeInv /\ TasksInv /\ KnownInv /\ KeyInv /\ task \in [Tasks -> Task]
  BY DEF StopInv, TypeInv, TypeOK
<1>1. PICK life \in Lifecycles[r], olds \in SUBSET (Rs \ {r}) :
           /\ \A q \in olds : q \in Keyed /\ ActiveRow(q)
           /\ r \in Keyed => \A q \in Keyed : ActiveRow(q) => q \in olds
           /\ ~row[r].known /\ task["runner"].pc = "idle" /\ reg = NoRegistration
           /\ row' \in [Rs -> Row]
           /\ row'[r].known /\ row'[r].life = life /\ row'[r].terminal = row[r].terminal
           /\ row'[r].status = row[r].status
           /\ \A q \in Rs \ {r} :
                /\ SameIdentity(row'[q], row[q]) /\ row'[q].terminal = row[q].terminal
                /\ row'[q].status = row[q].status
                /\ IF q \in olds THEN row'[q].closed /\ row'[q].disp = "superseded"
                   ELSE row'[q] = row[q]
           /\ UNCHANGED <<job, control, faults>>
           /\ \/ /\ olds = {} /\ UNCHANGED <<locks, stops, reg>>
                 /\ IF life.monitor THEN task' = Restarted(task, r) ELSE task' = task
              \/ \E q \in olds : /\ reg' = [on |-> r, old |-> q]
                                 /\ \/ Live(q) /\ CancelMonitor(q)
                                    \/ ~Live(q) /\ UNCHANGED <<task, locks, stops>>
  BY <1>0, RegisterParts
<1>2. task[r].on = r /\ task[r].pc = "none" /\ r \in Tasks /\ ~row[r].terminal
  BY <1>0, <1>1, Names DEF TasksInv, KnownInv
<1>3. /\ \A s \in Stoppers : task'[s] = task[s]
      /\ \A q \in Rs \ (olds \cup {r}) : task'[q] = task[q]
      /\ \A q \in olds : \/ task'[q].pc \in {"none", "done"}
                         \/ task'[q] = task[q] /\ ~Live(q)
      /\ task'[r].pc \in {"none", "start"}
      /\ reg'.on = r \/ (life.monitor => Live(r)')
      /\ UNCHANGED <<stopLock, astray>>
  <2>1. CASE /\ olds = {} /\ UNCHANGED <<locks, stops, reg>>
             /\ IF life.monitor THEN task' = Restarted(task, r) ELSE task' = task
    <3>1. /\ \A u \in Tasks \ {r} : task'[u] = task[u]
          /\ task'[r].pc = IF life.monitor THEN "start" ELSE "none"
      BY <1>0, <1>2, <2>1, RestartedTask
    <3>2. /\ \A s \in Stoppers : task'[s] = task[s]
          /\ \A q \in Rs \ (olds \cup {r}) : task'[q] = task[q]
      BY <3>1, Names
    <3> QED BY <2>1, <3>1, <3>2 DEF stops, Live
  <2>2. ASSUME NEW q \in olds, reg' = [on |-> r, old |-> q],
               \/ Live(q) /\ CancelMonitor(q)
               \/ ~Live(q) /\ UNCHANGED <<task, locks, stops>>
        PROVE  /\ \A s \in Stoppers : task'[s] = task[s]
               /\ \A p \in Rs \ (olds \cup {r}) : task'[p] = task[p]
               /\ \A p \in olds : \/ task'[p].pc \in {"none", "done"}
                                  \/ task'[p] = task[p] /\ ~Live(p)
               /\ task'[r].pc \in {"none", "start"}
               /\ reg'.on = r /\ UNCHANGED <<stopLock, astray>>
    <3>0. q \in Rs /\ q # r /\ \A p \in olds : p = q BY <1>0, <1>1 DEF KeyInv
    <3>1. CASE Live(q) /\ CancelMonitor(q)
      <4>1. MonitorEnds(q, [row[q] EXCEPT !.closed = TRUE]) /\ UNCHANGED <<stopLock, astray>>
        BY <3>1 DEF CancelMonitor
      <4>2. /\ task'[q].pc \in {"none", "done"} /\ \A u \in Tasks \ {q} : task'[u] = task[u]
        BY <1>0, <3>0, <4>1, MonitorEndsParts
      <4> QED BY <1>2, <2>2, <3>0, <4>1, <4>2, Names
    <3>2. CASE ~Live(q) /\ UNCHANGED <<task, locks, stops>>
      BY <1>2, <2>2, <3>0, <3>2 DEF stops
    <3> QED BY <2>2, <3>1, <3>2
  <2> QED BY <1>1, <2>1, <2>2
<1>4. \A q \in Rs \ {r} : Quiet(q)
  <2> TAKE q \in Rs \ {r}
  <2>1. /\ row'[q].status = row[q].status /\ row'[q].terminal = row[q].terminal
        /\ row[q].closed => row'[q].closed
        /\ ActiveRow(q)' => ActiveRow(q) /\ q \notin olds
        /\ q \notin olds => ActiveRow(q)' = ActiveRow(q)
    BY <1>1 DEF ActiveRow, SameIdentity
  <2>2. task'[q] = task[q] \/ task'[q].pc \in {"none", "done"} BY <1>3
  <2>3. task'[q].pc = "poll" => q \notin olds /\ task[q].pc = "poll"
    BY <1>3, <2>2 DEF Live
  <2>4. Live(q) /\ ActiveRow(q)' => Live(q)' BY <1>3, <2>1 DEF Live
  <2>5. reg.on # q BY <1>1, Names DEF NoRegistration
  <2>6. \A s \in Stoppers : InStop(s, q)' = InStop(s, q) BY <1>3 DEF InStop
  <2> QED BY <1>3, <2>1, <2>2, <2>3, <2>4, <2>5, <2>6 DEF Quiet
<1>5. (StopPart(r) /\ EndedPart(r) /\ PollPart(r) /\ WatchPart(r))'
  <2>1. \A s \in Stoppers : ~InStop(s, r)'
    BY <1>0, <1>1, <1>3 DEF InStop, TasksInv
  <2>2. WatchPart(r)'
    <3>1. AllBlocking(r) => life.monitor BY LifecycleTypes DEF AllBlocking
    <3> QED BY <1>3, <3>1 DEF WatchPart, AllBlocking
  <2> QED BY <1>1, <1>2, <1>3, <2>1, <2>2 DEF StopPart, EndedPart, PollPart
<1>6. ResourceInv(r)' BY <1>5 DEF ResourceInv
<1>7. \A q \in Rs : ResourceInv(q)' BY <1>4, <1>6, OneResource
<1>8. ConfirmedInv' /\ AdriftInv' BY <1>3 DEF StopInv, ConfirmedInv, AdriftInv
<1>9. KeyInv'
  <2>1. \A q \in Rs \ {r} : ActiveRow(q)' => ActiveRow(q) /\ q \notin olds
    BY <1>1 DEF ActiveRow, SameIdentity
  <2> QED BY <1>0, <1>1, <2>1, KeyedAreResources DEF KeyInv
<1> QED BY <1>7, <1>8, <1>9 DEF StopGoal

LEMMA CloseNonblockingStops ==
  ASSUME StopInv, [Next]_vars, CloseNonblocking PROVE StopGoal
<1>0. TypeInv /\ KnownInv BY DEF StopInv, TypeInv
<1>1. UNCHANGED <<stopLock, astray, reg>> BY DEF CloseNonblocking
<1>2. /\ task'["loop"] = task["loop"] /\ task'["runner"].pc = "ended"
      /\ \A q \in Rs : \/ task'[q] = task[q]
                       \/ ~row[q].life.blocking /\ task'[q].pc \in {"none", "done"}
      /\ \A q \in Rs : /\ SameIdentity(row'[q], row[q]) /\ row'[q].terminal = row[q].terminal
                       /\ row'[q].status = row[q].status /\ row'[q].disp = row[q].disp
                       /\ row[q].closed => row'[q].closed
  BY <1>0, CloseNonblockingTypes
<1>3. \A q \in Rs : ActiveRow(q)' = ActiveRow(q) BY <1>2 DEF ActiveRow, SameIdentity
<1>4. \A s \in Stoppers : task'[s] = task[s] \/ task'[s].pc = "ended"
  BY <1>2 DEF Stoppers
<1>5. \A q \in Rs : Quiet(q)
  <2> TAKE q \in Rs
  <2>1. Live(q) /\ AllBlocking(q) /\ ActiveRow(q) => Live(q)'
    BY <1>0, <1>2 DEF Live, AllBlocking, ActiveRow, KnownInv
  <2>2. \A s \in Stoppers : InStop(s, q)' => InStop(s, q) /\ task'[s] = task[s]
    BY <1>4 DEF InStop, Stopping
  <2>3. task'[q] = task[q] \/ task'[q].pc \in {"none", "done"} BY <1>2
  <2> QED BY <1>1, <1>2, <1>3, <2>1, <2>2, <2>3 DEF Quiet
<1>6. \A q \in Rs : ResourceInv(q)'
  BY <1>5, QuietKeeps, InspectSteps, Histories DEF StopInv
<1>7. ConfirmedInv' /\ AdriftInv'
  BY <1>1, <1>4 DEF StopInv, ConfirmedInv, AdriftInv, Unsettled, Stopping
<1>8. KeyInv' BY <1>3, KeyLost
<1> QED BY <1>6, <1>7, <1>8 DEF StopGoal

LEMMA CrashAndReopenStops ==
  ASSUME StopInv, [Next]_vars, CrashAndReopen PROVE StopGoal
<1>0. TypeInv /\ KnownInv BY DEF StopInv, TypeInv
<1>1. /\ \A s \in Stoppers : task'[s].pc = "idle"
      /\ \A q \in Rs : task'[q].pc = IF Pending(q) THEN "start" ELSE "none"
      /\ \A q \in Rs : inspecting'[q] = None
  BY <1>0, CrashAndReopenTypes
<1>2. /\ UNCHANGED <<row, job, astray>>
      /\ orphans' = orphans \cup {r \in Rs : ActiveRow(r) /\ row[r].status = "stopping"}
  BY DEF CrashAndReopen
<1>3. ASSUME NEW r \in Rs, r \notin astray
      PROVE  (StopPart(r) /\ EndedPart(r) /\ PollPart(r) /\ WatchPart(r))'
  <2>1. EndedPart(r) BY <1>3 DEF StopInv, ResourceInv
  <2>2. StopPart(r)' BY <1>1 DEF StopPart, InStop, Stopping
  <2>3. Sure(r) => Sure(r)' BY <1>1, <1>2 DEF Sure
  <2>4. EndedPart(r)' BY <1>1, <1>2, <2>1, <2>3 DEF EndedPart, Guessed
  <2>5. PollPart(r)' BY <1>1 DEF PollPart
  <2>6. WatchPart(r)'
    <3> SUFFICES ASSUME r \notin orphans', AllBlocking(r), ActiveRow(r)', ~Settled(r)'
                 PROVE  Live(r)'
      BY DEF WatchPart, AllBlocking
    <3>1. ActiveRow(r) /\ ~Settled(r) /\ row[r].known BY <1>2 DEF ActiveRow, Settled
    <3>2. row[r].status # "stopping" BY <1>2, <3>1
    <3>3. row[r].life.monitor
      BY <1>0, <3>1, LifecycleTypes DEF KnownInv, AllBlocking
    <3>4. Pending(r) BY <3>1, <3>2, <3>3 DEF Pending, Settled
    <3> QED BY <1>1, <3>4 DEF Live
  <2> QED BY <2>2, <2>4, <2>5, <2>6
<1>4. \A q \in Rs : ResourceInv(q)' BY <1>2, <1>3 DEF ResourceInv
<1>5. ConfirmedInv' /\ AdriftInv' BY <1>1 DEF ConfirmedInv, AdriftInv, Unsettled, Stopping
<1>6. KeyInv' BY <1>2, KeyLost DEF ActiveRow
<1> QED BY <1>4, <1>5, <1>6 DEF StopGoal

-----------------------------------------------------------------------------
(* Every step.                                                             *)

LEMMA StutterStops ==
  ASSUME StopInv, [Next]_vars, UNCHANGED vars PROVE StopGoal
<1>1. UNCHANGED <<row, task, reg, stopLock, astray>> BY DEF vars, stops
<1>2. \A q \in Rs : Quiet(q) BY <1>1 DEF Quiet, ActiveRow, Live, InStop
<1>3. \A q \in Rs : ResourceInv(q)'
  BY <1>2, QuietKeeps, InspectSteps, Histories DEF StopInv
<1>4. ConfirmedInv' /\ AdriftInv' BY <1>1 DEF StopInv, ConfirmedInv, AdriftInv
<1>5. KeyInv' BY <1>1, KeyLost DEF ActiveRow
<1> QED BY <1>3, <1>4, <1>5 DEF StopGoal

LEMMA NextStops ==
  ASSUME StopInv, [Next]_vars PROVE StopInv'
<1>1. StopGoal
  <2>1. ASSUME NEW r \in Rs, JobEnds(r) \/ Register(r) \/ Reconcile(r) \/ AdapterCloses(r)
                             \/ RequestStop(r)
        PROVE  StopGoal
    BY <2>1, RowStepStops, RegisterStops, AdapterClosesStops
  <2>2. ASSUME NEW r \in Rs, MonitorStep(r) PROVE StopGoal
    BY <2>2, MonitorWakesStops, PollEndsStops, PollFailsStops, TaskStops, Names DEF MonitorStep
  <2>3. ASSUME NEW s \in Stoppers, StopStep(s) PROVE StopGoal
    BY <2>3, StopDequeuedStops, CheckEndsStops, StopLooksStops, StopFailsStops, WatchEndsStops,
       StopReturnsStops, CascadeStopsStops, StoppersMoveStops, TaskStops, Names DEF StopStep
  <2>4. ASSUME NEW s \in Stoppers, BeginCascade(s) \/ StopTimesOut(s) PROVE StopGoal
    BY <2>4, StoppersMoveStops, StopFailsStops
  <2>5. RegisterEnds \/ ClaimAction \/ RunnerWaits \/ WaitEnds \/ CloseNonblocking
          \/ CrashAndReopen => StopGoal
    BY RegisterEndsStops, ClaimActionStops, StoppersMoveStops, CloseNonblockingStops,
       CrashAndReopenStops
  <2> QED BY <2>1, <2>2, <2>3, <2>4, <2>5, StutterStops DEF Next
<1>2. TypeInv' BY NextTypes DEF StopInv
<1>3. SampleInv' BY InspectSteps, Inspecting DEF StopInv, SampleInv
<1> QED BY <1>1, <1>2, <1>3 DEF StopGoal, StopInv

LEMMA InitStops == Init => StopInv
<1> SUFFICES ASSUME Init PROVE StopInv OBVIOUS
<1>1. TypeInv BY InitTypes
<1>2. /\ \A r \in Rs : /\ row[r].known = FALSE /\ row[r].terminal = FALSE
                       /\ sample[r] = "running"
  BY DEF Init
<1>3. /\ \A r \in Rs : task[r].pc = "none"
      /\ \A s \in Stoppers : task[s].pc = "idle"
  <2>1. \A t \in Rs : task[t] = Idle("none", t) BY Names DEF Init
  <2>2. \A s \in Stoppers : task[s] = Idle("idle", None) BY Names DEF Init
  <2>3. \A pc, on : Idle(pc, on).pc = pc BY DEF Idle
  <2>4. \A t \in Rs : task[t].pc = "none" BY <2>1, <2>3
  <2>5. \A s \in Stoppers : task[s].pc = "idle" BY <2>2, <2>3
  <2> QED BY <2>4, <2>5
<1>4. SampleInv BY <1>2 DEF SampleInv
<1>5. ConfirmedInv /\ AdriftInv BY <1>3 DEF ConfirmedInv, AdriftInv, Unsettled, Stopping
<1>6. KeyInv BY <1>2, KeyedAreResources DEF KeyInv, ActiveRow
<1>7. \A r \in Rs : StopPart(r) /\ EndedPart(r) /\ PollPart(r) /\ WatchPart(r)
  BY <1>2, <1>3 DEF StopPart, EndedPart, PollPart, WatchPart, InStop, Stopping, ActiveRow
<1> QED BY <1>1, <1>4, <1>5, <1>6, <1>7 DEF StopInv, ResourceInv

LEMMA StopInvHolds == Spec => []StopInv
<1>1. Init => StopInv BY InitStops
<1>2. StopInv /\ [Next]_vars => StopInv' BY NextStops
<1> QED BY <1>1, <1>2, PTL DEF Spec

\* Of all the tasks that stop a resource -- the operator's action, the cascade
\* of a cancellation, the runner -- one at a time is between the request and
\* the end of its stop: the stop lock does exclude them, whatever fails, ends
\* late or is retried meanwhile, until a retirement throws it away in use.
THEOREM StopsExclude == Spec => []OneStopAtATime
<1>1. StopInv => OneStopAtATime
  <2> SUFFICES ASSUME StopInv, NEW r \in Rs \ astray, InStop("loop", r), InStop("runner", r)
               PROVE  FALSE
    BY DEF OneStopAtATime
  <2>1. StopPart(r) BY DEF StopInv, ResourceInv
  <2> QED BY <2>1, Names DEF StopPart
<1> QED BY <1>1, StopInvHolds, PTL

\* While the runner waits for what blocks the end of the run, each of these
\* resources has a live monitor that will settle it, unless a restored process
\* found it STOPPING, its stop lock was thrown away, or it was registered
\* unblocking before.
THEOREM WaitsAreWatched == Spec => []WaitIsWatched
<1>1. StopInv => WaitIsWatched
  <2> SUFFICES ASSUME StopInv, task["runner"].pc = "waiting", NEW r \in BlockingActive,
                      r \notin orphans \cup astray,
                      \A life \in Lifecycles[r] : life.blocking
               PROVE  Live(r)
    BY DEF WaitIsWatched
  <2>1. r \in Rs /\ ActiveRow(r) /\ ~Settled(r) BY DEF BlockingActive
  <2>2. WatchPart(r) BY <2>1 DEF StopInv, ResourceInv
  <2>3. reg = NoRegistration BY DEF StopInv, TypeInv, TasksInv
  <2>4. r # reg.on BY <2>1, <2>3, Names DEF NoRegistration
  <2> QED BY <2>1, <2>2, <2>4 DEF WatchPart, AllBlocking
<1> QED BY <1>1, StopInvHolds, PTL

-----------------------------------------------------------------------------
(* What a step may do to the rows.                                         *)

\* The two halves of RowsKeepWhatIsKnown, for one resource and one step.
EndKept(r) ==
  r \notin astray /\ row[r].terminal =>
    row'[r].terminal \/ (row[r].status \in {"failed", "monitor_error"} /\ Holds(r, "poll"))
IntentKept(r) ==
  row[r].status = "stopping" /\ row'[r].status # "stopping" =>
    row'[r].terminal \/ \E s \in Stoppers : InStop(s, r) /\ ~InStop(s, r)'
RowsGoal == \A r \in Rs : EndKept(r) /\ IntentKept(r)

\* A step that changes neither in any row but, perhaps, one.
LEMMA RowsElsewhere ==
  ASSUME \A q \in Rs : \/ /\ row'[q].terminal = row[q].terminal
                          /\ row'[q].status \in {row[q].status, "stopping"}
                       \/ EndKept(q) /\ IntentKept(q)
  PROVE  RowsGoal
  BY DEF RowsGoal, EndKept, IntentKept

LEMMA PollRows ==
  ASSUME StopInv, NEW r \in Rs, PollEnds(r) \/ PollFails(r) PROVE RowsGoal
<1>0. /\ TypeInv /\ row \in [Rs -> Row] /\ row[r] \in Row /\ sample[r] \in Jobs
      /\ task[r].on = r
  BY DEF StopInv, TypeInv, TypeOK, TasksInv
<1>1. CASE PollEnds(r)
  <2> DEFINE w == Inspected(r, StopDisposition(r), FALSE)
  <2>1. FALSE \in BOOLEAN /\ StopDisposition(r) \in Disposition BY StopDispositionType
  <2>2. /\ w \in Row /\ w.terminal = (sample[r] # "running")
        /\ ~w.terminal /\ row[r].status = "stopping" => w.status = "stopping"
    BY <1>0, <2>1, InspectedRow
  <2>3. Holds(r, "poll") /\ row' = [row EXCEPT ![r] = w] BY <1>1 DEF PollEnds
  <2> HIDE DEF w
  <2>4. row'[r] = w /\ \A q \in Rs \ {r} : row'[q] = row[q] BY <1>0, <2>3
  <2>5. inspecting[r] = r BY <1>0, <2>3 DEF Holds
  <2>6. EndKept(r)
    <3> SUFFICES ASSUME r \notin astray, row[r].terminal, ~w.terminal
                 PROVE  row[r].status \in {"failed", "monitor_error"}
      BY <2>3, <2>4 DEF EndKept
    <3>1. EndedPart(r) BY DEF StopInv, ResourceInv
    <3>2. ~Sure(r) BY <2>2, <2>5, Names DEF Sure
    <3> QED BY <3>1, <3>2 DEF EndedPart, Guessed
  <2>7. IntentKept(r) BY <2>2, <2>4 DEF IntentKept
  <2> QED BY <2>4, <2>6, <2>7, RowsElsewhere
<1>2. CASE PollFails(r)
  <2>1. PICK w \in {Noted(r), GivenUp(r)} : row' = [row EXCEPT ![r] = w]
    BY <1>0, <1>2, PollFailsParts
  <2>2. /\ Noted(r) \in Row /\ Noted(r).terminal = row[r].terminal
        /\ Noted(r).status = "stopping" <=> row[r].status = "stopping"
    BY <1>0, NotedRow
  <2>3. GivenUp(r) \in Row /\ GivenUp(r).terminal BY <1>0, GivenUpRow
  <2>4. row'[r] = w /\ \A q \in Rs \ {r} : row'[q] = row[q] BY <1>0, <2>1
  <2>5. EndKept(r) /\ IntentKept(r) BY <2>2, <2>3, <2>4 DEF EndKept, IntentKept
  <2> QED BY <2>4, <2>5, RowsElsewhere
<1> QED BY <1>1, <1>2

\* What a finalization, by a monitor or by a stop, leaves in the row.
LEMMA AfterFinalizeRow ==
  ASSUME TypeInv, NEW t \in Tasks, NEW r \in Rs, r = task[t].on, NEW v \in Row,
         AfterFinalize(t, v)
  PROVE  /\ row'[r].status = v.status /\ row'[r].terminal = v.terminal
         /\ row'[r].closed = v.closed
         /\ \A q \in Rs \ {r} : row'[q] = row[q]
         /\ t \in Stoppers /\ ~task[t].confirmed => row'[r].disp = "cancelled"
<1>0. row \in [Rs -> Row] /\ (t \in Rs => r = t) BY DEF TypeInv, TypeOK, TasksInv
<1>1. "cancelled" \in Disposition BY DEF Disposition
<1> DEFINE w == SetDisposition(v, "cancelled")
<1>2. /\ w \in Row /\ w.status = v.status /\ w.terminal = v.terminal
      /\ w.closed = v.closed /\ w.disp = "cancelled"
  BY <1>1, SetDispositionRow
<1> HIDE DEF w
<1>3. \/ row' = [row EXCEPT ![r] = v] /\ (t \in Rs \/ task[t].confirmed)
      \/ row' = [row EXCEPT ![r] = w]
  BY <1>0 DEF AfterFinalize, StopEnds, w
<1> QED BY <1>0, <1>2, <1>3, Names

LEMMA FinalizeRows ==
  ASSUME StopInv, NEW t \in Tasks, FinalizeSkips(t) \/ FinalizeEnds(t)
  PROVE  /\ RowsGoal
         /\ \A r \in Rs : r = task[t].on =>
              \E v \in Row : /\ AfterFinalize(t, v) /\ (v.terminal => v.closed)
                             /\ row[r].terminal => v.terminal
<1>0. TypeInv /\ row \in [Rs -> Row] /\ task[t].pc \in {"finalize", "last"}
  BY DEF StopInv, TypeInv, TypeOK, FinalizeSkips, FinalizeEnds, Holds
<1>1. PICK r \in Rs : r = task[t].on BY <1>0, AtWork DEF Inspections
<1>2. PICK v \in Row :
        /\ AfterFinalize(t, v) /\ (v.terminal => v.closed)
        /\ row[r].terminal => v.terminal
        /\ row[r].status = "stopping" => v.status = "stopping" \/ v.terminal
  <2>1. CASE FinalizeSkips(t)
    <3>1. AfterFinalize(t, row[r]) /\ (row[r].terminal => row[r].closed)
      BY <1>1, <2>1 DEF FinalizeSkips
    <3> QED BY <1>0, <3>1
  <2>2. CASE FinalizeEnds(t)
    <3> DEFINE v == [Inspected(r, StopDisposition(r), TRUE) EXCEPT !.closed = TRUE]
               x == [row[r] EXCEPT !.closed = TRUE]
    <3>1. Finalized(r, v) /\ Finalized(r, x) BY <1>0, LastRow
    <3>2. AfterFinalize(t, v) \/ AfterFinalize(t, x) BY <1>1, <2>2 DEF FinalizeEnds
    <3> HIDE DEF v, x
    <3> QED BY <3>1, <3>2 DEF Finalized
  <2> QED BY <2>1, <2>2
<1>3. /\ row'[r].status = v.status /\ row'[r].terminal = v.terminal
      /\ \A q \in Rs \ {r} : row'[q] = row[q]
  BY <1>0, <1>1, <1>2, AfterFinalizeRow
<1>4. EndKept(r) /\ IntentKept(r) BY <1>2, <1>3 DEF EndKept, IntentKept
<1>5. RowsGoal BY <1>3, <1>4, RowsElsewhere
<1> QED BY <1>1, <1>2, <1>5

\* A stop begins: its row is STOPPING, or is left alone.
LEMMA BeginsRows ==
  ASSUME TypeInv, NEW s \in Stoppers, NEW me \in Task, me.on \in Rs,
         StopAccepted(s, me) \/ StopRefused(s)
  PROVE  RowsGoal
<1>0. row \in [Rs -> Row] BY DEF TypeInv, TypeOK
<1>1. PICK r \in Rs : r = me.on OBVIOUS
<1>2. CASE StopAccepted(s, me)
  <2>1. "stopping" \in Status BY DEF Status
  <2> DEFINE w == SetStatus(row[r], "stopping")
  <2>2. w \in Row /\ w.status = "stopping" /\ w.terminal = row[r].terminal
    BY <1>0, <2>1, SetStatusRow
  <2>3. row' = [row EXCEPT ![r] = w] BY <1>1, <1>2 DEF StopAccepted
  <2> HIDE DEF w
  <2>4. row'[r] = w /\ \A q \in Rs \ {r} : row'[q] = row[q] BY <1>0, <2>3
  <2> QED BY <2>2, <2>4, RowsElsewhere
<1>3. CASE StopRefused(s) BY <1>3, RowsElsewhere DEF StopRefused
<1> QED BY <1>2, <1>3

LEMMA BeginningRows ==
  ASSUME StopInv, NEW s \in Stoppers, StopDequeued(s) \/ CascadeStops(s) PROVE RowsGoal
<1>0. TypeInv /\ task[s] \in Task BY Names DEF StopInv, TypeInv, TypeOK
<1>1. CASE StopDequeued(s)
  <2>1. task[s].on \in Rs BY <1>0, <1>1 DEF StopDequeued, TypeInv, TasksInv, Busy
  <2>2. PICK me \in Task : me = task[s] BY <1>0
  <2>3. EnterStop(s, me) BY <1>1, <2>2 DEF StopDequeued
  <2> QED BY <1>0, <2>1, <2>2, <2>3, EnterStopParts, BeginsRows
<1>2. CASE CascadeStops(s)
  <2>1. PICK r \in task[s].rest :
          StopResource(s, [task[s] EXCEPT !.on = r, !.rest = @ \ {r},
                                          !.allow = r \in task[s].stoppingRest])
    BY <1>2 DEF CascadeStops
  <2> DEFINE b == r \in task[s].stoppingRest
             x == [task[s] EXCEPT !.on = r, !.rest = @ \ {r}, !.allow = b]
  <2>2. b \in BOOLEAN /\ r \in Rs BY <1>0 DEF Task
  <2> HIDE DEF b
  <2>3. x \in Task /\ x.on = r BY <1>0, <2>2 DEF Task
  <2>4. StopResource(s, x) BY <2>1 DEF b
  <2> HIDE DEF x
  <2>5. PICK me \in Task : me = x BY <2>3
  <2>6. StopResource(s, me) /\ me.on \in Rs BY <2>2, <2>3, <2>4, <2>5
  <2> QED BY <1>0, <2>6, StopResourceParts, BeginsRows
<1> QED BY <1>1, <1>2

LEMMA ClaimRows ==
  ASSUME StopInv, ClaimAction PROVE RowsGoal
<1>0. TypeInv BY DEF StopInv
<1>1. CASE row' = row BY <1>1, RowsElsewhere
<1>2. ASSUME NEW me \in Task, me.on = action.on, StopResource("loop", me)
      PROVE  RowsGoal
  BY <1>0, <1>2, ClaimActionParts, StopResourceParts, BeginsRows, Names
<1> QED BY <1>0, <1>1, <1>2, ClaimActionParts

\* A stop inspects: what its resource has ended with is in the sample, for the
\* stop lock keeps every guess of a monitor out.
LEMMA StopInspectsRows ==
  ASSUME StopInv, NEW s \in Stoppers, CheckEnds(s) \/ WatchEnds(s) PROVE RowsGoal
<1>0. TypeInv /\ row \in [Rs -> Row] BY DEF StopInv, TypeInv, TypeOK
<1>1. /\ task[s].pc \in {"check", "watch"} /\ inspecting[task[s].on] = s /\ StopInspected(s)
  BY <1>0, CheckEndsParts, WatchEndsParts
<1>2. PICK r \in Rs : r = task[s].on BY <1>0, <1>1 DEF TypeInv, TasksInv, Busy, Stopping
<1>3. row[r] \in Row /\ sample[r] \in Jobs BY <1>0 DEF TypeInv, TypeOK
<1>4. "cancelled" \in Disposition /\ "stopping" \in Status /\ FALSE \in BOOLEAN
  BY DEF Disposition, Status
<1>5. CASE row' = [row EXCEPT ![r] = Inspected(r, "cancelled", FALSE)]
  <2> DEFINE w == Inspected(r, "cancelled", FALSE)
  <2>1. /\ w \in Row /\ w.terminal = (sample[r] # "running")
        /\ ~w.terminal /\ row[r].status = "stopping" => w.status = "stopping"
    BY <1>3, <1>4, InspectedRow
  <2> HIDE DEF w
  <2>2. row'[r] = w /\ \A q \in Rs \ {r} : row'[q] = row[q] BY <1>0, <1>5 DEF w
  <2>3. InStop(s, r)
    BY <1>1, <1>2 DEF InStop, Stopping, StopInv, ConfirmedInv, Unsettled
  <2>4. r \notin astray /\ row[r].terminal => w.terminal
    <3>1. r \notin astray /\ row[r].terminal => Sure(r)
      BY <2>3 DEF StopInv, ResourceInv, StopPart
    <3>2. inspecting[r] # None BY <1>1, <1>2, NamesDiffer DEF Tasks
    <3> QED BY <2>1, <3>1, <3>2 DEF Sure
  <2>5. EndKept(r) /\ IntentKept(r) BY <2>1, <2>2, <2>4 DEF EndKept, IntentKept
  <2> QED BY <2>2, <2>5, RowsElsewhere
<1>6. CASE row' = [row EXCEPT ![r] = SetStatus(@, "stopping")]
  <2> DEFINE w == SetStatus(row[r], "stopping")
  <2>1. w \in Row /\ w.status = "stopping" /\ w.terminal = row[r].terminal
    BY <1>3, <1>4, SetStatusRow
  <2>2. row'[r] = w /\ \A q \in Rs \ {r} : row'[q] = row[q] BY <1>0, <1>6
  <2> HIDE DEF w
  <2> QED BY <2>1, <2>2, RowsElsewhere
<1> QED BY <1>1, <1>2, <1>5, <1>6 DEF StopInspected

\* Only the end of a stop puts back the status that the request replaced.
LEMMA StopFailsRows ==
  ASSUME StopInv, NEW s \in Stoppers, AskFails(s) \/ StopTimesOut(s)
  PROVE  /\ RowsGoal
         /\ task'[s].ok = FALSE /\ \A u \in Tasks \ {s} : task'[u] = task[u]
<1>0. TypeInv /\ row \in [Rs -> Row] BY DEF StopInv, TypeInv, TypeOK
<1>1. /\ task[s].pc \in Stopping /\ ~task[s].confirmed /\ reg' = reg
      /\ \E w \in Row : /\ StopEnds(s, w, FALSE) /\ SameIdentity(w, row[task[s].on])
                        /\ w.terminal = row[task[s].on].terminal
  <2>1. CASE AskFails(s)
    <3>1. task[s].pc = "ask" BY <2>1 DEF AskFails
    <3>2. ~task[s].confirmed /\ task[s].pc \in Stopping
      BY <3>1 DEF StopInv, ConfirmedInv, Unsettled, Stopping
    <3> QED BY <1>0, <2>1, <3>2, AskFailsParts
  <2>2. CASE StopTimesOut(s) BY <1>0, <2>2, StopTimesOutParts
  <2> QED BY <2>1, <2>2
<1>2. PICK r \in Rs : r = task[s].on BY <1>0, <1>1 DEF TypeInv, TasksInv, Busy
<1>3. PICK w \in Row : /\ StopEnds(s, w, FALSE) /\ SameIdentity(w, row[r])
                       /\ w.terminal = row[r].terminal
  BY <1>1, <1>2
<1>4. FALSE \in BOOLEAN OBVIOUS
<1>5. /\ row'[r] = w /\ \A q \in Rs \ {r} : row'[q] = row[q]
      /\ task'[s].pc = "close" /\ task'[s].ok = FALSE
      /\ \A u \in Tasks \ {s} : task'[u] = task[u]
  BY <1>0, <1>1, <1>2, <1>3, <1>4, StopEndsTypes
<1>6. InStop(s, r) /\ ~InStop(s, r)' BY <1>1, <1>2, <1>5 DEF InStop, Stopping
<1>7. EndKept(r) /\ IntentKept(r) BY <1>3, <1>5, <1>6 DEF EndKept, IntentKept
<1>8. RowsGoal BY <1>5, <1>7, RowsElsewhere
<1> QED BY <1>5, <1>8

\* The steps that touch no status and no terminal flag.
LEMMA OtherRows ==
  ASSUME StopInv,
         \/ \E r \in Rs : JobEnds(r) \/ Register(r) \/ Reconcile(r) \/ AdapterCloses(r)
                          \/ RequestStop(r) \/ MonitorWakes(r)
         \/ \E t \in Tasks : BeginInspection(t) \/ FinalizeStarts(t)
         \/ \E s \in Stoppers : \/ BeginCascade(s) \/ AskEnds(s) \/ StopWakes(s)
                                \/ StopReturns(s) \/ CascadeEnds(s)
         \/ RegisterEnds \/ RunnerWaits \/ WaitEnds \/ CloseNonblocking \/ CrashAndReopen
         \/ UNCHANGED vars
  PROVE  RowsGoal
<1>0. TypeInv /\ row \in [Rs -> Row] BY DEF StopInv, TypeInv, TypeOK
<1>1. CASE row' = row BY <1>1, RowsElsewhere
<1>2. ASSUME NEW r \in Rs, Reconcile(r) PROVE RowsGoal
  <2>1. PICK life \in Lifecycles[r] : row' = [row EXCEPT ![r].life = life, ![r].fresh = FALSE]
    BY <1>2 DEF Reconcile
  <2>2. \A q \in Rs : row'[q].status = row[q].status /\ row'[q].terminal = row[q].terminal
    BY <1>0, <2>1 DEF Row
  <2> QED BY <2>2, RowsElsewhere
<1>3. ASSUME NEW r \in Rs, RequestStop(r) PROVE RowsGoal
  <2>1. row' = [row EXCEPT ![r].fresh = TRUE] BY <1>3 DEF RequestStop
  <2>2. \A q \in Rs : row'[q].status = row[q].status /\ row'[q].terminal = row[q].terminal
    BY <1>0, <2>1 DEF Row
  <2> QED BY <2>2, RowsElsewhere
<1>4. ASSUME NEW r \in Rs, Register(r) PROVE RowsGoal
  <2>1. \A q \in Rs : row'[q].status = row[q].status /\ row'[q].terminal = row[q].terminal
    <3>1. /\ row'[r].status = row[r].status /\ row'[r].terminal = row[r].terminal
          /\ \A q \in Rs \ {r} : row'[q].status = row[q].status /\ row'[q].terminal = row[q].terminal
      BY <1>0, <1>4, RegisterParts
    <3> QED BY <3>1
  <2> QED BY <2>1, RowsElsewhere
<1>5. ASSUME RegisterEnds PROVE RowsGoal
  <2>1. PICK n \in Rs, closed \in BOOLEAN : row' = [row EXCEPT ![n] = [row[n] EXCEPT !.closed = closed]]
    BY <1>0, <1>5, RegisterEndsParts
  <2>2. \A q \in Rs : row'[q].status = row[q].status /\ row'[q].terminal = row[q].terminal
    BY <1>0, <2>1 DEF Row
  <2> QED BY <2>2, RowsElsewhere
<1>6. ASSUME CloseNonblocking PROVE RowsGoal
  BY <1>0, <1>6, CloseNonblockingTypes, RowsElsewhere
<1> QED BY <1>1, <1>2, <1>3, <1>4, <1>5, <1>6
        DEF JobEnds, AdapterCloses, MonitorWakes, BeginInspection, FinalizeStarts, BeginCascade,
            AskEnds, StopWakes, StopReturns, CascadeEnds, RunnerWaits, WaitEnds, CrashAndReopen,
            vars

LEMMA NextRows ==
  ASSUME StopInv, [Next]_vars PROVE RowsGoal
<1>1. ASSUME NEW t \in Tasks, TaskStep(t) PROVE RowsGoal
  BY <1>1, FinalizeRows, OtherRows DEF TaskStep
<1>2. ASSUME NEW r \in Rs, JobEnds(r) \/ Register(r) \/ Reconcile(r) \/ AdapterCloses(r)
                           \/ RequestStop(r) \/ MonitorStep(r)
      PROVE  RowsGoal
  BY <1>1, <1>2, PollRows, OtherRows, Names DEF MonitorStep
<1>3. ASSUME NEW s \in Stoppers, BeginCascade(s) \/ StopStep(s) \/ StopTimesOut(s)
      PROVE  RowsGoal
  BY <1>1, <1>3, BeginningRows, StopInspectsRows, StopFailsRows, OtherRows, Names DEF StopStep
<1>4. RegisterEnds \/ ClaimAction \/ RunnerWaits \/ WaitEnds \/ CloseNonblocking
        \/ CrashAndReopen => RowsGoal
  BY ClaimRows, OtherRows
<1> QED BY <1>2, <1>3, <1>4, OtherRows DEF Next

\* What is known of a job is not lost to a task that knew less: an inspection
\* that began earlier, a refused stop, a provider that fails and a last look
\* keep what ended ended -- only a monitor corrects what a monitor guessed --
\* and nothing but the end of the job, or of the stop itself, replaces STOPPING.
THEOREM KnowledgeIsKept == Spec => RowsKeepWhatIsKnown
<1>1. StopInv /\ [Next]_vars =>
        [\A r \in Rs \ astray : row[r].terminal =>
           \/ row'[r].terminal
           \/ row[r].status \in {"failed", "monitor_error"} /\ Holds(r, "poll")]_vars
  BY NextRows DEF RowsGoal, EndKept
<1>2. StopInv /\ [Next]_vars =>
        [\A r \in Rs : row[r].status = "stopping" /\ row'[r].status # "stopping" =>
           \/ row'[r].terminal
           \/ \E s \in Stoppers : InStop(s, r) /\ ~InStop(s, r)']_vars
  BY NextRows DEF RowsGoal, IntentKept
<1>3. Spec => TerminalIsFinal BY <1>1, StopInvHolds, PTL DEF Spec, TerminalIsFinal
<1>4. Spec => StopIntentIsKept BY <1>2, StopInvHolds, PTL DEF Spec, StopIntentIsKept
<1> QED BY <1>3, <1>4 DEF RowsKeepWhatIsKnown

-----------------------------------------------------------------------------
(* A confirmed stop.                                                       *)

\* A stopper returns from no stop in this step.
NoReturn(s) == task[s].pc \in Stopping /\ task'[s].pc = "close" => ~task'[s].ok
SettledGoal ==
  \A s \in Stoppers :
    task[s].pc \in Stopping /\ task'[s].pc = "close" /\ task'[s].ok
                           /\ task[s].on \notin astray =>
      Settled(task[s].on)' /\ row'[task[s].on].disp = "cancelled"

LEMMA NoReturnSettles == ASSUME \A s \in Stoppers : NoReturn(s) PROVE SettledGoal
  BY DEF NoReturn, SettledGoal

LEMMA OthersStay ==
  ASSUME NEW t, \A u \in Stoppers \ {t} : task'[u] = task[u], t \in Stoppers => NoReturn(t)
  PROVE  \A s \in Stoppers : NoReturn(s)
  BY DEF NoReturn, Stopping

\* Only the end of a finalization returns a stop that succeeded.
LEMMA FinalizeSettles ==
  ASSUME StopInv, NEW t \in Tasks, FinalizeSkips(t) \/ FinalizeEnds(t), reg' = reg
  PROVE  SettledGoal
<1>0. /\ TypeInv /\ task \in [Tasks -> Task] /\ row \in [Rs -> Row]
      /\ task[t].pc \in {"finalize", "last"}
  BY DEF StopInv, TypeInv, TypeOK, FinalizeSkips, FinalizeEnds, Holds
<1>1. PICK r \in Rs : r = task[t].on BY <1>0, AtWork DEF Inspections
<1>2. PICK v \in Row : /\ AfterFinalize(t, v) /\ (v.terminal => v.closed)
                       /\ row[r].terminal => v.terminal
  BY <1>1, FinalizeRows
<1>3. /\ row'[r].terminal = v.terminal /\ row'[r].closed = v.closed
      /\ t \in Stoppers /\ ~task[t].confirmed => row'[r].disp = "cancelled"
  BY <1>0, <1>1, <1>2, AfterFinalizeRow
<1>4. CASE t \in Stoppers /\ ~task[t].confirmed
  <2>1. StopEnds(t, SetDisposition(v, "cancelled"), TRUE) /\ t \in Tasks
    BY <1>2, <1>4, Names DEF AfterFinalize
  <2>2. \A u \in Stoppers \ {t} : task'[u] = task[u]
    BY <1>0, <1>4, <2>1, Names DEF StopEnds
  <2>3. InStop(t, r) BY <1>0, <1>1, <1>4 DEF InStop, Stopping
  <2>4. r \notin astray => row[r].terminal
    BY <1>0, <1>4, <2>3 DEF StopInv, ResourceInv, StopPart
  <2>5. r \notin astray => Settled(r)' /\ row'[r].disp = "cancelled"
    BY <1>2, <1>3, <1>4, <2>4 DEF Settled
  <2>6. task'[t].on = r BY <1>0, <1>1, <1>4, <2>1, Names DEF StopEnds, Task
  <2>7. r \notin astray => Settled(task[t].on)' /\ row'[task[t].on].disp = "cancelled"
    BY <1>1, <2>5, <2>6 DEF Settled
  <2>8. \A s \in Stoppers : s # t => NoReturn(s) BY <2>2 DEF NoReturn, Stopping
  <2> QED BY <1>1, <2>7, <2>8 DEF SettledGoal, NoReturn
<1>5. CASE t \in Rs
  <2>1. MonitorEnds(t, v) BY <1>2, <1>5 DEF AfterFinalize
  <2>2. \A u \in Tasks \ {t} : task'[u] = task[u] BY <1>0, <1>5, <2>1, MonitorEndsParts
  <2>3. \A u \in Stoppers : task'[u] = task[u] BY <1>5, <2>2, Names
  <2> QED BY <1>5, <2>3, Names, OthersStay, NoReturnSettles
<1>6. CASE t \in Stoppers /\ task[t].confirmed
  <2>1. task' = Goto(t, "begin") BY <1>2, <1>6, Names DEF AfterFinalize
  <2>2. task'[t].pc = "begin" /\ \A u \in Tasks \ {t} : task'[u] = task[u]
    BY <1>0, <2>1, GotoTask DEF PCs, StopperPCs
  <2>3. NoReturn(t) /\ \A u \in Stoppers \ {t} : task'[u] = task[u]
    BY <2>2, Names DEF NoReturn
  <2> QED BY <2>3, OthersStay, NoReturnSettles
<1> QED BY <1>4, <1>5, <1>6 DEF Tasks

LEMMA MonitorReturns ==
  ASSUME StopInv, NEW r \in Rs, MonitorWakes(r) \/ PollEnds(r) \/ PollFails(r)
  PROVE  SettledGoal
<1>0. TypeInv /\ task \in [Tasks -> Task] /\ r \in Tasks BY Names DEF StopInv, TypeInv, TypeOK
<1>1. \A u \in Tasks \ {r} : task'[u] = task[u]
  BY <1>0 DEF MonitorWakes, MonitorEnds, Goto, PollEnds, PollFails
<1>2. \A u \in Stoppers \ {r} : task'[u] = task[u] BY <1>1, Names
<1> QED BY <1>2, Names, OthersStay, NoReturnSettles

\* A stopper that goes on, begins, or is between stops.
LEMMA StopperReturns ==
  ASSUME StopInv, NEW s \in Stoppers,
         \/ StopDequeued(s) \/ CheckEnds(s) \/ AskEnds(s) \/ AskFails(s) \/ WatchEnds(s)
         \/ StopWakes(s) \/ CascadeStops(s) \/ CascadeEnds(s) \/ BeginCascade(s)
         \/ StopTimesOut(s)
  PROVE  SettledGoal
<1>0. TypeInv /\ task \in [Tasks -> Task] /\ s \in Tasks BY Names DEF StopInv, TypeInv, TypeOK
<1>1. \A u \in Stoppers \ {s} : task'[u] = task[u]
  <2>1. CASE StopDequeued(s) \/ CascadeStops(s)
    BY <1>0, <2>1, Names DEF StopDequeued, CascadeStops, StopResource, EnterStop
  <2>2. CASE CheckEnds(s) \/ WatchEnds(s) \/ StopWakes(s) \/ CascadeEnds(s) \/ BeginCascade(s)
    BY <1>0, <2>2, Names DEF CheckEnds, WatchEnds, StopWakes, CascadeEnds, BeginCascade, Goto
  <2>3. CASE AskEnds(s) BY <1>0, <2>3, AskEndsParts
  <2>4. CASE AskFails(s) \/ StopTimesOut(s) BY <2>4, StopFailsRows, Names
  <2> QED BY <2>1, <2>2, <2>3, <2>4
<1>2. NoReturn(s)
  <2>1. CASE task[s].pc \notin Stopping BY <2>1 DEF NoReturn
  <2>2. CASE CheckEnds(s) \/ WatchEnds(s) \/ StopWakes(s)
    <3>1. PICK pc \in {"ask", "finalize", "sleep", "watch"} : task' = Goto(s, pc)
      BY <2>2 DEF CheckEnds, WatchEnds, StopWakes, Accepted
    <3>2. pc \in PCs BY DEF PCs, StopperPCs, Stopping
    <3>3. task'[s].pc # "close" BY <1>0, <3>1, <3>2, GotoTask
    <3> QED BY <3>3 DEF NoReturn
  <2>3. CASE AskEnds(s) BY <1>0, <2>3, AskEndsParts DEF NoReturn
  <2>4. CASE AskFails(s) \/ StopTimesOut(s) BY <2>4, StopFailsRows DEF NoReturn
  <2>5. CASE StopDequeued(s) \/ CascadeStops(s) \/ CascadeEnds(s)
    BY <2>1, <2>5 DEF StopDequeued, CascadeStops, CascadeEnds, Stopping
  <2>6. CASE BeginCascade(s)
    <3>1. task[s].pc \notin Stopping BY <2>6 DEF BeginCascade, Stopping
    <3> QED BY <2>1, <3>1
  <2> QED BY <2>2, <2>3, <2>4, <2>5, <2>6
<1> QED BY <1>1, <1>2, OthersStay, NoReturnSettles

LEMMA OtherReturns ==
  ASSUME StopInv,
         \/ \E r \in Rs : JobEnds(r) \/ Register(r) \/ Reconcile(r) \/ AdapterCloses(r)
                          \/ RequestStop(r)
         \/ \E t \in Tasks : BeginInspection(t) \/ FinalizeStarts(t)
         \/ \E s \in Stoppers : StopReturns(s)
         \/ RegisterEnds \/ ClaimAction \/ RunnerWaits \/ WaitEnds \/ CloseNonblocking
         \/ CrashAndReopen \/ UNCHANGED vars
  PROVE  SettledGoal
<1>0. TypeInv /\ task \in [Tasks -> Task] BY DEF StopInv, TypeInv, TypeOK
<1> DEFINE Stays == \A s \in Stoppers : task[s].pc = "close" \/ task'[s].pc # "close"
                                          \/ task[s].pc \notin Stopping
<1>1. Stays => SettledGoal BY DEF SettledGoal, Stopping
<1>2. ASSUME NEW r \in Rs, JobEnds(r) \/ Reconcile(r) \/ RequestStop(r) PROVE Stays
  BY <1>2 DEF JobEnds, Reconcile, RequestStop
<1>3. ASSUME NEW r \in Rs, Register(r) PROVE Stays
  <2>1. \A s \in Stoppers : task'[s] = task[s]
    BY <1>0, <1>3, KeyedAreResources, Names
    DEF Register, Restarted, CancelMonitor, MonitorEnds, Goto
  <2> QED BY <2>1
<1>4. ASSUME NEW r \in Rs, AdapterCloses(r) PROVE Stays
  BY <1>0, <1>4, PrunedTask DEF AdapterCloses
<1>5. ASSUME NEW t \in Tasks, BeginInspection(t) \/ FinalizeStarts(t) PROVE Stays
  <2>1. task' = task \/ task' = Goto(t, "last") BY <1>5 DEF BeginInspection, FinalizeStarts
  <2>2. "last" \in PCs BY DEF PCs, MonitorPCs
  <2>3. CASE task' = Goto(t, "last")
    <3>1. task'[t].pc = "last" /\ \A u \in Tasks \ {t} : task'[u] = task[u]
      BY <1>0, <2>2, <2>3, GotoTask
    <3> QED BY <3>1, Names
  <2> QED BY <2>1, <2>3
<1>6. ASSUME NEW s \in Stoppers, StopReturns(s) PROVE Stays
  <2>1. /\ task[s].pc = "close"
        /\ \A u \in Stoppers \ {s} : task'[u].pc = task[u].pc \/ task'[u].pc = "adrift"
    BY <1>0, <1>6, StopReturnsParts
  <2> QED BY <2>1
<1>7. ASSUME RegisterEnds PROVE Stays
  <2>1. \A u \in Stoppers : task'[u].pc = task[u].pc \/ task'[u].pc = "adrift"
    BY <1>0, <1>7, RegisterEndsParts
  <2> QED BY <2>1
<1>8. ASSUME ClaimAction PROVE Stays
  <2>1. task["loop"].pc \notin Stopping BY <1>8 DEF ClaimAction, Stopping
  <2>2. \A u \in Stoppers \ {"loop"} : task'[u] = task[u]
    BY <1>0, <1>8, Names DEF ClaimAction, StopResource, EnterStop
  <2> QED BY <2>1, <2>2
<1>9. ASSUME RunnerWaits \/ WaitEnds PROVE Stays
  <2>1. task["runner"].pc \notin Stopping BY <1>9 DEF RunnerWaits, WaitEnds, Stopping
  <2>2. \A u \in Stoppers \ {"runner"} : task'[u] = task[u]
    BY <1>0, <1>9, Names DEF RunnerWaits, WaitEnds, Goto
  <2> QED BY <2>1, <2>2
<1>10. ASSUME CloseNonblocking PROVE Stays
  <2>1. task'["loop"] = task["loop"] /\ task'["runner"].pc = "ended"
    BY <1>0, <1>10, CloseNonblockingTypes
  <2> QED BY <2>1 DEF Stoppers
<1>11. ASSUME CrashAndReopen PROVE Stays
  <2>1. \A s \in Stoppers : task'[s].pc = "idle" BY <1>0, <1>11, CrashAndReopenTypes
  <2> QED BY <2>1
<1>12. UNCHANGED vars => Stays BY DEF vars
<1> HIDE DEF Stays
<1> QED BY <1>1, <1>2, <1>3, <1>4, <1>5, <1>6, <1>7, <1>8, <1>9, <1>10, <1>11, <1>12

LEMMA NextReturns ==
  ASSUME StopInv, [Next]_vars PROVE SettledGoal
<1>1. ASSUME NEW t \in Tasks, TaskStep(t) PROVE SettledGoal
  <2>1. FinalizeSkips(t) \/ FinalizeEnds(t) => reg' = reg
    BY DEF FinalizeSkips, FinalizeEnds
  <2> QED BY <1>1, <2>1, FinalizeSettles, OtherReturns DEF TaskStep
<1>2. ASSUME NEW r \in Rs, JobEnds(r) \/ Register(r) \/ Reconcile(r) \/ AdapterCloses(r)
                           \/ RequestStop(r) \/ MonitorStep(r)
      PROVE  SettledGoal
  BY <1>1, <1>2, MonitorReturns, OtherReturns, Names DEF MonitorStep
<1>3. ASSUME NEW s \in Stoppers, BeginCascade(s) \/ StopStep(s) \/ StopTimesOut(s)
      PROVE  SettledGoal
  BY <1>1, <1>3, StopperReturns, OtherReturns, Names DEF StopStep
<1> QED BY <1>2, <1>3, OtherReturns DEF Next

\* A stop that returns to its caller as confirmed leaves a resource that has
\* ended, was finalized and is recorded as cancelled: whatever its request, its
\* watch or the last inspection met, the caller is not told of a stop that the
\* store does not show.
THEOREM ConfirmedStopsAreSettled == Spec => ConfirmedStopIsSettled
<1>1. StopInv /\ [Next]_vars =>
        [\A s \in Stoppers :
           task[s].pc \in Stopping /\ task'[s].pc = "close" /\ task'[s].ok
                                  /\ task[s].on \notin astray =>
             Settled(task[s].on)' /\ row'[task[s].on].disp = "cancelled"]_vars
  BY NextReturns DEF SettledGoal
<1> QED BY <1>1, StopInvHolds, PTL DEF Spec, ConfirmedStopIsSettled

=============================================================================
