----------------------------- MODULE Resources -----------------------------
(***************************************************************************)
(* The resources of one run: their rows in SQLite (storage.py), the tasks  *)
(* of the resource manager that inspect, finalize and stop them            *)
(* (resource_manager.py), the two callers that stop them -- the action     *)
(* loop (supervisor.py, cli.py when the run is offline) and the runner's   *)
(* cancellation -- and the jobs themselves, which end when they like.      *)
(*                                                                         *)
(* The manager is one asyncio loop: a step is the code between two awaits. *)
(* An inspection is split where the provider takes its sample, so that the *)
(* row may change before the sample is written.  Sleeps, the final log     *)
(* drain and the closing of an adapter are awaits that end at any time.    *)
(*                                                                         *)
(* Every resource here may be stopped and is stopped on cancellation:      *)
(* exclusive, supported, with an adapter and a log drain.  A resource that *)
(* is not is only monitored, as one that nobody stops.                     *)
(***************************************************************************)
EXTENDS Naturals, FiniteSets

CONSTANTS Rs,          \* the external ids that the notebook may register
          Keyed,       \* those it registers under one logical key
          Lifecycles,  \* the lifecycles it registers each of them with
          ErrorLimit,  \* max_consecutive_monitor_errors
          MaxEvents,   \* bound on registrations, provider failures and crashes
          MaxStops,    \* bound on the operator's stop actions
          None         \* no task

Stoppers == {"loop", "runner"}
Tasks == Rs \cup Stoppers       \* the monitor of r has the name r

ASSUME LifecyclesAreValid ==
  Lifecycles \in [Rs -> SUBSET {l \in [monitor: BOOLEAN, blocking: BOOLEAN] :
                                  l.blocking => l.monitor}]
ASSUME KeyedAreResources == Keyed \subseteq Rs
ASSUME BoundsAreNatural == /\ ErrorLimit \in Nat \ {0}
                             /\ MaxEvents \in Nat /\ MaxStops \in Nat
ASSUME NamesDiffer == Rs \cap Stoppers = {} /\ None \notin Tasks

VARIABLES
  row,        \* the resources table
  job,        \* the external jobs: running, or completed
  task,       \* the asyncio tasks that work on resources
  inspecting, \* the holder of each inspection lock
  sample,     \* what the provider answered to that inspection
  finalizing, \* the holder of each finalization lock
  stopLock,   \* the holder of each stop lock
  marked,     \* _stop_dispositions
  closers,    \* monitors that ended and are closing their adapter
  reg,        \* the registration that retires the resource it superseded
  action,     \* the stop_resource action
  cancelling, \* the run's cancellation was requested, durably
  faults,
  astray,     \* history: resources whose stop lock was thrown away in use
  orphans     \* history: those that a restored process found STOPPING

locks == <<inspecting, sample, finalizing>>
stops == <<stopLock, marked, closers, astray>>
control == <<action, cancelling, orphans>>
vars == <<row, job, task, locks, stops, reg, control, faults>>

\* "completed" stands for the terminal statuses that a provider reports (no
\* step here tells them apart), "failed" is what the manager gives up with.
Ended == {"completed", "failed"}
Jobs == {"running", "completed"}
Status == {"running", "stopping", "monitor_error"} \cup Ended
Disposition == {"active", "superseded", "cancelled"}
Inspections == {"poll", "check", "watch", "last"}
Stopping == {"check", "ask", "watch", "sleep", "finalize", "last"}
MonitorPCs == {"none", "start", "poll", "sleep", "finalize", "last", "done"}
StopperPCs == Stopping \cup {"idle", "queued", "adrift", "close", "begin",
                             "cascade", "waiting", "after", "raised", "ended"}

\* `fresh`: the version is still the one that the pending stop confirmation
\* was shown.
Row == [known: BOOLEAN, status: Status, terminal: BOOLEAN, disp: Disposition,
        closed: BOOLEAN, life: [monitor: BOOLEAN, blocking: BOOLEAN],
        fresh: BOOLEAN]
\* A monitor's consecutive errors; of a stop, the status before it, whether
\* that was STOPPING, whether it may be, whether it is the action's own
\* resource, a confirmed stop to finalize, how it ended, whether it retires the
\* resource; of a cascade, what is left to stop and what it found STOPPING.
Task == [pc: MonitorPCs \cup StopperPCs, on: Rs \cup {None}, errs: Nat,
         prev: Status, already: BOOLEAN, allow: BOOLEAN, own: BOOLEAN,
         confirmed: BOOLEAN, ok: BOOLEAN, prune: BOOLEAN,
         rest: SUBSET Rs, stoppingRest: SUBSET Rs]
Actions == [on: Rs \cup {None}, recovered: BOOLEAN, number: Nat,
            status: {"none", "requested", "executing", "completed", "rejected",
                     "failed"}]

Idle(pc, on) == [pc |-> pc, on |-> on, errs |-> 0, prev |-> "running",
                 already |-> FALSE, allow |-> FALSE, own |-> FALSE,
                 confirmed |-> FALSE, ok |-> FALSE, prune |-> FALSE,
                 rest |-> {}, stoppingRest |-> {}]
NoRegistration == [on |-> None, old |-> None]
NoAction == [on |-> None, recovered |-> FALSE, number |-> 0, status |-> "none"]

Init ==
  /\ row = [r \in Rs |->
              [known |-> FALSE, status |-> "running", terminal |-> FALSE,
               disp |-> "active", closed |-> FALSE,
               life |-> [monitor |-> FALSE, blocking |-> FALSE], fresh |-> FALSE]]
  /\ job = [r \in Rs |-> "running"]
  /\ task = [t \in Tasks |-> IF t \in Rs THEN Idle("none", t) ELSE Idle("idle", None)]
  /\ inspecting = [r \in Rs |-> None] /\ sample = [r \in Rs |-> "running"]
  /\ finalizing = [r \in Rs |-> None] /\ stopLock = [r \in Rs |-> None]
  /\ marked = [r \in Rs |-> FALSE] /\ closers = {} /\ reg = NoRegistration
  /\ action = NoAction
  /\ cancelling = FALSE /\ faults = 0 /\ astray = {} /\ orphans = {}

-----------------------------------------------------------------------------
(* The resources table.                                                    *)

ActiveRow(r) == row[r].known /\ row[r].disp = "active"
Settled(r) == row[r].terminal /\ row[r].closed

\* set_resource_status: the terminal flag stays what it is.
SetStatus(w, status) ==
  [w EXCEPT !.status = status, !.fresh = @ /\ w.status = status]

SetDisposition(w, disp) ==
  [w EXCEPT !.disp = disp, !.fresh = @ /\ w.disp = disp]

\* _update_resource_from_observation: a terminal observation writes the
\* disposition, which is "active" when no stop gave another; only one that a
\* stop gave opens the monitor again and counts as a change of version.
Observe(w, status, terminal, disp) ==
  LET applied == terminal /\ disp # "active"
  IN [w EXCEPT !.status = status,
               !.terminal = terminal,
               !.disp = IF terminal THEN disp ELSE @,
               !.closed = @ /\ ~applied,
               !.fresh = @ /\ w.status = status /\ w.terminal = terminal
                           /\ ~(applied /\ w.disp # disp)]

\* idx_resources_logical: one active row for a logical key.
Allowed(r, w) ==
  (w.disp = "active" /\ r \in Keyed) => \A q \in Keyed \ {r} : ~ActiveRow(q)

SeenAsSampled(r, preserve) ==   \* mutant: the row is not read after the await
  [terminal |-> sample[r] # "running", status |-> sample[r]]

\* What _inspect_and_persist makes of the sample: finalization keeps a
\* terminal state, and a stop that is requested keeps STOPPING.
Seen(r, preserve) ==
  LET w == row[r]
      kept == preserve /\ w.terminal /\ sample[r] = "running"
      terminal == kept \/ sample[r] # "running"
  IN [terminal |-> terminal,
      status |-> IF w.status = "stopping" /\ ~terminal THEN "stopping"
                 ELSE IF kept THEN w.status ELSE sample[r]]

Inspected(r, disp, preserve) ==
  LET o == Seen(r, preserve) IN Observe(row[r], o.status, o.terminal, disp)

StopDispositionOnly(r) ==   \* mutant: no disposition without a stop
  IF marked[r] THEN "cancelled" ELSE None

\* The disposition that the stop in progress left for every inspection.
StopDisposition(r) == IF marked[r] THEN "cancelled" ELSE "active"

-----------------------------------------------------------------------------
(* Tasks.                                                                  *)

Live(r) == task[r].pc \notin {"none", "done"}
Goto(t, pc) == [task EXCEPT ![t].pc = pc]
Restarted(tasks, r) ==    \* _start_monitor
  IF tasks[r].pc \in {"none", "done"} THEN [tasks EXCEPT ![r] = Idle("start", r)]
  ELSE tasks

Eventful == faults + Cardinality({r \in Rs : row[r].known}) < MaxEvents
Fault == Eventful /\ faults' = faults + 1

Release(lock, r, t) == [lock EXCEPT ![r] = IF @ = t THEN None ELSE @]
ReleaseBoth(r, t) ==
  /\ inspecting' = Release(inspecting, r, t)
  /\ finalizing' = Release(finalizing, r, t)
  /\ sample' = [sample EXCEPT ![r] = IF inspecting[r] = t THEN "running" ELSE @]

\* _resource_retirement_is_blocked, for a task that is not r's monitor (or
\* is, and is ending); w is r's row.
Retirable(r, w) ==
  /\ w.closed \/ w.disp # "active"
  /\ stopLock[r] = None

\* _prune_retired_resource_state; a lock that is held is kept, but for the
\* stop lock, whose next taker gets another one.  It may be in use: the adapter
\* was closed after the lock had been found free.  Who waits for it takes a lock
\* that nobody else will see.
UsesStopLock(s, r) ==
  task[s].on = r /\ task[s].pc \in Stopping \cup {"queued", "adrift"}
                 /\ ~task[s].confirmed

Prune(r) ==
  /\ stopLock' = [stopLock EXCEPT ![r] = None]
  /\ marked' = [marked EXCEPT ![r] = FALSE]
  /\ astray' = IF \E s \in Stoppers : UsesStopLock(s, r) THEN astray \cup {r}
               ELSE astray

Pruned(r) ==
  [t \in Tasks |-> IF t \in Stoppers /\ task[t].on = r /\ task[t].pc = "queued"
                   THEN [task[t] EXCEPT !.pc = "adrift"] ELSE task[t]]

\* The end of a monitor task: _monitor's finally.
MonitorEnds(r, w) ==
  /\ task' = Goto(r, IF Retirable(r, w) THEN "none" ELSE "done")
  /\ closers' = IF Retirable(r, w) THEN closers \cup {r} ELSE closers

\* A monitor is cancelled where it waits: it gives back its locks, and ends.
CancelMonitor(r) ==
  /\ MonitorEnds(r, [row[r] EXCEPT !.closed = TRUE])
  /\ ReleaseBoth(r, r)
  /\ UNCHANGED <<stopLock, marked, astray>>

AdapterCloses(r) ==
  /\ r \in closers
  /\ closers' = closers \ {r}
  /\ Prune(r) /\ task' = Pruned(r)
  /\ UNCHANGED <<row, job, locks, reg, control, faults>>

\* A stop action is queued or executing.
Unanswered == action.status \in {"requested", "executing"}

-----------------------------------------------------------------------------
(* The jobs.                                                               *)

JobEnds(r) ==
  /\ row[r].known /\ job[r] = "running"
  /\ job' = [job EXCEPT ![r] = "completed"]
  /\ UNCHANGED <<row, task, locks, stops, reg, control, faults>>

Register(r) ==
  /\ ~row[r].known /\ Eventful /\ task["runner"].pc = "idle" /\ reg = NoRegistration
  /\ \E life \in Lifecycles[r] :
       LET olds == {q \in Keyed : r \in Keyed /\ ActiveRow(q)}
           new == [row[r] EXCEPT !.known = TRUE, !.life = life]
           stays == olds = {}
       IN /\ row' = [q \in Rs |->
                      IF q = r THEN [new EXCEPT !.closed = stays /\ ~life.monitor]
                      ELSE IF q \in olds
                           THEN [row[q] EXCEPT !.disp = "superseded", !.closed = TRUE,
                                               !.fresh = FALSE]
                           ELSE row[q]]
          /\ IF stays
             THEN /\ task' = IF life.monitor THEN Restarted(task, r) ELSE task
                  /\ UNCHANGED <<locks, stops, reg>>
             ELSE \E q \in olds :
                    /\ reg' = [on |-> r, old |-> q]
                    /\ IF Live(q) THEN CancelMonitor(q)
                       ELSE UNCHANGED <<task, locks, stops>>
  /\ UNCHANGED <<job, control, faults>>

\* The monitor of the superseded resource has ended: what is left of it in
\* memory goes, and the new resource gets its monitor.
RegisterEnds ==
  /\ reg # NoRegistration /\ ~Live(reg.old) /\ reg.old \notin closers
  /\ LET prunes == Retirable(reg.old, row[reg.old])
         left == IF prunes THEN Pruned(reg.old) ELSE task
     IN /\ IF prunes THEN Prune(reg.old) ELSE UNCHANGED <<stopLock, marked, astray>>
        /\ task' = IF row[reg.on].life.monitor THEN Restarted(left, reg.on) ELSE left
  /\ row' = [row EXCEPT ![reg.on].closed = @ \/ ~row[reg.on].life.monitor]
  /\ reg' = NoRegistration
  /\ UNCHANGED <<job, locks, closers, control, faults>>

\* The same logical key and external id again: the row is refreshed.
Reconcile(r) ==
  /\ ActiveRow(r) /\ r \in Keyed /\ task["runner"].pc = "idle"
  /\ \E life \in Lifecycles[r] : row' = [row EXCEPT ![r].life = life, ![r].fresh = FALSE]
  /\ UNCHANGED <<job, task, locks, stops, reg, control, faults>>

-----------------------------------------------------------------------------
(* The monitor of a resource.                                              *)

MonitorWakes(r) ==
  /\ task[r].pc \in {"start", "sleep"}
  /\ IF task[r].pc = "start" /\ row[r].terminal /\ ~row[r].closed
     THEN task' = Goto(r, "finalize") /\ UNCHANGED closers
     ELSE IF ActiveRow(r) THEN task' = Goto(r, "poll") /\ UNCHANGED closers
     ELSE MonitorEnds(r, row[r])
  /\ UNCHANGED <<row, job, locks, stopLock, marked, astray, reg, control, faults>>

\* The inspection lock is taken and the provider takes its sample.
BeginInspection(t) ==
  LET r == task[t].on IN
  /\ task[t].pc \in Inspections /\ inspecting[r] = None
  /\ inspecting' = [inspecting EXCEPT ![r] = t]
  /\ sample' = [sample EXCEPT ![r] = job[r]]
  /\ UNCHANGED <<row, job, task, finalizing, stops, reg, control, faults>>

Holds(t, pc) == task[t].pc = pc /\ inspecting[task[t].on] = t
EndInspection(t) ==
  /\ inspecting' = Release(inspecting, task[t].on, t)
  /\ sample' = [sample EXCEPT ![task[t].on] = "running"]

\* The provider fails, or the row cannot be written.
InspectionFails(r, w) ==
  \/ ~Allowed(r, w) /\ UNCHANGED faults
  \/ Fault

PollEnds(r) ==
  LET w == Inspected(r, StopDisposition(r), FALSE) IN
  /\ Holds(r, "poll") /\ Allowed(r, w)
  /\ row' = [row EXCEPT ![r] = w]
  /\ task' = [task EXCEPT ![r].errs = 0,
                          ![r].pc = IF w.terminal THEN "finalize" ELSE "sleep"]
  /\ EndInspection(r)
  /\ UNCHANGED <<job, finalizing, stops, reg, control, faults>>

\* _record_monitor_error, then _fail_blocking_resource_after_monitor_errors.
PollFails(r) ==
  LET errs == task[r].errs + 1
      noted == IF row[r].status = "stopping" THEN row[r]
               ELSE SetStatus(row[r], "monitor_error")
      gives == row[r].life.blocking /\ errs >= ErrorLimit /\ noted.status # "stopping"
      failed == [Observe(noted, "failed", TRUE, "active") EXCEPT !.closed = TRUE]
  IN /\ Holds(r, "poll")
     /\ InspectionFails(r, Inspected(r, StopDisposition(r), FALSE))
     /\ row' = [row EXCEPT ![r] = IF gives /\ Allowed(r, failed) THEN failed ELSE noted]
     /\ task' = [task EXCEPT ![r].errs = IF errs > ErrorLimit THEN ErrorLimit ELSE errs,
                             ![r].pc = IF gives THEN "finalize" ELSE "sleep"]
     /\ EndInspection(r)
     /\ UNCHANGED <<job, finalizing, stops, reg, control>>

-----------------------------------------------------------------------------
(* Finalization, by a monitor or by a stop: the log drain, a last          *)
(* inspection that cannot undo the terminal state, and the closed monitor. *)

\* What a stop leaves: its lock, its disposition, and the retirement that it
\* will attempt when it has returned.
StopEnds(s, w, ok) ==
  LET r == task[s].on IN
  /\ row' = [row EXCEPT ![r] = w]
  /\ stopLock' = Release(stopLock, r, s)
  /\ marked' = [marked EXCEPT ![r] = FALSE]
  /\ task' = [task EXCEPT ![s].pc = "close", ![s].ok = ok,
                          ![s].prune = /\ w.closed \/ w.disp # "active"
                                       /\ stopLock[r] \in {None, s} /\ ~Live(r)]
  /\ UNCHANGED <<closers, astray>>

AfterFinalize(t, w) ==
  IF t \in Rs THEN /\ MonitorEnds(t, w)
                   /\ row' = [row EXCEPT ![t] = w]
                   /\ UNCHANGED <<stopLock, marked, astray>>
  ELSE IF task[t].confirmed THEN /\ task' = Goto(t, "begin")
                                 /\ row' = [row EXCEPT ![task[t].on] = w]
                                 /\ UNCHANGED stops
  ELSE StopEnds(t, SetDisposition(w, "cancelled"), TRUE)

FinalizeSkipsBusy(t) ==   \* mutant: another task finalizes: that will do
  LET r == task[t].on IN
  /\ task[t].pc = "finalize"
  /\ ~row[r].terminal \/ row[r].closed \/ finalizing[r] # None
  /\ AfterFinalize(t, row[r])
  /\ UNCHANGED <<job, locks, reg, control, faults>>

FinalizeSkips(t) ==
  LET r == task[t].on IN
  /\ task[t].pc = "finalize" /\ (~row[r].terminal \/ row[r].closed)
  /\ AfterFinalize(t, row[r])
  /\ UNCHANGED <<job, locks, reg, control, faults>>

FinalizeStarts(t) ==
  LET r == task[t].on IN
  /\ task[t].pc = "finalize" /\ row[r].terminal /\ ~row[r].closed
  /\ finalizing[r] = None
  /\ finalizing' = [finalizing EXCEPT ![r] = t]
  /\ task' = Goto(t, "last")
  /\ UNCHANGED <<row, job, inspecting, sample, stops, reg, control, faults>>

FinalizeEnds(t) ==
  LET r == task[t].on
      w == Inspected(r, StopDisposition(r), TRUE)
  IN /\ Holds(t, "last")
     /\ \/ /\ Allowed(r, w) /\ UNCHANGED faults
           /\ AfterFinalize(t, [w EXCEPT !.closed = TRUE])
        \/ /\ InspectionFails(r, w)
           /\ AfterFinalize(t, [row[r] EXCEPT !.closed = TRUE])
     /\ ReleaseBoth(r, t)
     /\ UNCHANGED <<job, reg, control>>

-----------------------------------------------------------------------------
(* A stop.                                                                 *)

\* validate_stop_eligibility, with the lock.
Eligible(me) ==
  LET w == row[me.on] IN
  /\ ActiveRow(me.on) /\ ~w.terminal
  /\ w.status = "stopping" => me.allow
  /\ (me.own /\ ~action.recovered) => w.fresh

\* The lock is taken, the request is validated and committed; or it is refused.
EnterStop(s, me) ==
  LET r == me.on
      already == row[r].status = "stopping"
  IN IF Eligible(me)
     THEN /\ stopLock' = IF me.pc = "adrift" THEN stopLock ELSE [stopLock EXCEPT ![r] = s]
          /\ marked' = [marked EXCEPT ![r] = TRUE]
          /\ row' = [row EXCEPT ![r] = SetStatus(@, "stopping")]
          /\ task' = [task EXCEPT ![s] =
                [me EXCEPT !.pc = IF already THEN "check" ELSE "ask",
                           !.prev = row[r].status, !.already = already]]
     ELSE /\ task' = [task EXCEPT ![s] =
                [me EXCEPT !.pc = "close", !.ok = FALSE,
                           !.prune = Retirable(r, row[r]) /\ ~Live(r)]]
          /\ UNCHANGED <<row, stopLock, marked>>

StopResourceUnlocked(s, me) ==   \* mutant: no stop lock
  EnterStop(s, me) /\ UNCHANGED <<closers, astray>>

\* stop_resource: the stop lock is free, or the caller waits for its holder.
StopResource(s, me) ==
  /\ IF stopLock[me.on] = None THEN EnterStop(s, me)
     ELSE /\ task' = [task EXCEPT ![s] = [me EXCEPT !.pc = "queued"]]
          /\ UNCHANGED <<row, stopLock, marked>>
  /\ UNCHANGED <<closers, astray>>

StopDequeued(s) ==
  /\ task[s].pc \in {"queued", "adrift"}
  /\ \A other \in Stoppers \ {s} :
       ~(task[other].on = task[s].on /\ task[other].pc \in Stopping)
  /\ EnterStop(s, task[s])
  /\ UNCHANGED <<job, locks, closers, astray, reg, control, faults>>

\* The stop was accepted: the run is cancelled if it was the operator's, and
\* the wait for its confirmation begins with what the row says.
Accepted(s, w) == IF w.terminal THEN "finalize" ELSE "watch"
CancelRun(s) == cancelling' = (cancelling \/ task[s].own)

CheckEnds(s) ==
  LET r == task[s].on
      w == Inspected(r, "cancelled", FALSE)
  IN /\ Holds(s, "check")
     /\ \/ /\ row' = [row EXCEPT ![r] = w]
           /\ task' = Goto(s, IF w.terminal THEN "finalize" ELSE "ask")
           /\ IF w.terminal THEN CancelRun(s) ELSE UNCHANGED cancelling
           /\ UNCHANGED faults
        \/ /\ InspectionFails(r, w)
           /\ row' = [row EXCEPT ![r] = SetStatus(@, "stopping")]
           /\ task' = Goto(s, "ask")
           /\ UNCHANGED cancelling
     /\ EndInspection(s)
     /\ UNCHANGED <<job, finalizing, stops, reg, action, orphans>>

AskEnds(s) ==
  LET r == task[s].on IN
  /\ task[s].pc = "ask"
  /\ task' = Restarted(Goto(s, Accepted(s, row[r])), r)
  /\ CancelRun(s)
  /\ UNCHANGED <<row, job, locks, stops, reg, action, orphans, faults>>

\* The provider refuses, as it may when the job has ended: the status that the
\* request replaced is written back.
AskFails(s) ==
  LET r == task[s].on IN
  /\ task[s].pc = "ask"
  /\ \/ job[r] # "running" /\ UNCHANGED faults
     \/ Fault
  /\ StopEnds(s, IF task[s].already THEN row[r] ELSE SetStatus(row[r], task[s].prev),
              FALSE)
  /\ UNCHANGED <<job, locks, reg, control>>

WatchEnds(s) ==
  LET r == task[s].on
      w == Inspected(r, "cancelled", FALSE)
  IN /\ Holds(s, "watch")
     /\ \/ /\ row' = [row EXCEPT ![r] = w]
           /\ task' = Goto(s, IF w.terminal THEN "finalize" ELSE "sleep")
           /\ UNCHANGED faults
        \/ /\ InspectionFails(r, w)
           /\ row' = [row EXCEPT ![r] = SetStatus(@, "stopping")]
           /\ task' = Goto(s, "sleep")
     /\ EndInspection(s)
     /\ UNCHANGED <<job, finalizing, stops, reg, control>>

StopWakes(s) ==
  /\ task[s].pc = "sleep"
  /\ task' = Goto(s, Accepted(s, row[task[s].on]))
  /\ UNCHANGED <<row, job, locks, stops, reg, control, faults>>

TimedRequest == {"check", "ask"}   \* mutant: no deadline for the confirmation
Timed == Stopping

\* stop_timeout_seconds are over, wherever the stop waits.
StopTimesOut(s) ==
  LET r == task[s].on
      w == row[r]
      kept == w.terminal /\ w.disp # "active"
      retry == IF kept THEN w.status
               ELSE IF task[s].prev = "stopping" THEN "running" ELSE task[s].prev
  IN /\ task[s].pc \in Timed /\ ~task[s].confirmed
     /\ ReleaseBoth(r, s)
     /\ StopEnds(s, SetStatus(w, retry), FALSE)
     /\ UNCHANGED <<job, reg, control, faults>>

\* The adapter is closed: the stop returns to its caller.
StopReturns(s) ==
  LET r == task[s].on
      me == task[s]
      stays == Idle(IF ~me.own THEN "cascade" ELSE IF me.ok THEN "begin" ELSE "idle",
                    IF me.own /\ me.ok THEN r ELSE None)
  IN /\ me.pc = "close"
     /\ IF me.prune THEN Prune(r) ELSE UNCHANGED <<stopLock, marked, astray>>
     /\ task' = [IF me.prune THEN Pruned(r) ELSE task EXCEPT ![s] = [stays EXCEPT !.rest = me.rest,
                                                  !.stoppingRest = me.stoppingRest],
                             ![r] = IF me.prune /\ ~Live(r) THEN Idle("none", r) ELSE @]
     /\ action' = IF me.own /\ ~me.ok THEN [action EXCEPT !.status = "rejected"]
                  ELSE action
     /\ UNCHANGED <<row, job, locks, closers, reg, cancelling, orphans, faults>>

-----------------------------------------------------------------------------
(* The two callers of stops.                                               *)

RunEnded == task["runner"].pc \in {"after", "raised", "ended"}
ConfirmedBefore(r) ==     \* _recover_confirmed_stop
  action.recovered /\ row[r].terminal /\ row[r].disp = "cancelled"

\* The operator confirms the stop of what a snapshot shows.
RequestStop(r) ==
  /\ ~Unanswered /\ action.number < MaxStops
  /\ ActiveRow(r) /\ ~row[r].terminal /\ row[r].status # "stopping"
  /\ action' = [on |-> r, recovered |-> FALSE, number |-> action.number + 1,
                status |-> "requested"]
  /\ row' = [row EXCEPT ![r].fresh = TRUE]
  /\ UNCHANGED <<job, task, locks, stops, reg, cancelling, orphans, faults>>

ClaimAction ==
  LET r == action.on
      me == [Idle("idle", r) EXCEPT !.own = TRUE, !.allow = action.recovered]
  IN /\ task["loop"].pc = "idle" /\ action.status = "requested"
     /\ IF ConfirmedBefore(r)
        THEN /\ task' = [task EXCEPT !["loop"] =
                           [me EXCEPT !.pc = "finalize", !.confirmed = TRUE]]
             /\ action' = [action EXCEPT !.status = "executing"]
             /\ UNCHANGED <<row, stops>>
        ELSE IF RunEnded
        THEN /\ action' = [action EXCEPT !.status = "rejected"]
             /\ UNCHANGED <<row, task, stops>>
        ELSE /\ action' = [action EXCEPT !.status = "executing"]
             /\ StopResource("loop", me)
     /\ UNCHANGED <<job, locks, reg, cancelling, orphans, faults>>

\* stop_cancel_resources, from the list that it reads once.
CascadeOf(me) ==
  LET rest == {r \in Rs : ActiveRow(r) /\ ~row[r].terminal}
  IN [me EXCEPT !.pc = "cascade", !.rest = rest,
                !.stoppingRest = {r \in rest : row[r].status = "stopping"}]

BeginCascade(s) ==
  /\ IF s = "loop" THEN task[s].pc = "begin"
     ELSE task[s].pc \in {"idle", "waiting"} /\ ~(action.recovered /\ Unanswered)
  /\ cancelling' = TRUE
  /\ task' = [task EXCEPT ![s] = IF s = "loop" /\ RunEnded THEN Idle("cascade", None)
                                 ELSE CascadeOf(Idle("cascade", None))]
  /\ UNCHANGED <<row, job, locks, stops, reg, action, orphans, faults>>

CascadeStops(s) ==
  /\ task[s].pc = "cascade"
  /\ \E r \in task[s].rest :
       StopResource(s, [task[s] EXCEPT !.on = r, !.rest = @ \ {r},
                                       !.allow = r \in task[s].stoppingRest])
  /\ UNCHANGED <<job, locks, reg, control, faults>>

CascadeEnds(s) ==
  /\ task[s].pc = "cascade" /\ task[s].rest = {}
  /\ task' = [task EXCEPT ![s] = Idle(IF s = "loop" THEN "idle" ELSE "after", None)]
  /\ action' = IF s = "loop" THEN [action EXCEPT !.status = "completed"] ELSE action
  /\ UNCHANGED <<row, job, locks, stops, reg, cancelling, orphans, faults>>

-----------------------------------------------------------------------------
(* The end of the run: wait_for_blocking_resources and                     *)
(* close_nonblocking_monitors.                                             *)

BlockingActive ==
  {r \in Rs : ActiveRow(r) /\ row[r].life.blocking /\ ~Settled(r)}

RunnerWaits ==
  /\ task["runner"].pc = "idle" /\ ~cancelling /\ ~(action.recovered /\ Unanswered)
  /\ reg = NoRegistration
  /\ task' = Goto("runner", "waiting")
  /\ UNCHANGED <<row, job, locks, stops, reg, control, faults>>

WaitEnds ==
  /\ task["runner"].pc = "waiting" /\ ~cancelling
  /\ \/ BlockingActive = {} /\ task' = Goto("runner", "after")
     \/ /\ \E r \in BlockingActive : ~Live(r)
        /\ task' = Goto("runner", "raised")
  /\ UNCHANGED <<row, job, locks, stops, reg, control, faults>>

CloseNonblocking ==
  LET closed == {r \in Rs : ~row[r].life.blocking /\ task[r].pc # "none"}
      retired == {r \in closed : stopLock[r] = None}
      Freed(lock, r) == r \in closed /\ lock[r] = r
  IN /\ task["runner"].pc \in {"after", "raised"}
     /\ row' = [r \in Rs |-> [row[r] EXCEPT !.closed = @ \/ r \in closed]]
     /\ task' = [t \in Tasks |->
                  IF t = "runner" THEN Idle("ended", None)
                  ELSE IF t \in retired THEN Idle("none", t)
                  ELSE IF t \in closed THEN [task[t] EXCEPT !.pc = "done"]
                  ELSE task[t]]
     /\ inspecting' = [r \in Rs |-> IF Freed(inspecting, r) THEN None ELSE inspecting[r]]
     /\ sample' = [r \in Rs |-> IF Freed(inspecting, r) THEN "running" ELSE sample[r]]
     /\ finalizing' = [r \in Rs |-> IF Freed(finalizing, r) THEN None ELSE finalizing[r]]
     /\ closers' = closers \cup retired
     /\ UNCHANGED <<job, stopLock, marked, astray, reg, control, faults>>

PendingActive(r) ==   \* mutant: a terminal resource is over
  /\ row[r].known /\ row[r].life.monitor /\ ActiveRow(r) /\ ~row[r].terminal
  /\ row[r].status # "stopping"

\* restore_monitors.
Pending(r) ==
  /\ row[r].known
  /\ \/ row[r].terminal /\ ~row[r].closed
     \/ /\ row[r].life.monitor /\ ActiveRow(r) /\ ~row[r].terminal
        /\ row[r].status # "stopping"

\* The process dies and another one reopens the run with what the rows say.
CrashAndReopen ==
  /\ Fault
  /\ task["runner"].pc # "ended"
  /\ task' = [t \in Tasks |->
               IF t \in Rs THEN Idle(IF Pending(t) THEN "start" ELSE "none", t)
               ELSE Idle("idle", None)]
  /\ inspecting' = [r \in Rs |-> None] /\ sample' = [r \in Rs |-> "running"]
  /\ finalizing' = [r \in Rs |-> None] /\ stopLock' = [r \in Rs |-> None]
  /\ marked' = [r \in Rs |-> FALSE] /\ closers' = {} /\ reg' = NoRegistration
  /\ action' = IF action.status = "executing"
               THEN [action EXCEPT !.status = "requested", !.recovered = TRUE]
               ELSE action
  /\ orphans' = orphans \cup {r \in Rs : ActiveRow(r) /\ row[r].status = "stopping"}
  /\ UNCHANGED <<row, job, astray, cancelling>>

-----------------------------------------------------------------------------
TaskStep(t) ==
  \/ BeginInspection(t) \/ FinalizeSkips(t) \/ FinalizeStarts(t)
  \/ FinalizeEnds(t)
MonitorStep(r) == MonitorWakes(r) \/ PollEnds(r) \/ PollFails(r) \/ TaskStep(r)
StopStep(s) ==
  \/ StopDequeued(s) \/ CheckEnds(s) \/ AskEnds(s) \/ AskFails(s)
  \/ WatchEnds(s) \/ StopWakes(s) \/ StopReturns(s) \/ CascadeStops(s)
  \/ CascadeEnds(s) \/ TaskStep(s)

Next ==
  \/ \E r \in Rs : JobEnds(r) \/ Register(r) \/ Reconcile(r) \/ AdapterCloses(r)
                   \/ RequestStop(r) \/ MonitorStep(r)
  \/ \E s \in Stoppers : BeginCascade(s) \/ StopStep(s) \/ StopTimesOut(s)
  \/ RegisterEnds \/ ClaimAction
  \/ RunnerWaits \/ WaitEnds \/ CloseNonblocking \/ CrashAndReopen

Spec == Init /\ [][Next]_vars

\* Every task of the loop gets its turn and every await ends: the provider
\* answers, a sleep or a deadline is over.  Jobs, registrations, operators and
\* crashes owe nothing.
Fairness ==
  /\ \A r \in Rs : WF_vars(MonitorStep(r)) /\ WF_vars(AdapterCloses(r))
  /\ \A s \in Stoppers : WF_vars(StopStep(s)) /\ WF_vars(StopTimesOut(s))
  /\ WF_vars(BeginCascade("loop")) /\ WF_vars(cancelling /\ BeginCascade("runner"))
  /\ WF_vars(ClaimAction) /\ WF_vars(RegisterEnds)
  /\ WF_vars(WaitEnds) /\ WF_vars(CloseNonblocking)
FairSpec == Spec /\ Fairness

-----------------------------------------------------------------------------
(* Properties.                                                             *)

TypeOK ==
  /\ row \in [Rs -> Row]
  /\ job \in [Rs -> Jobs]
  /\ task \in [Tasks -> Task]
  /\ inspecting \in [Rs -> Tasks \cup {None}]
  /\ sample \in [Rs -> Jobs]
  /\ finalizing \in [Rs -> Tasks \cup {None}]
  /\ stopLock \in [Rs -> Stoppers \cup {None}]
  /\ marked \in [Rs -> BOOLEAN] /\ closers \subseteq Rs
  /\ reg \in [on: Rs \cup {None}, old: Rs \cup {None}]
  /\ action \in Actions /\ cancelling \in BOOLEAN /\ faults \in 0 .. MaxEvents
  /\ astray \subseteq Rs /\ orphans \subseteq Rs

InStop(s, r) == task[s].on = r /\ task[s].pc \in Stopping /\ ~task[s].confirmed

\* What ended stays ended in the store: no inspection that began earlier, no
\* refused stop and no monitor error clears the terminal flag, unless it was a
\* monitor's guess after too many errors, which only a monitor corrects.
TerminalIsFinal ==
  [][\A r \in Rs \ astray : row[r].terminal =>
       \/ row'[r].terminal
       \/ row[r].status \in {"failed", "monitor_error"} /\ Holds(r, "poll")]_vars

\* An inspection that began before a stop was requested and a monitor that
\* fails leave STOPPING alone: only the end of the job or of the stop itself
\* replaces it.
StopIntentIsKept ==
  [][\A r \in Rs : row[r].status = "stopping" /\ row'[r].status # "stopping" =>
       \/ row'[r].terminal
       \/ \E s \in Stoppers : InStop(s, r) /\ ~InStop(s, r)']_vars

\* Both: what is known of a job is not lost to a task that knew less.
RowsKeepWhatIsKnown == TerminalIsFinal /\ StopIntentIsKept

\* Two callers stop one resource at the same time only after a retirement
\* threw away the stop lock that one of them held or waited for.
OneStopAtATime ==
  \A r \in Rs \ astray : ~(InStop("loop", r) /\ InStop("runner", r))

\* A stop that returns has a terminal, finalized resource recorded cancelled.
ConfirmedStopIsSettled ==
  [][\A s \in Stoppers :
       task[s].pc \in Stopping /\ task'[s].pc = "close" /\ task'[s].ok
                              /\ task[s].on \notin astray =>
         Settled(task[s].on)' /\ row'[task[s].on].disp = "cancelled"]_vars

\* A resource whose stop was confirmed stays cancelled.
CancelledIsFinal ==
  [][\A r \in Rs : row[r].disp = "cancelled" => row'[r].disp = "cancelled"]_vars

\* The wait for blocking resources fails the run for want of a monitor only
\* for a resource that a restored process found STOPPING (no monitor is started
\* for it), one whose stop lock was thrown away, or one that was registered
\* unblocking before.
WaitIsWatched ==
  task["runner"].pc = "waiting" =>
    \A r \in BlockingActive :
      \/ Live(r)
      \/ r \in orphans \cup astray
      \/ \E life \in Lifecycles[r] : ~life.blocking

\* Every stop request is answered.
StopAnswered == action.status = "requested" ~> ~Unanswered

=============================================================================
