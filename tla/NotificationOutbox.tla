------------------------- MODULE NotificationOutbox -------------------------
(***************************************************************************)
(* From a failed cell to a delivered notification: the event journal and   *)
(* its pruning (storage.py, events.py), the listener that routes journaled *)
(* events to notification intents behind a durable cursor, the worker that *)
(* claims and attempts the deliveries of each intent to each destination,  *)
(* the rotation and the purge of destinations (notifications.py,           *)
(* storage.py), what a starting process infers from the run's state        *)
(* (notification_presentation.py) and the drain before cleanup (cli.py).   *)
(*                                                                         *)
(* A process is one asyncio loop: a step is the code between two awaits,   *)
(* cut short where a crash between two commits matters.  Retry delays are  *)
(* awaits that end at any time: any pending delivery may be due.           *)
(***************************************************************************)
EXTENDS Naturals, FiniteSets

CONSTANTS Destinations,      \* a webhook, the ntfy topic, ...
          Credentials,       \* generations of their URLs
          Off,               \* no destination is configured
          MaxAttempts,       \* max_delivery_attempts
          MaxRouting,        \* max_routing_attempts
          Keep,              \* max_events_per_run
          QueueSize,         \* subscriber_queue_size
          MaxEpochs, MaxFailures,
          MaxNotices,        \* bound: events to notify of, and reminders
          MaxChanges,        \* bound: changes of the manifest
          MaxFaults          \* bound: ends of the process, errors that last

ASSUME LimitsArePositive ==
  /\ MaxAttempts \in Nat \ {0} /\ MaxRouting \in Nat \ {0}
  /\ Keep \in Nat \ {0} /\ QueueSize \in Nat \ {0}
ASSUME BoundsAreNatural ==
  /\ MaxEpochs \in Nat /\ MaxFailures \in Nat /\ MaxNotices \in Nat
  /\ MaxChanges \in Nat /\ MaxFaults \in Nat
ASSUME OffIsNotACredential == Off \notin Credentials /\ Credentials # {}
ASSUME SomeDestination == Destinations # {} /\ IsFiniteSet(Destinations)

VARIABLES
  run,       \* the run's row, and what its runner does
  journal,   \* the events that are retained, by sequence number
  high,      \* the last sequence number given
  routing,   \* the row's notification metadata: cursor, retries, required
  config,    \* destinations: the manifest's, and the row's copy
  outbox,    \* the intents with their deliveries
  proc,      \* the process: its listener and its delivery worker
  inflight,  \* the deliveries whose attempt the worker awaits
  drain,     \* the drain before cleanup
  owed,      \* history: notifiable events journaled while routing was required
  dropped,   \* history: events rejected or dead-lettered
  used       \* counters of the bounds

vars == <<run, journal, high, routing, config, outbox, proc, inflight, drain,
          owed, dropped, used>>
history == <<owed, dropped>>

\* Deduplication keys; an event is what it notifies of, or Diagnostic.
Failed(epoch, attempt) == [kind |-> "failed", epoch |-> epoch, attempt |-> attempt]
RunEnded(epoch) == [kind |-> "ended", epoch |-> epoch, attempt |-> 0]
Reminder == [kind |-> "periodic", epoch |-> 0, attempt |-> 0]
Diagnostic == [kind |-> "diagnostic", epoch |-> 0, attempt |-> 0]
Keys == {Failed(e, a) : e \in 1 .. MaxEpochs, a \in 1 .. MaxFailures}
          \cup {RunEnded(e) : e \in 1 .. MaxEpochs} \cup {Reminder}
Events == Keys \cup {Diagnostic}

Done == {"succeeded", "failed"}
Send == [status: {"none", "pending", "sending"} \cup Done, tries: 0 .. MaxAttempts,
         error: BOOLEAN, cred: Credentials \cup {Off}]
Intent == [status: {"none", "pending", "partial"} \cup Done,
           reported: {"none", "pending", "partial"} \cup Done,
           sends: [Destinations -> Send]]
NoSend == [status |-> "none", tries |-> 0, error |-> FALSE, cred |-> Off]
Absent == [status |-> "none", reported |-> "none",
           sends |-> [d \in Destinations |-> NoSend]]
NoRetry == [seq |-> 0, attempt |-> 0]
Down == [up |-> FALSE, listener |-> "none", worker |-> "none", queue |-> 0]
NoDrain == [state |-> "no", target |-> 0]

Init ==
  /\ run = [phase |-> "down", epoch |-> 0, failed |-> 0, attempts |-> 0, over |-> FALSE]
  /\ journal = [s \in {} |-> Diagnostic] /\ high = 0
  /\ routing = [required |-> FALSE, cursor |-> 0, retry |-> NoRetry]
  /\ LET c == CHOOSE c \in Credentials : TRUE IN config = [manifest |-> c, stored |-> c]
  /\ outbox = [k \in Keys |-> Absent]
  /\ proc = Down /\ inflight = [k \in Keys |-> [d \in Destinations |-> "none"]]
  /\ drain = NoDrain /\ owed = {} /\ dropped = {}
  /\ used = [notices |-> 0, changes |-> 0, faults |-> 0]

-----------------------------------------------------------------------------
(* The journal and the subscribers' queues.                                *)

\* _prune_events: the newest Keep events stay, and what the router has not read.
PruneUnread(j, h, r) == [s \in {s \in DOMAIN j : s + Keep > h} |-> j[s]]  \* mutant
Prune(j, h, r) ==
  [s \in {s \in DOMAIN j : s + Keep > h \/ (r.required /\ s > r.cursor)} |-> j[s]]

\* The journal after the metadata became r and n diagnostics were published.
Journal(n, r) ==
  Prune([s \in DOMAIN journal \cup (high + 1 .. high + n) |->
           IF s \in DOMAIN journal THEN journal[s] ELSE Diagnostic], high + n, r)

\* _fan_out: a full queue loses its oldest event.
FanOutNothing(p, n) == p                      \* mutant: journaled, not fanned out
FanOut(p, n) ==
  IF p.listener = "none" THEN p
  ELSE [p EXCEPT !.queue = IF @ + n > QueueSize THEN QueueSize ELSE @ + n]

\* publish and fan_out_persisted, for n diagnostic events.
PublishDiagnostics(n) ==
  /\ high' = high + n
  /\ journal' = Journal(n, routing)

\* The event e is committed with the state it is about, then fanned out.
Commit(e) ==
  /\ high' = high + 1
  /\ journal' = Prune([s \in DOMAIN journal \cup {high + 1} |->
                         IF s = high + 1 THEN e ELSE journal[s]], high + 1, routing)
  /\ proc' = FanOut(proc, 1)
  /\ owed' = IF routing.required THEN owed \cup {[seq |-> high + 1, key |-> e]}
             ELSE owed

-----------------------------------------------------------------------------
(* The outbox.  Operators on one intent i, and on the table o of intents.  *)

Open(i) == \E d \in Destinations : i.sends[d].status \in {"pending", "sending"}

\* _notification_intent_state
IntentState(i) ==
  IF \A d \in Destinations : i.sends[d].status = "succeeded" THEN "succeeded"
  ELSE IF ~Open(i) THEN "failed"
  ELSE IF \E d \in Destinations : i.sends[d].error THEN "partial"
  ELSE "pending"

Recompute(i) == [i EXCEPT !.status = IntentState(i)]
\* The same where a status that changes is to be reported again.
RecomputeAndRearm(i) ==
  [i EXCEPT !.status = IntentState(i),
            !.reported = IF i.status = IntentState(i) THEN @ ELSE "none"]

FreshIntent(cred) ==
  [status |-> "pending", reported |-> "none",
   sends |-> [d \in Destinations |->
                [status |-> "pending", tries |-> 0, error |-> FALSE, cred |-> cred]]]

\* enqueue_notification of a replay, and of a reminder (rolling): an intent that
\* exists is left alone, and a reminder's is replaced once it was reported.
Enqueue(o, k, cred) ==
  IF o[k].status = "none" THEN [o EXCEPT ![k] = FreshIntent(cred)] ELSE o
Roll(o, cred) ==
  LET i == o[Reminder]
  IN IF i.status = "none" \/ (i.status \in Done /\ i.reported = i.status)
     THEN [o EXCEPT ![Reminder] = FreshIntent(cred)] ELSE o

FailureRefunded(s) == [s EXCEPT !.status = "pending", !.error = TRUE]  \* mutant
\* The attempt stays counted: the destination may have accepted the request.
Failure(s) ==
  [s EXCEPT !.status = IF s.tries >= MaxAttempts THEN "failed" ELSE "pending",
            !.error = TRUE]

\* recover_notification_deliveries
Recovered(i) ==
  IF \A d \in Destinations : i.sends[d].status # "sending" THEN i
  ELSE RecomputeAndRearm(
         [i EXCEPT !.sends = [d \in Destinations |->
            IF i.sends[d].status = "sending" THEN Failure(i.sends[d]) ELSE i.sends[d]]])
RecoverInterrupted(o) == [k \in Keys |-> Recovered(o[k])]

\* finish_notification_delivery, recover_claimed_notification_delivery
FinishedOnly(i, d, succeeded) ==          \* mutant: the intent is not recomputed
  [i EXCEPT !.sends[d] = IF succeeded THEN [@ EXCEPT !.status = "succeeded", !.error = FALSE]
                         ELSE Failure(@)]
Finished(i, d, succeeded) ==
  IF i.sends[d].status # "sending" THEN Recompute(i)
  ELSE Recompute([i EXCEPT !.sends[d] =
         IF succeeded THEN [@ EXCEPT !.status = "succeeded", !.error = FALSE]
         ELSE Failure(@)])

\* reconcile_notification_configuration: same-topology rotation.
RotatedResending(i, cred) ==       \* mutant: what succeeded is sent again
  IF i.status = "none" THEN i
  ELSE RecomputeAndRearm([i EXCEPT !.sends = FreshIntent(cred).sends])
Rotated(i, cred) ==
  IF i.status = "none" THEN i
  ELSE RecomputeAndRearm(
         [i EXCEPT !.sends = [d \in Destinations |->
            IF i.sends[d].status = "succeeded"
            THEN [i.sends[d] EXCEPT !.cred = cred, !.error = FALSE]
            ELSE [status |-> "pending", tries |-> 0, error |-> FALSE, cred |-> cred]]])
Rotation(o, cred) ==
  IF config.stored = cred THEN o ELSE [k \in Keys |-> Rotated(o[k], cred)]

Settled(k) == outbox[k].status \in Done

-----------------------------------------------------------------------------
(* Maintenance and start-up.                                               *)

On == config.manifest # Off

\* purge_notification_state: the outbox and the backlog are forgotten.
Purge ==
  /\ outbox' = [k \in Keys |-> Absent]
  /\ routing' = [required |-> FALSE, cursor |-> high, retry |-> NoRetry]
  /\ owed' = {}
  /\ config' = [config EXCEPT !.stored = Off]

\* `runwatch notifications rotate | purge` writes the manifest first ...
ChangeManifest(c) ==
  /\ ~proc.up /\ used.changes < MaxChanges /\ c # config.manifest
  /\ config' = [config EXCEPT !.manifest = c]
  /\ used' = [used EXCEPT !.changes = @ + 1]
  /\ UNCHANGED <<run, journal, high, routing, outbox, proc, inflight, drain, history>>

\* ... and then one transaction, unless the command is interrupted.
FinishMaintenance ==
  /\ ~proc.up /\ config.stored # config.manifest
  /\ IF ~On THEN Purge
     ELSE /\ outbox' = Rotation(outbox, config.manifest)
          /\ config' = [config EXCEPT !.stored = config.manifest]
          /\ routing' = [routing EXCEPT !.required = TRUE]
          /\ UNCHANGED owed
  /\ UNCHANGED <<run, journal, high, proc, inflight, drain, dropped, used>>

\* reconcile_state: what the run's state implies, under today's epoch.
Implied ==
  (IF run.failed > 0 THEN {Failed(run.epoch, run.failed)} ELSE {})
    \cup (IF run.over THEN {RunEnded(run.epoch)} ELSE {})

EnqueueAll(o, K, cred) ==
  [k \in Keys |-> IF k \in K THEN Enqueue(o, k, cred)[k] ELSE o[k]]

\* NotificationManager.__init__ and start, and the run's process around it.
Start ==
  /\ ~proc.up
  /\ IF ~On THEN Purge /\ proc' = [Down EXCEPT !.up = TRUE]
     ELSE /\ outbox' = EnqueueAll(RecoverInterrupted(Rotation(outbox, config.manifest)),
                                  Implied, config.manifest)
          /\ config' = [config EXCEPT !.stored = config.manifest]
          /\ routing' = [routing EXCEPT !.required = TRUE]
          /\ proc' = [up |-> TRUE, listener |-> "reading", worker |-> "idle", queue |-> 0]
          /\ UNCHANGED owed
  /\ run' = [run EXCEPT !.phase = IF run.over THEN "over" ELSE "idle"]
  /\ UNCHANGED <<journal, high, inflight, drain, dropped, used>>

Notice ==
  /\ used.notices < MaxNotices
  /\ used' = [used EXCEPT !.notices = @ + 1]
Fault ==
  /\ used.faults < MaxFaults
  /\ used' = [used EXCEPT !.faults = @ + 1]

Dies ==
  /\ proc' = Down /\ drain' = NoDrain
  /\ inflight' = [k \in Keys |-> [d \in Destinations |-> "none"]]
  /\ run' = [run EXCEPT !.phase = "down"]

\* close: interrupted attempts are recovered, and journaled for nobody.
Close ==
  /\ proc.up /\ Fault
  /\ outbox' = IF On THEN RecoverInterrupted(outbox) ELSE outbox
  /\ PublishDiagnostics(IF outbox' = outbox THEN 0 ELSE 1)
  /\ Dies
  /\ UNCHANGED <<routing, config, history>>

Crash ==
  /\ proc.up /\ Fault
  /\ Dies
  /\ UNCHANGED <<journal, high, routing, config, outbox, history>>

-----------------------------------------------------------------------------
(* The run (RunLifecycle has all of it): what it journals and keeps.       *)

\* begin_kernel_epoch: the failure of the previous epoch is still in the row ...
BeginEpoch ==
  /\ run.phase \in {"idle", "paused"} /\ run.epoch < MaxEpochs
  /\ run' = [run EXCEPT !.phase = "booting", !.epoch = @ + 1, !.attempts = 0]
  /\ UNCHANGED <<journal, high, routing, config, outbox, proc, inflight, drain,
                 history, used>>

\* ... until the kernel has started.
KernelStarts ==
  /\ run.phase = "booting"
  /\ run' = [run EXCEPT !.phase = "running", !.failed = 0]
  /\ PublishDiagnostics(1) /\ proc' = FanOut(proc, 1)
  /\ UNCHANGED <<routing, config, outbox, inflight, drain, history, used>>

CellFails ==
  /\ run.phase = "running" /\ run.attempts < MaxFailures /\ Notice
  /\ run' = [run EXCEPT !.phase = "paused", !.attempts = @ + 1, !.failed = run.attempts + 1]
  /\ Commit(Failed(run.epoch, run.attempts + 1))
  /\ UNCHANGED <<routing, config, outbox, inflight, drain, dropped>>

CellResumes ==
  /\ run.phase = "paused"
  /\ run' = [run EXCEPT !.phase = "running", !.failed = 0]
  /\ UNCHANGED <<journal, high, routing, config, outbox, proc, inflight, drain,
                 history, used>>

\* finish_run: succeeded forgets the failure, failed and cancelled keep it.
RunEnds ==
  /\ run.phase \in {"booting", "running", "paused"} /\ Notice
  /\ \E failed \in {0, run.failed} :
       run' = [run EXCEPT !.phase = "over", !.over = TRUE, !.failed = failed]
  /\ Commit(RunEnded(run.epoch))
  /\ UNCHANGED <<routing, config, outbox, inflight, drain, dropped>>

-----------------------------------------------------------------------------
(* The listener: journaled events become intents, then the cursor moves.   *)

Unread == {s \in DOMAIN journal : s > routing.cursor}
Notifiable == {s \in Unread : journal[s] \in Keys}
Awake == proc.listener = "reading" \/ (proc.listener = "waiting" /\ proc.queue > 0)
At(s) == [routing EXCEPT !.cursor = s, !.retry = NoRetry]
RoutedBefore(s) ==
  EnqueueAll(outbox, {journal[t] : t \in {t \in Notifiable : t < s}}, config.manifest)

\* The cursor moves to s, then n diagnostics are published and not yet read.
Advance(s, n) ==
  /\ routing' = At(s)
  /\ high' = high + n /\ journal' = Journal(n, At(s))
  /\ proc' = [proc EXCEPT !.listener = "reading"]

\* _listen: all that is unread is routed, then the queue is awaited.
RouteEvents ==
  /\ Awake
  /\ outbox' = RoutedBefore(high + 1)
  /\ routing' = IF Unread = {} THEN routing ELSE At(high)
  /\ journal' = Prune(journal, high, routing')
  /\ proc' = [proc EXCEPT !.listener = "waiting", !.queue = 0]
  /\ UNCHANGED <<run, high, config, inflight, drain, history, used>>

\* The process dies between the commit of an intent and that of the cursor.
RouteIsCut ==
  /\ Awake /\ Fault
  /\ \E s \in Notifiable :
       /\ outbox' = Enqueue(RoutedBefore(s), journal[s], config.manifest)
       /\ routing' = [routing EXCEPT !.cursor = s - 1]
       /\ journal' = Prune(journal, high, routing')
  /\ Dies
  /\ UNCHANGED <<high, config, history>>

\* record_notification_routing_failure: retried after a while, or dead-lettered.
RouteFails ==
  /\ Awake
  /\ \E s \in Notifiable :
       LET attempt == IF routing.retry.seq = s THEN routing.retry.attempt + 1 ELSE 1
       IN /\ IF attempt = 1 THEN Fault ELSE UNCHANGED used
          /\ outbox' = RoutedBefore(s)
          /\ IF attempt >= MaxRouting THEN Advance(s, 1) /\ dropped' = dropped \cup {s}
             ELSE /\ routing' = [At(s - 1) EXCEPT !.retry = [seq |-> s, attempt |-> attempt]]
                  /\ journal' = Prune(journal, high, routing')
                  /\ proc' = [proc EXCEPT !.listener = "reading"]
                  /\ UNCHANGED <<high, dropped>>
  /\ UNCHANGED <<run, config, inflight, drain, owed>>

\* An event that cannot be presented is consumed with a diagnostic.
RouteRejects ==
  /\ Awake /\ Fault
  /\ \E s \in Notifiable :
       /\ outbox' = RoutedBefore(s)
       /\ Advance(s, 1) /\ dropped' = dropped \cup {s}
  /\ UNCHANGED <<run, config, inflight, drain, owed>>

\* The periodic task, until the run is over.
Remind ==
  /\ proc.worker # "none" /\ ~run.over /\ Notice
  /\ outbox' = Roll(outbox, config.manifest)
  /\ UNCHANGED <<run, journal, high, routing, config, proc, inflight, drain, history>>

-----------------------------------------------------------------------------
(* The delivery worker.                                                    *)

Pending(first) == {q \in Keys \X Destinations :
                     LET s == outbox[q[1]].sends[q[2]]
                     IN s.status = "pending" /\ (s.tries = 0) = first}

Claimed(s) == [s EXCEPT !.status = "sending", !.tries = @ + 1]

\* claim_due_notification_deliveries: what is due is claimed, and counted.
Claim ==
  /\ proc.worker = "idle"
  /\ \E retried \in SUBSET Pending(FALSE) : LET due == Pending(TRUE) \cup retried IN
       /\ due # {}
       /\ outbox' = [k \in Keys |-> [outbox[k] EXCEPT !.sends = [d \in Destinations |->
            IF <<k, d>> \in due THEN Claimed(@[d]) ELSE @[d]]]]
       /\ inflight' = [k \in Keys |-> [d \in Destinations |->
                         IF <<k, d>> \in due THEN "asked" ELSE "none"]]
  /\ proc' = [proc EXCEPT !.worker = "gathering"]
  /\ UNCHANGED <<run, journal, high, routing, config, drain, history, used>>

\* An attempt ends: the destination accepted, or refused, or did not answer.
AttemptEnds(k, d) ==
  /\ inflight[k][d] = "asked"
  /\ \E succeeded \in BOOLEAN : outbox' = [outbox EXCEPT ![k] = Finished(@, d, succeeded)]
  /\ inflight' = [inflight EXCEPT ![k][d] = "none"]
  /\ UNCHANGED <<run, journal, high, routing, config, proc, drain, history, used>>

\* It ended, and recording how failed.
AttemptIsLost(k, d) ==
  /\ inflight[k][d] = "asked" /\ Fault
  /\ inflight' = [inflight EXCEPT ![k][d] = "lost"]
  /\ UNCHANGED <<run, journal, high, routing, config, outbox, proc, drain, history>>

Lost == {q \in Keys \X Destinations : inflight[q[1]][q[2]] = "lost"}
RecoverLost(o) ==
  [k \in Keys |->
     IF \A d \in Destinations : <<k, d>> \notin Lost THEN o[k]
     ELSE Recompute([o[k] EXCEPT !.sends = [d \in Destinations |->
            IF <<k, d>> \in Lost THEN Failure(@[d]) ELSE @[d]]])]

\* _report_intent_transitions: each is published, then marked.
Unreported(o) == {k \in Keys : /\ o[k].status \in {"partial"} \cup Done
                               /\ o[k].reported # o[k].status}
Reported(o) == [k \in Keys |-> IF k \in Unreported(o)
                               THEN [o[k] EXCEPT !.reported = o[k].status] ELSE o[k]]
RecoverAndReport(o, lost) ==
  LET n == Cardinality(lost) + Cardinality(Unreported(o))
  IN outbox' = Reported(o) /\ PublishDiagnostics(n)
       /\ proc' = [FanOut(proc, n) EXCEPT !.worker = "idle"]

\* _deliver_claimed: every attempt of the batch ended; what was lost is pending
\* again, or failed.
BatchEnds ==
  /\ proc.worker = "gathering"
  /\ \A k \in Keys, d \in Destinations : inflight[k][d] # "asked"
  /\ RecoverAndReport(RecoverLost(outbox), Lost)
  /\ inflight' = [k \in Keys |-> [d \in Destinations |-> "none"]]
  /\ UNCHANGED <<run, routing, config, drain, history, used>>

\* The worker finds nothing due, and reports what a restart recovered.
Report ==
  /\ proc.worker = "idle" /\ Unreported(outbox) # {}
  /\ RecoverAndReport(outbox, {})
  /\ UNCHANGED <<run, routing, config, inflight, drain, history, used>>

-----------------------------------------------------------------------------
(* The drain before cleanup.                                               *)

BeginDrain ==
  /\ proc.up /\ run.phase = "over" /\ drain.state = "no"
  /\ drain' = [state |-> "waiting", target |-> high]
  /\ UNCHANGED <<run, journal, high, routing, config, outbox, proc, inflight, history, used>>

OutboxIsDone == \A k \in Keys : ~Open(outbox[k]) /\ outbox[k].status \notin {"pending", "partial"}
DrainIsDoneUnrouted == On => OutboxIsDone                   \* mutant
DrainIsDone == On => routing.cursor >= drain.target /\ OutboxIsDone

DrainEnds ==
  /\ drain.state = "waiting"
  /\ drain' = [drain EXCEPT !.state = IF DrainIsDone THEN "complete" ELSE "no"]
  /\ UNCHANGED <<run, journal, high, routing, config, outbox, proc, inflight, history, used>>

-----------------------------------------------------------------------------
ListenerStep == RouteEvents \/ RouteFails \/ RouteRejects
WorkerStep ==
  \/ Claim \/ BatchEnds \/ Report
  \/ \E k \in Keys, d \in Destinations : AttemptEnds(k, d) \/ AttemptIsLost(k, d)

Next ==
  \/ \E c \in Credentials \cup {Off} : ChangeManifest(c)
  \/ FinishMaintenance \/ Start \/ Close \/ Crash
  \/ BeginEpoch \/ KernelStarts \/ CellFails \/ CellResumes \/ RunEnds
  \/ ListenerStep \/ RouteIsCut \/ Remind \/ WorkerStep
  \/ BeginDrain \/ DrainEnds

Spec == Init /\ [][Next]_vars

\* The two tasks of a running process go on, and every request ends: httpx
\* gives it a timeout.  Runs, operators and crashes owe nothing.
Fairness == WF_vars(ListenerStep) /\ WF_vars(WorkerStep)
FairSpec == Spec /\ Fairness

-----------------------------------------------------------------------------
(* Properties.                                                             *)

TypeOK ==
  /\ run \in [phase: {"down", "idle", "booting", "running", "paused", "over"},
              epoch: 0 .. MaxEpochs, failed: 0 .. MaxFailures,
              attempts: 0 .. MaxFailures, over: BOOLEAN]
  /\ high \in Nat /\ DOMAIN journal \subseteq 1 .. high
  /\ \A s \in DOMAIN journal : journal[s] \in Events
  /\ routing \in [required: BOOLEAN, cursor: 0 .. high,
                  retry: [seq: Nat, attempt: 0 .. MaxRouting - 1]]
  /\ config \in [manifest: Credentials \cup {Off}, stored: Credentials \cup {Off}]
  /\ outbox \in [Keys -> Intent]
  /\ proc \in [up: BOOLEAN, listener: {"none", "reading", "waiting"},
               worker: {"none", "idle", "gathering"}, queue: 0 .. QueueSize]
  /\ inflight \in [Keys -> [Destinations -> {"none", "asked", "lost"}]]
  /\ drain \in [state: {"no", "waiting", "complete"}, target: Nat]
  /\ owed \subseteq [seq: 1 .. high, key: Keys] /\ dropped \subseteq 1 .. high
  /\ used \in [notices: 0 .. MaxNotices, changes: 0 .. MaxChanges,
               faults: 0 .. MaxFaults]

\* An event that was to be notified of is in the journal until the cursor has
\* passed it; then its intent exists, or it was given up on record.
NothingOwedIsLost ==
  \A f \in owed : IF f.seq > routing.cursor THEN f.seq \in DOMAIN journal
                  ELSE outbox[f.key].status # "none" \/ f.seq \in dropped

\* What an intent says of itself is what its deliveries add up to.
IntentAgrees ==
  \A k \in Keys : outbox[k].status # "none" => outbox[k].status = IntentState(outbox[k])

\* While the worker runs, a delivery is marked as being sent exactly as long as
\* its attempt is out, and only to the destinations configured now.
SendingIsInFlight ==
  proc.worker # "none" =>
    \A k \in Keys, d \in Destinations :
      LET s == outbox[k].sends[d]
      IN /\ s.status = "sending" <=> inflight[k][d] # "none"
         /\ s.status # "none" => s.cred = config.manifest

\* Both: the rows say what happens to their notices.
RowsAgree == IntentAgrees /\ SendingIsInFlight

OwedIsSettledOrDropped == \A f \in owed : Settled(f.key) \/ f.seq \in dropped

\* A drain that reports completion leaves no notification of the run behind:
\* cleanup deletes the outbox.
DrainedIsSettled == drain.state = "complete" /\ On => OwedIsSettledOrDropped

\* A process that stays up settles the notifications of all of the run's events,
\* which are finitely many.
OwedIsSettled == (proc.worker # "none") ~> (OwedIsSettledOrDropped \/ ~proc.up)

\* What the module promises for one notice: nothing owed is lost silently, what
\* was delivered stays delivered (Notices).
StageOf(k) ==
  LET i == outbox[k]
  IN CASE i.status = "succeeded" -> "delivered"
       [] i.status = "failed" -> "failed"
       [] i.status \in {"pending", "partial"} -> "open"
       [] i.status = "none" /\ \E f \in owed : f.key = k /\ f.seq \in dropped -> "dropped"
       [] i.status = "none" /\ \E f \in owed : f.key = k /\ f.seq \notin dropped -> "owed"
       [] OTHER -> "none"
Promised == INSTANCE Notices WITH Names <- Keys \ {Reminder},
                                  stage <- [k \in Keys \ {Reminder} |-> StageOf(k)]
ImplementsNotices == Promised!Spec

=============================================================================
