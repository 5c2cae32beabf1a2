------------------------------ MODULE Dashboard ------------------------------
(***************************************************************************)
(* What one process serves to a browser: the public tunnel of the          *)
(* dashboard and its replacement (tunnel.py), the proxies of the linked    *)
(* dashboards (dashboard_links.py), and the event stream that tells the    *)
(* browser to look again (events.py, web.py, app.js).                      *)
(*                                                                         *)
(* The parts meet in the journal: a tunnel that was replaced and a link    *)
(* that is ready or failed are published there, a subscriber's queue may   *)
(* overflow, a connection may be lost, and what the browser shows is the   *)
(* last answer it got.                                                     *)
(*                                                                         *)
(* A step is the code between two awaits.  Pairing, cookies and the        *)
(* proxied traffic are left out; a url is the number of its tunnel.        *)
(***************************************************************************)
EXTENDS Integers, Sequences

CONSTANTS MaxTunnels,       \* bound on the tunnels started
          FailureThreshold, \* CloudflaredShare's
          Dashboards,       \* bound: dashboards registered, 1 is restored
          QueueSize,        \* EventBus's subscriber_queue_size
          MaxEvents,        \* the journal's max_events_per_run
          MaxIncidents      \* bound on registrations, deaths, bad health, failed links
                            \* and lost connections, taken together

ASSUME DashboardBounds ==
  /\ MaxTunnels \in Nat \ {0} /\ FailureThreshold \in Nat \ {0}
  /\ Dashboards \in Nat \ {0} /\ QueueSize \in Nat \ {0} /\ MaxEvents \in Nat \ {0}
  /\ MaxIncidents \in Nat

VARIABLES
  serve,     \* how far _serve has come
  share,     \* DashboardShareState
  monitor,   \* CloudflaredShare: its tunnel, where it waits and for which other tunnel
  tunnels,   \* its cloudflared processes
  active,    \* the dashboards whose row is active
  links,     \* DashboardLinkManager._links
  jobs,      \* the calls of reconcile, by the dashboard whose registration made
             \* them; 0 is the manager's close
  last,      \* the sequence number of the last event
  stream,    \* the subscriber of the browser's connection
  browser,   \* what it was told of and waits for; an answer under way, and what
             \* the page shows (view), is TRUE while it is what is the case
  overlap,   \* history: two calls of reconcile were under way at once
  stray,     \* history: the registrations that nobody waits for, cancelled while
             \* they removed a link or under way when the manager closes, and the
             \* links that they leave or start
  used       \* counters of the bounds

sharing == <<share, monitor, tunnels>>
linking == <<active, links, jobs, overlap, stray>>
watching == <<last, stream, browser>>
vars == <<serve, sharing, linking, watching, used>>

Ids == 1 .. Dashboards
Tunnels == 1 .. MaxTunnels
Hint == 0                   \* an event without a sequence number

Serving == {"starting", "serving", "closing", "stopping", "quiescing", "unlinking", "over"}
ShareStatus == {"starting", "ready", "rotating", "degraded", "closed"}
Waits == {"off", "sleep", "candidate", "giving up", "previous", "announce",
          "cancelled", "last", "done"}
Process == {"none", "opening", "open", "told", "gone"}
LinkStatus == {"none", "starting", "ready", "stopped", "breaking", "failed"}
Idle == [pc |-> "idle", list |-> {}, todo |-> {}, on |-> 0]
Closed == [pc |-> "closed", cursor |-> 0, sending |-> <<>>, queue |-> <<>>,
           broken |-> FALSE]

Linked == {i \in Ids : links[i] # "none"}
\* /api/state and /api/share
Snapshot == [status |-> share.status, url |-> share.url,
             ready |-> {i \in Ids : links[i] = "ready"}]

Init ==
  /\ serve = "starting"
  /\ share = [status |-> "starting", url |-> 0, generation |-> 0]
  /\ monitor = [pc |-> "off", tunnel |-> 0, other |-> 0, failures |-> 0]
  /\ tunnels = [t \in Tunnels |-> "none"]
  /\ active = {1} /\ links = [i \in Ids |-> "none"]
  /\ jobs = [i \in 0 .. Dashboards |-> Idle] /\ overlap = FALSE
  /\ stray = [jobs |-> {}, links |-> {}]
  /\ last = 0 /\ stream = Closed
  /\ browser = [lastId |-> 0, timer |-> FALSE,
                answers |-> {}, view |-> TRUE]
  /\ used = [registered |-> 1, incidents |-> 0]

Fault ==
  /\ used.incidents < MaxIncidents
  /\ used' = [used EXCEPT !.incidents = @ + 1]

-----------------------------------------------------------------------------
(* The event bus and the stream.                                           *)

\* _fan_out_nowait: a full queue loses its oldest event.
QueuedAll(q, e) == Append(q, e)           \* mutant: the queue has no limit
Queued(q, e) == Append(IF Len(q) = QueueSize THEN Tail(q) ELSE q, e)

FanOut(e) ==
  stream' = [stream EXCEPT !.queue = IF stream.pc = "closed" THEN @ ELSE Queued(@, e)]
\* What was answered before the snapshot changed is no longer the case.
Outdated ==
  browser' = IF Snapshot' = Snapshot THEN browser
             ELSE [browser EXCEPT !.view = FALSE,
                                  !.answers = IF @ = {} THEN {} ELSE {FALSE}]
Publish == last' = last + 1 /\ FanOut(last + 1) /\ Outdated
Silent == UNCHANGED <<last, stream>> /\ Outdated

\* events_after: in their order those after the cursor that the journal has kept,
\* which are the last ones
Kept == {s \in 1 .. last : s > last - MaxEvents}
EventsAfter(cursor, through) ==
  LET from == IF cursor + MaxEvents < last THEN last - MaxEvents ELSE cursor
  IN [k \in 1 .. through - from |-> from + k]

Live == serve \in {"starting", "serving", "closing"}

\* A new connection names the last signal it has seen, if it has seen one.
Connect ==
  /\ Live /\ stream.pc = "closed"
  /\ stream' = [Closed EXCEPT !.pc = IF browser.lastId > 0 THEN "replay" ELSE "live",
                              !.cursor = IF browser.lastId < last THEN browser.lastId
                                         ELSE last]
  /\ UNCHANGED <<serve, sharing, linking, last, browser, used>>

Replay ==
  /\ stream.pc = "replay"
  /\ stream' = [stream EXCEPT !.pc = "live", !.sending = EventsAfter(stream.cursor, last)]
  /\ UNCHANGED <<serve, sharing, linking, last, browser, used>>

\* _delivery_batch
BatchOfOne(e) ==                          \* mutant: a gap is not looked up
  IF e = Hint THEN <<Hint>> ELSE IF e <= stream.cursor THEN <<>> ELSE <<e>>
DeliveryBatch(e) ==
  IF e = Hint THEN <<Hint>>
  ELSE IF e <= stream.cursor THEN <<>>
  ELSE EventsAfter(stream.cursor, e) \o (IF e \in Kept THEN <<>> ELSE <<e>>)

Take ==
  /\ stream.pc = "live" /\ stream.sending = <<>> /\ stream.queue # <<>>
  /\ stream' = [stream EXCEPT !.queue = Tail(@), !.sending = DeliveryBatch(Head(stream.queue))]
  /\ UNCHANGED <<serve, sharing, linking, last, browser, used>>

\* One message.  A broken connection takes it, and nobody reads it.
Send ==
  LET e == Head(stream.sending) IN
  /\ stream.pc = "live" /\ stream.sending # <<>>
  /\ stream' = [stream EXCEPT !.sending = Tail(@), !.cursor = IF e = Hint THEN @ ELSE e]
  /\ browser' = IF stream.broken THEN browser
                ELSE [browser EXCEPT !.timer = TRUE,
                                           !.lastId = IF e = Hint THEN @ ELSE e]
  /\ UNCHANGED <<serve, sharing, linking, last, used>>

Breaks ==
  /\ stream.pc # "closed" /\ ~stream.broken /\ Fault
  /\ stream' = [stream EXCEPT !.broken = TRUE]
  /\ UNCHANGED <<serve, sharing, linking, last, browser>>
Disconnected ==
  /\ stream.pc # "closed" /\ (stream.broken \/ ~Live)
  /\ stream' = Closed
  /\ UNCHANGED <<serve, sharing, linking, last, browser, used>>

\* Other parts of the process publish hints: log appends, cell updates.
HintSent ==
  /\ serve # "over" /\ stream.pc # "closed"
  /\ FanOut(Hint)
  /\ UNCHANGED <<serve, sharing, linking, last, browser, used>>

-----------------------------------------------------------------------------
(* The page.                                                               *)

\* scheduleRefresh(0) every ten seconds
PollUnconnected ==                        \* mutant: only while there is no event stream
  /\ ~browser.timer /\ browser.answers = {} /\ stream.pc = "closed"
  /\ browser' = [browser EXCEPT !.timer = TRUE]
  /\ UNCHANGED <<serve, sharing, linking, last, stream, used>>
Poll ==
  /\ ~browser.timer /\ browser.answers = {}
  /\ browser' = [browser EXCEPT !.timer = TRUE]
  /\ UNCHANGED <<serve, sharing, linking, last, stream, used>>

\* The timer runs out and the state is asked for, though an earlier answer may
\* still be under way; the answers come in any order.
Refresh ==
  /\ browser.timer
  /\ browser' = [browser EXCEPT !.timer = FALSE,
                                !.answers = IF Live THEN @ \cup {TRUE} ELSE @]
  /\ UNCHANGED <<serve, sharing, linking, last, stream, used>>

Answer ==
  /\ \E current \in browser.answers :
       browser' = [browser EXCEPT !.answers = @ \ {current}, !.view = current]
  /\ UNCHANGED <<serve, sharing, linking, last, stream, used>>

-----------------------------------------------------------------------------
(* CloudflaredShare.  `other` is the tunnel that it waits for.             *)

\* CloudflaredTunnel.start and close: a process that is started or told to end.
Spawned(t) == [tunnels EXCEPT ![t] = "opening"]
IsNextTunnel(t) == tunnels[t] = "none" /\ \A u \in 1 .. t - 1 : tunnels[u] # "none"
ToldTo(t) == IF t # 0 /\ tunnels[t] \in {"opening", "open"}
             THEN [tunnels EXCEPT ![t] = "told"] ELSE tunnels
\* ... and, after five seconds, killed.
Ended(t) == [tunnels EXCEPT ![t] = "gone"]

Candidate(failures) ==
  \E t \in Tunnels :
    /\ IsNextTunnel(t)
    /\ tunnels' = Spawned(t)
    /\ monitor' = [monitor EXCEPT !.pc = "candidate", !.other = t, !.failures = failures]

StartShare ==
  /\ serve = "starting" /\ monitor.pc = "off" /\ Candidate(monitor.failures)
  /\ UNCHANGED <<serve, share, linking, watching, used>>

\* _replace: the candidate has its url.  After the first one the run starts, and
\* with it the restored dashboards are reconciled.
CandidateOpens ==
  LET c == monitor.other IN
  /\ monitor.pc = "candidate" /\ tunnels[c] = "opening"
  /\ share' = [status |-> "ready", url |-> c, generation |-> share.generation + 1]
  /\ IF monitor.tunnel = 0
     THEN /\ serve' = "serving"
          /\ tunnels' = [tunnels EXCEPT ![c] = "open"]
          /\ monitor' = [monitor EXCEPT !.pc = "sleep", !.tunnel = c, !.other = 0]
          /\ jobs' = [jobs EXCEPT ![1].pc = "listing"]
     ELSE /\ tunnels' = [ToldTo(monitor.tunnel) EXCEPT ![c] = "open"]
          /\ monitor' = [monitor EXCEPT !.pc = "previous", !.tunnel = c,
                                        !.other = monitor.tunnel]
          /\ UNCHANGED <<serve, jobs>>
  /\ UNCHANGED <<active, links, overlap, stray, used>> /\ Silent

\* It exits, or publishes no url in time.
CandidateFails ==
  /\ monitor.pc = "candidate"
  /\ IF tunnels[monitor.other] = "gone" THEN UNCHANGED used ELSE Fault
  /\ tunnels' = ToldTo(monitor.other)
  /\ monitor' = [monitor EXCEPT !.pc = "giving up"]
  /\ UNCHANGED <<serve, share, linking>> /\ Silent
GivesUp ==
  /\ monitor.pc = "giving up"
  /\ tunnels' = Ended(monitor.other)
  /\ IF monitor.tunnel = 0
     THEN /\ serve' = "closing" /\ monitor' = [monitor EXCEPT !.pc = "sleep", !.other = 0]
          /\ UNCHANGED share
     ELSE /\ share' = [share EXCEPT !.status = "degraded"]
          /\ monitor' = [monitor EXCEPT !.pc = "sleep", !.other = 0,
                                        !.failures = FailureThreshold - 1]
          /\ UNCHANGED serve
  /\ UNCHANGED <<linking, used>> /\ Silent

PreviousEnds ==
  /\ monitor.pc = "previous"
  /\ tunnels' = Ended(monitor.other)
  /\ monitor' = [monitor EXCEPT !.pc = "announce", !.other = 0]
  /\ UNCHANGED <<serve, share, linking, used>> /\ Silent

\* announce_rotation
Announce ==
  /\ monitor.pc = "announce"
  /\ monitor' = [monitor EXCEPT !.pc = "sleep", !.failures = 0]
  /\ UNCHANGED <<serve, share, tunnels, linking, used>> /\ Publish

\* _monitor: the answer of a health check.
IsHealthy ==
  /\ serve = "serving" /\ monitor.pc = "sleep" /\ tunnels[monitor.tunnel] = "open"
  /\ monitor' = [monitor EXCEPT !.failures = 0]
  /\ UNCHANGED <<serve, share, tunnels, linking, used>> /\ Silent
IsUnhealthy ==
  /\ serve = "serving" /\ monitor.pc = "sleep"
  /\ IF tunnels[monitor.tunnel] = "gone" THEN UNCHANGED used ELSE Fault
  /\ IF monitor.failures + 1 < FailureThreshold
     THEN /\ monitor' = [monitor EXCEPT !.failures = @ + 1]
          /\ UNCHANGED <<share, tunnels>>
     ELSE /\ Candidate(FailureThreshold)
          /\ share' = [share EXCEPT !.status = "rotating"]
  /\ UNCHANGED <<serve, linking>> /\ Silent

\* A process dies (external).  When one heeds what it was told is not seen.
TunnelDies(t) ==
  /\ tunnels[t] \in {"opening", "open"} /\ Fault
  /\ tunnels' = Ended(t)
  /\ UNCHANGED <<serve, share, monitor, linking>> /\ Silent

\* The service ends: what has not been restored is not; the monitor is cancelled
\* where it waits ...
BeginClose ==
  /\ serve = "serving"
  /\ serve' = "closing"
  /\ jobs' = [jobs EXCEPT ![1] = IF @.pc = "listing" THEN Idle ELSE @]
  /\ UNCHANGED <<sharing, active, links, overlap, stray, used>> /\ Silent
CancelledCandidate == tunnels             \* mutant: left to itself
CancelledTunnels ==
  IF monitor.pc = "candidate" THEN ToldTo(monitor.other) ELSE tunnels
CancelMonitor ==
  /\ serve = "closing" /\ monitor.pc \notin {"cancelled", "last", "done"}
  /\ tunnels' = CancelledTunnels
  /\ monitor' = IF monitor.pc = "candidate" THEN [monitor EXCEPT !.pc = "cancelled"]
                ELSE [monitor EXCEPT !.pc = "last", !.other = 0]
  /\ UNCHANGED <<serve, share, linking, used>> /\ Silent
CandidateEnds ==
  /\ monitor.pc = "cancelled"
  /\ tunnels' = [t \in Tunnels |-> IF t = monitor.other /\ tunnels[t] = "told"
                                   THEN "gone" ELSE tunnels[t]]
  /\ monitor' = [monitor EXCEPT !.pc = "last", !.other = 0]
  /\ UNCHANGED <<serve, share, linking, used>> /\ Silent
\* ... and its tunnel is closed.
ShareCloses ==
  /\ monitor.pc = "last"
  /\ tunnels' = IF monitor.tunnel = 0 THEN tunnels ELSE Ended(monitor.tunnel)
  /\ monitor' = [monitor EXCEPT !.pc = "done", !.tunnel = 0, !.other = 0]
  /\ share' = [share EXCEPT !.status = "closed"]
  /\ serve' = "stopping"
  /\ UNCHANGED <<linking, used>> /\ Silent

-----------------------------------------------------------------------------
(* DashboardLinkManager.                                                   *)

Runs(i) == links[i] \in {"starting", "ready", "stopped", "breaking"}
ManagerCloses == serve \in {"unlinking", "over"}

\* reconcile, from one removal that waits to the next: what is not listed is
\* removed, then what is listed and has no link gets one -- though the manager
\* be closed.
Reconcile(j, list, todo) ==
  LET waits == {i \in todo : Runs(i)} IN
  IF waits # {}
  THEN \E i \in waits :
         /\ links' = [k \in Ids |-> IF k \in (todo \ waits) \cup {i} THEN "none"
                                    ELSE links[k]]
         /\ jobs' = [jobs EXCEPT ![j] = [pc |-> "removing", list |-> list,
                                         todo |-> waits \ {i}, on |-> i]]
  ELSE /\ links' = [k \in Ids |-> IF k \in todo THEN "none"
                                  ELSE IF k \in list /\ links[k] = "none" THEN "starting"
                                  ELSE links[k]]
       /\ jobs' = [jobs EXCEPT ![j] = Idle]
\* What it starts when the manager is closing or closed, nobody will close.
Strays ==
  stray' = [stray EXCEPT !.links =
              IF ManagerCloses THEN @ \cup {k \in Ids : links[k] = "none" /\ links'[k] # "none"}
              ELSE @]

\* register: the row, its event, and the wait for the one it supersedes.  The
\* runner, which has been started when the links were restored, does not notice
\* that the service ends before it is shut down.
Register ==
  LET i == used.registered + 1 IN
  /\ serve \in {"serving", "closing", "stopping"} /\ i \in Ids /\ jobs[1].pc = "idle"
  /\ used.incidents < MaxIncidents
  /\ used' = [registered |-> i, incidents |-> used.incidents + 1]
  /\ \E old \in active : active' \in {active \cup {i}, (active \ {old}) \cup {i}}
  /\ jobs' = [jobs EXCEPT ![i].pc = "listing"]
  /\ UNCHANGED <<serve, sharing, links, overlap, stray>> /\ Publish

\* The active rows are listed, and reconcile begins.
UnlistedNone(list) == {}                      \* mutant: nothing is removed
Unlisted(list) == Linked \ list
ListRows(j) ==
  /\ j # 0 /\ jobs[j].pc = "listing"
  /\ Reconcile(j, active, Unlisted(active)) /\ Strays
  /\ overlap' = (overlap \/ \E k \in Ids \ {j} : jobs[k].pc = "removing")
  /\ UNCHANGED <<serve, sharing, active, used>> /\ Silent

\* _remove has closed the link's proxy and tunnel.
Removed(j) ==
  /\ jobs[j].pc = "removing"
  /\ Reconcile(j, jobs[j].list, jobs[j].todo) /\ Strays
  /\ UNCHANGED <<serve, sharing, active, overlap, used>> /\ Silent

LinkEnds(i, from, to) ==
  /\ links[i] = from
  /\ links' = [links EXCEPT ![i] = to]
  /\ UNCHANGED <<serve, sharing, active, jobs, overlap, stray, used>>
  /\ IF ManagerCloses THEN Silent ELSE Publish
LinkReady(i) == LinkEnds(i, "starting", "ready")
LinkFails(i) ==
  \/ /\ links[i] = "starting" /\ Fault
     /\ links' = [links EXCEPT ![i] = "breaking"]
     /\ UNCHANGED <<serve, sharing, active, jobs, overlap, stray>> /\ Silent
  \/ LinkEnds(i, "breaking", "failed")

\* describe finds that the proxy of a link has stopped by itself; its tunnel is
\* there until the link is removed.
LinkStops(i) ==
  /\ Live /\ links[i] = "ready" /\ Fault
  /\ links' = [links EXCEPT ![i] = "stopped"]
  /\ UNCHANGED <<serve, sharing, active, jobs, overlap, stray>> /\ Silent

\* The server exits and the runner is shut down.  If it was waiting for its
\* registrations they are cancelled with it, and one that was removing a link
\* leaves it half closed; else nothing waits for them.
ServerStops ==
  /\ serve = "stopping" /\ stream.pc = "closed"
  /\ serve' = "quiescing"
  /\ \E cancelled \in SUBSET {j \in Ids : jobs[j].pc # "idle"} :
       LET cut == {j \in cancelled : jobs[j].pc = "removing"} IN
       /\ jobs' = [j \in 0 .. Dashboards |-> IF j \in cancelled THEN Idle ELSE jobs[j]]
       /\ stray' = [jobs |-> stray.jobs \cup cut,
                    links |-> stray.links \cup {jobs[j].on : j \in cut}]
  /\ UNCHANGED <<sharing, active, links, overlap, used>> /\ Silent

\* The manager closes: the links that are there are removed, one by one.
CloseLinks ==
  /\ serve = "quiescing"
  /\ serve' = "unlinking"
  /\ Reconcile(0, {}, Linked)
  /\ stray' = [stray EXCEPT !.jobs = @ \cup {j \in Ids : jobs[j].pc # "idle"}]
  /\ UNCHANGED <<sharing, active, overlap, used>> /\ Silent
LinksClosed ==
  /\ serve = "unlinking" /\ jobs[0].pc = "idle"
  /\ serve' = "over"
  /\ UNCHANGED <<sharing, linking, used>> /\ Silent

-----------------------------------------------------------------------------
Share ==
  \/ StartShare \/ CandidateOpens \/ CandidateFails \/ GivesUp \/ PreviousEnds
  \/ Announce \/ IsHealthy \/ IsUnhealthy \/ BeginClose
  \/ CancelMonitor \/ CandidateEnds \/ ShareCloses
  \/ \E t \in Tunnels : TunnelDies(t)
Link ==
  \/ Register \/ ServerStops \/ CloseLinks \/ LinksClosed
  \/ (\E j \in DOMAIN jobs : ListRows(j) \/ Removed(j))
  \/ (\E i \in Ids : LinkReady(i) \/ LinkFails(i) \/ LinkStops(i))
Watch ==
  \/ Connect \/ Replay \/ Take \/ Send \/ Breaks \/ Disconnected \/ HintSent
  \/ Poll \/ Refresh \/ Answer

Next == Share \/ Link \/ Watch
Spec == Init /\ [][Next]_vars

\* The page's clock runs and its requests are answered.
Fairness == WF_vars(Poll) /\ WF_vars(Refresh) /\ WF_vars(Answer)
FairSpec == Spec /\ Fairness

-----------------------------------------------------------------------------
(* Properties.                                                             *)

\* Every variable has its type, a tunnel is waited for exactly where the monitor
\* waits for one, and the address that is shown was given by a tunnel.
TypeOK ==
  /\ serve \in Serving
  /\ share \in [status: ShareStatus, url: 0 .. MaxTunnels, generation: 0 .. MaxTunnels]
  /\ monitor \in [pc: Waits, tunnel: 0 .. MaxTunnels, other: 0 .. MaxTunnels,
                   failures: 0 .. FailureThreshold]
  /\ tunnels \in [Tunnels -> Process]
  /\ active \subseteq Ids /\ links \in [Ids -> LinkStatus]
  /\ jobs \in [0 .. Dashboards -> [pc: {"idle", "listing", "removing"}, list: SUBSET Ids,
                                  todo: SUBSET Ids, on: Ids \cup {0}]]
  /\ last \in Nat /\ overlap \in BOOLEAN /\ stray \in [jobs: SUBSET Ids, links: SUBSET Ids]
  /\ stream \in [pc: {"closed", "replay", "live"}, cursor: 0 .. last,
                  sending: Seq(0 .. last), queue: Seq(0 .. last), broken: BOOLEAN]
  /\ Len(stream.queue) <= QueueSize
  /\ browser \in [lastId: 0 .. last, timer: BOOLEAN, answers: SUBSET BOOLEAN, view: BOOLEAN]
  /\ used \in [registered: Nat, incidents: Nat]
  /\ monitor.pc \in {"candidate", "giving up", "previous", "cancelled"} <=> monitor.other # 0
  /\ share.url # 0 => tunnels[share.url] \in {"open", "told", "gone"}

\* The browser is told of the events in their order, of none twice, and when it is
\* told of one it has been told of all before it that the journal still holds --
\* though its queue overflows, its connection breaks and the journal is pruned
\* (_delivery_batch, _events_after, Last-Event-ID).
NothingSkipped ==
  [][LET from == browser.lastId  to == browser'.lastId IN
     to # from => from < to /\ ~ \E s \in Kept : from < s /\ s < to]_vars

\* When no registration is under way, every active dashboard has a link; and
\* only those have, unless two calls of reconcile ran into one another.
DashboardsAreLinked ==
  serve = "serving" /\ (\A j \in DOMAIN jobs : jobs[j].pc = "idle") =>
    /\ active \subseteq Linked
    /\ ~overlap => Linked = active

\* When the service is over, no tunnel of the share is left that was not told to
\* end, and no link that was there when the manager began to close: one that is
\* left was started later, by a registration that nobody waits for (reconcile
\* does not look whether the manager is closing).  If there was no such
\* registration, no link is left, nor one half closed.
NothingOutlivesTheService ==
  serve = "over" =>
    /\ \A t \in Tunnels : tunnels[t] \in {"none", "told", "gone"}
    /\ share.status = "closed"
    /\ \A i \in Ids : Runs(i) => i \in stray.links
    /\ stray.jobs = {} => stray.links = {} /\ \A j \in DOMAIN jobs : jobs[j].pc = "idle"

\* Again and again the page shows what is the case, whatever signals are lost
\* to a full queue or a broken connection (the ten-second poll of app.js).
PageCatchesUp == []<>(~Live \/ browser.view)

=============================================================================
