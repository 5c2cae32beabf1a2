--------------------------- MODULE DashboardProofs ---------------------------
(***************************************************************************)
(* What Dashboard guarantees for any number of tunnels, dashboards, events *)
(* and incidents: no tunnel outlives the service, nor a link but for those *)
(* of registrations that nobody waits for; when the reconciliations are    *)
(* over the links are those of the active dashboards; the browser is told  *)
(* of the events in order, with none left out that the journal holds.      *)
(*                                                                         *)
(* The invariant has a part for each of them: PartsInv (the share and the  *)
(* links, which read neither the stream nor the page), ShareInv (the       *)
(* numbers of the tunnels) and WatchInv (the stream and the page, to which *)
(* the other parts only publish).                                          *)
(***************************************************************************)
EXTENDS Dashboard, SequenceTheorems, TLAPS

JobPCs == {"idle", "listing", "removing"}
Jobs == 0 .. Dashboards

\* As TypeOK has it, without what only the page and the counters need; what
\* number a tunnel has does not matter here.
PartsTypeOK ==
  /\ serve \in Serving
  /\ share = [status |-> share.status, url |-> share.url, generation |-> share.generation]
  /\ monitor = [pc |-> monitor.pc, tunnel |-> monitor.tunnel, other |-> monitor.other,
                 failures |-> monitor.failures]
  /\ share.status \in ShareStatus /\ monitor.pc \in Waits
  /\ tunnels \in [Tunnels -> Process]
  /\ active \subseteq Ids /\ links \in [Ids -> LinkStatus]
  /\ jobs \in [Jobs -> [pc: JobPCs, list: SUBSET Ids, todo: SUBSET Ids,
                        on: Ids \cup {0}]]
  /\ overlap \in BOOLEAN /\ stray \in [jobs: SUBSET Ids, links: SUBSET Ids]
  /\ used \in [registered: Nat, incidents: Nat]

\* A tunnel that was not told to end is the monitor's own or its candidate, and
\* once the share is closed it has none.
TunnelsAreHeld ==
  /\ \A t \in Tunnels : tunnels[t] \in {"opening", "open"} =>
       t = monitor.tunnel \/ (t = monitor.other /\ monitor.pc = "candidate")
  /\ serve \in {"stopping", "quiescing", "unlinking", "over"} <=> monitor.pc = "done"
  /\ monitor.pc = "done" => monitor.tunnel = 0 /\ share.status = "closed"

\* Once the manager has begun to close, a link is there because its removal is
\* due or because it was started since; and only a registration that was under
\* way then starts one, or leaves one half closed.
WhatIsLeft ==
  /\ jobs[0].list = {} /\ (jobs[0].pc = "idle" => jobs[0].todo = {})
  /\ serve = "over" => jobs[0].pc = "idle"
  /\ ManagerCloses => Linked \subseteq jobs[0].todo \cup stray.links
  /\ stray.jobs = {} => /\ stray.links = {}
                        /\ ManagerCloses => \A j \in Ids : jobs[j].pc = "idle"

\* What a reconciliation removes is not active, and no dashboard is known to it
\* before it is registered; the manager's own begins when the server is down.
Known == 1 .. used.registered
JobsAreFounded ==
  /\ used.registered >= 1 /\ active \subseteq Known /\ Linked \subseteq Known
  /\ \A j \in Jobs : /\ jobs[j].list \subseteq Known /\ jobs[j].todo \subseteq Known
                     /\ jobs[j].pc = "removing" => jobs[j].on \in Ids
                     /\ j > used.registered => jobs[j].pc = "idle"
  /\ \A j \in Ids : jobs[j].pc = "removing" => jobs[j].todo \cap active = {}
  /\ jobs[0].pc # "listing"
  /\ serve # "unlinking" => jobs[0].pc = "idle"

\* Every active dashboard has a link or a reconciliation that will see it; while
\* none has run into another, every other link is one that will be removed.
SomeoneLists == \E j \in Jobs : jobs[j].pc = "listing"
Covered ==
  \A i \in active : \/ i \in Linked \/ SomeoneLists
                    \/ \E j \in Jobs : jobs[j].pc = "removing" /\ i \in jobs[j].list
Exact ==
  \A i \in Linked \ active : \/ SomeoneLists
                             \/ \E j \in Jobs : jobs[j].pc = "removing" /\ i \in jobs[j].todo
ListsAreActive ==
  \A j \in Jobs : jobs[j].pc = "removing" => jobs[j].list \subseteq active \/ SomeoneLists
LinksAreFounded ==
  serve = "serving" => Covered /\ (~overlap => Exact /\ ListsAreActive)

PartsInv == PartsTypeOK /\ TunnelsAreHeld /\ WhatIsLeft /\ JobsAreFounded
              /\ LinksAreFounded

-----------------------------------------------------------------------------
(* What each part of the process leaves alone. *)

LEMMA ZeroIsNoTunnel == 0 \notin Tunnels
  BY DashboardBounds DEF DashboardBounds, Tunnels

LEMMA WatchStays ==
  ASSUME PartsInv, Watch
  PROVE  /\ UNCHANGED <<serve, share, monitor, tunnels, active, links, jobs, overlap, stray>>
         /\ used' \in [registered: Nat, incidents: Nat] /\ used'.registered = used.registered
<1> USE DEF PartsInv, PartsTypeOK, sharing, linking
<1>1. CASE Connect BY <1>1 DEF Connect
<1>2. CASE Replay BY <1>2 DEF Replay
<1>3. CASE Take BY <1>3 DEF Take
<1>4. CASE Send BY <1>4 DEF Send
<1>5. CASE Breaks BY <1>5 DEF Breaks, Fault
<1>6. CASE Disconnected BY <1>6 DEF Disconnected
<1>7. CASE HintSent BY <1>7 DEF HintSent
<1>8. CASE Poll BY <1>8 DEF Poll
<1>9. CASE Refresh BY <1>9 DEF Refresh
<1>10. CASE Answer BY <1>10 DEF Answer
<1> QED BY <1>1, <1>2, <1>3, <1>4, <1>5, <1>6, <1>7, <1>8, <1>9, <1>10 DEF Watch

LEMMA ShareStays ==
  ASSUME PartsInv, Share
  PROVE  /\ UNCHANGED <<active, links, overlap, stray>>
         /\ used' \in [registered: Nat, incidents: Nat] /\ used'.registered = used.registered
         /\ UNCHANGED jobs \/ CandidateOpens \/ BeginClose
<1> USE DEF PartsInv, PartsTypeOK, linking
<1>1. CASE StartShare BY <1>1 DEF StartShare
<1>2. CASE CandidateOpens
  <2>1. UNCHANGED <<active, links, overlap, stray, used>> BY <1>2 DEF CandidateOpens
  <2> QED BY <1>2, <2>1
<1>3. CASE CandidateFails
  <2>1. UNCHANGED <<active, links, jobs, overlap, stray>> BY <1>3 DEF CandidateFails
  <2>2. used' = used \/ Fault BY <1>3 DEF CandidateFails
  <2> QED BY <2>1, <2>2 DEF Fault
<1>4. CASE GivesUp BY <1>4 DEF GivesUp
<1>5. CASE PreviousEnds BY <1>5 DEF PreviousEnds
<1>6. CASE Announce BY <1>6 DEF Announce
<1>7. CASE IsHealthy BY <1>7 DEF IsHealthy
<1>8. CASE IsUnhealthy BY <1>8 DEF IsUnhealthy, Fault
<1>9. CASE BeginClose BY <1>9 DEF BeginClose
<1>10. CASE CancelMonitor BY <1>10 DEF CancelMonitor
<1>11. CASE CandidateEnds BY <1>11 DEF CandidateEnds
<1>12. CASE ShareCloses BY <1>12 DEF ShareCloses
<1>13. ASSUME NEW t \in Tunnels, TunnelDies(t)
       PROVE  UNCHANGED <<active, links, jobs, overlap, stray>>
                     /\ used' \in [registered: Nat, incidents: Nat] /\ used'.registered = used.registered
  BY <1>13 DEF TunnelDies, Fault
<1> QED BY <1>1, <1>2, <1>3, <1>4, <1>5, <1>6, <1>7, <1>8, <1>9, <1>10, <1>11, <1>12, <1>13 DEF Share

LEMMA LinkStays ==
  ASSUME PartsInv, Link
  PROVE  UNCHANGED <<share, monitor, tunnels>>
  BY DEF Link, Register, ServerStops, CloseLinks, LinksClosed, ListRows, Removed, LinkReady,
     LinkFails, LinkStops, LinkEnds, sharing

-----------------------------------------------------------------------------
(* The share.                                                              *)

LEMMA StepShareTypeOK ==
  ASSUME PartsTypeOK, Share \/ Watch \/ UNCHANGED vars
  PROVE  /\ share' = [status |-> share'.status, url |-> share'.url, generation |-> share'.generation]
         /\ monitor' = [pc |-> monitor'.pc, tunnel |-> monitor'.tunnel, other |-> monitor'.other,
                       failures |-> monitor'.failures]
         /\ share'.status \in ShareStatus /\ monitor'.pc \in Waits /\ tunnels' \in [Tunnels -> Process]
<1> DEFINE Typed == 
      /\ share' = [status |-> share'.status, url |-> share'.url, generation |-> share'.generation]
      /\ monitor' = [pc |-> monitor'.pc, tunnel |-> monitor'.tunnel, other |-> monitor'.other,
                    failures |-> monitor'.failures]
      /\ share'.status \in ShareStatus /\ monitor'.pc \in Waits /\ tunnels' \in [Tunnels -> Process]
<1> USE DEF PartsTypeOK, Waits, ShareStatus, Process
<1>0. \A t : ToldTo(t) \in [Tunnels -> Process] BY DEF ToldTo
<1>1. CASE StartShare BY <1>1 DEF StartShare, Candidate, Spawned
<1>2. CASE CandidateOpens
  <2>1. tunnels' \in [Tunnels -> Process] BY <1>0, <1>2 DEF CandidateOpens
  <2>2. /\ share' = [status |-> "ready", url |-> monitor.other, generation |-> share.generation + 1]
        /\ \E pc \in {"sleep", "previous"}, n \in {0, monitor.tunnel} :
             monitor' = [monitor EXCEPT !.pc = pc, !.tunnel = monitor.other, !.other = n]
    BY <1>2 DEF CandidateOpens
  <2> QED BY <2>1, <2>2
<1>3. CASE CandidateFails BY <1>0, <1>3 DEF CandidateFails
<1>4. CASE GivesUp BY <1>4 DEF GivesUp, Ended
<1>5. CASE PreviousEnds BY <1>5 DEF PreviousEnds, Ended
<1>6. CASE Announce BY <1>6 DEF Announce
<1>7. CASE IsHealthy BY <1>7 DEF IsHealthy
<1>8. CASE IsUnhealthy BY <1>8 DEF IsUnhealthy, Candidate, Spawned
<1>9. CASE BeginClose BY <1>9 DEF BeginClose, sharing
<1>10. CASE CancelMonitor BY <1>0, <1>10 DEF CancelMonitor, CancelledTunnels
<1>11. CASE CandidateEnds BY <1>11 DEF CandidateEnds
<1>12. CASE ShareCloses BY <1>12 DEF ShareCloses, Ended
<1>13. ASSUME NEW t \in Tunnels, TunnelDies(t) PROVE Typed
  BY <1>13 DEF TunnelDies, Ended
<1>14. CASE Watch \/ UNCHANGED vars
  <2>1. UNCHANGED <<share, monitor, tunnels>>
    BY <1>14 DEF Watch, Connect, Replay, Take, Send, Breaks, Disconnected, HintSent, Poll,
       Refresh, Answer, vars, sharing
  <2> QED BY <2>1
<1> QED
  BY <1>1, <1>2, <1>3, <1>4, <1>5, <1>6, <1>7, <1>8, <1>9, <1>10, <1>11, <1>12, <1>13, <1>14
  DEF Share

LEMMA StepTunnelsAreHeld ==
  ASSUME PartsInv, [Next]_vars
  PROVE  TunnelsAreHeld'
<1> USE DEF PartsInv, PartsTypeOK, TunnelsAreHeld, Serving, Waits, ShareStatus
<1>0. 0 \notin Tunnels BY ZeroIsNoTunnel
<1>1. CASE StartShare
  <2>1. PICK t \in Tunnels :
          /\ monitor' = [monitor EXCEPT !.pc = "candidate", !.other = t,
                                        !.failures = monitor.failures]
          /\ tunnels' = Spawned(t) /\ UNCHANGED <<serve, share>> /\ monitor.pc = "off"
    BY <1>1 DEF StartShare, Candidate
  <2> QED BY <2>1 DEF Spawned
<1>2. CASE CandidateOpens
  <2>1. monitor'.pc # "done" /\ serve' \notin {"stopping", "quiescing", "unlinking", "over"}
    BY <1>2 DEF CandidateOpens
  <2>2. CASE monitor.tunnel = 0
    <3>1. tunnels' = [tunnels EXCEPT ![monitor.other] = "open"] /\ monitor'.tunnel = monitor.other
      BY <1>2, <2>2 DEF CandidateOpens
    <3> QED BY <1>0, <2>1, <2>2, <3>1
  <2>3. CASE monitor.tunnel # 0
    <3>1. /\ tunnels' = [ToldTo(monitor.tunnel) EXCEPT ![monitor.other] = "open"]
          /\ monitor'.tunnel = monitor.other
      BY <1>2, <2>3 DEF CandidateOpens
    <3> QED BY <1>0, <2>1, <2>3, <3>1 DEF ToldTo
  <2> QED BY <2>2, <2>3
<1>3. CASE CandidateFails
  <2>1. /\ tunnels' = ToldTo(monitor.other) /\ monitor' = [monitor EXCEPT !.pc = "giving up"]
        /\ UNCHANGED <<serve, share>> /\ monitor.pc = "candidate"
    BY <1>3 DEF CandidateFails
  <2> QED BY <1>0, <2>1 DEF ToldTo
<1>4. CASE GivesUp BY <1>4 DEF GivesUp, Ended
<1>5. CASE PreviousEnds BY <1>5 DEF PreviousEnds, Ended
<1>6. CASE Announce BY <1>6 DEF Announce
<1>7. CASE IsHealthy BY <1>7 DEF IsHealthy
<1>8. CASE IsUnhealthy BY <1>8 DEF IsUnhealthy, Candidate, Spawned
<1>9. CASE BeginClose BY <1>9 DEF BeginClose, sharing
<1>10. CASE CancelMonitor
  <2>1. monitor'.pc \in {"cancelled", "last"} /\ monitor.pc # "done"
        /\ monitor'.tunnel = monitor.tunnel /\ UNCHANGED <<serve, share>>
    BY <1>10 DEF CancelMonitor
  <2>2. tunnels' = CancelledTunnels BY <1>10 DEF CancelMonitor
  <2> QED BY <1>0, <2>1, <2>2 DEF CancelledTunnels, ToldTo
<1>11. CASE CandidateEnds BY <1>11 DEF CandidateEnds
<1>12. CASE ShareCloses BY <1>12 DEF ShareCloses, Ended
<1>13. ASSUME NEW t \in Tunnels, TunnelDies(t) PROVE TunnelsAreHeld'
  BY <1>13 DEF TunnelDies, Ended
<1>14. CASE Register BY <1>14 DEF Register, sharing
<1>15. CASE ServerStops BY <1>15 DEF ServerStops, sharing
<1>16. CASE CloseLinks \/ LinksClosed BY <1>16 DEF CloseLinks, LinksClosed, sharing
<1>17. ASSUME UNCHANGED <<serve, share, monitor, tunnels>> PROVE TunnelsAreHeld'
  BY <1>17
<1>18. ASSUME NEW j \in DOMAIN jobs, ListRows(j) \/ Removed(j) PROVE TunnelsAreHeld'
  BY <1>17, <1>18 DEF ListRows, Removed, sharing
<1>19. ASSUME NEW i \in Ids, LinkReady(i) \/ LinkFails(i) \/ LinkStops(i) PROVE TunnelsAreHeld'
  BY <1>17, <1>19 DEF LinkReady, LinkFails, LinkStops, LinkEnds, sharing
<1>20. CASE Watch BY <1>17, <1>20, WatchStays
<1>21. CASE UNCHANGED vars BY <1>17, <1>21 DEF vars, sharing
<1>22. CASE Share
  BY <1>22, <1>1, <1>2, <1>3, <1>4, <1>5, <1>6, <1>7, <1>8, <1>9, <1>10, <1>11, <1>12,
     <1>13 DEF Share
<1>23. CASE Link BY <1>23, <1>14, <1>15, <1>16, <1>18, <1>19 DEF Link
<1> QED BY <1>20, <1>21, <1>22, <1>23 DEF Next

-----------------------------------------------------------------------------
(* The links.                                                              *)

\* One stretch of reconcile: all of todo that nothing waits for is removed, and
\* either one that waits is begun, or what is listed is linked.
Stretch(j, list, todo) ==
  /\ links' \in [Ids -> LinkStatus]
  /\ jobs' \in [Jobs -> [pc: JobPCs, list: SUBSET Ids, todo: SUBSET Ids, on: Ids \cup {0}]]
  /\ \A k \in Jobs \ {j} : jobs'[k] = jobs[k]
  /\ Linked \ todo \subseteq Linked'
  /\ \/ /\ jobs'[j] = Idle
        /\ Linked' \subseteq (Linked \ todo) \cup list /\ list \ todo \subseteq Linked'
     \/ /\ jobs'[j].pc = "removing" /\ jobs'[j].list = list
        /\ jobs'[j].todo \subseteq todo /\ jobs'[j].on \in Ids
        /\ Linked' \subseteq Linked /\ Linked' \cap todo \subseteq jobs'[j].todo

LEMMA ReconcileDoes ==
  ASSUME PartsTypeOK, NEW j \in Jobs, NEW list \in SUBSET Ids, NEW todo \in SUBSET Ids,
         Reconcile(j, list, todo)
  PROVE  Stretch(j, list, todo)
<1> USE DEF Stretch
<1> DEFINE waits == {i \in todo : Runs(i)}
<1> USE DEF PartsTypeOK, JobPCs, LinkStatus
<1>1. CASE waits = {}
  <2>1. /\ links' = [k \in Ids |-> IF k \in todo THEN "none"
                                  ELSE IF k \in list /\ links[k] = "none" THEN "starting"
                                  ELSE links[k]]
        /\ jobs' = [jobs EXCEPT ![j] = Idle]
    BY <1>1 DEF Reconcile
  <2> QED BY <2>1 DEF Idle, Linked
<1>2. CASE waits # {}
  <2>1. PICK i \in waits :
          /\ links' = [k \in Ids |-> IF k \in (todo \ waits) \cup {i} THEN "none" ELSE links[k]]
          /\ jobs' = [jobs EXCEPT ![j] = [pc |-> "removing", list |-> list,
                                         todo |-> waits \ {i}, on |-> i]]
    BY <1>2 DEF Reconcile
  <2>2. waits \subseteq todo /\ i \in Ids OBVIOUS
  <2> HIDE DEF waits
  <2> QED BY <2>1, <2>2 DEF Linked
<1> QED BY <1>1, <1>2

LEMMA StretchBounds ==
  ASSUME NEW j, NEW list, NEW todo, Stretch(j, list, todo)
  PROVE  /\ Linked' \subseteq Linked \cup list
         /\ \/ jobs'[j] = Idle
            \/ /\ jobs'[j].pc = "removing" /\ jobs'[j].list = list
               /\ jobs'[j].todo \subseteq todo /\ jobs'[j].on \in Ids
<1>1. CASE jobs'[j] = Idle /\ Linked' \subseteq (Linked \ todo) \cup list
  BY <1>1
<1>2. CASE /\ jobs'[j].pc = "removing" /\ jobs'[j].list = list
           /\ jobs'[j].todo \subseteq todo /\ jobs'[j].on \in Ids
           /\ Linked' \subseteq Linked
  BY <1>2
<1> QED BY <1>1, <1>2 DEF Stretch

LEMMA ListRowsDoes ==
  ASSUME PartsInv, NEW j \in Ids, ListRows(j)
  PROVE  /\ jobs[j].pc = "listing" /\ UNCHANGED <<serve, active, used>> /\ overlap' \in BOOLEAN
         /\ ~overlap' => ~overlap /\ \A k \in Ids \ {j} : jobs[k].pc # "removing"
         /\ Stretch(j, active, Linked \ active) /\ Strays
<1>1. /\ jobs[j].pc = "listing" /\ UNCHANGED <<serve, active, used>>
      /\ Reconcile(j, active, Linked \ active) /\ Strays
      /\ overlap' = (overlap \/ \E k \in Ids \ {j} : jobs[k].pc = "removing")
  BY DEF ListRows, Unlisted
<1>2. j \in Jobs /\ Linked \ active \in SUBSET Ids /\ Jobs = Ids \cup {0} /\ 0 \in Jobs
  BY DashboardBounds DEF DashboardBounds, Jobs, Ids, Linked
<1>3. PartsTypeOK /\ active \in SUBSET Ids BY DEF PartsInv, PartsTypeOK
<1>4. Stretch(j, active, Linked \ active) BY <1>1, <1>2, <1>3, ReconcileDoes
<1> QED BY <1>1, <1>3, <1>4 DEF PartsTypeOK

LEMMA RemovedDoes ==
  ASSUME PartsInv, NEW j \in Jobs, Removed(j)
  PROVE  /\ jobs[j].pc = "removing" /\ UNCHANGED <<serve, active, overlap, used>>
         /\ Stretch(j, jobs[j].list, jobs[j].todo) /\ Strays
<1>1. /\ jobs[j].pc = "removing" /\ UNCHANGED <<serve, active, overlap, used>>
      /\ Reconcile(j, jobs[j].list, jobs[j].todo) /\ Strays
  BY DEF Removed, sharing
<1>2. PartsTypeOK /\ jobs[j].list \in SUBSET Ids /\ jobs[j].todo \in SUBSET Ids
  BY DEF PartsInv, PartsTypeOK
<1> QED BY <1>1, <1>2, ReconcileDoes

LEMMA StraysDoes ==
  ASSUME PartsTypeOK, links' \in [Ids -> LinkStatus], serve' = serve, Strays
  PROVE  /\ stray' \in [jobs: SUBSET Ids, links: SUBSET Ids]
         /\ stray'.jobs = stray.jobs
         /\ stray'.links = IF ManagerCloses THEN stray.links \cup (Linked' \ Linked)
                           ELSE stray.links
<1> DEFINE new == {k \in Ids : links[k] = "none" /\ links'[k] # "none"}
<1>1. new = Linked' \ Linked BY DEF Linked
<1>2. stray' = [stray EXCEPT !.links = IF ManagerCloses THEN @ \cup new ELSE @] BY DEF Strays
<1>3. new \subseteq Ids OBVIOUS
<1> HIDE DEF new
<1> QED BY <1>1, <1>2, <1>3 DEF PartsTypeOK

\* The steps that are not of the links keep their variables, but for the call that
\* the first tunnel makes, which the end of the service may forestall.
OfFirst == {jobs, [jobs EXCEPT ![1].pc = "listing"], [jobs EXCEPT ![1] = Idle]}
LEMMA LinksStay ==
  ASSUME PartsInv, Share \/ Watch \/ UNCHANGED vars
  PROVE  /\ UNCHANGED <<active, links, overlap, stray>>
         /\ used' \in [registered: Nat, incidents: Nat] /\ used'.registered = used.registered
         /\ jobs' \in OfFirst
         /\ serve' = serve \/ serve' \in {"closing", "stopping"}
              \/ (serve' = "serving" /\ jobs' = [jobs EXCEPT ![1].pc = "listing"]
                    /\ serve \notin {"stopping", "quiescing", "unlinking", "over"})
         /\ jobs' # jobs => \/ serve' = "serving" /\ jobs' = [jobs EXCEPT ![1].pc = "listing"]
                            \/ serve' = "closing"
         /\ serve' \in {"quiescing", "unlinking", "over"} => serve' = serve
         /\ serve \in {"stopping", "quiescing", "unlinking", "over"} => serve' = serve
<1> USE DEF PartsInv, PartsTypeOK, TunnelsAreHeld, Serving, OfFirst
<1>1. CASE Watch BY <1>1, WatchStays
<1>2. CASE UNCHANGED vars BY <1>2 DEF vars, sharing, linking
<1>3. CASE CandidateOpens
  <2>1. /\ UNCHANGED <<active, links, overlap, stray, used>> /\ monitor.pc = "candidate"
        /\ \/ jobs' = [jobs EXCEPT ![1].pc = "listing"] /\ serve' = "serving"
           \/ UNCHANGED <<serve, jobs>>
    BY <1>3 DEF CandidateOpens
  <2> QED BY <2>1
<1>4. CASE BeginClose
  <2>1. /\ UNCHANGED <<active, links, overlap, stray, used>> /\ serve = "serving"
        /\ serve' = "closing"
        /\ jobs' = [jobs EXCEPT ![1] = IF @.pc = "listing" THEN Idle ELSE @]
    BY <1>4 DEF BeginClose
  <2>2. jobs' = jobs \/ jobs' = [jobs EXCEPT ![1] = Idle] BY <2>1
  <2> QED BY <2>1, <2>2
<1>5. CASE Share /\ ~CandidateOpens /\ ~BeginClose
  <2>1. UNCHANGED <<active, links, jobs, overlap, stray>> BY <1>5, ShareStays
  <2>2. used' \in [registered: Nat, incidents: Nat] /\ used'.registered = used.registered
    BY <1>5, ShareStays
  <2>3. serve' = serve \/ (serve' \in {"closing", "stopping"} /\ monitor.pc # "done")
    BY <1>5 DEF Share, StartShare, CandidateFails, GivesUp, PreviousEnds, Announce, IsHealthy,
       IsUnhealthy, CancelMonitor, CandidateEnds, ShareCloses, TunnelDies
  <2> QED BY <2>1, <2>2, <2>3
<1> QED BY <1>1, <1>2, <1>3, <1>4, <1>5

\* What the steps of the links do to the rows and the state of the service.
LEMMA LinkChanges ==
  ASSUME PartsInv, NEW i \in Ids, LinkReady(i) \/ LinkFails(i) \/ LinkStops(i)
  PROVE  /\ UNCHANGED <<serve, active, jobs, overlap, stray>>
         /\ used' \in [registered: Nat, incidents: Nat] /\ used'.registered = used.registered
         /\ links' \in [Ids -> LinkStatus] /\ Linked' = Linked
<1> USE DEF PartsInv, PartsTypeOK, LinkStatus
<1>1. /\ UNCHANGED <<serve, active, jobs, overlap, stray>> /\ (used' = used \/ Fault)
      /\ links[i] # "none" /\ \E to \in LinkStatus \ {"none"} : links' = [links EXCEPT ![i] = to]
  BY DEF LinkReady, LinkFails, LinkStops, LinkEnds
<1> QED BY <1>1 DEF Fault, Linked

LEMMA ServerStopsDoes ==
  ASSUME PartsInv, ServerStops
  PROVE  /\ serve = "stopping" /\ serve' = "quiescing"
         /\ UNCHANGED <<active, links, overlap, used>> /\ Linked' = Linked
         /\ jobs' \in [Jobs -> [pc: JobPCs, list: SUBSET Ids, todo: SUBSET Ids, on: Ids \cup {0}]]
         /\ jobs'[0] = jobs[0]
         /\ \A j \in Jobs : jobs'[j] = jobs[j] \/ jobs'[j] = Idle
         /\ stray' \in [jobs: SUBSET Ids, links: SUBSET Ids]
         /\ stray'.jobs = {} => stray.jobs = {} /\ stray'.links = stray.links
<1> USE DEF PartsInv, PartsTypeOK
<1>1. PICK cancelled \in SUBSET {j \in Ids : jobs[j].pc # "idle"} :
        LET cut == {j \in cancelled : jobs[j].pc = "removing"} IN
        /\ jobs' = [j \in 0 .. Dashboards |-> IF j \in cancelled THEN Idle ELSE jobs[j]]
        /\ stray' = [jobs |-> stray.jobs \cup cut,
                     links |-> stray.links \cup {jobs[j].on : j \in cut}]
  BY DEF ServerStops
<1>2. /\ serve = "stopping" /\ serve' = "quiescing" /\ UNCHANGED <<active, links, overlap, used>>
  BY DEF ServerStops
<1>3. Ids \subseteq Jobs /\ 0 \in Jobs /\ 0 \notin Ids
  BY DashboardBounds DEF DashboardBounds, Jobs, Ids
<1>4. Linked' = Linked BY <1>2 DEF Linked
<1>5. /\ jobs' \in [Jobs -> [pc: JobPCs, list: SUBSET Ids, todo: SUBSET Ids, on: Ids \cup {0}]]
      /\ jobs'[0] = jobs[0]
      /\ \A j \in Jobs : jobs'[j] = jobs[j] \/ jobs'[j] = Idle
  BY <1>1, <1>3 DEF Jobs, Idle, JobPCs
<1> DEFINE cut == {j \in cancelled : jobs[j].pc = "removing"}
           half == {jobs[j].on : j \in cut}
<1>6. cut \subseteq Ids /\ half \subseteq Ids
  <2> SUFFICES ASSUME NEW j \in cut PROVE j \in Ids /\ jobs[j].on \in Ids
    OBVIOUS
  <2>1. j \in Ids /\ jobs[j].pc = "removing" OBVIOUS
  <2> QED BY <1>3, <2>1 DEF JobsAreFounded
<1>7. cut = {} => half = {} OBVIOUS
<1>8. stray' = [jobs |-> stray.jobs \cup cut, links |-> stray.links \cup half] BY <1>1
<1> HIDE DEF cut, half
<1> QED BY <1>2, <1>4, <1>5, <1>6, <1>7, <1>8

LEMMA CloseLinksDoes ==
  ASSUME PartsInv, CloseLinks
  PROVE  /\ serve = "quiescing" /\ serve' = "unlinking" /\ Stretch(0, {}, Linked)
         /\ UNCHANGED <<active, overlap, used>>
         /\ stray' \in [jobs: SUBSET Ids, links: SUBSET Ids] /\ stray'.links = stray.links
         /\ stray'.jobs = stray.jobs \cup {j \in Ids : jobs[j].pc # "idle"}
<1>1. /\ serve = "quiescing" /\ serve' = "unlinking" /\ Reconcile(0, {}, Linked)
      /\ UNCHANGED <<active, overlap, used>>
      /\ stray' = [stray EXCEPT !.jobs = @ \cup {j \in Ids : jobs[j].pc # "idle"}]
  BY DEF CloseLinks
<1>2. PartsTypeOK /\ 0 \in Jobs /\ Linked \in SUBSET Ids /\ {} \in SUBSET Ids
  BY DashboardBounds DEF DashboardBounds, Jobs, Linked, PartsInv
<1>3. Stretch(0, {}, Linked) BY <1>1, <1>2, ReconcileDoes
<1> QED BY <1>1, <1>2, <1>3 DEF PartsTypeOK

LEMMA LinkDoes ==
  ASSUME PartsInv, Link
  PROVE  \/ Register \/ ServerStops \/ CloseLinks \/ LinksClosed
         \/ \E j \in Ids : ListRows(j)
         \/ \E j \in Jobs : Removed(j)
         \/ \E i \in Ids : LinkReady(i) \/ LinkFails(i) \/ LinkStops(i)
<1>0. DOMAIN jobs = Jobs /\ Jobs = Ids \cup {0}
  BY DashboardBounds DEF Jobs, Ids, DashboardBounds, PartsInv, PartsTypeOK
<1>1. ASSUME NEW j \in DOMAIN jobs, ListRows(j) PROVE \E k \in Ids : ListRows(k)
  BY <1>0, <1>1 DEF ListRows
<1> QED BY <1>0, <1>1 DEF Link

LEMMA StepPartsTypeOK ==
  ASSUME PartsInv, [Next]_vars
  PROVE  PartsTypeOK'
<1>1. CASE Link
  <2> USE DEF PartsInv, PartsTypeOK
  <2>1. UNCHANGED <<share, monitor, tunnels>> BY <1>1, LinkStays
  <2>2. serve' \in Serving
    BY <1>1 DEF Serving, Link, Register, ServerStops, CloseLinks, LinksClosed, ListRows, Removed,
       LinkReady, LinkFails, LinkStops, LinkEnds
  <2>3. /\ active' \subseteq Ids /\ links' \in [Ids -> LinkStatus] /\ overlap' \in BOOLEAN
        /\ stray' \in [jobs: SUBSET Ids, links: SUBSET Ids]
        /\ jobs' \in [Jobs -> [pc: JobPCs, list: SUBSET Ids, todo: SUBSET Ids, on: Ids \cup {0}]]
        /\ used' \in [registered: Nat, incidents: Nat]
    <3>1. CASE Register
      <4>1. used.registered + 1 \in Ids /\ UNCHANGED <<links, overlap, stray>>
            /\ active' \subseteq active \cup {used.registered + 1}
        BY <3>1 DEF Register
      <4>2. jobs' = [jobs EXCEPT ![used.registered + 1].pc = "listing"]
            /\ used' = [registered |-> used.registered + 1, incidents |-> used.incidents + 1]
        BY <3>1 DEF Register
      <4>3. jobs' \in [Jobs -> [pc: JobPCs, list: SUBSET Ids, todo: SUBSET Ids, on: Ids \cup {0}]]
        BY <4>2 DEF JobPCs
      <4>4. used' \in [registered: Nat, incidents: Nat] BY <4>2
      <4>5. active' \subseteq Ids BY <4>1
      <4> QED BY <4>1, <4>3, <4>4, <4>5
    <3>2. ASSUME NEW j \in Ids, ListRows(j) PROVE <2>3
      BY <3>2, ListRowsDoes, StraysDoes DEF Stretch
    <3>3. ASSUME NEW j \in Jobs, Removed(j) PROVE <2>3
      BY <3>3, RemovedDoes, StraysDoes DEF Stretch
    <3>4. CASE CloseLinks BY <3>4, CloseLinksDoes DEF Stretch
    <3>5. CASE ServerStops BY <3>5, ServerStopsDoes
    <3>6. CASE LinksClosed BY <3>6 DEF LinksClosed, linking
    <3>7. ASSUME NEW i \in Ids, LinkReady(i) \/ LinkFails(i) \/ LinkStops(i) PROVE <2>3
      BY <3>7, LinkChanges
    <3> QED BY <1>1, <3>1, <3>2, <3>3, <3>4, <3>5, <3>6, <3>7, LinkDoes
  <2> QED BY <2>1, <2>2, <2>3
<1>2. CASE Share \/ Watch \/ UNCHANGED vars
  <2>1. UNCHANGED <<active, links, overlap, stray>> /\ used' \in [registered: Nat, incidents: Nat]
        /\ jobs' \in OfFirst
    BY <1>2, LinksStay
  <2>2. serve' \in Serving
    BY <1>2, LinksStay DEF PartsInv, PartsTypeOK, Serving
  <2>3. jobs' \in [Jobs -> [pc: JobPCs, list: SUBSET Ids, todo: SUBSET Ids, on: Ids \cup {0}]]
    BY <2>1 DEF PartsInv, PartsTypeOK, JobPCs, OfFirst, Idle
  <2>4. /\ share' = [status |-> share'.status, url |-> share'.url, generation |-> share'.generation]
        /\ monitor' = [pc |-> monitor'.pc, tunnel |-> monitor'.tunnel, other |-> monitor'.other,
                      failures |-> monitor'.failures]
        /\ share'.status \in ShareStatus /\ monitor'.pc \in Waits /\ tunnels' \in [Tunnels -> Process]
    BY <1>2, StepShareTypeOK DEF PartsInv
  <2> QED BY <2>1, <2>2, <2>3, <2>4 DEF PartsInv, PartsTypeOK
<1> QED BY <1>1, <1>2 DEF Next

LEMMA StepWhatIsLeft ==
  ASSUME PartsInv, [Next]_vars
  PROVE  WhatIsLeft'
<1> USE DEF PartsInv, PartsTypeOK, WhatIsLeft, ManagerCloses
<1>0. Ids \subseteq Jobs /\ Jobs = Ids \cup {0} /\ 0 \notin Ids /\ 0 \in Jobs
  BY DashboardBounds DEF DashboardBounds, Jobs, Ids
<1>1. CASE Share \/ Watch \/ UNCHANGED vars
  <2>1. /\ UNCHANGED <<links, stray>> /\ jobs' \in OfFirst
        /\ ManagerCloses' => serve' = serve /\ jobs' = jobs
        /\ serve' = "over" => serve' = serve
    BY <1>1, LinksStay
  <2>2. Linked' = Linked /\ jobs'[0] = jobs[0] BY <1>0, <2>1 DEF Linked, OfFirst, Ids
  <2> QED BY <2>1, <2>2
<1>2. CASE Register
  <2>1. /\ UNCHANGED <<serve, links, stray>> /\ ~ManagerCloses /\ used.registered + 1 \in Ids
        /\ jobs' = [jobs EXCEPT ![used.registered + 1].pc = "listing"]
    BY <1>2 DEF Register
  <2>2. jobs'[0] = jobs[0] BY <1>0, <2>1
  <2> QED BY <2>1, <2>2
<1>3. ASSUME NEW j \in Ids, ListRows(j) PROVE WhatIsLeft'
  <2>1. /\ jobs[j].pc = "listing" /\ serve' = serve /\ jobs'[0] = jobs[0]
        /\ links' \in [Ids -> LinkStatus]
        /\ \A k \in Ids \ {j} : jobs'[k] = jobs[k]
    BY <1>0, <1>3, ListRowsDoes DEF Stretch
  <2>2. /\ stray'.jobs = stray.jobs
        /\ stray'.links = IF ManagerCloses THEN stray.links \cup (Linked' \ Linked)
                          ELSE stray.links
    BY <1>3, <2>1, ListRowsDoes, StraysDoes
  <2>3. ManagerCloses => stray.jobs # {} BY <2>1
  <2> QED BY <2>1, <2>2, <2>3
<1>4. ASSUME NEW j \in Ids, Removed(j) PROVE WhatIsLeft'
  <2>1. /\ jobs[j].pc = "removing" /\ serve' = serve /\ jobs'[0] = jobs[0]
        /\ links' \in [Ids -> LinkStatus]
        /\ \A k \in Ids \ {j} : jobs'[k] = jobs[k]
    BY <1>0, <1>4, RemovedDoes DEF Stretch
  <2>2. /\ stray'.jobs = stray.jobs
        /\ stray'.links = IF ManagerCloses THEN stray.links \cup (Linked' \ Linked)
                          ELSE stray.links
    BY <1>0, <1>4, <2>1, RemovedDoes, StraysDoes
  <2>3. ManagerCloses => stray.jobs # {} BY <2>1
  <2> QED BY <2>1, <2>2, <2>3
<1>5. CASE Removed(0)
  <2>1. /\ jobs[0].pc = "removing" /\ serve' = serve /\ jobs[0].list = {}
        /\ links' \in [Ids -> LinkStatus] /\ \A k \in Ids : jobs'[k] = jobs[k]
        /\ Stretch(0, {}, jobs[0].todo) /\ Strays
    BY <1>0, <1>5, RemovedDoes DEF Stretch
  <2>2. Linked' \subseteq Linked BY <2>1, StretchBounds
  <2>3. stray'.jobs = stray.jobs /\ stray'.links = stray.links
    BY <2>1, <2>2, StraysDoes
  <2>4. jobs'[0].list = {} /\ (jobs'[0].pc = "idle" => jobs'[0].todo = {})
        /\ Linked' \cap jobs[0].todo \subseteq jobs'[0].todo
    BY <2>1 DEF Stretch, Idle
  <2> QED BY <2>1, <2>2, <2>3, <2>4
<1>6. CASE ServerStops
  <2>1. Linked' = Linked /\ serve' = "quiescing" /\ jobs'[0] = jobs[0]
        /\ (stray'.jobs = {} => stray.jobs = {} /\ stray'.links = stray.links)
    BY <1>6, ServerStopsDoes
  <2> QED BY <2>1
<1>7. CASE CloseLinks
  <2>1. /\ serve' = "unlinking" /\ Stretch(0, {}, Linked) /\ stray'.links = stray.links
        /\ stray'.jobs = stray.jobs \cup {j \in Ids : jobs[j].pc # "idle"}
    BY <1>7, CloseLinksDoes
  <2>2. /\ jobs'[0].list = {} /\ (jobs'[0].pc = "idle" => jobs'[0].todo = {})
        /\ Linked' \subseteq jobs'[0].todo /\ \A k \in Ids : jobs'[k] = jobs[k]
    BY <1>0, <2>1 DEF Stretch, Idle
  <2> QED BY <2>1, <2>2
<1>8. CASE LinksClosed
  <2>1. /\ serve = "unlinking" /\ serve' = "over" /\ jobs[0].pc = "idle"
        /\ UNCHANGED <<links, jobs, stray>>
    BY <1>8 DEF LinksClosed, linking
  <2>2. Linked' = Linked BY <2>1 DEF Linked
  <2> QED BY <2>1, <2>2
<1>9. ASSUME NEW i \in Ids, LinkReady(i) \/ LinkFails(i) \/ LinkStops(i) PROVE WhatIsLeft'
  BY <1>9, LinkChanges
<1>10. CASE Link
  BY <1>0, <1>2, <1>3, <1>4, <1>5, <1>6, <1>7, <1>8, <1>9, <1>10, LinkDoes
<1> QED BY <1>1, <1>10 DEF Next

\* What is registered has a number of its own, so that no reconciliation that is
\* under way removes it.
LEMMA StepJobsAreFounded ==
  ASSUME PartsInv, [Next]_vars
  PROVE  JobsAreFounded'
<1> USE DEF PartsInv, PartsTypeOK, JobsAreFounded, Known, JobPCs
<1>0. Ids \subseteq Jobs /\ Jobs = Ids \cup {0} /\ 0 \notin Ids /\ 1 \in Ids
      /\ Jobs \subseteq Nat
  BY DashboardBounds DEF DashboardBounds, Jobs, Ids
<1>1. CASE Share \/ Watch \/ UNCHANGED vars
  <2>1. /\ UNCHANGED <<active, links>> /\ used'.registered = used.registered
        /\ jobs' \in OfFirst
        /\ serve' # "unlinking" => serve # "unlinking"
    BY <1>1, LinksStay
  <2>2. Linked' = Linked BY <2>1 DEF Linked
  <2>3. CASE jobs' = jobs BY <2>1, <2>2, <2>3
  <2>4. CASE jobs' = [jobs EXCEPT ![1].pc = "listing"] BY <1>0, <2>1, <2>2, <2>4
  <2>5. CASE jobs' = [jobs EXCEPT ![1] = Idle] BY <1>0, <2>1, <2>2, <2>5 DEF Idle
  <2> QED BY <2>1, <2>3, <2>4, <2>5 DEF OfFirst
<1>2. CASE Register
  <2> DEFINE i == used.registered + 1
  <2>1. /\ i \in Ids /\ UNCHANGED links /\ used'.registered = i
        /\ active' \subseteq active \cup {i}
        /\ serve' = serve
    BY <1>2 DEF Register
  <2>2. jobs' = [jobs EXCEPT ![i].pc = "listing"] BY <1>2 DEF Register
  <2>3. Linked' = Linked BY <2>1 DEF Linked
  <2>4. \A j \in Jobs : i \notin jobs[j].todo OBVIOUS
  <2> HIDE DEF i
  <2>5. Known \subseteq Known' /\ i \in Known' /\ i > used.registered
    BY <2>1 DEF i
  <2> QED BY <1>0, <2>1, <2>2, <2>3, <2>4, <2>5
<1>3. ASSUME NEW j \in Ids, ListRows(j) PROVE JobsAreFounded'
  <2>1. /\ jobs[j].pc = "listing" /\ Stretch(j, active, Linked \ active)
        /\ UNCHANGED <<serve, active, used>> /\ j \in Jobs /\ j # 0
    BY <1>0, <1>3, ListRowsDoes
  <2>3. /\ jobs' \in [Jobs -> [pc: JobPCs, list: SUBSET Ids, todo: SUBSET Ids, on: Ids \cup {0}]]
        /\ \A k \in Jobs \ {j} : jobs'[k] = jobs[k]
        /\ Linked' \subseteq Linked \cup active
        /\ \/ jobs'[j] = Idle
           \/ /\ jobs'[j].pc = "removing" /\ jobs'[j].list = active
              /\ jobs'[j].todo \subseteq Linked \ active /\ jobs'[j].on \in Ids
    BY <2>1, StretchBounds DEF Stretch
  <2>4. jobs'[j].list \subseteq Known /\ jobs'[j].todo \subseteq Known
        /\ jobs'[j].pc \in {"idle", "removing"}
        /\ (jobs'[j].pc = "removing" => jobs'[j].on \in Ids)
        /\ (jobs'[j].pc = "removing" => jobs'[j].todo \cap active = {})
        /\ j <= used.registered
    BY <1>0, <2>1, <2>3 DEF Idle
  <2> QED BY <1>0, <2>1, <2>3, <2>4
<1>4. ASSUME NEW j \in Jobs, Removed(j) PROVE JobsAreFounded'
  <2>1. /\ jobs[j].pc = "removing" /\ Stretch(j, jobs[j].list, jobs[j].todo)
        /\ UNCHANGED <<serve, active, used>>
    BY <1>4, RemovedDoes
  <2>2. /\ jobs' \in [Jobs -> [pc: JobPCs, list: SUBSET Ids, todo: SUBSET Ids, on: Ids \cup {0}]]
        /\ \A k \in Jobs \ {j} : jobs'[k] = jobs[k]
        /\ Linked' \subseteq Linked \cup jobs[j].list
        /\ \/ jobs'[j] = Idle
           \/ /\ jobs'[j].pc = "removing" /\ jobs'[j].list = jobs[j].list
              /\ jobs'[j].todo \subseteq jobs[j].todo /\ jobs'[j].on \in Ids
    BY <2>1, StretchBounds DEF Stretch
  <2>3. jobs'[j].list \subseteq Known /\ jobs'[j].todo \subseteq Known
        /\ jobs'[j].pc \in {"idle", "removing"}
        /\ (jobs'[j].pc = "removing" => jobs'[j].on \in Ids)
        /\ (j # 0 /\ jobs'[j].pc = "removing" => jobs'[j].todo \cap active = {})
        /\ j <= used.registered
    BY <1>0, <2>1, <2>2 DEF Idle
  <2> QED BY <1>0, <2>1, <2>2, <2>3
<1>5. CASE Link
  <2>1. ASSUME UNCHANGED <<active, jobs>>, used'.registered = used.registered, Linked' = Linked,
               serve' # "unlinking" => jobs[0].pc = "idle"
        PROVE  JobsAreFounded'
    BY <2>1
  <2>2. ASSUME NEW i \in Ids, LinkReady(i) \/ LinkFails(i) \/ LinkStops(i) PROVE JobsAreFounded'
    BY <2>1, <2>2, LinkChanges
  <2>3. CASE CloseLinks
    <3>1. serve = "quiescing" /\ serve' = "unlinking" /\ UNCHANGED <<active, used>>
      BY <2>3, CloseLinksDoes
    <3>2. /\ \A k \in Jobs \ {0} : jobs'[k] = jobs[k]
          /\ Linked' \subseteq Linked
          /\ \/ jobs'[0] = Idle
             \/ /\ jobs'[0].pc = "removing" /\ jobs'[0].list = {}
                /\ jobs'[0].todo \subseteq Linked /\ jobs'[0].on \in Ids
      BY <2>3, CloseLinksDoes, StretchBounds DEF Stretch
    <3> QED BY <1>0, <3>1, <3>2 DEF Idle
  <2>4. CASE LinksClosed
    <3>1. /\ UNCHANGED <<active, links, jobs>> /\ used' = used /\ jobs[0].pc = "idle"
      BY <2>4 DEF LinksClosed, linking
    <3> QED BY <2>1, <3>1 DEF Linked
  <2>5. CASE ServerStops
    BY <1>0, <2>5, ServerStopsDoes DEF Idle
  <2> QED BY <1>2, <1>3, <1>4, <1>5, <2>2, <2>3, <2>4, <2>5, LinkDoes
<1> QED BY <1>1, <1>5 DEF Next

LEMMA StepLinksAreFounded ==
  ASSUME PartsInv, [Next]_vars
  PROVE  LinksAreFounded'
<1> USE DEF PartsInv, LinksAreFounded, Covered, Exact, ListsAreActive, SomeoneLists
<1>0. Ids \subseteq Jobs /\ 1 \in Jobs
  BY DashboardBounds DEF DashboardBounds, Jobs, Ids
<1>1. CASE Share \/ Watch \/ UNCHANGED vars
  <2>1. CASE jobs' = jobs
    <3>1. UNCHANGED <<active, links, overlap>> BY <1>1, LinksStay
    <3>2. serve' = "serving" => serve = "serving" \/ jobs' = [jobs EXCEPT ![1].pc = "listing"]
      BY <1>1, LinksStay
    <3>3. CASE serve' = "serving" => serve = "serving" BY <2>1, <3>1, <3>3 DEF Linked
    <3>4. CASE jobs' = [jobs EXCEPT ![1].pc = "listing"]
      <4>1. jobs'[1].pc = "listing" BY <1>0, <3>4 DEF PartsTypeOK
      <4> QED BY <1>0, <4>1
    <3> QED BY <3>2, <3>3, <3>4
  <2>2. CASE jobs' = [jobs EXCEPT ![1].pc = "listing"]
    <3>1. jobs'[1].pc = "listing" BY <1>0, <2>2 DEF PartsTypeOK
    <3> QED BY <1>0, <3>1
  <2>3. CASE serve' = "closing" BY <2>3
  <2> QED BY <1>1, <2>1, <2>2, <2>3, LinksStay
<1>2. CASE Register
  <2>1. used.registered + 1 \in Ids /\ jobs' = [jobs EXCEPT ![used.registered + 1].pc = "listing"]
    BY <1>2 DEF Register
  <2>2. jobs'[used.registered + 1].pc = "listing" BY <1>0, <2>1 DEF PartsTypeOK
  <2> QED BY <1>0, <2>1, <2>2
<1>3. ASSUME NEW j \in Ids, ListRows(j) PROVE LinksAreFounded'
  <2> SUFFICES ASSUME serve = "serving" PROVE Covered' /\ (~overlap' => Exact' /\ ListsAreActive')
    BY <1>3, ListRowsDoes
  <2>1. /\ active' = active /\ j \in Jobs /\ \A k \in Jobs \ {j} : jobs'[k] = jobs[k]
        /\ ~overlap' => \A k \in Jobs \ {j} : jobs[k].pc # "removing"
    BY <1>0, <1>3, ListRowsDoes DEF Stretch, Jobs, Ids, JobsAreFounded
  <2>2. CASE /\ jobs'[j] = Idle /\ Linked' \subseteq (Linked \ (Linked \ active)) \cup active
             /\ active \ (Linked \ active) \subseteq Linked'
    <3>1. Linked' = active BY <2>2
    <3>2. jobs'[j].pc = "idle" BY <2>2 DEF Idle
    <3> QED BY <2>1, <3>1, <3>2
  <2>3. CASE /\ jobs'[j].pc = "removing" /\ jobs'[j].list = active
             /\ Linked' \subseteq Linked /\ Linked' \cap (Linked \ active) \subseteq jobs'[j].todo
    BY <2>1, <2>3
  <2> QED BY <1>3, <2>2, <2>3, ListRowsDoes DEF Stretch
<1>4. ASSUME NEW j \in Jobs, Removed(j) PROVE LinksAreFounded'
  <2> DEFINE list == jobs[j].list
             todo == jobs[j].todo
  <2> SUFFICES ASSUME serve = "serving" PROVE Covered' /\ (~overlap' => Exact' /\ ListsAreActive')
    BY <1>4, RemovedDoes
  <2>1. /\ active' = active /\ overlap' = overlap /\ \A k \in Jobs \ {j} : jobs'[k] = jobs[k]
        /\ jobs[j].pc = "removing" /\ Linked \ todo \subseteq Linked' /\ j # 0
    BY <1>4, RemovedDoes DEF Stretch, JobsAreFounded
  <2>2. todo \cap active = {}
    BY <2>1 DEF JobsAreFounded, Jobs, Ids
  <2>3. SomeoneLists => SomeoneLists' BY <2>1
  <2>4. CASE /\ jobs'[j] = Idle /\ Linked' \subseteq (Linked \ todo) \cup list
             /\ list \ todo \subseteq Linked'
    <3>1. jobs'[j].pc = "idle" BY <2>4 DEF Idle
    <3>2. Covered'
      <4> SUFFICES ASSUME NEW i \in active
                   PROVE  \/ i \in Linked' \/ SomeoneLists'
                          \/ \E k \in Jobs : jobs'[k].pc = "removing" /\ i \in jobs'[k].list
        BY <2>1
      <4>1. i \notin todo BY <2>2
      <4>2. CASE i \in Linked BY <2>1, <4>1, <4>2
      <4>3. CASE i \in list BY <2>4, <4>1, <4>3
      <4>4. CASE SomeoneLists BY <2>3, <4>4
      <4>5. CASE \E k \in Jobs \ {j} : jobs[k].pc = "removing" /\ i \in jobs[k].list
        BY <2>1, <4>5
      <4> QED BY <4>2, <4>3, <4>4, <4>5
    <3>3. ASSUME ~overlap PROVE Exact'
      <4> SUFFICES ASSUME NEW i \in Linked', i \notin active
                   PROVE  \/ SomeoneLists'
                          \/ \E k \in Jobs : jobs'[k].pc = "removing" /\ i \in jobs'[k].todo
        BY <2>1
      <4>1. CASE i \in list
        BY <2>1, <2>3, <3>3, <4>1
      <4>2. CASE i \in Linked \ todo
        BY <2>1, <2>3, <3>3, <4>2
      <4> QED BY <2>4, <4>1, <4>2
    <3>4. ASSUME ~overlap PROVE ListsAreActive'
      BY <2>1, <2>3, <3>1, <3>4
    <3> QED BY <2>1, <3>2, <3>3, <3>4
  <2>5. CASE /\ jobs'[j].pc = "removing" /\ jobs'[j].list = list
             /\ Linked' \subseteq Linked /\ Linked' \cap todo \subseteq jobs'[j].todo
    BY <2>1, <2>2, <2>3, <2>5
  <2> QED BY <1>4, <2>4, <2>5, RemovedDoes DEF Stretch
<1>5. CASE Link
  <2>1. ASSUME NEW i \in Ids, LinkReady(i) \/ LinkFails(i) \/ LinkStops(i) PROVE LinksAreFounded'
    BY <2>1, LinkChanges
  <2>2. CASE serve' \in {"quiescing", "unlinking", "over"} BY <2>2
  <2>3. CASE ServerStops \/ CloseLinks \/ LinksClosed
    BY <2>2, <2>3 DEF ServerStops, CloseLinks, LinksClosed
  <2> QED BY <1>2, <1>3, <1>4, <1>5, <2>1, <2>3, LinkDoes
<1> QED BY <1>1, <1>5 DEF Next

-----------------------------------------------------------------------------
(* The theorems.                                                           *)

THEOREM PartsAreInvariant == Spec => []PartsInv
<1>1. Init => PartsInv
  <2> SUFFICES ASSUME Init PROVE PartsInv
    OBVIOUS
  <2>0. 1 \in Ids /\ Ids \subseteq Jobs
    BY DashboardBounds DEF DashboardBounds, Ids, Jobs
  <2>1. PartsTypeOK
    BY <2>0 DEF Init, PartsTypeOK, Jobs, JobPCs, Idle, Serving, ShareStatus, Waits, Process,
       LinkStatus
  <2>2. TunnelsAreHeld BY DEF Init, TunnelsAreHeld
  <2>3. Linked = {} BY DEF Init, Linked
  <2>4. JobsAreFounded
    <3>1. \A j \in Jobs : jobs[j] = Idle BY DEF Init, Jobs
    <3>2. used.registered = 1 /\ active = {1} /\ serve = "starting" BY DEF Init
    <3>3. 0 \in Jobs BY DashboardBounds DEF DashboardBounds, Jobs
    <3> QED BY <2>0, <2>3, <3>1, <3>2, <3>3 DEF JobsAreFounded, Known, Idle
  <2>5. WhatIsLeft
    <3>1. 0 \in Jobs BY DashboardBounds DEF DashboardBounds, Jobs
    <3>2. jobs[0] = Idle /\ stray.links = {} /\ serve = "starting" BY <3>1 DEF Init, Jobs
    <3> QED BY <3>2 DEF WhatIsLeft, ManagerCloses, Idle
  <2> QED BY <2>1, <2>2, <2>4, <2>5 DEF Init, PartsInv, LinksAreFounded
<1>2. PartsInv /\ [Next]_vars => PartsInv'
  BY StepPartsTypeOK, StepTunnelsAreHeld, StepWhatIsLeft, StepJobsAreFounded,
     StepLinksAreFounded DEF PartsInv
<1> QED BY <1>1, <1>2, PTL DEF Spec

\* When the service is over every tunnel of the share was told to end, wherever the
\* monitor was when it was cancelled; every link that was there when the manager
\* began to close is removed, and one that is there all the same was started since,
\* by a registration that was still under way; if none was, and none had been
\* cancelled in the middle of a removal, no link is left (CloudflaredShare.close,
\* DashboardLinkManager.close).
THEOREM NothingOutlives == Spec => []NothingOutlivesTheService
<1>1. PartsInv => NothingOutlivesTheService
  <2> SUFFICES ASSUME PartsInv, serve = "over" PROVE NothingOutlivesTheService
    BY DEF NothingOutlivesTheService
  <2>1. jobs[0].pc = "idle" /\ Linked \subseteq stray.links
    BY DEF PartsInv, WhatIsLeft, ManagerCloses
  <2>2. \A i \in Ids : Runs(i) => i \in stray.links BY <2>1 DEF Linked, Runs
  <2>3. DOMAIN jobs = Ids \cup {0}
    BY DashboardBounds DEF DashboardBounds, Jobs, Ids, PartsInv, PartsTypeOK
  <2>4. stray.jobs = {} => stray.links = {} /\ \A j \in DOMAIN jobs : jobs[j].pc = "idle"
    BY <2>1, <2>3 DEF PartsInv, WhatIsLeft, ManagerCloses
  <2>5. monitor.pc = "done" /\ monitor.tunnel = 0 /\ share.status = "closed"
    BY DEF PartsInv, TunnelsAreHeld
  <2>6. \A t \in Tunnels : tunnels[t] \in {"none", "told", "gone"}
    BY <2>5, ZeroIsNoTunnel DEF PartsInv, PartsTypeOK, TunnelsAreHeld, Process
  <2> QED BY <2>2, <2>4, <2>5, <2>6 DEF NothingOutlivesTheService
<1> QED BY <1>1, PartsAreInvariant, PTL

\* When no reconciliation is under way every active dashboard has its link, and
\* only they have one unless two reconciliations ran into one another
\* (DashboardLinkManager.reconcile).
THEOREM LinksAreOfActive == Spec => []DashboardsAreLinked
<1>1. PartsInv => DashboardsAreLinked
  <2> SUFFICES ASSUME PartsInv, serve = "serving", \A j \in Jobs : jobs[j].pc = "idle"
               PROVE  active \subseteq Linked /\ (~overlap => Linked = active)
    BY DEF DashboardsAreLinked, PartsInv, PartsTypeOK
  <2>1. ~SomeoneLists BY DEF SomeoneLists
  <2>2. active \subseteq Linked
    BY <2>1 DEF PartsInv, LinksAreFounded, Covered
  <2>3. ~overlap => Linked \subseteq active
    BY <2>1 DEF PartsInv, LinksAreFounded, Exact
  <2> QED BY <2>2, <2>3
<1> QED BY <1>1, PartsAreInvariant, PTL
-----------------------------------------------------------------------------
(* The addresses of the tunnels.                                           *)

\* Which tunnel is shown and which is waited for: the candidate is younger than
\* the tunnel that is shown, since the processes are started in their order.
Addresses == 0 .. MaxTunnels
WaitsForTunnel == {"candidate", "giving up", "previous", "cancelled"}
Settled == {"open", "told", "gone"}
InOrder ==
  \A t \in Tunnels : tunnels[t] # "none" => \A u \in 1 .. t - 1 : tunnels[u] # "none"
ShareInv ==
  /\ share.url \in Addresses /\ share.generation \in Addresses
  /\ monitor.tunnel \in Addresses /\ monitor.other \in Addresses
  /\ monitor.failures \in 0 .. FailureThreshold
  /\ monitor.pc \in WaitsForTunnel <=> monitor.other # 0
  /\ share.generation <= share.url
  /\ monitor.pc = "candidate" => share.url < monitor.other
  /\ InOrder
  /\ \A t \in {monitor.tunnel, monitor.other} : t # 0 => tunnels[t] # "none"
  /\ share.url # 0 => tunnels[share.url] \in Settled

\* No process is started, and none that has opened is starting again.
Onward ==
  \A t \in Tunnels : /\ tunnels'[t] = "none" <=> tunnels[t] = "none"
                     /\ tunnels[t] \in Settled => tunnels'[t] \in Settled

LEMMA AddressesAreTunnels ==
  /\ Addresses = Tunnels \cup {0} /\ 0 \notin Tunnels /\ Tunnels \subseteq Nat
  /\ FailureThreshold \in Nat /\ FailureThreshold - 1 \in 0 .. FailureThreshold
  BY DashboardBounds DEF DashboardBounds, Tunnels, Addresses

LEMMA EndedIsOnward ==
  ASSUME PartsTypeOK, NEW t, t \in Tunnels => tunnels[t] # "none",
         tunnels' \in {Ended(t), ToldTo(t), tunnels}
  PROVE  Onward
<1> USE DEF PartsTypeOK, Onward, Settled
<1>1. CASE tunnels' = Ended(t) BY <1>1 DEF Ended
<1>2. CASE tunnels' = ToldTo(t) BY <1>2 DEF ToldTo
<1>3. CASE tunnels' = tunnels BY <1>3
<1> QED BY <1>1, <1>2, <1>3

\* What keeps the invariant when the processes go onward.
LEMMA OnwardKeeps ==
  ASSUME ShareInv, Onward, monitor'.tunnel \in {monitor.tunnel, monitor.other, 0},
         monitor'.other \in {monitor.tunnel, monitor.other, 0},
         monitor'.failures \in 0 .. FailureThreshold,
         monitor'.pc \in WaitsForTunnel <=> monitor'.other # 0,
         \/ /\ share'.url = share.url /\ share'.generation = share.generation
            /\ monitor'.pc = "candidate" => monitor.pc = "candidate"
                                            /\ monitor'.other = monitor.other
         \/ /\ monitor.pc = "candidate" /\ monitor'.pc # "candidate"
            /\ share'.url = monitor.other /\ share'.generation = share.generation + 1
            /\ tunnels'[monitor.other] = "open"
  PROVE  ShareInv'
<1> USE AddressesAreTunnels
<1>1. InOrder'
  <2> SUFFICES ASSUME NEW t \in Tunnels, tunnels'[t] # "none", NEW u \in 1 .. t - 1
               PROVE  tunnels'[u] # "none"
    BY DEF InOrder
  <2>1. u \in Tunnels BY DashboardBounds DEF DashboardBounds, Tunnels
  <2> QED BY <2>1 DEF ShareInv, InOrder, Onward
<1>2. \A t \in {monitor'.tunnel, monitor'.other} : t # 0 => tunnels'[t] # "none"
  BY DEF ShareInv, Onward
<1>3. CASE /\ share'.url = share.url /\ share'.generation = share.generation
           /\ monitor'.pc = "candidate" => monitor.pc = "candidate"
                                            /\ monitor'.other = monitor.other
  <2>1. share'.url # 0 => tunnels'[share'.url] \in Settled BY <1>3 DEF ShareInv, Onward
  <2> QED BY <1>1, <1>2, <1>3, <2>1 DEF ShareInv
<1>4. CASE /\ monitor.pc = "candidate" /\ monitor'.pc # "candidate"
           /\ share'.url = monitor.other /\ share'.generation = share.generation + 1
           /\ tunnels'[monitor.other] = "open"
  <2>1. share.generation < monitor.other /\ share'.generation <= monitor.other
        /\ share'.generation \in Nat
    BY <1>4, DashboardBounds DEF ShareInv, Addresses, DashboardBounds
  <2>2. share'.generation \in Addresses
    BY <2>1, DashboardBounds DEF ShareInv, Addresses, DashboardBounds
  <2>3. share'.url # 0 => tunnels'[share'.url] \in Settled BY <1>4 DEF Settled
  <2> QED BY <1>1, <1>2, <1>4, <2>1, <2>2, <2>3 DEF ShareInv
<1> QED BY <1>3, <1>4

\* A candidate is the first tunnel that was not started.
LEMMA CandidateKeeps ==
  ASSUME PartsTypeOK, ShareInv, NEW f \in 0 .. FailureThreshold, Candidate(f),
         share'.url = share.url, share'.generation = share.generation
  PROVE  ShareInv'
<1> USE AddressesAreTunnels
<1>1. PICK t \in Tunnels :
        /\ IsNextTunnel(t) /\ tunnels' = [tunnels EXCEPT ![t] = "opening"]
        /\ monitor' = [monitor EXCEPT !.pc = "candidate", !.other = t, !.failures = f]
  BY DEF Candidate, Spawned
<1>2. /\ monitor'.pc = "candidate" /\ monitor'.other = t /\ monitor'.failures = f
      /\ monitor'.tunnel = monitor.tunnel /\ t # 0
  BY <1>1 DEF PartsTypeOK
<1>3. /\ tunnels[t] = "none" /\ tunnels'[t] = "opening"
      /\ \A u \in Tunnels : u # t => tunnels'[u] = tunnels[u]
  BY <1>1 DEF PartsTypeOK, IsNextTunnel
<1>4. InOrder'
  <2> SUFFICES ASSUME NEW s \in Tunnels, tunnels'[s] # "none", NEW u \in 1 .. s - 1
               PROVE  tunnels'[u] # "none"
    BY DEF InOrder
  <2>1. u \in Tunnels BY DashboardBounds DEF DashboardBounds, Tunnels
  <2>2. CASE s = t BY <1>1, <1>3, <2>1, <2>2 DEF IsNextTunnel
  <2>3. CASE s # t BY <1>3, <2>1, <2>3 DEF ShareInv, InOrder
  <2> QED BY <2>2, <2>3
<1>5. share.url < t
  <2>1. CASE share.url = 0 BY <2>1
  <2>2. CASE share.url # 0
    <3>1. share.url \in Tunnels /\ tunnels[share.url] # "none" BY <2>2 DEF ShareInv, Settled
    <3>2. t \notin 1 .. share.url - 1 BY <1>3, <3>1 DEF ShareInv, InOrder
    <3>3. t # share.url BY <1>3, <3>1
    <3> QED BY <3>1, <3>2, <3>3, DashboardBounds DEF Tunnels, DashboardBounds
  <2> QED BY <2>1, <2>2
<1>6. \A u \in {monitor'.tunnel, monitor'.other} : u # 0 => tunnels'[u] # "none"
  BY <1>2, <1>3 DEF ShareInv
<1>7. share.url # 0 => tunnels'[share.url] \in Settled
  BY <1>3 DEF ShareInv, Settled
<1> QED BY <1>2, <1>4, <1>5, <1>6, <1>7 DEF ShareInv, WaitsForTunnel

LEMMA StepShareInv ==
  ASSUME PartsInv, ShareInv, [Next]_vars
  PROVE  ShareInv'
<1> USE AddressesAreTunnels
<1>0. PartsTypeOK BY DEF PartsInv
<1>1. CASE StartShare
  BY <1>0, <1>1, CandidateKeeps DEF StartShare, ShareInv
<1>2. CASE CandidateOpens
  <2>1. /\ monitor.pc = "candidate" /\ monitor.other \in Tunnels
        /\ tunnels[monitor.other] = "opening"
    BY <1>2 DEF CandidateOpens, ShareInv, WaitsForTunnel
  <2>2. share'.url = monitor.other /\ share'.generation = share.generation + 1
    BY <1>2 DEF CandidateOpens
  <2>3. CASE monitor.tunnel = 0
    <3>1. /\ tunnels' = [tunnels EXCEPT ![monitor.other] = "open"]
          /\ monitor' = [monitor EXCEPT !.pc = "sleep", !.tunnel = monitor.other, !.other = 0]
      BY <1>2, <2>3 DEF CandidateOpens
    <3>2. Onward /\ tunnels'[monitor.other] = "open"
      BY <1>0, <2>1, <3>1 DEF PartsTypeOK, Onward, Settled
    <3>3. /\ monitor'.pc = "sleep" /\ monitor'.tunnel = monitor.other /\ monitor'.other = 0
          /\ monitor'.failures = monitor.failures
      BY <1>0, <3>1 DEF PartsTypeOK
    <3> QED BY <2>1, <2>2, <3>2, <3>3, OnwardKeeps DEF ShareInv, WaitsForTunnel
  <2>4. CASE monitor.tunnel # 0
    <3>1. /\ tunnels' = [ToldTo(monitor.tunnel) EXCEPT ![monitor.other] = "open"]
          /\ monitor' = [monitor EXCEPT !.pc = "previous", !.tunnel = monitor.other,
                                        !.other = monitor.tunnel]
      BY <1>2, <2>4 DEF CandidateOpens
    <3>2. Onward /\ tunnels'[monitor.other] = "open"
      BY <1>0, <2>1, <3>1 DEF PartsTypeOK, Onward, Settled, ToldTo
    <3>3. /\ monitor'.pc = "previous" /\ monitor'.tunnel = monitor.other
          /\ monitor'.other = monitor.tunnel /\ monitor'.failures = monitor.failures
      BY <1>0, <3>1 DEF PartsTypeOK
    <3> QED BY <2>1, <2>2, <2>4, <3>2, <3>3, OnwardKeeps DEF ShareInv, WaitsForTunnel
  <2> QED BY <2>3, <2>4
<1>3. ASSUME UNCHANGED <<share, monitor, tunnels>> PROVE ShareInv'
  BY <1>3 DEF ShareInv, InOrder
<1>4. CASE CandidateFails
  <2>1. /\ monitor.pc = "candidate" /\ tunnels' = ToldTo(monitor.other)
        /\ monitor' = [monitor EXCEPT !.pc = "giving up"] /\ share' = share
    BY <1>4 DEF CandidateFails
  <2>2. /\ monitor'.pc = "giving up" /\ monitor'.other = monitor.other
        /\ monitor'.tunnel = monitor.tunnel /\ monitor'.failures = monitor.failures
    BY <1>0, <2>1 DEF PartsTypeOK
  <2>3. Onward BY <1>0, <2>1, EndedIsOnward DEF ShareInv
  <2> QED BY <2>1, <2>2, <2>3, OnwardKeeps DEF ShareInv, WaitsForTunnel
<1>5. CASE GivesUp
  <2>1. /\ monitor.pc = "giving up" /\ tunnels' = Ended(monitor.other)
        /\ share'.url = share.url /\ share'.generation = share.generation
        /\ \/ monitor' = [monitor EXCEPT !.pc = "sleep", !.other = 0]
           \/ monitor' = [monitor EXCEPT !.pc = "sleep", !.other = 0,
                                         !.failures = FailureThreshold - 1]
    BY <1>0, <1>5 DEF GivesUp, PartsTypeOK
  <2>2. /\ monitor'.pc = "sleep" /\ monitor'.other = 0 /\ monitor'.tunnel = monitor.tunnel
        /\ monitor'.failures \in {monitor.failures, FailureThreshold - 1}
    BY <1>0, <2>1 DEF PartsTypeOK
  <2>3. Onward BY <1>0, <2>1, EndedIsOnward DEF ShareInv
  <2> QED BY <2>1, <2>2, <2>3, OnwardKeeps DEF ShareInv, WaitsForTunnel
<1>6. CASE PreviousEnds
  <2>1. /\ tunnels' = Ended(monitor.other) /\ share' = share
        /\ monitor' = [monitor EXCEPT !.pc = "announce", !.other = 0]
    BY <1>6 DEF PreviousEnds
  <2>2. /\ monitor'.pc = "announce" /\ monitor'.other = 0 /\ monitor'.tunnel = monitor.tunnel
        /\ monitor'.failures = monitor.failures
    BY <1>0, <2>1 DEF PartsTypeOK
  <2>3. Onward BY <1>0, <2>1, EndedIsOnward DEF ShareInv
  <2> QED BY <2>1, <2>2, <2>3, OnwardKeeps DEF ShareInv, WaitsForTunnel
<1>7. CASE Announce \/ IsHealthy
  <2>1. /\ monitor.pc \in {"announce", "sleep"} /\ monitor'.pc = "sleep"
        /\ monitor'.other = monitor.other /\ monitor'.tunnel = monitor.tunnel
        /\ monitor'.failures = 0 /\ UNCHANGED <<share, tunnels>>
    BY <1>0, <1>7 DEF Announce, IsHealthy, PartsTypeOK
  <2>2. Onward BY <2>1 DEF Onward
  <2>3. monitor.pc \notin WaitsForTunnel /\ monitor'.pc \notin WaitsForTunnel
    BY <2>1 DEF WaitsForTunnel
  <2>4. monitor.other = 0 /\ monitor'.pc # "candidate"
    BY <2>1, <2>3 DEF ShareInv
  <2>5. 0 \in 0 .. FailureThreshold OBVIOUS
  <2> QED BY <2>1, <2>2, <2>3, <2>4, <2>5, OnwardKeeps
<1>8. CASE IsUnhealthy
  <2>1. CASE monitor.failures + 1 < FailureThreshold
    <3>1. /\ monitor.pc = "sleep" /\ UNCHANGED <<share, tunnels>>
          /\ monitor' = [monitor EXCEPT !.failures = monitor.failures + 1]
      BY <1>8, <2>1 DEF IsUnhealthy
    <3>2. /\ monitor'.pc = monitor.pc /\ monitor'.failures = monitor.failures + 1
          /\ monitor'.other = monitor.other /\ monitor'.tunnel = monitor.tunnel
      BY <1>0, <3>1 DEF PartsTypeOK
    <3>3. Onward BY <3>1 DEF Onward
    <3>4. monitor'.failures \in 0 .. FailureThreshold BY <2>1, <3>2 DEF ShareInv
    <3> QED BY <3>1, <3>2, <3>3, <3>4, OnwardKeeps DEF ShareInv, WaitsForTunnel
  <2>2. CASE ~(monitor.failures + 1 < FailureThreshold)
    <3>1. Candidate(FailureThreshold) /\ share' = [share EXCEPT !.status = "rotating"]
      BY <1>8, <2>2 DEF IsUnhealthy
    <3>2. share'.url = share.url /\ share'.generation = share.generation
      BY <1>0, <3>1 DEF PartsTypeOK
    <3>3. FailureThreshold \in 0 .. FailureThreshold OBVIOUS
    <3> QED BY <1>0, <3>1, <3>2, <3>3, CandidateKeeps
  <2> QED BY <2>1, <2>2
<1>9. CASE BeginClose BY <1>3, <1>9 DEF BeginClose, sharing
<1>10. CASE CancelMonitor
  <2>1. /\ tunnels' = CancelledTunnels /\ share' = share
        /\ monitor' = IF monitor.pc = "candidate" THEN [monitor EXCEPT !.pc = "cancelled"]
                      ELSE [monitor EXCEPT !.pc = "last", !.other = 0]
    BY <1>10 DEF CancelMonitor
  <2>2. /\ monitor'.tunnel = monitor.tunnel /\ monitor'.failures = monitor.failures
        /\ \/ /\ monitor.pc = "candidate" /\ monitor'.pc = "cancelled"
              /\ monitor'.other = monitor.other
           \/ monitor'.pc = "last" /\ monitor'.other = 0
    BY <1>0, <2>1 DEF PartsTypeOK
  <2>3. Onward BY <1>0, <2>1, EndedIsOnward DEF ShareInv, CancelledTunnels
  <2> QED BY <2>1, <2>2, <2>3, OnwardKeeps DEF ShareInv, WaitsForTunnel
<1>11. CASE CandidateEnds
  <2>1. /\ tunnels' = [t \in Tunnels |-> IF t = monitor.other /\ tunnels[t] = "told"
                                         THEN "gone" ELSE tunnels[t]]
        /\ monitor' = [monitor EXCEPT !.pc = "last", !.other = 0] /\ share' = share
    BY <1>11 DEF CandidateEnds
  <2>2. /\ monitor'.pc = "last" /\ monitor'.other = 0 /\ monitor'.tunnel = monitor.tunnel
        /\ monitor'.failures = monitor.failures
    BY <1>0, <2>1 DEF PartsTypeOK
  <2>3. Onward BY <2>1 DEF Onward, Settled
  <2> QED BY <2>1, <2>2, <2>3, OnwardKeeps DEF ShareInv, WaitsForTunnel
<1>12. CASE ShareCloses
  <2>1. /\ tunnels' = IF monitor.tunnel = 0 THEN tunnels ELSE Ended(monitor.tunnel)
        /\ monitor' = [monitor EXCEPT !.pc = "done", !.tunnel = 0, !.other = 0]
        /\ share' = [share EXCEPT !.status = "closed"]
    BY <1>12 DEF ShareCloses
  <2>2. /\ monitor'.pc = "done" /\ monitor'.other = 0 /\ monitor'.tunnel = 0
        /\ monitor'.failures = monitor.failures
        /\ share'.url = share.url /\ share'.generation = share.generation
    BY <1>0, <2>1 DEF PartsTypeOK
  <2>3. Onward BY <1>0, <2>1, EndedIsOnward DEF ShareInv
  <2> QED BY <2>2, <2>3, OnwardKeeps DEF ShareInv, WaitsForTunnel
<1>13. ASSUME NEW t \in Tunnels, TunnelDies(t) PROVE ShareInv'
  <2>1. /\ tunnels[t] # "none" /\ tunnels' = Ended(t) /\ UNCHANGED <<share, monitor>>
    BY <1>13 DEF TunnelDies
  <2>2. Onward BY <1>0, <2>1, EndedIsOnward
  <2> QED BY <2>1, <2>2, OnwardKeeps DEF ShareInv, WaitsForTunnel
<1>14. CASE Share
  BY <1>14, <1>1, <1>2, <1>4, <1>5, <1>6, <1>7, <1>8, <1>9, <1>10, <1>11, <1>12, <1>13
  DEF Share
<1>15. CASE Link BY <1>3, <1>15, LinkStays
<1>16. CASE Watch BY <1>3, <1>16, WatchStays
<1>17. CASE UNCHANGED vars BY <1>3, <1>17 DEF vars, sharing
<1> QED BY <1>14, <1>15, <1>16, <1>17 DEF Next
-----------------------------------------------------------------------------
(* The event stream and the page.                                          *)

\* Every event of a batch comes after the one before it -- the first after the
\* cursor -- and the journal holds none between the two.
Before(batch, cursor, k) == IF k = 1 THEN cursor ELSE batch[k - 1]
NoneBetween(from, to) == \A s \in Kept : ~(from < s /\ s < to)
Orderly(batch, cursor) ==
  \A k \in 1 .. Len(batch) : /\ Before(batch, cursor, k) < batch[k]
                             /\ NoneBetween(Before(batch, cursor, k), batch[k])
SendingInv == stream.sending = <<Hint>> \/ Orderly(stream.sending, stream.cursor)

StreamPCs == {"closed", "replay", "live"}
WatchTypeOK ==
  /\ last \in Nat
  /\ stream \in [pc: StreamPCs, cursor: 0 .. last, sending: Seq(0 .. last),
                 queue: Seq(0 .. last), broken: BOOLEAN]
  /\ Len(stream.queue) <= QueueSize
  /\ browser \in [lastId: 0 .. last, timer: BOOLEAN, answers: SUBSET BOOLEAN, view: BOOLEAN]

\* An open connection has told the browser of all it has sent.
WatchInv ==
  /\ WatchTypeOK
  /\ stream.pc # "closed" /\ ~stream.broken => stream.cursor = browser.lastId
  /\ SendingInv

LEMMA FunctionIsSeq ==
  ASSUME NEW S, NEW n \in Nat, NEW f \in [1 .. n -> S]
  PROVE  f \in Seq(S) /\ Len(f) = n
<1>1. f \in Seq(S) BY SeqDef
<1>2. Len(f) \in Nat /\ 1 .. Len(f) = 1 .. n BY <1>1, LenProperties
<1>3. Len(f) = n BY <1>2
<1> QED BY <1>1, <1>3

LEMMA NumbersGrow ==
  ASSUME NEW m \in Nat, NEW n \in Nat, m <= n
  PROVE  0 .. m \subseteq 0 .. n /\ \A s \in Seq(0 .. m) : s \in Seq(0 .. n)
<1>1. 0 .. m \subseteq 0 .. n OBVIOUS
<1> QED BY <1>1, SeqDef

\* A queue keeps its bound: one that is full loses its oldest event.
LEMMA QueuedDoes ==
  ASSUME NEW S, NEW q \in Seq(S), NEW e \in S, Len(q) <= QueueSize
  PROVE  Queued(q, e) \in Seq(S) /\ Len(Queued(q, e)) <= QueueSize
<1>0. QueueSize \in Nat /\ QueueSize >= 1 BY DashboardBounds DEF DashboardBounds
<1>1. Len(q) \in Nat BY LenProperties
<1>2. CASE Len(q) = QueueSize
  <2>1. q # <<>> BY <1>0, <1>2, EmptySeq
  <2>2. Tail(q) \in Seq(S) /\ Len(Tail(q)) = Len(q) - 1 BY <2>1, HeadTailProperties
  <2>3. Append(Tail(q), e) \in Seq(S) /\ Len(Append(Tail(q), e)) = Len(Tail(q)) + 1
    BY <2>2, AppendProperties
  <2>4. Queued(q, e) = Append(Tail(q), e) BY <1>2 DEF Queued
  <2> QED BY <1>0, <1>2, <2>2, <2>3, <2>4
<1>3. CASE Len(q) # QueueSize
  <2>1. Append(q, e) \in Seq(S) /\ Len(Append(q, e)) = Len(q) + 1 BY AppendProperties
  <2>2. Queued(q, e) = Append(q, e) BY <1>3 DEF Queued
  <2> QED BY <1>0, <1>1, <1>3, <2>1, <2>2
<1> QED BY <1>2, <1>3

\* What is read from the journal is orderly, and it is empty only where nothing
\* is kept.
LEMMA EventsAfterDoes ==
  ASSUME last \in Nat, NEW cursor \in 0 .. last, NEW through \in 0 .. last
  PROVE  /\ EventsAfter(cursor, through) \in Seq(0 .. last)
         /\ Orderly(EventsAfter(cursor, through), cursor)
         /\ through \notin Kept /\ cursor < through =>
              EventsAfter(cursor, through) = <<>> /\ NoneBetween(cursor, through)
<1> DEFINE from == IF cursor + MaxEvents < last THEN last - MaxEvents ELSE cursor
           batch == EventsAfter(cursor, through)
           n == IF from < through THEN through - from ELSE 0
<1>0. MaxEvents \in Nat BY DashboardBounds DEF DashboardBounds
<1>1. /\ from \in Nat /\ cursor <= from /\ n \in Nat /\ 1 .. n = 1 .. through - from
      /\ \A k \in 1 .. n : from + k \in 0 .. last
  BY <1>0
<1>2. batch = [k \in 1 .. through - from |-> from + k] BY DEF EventsAfter
<1>3. \A s \in Kept : s \in Nat /\ s > last - MaxEvents BY DEF Kept
<1>4. NoneBetween(cursor, from + 1)
  BY <1>0, <1>3 DEF NoneBetween
<1>5. through \notin Kept /\ cursor < through => n = 0
  BY <1>0 DEF Kept
<1>6. n = 0 => through <= from BY <1>1
<1>7. from \in Nat /\ cursor <= from BY <1>1
<1> HIDE DEF n, from
<1>8. batch \in Seq(0 .. last) /\ Len(batch) = n /\ \A k \in 1 .. n : batch[k] = from + k
  <2>1. batch = [k \in 1 .. n |-> from + k] BY <1>1, <1>2
  <2>2. batch \in [1 .. n -> 0 .. last] BY <1>1, <2>1
  <2>3. \A k \in 1 .. n : batch[k] = from + k BY <2>1
  <2> HIDE DEF batch
  <2> QED BY <1>1, <2>2, <2>3, FunctionIsSeq
<1> HIDE DEF batch
<1>9. Orderly(batch, cursor)
  <2> SUFFICES ASSUME NEW k \in 1 .. n
               PROVE  /\ Before(batch, cursor, k) < batch[k]
                      /\ NoneBetween(Before(batch, cursor, k), batch[k])
    BY <1>8 DEF Orderly
  <2>1. CASE k = 1 BY <1>4, <1>7, <1>8, <2>1 DEF Before
  <2>2. CASE k # 1
    <3>1. k - 1 \in 1 .. n BY <1>1, <2>2
    <3>2. Before(batch, cursor, k) = from + (k - 1) /\ batch[k] = from + k
      BY <1>8, <2>2, <3>1 DEF Before
    <3> QED BY <1>3, <1>7, <3>2 DEF NoneBetween
  <2> QED BY <2>1, <2>2
<1>10. ASSUME through \notin Kept, cursor < through
       PROVE  batch = <<>> /\ NoneBetween(cursor, through)
  <2>1. batch = <<>> BY <1>5, <1>8, <1>10, EmptySeq
  <2>2. through <= from BY <1>5, <1>6, <1>10
  <2> QED BY <1>3, <1>4, <1>7, <2>1, <2>2 DEF NoneBetween
<1> QED BY <1>8, <1>9, <1>10 DEF batch

LEMMA DeliveryBatchDoes ==
  ASSUME WatchTypeOK, NEW e \in 0 .. last
  PROVE  /\ DeliveryBatch(e) \in Seq(0 .. last)
         /\ DeliveryBatch(e) = <<Hint>> \/ Orderly(DeliveryBatch(e), stream.cursor)
<1> DEFINE batch == EventsAfter(stream.cursor, e)
<1>0. last \in Nat /\ stream.cursor \in 0 .. last BY DEF WatchTypeOK
<1>1. CASE e = Hint
  BY <1>1 DEF DeliveryBatch
<1>2. CASE e # Hint /\ e <= stream.cursor
  <2>1. DeliveryBatch(e) = <<>> BY <1>2 DEF DeliveryBatch
  <2> QED BY <2>1 DEF Orderly
<1>3. CASE e # Hint /\ ~(e <= stream.cursor)
  <2>0. stream.cursor < e BY <1>0, <1>3
  <2>1. /\ batch \in Seq(0 .. last) /\ Orderly(batch, stream.cursor)
        /\ e \notin Kept => batch = <<>> /\ NoneBetween(stream.cursor, e)
    BY <1>0, <2>0, EventsAfterDoes
  <2>2. DeliveryBatch(e) = batch \o (IF e \in Kept THEN <<>> ELSE <<e>>)
    BY <1>3 DEF DeliveryBatch
  <2> HIDE DEF batch
  <2>3. CASE e \in Kept
    <3>1. DeliveryBatch(e) = batch BY <2>1, <2>2, <2>3, ConcatEmptySeq
    <3> QED BY <2>1, <3>1
  <2>4. CASE e \notin Kept
    <3>1. <<e>> \in Seq(0 .. last) /\ Len(<<e>>) = 1 /\ <<e>>[1] = e OBVIOUS
    <3>2. DeliveryBatch(e) = <<e>> BY <2>1, <2>2, <2>4, <3>1, ConcatEmptySeq
    <3>3. Orderly(<<e>>, stream.cursor)
      BY <2>0, <2>1, <2>4, <3>1 DEF Orderly, Before
    <3> QED BY <3>1, <3>2, <3>3
  <2> QED BY <2>3, <2>4
<1> QED BY <1>1, <1>2, <1>3

\* The share, the links and the hints only add to the queue, and to the journal
\* where they publish.
LEMMA FanOutKeeps ==
  ASSUME WatchTypeOK, NEW e \in Nat, FanOut(e), last' \in {last, last + 1}, e <= last'
  PROVE  /\ last' \in Nat
         /\ stream' \in [pc: StreamPCs, cursor: 0 .. last', sending: Seq(0 .. last'),
                         queue: Seq(0 .. last'), broken: BOOLEAN]
         /\ Len(stream'.queue) <= QueueSize
         /\ stream'.pc = stream.pc /\ stream'.cursor = stream.cursor
         /\ stream'.sending = stream.sending /\ stream'.broken = stream.broken
<1>1. last \in Nat /\ last' \in Nat /\ last <= last' BY DEF WatchTypeOK
<1>2. /\ 0 .. last \subseteq 0 .. last'
      /\ \A s \in Seq(0 .. last) : s \in Seq(0 .. last')
  BY <1>1, NumbersGrow
<1>3. /\ stream = [pc |-> stream.pc, cursor |-> stream.cursor, sending |-> stream.sending,
                  queue |-> stream.queue, broken |-> stream.broken]
      /\ stream.pc \in StreamPCs /\ stream.cursor \in 0 .. last'
      /\ stream.sending \in Seq(0 .. last') /\ stream.queue \in Seq(0 .. last')
      /\ stream.broken \in BOOLEAN /\ Len(stream.queue) <= QueueSize
  BY <1>2 DEF WatchTypeOK
<1>4. e \in 0 .. last' BY <1>1
<1>5. PICK q : /\ stream' = [stream EXCEPT !.queue = q]
               /\ q \in {stream.queue, Queued(stream.queue, e)}
  BY DEF FanOut
<1>6. q \in Seq(0 .. last') /\ Len(q) <= QueueSize
  BY <1>3, <1>4, <1>5, QueuedDoes
<1> QED BY <1>1, <1>3, <1>5, <1>6

LEMMA KeptStaysKept ==
  ASSUME last \in Nat, last' \in {last, last + 1},
         NEW from \in 0 .. last, NEW to \in 0 .. last, NoneBetween(from, to)
  PROVE  \A s \in Kept' : ~(from < s /\ s < to)
<1>1. MaxEvents \in Nat BY DashboardBounds DEF DashboardBounds
<1>2. SUFFICES ASSUME NEW s \in Kept' PROVE ~(from < s /\ s < to)
  OBVIOUS
<1>3. last' \in Nat /\ last <= last' OBVIOUS
<1>4. s \in Nat /\ s > last - MaxEvents /\ s >= 1
  <2>1. s \in 1 .. last' /\ s > last' - MaxEvents BY DEF Kept
  <2>2. s \in Nat /\ s >= 1 BY <1>3, <2>1
  <2>3. \A a, b \in Nat : a <= b /\ s > b - MaxEvents => s > a - MaxEvents BY <1>1, <2>2
  <2>4. s > last - MaxEvents BY <1>3, <2>1, <2>3
  <2> QED BY <2>2, <2>4
<1>5. s <= last => s \in Kept BY <1>4 DEF Kept
<1> QED BY <1>4, <1>5 DEF NoneBetween

LEMMA SendingStays ==
  ASSUME WatchTypeOK, SendingInv, last' \in {last, last + 1},
         UNCHANGED <<stream.sending, stream.cursor>>
  PROVE  SendingInv'
<1> DEFINE batch == stream.sending
           cursor == stream.cursor
<1>0. /\ last \in Nat /\ batch \in Seq(0 .. last) /\ cursor \in 0 .. last
      /\ stream'.sending = batch /\ stream'.cursor = cursor
  BY DEF WatchTypeOK
<1>1. CASE batch = <<Hint>> BY <1>0, <1>1 DEF SendingInv
<1>2. CASE Orderly(batch, cursor)
  <2>1. ASSUME NEW k \in 1 .. Len(batch)
        PROVE  /\ Before(batch, cursor, k) < batch[k]
               /\ \A s \in Kept' : ~(Before(batch, cursor, k) < s /\ s < batch[k])
    <3>1. batch[k] \in 0 .. last /\ Before(batch, cursor, k) \in 0 .. last
      BY <1>0 DEF Before
    <3> QED BY <1>0, <1>2, <3>1, KeptStaysKept DEF Orderly
  <2> HIDE DEF batch, cursor
  <2> QED BY <1>0, <2>1 DEF SendingInv, Orderly, NoneBetween, Before
<1> QED BY <1>1, <1>2 DEF SendingInv

\* What a changed snapshot does to the page.
LEMMA OutdatedKeeps ==
  ASSUME WatchTypeOK, Outdated, last' \in {last, last + 1}
  PROVE  /\ browser' \in [lastId: 0 .. last', timer: BOOLEAN, answers: SUBSET BOOLEAN,
                          view: BOOLEAN]
         /\ browser'.lastId = browser.lastId
<1>1. last \in Nat /\ last' \in Nat /\ 0 .. last \subseteq 0 .. last'
  BY DEF WatchTypeOK
<1>2. PICK as \in SUBSET BOOLEAN :
        browser' \in {browser, [browser EXCEPT !.view = FALSE, !.answers = as]}
  BY DEF Outdated, WatchTypeOK
<1> QED BY <1>1, <1>2 DEF WatchTypeOK

LEMMA OthersSignal ==
  ASSUME Share \/ Link
  PROVE  Publish \/ Silent \/ UNCHANGED watching
<1>1. CASE Share
  BY <1>1 DEF Share, StartShare, CandidateOpens, CandidateFails, GivesUp, PreviousEnds,
     Announce, IsHealthy, IsUnhealthy, BeginClose, CancelMonitor, CandidateEnds, ShareCloses,
     TunnelDies
<1>2. CASE Link
  BY <1>2 DEF Link, Register, ServerStops, CloseLinks, LinksClosed, ListRows, Removed, LinkReady,
     LinkFails, LinkStops, LinkEnds
<1> QED BY <1>1, <1>2

LEMMA SignalKeeps ==
  ASSUME WatchInv, Publish \/ Silent
  PROVE  WatchInv' /\ browser'.lastId = browser.lastId
<1> USE DEF WatchInv
<1>1. last' \in {last, last + 1} /\ Outdated BY DEF Publish, Silent
<1>2. /\ browser' \in [lastId: 0 .. last', timer: BOOLEAN, answers: SUBSET BOOLEAN,
                       view: BOOLEAN]
      /\ browser'.lastId = browser.lastId
  BY <1>1, OutdatedKeeps
<1>3. /\ last' \in Nat
      /\ stream' \in [pc: StreamPCs, cursor: 0 .. last', sending: Seq(0 .. last'),
                      queue: Seq(0 .. last'), broken: BOOLEAN]
      /\ Len(stream'.queue) <= QueueSize
      /\ stream'.pc = stream.pc /\ stream'.cursor = stream.cursor
      /\ stream'.sending = stream.sending /\ stream'.broken = stream.broken
  <2>1. CASE Publish
    <3>1. last' = last + 1 /\ FanOut(last + 1) /\ last + 1 \in Nat BY <2>1 DEF Publish, WatchTypeOK
    <3> QED BY <3>1, FanOutKeeps
  <2>2. CASE Silent BY <2>2 DEF Silent, WatchTypeOK
  <2> QED BY <2>1, <2>2
<1>4. SendingInv' BY <1>1, <1>3, SendingStays
<1> QED BY <1>2, <1>3, <1>4 DEF WatchTypeOK

\* A message is the first of the batch; the cursor follows it.
LEMMA SendDoes ==
  ASSUME WatchInv, Send
  PROVE  /\ WatchInv' /\ last' = last
         /\ browser'.lastId # browser.lastId =>
              browser.lastId < browser'.lastId /\ NoneBetween(browser.lastId, browser'.lastId)
<1> USE DEF WatchInv
<1> DEFINE e == Head(stream.sending)
           c == IF e = Hint THEN stream.cursor ELSE e
<1>0. /\ stream.pc = "live" /\ stream.sending # <<>> /\ last' = last
      /\ stream' = [stream EXCEPT !.sending = Tail(stream.sending), !.cursor = c]
      /\ browser' \in {browser, [browser EXCEPT !.timer = TRUE,
                                  !.lastId = IF e = Hint THEN browser.lastId ELSE e]}
      /\ ~stream.broken => browser' = [browser EXCEPT !.timer = TRUE,
                                  !.lastId = IF e = Hint THEN browser.lastId ELSE e]
      /\ stream.broken => browser' = browser
  BY DEF Send
<1>1. /\ last \in Nat /\ stream.sending \in Seq(0 .. last) /\ stream.cursor \in 0 .. last
      /\ browser.lastId \in 0 .. last
  BY DEF WatchTypeOK
<1>2. /\ e \in 0 .. last /\ e = stream.sending[1] /\ Len(stream.sending) \in Nat
      /\ Len(stream.sending) >= 1 /\ Tail(stream.sending) \in Seq(0 .. last)
      /\ Len(Tail(stream.sending)) = Len(stream.sending) - 1
      /\ \A k \in 1 .. Len(stream.sending) - 1 :
           Tail(stream.sending)[k] = stream.sending[k + 1]
  <2>1. /\ Head(stream.sending) \in 0 .. last /\ Tail(stream.sending) \in Seq(0 .. last)
        /\ Len(Tail(stream.sending)) = Len(stream.sending) - 1
        /\ \A k \in 1 .. Len(Tail(stream.sending)) :
             Tail(stream.sending)[k] = stream.sending[k + 1]
    BY <1>0, <1>1, HeadTailProperties
  <2>2. Head(stream.sending) = stream.sending[1] BY <1>0, <1>1
  <2>3. Len(stream.sending) \in Nat /\ Len(stream.sending) # 0
    BY <1>0, <1>1, LenProperties, EmptySeq
  <2> QED BY <2>1, <2>2, <2>3
<1> HIDE DEF e
<1>3. c \in 0 .. last BY <1>1, <1>2
<1>4. WatchTypeOK' BY <1>0, <1>2, <1>3 DEF WatchTypeOK
<1>5. /\ stream'.sending = Tail(stream.sending) /\ stream'.cursor = c
      /\ stream'.pc = stream.pc /\ stream'.broken = stream.broken
  BY <1>0 DEF WatchTypeOK
<1>6. browser'.lastId = IF stream.broken \/ e = Hint THEN browser.lastId ELSE e
  BY <1>0 DEF WatchTypeOK
<1>7. stream'.pc # "closed" /\ ~stream'.broken => stream'.cursor = browser'.lastId
  BY <1>0, <1>5, <1>6
<1>8. CASE stream.sending = <<Hint>>
  <2>1. e = Hint /\ Tail(stream.sending) = <<>> /\ Len(Tail(stream.sending)) = 0
    BY <1>2, <1>8, EmptySeq
  <2>2. Orderly(Tail(stream.sending), c) BY <2>1 DEF Orderly
  <2>3. SendingInv' BY <1>5, <2>1 DEF SendingInv, Orderly
  <2> QED BY <1>0, <1>4, <1>6, <1>7, <2>1, <2>3
<1>9. CASE stream.sending # <<Hint>>
  <2>1. Orderly(stream.sending, stream.cursor) BY <1>9 DEF SendingInv
  <2>2. stream.cursor < e /\ NoneBetween(stream.cursor, e)
    BY <1>2, <2>1 DEF Orderly, Before
  <2>3. e # Hint /\ c = e BY <1>1, <1>2, <2>2 DEF Hint
  <2>4. ASSUME NEW k \in 1 .. Len(stream'.sending)
        PROVE  /\ Before(stream'.sending, stream'.cursor, k) < stream'.sending[k]
               /\ NoneBetween(Before(stream'.sending, stream'.cursor, k), stream'.sending[k])
    <3>1. k + 1 \in 1 .. Len(stream.sending) /\ k \in 1 .. Len(stream.sending) - 1
      BY <1>2, <1>5
    <3>2. stream'.sending[k] = stream.sending[k + 1] BY <1>2, <1>5, <3>1
    <3>3. Before(stream'.sending, stream'.cursor, k) = stream.sending[k]
      <4>1. CASE k = 1 BY <1>2, <1>5, <2>3, <4>1 DEF Before
      <4>2. CASE k # 1
        <5>1. k - 1 \in 1 .. Len(stream.sending) - 1 /\ k - 1 + 1 = k BY <1>2, <3>1, <4>2
        <5> QED BY <1>2, <1>5, <4>2, <5>1 DEF Before
      <4> QED BY <4>1, <4>2
    <3>4. Before(stream.sending, stream.cursor, k + 1) = stream.sending[k]
      BY <3>1 DEF Before
    <3> QED BY <2>1, <3>1, <3>2, <3>3, <3>4 DEF Orderly
  <2>5. Kept' = Kept BY <1>0 DEF Kept
  <2>6. SendingInv' BY <2>4, <2>5 DEF SendingInv, Orderly, NoneBetween, Before
  <2>7. browser'.lastId # browser.lastId => browser.lastId = stream.cursor /\ browser'.lastId = e
    BY <1>0, <1>6
  <2> QED BY <1>0, <1>4, <1>7, <2>2, <2>6, <2>7
<1> QED BY <1>8, <1>9

\* The stream reads and queues, and the page waits: nothing is told.
LEMMA WatchKeeps ==
  ASSUME WatchInv, Watch, ~Send
  PROVE  WatchInv' /\ browser'.lastId = browser.lastId
<1> USE DEF WatchInv
<1>0. /\ last \in Nat /\ stream.cursor \in 0 .. last /\ stream.sending \in Seq(0 .. last)
      /\ stream.queue \in Seq(0 .. last) /\ stream.pc \in StreamPCs /\ stream.broken \in BOOLEAN
      /\ browser.lastId \in 0 .. last
      /\ browser \in [lastId: 0 .. last, timer: BOOLEAN, answers: SUBSET BOOLEAN, view: BOOLEAN]
      /\ stream \in [pc: StreamPCs, cursor: 0 .. last, sending: Seq(0 .. last),
                     queue: Seq(0 .. last), broken: BOOLEAN]
  BY DEF WatchTypeOK
<1>1. ASSUME last' = last, stream'.sending = <<>> \/ stream'.sending = <<Hint>>
                           \/ Orderly(stream'.sending, stream'.cursor)
      PROVE  SendingInv'
  <2>1. Kept' = Kept BY <1>1 DEF Kept
  <2>2. CASE stream'.sending = <<>> BY <2>2 DEF SendingInv, Orderly
  <2>3. CASE stream'.sending = <<Hint>> BY <2>3 DEF SendingInv
  <2>4. CASE Orderly(stream'.sending, stream'.cursor)
    BY <2>1, <2>4 DEF SendingInv, Orderly, NoneBetween, Before
  <2> QED BY <1>1, <2>2, <2>3, <2>4
<1>2. ASSUME last' = last, stream' = stream, browser'.lastId = browser.lastId,
             browser' \in [lastId: 0 .. last, timer: BOOLEAN, answers: SUBSET BOOLEAN,
                           view: BOOLEAN]
      PROVE  WatchInv'
  <2>1. SendingInv' BY <1>1, <1>2 DEF SendingInv
  <2> QED BY <1>2, <2>1 DEF WatchTypeOK
<1>3. CASE Connect
  <2> DEFINE p == IF browser.lastId > 0 THEN "replay" ELSE "live"
             c == IF browser.lastId < last THEN browser.lastId ELSE last
  <2>1. /\ stream' = [Closed EXCEPT !.pc = p, !.cursor = c] /\ last' = last /\ browser' = browser
    BY <1>3 DEF Connect
  <2>2. c \in 0 .. last /\ c = browser.lastId BY <1>0
  <2>3. p \in StreamPCs BY DEF StreamPCs
  <2> HIDE DEF p, c
  <2>4. stream' = [pc |-> p, cursor |-> c, sending |-> <<>>, queue |-> <<>>, broken |-> FALSE]
    BY <2>1 DEF Closed
  <2>5. /\ <<>> \in Seq(0 .. last) /\ Len(<<>>) <= QueueSize
    BY DashboardBounds DEF DashboardBounds
  <2>6. /\ stream'.sending = <<>> /\ stream'.queue = <<>> /\ stream'.cursor = c
        /\ stream' \in [pc: StreamPCs, cursor: 0 .. last, sending: Seq(0 .. last),
                        queue: Seq(0 .. last), broken: BOOLEAN]
    BY <2>2, <2>3, <2>4, <2>5
  <2>7. SendingInv' BY <1>1, <2>1, <2>6
  <2>8. WatchTypeOK' BY <1>0, <2>1, <2>5, <2>6 DEF WatchTypeOK
  <2> QED BY <2>1, <2>2, <2>6, <2>7, <2>8
<1>4. CASE Replay
  <2> DEFINE batch == EventsAfter(stream.cursor, last)
  <2>1. /\ stream.pc = "replay" /\ stream' = [stream EXCEPT !.pc = "live", !.sending = batch]
        /\ last' = last /\ browser' = browser
    BY <1>4 DEF Replay
  <2>2. batch \in Seq(0 .. last) /\ Orderly(batch, stream.cursor)
    BY <1>0, EventsAfterDoes
  <2> HIDE DEF batch
  <2>3. /\ stream'.sending = batch /\ stream'.cursor = stream.cursor
        /\ stream'.broken = stream.broken /\ stream.pc # "closed"
    BY <1>0, <2>1
  <2>4. SendingInv' BY <1>1, <2>1, <2>2, <2>3
  <2>5. WatchTypeOK' BY <1>0, <2>1, <2>2 DEF WatchTypeOK, StreamPCs
  <2> QED BY <2>1, <2>3, <2>4, <2>5
<1>5. CASE Take
  <2> DEFINE batch == DeliveryBatch(Head(stream.queue))
  <2>1. /\ stream.queue # <<>> /\ last' = last /\ browser' = browser
        /\ stream' = [stream EXCEPT !.queue = Tail(stream.queue), !.sending = batch]
    BY <1>5 DEF Take
  <2>2. /\ Head(stream.queue) \in 0 .. last /\ Tail(stream.queue) \in Seq(0 .. last)
        /\ Len(Tail(stream.queue)) = Len(stream.queue) - 1
    BY <1>0, <2>1, HeadTailProperties
  <2>3. batch \in Seq(0 .. last) /\ (batch = <<Hint>> \/ Orderly(batch, stream.cursor))
    BY <2>2, DeliveryBatchDoes
  <2> HIDE DEF batch
  <2>4. /\ stream'.sending = batch /\ stream'.cursor = stream.cursor
        /\ stream'.broken = stream.broken /\ stream'.pc = stream.pc
    BY <1>0, <2>1
  <2>5. SendingInv' BY <1>1, <2>1, <2>3, <2>4
  <2>6. Len(stream'.queue) <= QueueSize
    <3>1. Len(stream.queue) \in Nat /\ QueueSize \in Nat /\ Len(stream.queue) <= QueueSize
      BY <1>0, DashboardBounds, LenProperties DEF WatchTypeOK, DashboardBounds
    <3> QED BY <1>0, <2>1, <2>2, <3>1
  <2>7. WatchTypeOK' BY <1>0, <2>1, <2>2, <2>3, <2>6 DEF WatchTypeOK
  <2> QED BY <2>1, <2>4, <2>5, <2>7
<1>6. CASE Breaks
  <2>1. /\ stream' = [stream EXCEPT !.broken = TRUE] /\ last' = last /\ browser' = browser
    BY <1>6 DEF Breaks
  <2>2. /\ stream'.sending = stream.sending /\ stream'.cursor = stream.cursor
        /\ stream'.broken = TRUE /\ stream'.queue = stream.queue
    BY <1>0, <2>1
  <2>3. SendingInv' BY <2>1, <2>2, SendingStays
  <2>4. WatchTypeOK' BY <1>0, <2>1, <2>2 DEF WatchTypeOK
  <2> QED BY <2>1, <2>2, <2>3, <2>4
<1>7. CASE Disconnected
  <2>1. stream' = Closed /\ last' = last /\ browser' = browser BY <1>7 DEF Disconnected
  <2>2. /\ <<>> \in Seq(0 .. last) /\ Len(<<>>) <= QueueSize
    BY DashboardBounds DEF DashboardBounds
  <2>3. SendingInv' BY <1>1, <2>1 DEF Closed
  <2>4. WatchTypeOK' BY <1>0, <2>1, <2>2 DEF WatchTypeOK, Closed, StreamPCs
  <2> QED BY <2>1, <2>3, <2>4 DEF Closed
<1>8. CASE HintSent
  <2>1. FanOut(Hint) /\ last' = last /\ browser' = browser BY <1>8 DEF HintSent
  <2>2. Hint \in Nat /\ Hint <= last' BY <1>0, <2>1 DEF Hint
  <2>3. /\ last' \in Nat
        /\ stream' \in [pc: StreamPCs, cursor: 0 .. last', sending: Seq(0 .. last'),
                        queue: Seq(0 .. last'), broken: BOOLEAN]
        /\ Len(stream'.queue) <= QueueSize
        /\ stream'.pc = stream.pc /\ stream'.cursor = stream.cursor
        /\ stream'.sending = stream.sending /\ stream'.broken = stream.broken
    BY <2>1, <2>2, FanOutKeeps
  <2>4. SendingInv' BY <2>1, <2>3, SendingStays
  <2> QED BY <1>0, <2>1, <2>3, <2>4 DEF WatchTypeOK
<1>9. CASE Poll
  <2>1. /\ stream' = stream /\ last' = last /\ browser' = [browser EXCEPT !.timer = TRUE]
    BY <1>9 DEF Poll
  <2> QED BY <1>0, <1>2, <2>1
<1>10. CASE Refresh
  <2>1. /\ stream' = stream /\ last' = last
        /\ \E as \in SUBSET BOOLEAN :
             browser' = [browser EXCEPT !.timer = FALSE, !.answers = as]
    BY <1>0, <1>10 DEF Refresh
  <2> QED BY <1>0, <1>2, <2>1
<1>11. CASE Answer
  <2>1. /\ stream' = stream /\ last' = last
        /\ \E as \in SUBSET BOOLEAN, current \in BOOLEAN :
             browser' = [browser EXCEPT !.answers = as, !.view = current]
    <3>1. PICK current \in browser.answers :
            browser' = [browser EXCEPT !.answers = browser.answers \ {current}, !.view = current]
      BY <1>11 DEF Answer
    <3>2. browser.answers \in SUBSET BOOLEAN /\ current \in BOOLEAN BY <1>0
    <3> QED BY <1>11, <3>1, <3>2 DEF Answer
  <2> QED BY <1>0, <1>2, <2>1
<1> QED
  BY <1>3, <1>4, <1>5, <1>6, <1>7, <1>8, <1>9, <1>10, <1>11 DEF Watch

\* A step keeps the invariant, and what it tells the browser follows what it was
\* told before.
LEMMA StepWatchInv ==
  ASSUME WatchInv, [Next]_vars
  PROVE  /\ WatchInv'
         /\ browser'.lastId # browser.lastId =>
              browser.lastId < browser'.lastId /\ NoneBetween(browser.lastId, browser'.lastId)
<1>1. ASSUME UNCHANGED watching
      PROVE  WatchInv' /\ browser'.lastId = browser.lastId
  <2>1. last' = last /\ stream' = stream /\ browser' = browser BY <1>1 DEF watching
  <2> QED BY <2>1 DEF WatchInv, WatchTypeOK, SendingInv, Orderly, NoneBetween, Kept
<1>2. CASE Share \/ Link BY <1>1, <1>2, OthersSignal, SignalKeeps
<1>3. CASE Watch BY <1>3, WatchKeeps, SendDoes
<1>4. CASE UNCHANGED vars
  <2>1. UNCHANGED watching BY <1>4 DEF vars
  <2> QED BY <1>1, <2>1
<1> QED BY <1>2, <1>3, <1>4 DEF Next

-----------------------------------------------------------------------------
(* The types, and what the browser is told.                                *)

DashboardInv == PartsInv /\ ShareInv /\ WatchInv

THEOREM DashboardInvariant == Spec => []DashboardInv
<1>1. Init => ShareInv /\ WatchInv
  <2> SUFFICES ASSUME Init PROVE ShareInv /\ WatchInv
    OBVIOUS
  <2>1. ShareInv
    <3>1. \A t \in Tunnels : tunnels[t] = "none" BY DEF Init
    <3> QED BY <3>1, AddressesAreTunnels DEF Init, ShareInv, InOrder, WaitsForTunnel
  <2>2. <<>> \in Seq(0 .. 0) /\ Len(<<>>) <= QueueSize
    BY DashboardBounds DEF DashboardBounds
  <2>3. WatchTypeOK BY <2>2 DEF Init, WatchTypeOK, Closed, StreamPCs
  <2> QED BY <2>1, <2>3 DEF Init, WatchInv, Closed, SendingInv, Orderly
<1>2. ShareInv /\ WatchInv /\ PartsInv /\ [Next]_vars => ShareInv' /\ WatchInv'
  BY StepShareInv, StepWatchInv
<1> QED BY <1>1, <1>2, PartsAreInvariant, PTL DEF Spec, DashboardInv

\* Every variable has its type, a tunnel is waited for exactly where the monitor
\* waits for one, the address that is shown was given by a tunnel, and no queue is
\* longer than its limit.
THEOREM TypeCorrect == Spec => []TypeOK
<1>1. DashboardInv => TypeOK
  <2> SUFFICES ASSUME DashboardInv PROVE TypeOK
    OBVIOUS
  <2>1. share \in [status: ShareStatus, url: 0 .. MaxTunnels, generation: 0 .. MaxTunnels]
    BY DEF DashboardInv, PartsInv, PartsTypeOK, ShareInv, Addresses
  <2>2. monitor \in [pc: Waits, tunnel: 0 .. MaxTunnels, other: 0 .. MaxTunnels,
                     failures: 0 .. FailureThreshold]
    BY DEF DashboardInv, PartsInv, PartsTypeOK, ShareInv, Addresses
  <2>3. jobs \in [0 .. Dashboards -> [pc: {"idle", "listing", "removing"}, list: SUBSET Ids,
                                      todo: SUBSET Ids, on: Ids \cup {0}]]
    BY DEF DashboardInv, PartsInv, PartsTypeOK, Jobs, JobPCs
  <2>4. /\ serve \in Serving /\ tunnels \in [Tunnels -> Process] /\ active \subseteq Ids
        /\ links \in [Ids -> LinkStatus] /\ overlap \in BOOLEAN
        /\ stray \in [jobs: SUBSET Ids, links: SUBSET Ids]
        /\ used \in [registered: Nat, incidents: Nat]
    BY DEF DashboardInv, PartsInv, PartsTypeOK
  <2>5. /\ last \in Nat
        /\ stream \in [pc: {"closed", "replay", "live"}, cursor: 0 .. last,
                       sending: Seq(0 .. last), queue: Seq(0 .. last), broken: BOOLEAN]
        /\ Len(stream.queue) <= QueueSize
        /\ browser \in [lastId: 0 .. last, timer: BOOLEAN, answers: SUBSET BOOLEAN,
                        view: BOOLEAN]
    BY DEF DashboardInv, WatchInv, WatchTypeOK, StreamPCs
  <2>6. /\ monitor.pc \in {"candidate", "giving up", "previous", "cancelled"}
             <=> monitor.other # 0
        /\ share.url # 0 => tunnels[share.url] \in {"open", "told", "gone"}
    BY DEF DashboardInv, ShareInv, WaitsForTunnel, Settled
  <2> QED BY <2>1, <2>2, <2>3, <2>4, <2>5, <2>6 DEF TypeOK
<1> QED BY <1>1, DashboardInvariant, PTL

\* The browser is told of the events in their order, of none twice, and of none
\* before all earlier ones that the journal still holds -- whatever limit the queue
\* and the journal have, and however often the connection breaks (_delivery_batch,
\* events_after, the Last-Event-ID of a new connection).
THEOREM NothingIsSkipped == Spec => NothingSkipped
<1>1. ASSUME DashboardInv, [Next]_vars
      PROVE  [LET from == browser.lastId  to == browser'.lastId IN
              to # from => from < to /\ ~ \E s \in Kept : from < s /\ s < to]_vars
  <2>1. browser'.lastId # browser.lastId =>
          browser.lastId < browser'.lastId /\ NoneBetween(browser.lastId, browser'.lastId)
    BY <1>1, StepWatchInv DEF DashboardInv
  <2> QED BY <2>1 DEF NoneBetween
<1> QED BY <1>1, DashboardInvariant, PTL DEF Spec, NothingSkipped

=============================================================================
