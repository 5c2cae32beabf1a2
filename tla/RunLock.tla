------------------------------- MODULE RunLock -------------------------------
(***************************************************************************)
(* The run lock and the cleanup fence of src/src/runwatch/cli.py.          *)
(*                                                                         *)
(* A process that wants a run directory links a record naming itself to    *)
(* <run>/runwatch.lock; a record whose owner is dead on this host is stale *)
(* and is unlinked first.  The owner of a finished run may publish a       *)
(* second record beside the directory (the cleanup fence), delete the      *)
(* directory, its own lock with it, and only then remove the fence.        *)
(*                                                                         *)
(* A process acquires at most once, so a record, its inode and its         *)
(* controller token are all named by the process that published it.  A pid *)
(* with its start time and boot id is one process for ever: a dead process *)
(* is never alive again.  Every filesystem call is a step of its own.      *)
(***************************************************************************)
EXTENDS FiniteSets

CONSTANTS Procs,      \* the processes that may ever use the run directory
          Hosts,      \* the machines that mount it
          HostOf,     \* the machine each process runs on
          Crashers,   \* the processes that may die without releasing
          NoProc      \* no record at a path

ASSUME ProcsOnHosts == HostOf \in [Procs -> Hosts]
ASSUME CrashersAreProcs == Crashers \subseteq Procs
ASSUME NoProcIsNone == NoProc \notin Procs

VARIABLES file,        \* the record linked at each path
          pc,          \* where each process is
          sub,         \* its step within _remove_stale_record_or_raise
          fd,          \* the record it opened there
          dir,         \* the run directory exists
          misdirected  \* history: an unlink removed a record nobody judged

vars == <<file, pc, sub, fd, dir, misdirected>>

Paths == {"lock", "fence"}

(* The four call sites of _remove_stale_record_or_raise: the fence before  *)
(* the lock is tried, the lock that is in the way, the fence again once    *)
(* the lock is held, and a fence in the way of begin_cleanup.              *)
Sites == {"prefence", "contend", "refence", "refencing"}

PathOf(site) == IF site = "contend" THEN "lock" ELSE "fence"

\* Where a call site goes on when the path is free or was freed, ...
ReturnTo(site) == [prefence |-> "publish", contend |-> "publish",
                   refence |-> "owner", refencing |-> "fencing"][site]

\* ... and where it goes when the record is owned: acquire raises as it is,
\* or after release() once the lock is held.
RaiseTo(site) == IF site \in {"prefence", "contend"} THEN "out" ELSE "unlock"

PCs == Sites \cup {"idle", "publish", "owner", "fencing", "rmtree", "rmdir",
                   "unfence", "unfencing", "unlock", "unlocking", "out", "dead"}

Alive(p) == pc[p] \notin {"idle", "out", "dead"}

\* The process has the right to the run's state: acquire has returned, and
\* neither is the lock being released nor the fence taken down.
Owns(p) == pc[p] \in {"owner", "fencing", "refencing",
                      "rmtree", "rmdir", "unfence", "unfencing"}

\* A descriptor is open exactly between the open and the end of the call.
TypeOK ==
  /\ file \in [Paths -> Procs \cup {NoProc}]
  /\ pc \in [Procs -> PCs]
  /\ sub \in [Procs -> {"open", "judge", "unlink"}]
  /\ fd \in [Procs -> Procs \cup {NoProc}]
  /\ \A p \in Procs : /\ fd[p] = NoProc <=> sub[p] = "open"
                      /\ sub[p] # "open" => pc[p] \in Sites
  /\ dir \in BOOLEAN
  /\ misdirected \in BOOLEAN

Init ==
  /\ file = [path \in Paths |-> NoProc]
  /\ pc = [p \in Procs |-> "idle"]
  /\ sub = [p \in Procs |-> "open"]
  /\ fd = [p \in Procs |-> NoProc]
  /\ dir \in BOOLEAN
  /\ misdirected = FALSE

-----------------------------------------------------------------------------
GotoKeepingDescriptor(p, place) ==   \* mutant: os.close is forgotten
  /\ pc' = [pc EXCEPT ![p] = place]
  /\ UNCHANGED <<sub, fd>>

Goto(p, place) ==
  /\ pc' = [pc EXCEPT ![p] = place]
  /\ sub' = [sub EXCEPT ![p] = "open"]
  /\ fd' = [fd EXCEPT ![p] = NoProc]

\* Unlink whatever is at the path now.  The caller meant the record `meant`.
Unlink(path, meant) ==
  /\ file' = [file EXCEPT ![path] = NoProc]
  /\ misdirected' = (misdirected \/ file[path] \notin {NoProc, meant})

Start(p) ==
  /\ pc[p] = "idle"
  /\ Goto(p, "prefence")
  /\ UNCHANGED <<file, dir, misdirected>>

\* os.open of the record: nothing there, or an open descriptor on it.
\* Between the first fence check and the first link attempt acquire makes
\* the run directory.
ReclaimOpen(p) ==
  /\ pc[p] \in Sites /\ sub[p] = "open"
  /\ LET seen == file[PathOf(pc[p])]
     IN IF seen = NoProc
        THEN /\ Goto(p, ReturnTo(pc[p]))
             /\ dir' = (dir \/ pc[p] = "prefence")
        ELSE /\ sub' = [sub EXCEPT ![p] = "judge"]
             /\ fd' = [fd EXCEPT ![p] = seen]
             /\ UNCHANGED <<pc, dir>>
  /\ UNCHANGED <<file, misdirected>>

ReclaimJudgeWaits(p) ==   \* mutant: an owned record is retried, not reported
  /\ pc[p] \in Sites /\ sub[p] = "judge"
  /\ IF HostOf[fd[p]] # HostOf[p] \/ Alive(fd[p])
     THEN Goto(p, pc[p]) /\ UNCHANGED dir
     ELSE IF file[PathOf(pc[p])] = fd[p]
          THEN sub' = [sub EXCEPT ![p] = "unlink"] /\ UNCHANGED <<pc, fd, dir>>
          ELSE Goto(p, ReturnTo(pc[p])) /\ dir' = (dir \/ pc[p] = "prefence")
  /\ UNCHANGED <<file, misdirected>>

ReclaimJudgeAnyHost(p) ==   \* mutant: the pid is looked up, whatever the host
  /\ pc[p] \in Sites /\ sub[p] = "judge"
  /\ IF Alive(fd[p])
     THEN Goto(p, RaiseTo(pc[p])) /\ UNCHANGED dir
     ELSE IF file[PathOf(pc[p])] = fd[p]
          THEN sub' = [sub EXCEPT ![p] = "unlink"] /\ UNCHANGED <<pc, fd, dir>>
          ELSE Goto(p, ReturnTo(pc[p])) /\ dir' = (dir \/ pc[p] = "prefence")
  /\ UNCHANGED <<file, misdirected>>

\* A record of another host, or of a live process, is owned.  A stale one is
\* unlinked if the path still leads to it.  (The process that was dead when
\* it was judged is dead when the path is compared, so the two are one step.)
ReclaimJudge(p) ==
  /\ pc[p] \in Sites /\ sub[p] = "judge"
  /\ IF HostOf[fd[p]] # HostOf[p] \/ Alive(fd[p])
     THEN Goto(p, RaiseTo(pc[p])) /\ UNCHANGED dir
     ELSE IF file[PathOf(pc[p])] = fd[p]
          THEN sub' = [sub EXCEPT ![p] = "unlink"] /\ UNCHANGED <<pc, fd, dir>>
          ELSE Goto(p, ReturnTo(pc[p])) /\ dir' = (dir \/ pc[p] = "prefence")
  /\ UNCHANGED <<file, misdirected>>

ReclaimUnlink(p) ==
  /\ pc[p] \in Sites /\ sub[p] = "unlink"
  /\ Unlink(PathOf(pc[p]), fd[p])
  /\ dir' = (dir \/ pc[p] = "prefence")
  /\ Goto(p, ReturnTo(pc[p]))

\* os.link of the lock record: the directory may have been removed since,
\* and another record may be in the way.
Publish(p) ==
  /\ pc[p] = "publish"
  /\ IF ~dir THEN Goto(p, "out") /\ UNCHANGED file
     ELSE IF file["lock"] = NoProc
          THEN Goto(p, "refence") /\ file' = [file EXCEPT !["lock"] = p]
          ELSE Goto(p, "contend") /\ UNCHANGED file
  /\ UNCHANGED <<dir, misdirected>>

-----------------------------------------------------------------------------
\* The owner has finished with the run and releases the lock, ...
Leave(p) ==
  /\ pc[p] = "owner"
  /\ Goto(p, "unlock")
  /\ UNCHANGED <<file, dir, misdirected>>

\* ... or the run may be cleaned up, and it begins the cleanup.
Clean(p) ==
  /\ pc[p] = "owner"
  /\ Goto(p, "fencing")
  /\ UNCHANGED <<file, dir, misdirected>>

BeginCleanup(p) ==
  /\ pc[p] = "fencing"
  /\ IF file["fence"] = NoProc
     THEN Goto(p, "rmtree") /\ file' = [file EXCEPT !["fence"] = p]
     ELSE Goto(p, "refencing") /\ UNCHANGED file
  /\ UNCHANGED <<dir, misdirected>>

\* shutil.rmtree deletes the entries, the lock among them, ...
RemoveEntries(p) ==
  /\ pc[p] = "rmtree"
  /\ Unlink("lock", p)
  /\ Goto(p, "rmdir")
  /\ UNCHANGED dir

\* ... then the directory, which fails if a contender has linked its lock
\* there in the meantime.
RemoveDirectory(p) ==
  /\ pc[p] = "rmdir"
  /\ dir' = (dir /\ file["lock"] # NoProc)
  /\ Goto(p, "unfence")
  /\ UNCHANGED <<file, misdirected>>

\* finish_cleanup, then release: the path must lead to the descriptor's
\* record and the record must hold this controller's token.
FinishCleanup(p) ==
  /\ pc[p] = "unfence"
  /\ Goto(p, IF file["fence"] = p THEN "unfencing" ELSE "unlock")
  /\ UNCHANGED <<file, dir, misdirected>>

UnlinkFence(p) ==
  /\ pc[p] = "unfencing"
  /\ Unlink("fence", p)
  /\ Goto(p, "unlock")
  /\ UNCHANGED dir

Release(p) ==
  /\ pc[p] = "unlock"
  /\ Goto(p, IF file["lock"] = p THEN "unlocking" ELSE "out")
  /\ UNCHANGED <<file, dir, misdirected>>

UnlinkLock(p) ==
  /\ pc[p] = "unlocking"
  /\ Unlink("lock", p)
  /\ Goto(p, "out")
  /\ UNCHANGED dir

\* The process is killed, or its machine restarts.
Crash(p) ==
  /\ p \in Crashers /\ Alive(p)
  /\ Goto(p, "dead")
  /\ UNCHANGED <<file, dir, misdirected>>

-----------------------------------------------------------------------------
AcquireStep(p) ==
  \/ ReclaimOpen(p) \/ ReclaimJudge(p) \/ ReclaimUnlink(p) \/ Publish(p)

CleanupStep(p) ==
  \/ BeginCleanup(p) \/ RemoveEntries(p) \/ RemoveDirectory(p)
  \/ FinishCleanup(p) \/ UnlinkFence(p) \/ Release(p) \/ UnlinkLock(p)

Next ==
  \E p \in Procs : \/ Start(p) \/ AcquireStep(p)
                   \/ Leave(p) \/ Clean(p) \/ CleanupStep(p)
                   \/ Crash(p)

\* A live process keeps making filesystem calls.  Nothing says that a run
\* ends, that a process starts, or that it crashes.
Fairness == \A p \in Procs : WF_vars(AcquireStep(p)) /\ WF_vars(CleanupStep(p))

Spec == Init /\ [][Next]_vars
FairSpec == Spec /\ Fairness

-----------------------------------------------------------------------------
\* docs/architecture.md: "Only one supervisor owns a run lock."  The process
\* that deletes the directory owns it until its fence is down.
MutualExclusion == \A p, q \in Procs : Owns(p) /\ Owns(q) => p = q

\* Two processes own the run only after some unlink has removed a record
\* other than the one its process had judged: whatever crashes, hosts and
\* cleanups do, that is the one way in which the protocol loses exclusion.
ExclusionUnlessMisdirected == misdirected \/ MutualExclusion

\* A record leaves its path only by the hand of its own process, or once its
\* process is dead, by a process of the same machine: a live owner's lock and
\* a lock from another host are never reclaimed.
RecordsAreRespected ==
  [][\A path \in Paths : \A q \in Procs :
       file[path] = q /\ file'[path] # q /\ ~misdirected' =>
         \/ pc'[q] # pc[q]
         \/ /\ pc[q] \in {"dead", "out"}
            /\ \E p \in Procs : pc'[p] # pc[p] /\ HostOf[p] = HostOf[q]]_vars

\* Both: whatever is in the way of the lock is removed only by whom it may be, and
\* short of a misdirected unlink nobody owns the run beside another.
LockSafety == []ExclusionUnlessMisdirected /\ RecordsAreRespected

\* A process that asks for the lock gets it or is told who has it; it never
\* spins between a link that fails and a record that has gone.
AcquireSettles ==
  \A p \in Procs :
    pc[p] \in {"prefence", "publish"} ~> (pc[p] \in {"owner", "out", "dead"})

\* A lock left by a process that crashed does not survive a later attempt
\* from the same machine that has passed the fence.
StaleLockIsReclaimed ==
  \A p, q \in Procs :
    (/\ pc[p] = "publish" /\ file["lock"] = q /\ pc[q] = "dead"
     /\ HostOf[p] = HostOf[q])
      ~> (file["lock"] # q \/ pc[p] = "dead")

\* Both: an acquire ends, and where it could take a dead process's lock it has.
LockProgress == AcquireSettles /\ StaleLockIsReclaimed
=============================================================================
