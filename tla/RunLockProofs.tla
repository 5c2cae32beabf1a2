---------------------------- MODULE RunLockProofs ----------------------------
(***************************************************************************)
(* What RunLock guarantees for any processes, hosts and crashes.           *)
(*                                                                         *)
(* The inductive invariant says where the owner of each record can be      *)
(* (RecordsHavePlace), that a record about to be reclaimed is that of a    *)
(* dead process of the same host (DoomedAreDead) and, as long as no unlink *)
(* has been misdirected, which records the owners still have (Held) and    *)
(* what a newcomer can have seen of a cleanup in progress (CleanupIsSeen). *)
(***************************************************************************)
EXTENDS RunLock, TLAPS

LockPlaces == {"refence", "owner", "fencing", "refencing", "rmtree",
               "unlock", "unlocking"}
FencePlaces == {"rmtree", "rmdir", "unfence", "unfencing"}

RecordsHavePlace ==
  \A p \in Procs : /\ file["lock"] = p => pc[p] \in LockPlaces \cup {"dead"}
                   /\ file["fence"] = p => pc[p] \in FencePlaces \cup {"dead"}

DoomedAreDead ==
  \A p \in Procs : sub[p] = "unlink" => /\ pc[fd[p]] = "dead"
                                        /\ HostOf[fd[p]] = HostOf[p]

\* Before its unlinks an owner still has its records.
HoldLock == LockPlaces \ {"unlock"}
Held ==
  \A p \in Procs : /\ pc[p] \in HoldLock => file["lock"] = p
                   /\ pc[p] \in FencePlaces => file["fence"] = p

\* q has deleted the directory with its lock, its fence still stands: a
\* process that has linked a new lock has not looked at the fence, or sees q.
CleanupIsSeen ==
  \A p, q \in Procs :
    pc[q] \in FencePlaces \ {"rmtree"} =>
      /\ pc[p] \notin {"owner", "fencing", "refencing"}
      /\ pc[p] = "refence" => sub[p] = "open" \/ fd[p] = q

Directed == ~misdirected => Held /\ CleanupIsSeen

LockInv == TypeOK /\ RecordsHavePlace /\ DoomedAreDead /\ Directed

Step(p) == Start(p) \/ AcquireStep(p) \/ Leave(p) \/ Clean(p) \/ CleanupStep(p) \/ Crash(p)

-----------------------------------------------------------------------------
(* Every step of a process keeps the invariant, part by part. *)

LEMMA InitLockInv == Init => LockInv
  BY NoProcIsNone DEF Init, LockInv, TypeOK, RecordsHavePlace, DoomedAreDead,
     Directed, Held, CleanupIsSeen, Paths, PCs, Sites, HoldLock, LockPlaces, FencePlaces

\* Where _remove_stale_record_or_raise goes on, for each of its call sites.
LEMMA Destinations ==
  /\ ReturnTo("prefence") = "publish" /\ ReturnTo("contend") = "publish"
  /\ ReturnTo("refence") = "owner" /\ ReturnTo("refencing") = "fencing"
  /\ \A site \in Sites : PathOf(site) \in Paths
  BY DEF ReturnTo, PathOf, Paths

LEMMA StepTypeOK ==
  ASSUME LockInv, NEW p \in Procs, Step(p)
  PROVE  TypeOK'
<1> USE NoProcIsNone DEF LockInv, TypeOK, Goto, PCs, Sites
<1>1. CASE Start(p) BY <1>1 DEF Start
<1>2. CASE ReclaimOpen(p)
  <2>1. ReturnTo(pc[p]) \in PCs BY <1>2, Destinations DEF ReclaimOpen
  <2>2. file[PathOf(pc[p])] \in Procs \cup {NoProc}
    BY <1>2, Destinations DEF ReclaimOpen
  <2>3. CASE file[PathOf(pc[p])] = NoProc BY <1>2, <2>1, <2>3 DEF ReclaimOpen
  <2>4. CASE file[PathOf(pc[p])] # NoProc BY <1>2, <2>2, <2>4 DEF ReclaimOpen
  <2> QED BY <2>3, <2>4
<1>3. CASE ReclaimJudge(p)
  <2>1. ReturnTo(pc[p]) \in PCs /\ RaiseTo(pc[p]) \in PCs
    BY <1>3, Destinations DEF ReclaimJudge, RaiseTo
  <2>2. \/ Goto(p, RaiseTo(pc[p])) /\ UNCHANGED dir
        \/ sub' = [sub EXCEPT ![p] = "unlink"] /\ UNCHANGED <<pc, fd, dir>>
        \/ Goto(p, ReturnTo(pc[p])) /\ dir' = (dir \/ pc[p] = "prefence")
    BY <1>3 DEF ReclaimJudge
  <2>3. CASE Goto(p, RaiseTo(pc[p])) /\ UNCHANGED dir
    BY <1>3, <2>1, <2>3 DEF ReclaimJudge
  <2>4. CASE sub' = [sub EXCEPT ![p] = "unlink"] /\ UNCHANGED <<pc, fd, dir>>
    BY <1>3, <2>4 DEF ReclaimJudge
  <2>5. CASE Goto(p, ReturnTo(pc[p])) /\ dir' = (dir \/ pc[p] = "prefence")
    BY <1>3, <2>1, <2>5 DEF ReclaimJudge
  <2> QED BY <2>2, <2>3, <2>4, <2>5
<1>4. CASE ReclaimUnlink(p) BY <1>4, Destinations DEF ReclaimUnlink, Unlink
<1>5. CASE Publish(p) BY <1>5 DEF Publish
<1>6. CASE Leave(p) BY <1>6 DEF Leave
<1>7. CASE Clean(p) BY <1>7 DEF Clean
<1>8. CASE BeginCleanup(p) BY <1>8 DEF BeginCleanup
<1>9. CASE RemoveEntries(p) BY <1>9 DEF RemoveEntries, Unlink
<1>10. CASE RemoveDirectory(p) BY <1>10 DEF RemoveDirectory
<1>11. CASE FinishCleanup(p) BY <1>11 DEF FinishCleanup
<1>12. CASE UnlinkFence(p) BY <1>12 DEF UnlinkFence, Unlink
<1>13. CASE Release(p) BY <1>13 DEF Release
<1>14. CASE UnlinkLock(p) BY <1>14 DEF UnlinkLock, Unlink
<1>15. CASE Crash(p) BY <1>15 DEF Crash
<1> QED BY <1>1, <1>2, <1>3, <1>4, <1>5, <1>6, <1>7, <1>8, <1>9, <1>10, <1>11,
           <1>12, <1>13, <1>14, <1>15 DEF Step, AcquireStep, CleanupStep

\* A step of p leaves every other process where it was.
LEMMA OthersStay ==
  ASSUME LockInv, NEW p \in Procs, Step(p)
  PROVE  \A q \in Procs \ {p} : pc'[q] = pc[q] /\ sub'[q] = sub[q] /\ fd'[q] = fd[q]
<1> USE NoProcIsNone DEF LockInv, TypeOK, Goto
<1>1. CASE Start(p) BY <1>1 DEF Start
<1>2. CASE ReclaimOpen(p) BY <1>2 DEF ReclaimOpen
<1>3. CASE ReclaimJudge(p) BY <1>3 DEF ReclaimJudge
<1>4. CASE ReclaimUnlink(p) BY <1>4 DEF ReclaimUnlink
<1>5. CASE Publish(p) BY <1>5 DEF Publish
<1>6. CASE Leave(p) BY <1>6 DEF Leave
<1>7. CASE Clean(p) BY <1>7 DEF Clean
<1>8. CASE BeginCleanup(p) BY <1>8 DEF BeginCleanup
<1>9. CASE RemoveEntries(p) BY <1>9 DEF RemoveEntries
<1>10. CASE RemoveDirectory(p) BY <1>10 DEF RemoveDirectory
<1>11. CASE FinishCleanup(p) BY <1>11 DEF FinishCleanup
<1>12. CASE UnlinkFence(p) BY <1>12 DEF UnlinkFence
<1>13. CASE Release(p) BY <1>13 DEF Release
<1>14. CASE UnlinkLock(p) BY <1>14 DEF UnlinkLock
<1>15. CASE Crash(p) BY <1>15 DEF Crash
<1> QED BY <1>1, <1>2, <1>3, <1>4, <1>5, <1>6, <1>7,
           <1>8, <1>9, <1>10, <1>11, <1>12, <1>13, <1>14, <1>15 DEF Step, AcquireStep, CleanupStep

\* A record stays where its process can be looked for.
LEMMA StepRecordsHavePlace ==
  ASSUME LockInv, NEW p \in Procs, Step(p)
  PROVE  RecordsHavePlace'
<1> USE NoProcIsNone DEF LockInv, TypeOK, Goto, Unlink, RecordsHavePlace, Paths, LockPlaces, FencePlaces, Sites
<1>1. CASE Start(p) BY <1>1 DEF Start
<1>2. CASE ReclaimOpen(p) BY <1>2, Destinations DEF ReclaimOpen
<1>3. CASE ReclaimJudge(p) BY <1>3, Destinations DEF ReclaimJudge, RaiseTo
<1>4. CASE ReclaimUnlink(p) BY <1>4, Destinations DEF ReclaimUnlink, PathOf
<1>5. CASE Publish(p) BY <1>5 DEF Publish
<1>6. CASE Leave(p) BY <1>6 DEF Leave
<1>7. CASE Clean(p) BY <1>7 DEF Clean
<1>8. CASE BeginCleanup(p) BY <1>8 DEF BeginCleanup
<1>9. CASE RemoveEntries(p) BY <1>9 DEF RemoveEntries
<1>10. CASE RemoveDirectory(p) BY <1>10 DEF RemoveDirectory
<1>11. CASE FinishCleanup(p) BY <1>11 DEF FinishCleanup
<1>12. CASE UnlinkFence(p) BY <1>12 DEF UnlinkFence
<1>13. CASE Release(p) BY <1>13 DEF Release
<1>14. CASE UnlinkLock(p) BY <1>14 DEF UnlinkLock
<1>15. CASE Crash(p) BY <1>15 DEF Crash
<1> QED BY <1>1, <1>2, <1>3, <1>4, <1>5, <1>6, <1>7,
           <1>8, <1>9, <1>10, <1>11, <1>12, <1>13, <1>14, <1>15 DEF Step, AcquireStep, CleanupStep

\* A record is doomed only after its process was seen dead; the dead stay so.
LEMMA StepDoomedAreDead ==
  ASSUME LockInv, NEW p \in Procs, Step(p)
  PROVE  DoomedAreDead'
<1> USE NoProcIsNone DEF LockInv, TypeOK, Goto, DoomedAreDead, RecordsHavePlace, Paths, LockPlaces, FencePlaces, Sites
<1>1. CASE Start(p) BY <1>1 DEF Start
<1>2. CASE ReclaimOpen(p) BY <1>2 DEF ReclaimOpen
<1>3. CASE ReclaimJudge(p) BY <1>3, Destinations DEF ReclaimJudge, Alive, PathOf, RaiseTo
<1>4. CASE ReclaimUnlink(p) BY <1>4 DEF ReclaimUnlink
<1>5. CASE Publish(p) BY <1>5 DEF Publish
<1>6. CASE Leave(p) BY <1>6 DEF Leave
<1>7. CASE Clean(p) BY <1>7 DEF Clean
<1>8. CASE BeginCleanup(p) BY <1>8 DEF BeginCleanup
<1>9. CASE RemoveEntries(p) BY <1>9 DEF RemoveEntries
<1>10. CASE RemoveDirectory(p) BY <1>10 DEF RemoveDirectory
<1>11. CASE FinishCleanup(p) BY <1>11 DEF FinishCleanup
<1>12. CASE UnlinkFence(p) BY <1>12 DEF UnlinkFence
<1>13. CASE Release(p) BY <1>13 DEF Release
<1>14. CASE UnlinkLock(p) BY <1>14 DEF UnlinkLock
<1>15. CASE Crash(p) BY <1>15 DEF Crash
<1> QED BY <1>1, <1>2, <1>3, <1>4, <1>5, <1>6, <1>7,
           <1>8, <1>9, <1>10, <1>11, <1>12, <1>13, <1>14, <1>15 DEF Step, AcquireStep, CleanupStep

\* A misdirected unlink is remembered.
LEMMA MisdirectedStays ==
  ASSUME NEW p \in Procs, Step(p), misdirected
  PROVE  misdirected'
<1> USE NoProcIsNone DEF Unlink
<1>1. CASE Start(p) BY <1>1 DEF Start
<1>2. CASE ReclaimOpen(p) BY <1>2 DEF ReclaimOpen
<1>3. CASE ReclaimJudge(p) BY <1>3 DEF ReclaimJudge
<1>4. CASE ReclaimUnlink(p) BY <1>4 DEF ReclaimUnlink
<1>5. CASE Publish(p) BY <1>5 DEF Publish
<1>6. CASE Leave(p) BY <1>6 DEF Leave
<1>7. CASE Clean(p) BY <1>7 DEF Clean
<1>8. CASE BeginCleanup(p) BY <1>8 DEF BeginCleanup
<1>9. CASE RemoveEntries(p) BY <1>9 DEF RemoveEntries
<1>10. CASE RemoveDirectory(p) BY <1>10 DEF RemoveDirectory
<1>11. CASE FinishCleanup(p) BY <1>11 DEF FinishCleanup
<1>12. CASE UnlinkFence(p) BY <1>12 DEF UnlinkFence
<1>13. CASE Release(p) BY <1>13 DEF Release
<1>14. CASE UnlinkLock(p) BY <1>14 DEF UnlinkLock
<1>15. CASE Crash(p) BY <1>15 DEF Crash
<1> QED BY <1>1, <1>2, <1>3, <1>4, <1>5, <1>6, <1>7, <1>8, <1>9, <1>10,
           <1>11, <1>12, <1>13, <1>14, <1>15 DEF Step, AcquireStep, CleanupStep

\* No step but a misdirected unlink takes a record from its owner.
LEMMA StepHeld ==
  ASSUME LockInv, NEW p \in Procs, Step(p), ~misdirected, ~misdirected'
  PROVE  Held'
<1> USE NoProcIsNone DEF LockInv, TypeOK, Goto, Unlink, Directed, Held, DoomedAreDead, Paths,
         HoldLock, LockPlaces, FencePlaces, Sites
<1>1. CASE Start(p) BY <1>1 DEF Start
<1>2. CASE ReclaimOpen(p) BY <1>2, Destinations DEF ReclaimOpen
<1>3. CASE ReclaimJudge(p) BY <1>3, Destinations DEF ReclaimJudge, RaiseTo
<1>4. CASE ReclaimUnlink(p)
  <2>1. /\ fd[p] \in Procs /\ pc[fd[p]] = "dead"
        /\ file[PathOf(pc[p])] \in {NoProc, fd[p]}
    <3>1. fd[p] \in Procs /\ pc[fd[p]] = "dead" BY <1>4 DEF ReclaimUnlink
    <3>2. misdirected' = (misdirected \/ file[PathOf(pc[p])] \notin {NoProc, fd[p]})
      BY <1>4 DEF ReclaimUnlink
    <3> QED BY <3>1, <3>2
  <2>2. \A q \in Procs, path \in Paths : pc[q] # "dead" /\ file[path] = q => file'[path] = q
    BY <1>4, <2>1 DEF ReclaimUnlink
  <2>3. \A q \in Procs \ {p} : pc'[q] = pc[q] BY OthersStay
  <2>4. pc'[p] \in HoldLock => pc[p] \in HoldLock
    BY <1>4, Destinations DEF ReclaimUnlink
  <2>5. pc'[p] \notin FencePlaces BY <1>4, Destinations DEF ReclaimUnlink
  <2> QED BY <2>2, <2>3, <2>4, <2>5
<1>5. CASE Publish(p) BY <1>5 DEF Publish
<1>6. CASE Leave(p) BY <1>6 DEF Leave
<1>7. CASE Clean(p) BY <1>7 DEF Clean
<1>8. CASE BeginCleanup(p) BY <1>8 DEF BeginCleanup
<1>9. CASE RemoveEntries(p) BY <1>9 DEF RemoveEntries
<1>10. CASE RemoveDirectory(p) BY <1>10 DEF RemoveDirectory
<1>11. CASE FinishCleanup(p) BY <1>11 DEF FinishCleanup
<1>12. CASE UnlinkFence(p) BY <1>12 DEF UnlinkFence
<1>13. CASE Release(p) BY <1>13 DEF Release
<1>14. CASE UnlinkLock(p) BY <1>14 DEF UnlinkLock
<1>15. CASE Crash(p) BY <1>15 DEF Crash
<1> QED BY <1>1, <1>2, <1>3, <1>4, <1>5, <1>6, <1>7, <1>8, <1>9, <1>10,
           <1>11, <1>12, <1>13, <1>14, <1>15 DEF Step, AcquireStep, CleanupStep

\* Whoever links a lock after a cleanup deleted the old one meets the fence.
LEMMA StepCleanupIsSeen ==
  ASSUME LockInv, NEW p \in Procs, Step(p), ~misdirected, ~misdirected'
  PROVE  CleanupIsSeen'
<1> USE NoProcIsNone DEF LockInv, TypeOK, Goto, Unlink, Directed, Held, CleanupIsSeen, DoomedAreDead, Paths,
         HoldLock, LockPlaces, FencePlaces, Sites
<1>1. CASE Start(p) BY <1>1 DEF Start
<1>2. CASE ReclaimOpen(p) BY <1>2, Destinations DEF ReclaimOpen, PathOf
<1>3. CASE ReclaimJudge(p) BY <1>3, Destinations DEF ReclaimJudge, RaiseTo, PathOf, Alive
<1>4. CASE ReclaimUnlink(p) BY <1>4, Destinations DEF ReclaimUnlink, PathOf
<1>5. CASE Publish(p) BY <1>5 DEF Publish
<1>6. CASE Leave(p) BY <1>6 DEF Leave
<1>7. CASE Clean(p) BY <1>7 DEF Clean
<1>8. CASE BeginCleanup(p) BY <1>8 DEF BeginCleanup
<1>9. CASE RemoveEntries(p) BY <1>9 DEF RemoveEntries
<1>10. CASE RemoveDirectory(p) BY <1>10 DEF RemoveDirectory
<1>11. CASE FinishCleanup(p) BY <1>11 DEF FinishCleanup
<1>12. CASE UnlinkFence(p) BY <1>12 DEF UnlinkFence
<1>13. CASE Release(p) BY <1>13 DEF Release
<1>14. CASE UnlinkLock(p) BY <1>14 DEF UnlinkLock
<1>15. CASE Crash(p) BY <1>15 DEF Crash
<1> QED BY <1>1, <1>2, <1>3, <1>4, <1>5, <1>6, <1>7, <1>8, <1>9, <1>10,
           <1>11, <1>12, <1>13, <1>14, <1>15 DEF Step, AcquireStep, CleanupStep

LEMMA StutterLockInv == LockInv /\ UNCHANGED vars => LockInv'
  BY DEF vars, LockInv, TypeOK, RecordsHavePlace, DoomedAreDead, Directed, Held,
         CleanupIsSeen

LEMMA NextLockInv == LockInv /\ [Next]_vars => LockInv'
<1> SUFFICES ASSUME LockInv, [Next]_vars PROVE LockInv'
  OBVIOUS
<1>1. CASE UNCHANGED vars BY <1>1, StutterLockInv
<1>2. ASSUME NEW p \in Procs, Step(p) PROVE LockInv'
  <2>1. TypeOK' /\ RecordsHavePlace' /\ DoomedAreDead'
    BY <1>2, StepTypeOK, StepRecordsHavePlace, StepDoomedAreDead
  <2>2. Directed'
    BY <1>2, MisdirectedStays, StepHeld, StepCleanupIsSeen DEF Directed
  <2> QED BY <2>1, <2>2 DEF LockInv
<1> QED BY <1>1, <1>2 DEF Next, Step

\* LockInv is inductive: wherever processes stop between two file operations.
THEOREM AlwaysLockInv == Spec => []LockInv
  BY InitLockInv, NextLockInv, PTL DEF Spec

-----------------------------------------------------------------------------
\* Every variable keeps its type, and a process has a descriptor open only
\* inside _remove_stale_record_or_raise.
THEOREM TypeCorrect == Spec => []TypeOK
<1>1. LockInv => TypeOK BY DEF LockInv
<1> QED BY <1>1, AlwaysLockInv, PTL

LEMMA OwnersHold ==
  ASSUME TypeOK, Held, CleanupIsSeen
  PROVE  MutualExclusion
<1> SUFFICES ASSUME NEW p \in Procs, NEW q \in Procs, Owns(p), Owns(q)
             PROVE  p = q
  BY DEF MutualExclusion
<1>1. CASE pc[p] \in HoldLock /\ pc[q] \in HoldLock BY <1>1 DEF Held
<1>2. CASE pc[p] \in FencePlaces /\ pc[q] \in FencePlaces BY <1>2 DEF Held
<1>3. \A x, y \in Procs :
        ~(pc[x] \in {"owner", "fencing", "refencing"} /\ pc[y] \in FencePlaces \ {"rmtree"})
  BY DEF CleanupIsSeen
<1> QED BY <1>1, <1>2, <1>3 DEF Owns, HoldLock, LockPlaces, FencePlaces

\* Two processes own a run directory only after an unlink has removed a
\* record that its process had not judged, whatever the number of processes
\* and hosts and wherever they crash.
THEOREM Exclusion == Spec => []ExclusionUnlessMisdirected
<1>1. LockInv => ExclusionUnlessMisdirected
  BY OwnersHold DEF LockInv, Directed, ExclusionUnlessMisdirected
<1> QED BY <1>1, AlwaysLockInv, PTL

\* A record leaves its path by the hand of its own process, or of one on the
\* same host once its process is dead.
THEOREM Respect == Spec => RecordsAreRespected
<1>1. ASSUME LockInv, [Next]_vars,
             NEW path \in Paths, NEW q \in Procs,
             file[path] = q, file'[path] # q, ~misdirected'
      PROVE  \/ pc'[q] # pc[q]
             \/ /\ pc[q] \in {"dead", "out"}
                /\ \E p \in Procs : pc'[p] # pc[p] /\ HostOf[p] = HostOf[q]
  <2>1. PICK p \in Procs : Step(p)
    BY <1>1 DEF Next, Step, vars
  <2>2. CASE ReclaimUnlink(p)
    <3>1. misdirected' = (misdirected \/ file[PathOf(pc[p])] \notin {NoProc, fd[p]})
      BY <2>2 DEF ReclaimUnlink, Unlink
    <3>2. path = PathOf(pc[p])
      BY <1>1, <2>2 DEF ReclaimUnlink, Unlink, LockInv, TypeOK
    <3>3. fd[p] = q BY <1>1, <3>1, <3>2, NoProcIsNone
    <3>4. pc[q] = "dead" /\ HostOf[p] = HostOf[q]
      BY <1>1, <2>2, <3>3 DEF ReclaimUnlink, LockInv, DoomedAreDead
    <3>5. pc'[p] # pc[p]
      BY <1>1, <2>2, Destinations DEF ReclaimUnlink, Goto, LockInv, TypeOK, Sites
    <3> QED BY <3>4, <3>5
  <2>3. CASE RemoveEntries(p) \/ UnlinkFence(p) \/ UnlinkLock(p)
    <3>1. p = q
      BY <1>1, <2>3, NoProcIsNone
      DEF RemoveEntries, UnlinkFence, UnlinkLock, Unlink, LockInv, TypeOK, Paths
    <3> QED BY <1>1, <2>3, <3>1
            DEF RemoveEntries, UnlinkFence, UnlinkLock, Goto, LockInv, TypeOK
  <2>4. CASE Publish(p) \/ BeginCleanup(p)
    BY <1>1, <2>4, NoProcIsNone DEF Publish, BeginCleanup, LockInv, TypeOK, Paths
  <2>5. CASE UNCHANGED file BY <1>1, <2>5
  <2> QED
    BY <2>1, <2>2, <2>3, <2>4, <2>5
    DEF Step, AcquireStep, CleanupStep, Start, ReclaimOpen, ReclaimJudge, Leave, Clean,
        RemoveDirectory, FinishCleanup, Release, Crash
<1>2. LockInv /\ [Next]_vars =>
        [\A path \in Paths : \A q \in Procs :
           file[path] = q /\ file'[path] # q /\ ~misdirected' =>
             \/ pc'[q] # pc[q]
             \/ /\ pc[q] \in {"dead", "out"}
                /\ \E p \in Procs : pc'[p] # pc[p] /\ HostOf[p] = HostOf[q]]_vars
  BY <1>1
<1> QED BY <1>2, AlwaysLockInv, PTL DEF Spec, RecordsAreRespected

\* What holds of the lock for any processes, hosts and crashes: ownership is
\* exclusive but for a misdirected unlink, and records are respected.
THEOREM Safety == Spec => LockSafety
BY Exclusion, Respect DEF LockSafety

-----------------------------------------------------------------------------
(* Without crashes no record is ever stale, so no unlink is misdirected. *)

CrashFree == /\ LockInv /\ ~misdirected
             /\ \A p \in Procs : pc[p] # "dead"

\* docs/architecture.md: "Only one supervisor owns a run lock": so it is as
\* long as every process gets to release what it holds.
THEOREM CrashFreeExclusion ==
  ASSUME Crashers = {}
  PROVE  Spec => []MutualExclusion
<1>1. Init => CrashFree BY InitLockInv DEF Init, CrashFree
<1>2. ASSUME CrashFree, [Next]_vars PROVE CrashFree'
  <2>1. LockInv' BY <1>2, NextLockInv DEF CrashFree
  <2>2. CASE UNCHANGED vars BY <1>2, <2>1, <2>2 DEF vars, CrashFree
  <2>3. ASSUME NEW p \in Procs, Step(p) PROVE CrashFree'
    <3>1. \A q \in Procs \ {p} : pc'[q] = pc[q]
      BY <1>2, <2>3, OthersStay DEF CrashFree
    <3>2. ~ReclaimUnlink(p)
      BY <1>2 DEF ReclaimUnlink, CrashFree, LockInv, TypeOK, DoomedAreDead
    <3>3. pc'[p] # "dead"
      BY <1>2, <2>3, <3>2, Destinations
      DEF CrashFree, LockInv, TypeOK, Goto, Step, AcquireStep, CleanupStep, Start,
          ReclaimOpen, ReclaimJudge, RaiseTo, Publish, Leave, Clean, BeginCleanup,
          RemoveEntries, RemoveDirectory, FinishCleanup, UnlinkFence, Release,
          UnlinkLock, Crash, Sites
    <3>4. ~misdirected'
      <4>1. Held BY <1>2 DEF CrashFree, LockInv, Directed
      <4>2. CASE RemoveEntries(p) \/ UnlinkFence(p) \/ UnlinkLock(p)
        BY <1>2, <4>1, <4>2
        DEF RemoveEntries, UnlinkFence, UnlinkLock, Unlink, Held, HoldLock,
            LockPlaces, FencePlaces, CrashFree
      <4>3. CASE UNCHANGED misdirected BY <1>2, <4>3 DEF CrashFree
      <4> QED BY <2>3, <3>2, <4>2, <4>3
              DEF Step, AcquireStep, CleanupStep, Start, ReclaimOpen, ReclaimJudge,
                  Publish, Leave, Clean, BeginCleanup, RemoveDirectory, FinishCleanup,
                  Release, Crash
    <3> QED BY <1>2, <2>1, <3>1, <3>3, <3>4 DEF CrashFree
  <2> QED BY <1>2, <2>2, <2>3 DEF Next, Step
<1>3. CrashFree => MutualExclusion
  BY OwnersHold DEF CrashFree, LockInv, Directed
<1> QED BY <1>1, <1>2, <1>3, PTL DEF Spec
=============================================================================
