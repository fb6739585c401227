----------------------- MODULE SandboxSession_proofs -----------------------
(***************************************************************************)
(* The session locks, for any number of launches, prunes and teardowns:    *)
(* type correctness, what each process holds at each point of its code,    *)
(* lock exclusion, and from them that a sandbox whose state was never      *)
(* removed under a session has at most one owner, and that the locks       *)
(* implement SandboxOwnership.                                             *)
(*                                                                         *)
(* The invariant is layered: each layer is proved from those before it.    *)
(***************************************************************************)
EXTENDS SandboxSession, TLAPS

USE SessionAssumption DEF Proc, MaybeTree, treeVars, lockVars, Goto, Retry,
    Proceed, MkdirRoot, OpenShared

-----------------------------------------------------------------------------
(* The invariant *)

\* Where each lock is held, in terms of the code.
SharedPC == {"lockCheck"} \cup Acquiring \cup Holding
            \cup {"relShared", "failGate", "failShared"}
GatePC == {"probeOpen", "probeFlock", "probeClose", "liveOpen", "liveFlock",
           "liveCheck", "gateClose", "failGate"}
LivePC == {"liveCheck"} \cup Holding
OpenedPC == {"lockFlock", "gateFlock", "probeFlock", "liveFlock", "rmFlock"}
ExclusivePC == {"rmBefore", "rmRename", "rmClose", "prUnlock"}

LocksFollowCode ==
  /\ \A p \in Launch :
       /\ lockSh[p] # NoTree <=> pc[p] \in SharedPC
       /\ gate[p] # NoTree <=> pc[p] \in GatePC
       /\ live[p] # NoTree <=> pc[p] \in LivePC
       /\ liveEx[p] # NoTree <=> pc[p] = "probeClose"
       /\ fd[p] # NoTree <=> pc[p] \in OpenedPC
       /\ pc[p] \in LaunchPC
  /\ \A p \in Proc : lockEx[p] # NoTree => pc[p] \in ExclusivePC

\* flock: an exclusive hold on a lock file excludes every other hold on it.
Exclusion ==
  /\ \A p \in Proc, q \in Launch : lockEx[p] # NoTree => lockSh[q] # lockEx[p]
  /\ \A p, q \in Launch : gate[p] # NoTree /\ gate[p] = gate[q] => p = q
  /\ \A p, q \in Launch : liveEx[p] # NoTree => live[q] # liveEx[p]

\* While nothing was removed under a session, all that a verified hold has
\* opened or locked lies in the tree the root names.
HeldInRoot ==
  ~stolen => \A p \in Launch : HasHold(p) =>
    /\ lockSh[p] = root
    /\ fd[p] \in {NoTree, root}
    /\ gate[p] \in {NoTree, root}
    /\ live[p] \in {NoTree, root}
    /\ liveEx[p] \in {NoTree, root}

\* From the answer "alone" to the registration, nobody else is registered.
AloneMeansAlone ==
  ~stolen => \A p \in Launch :
    alone[p] /\ pc[p] \in {"probeClose", "liveOpen", "liveFlock", "liveCheck"}
      => \A q \in Launch \ {p} : live[q] = NoTree

-----------------------------------------------------------------------------
(* Type correctness *)

LEMMA InitType == Init => TypeOK
<1>1. 0 \in Nat /\ 0 < SharedLockRetries
  BY DEF SessionAssumption
<1> QED
  BY <1>1 DEF Init, TypeOK, LaunchPC, PrunePC

LEMMA NextType ==
  ASSUME TypeOK, [Next]_vars
  PROVE  TypeOK'
<1>1. ASSUME NEW p \in Launch, Acquire(p) PROVE TypeOK'
  <2>1. CASE EnsureSandboxDirs(p)
    BY <2>1 DEF EnsureSandboxDirs, TypeOK, LaunchPC, PrunePC, Acquiring,
       Holding, Teardown
  <2>2. CASE LockOpen(p)
    BY <2>2 DEF LockOpen, TypeOK, LaunchPC, PrunePC, Acquiring, Holding,
       Teardown
  <2>3. CASE LockFlock(p)
    BY <2>3 DEF LockFlock, TypeOK, LaunchPC, PrunePC, Acquiring, Holding,
       Teardown
  <2>4. CASE LockCheck(p)
    BY <2>4 DEF LockCheck, TypeOK, LaunchPC, PrunePC, Acquiring, Holding,
       Teardown
  <2>5. CASE GateOpen(p)
    BY <2>5 DEF GateOpen, TypeOK, LaunchPC, PrunePC, Acquiring, Holding,
       Teardown
  <2>6. CASE GateFlock(p)
    BY <2>6 DEF GateFlock, TypeOK, LaunchPC, PrunePC, Acquiring, Holding,
       Teardown
  <2>7. CASE ProbeOpen(p)
    BY <2>7 DEF ProbeOpen, TypeOK, LaunchPC, PrunePC, Acquiring, Holding,
       Teardown
  <2>8. CASE ProbeFlock(p)
    BY <2>8 DEF ProbeFlock, TypeOK, LaunchPC, PrunePC, Acquiring, Holding,
       Teardown
  <2>9. CASE ProbeClose(p)
    BY <2>9 DEF ProbeClose, TypeOK, LaunchPC, PrunePC, Acquiring, Holding,
       Teardown
  <2>10. CASE LiveOpen(p)
    BY <2>10 DEF LiveOpen, TypeOK, LaunchPC, PrunePC, Acquiring, Holding,
       Teardown
  <2>11. CASE LiveFlock(p)
    BY <2>11 DEF LiveFlock, TypeOK, LaunchPC, PrunePC, Acquiring, Holding,
       Teardown
  <2>12. CASE LiveCheck(p)
    BY <2>12 DEF LiveCheck, TypeOK, LaunchPC, PrunePC, Acquiring, Holding,
       Teardown
  <2>13. CASE GateClose(p)
    BY <2>13 DEF GateClose, TypeOK, LaunchPC, PrunePC, Acquiring, Holding,
       Teardown
  <2>14. CASE FailShared(p)
    BY <2>14 DEF FailShared, TypeOK, LaunchPC, PrunePC, Acquiring, Holding,
       Teardown
  <2> QED BY <1>1, <2>1, <2>2, <2>3, <2>4, <2>5, <2>6, <2>7, <2>8, <2>9, <2>10, <2>11, <2>12,
             <2>13, <2>14 DEF Acquire
<1>2. ASSUME NEW p \in Launch, Session(p) PROVE TypeOK'
  <2>1. CASE Designated(p)
    BY <2>1 DEF Designated, TypeOK, LaunchPC, PrunePC, Acquiring, Holding,
       Teardown
  <2>2. CASE CleanRead(p)
    BY <2>2 DEF CleanRead, TypeOK, LaunchPC, PrunePC, Acquiring, Holding,
       Teardown
  <2>3. CASE CleanRemove(p)
    BY <2>3 DEF CleanRemove, TypeOK, LaunchPC, PrunePC, Acquiring, Holding,
       Teardown
  <2>4. CASE Run(p)
    BY <2>4 DEF Run, TypeOK, LaunchPC, PrunePC, Acquiring, Holding, Teardown
  <2>5. CASE CleanupSessionOverlays(p)
    BY <2>5 DEF CleanupSessionOverlays, TypeOK, LaunchPC, PrunePC, Acquiring,
       Holding, Teardown
  <2>6. CASE ReleaseLive(p)
    BY <2>6 DEF ReleaseLive, TypeOK, LaunchPC, PrunePC, Acquiring, Holding,
       Teardown
  <2>7. CASE ReleaseShared(p)
    BY <2>7 DEF ReleaseShared, TypeOK, LaunchPC, PrunePC, Acquiring, Holding,
       Teardown
  <2> QED BY <1>2, <2>1, <2>2, <2>3, <2>4, <2>5, <2>6, <2>7 DEF Session
<1>3. ASSUME NEW p \in Launch, RemoveSandboxIfIdle(p) PROVE TypeOK'
  <2>1. CASE RmOpen(p)
    BY <2>1 DEF RmOpen, TypeOK, LaunchPC, PrunePC, Acquiring, Holding,
       Teardown
  <2>2. CASE RmFlock(p)
    BY <2>2 DEF RmFlock, TypeOK, LaunchPC, PrunePC, Acquiring, Holding,
       Teardown
  <2>3. CASE RmBefore(p)
    BY <2>3 DEF RmBefore, TypeOK, LaunchPC, PrunePC, Acquiring, Holding,
       Teardown
  <2>4. CASE RmRename(p)
    <3>1. staged' \subseteq Tree \X Launch
      BY <2>4 DEF RmRename, TypeOK
    <3>2. root' \in MaybeTree /\ stolen' \in BOOLEAN
      BY <2>4 DEF RmRename, TakeRoot, TypeOK
    <3> QED
      BY <2>4, <3>1, <3>2 DEF RmRename, TypeOK, LaunchPC, Teardown
  <2>5. CASE RmClose(p)
    BY <2>5 DEF RmClose, TypeOK, LaunchPC, PrunePC, Acquiring, Holding,
       Teardown
  <2>6. CASE RmDelete(p)
    BY <2>6 DEF RmDelete, TypeOK, LaunchPC, PrunePC, Acquiring, Holding,
       Teardown
  <2> QED BY <1>3, <2>1, <2>2, <2>3, <2>4, <2>5, <2>6 DEF RemoveSandboxIfIdle
<1>4. ASSUME NEW p \in Pruner, Prune(p) PROVE TypeOK'
  <2>1. CASE PruneList(p)
    BY <2>1 DEF PruneList, TypeOK, LaunchPC, PrunePC, Acquiring, Holding,
       Teardown
  <2>2. CASE PruneStranded(p)
    BY <2>2 DEF PruneStranded, TypeOK, LaunchPC, PrunePC, Acquiring, Holding,
       Teardown
  <2>3. CASE PruneOpen(p)
    BY <2>3 DEF PruneOpen, TypeOK, LaunchPC, PrunePC, Acquiring, Holding,
       Teardown
  <2>4. CASE PruneFlock(p)
    BY <2>4 DEF PruneFlock, TypeOK, PrunePC
  <2>5. CASE PruneUnlock(p)
    BY <2>5 DEF PruneUnlock, TypeOK, LaunchPC, PrunePC, Acquiring, Holding,
       Teardown
  <2>6. CASE PruneRemove(p)
    BY <2>6 DEF PruneRemove, TakeRoot, TypeOK, LaunchPC, PrunePC, Acquiring,
       Holding, Teardown
  <2>7. CASE PruneReclaim(p)
    BY <2>7 DEF PruneReclaim, TypeOK, LaunchPC, PrunePC, Acquiring, Holding,
       Teardown
  <2> QED BY <1>4, <2>1, <2>2, <2>3, <2>4, <2>5, <2>6, <2>7 DEF Prune
<1>5. ASSUME NEW p \in Launch, Exit(p) PROVE TypeOK'
  BY <1>5 DEF Exit, TypeOK, LaunchPC, PrunePC, Acquiring, Holding, Teardown
<1>6. ASSUME NEW p \in Pruner, PruneConfirm(p) PROVE TypeOK'
  BY <1>6 DEF PruneConfirm, TypeOK, LaunchPC, PrunePC, Acquiring, Holding,
     Teardown
<1>7. ASSUME NEW p \in Proc, Crash(p) PROVE TypeOK'
  BY <1>7 DEF Crash, Dropped, TypeOK, LaunchPC, PrunePC
<1>8. CASE UNCHANGED vars
  BY <1>8 DEF vars, TypeOK, LaunchPC, PrunePC, Acquiring,
     Holding, Teardown
<1> QED BY <1>1, <1>2, <1>3, <1>4, <1>5, <1>6, <1>7, <1>8 DEF Next

\* Every variable keeps its type, and no retry loop runs past its budget.
THEOREM TypeCorrect == Spec => []TypeOK
<1>1. TypeOK /\ [Next]_vars => TypeOK'
  BY NextType
<1> QED BY InitType, <1>1, PTL DEF Spec

-----------------------------------------------------------------------------
(* What each process holds *)

USE DEF SharedPC, GatePC, LivePC, OpenedPC, ExclusivePC, LaunchPC, Acquiring,
        Holding, Teardown

LEMMA InitLocks == Init => LocksFollowCode
  BY DEF Init, LocksFollowCode

LEMMA NextLocks ==
  ASSUME TypeOK, LocksFollowCode, [Next]_vars
  PROVE  LocksFollowCode'
<1>1. ASSUME NEW p \in Launch, Acquire(p) PROVE LocksFollowCode'
  <2>1. CASE EnsureSandboxDirs(p)
    BY <2>1 DEF EnsureSandboxDirs, LocksFollowCode, TypeOK, SessionAssumption
  <2>2. CASE LockOpen(p)
    BY <2>2 DEF LockOpen, LocksFollowCode, TypeOK, SessionAssumption
  <2>3. CASE LockFlock(p)
    BY <2>3 DEF LockFlock, LocksFollowCode, TypeOK, SessionAssumption
  <2>4. CASE LockCheck(p)
    BY <2>4 DEF LockCheck, LocksFollowCode, TypeOK, SessionAssumption
  <2>5. CASE GateOpen(p)
    BY <2>5 DEF GateOpen, LocksFollowCode, TypeOK, SessionAssumption
  <2>6. CASE GateFlock(p)
    BY <2>6 DEF GateFlock, LocksFollowCode, TypeOK, SessionAssumption
  <2>7. CASE ProbeOpen(p)
    BY <2>7 DEF ProbeOpen, LocksFollowCode, TypeOK, SessionAssumption
  <2>8. CASE ProbeFlock(p)
    BY <2>8 DEF ProbeFlock, LocksFollowCode, TypeOK, SessionAssumption
  <2>9. CASE ProbeClose(p)
    BY <2>9 DEF ProbeClose, LocksFollowCode, TypeOK, SessionAssumption
  <2>10. CASE LiveOpen(p)
    BY <2>10 DEF LiveOpen, LocksFollowCode, TypeOK, SessionAssumption
  <2>11. CASE LiveFlock(p)
    BY <2>11 DEF LiveFlock, LocksFollowCode, TypeOK, SessionAssumption
  <2>12. CASE LiveCheck(p)
    BY <2>12 DEF LiveCheck, LocksFollowCode, TypeOK, SessionAssumption
  <2>13. CASE GateClose(p)
    BY <2>13 DEF GateClose, LocksFollowCode, TypeOK, SessionAssumption
  <2>14. CASE FailShared(p)
    BY <2>14 DEF FailShared, LocksFollowCode, TypeOK, SessionAssumption
  <2> QED BY <1>1, <2>1, <2>2, <2>3, <2>4, <2>5, <2>6, <2>7, <2>8, <2>9, <2>10, <2>11, <2>12,
             <2>13, <2>14 DEF Acquire
<1>2. ASSUME NEW p \in Launch, Session(p) PROVE LocksFollowCode'
  <2>1. CASE Designated(p)
    BY <2>1 DEF Designated, LocksFollowCode, TypeOK, SessionAssumption
  <2>2. CASE CleanRead(p)
    BY <2>2 DEF CleanRead, LocksFollowCode, TypeOK, SessionAssumption
  <2>3. CASE CleanRemove(p)
    BY <2>3 DEF CleanRemove, LocksFollowCode, TypeOK, SessionAssumption
  <2>4. CASE Run(p)
    BY <2>4 DEF Run, LocksFollowCode, TypeOK, SessionAssumption
  <2>5. CASE CleanupSessionOverlays(p)
    BY <2>5 DEF CleanupSessionOverlays, LocksFollowCode, TypeOK,
       SessionAssumption
  <2>6. CASE ReleaseLive(p)
    BY <2>6 DEF ReleaseLive, LocksFollowCode, TypeOK, SessionAssumption
  <2>7. CASE ReleaseShared(p)
    BY <2>7 DEF ReleaseShared, LocksFollowCode, TypeOK, SessionAssumption
  <2> QED BY <1>2, <2>1, <2>2, <2>3, <2>4, <2>5, <2>6, <2>7 DEF Session
<1>3. ASSUME NEW p \in Launch, RemoveSandboxIfIdle(p) PROVE LocksFollowCode'
  <2>1. CASE RmOpen(p)
    BY <2>1 DEF RmOpen, LocksFollowCode, TypeOK, SessionAssumption
  <2>2. CASE RmFlock(p)
    BY <2>2 DEF RmFlock, LocksFollowCode, TypeOK, SessionAssumption
  <2>3. CASE RmBefore(p)
    BY <2>3 DEF RmBefore, LocksFollowCode, TypeOK, SessionAssumption
  <2>4. CASE RmRename(p)
    BY <2>4 DEF RmRename, TakeRoot, LocksFollowCode, TypeOK, SessionAssumption
  <2>5. CASE RmClose(p)
    BY <2>5 DEF RmClose, LocksFollowCode, TypeOK, SessionAssumption
  <2>6. CASE RmDelete(p)
    BY <2>6 DEF RmDelete, LocksFollowCode, TypeOK, SessionAssumption
  <2> QED BY <1>3, <2>1, <2>2, <2>3, <2>4, <2>5, <2>6 DEF RemoveSandboxIfIdle
<1>4. ASSUME NEW p \in Pruner, Prune(p) PROVE LocksFollowCode'
  <2>1. CASE PruneList(p)
    BY <2>1 DEF PruneList, LocksFollowCode, TypeOK, SessionAssumption
  <2>2. CASE PruneStranded(p)
    BY <2>2 DEF PruneStranded, LocksFollowCode, TypeOK, SessionAssumption
  <2>3. CASE PruneOpen(p)
    BY <2>3 DEF PruneOpen, LocksFollowCode, TypeOK, SessionAssumption
  <2>4. CASE PruneFlock(p)
    BY <2>4 DEF PruneFlock, LocksFollowCode, TypeOK, SessionAssumption
  <2>5. CASE PruneUnlock(p)
    BY <2>5 DEF PruneUnlock, LocksFollowCode, TypeOK, SessionAssumption
  <2>6. CASE PruneRemove(p)
    BY <2>6 DEF PruneRemove, TakeRoot, LocksFollowCode, TypeOK,
       SessionAssumption
  <2>7. CASE PruneReclaim(p)
    BY <2>7 DEF PruneReclaim, LocksFollowCode, TypeOK, SessionAssumption
  <2> QED BY <1>4, <2>1, <2>2, <2>3, <2>4, <2>5, <2>6, <2>7 DEF Prune
<1>5. ASSUME NEW p \in Launch, Exit(p) PROVE LocksFollowCode'
  BY <1>5 DEF Exit, LocksFollowCode, TypeOK, SessionAssumption
<1>6. ASSUME NEW p \in Pruner, PruneConfirm(p) PROVE LocksFollowCode'
  BY <1>6 DEF PruneConfirm, LocksFollowCode, TypeOK, SessionAssumption
<1>7. ASSUME NEW p \in Proc, Crash(p) PROVE LocksFollowCode'
  BY <1>7 DEF Crash, Dropped, LocksFollowCode, TypeOK, SessionAssumption
<1>8. CASE UNCHANGED vars
  BY <1>8 DEF vars, LocksFollowCode, TypeOK,
     SessionAssumption
<1> QED BY <1>1, <1>2, <1>3, <1>4, <1>5, <1>6, <1>7, <1>8 DEF Next

-----------------------------------------------------------------------------
(* flock keeps the exclusive holds apart *)

LEMMA InitExclusion == Init => Exclusion
  BY DEF Init, Exclusion

LEMMA NextExclusion ==
  ASSUME TypeOK, LocksFollowCode, Exclusion, [Next]_vars
  PROVE  Exclusion'
<1>1. ASSUME NEW p \in Launch, Acquire(p) PROVE Exclusion'
  <2>1. CASE EnsureSandboxDirs(p)
    BY <2>1 DEF EnsureSandboxDirs, Exclusion, LocksFollowCode, TypeOK,
       SessionAssumption
  <2>2. CASE LockOpen(p)
    BY <2>2 DEF LockOpen, Exclusion, LocksFollowCode, TypeOK,
       SessionAssumption
  <2>3. CASE LockFlock(p)
    BY <2>3 DEF LockFlock, NoOther, Exclusion, LocksFollowCode, TypeOK,
       SessionAssumption
  <2>4. CASE LockCheck(p)
    BY <2>4 DEF LockCheck, Exclusion, LocksFollowCode, TypeOK,
       SessionAssumption
  <2>5. CASE GateOpen(p)
    BY <2>5 DEF GateOpen, Exclusion, LocksFollowCode, TypeOK,
       SessionAssumption
  <2>6. CASE GateFlock(p)
    BY <2>6 DEF GateFlock, NoOther, Exclusion, LocksFollowCode, TypeOK,
       SessionAssumption
  <2>7. CASE ProbeOpen(p)
    BY <2>7 DEF ProbeOpen, Exclusion, LocksFollowCode, TypeOK,
       SessionAssumption
  <2>8. CASE ProbeFlock(p)
    BY <2>8 DEF ProbeFlock, NoOther, Exclusion, LocksFollowCode, TypeOK,
       SessionAssumption
  <2>9. CASE ProbeClose(p)
    BY <2>9 DEF ProbeClose, Exclusion, LocksFollowCode, TypeOK,
       SessionAssumption
  <2>10. CASE LiveOpen(p)
    BY <2>10 DEF LiveOpen, Exclusion, LocksFollowCode, TypeOK,
       SessionAssumption
  <2>11. CASE LiveFlock(p)
    BY <2>11 DEF LiveFlock, NoOther, Exclusion, LocksFollowCode, TypeOK,
       SessionAssumption
  <2>12. CASE LiveCheck(p)
    BY <2>12 DEF LiveCheck, Exclusion, LocksFollowCode, TypeOK,
       SessionAssumption
  <2>13. CASE GateClose(p)
    BY <2>13 DEF GateClose, Exclusion, LocksFollowCode, TypeOK,
       SessionAssumption
  <2>14. CASE FailShared(p)
    BY <2>14 DEF FailShared, Exclusion, LocksFollowCode, TypeOK,
       SessionAssumption
  <2> QED BY <1>1, <2>1, <2>2, <2>3, <2>4, <2>5, <2>6, <2>7, <2>8, <2>9, <2>10, <2>11, <2>12,
             <2>13, <2>14 DEF Acquire
<1>2. ASSUME NEW p \in Launch, Session(p) PROVE Exclusion'
  <2>1. CASE Designated(p)
    BY <2>1 DEF Designated, Exclusion, LocksFollowCode, TypeOK,
       SessionAssumption
  <2>2. CASE CleanRead(p)
    BY <2>2 DEF CleanRead, Exclusion, LocksFollowCode, TypeOK,
       SessionAssumption
  <2>3. CASE CleanRemove(p)
    BY <2>3 DEF CleanRemove, Exclusion, LocksFollowCode, TypeOK,
       SessionAssumption
  <2>4. CASE Run(p)
    BY <2>4 DEF Run, Exclusion, LocksFollowCode, TypeOK, SessionAssumption
  <2>5. CASE CleanupSessionOverlays(p)
    BY <2>5 DEF CleanupSessionOverlays, Exclusion, LocksFollowCode, TypeOK,
       SessionAssumption
  <2>6. CASE ReleaseLive(p)
    BY <2>6 DEF ReleaseLive, Exclusion, LocksFollowCode, TypeOK,
       SessionAssumption
  <2>7. CASE ReleaseShared(p)
    BY <2>7 DEF ReleaseShared, Exclusion, LocksFollowCode, TypeOK,
       SessionAssumption
  <2> QED BY <1>2, <2>1, <2>2, <2>3, <2>4, <2>5, <2>6, <2>7 DEF Session
<1>3. ASSUME NEW p \in Launch, RemoveSandboxIfIdle(p) PROVE Exclusion'
  <2>1. CASE RmOpen(p)
    BY <2>1 DEF RmOpen, Exclusion, LocksFollowCode, TypeOK, SessionAssumption
  <2>2. CASE RmFlock(p)
    BY <2>2 DEF RmFlock, NoOther, Exclusion, LocksFollowCode, TypeOK,
       SessionAssumption
  <2>3. CASE RmBefore(p)
    BY <2>3 DEF RmBefore, Exclusion, LocksFollowCode, TypeOK,
       SessionAssumption
  <2>4. CASE RmRename(p)
    BY <2>4 DEF RmRename, TakeRoot, Exclusion, LocksFollowCode, TypeOK,
       SessionAssumption
  <2>5. CASE RmClose(p)
    BY <2>5 DEF RmClose, Exclusion, LocksFollowCode, TypeOK, SessionAssumption
  <2>6. CASE RmDelete(p)
    BY <2>6 DEF RmDelete, Exclusion, LocksFollowCode, TypeOK,
       SessionAssumption
  <2> QED BY <1>3, <2>1, <2>2, <2>3, <2>4, <2>5, <2>6 DEF RemoveSandboxIfIdle
<1>4. ASSUME NEW p \in Pruner, Prune(p) PROVE Exclusion'
  <2>1. CASE PruneList(p)
    BY <2>1 DEF PruneList, Exclusion, LocksFollowCode, TypeOK,
       SessionAssumption
  <2>2. CASE PruneStranded(p)
    BY <2>2 DEF PruneStranded, Exclusion, LocksFollowCode, TypeOK,
       SessionAssumption
  <2>3. CASE PruneOpen(p)
    BY <2>3 DEF PruneOpen, Exclusion, LocksFollowCode, TypeOK,
       SessionAssumption
  <2>4. CASE PruneFlock(p)
    BY <2>4 DEF PruneFlock, NoOther, Exclusion, LocksFollowCode, TypeOK,
       SessionAssumption
  <2>5. CASE PruneUnlock(p)
    BY <2>5 DEF PruneUnlock, Exclusion, LocksFollowCode, TypeOK,
       SessionAssumption
  <2>6. CASE PruneRemove(p)
    BY <2>6 DEF PruneRemove, TakeRoot, Exclusion, LocksFollowCode, TypeOK,
       SessionAssumption
  <2>7. CASE PruneReclaim(p)
    BY <2>7 DEF PruneReclaim, Exclusion, LocksFollowCode, TypeOK,
       SessionAssumption
  <2> QED BY <1>4, <2>1, <2>2, <2>3, <2>4, <2>5, <2>6, <2>7 DEF Prune
<1>5. ASSUME NEW p \in Launch, Exit(p) PROVE Exclusion'
  BY <1>5 DEF Exit, Exclusion, LocksFollowCode, TypeOK, SessionAssumption
<1>6. ASSUME NEW p \in Pruner, PruneConfirm(p) PROVE Exclusion'
  BY <1>6 DEF PruneConfirm, Exclusion, LocksFollowCode, TypeOK,
     SessionAssumption
<1>7. ASSUME NEW p \in Proc, Crash(p) PROVE Exclusion'
  BY <1>7 DEF Crash, Dropped, Exclusion, LocksFollowCode, TypeOK,
     SessionAssumption
<1>8. CASE UNCHANGED vars
  BY <1>8 DEF vars, Exclusion, LocksFollowCode, TypeOK,
     SessionAssumption
<1> QED BY <1>1, <1>2, <1>3, <1>4, <1>5, <1>6, <1>7, <1>8 DEF Next

-----------------------------------------------------------------------------
(* The tree the locks lie in.  The root can only be taken when nobody holds
   it, and re-created when there is none: under a hold it does not move. *)

LEMMA InitHeld == Init => HeldInRoot
  BY DEF Init, HeldInRoot, HasHold

LEMMA NextHeld ==
  ASSUME TypeOK, LocksFollowCode, HeldInRoot, [Next]_vars
  PROVE  HeldInRoot'
<1>1. ASSUME NEW p \in Launch, Acquire(p) PROVE HeldInRoot'
  <2>1. CASE EnsureSandboxDirs(p)
    BY <2>1 DEF EnsureSandboxDirs, HeldInRoot, HasHold, LocksFollowCode,
       TypeOK, SessionAssumption
  <2>2. CASE LockOpen(p)
    BY <2>2 DEF LockOpen, HeldInRoot, HasHold, LocksFollowCode, TypeOK,
       SessionAssumption
  <2>3. CASE LockFlock(p)
    BY <2>3 DEF LockFlock, HeldInRoot, HasHold, LocksFollowCode, TypeOK,
       SessionAssumption
  <2>4. CASE LockCheck(p)
    BY <2>4 DEF LockCheck, HeldInRoot, HasHold, LocksFollowCode, TypeOK,
       SessionAssumption
  <2>5. CASE GateOpen(p)
    BY <2>5 DEF GateOpen, HeldInRoot, HasHold, LocksFollowCode, TypeOK,
       SessionAssumption
  <2>6. CASE GateFlock(p)
    BY <2>6 DEF GateFlock, HeldInRoot, HasHold, LocksFollowCode, TypeOK,
       SessionAssumption
  <2>7. CASE ProbeOpen(p)
    BY <2>7 DEF ProbeOpen, HeldInRoot, HasHold, LocksFollowCode, TypeOK,
       SessionAssumption
  <2>8. CASE ProbeFlock(p)
    BY <2>8 DEF ProbeFlock, HeldInRoot, HasHold, LocksFollowCode, TypeOK,
       SessionAssumption
  <2>9. CASE ProbeClose(p)
    BY <2>9 DEF ProbeClose, HeldInRoot, HasHold, LocksFollowCode, TypeOK,
       SessionAssumption
  <2>10. CASE LiveOpen(p)
    BY <2>10 DEF LiveOpen, HeldInRoot, HasHold, LocksFollowCode, TypeOK,
       SessionAssumption
  <2>11. CASE LiveFlock(p)
    BY <2>11 DEF LiveFlock, HeldInRoot, HasHold, LocksFollowCode, TypeOK,
       SessionAssumption
  <2>12. CASE LiveCheck(p)
    BY <2>12 DEF LiveCheck, HeldInRoot, HasHold, LocksFollowCode, TypeOK,
       SessionAssumption
  <2>13. CASE GateClose(p)
    BY <2>13 DEF GateClose, HeldInRoot, HasHold, LocksFollowCode, TypeOK,
       SessionAssumption
  <2>14. CASE FailShared(p)
    BY <2>14 DEF FailShared, HeldInRoot, HasHold, LocksFollowCode, TypeOK,
       SessionAssumption
  <2> QED BY <1>1, <2>1, <2>2, <2>3, <2>4, <2>5, <2>6, <2>7, <2>8, <2>9, <2>10, <2>11, <2>12,
             <2>13, <2>14 DEF Acquire
<1>2. ASSUME NEW p \in Launch, Session(p) PROVE HeldInRoot'
  <2>1. CASE Designated(p)
    BY <2>1 DEF Designated, HeldInRoot, HasHold, LocksFollowCode, TypeOK,
       SessionAssumption
  <2>2. CASE CleanRead(p)
    BY <2>2 DEF CleanRead, HeldInRoot, HasHold, LocksFollowCode, TypeOK,
       SessionAssumption
  <2>3. CASE CleanRemove(p)
    BY <2>3 DEF CleanRemove, HeldInRoot, HasHold, LocksFollowCode, TypeOK,
       SessionAssumption
  <2>4. CASE Run(p)
    BY <2>4 DEF Run, HeldInRoot, HasHold, LocksFollowCode, TypeOK,
       SessionAssumption
  <2>5. CASE CleanupSessionOverlays(p)
    BY <2>5 DEF CleanupSessionOverlays, HeldInRoot, HasHold, LocksFollowCode,
       TypeOK, SessionAssumption
  <2>6. CASE ReleaseLive(p)
    BY <2>6 DEF ReleaseLive, HeldInRoot, HasHold, LocksFollowCode, TypeOK,
       SessionAssumption
  <2>7. CASE ReleaseShared(p)
    BY <2>7 DEF ReleaseShared, HeldInRoot, HasHold, LocksFollowCode, TypeOK,
       SessionAssumption
  <2> QED BY <1>2, <2>1, <2>2, <2>3, <2>4, <2>5, <2>6, <2>7 DEF Session
<1>3. ASSUME NEW p \in Launch, RemoveSandboxIfIdle(p) PROVE HeldInRoot'
  <2>1. CASE RmOpen(p)
    BY <2>1 DEF RmOpen, HeldInRoot, HasHold, LocksFollowCode, TypeOK,
       SessionAssumption
  <2>2. CASE RmFlock(p)
    BY <2>2 DEF RmFlock, HeldInRoot, HasHold, LocksFollowCode, TypeOK,
       SessionAssumption
  <2>3. CASE RmBefore(p)
    BY <2>3 DEF RmBefore, HeldInRoot, HasHold, LocksFollowCode, TypeOK,
       SessionAssumption
  <2>4. CASE RmRename(p)
    <3>1. CASE root' = root /\ stolen' = stolen
      BY <2>4, <3>1 DEF RmRename, HeldInRoot, HasHold, LocksFollowCode, TypeOK,
         SessionAssumption
    <3>2. CASE root # NoTree /\ TakeRoot(p)
      <4>1. \A q \in Launch \ {p} : ~stolen' => ~HasHold(q)
        BY <3>2 DEF TakeRoot, HeldInRoot
      <4>2. p \in Launch => ~HasHold(p)
        BY <2>4 DEF RmRename, HasHold, LocksFollowCode
      <4>3. \A q \in Launch : HasHold(q)' => HasHold(q)
        BY <2>4 DEF RmRename, HasHold, LocksFollowCode, TypeOK,
           SessionAssumption
      <4> QED
        BY <4>1, <4>2, <4>3 DEF HeldInRoot
    <3> QED
      BY <2>4, <3>1, <3>2 DEF RmRename
  <2>5. CASE RmClose(p)
    BY <2>5 DEF RmClose, HeldInRoot, HasHold, LocksFollowCode, TypeOK,
       SessionAssumption
  <2>6. CASE RmDelete(p)
    BY <2>6 DEF RmDelete, HeldInRoot, HasHold, LocksFollowCode, TypeOK,
       SessionAssumption
  <2> QED BY <1>3, <2>1, <2>2, <2>3, <2>4, <2>5, <2>6 DEF RemoveSandboxIfIdle
<1>4. ASSUME NEW p \in Pruner, Prune(p) PROVE HeldInRoot'
  <2>1. CASE PruneList(p)
    BY <2>1 DEF PruneList, HeldInRoot, HasHold, LocksFollowCode, TypeOK,
       SessionAssumption
  <2>2. CASE PruneStranded(p)
    BY <2>2 DEF PruneStranded, HeldInRoot, HasHold, LocksFollowCode, TypeOK,
       SessionAssumption
  <2>3. CASE PruneOpen(p)
    BY <2>3 DEF PruneOpen, HeldInRoot, HasHold, LocksFollowCode, TypeOK,
       SessionAssumption
  <2>4. CASE PruneFlock(p)
    BY <2>4 DEF PruneFlock, HeldInRoot, HasHold, LocksFollowCode, TypeOK,
       SessionAssumption
  <2>5. CASE PruneUnlock(p)
    BY <2>5 DEF PruneUnlock, HeldInRoot, HasHold, LocksFollowCode, TypeOK,
       SessionAssumption
  <2>6. CASE PruneRemove(p)
    <3>1. CASE root' = root /\ stolen' = stolen
      BY <2>6, <3>1 DEF PruneRemove, HeldInRoot, HasHold, LocksFollowCode, TypeOK,
         SessionAssumption
    <3>2. CASE root # NoTree /\ TakeRoot(p)
      <4>1. \A q \in Launch \ {p} : ~stolen' => ~HasHold(q)
        BY <3>2 DEF TakeRoot, HeldInRoot
      <4>2. p \in Launch => ~HasHold(p)
        BY <2>6 DEF PruneRemove, HasHold, LocksFollowCode
      <4>3. \A q \in Launch : HasHold(q)' => HasHold(q)
        BY <2>6 DEF PruneRemove, HasHold, LocksFollowCode, TypeOK,
           SessionAssumption
      <4> QED
        BY <4>1, <4>2, <4>3 DEF HeldInRoot
    <3> QED
      BY <2>6, <3>1, <3>2 DEF PruneRemove
  <2>7. CASE PruneReclaim(p)
    BY <2>7 DEF PruneReclaim, HeldInRoot, HasHold, LocksFollowCode, TypeOK,
       SessionAssumption
  <2> QED BY <1>4, <2>1, <2>2, <2>3, <2>4, <2>5, <2>6, <2>7 DEF Prune
<1>5. ASSUME NEW p \in Launch, Exit(p) PROVE HeldInRoot'
  BY <1>5 DEF Exit, HeldInRoot, HasHold, LocksFollowCode, TypeOK,
     SessionAssumption
<1>6. ASSUME NEW p \in Pruner, PruneConfirm(p) PROVE HeldInRoot'
  BY <1>6 DEF PruneConfirm, HeldInRoot, HasHold, LocksFollowCode, TypeOK,
     SessionAssumption
<1>7. ASSUME NEW p \in Proc, Crash(p) PROVE HeldInRoot'
  BY <1>7 DEF Crash, Dropped, HeldInRoot, HasHold, LocksFollowCode, TypeOK,
     SessionAssumption
<1>8. CASE UNCHANGED vars
  BY <1>8 DEF vars, HeldInRoot, HasHold, LocksFollowCode,
     TypeOK, SessionAssumption
<1> QED BY <1>1, <1>2, <1>3, <1>4, <1>5, <1>6, <1>7, <1>8 DEF Next

-----------------------------------------------------------------------------
(* Alone, and at most one owner.  Whoever registers is inside the gate, and
   the gate lies in the root, so nobody else registers between a launch's
   question and its own registration. *)

LEMMA InitAlone == Init => AloneMeansAlone /\ AtMostOneOwner
  BY DEF Init, AloneMeansAlone, AtMostOneOwner, Owner

LEMMA NextAlone ==
  ASSUME TypeOK, LocksFollowCode, Exclusion, HeldInRoot,
         AloneMeansAlone, [Next]_vars
  PROVE  AloneMeansAlone'
<1>1. ASSUME NEW p \in Launch, Acquire(p) PROVE AloneMeansAlone'
  <2>1. CASE EnsureSandboxDirs(p)
    BY <2>1 DEF EnsureSandboxDirs, AloneMeansAlone, Exclusion, HeldInRoot,
       HasHold, LocksFollowCode, TypeOK, SessionAssumption
  <2>2. CASE LockOpen(p)
    BY <2>2 DEF LockOpen, AloneMeansAlone, Exclusion, HeldInRoot, HasHold,
       LocksFollowCode, TypeOK, SessionAssumption
  <2>3. CASE LockFlock(p)
    BY <2>3 DEF LockFlock, AloneMeansAlone, Exclusion, HeldInRoot, HasHold,
       LocksFollowCode, TypeOK, SessionAssumption
  <2>4. CASE LockCheck(p)
    BY <2>4 DEF LockCheck, AloneMeansAlone, Exclusion, HeldInRoot, HasHold,
       LocksFollowCode, TypeOK, SessionAssumption
  <2>5. CASE GateOpen(p)
    BY <2>5 DEF GateOpen, AloneMeansAlone, Exclusion, HeldInRoot, HasHold,
       LocksFollowCode, TypeOK, SessionAssumption
  <2>6. CASE GateFlock(p)
    BY <2>6 DEF GateFlock, AloneMeansAlone, Exclusion, HeldInRoot, HasHold,
       LocksFollowCode, TypeOK, SessionAssumption
  <2>7. CASE ProbeOpen(p)
    BY <2>7 DEF ProbeOpen, AloneMeansAlone, Exclusion, HeldInRoot, HasHold,
       LocksFollowCode, TypeOK, SessionAssumption
  <2>8. CASE ProbeFlock(p)
    BY <2>8 DEF ProbeFlock, NoOther, AloneMeansAlone, Exclusion, HeldInRoot,
       HasHold, LocksFollowCode, TypeOK, SessionAssumption
  <2>9. CASE ProbeClose(p)
    BY <2>9 DEF ProbeClose, AloneMeansAlone, Exclusion, HeldInRoot, HasHold,
       LocksFollowCode, TypeOK, SessionAssumption
  <2>10. CASE LiveOpen(p)
    BY <2>10 DEF LiveOpen, AloneMeansAlone, Exclusion, HeldInRoot, HasHold,
       LocksFollowCode, TypeOK, SessionAssumption
  <2>11. CASE LiveFlock(p)
    BY <2>11 DEF LiveFlock, AloneMeansAlone, Exclusion, HeldInRoot, HasHold,
       LocksFollowCode, TypeOK, SessionAssumption
  <2>12. CASE LiveCheck(p)
    BY <2>12 DEF LiveCheck, AloneMeansAlone, Exclusion, HeldInRoot, HasHold,
       LocksFollowCode, TypeOK, SessionAssumption
  <2>13. CASE GateClose(p)
    BY <2>13 DEF GateClose, AloneMeansAlone, Exclusion, HeldInRoot, HasHold,
       LocksFollowCode, TypeOK, SessionAssumption
  <2>14. CASE FailShared(p)
    BY <2>14 DEF FailShared, AloneMeansAlone, Exclusion, HeldInRoot, HasHold,
       LocksFollowCode, TypeOK, SessionAssumption
  <2> QED BY <1>1, <2>1, <2>2, <2>3, <2>4, <2>5, <2>6, <2>7, <2>8, <2>9, <2>10, <2>11, <2>12,
             <2>13, <2>14 DEF Acquire
<1>2. ASSUME NEW p \in Launch, Session(p) PROVE AloneMeansAlone'
  <2>1. CASE Designated(p)
    BY <2>1 DEF Designated, AloneMeansAlone, Exclusion, HeldInRoot, HasHold,
       LocksFollowCode, TypeOK, SessionAssumption
  <2>2. CASE CleanRead(p)
    BY <2>2 DEF CleanRead, AloneMeansAlone, Exclusion, HeldInRoot, HasHold,
       LocksFollowCode, TypeOK, SessionAssumption
  <2>3. CASE CleanRemove(p)
    BY <2>3 DEF CleanRemove, AloneMeansAlone, Exclusion, HeldInRoot, HasHold,
       LocksFollowCode, TypeOK, SessionAssumption
  <2>4. CASE Run(p)
    BY <2>4 DEF Run, AloneMeansAlone, Exclusion, HeldInRoot, HasHold,
       LocksFollowCode, TypeOK, SessionAssumption
  <2>5. CASE CleanupSessionOverlays(p)
    BY <2>5 DEF CleanupSessionOverlays, AloneMeansAlone, Exclusion,
       HeldInRoot, HasHold, LocksFollowCode, TypeOK, SessionAssumption
  <2>6. CASE ReleaseLive(p)
    BY <2>6 DEF ReleaseLive, AloneMeansAlone, Exclusion, HeldInRoot, HasHold,
       LocksFollowCode, TypeOK, SessionAssumption
  <2>7. CASE ReleaseShared(p)
    BY <2>7 DEF ReleaseShared, AloneMeansAlone, Exclusion, HeldInRoot,
       HasHold, LocksFollowCode, TypeOK, SessionAssumption
  <2> QED BY <1>2, <2>1, <2>2, <2>3, <2>4, <2>5, <2>6, <2>7 DEF Session
<1>3. ASSUME NEW p \in Launch, RemoveSandboxIfIdle(p) PROVE AloneMeansAlone'
  <2>1. CASE RmOpen(p)
    BY <2>1 DEF RmOpen, AloneMeansAlone, Exclusion, HeldInRoot, HasHold,
       LocksFollowCode, TypeOK, SessionAssumption
  <2>2. CASE RmFlock(p)
    BY <2>2 DEF RmFlock, AloneMeansAlone, Exclusion, HeldInRoot, HasHold,
       LocksFollowCode, TypeOK, SessionAssumption
  <2>3. CASE RmBefore(p)
    BY <2>3 DEF RmBefore, AloneMeansAlone, Exclusion, HeldInRoot, HasHold,
       LocksFollowCode, TypeOK, SessionAssumption
  <2>4. CASE RmRename(p)
    BY <2>4 DEF RmRename, TakeRoot, TakeRoot, AloneMeansAlone, Exclusion,
       HeldInRoot, HasHold, LocksFollowCode, TypeOK, SessionAssumption
  <2>5. CASE RmClose(p)
    BY <2>5 DEF RmClose, AloneMeansAlone, Exclusion, HeldInRoot, HasHold,
       LocksFollowCode, TypeOK, SessionAssumption
  <2>6. CASE RmDelete(p)
    BY <2>6 DEF RmDelete, AloneMeansAlone, Exclusion, HeldInRoot, HasHold,
       LocksFollowCode, TypeOK, SessionAssumption
  <2> QED BY <1>3, <2>1, <2>2, <2>3, <2>4, <2>5, <2>6 DEF RemoveSandboxIfIdle
<1>4. ASSUME NEW p \in Pruner, Prune(p) PROVE AloneMeansAlone'
  <2>1. CASE PruneList(p)
    BY <2>1 DEF PruneList, AloneMeansAlone, Exclusion, HeldInRoot, HasHold,
       LocksFollowCode, TypeOK, SessionAssumption
  <2>2. CASE PruneStranded(p)
    BY <2>2 DEF PruneStranded, AloneMeansAlone, Exclusion, HeldInRoot,
       HasHold, LocksFollowCode, TypeOK, SessionAssumption
  <2>3. CASE PruneOpen(p)
    BY <2>3 DEF PruneOpen, AloneMeansAlone, Exclusion, HeldInRoot, HasHold,
       LocksFollowCode, TypeOK, SessionAssumption
  <2>4. CASE PruneFlock(p)
    BY <2>4 DEF PruneFlock, AloneMeansAlone, Exclusion, HeldInRoot, HasHold,
       LocksFollowCode, TypeOK, SessionAssumption
  <2>5. CASE PruneUnlock(p)
    BY <2>5 DEF PruneUnlock, AloneMeansAlone, Exclusion, HeldInRoot, HasHold,
       LocksFollowCode, TypeOK, SessionAssumption
  <2>6. CASE PruneRemove(p)
    BY <2>6 DEF PruneRemove, TakeRoot, TakeRoot, AloneMeansAlone, Exclusion,
       HeldInRoot, HasHold, LocksFollowCode, TypeOK, SessionAssumption
  <2>7. CASE PruneReclaim(p)
    BY <2>7 DEF PruneReclaim, AloneMeansAlone, Exclusion, HeldInRoot, HasHold,
       LocksFollowCode, TypeOK, SessionAssumption
  <2> QED BY <1>4, <2>1, <2>2, <2>3, <2>4, <2>5, <2>6, <2>7 DEF Prune
<1>5. ASSUME NEW p \in Launch, Exit(p) PROVE AloneMeansAlone'
  BY <1>5 DEF Exit, AloneMeansAlone, Exclusion, HeldInRoot, HasHold,
     LocksFollowCode, TypeOK, SessionAssumption
<1>6. ASSUME NEW p \in Pruner, PruneConfirm(p) PROVE AloneMeansAlone'
  BY <1>6 DEF PruneConfirm, AloneMeansAlone, Exclusion, HeldInRoot, HasHold,
     LocksFollowCode, TypeOK, SessionAssumption
<1>7. ASSUME NEW p \in Proc, Crash(p) PROVE AloneMeansAlone'
  BY <1>7 DEF Crash, Dropped, AloneMeansAlone, Exclusion, HeldInRoot, HasHold,
     LocksFollowCode, TypeOK, SessionAssumption
<1>8. CASE UNCHANGED vars
  BY <1>8 DEF vars, AloneMeansAlone, Exclusion,
     HeldInRoot, HasHold, LocksFollowCode, TypeOK, SessionAssumption
<1> QED BY <1>1, <1>2, <1>3, <1>4, <1>5, <1>6, <1>7, <1>8 DEF Next

LEMMA NextOwner ==
  ASSUME TypeOK, LocksFollowCode, AloneMeansAlone, AtMostOneOwner, [Next]_vars
  PROVE  AtMostOneOwner'
<1>1. ASSUME NEW p \in Launch, Acquire(p) PROVE AtMostOneOwner'
  <2>1. CASE EnsureSandboxDirs(p)
    BY <2>1 DEF EnsureSandboxDirs, AtMostOneOwner, Owner, AloneMeansAlone,
       LocksFollowCode, TypeOK, SessionAssumption
  <2>2. CASE LockOpen(p)
    BY <2>2 DEF LockOpen, AtMostOneOwner, Owner, AloneMeansAlone,
       LocksFollowCode, TypeOK, SessionAssumption
  <2>3. CASE LockFlock(p)
    BY <2>3 DEF LockFlock, AtMostOneOwner, Owner, AloneMeansAlone,
       LocksFollowCode, TypeOK, SessionAssumption
  <2>4. CASE LockCheck(p)
    BY <2>4 DEF LockCheck, AtMostOneOwner, Owner, AloneMeansAlone,
       LocksFollowCode, TypeOK, SessionAssumption
  <2>5. CASE GateOpen(p)
    BY <2>5 DEF GateOpen, AtMostOneOwner, Owner, AloneMeansAlone,
       LocksFollowCode, TypeOK, SessionAssumption
  <2>6. CASE GateFlock(p)
    BY <2>6 DEF GateFlock, AtMostOneOwner, Owner, AloneMeansAlone,
       LocksFollowCode, TypeOK, SessionAssumption
  <2>7. CASE ProbeOpen(p)
    BY <2>7 DEF ProbeOpen, AtMostOneOwner, Owner, AloneMeansAlone,
       LocksFollowCode, TypeOK, SessionAssumption
  <2>8. CASE ProbeFlock(p)
    BY <2>8 DEF ProbeFlock, AtMostOneOwner, Owner, AloneMeansAlone,
       LocksFollowCode, TypeOK, SessionAssumption
  <2>9. CASE ProbeClose(p)
    BY <2>9 DEF ProbeClose, AtMostOneOwner, Owner, AloneMeansAlone,
       LocksFollowCode, TypeOK, SessionAssumption
  <2>10. CASE LiveOpen(p)
    BY <2>10 DEF LiveOpen, AtMostOneOwner, Owner, AloneMeansAlone,
       LocksFollowCode, TypeOK, SessionAssumption
  <2>11. CASE LiveFlock(p)
    BY <2>11 DEF LiveFlock, AtMostOneOwner, Owner, AloneMeansAlone,
       LocksFollowCode, TypeOK, SessionAssumption
  <2>12. CASE LiveCheck(p)
    BY <2>12 DEF LiveCheck, AtMostOneOwner, Owner, AloneMeansAlone,
       LocksFollowCode, TypeOK, SessionAssumption
  <2>13. CASE GateClose(p)
    BY <2>13 DEF GateClose, AtMostOneOwner, Owner, AloneMeansAlone,
       LocksFollowCode, TypeOK, SessionAssumption
  <2>14. CASE FailShared(p)
    BY <2>14 DEF FailShared, AtMostOneOwner, Owner, AloneMeansAlone,
       LocksFollowCode, TypeOK, SessionAssumption
  <2> QED BY <1>1, <2>1, <2>2, <2>3, <2>4, <2>5, <2>6, <2>7, <2>8, <2>9, <2>10, <2>11, <2>12,
             <2>13, <2>14 DEF Acquire
<1>2. ASSUME NEW p \in Launch, Session(p) PROVE AtMostOneOwner'
  <2>1. CASE Designated(p)
    BY <2>1 DEF Designated, AtMostOneOwner, Owner, AloneMeansAlone,
       LocksFollowCode, TypeOK, SessionAssumption
  <2>2. CASE CleanRead(p)
    BY <2>2 DEF CleanRead, AtMostOneOwner, Owner, AloneMeansAlone,
       LocksFollowCode, TypeOK, SessionAssumption
  <2>3. CASE CleanRemove(p)
    BY <2>3 DEF CleanRemove, AtMostOneOwner, Owner, AloneMeansAlone,
       LocksFollowCode, TypeOK, SessionAssumption
  <2>4. CASE Run(p)
    BY <2>4 DEF Run, AtMostOneOwner, Owner, AloneMeansAlone, LocksFollowCode,
       TypeOK, SessionAssumption
  <2>5. CASE CleanupSessionOverlays(p)
    BY <2>5 DEF CleanupSessionOverlays, AtMostOneOwner, Owner,
       AloneMeansAlone, LocksFollowCode, TypeOK, SessionAssumption
  <2>6. CASE ReleaseLive(p)
    BY <2>6 DEF ReleaseLive, AtMostOneOwner, Owner, AloneMeansAlone,
       LocksFollowCode, TypeOK, SessionAssumption
  <2>7. CASE ReleaseShared(p)
    BY <2>7 DEF ReleaseShared, AtMostOneOwner, Owner, AloneMeansAlone,
       LocksFollowCode, TypeOK, SessionAssumption
  <2> QED BY <1>2, <2>1, <2>2, <2>3, <2>4, <2>5, <2>6, <2>7 DEF Session
<1>3. ASSUME NEW p \in Launch, RemoveSandboxIfIdle(p) PROVE AtMostOneOwner'
  <2>1. CASE RmOpen(p)
    BY <2>1 DEF RmOpen, AtMostOneOwner, Owner, AloneMeansAlone,
       LocksFollowCode, TypeOK, SessionAssumption
  <2>2. CASE RmFlock(p)
    BY <2>2 DEF RmFlock, AtMostOneOwner, Owner, AloneMeansAlone,
       LocksFollowCode, TypeOK, SessionAssumption
  <2>3. CASE RmBefore(p)
    BY <2>3 DEF RmBefore, AtMostOneOwner, Owner, AloneMeansAlone,
       LocksFollowCode, TypeOK, SessionAssumption
  <2>4. CASE RmRename(p)
    BY <2>4 DEF RmRename, TakeRoot, AtMostOneOwner, Owner, AloneMeansAlone,
       LocksFollowCode, TypeOK, SessionAssumption
  <2>5. CASE RmClose(p)
    BY <2>5 DEF RmClose, AtMostOneOwner, Owner, AloneMeansAlone,
       LocksFollowCode, TypeOK, SessionAssumption
  <2>6. CASE RmDelete(p)
    BY <2>6 DEF RmDelete, AtMostOneOwner, Owner, AloneMeansAlone,
       LocksFollowCode, TypeOK, SessionAssumption
  <2> QED BY <1>3, <2>1, <2>2, <2>3, <2>4, <2>5, <2>6 DEF RemoveSandboxIfIdle
<1>4. ASSUME NEW p \in Pruner, Prune(p) PROVE AtMostOneOwner'
  <2>1. CASE PruneList(p)
    BY <2>1 DEF PruneList, AtMostOneOwner, Owner, AloneMeansAlone,
       LocksFollowCode, TypeOK, SessionAssumption
  <2>2. CASE PruneStranded(p)
    BY <2>2 DEF PruneStranded, AtMostOneOwner, Owner, AloneMeansAlone,
       LocksFollowCode, TypeOK, SessionAssumption
  <2>3. CASE PruneOpen(p)
    BY <2>3 DEF PruneOpen, AtMostOneOwner, Owner, AloneMeansAlone,
       LocksFollowCode, TypeOK, SessionAssumption
  <2>4. CASE PruneFlock(p)
    BY <2>4 DEF PruneFlock, AtMostOneOwner, Owner, AloneMeansAlone,
       LocksFollowCode, TypeOK, SessionAssumption
  <2>5. CASE PruneUnlock(p)
    BY <2>5 DEF PruneUnlock, AtMostOneOwner, Owner, AloneMeansAlone,
       LocksFollowCode, TypeOK, SessionAssumption
  <2>6. CASE PruneRemove(p)
    BY <2>6 DEF PruneRemove, TakeRoot, AtMostOneOwner, Owner, AloneMeansAlone,
       LocksFollowCode, TypeOK, SessionAssumption
  <2>7. CASE PruneReclaim(p)
    BY <2>7 DEF PruneReclaim, AtMostOneOwner, Owner, AloneMeansAlone,
       LocksFollowCode, TypeOK, SessionAssumption
  <2> QED BY <1>4, <2>1, <2>2, <2>3, <2>4, <2>5, <2>6, <2>7 DEF Prune
<1>5. ASSUME NEW p \in Launch, Exit(p) PROVE AtMostOneOwner'
  BY <1>5 DEF Exit, AtMostOneOwner, Owner, AloneMeansAlone, LocksFollowCode,
     TypeOK, SessionAssumption
<1>6. ASSUME NEW p \in Pruner, PruneConfirm(p) PROVE AtMostOneOwner'
  BY <1>6 DEF PruneConfirm, AtMostOneOwner, Owner, AloneMeansAlone,
     LocksFollowCode, TypeOK, SessionAssumption
<1>7. ASSUME NEW p \in Proc, Crash(p) PROVE AtMostOneOwner'
  BY <1>7 DEF Crash, Dropped, AtMostOneOwner, Owner, AloneMeansAlone,
     LocksFollowCode, TypeOK, SessionAssumption
<1>8. CASE UNCHANGED vars
  BY <1>8 DEF vars, AtMostOneOwner, Owner,
     AloneMeansAlone, LocksFollowCode, TypeOK, SessionAssumption
<1> QED BY <1>1, <1>2, <1>3, <1>4, <1>5, <1>6, <1>7, <1>8 DEF Next

-----------------------------------------------------------------------------
(* The inductive invariant and what follows from it *)

IInv == /\ TypeOK
        /\ LocksFollowCode
        /\ Exclusion
        /\ HeldInRoot
        /\ AloneMeansAlone
        /\ AtMostOneOwner

LEMMA Inductive == IInv /\ [Next]_vars => IInv'
  BY NextType, NextLocks, NextExclusion, NextHeld, NextAlone, NextOwner
     DEF IInv

LEMMA Invariance == Spec => []IInv
<1>1. Init => IInv
  BY InitType, InitLocks, InitExclusion, InitHeld, InitAlone DEF IInv
<1> QED
  BY <1>1, Inductive, PTL DEF Spec

\* Of all the launches that ever share a sandbox, at most one at a time writes
\* its persistent overlay, as long as nobody removed the root under a session.
THEOREM OneOwner == Spec => []AtMostOneOwner
<1>1. IInv => AtMostOneOwner
  BY DEF IInv
<1> QED
  BY Invariance, <1>1, PTL

\* What a launch has locked is what the sandbox root names.
THEOREM RootStays == Spec => []RootStaysUnderSession
<1>1. IInv => RootStaysUnderSession
  BY DEF IInv, HeldInRoot, RootStaysUnderSession
<1> QED
  BY Invariance, <1>1, PTL


LEMMA NextIdle ==
  ASSUME IInv, [Next]_vars
  PROVE  LockedRootIsIdle
<1>1. ASSUME NEW p \in Launch, Acquire(p) PROVE LockedRootIsIdle
  <2>1. CASE EnsureSandboxDirs(p)
    BY <2>1 DEF EnsureSandboxDirs, LockedRootIsIdle
  <2>2. CASE LockOpen(p)
    BY <2>2 DEF LockOpen, LockedRootIsIdle
  <2>3. CASE LockFlock(p)
    BY <2>3 DEF LockFlock, LockedRootIsIdle
  <2>4. CASE LockCheck(p)
    BY <2>4 DEF LockCheck, LockedRootIsIdle
  <2>5. CASE GateOpen(p)
    BY <2>5 DEF GateOpen, LockedRootIsIdle
  <2>6. CASE GateFlock(p)
    BY <2>6 DEF GateFlock, LockedRootIsIdle
  <2>7. CASE ProbeOpen(p)
    BY <2>7 DEF ProbeOpen, LockedRootIsIdle
  <2>8. CASE ProbeFlock(p)
    BY <2>8 DEF ProbeFlock, LockedRootIsIdle
  <2>9. CASE ProbeClose(p)
    BY <2>9 DEF ProbeClose, LockedRootIsIdle
  <2>10. CASE LiveOpen(p)
    BY <2>10 DEF LiveOpen, LockedRootIsIdle
  <2>11. CASE LiveFlock(p)
    BY <2>11 DEF LiveFlock, LockedRootIsIdle
  <2>12. CASE LiveCheck(p)
    BY <2>12 DEF LiveCheck, LockedRootIsIdle
  <2>13. CASE GateClose(p)
    BY <2>13 DEF GateClose, LockedRootIsIdle
  <2>14. CASE FailShared(p)
    BY <2>14 DEF FailShared, LockedRootIsIdle
  <2> QED BY <1>1, <2>1, <2>2, <2>3, <2>4, <2>5, <2>6, <2>7, <2>8, <2>9, <2>10, <2>11, <2>12,
             <2>13, <2>14 DEF Acquire
<1>2. ASSUME NEW p \in Launch, Session(p) PROVE LockedRootIsIdle
  <2>1. CASE Designated(p)
    BY <2>1 DEF Designated, LockedRootIsIdle
  <2>2. CASE CleanRead(p)
    BY <2>2 DEF CleanRead, LockedRootIsIdle
  <2>3. CASE CleanRemove(p)
    BY <2>3 DEF CleanRemove, LockedRootIsIdle
  <2>4. CASE Run(p)
    BY <2>4 DEF Run, LockedRootIsIdle
  <2>5. CASE CleanupSessionOverlays(p)
    BY <2>5 DEF CleanupSessionOverlays, LockedRootIsIdle
  <2>6. CASE ReleaseLive(p)
    BY <2>6 DEF ReleaseLive, LockedRootIsIdle
  <2>7. CASE ReleaseShared(p)
    BY <2>7 DEF ReleaseShared, LockedRootIsIdle
  <2> QED BY <1>2, <2>1, <2>2, <2>3, <2>4, <2>5, <2>6, <2>7 DEF Session
<1>3. ASSUME NEW p \in Launch, RemoveSandboxIfIdle(p) PROVE LockedRootIsIdle
  <2>1. CASE RmOpen(p)
    BY <2>1 DEF RmOpen, LockedRootIsIdle
  <2>2. CASE RmFlock(p)
    BY <2>2 DEF RmFlock, LockedRootIsIdle
  <2>3. CASE RmBefore(p)
    BY <2>3 DEF RmBefore, LockedRootIsIdle
  <2>4. CASE RmRename(p)
    <3>1. (stolen' = stolen) \/ TakeRoot(p)
      BY <2>4 DEF RmRename
    <3>2. \A r \in Proc : (lockEx[r] # NoTree /\ lockEx[r] = root) =>
            \A q \in Launch : lockSh[q] # root
      BY DEF IInv, Exclusion
    <3>3. stolen \in BOOLEAN
      BY DEF IInv, TypeOK
    <3> QED
      BY <3>1, <3>2, <3>3 DEF TakeRoot, LockedRootIsIdle
  <2>5. CASE RmClose(p)
    BY <2>5 DEF RmClose, LockedRootIsIdle
  <2>6. CASE RmDelete(p)
    BY <2>6 DEF RmDelete, LockedRootIsIdle
  <2> QED BY <1>3, <2>1, <2>2, <2>3, <2>4, <2>5, <2>6 DEF RemoveSandboxIfIdle
<1>4. ASSUME NEW p \in Pruner, Prune(p) PROVE LockedRootIsIdle
  <2>1. CASE PruneList(p)
    BY <2>1 DEF PruneList, LockedRootIsIdle
  <2>2. CASE PruneStranded(p)
    BY <2>2 DEF PruneStranded, LockedRootIsIdle
  <2>3. CASE PruneOpen(p)
    BY <2>3 DEF PruneOpen, LockedRootIsIdle
  <2>4. CASE PruneFlock(p)
    BY <2>4 DEF PruneFlock, LockedRootIsIdle
  <2>5. CASE PruneUnlock(p)
    BY <2>5 DEF PruneUnlock, LockedRootIsIdle
  <2>6. CASE PruneRemove(p)
    <3>1. (stolen' = stolen) \/ TakeRoot(p)
      BY <2>6 DEF PruneRemove
    <3>2. \A r \in Proc : (lockEx[r] # NoTree /\ lockEx[r] = root) =>
            \A q \in Launch : lockSh[q] # root
      BY DEF IInv, Exclusion
    <3>3. stolen \in BOOLEAN
      BY DEF IInv, TypeOK
    <3> QED
      BY <3>1, <3>2, <3>3 DEF TakeRoot, LockedRootIsIdle
  <2>7. CASE PruneReclaim(p)
    BY <2>7 DEF PruneReclaim, LockedRootIsIdle
  <2> QED BY <1>4, <2>1, <2>2, <2>3, <2>4, <2>5, <2>6, <2>7 DEF Prune
<1>5. ASSUME NEW p \in Launch, Exit(p) PROVE LockedRootIsIdle
  BY <1>5 DEF Exit, LockedRootIsIdle
<1>6. ASSUME NEW p \in Pruner, PruneConfirm(p) PROVE LockedRootIsIdle
  BY <1>6 DEF PruneConfirm, LockedRootIsIdle
<1>7. ASSUME NEW p \in Proc, Crash(p) PROVE LockedRootIsIdle
  BY <1>7 DEF Crash, LockedRootIsIdle
<1>8. CASE UNCHANGED vars
  BY <1>8 DEF vars, LockedRootIsIdle
<1> QED BY <1>1, <1>2, <1>3, <1>4, <1>5, <1>6, <1>7, <1>8 DEF Next

\* A --rm teardown that holds the lock of the tree at the root takes it from
\* no session, and no prune does so meanwhile.
THEOREM IdleTeardown == Spec => TeardownTakesIdleTree
<1>1. IInv /\ [Next]_vars => LockedRootIsIdle
  BY NextIdle
<1> QED
  BY Invariance, <1>1, PTL DEF Spec, TeardownTakesIdleTree

LEMMA NextBeside ==
  ASSUME IInv, [Next]_vars
  PROVE  AskedBesideLive
<1>1. ASSUME NEW p \in Launch, Acquire(p) PROVE AskedBesideLive
  <2>1. CASE EnsureSandboxDirs(p)
    BY <2>1 DEF EnsureSandboxDirs, AskedBesideLive, IInv, TypeOK,
       SessionAssumption
  <2>2. CASE LockOpen(p)
    BY <2>2 DEF LockOpen, AskedBesideLive, IInv, TypeOK, SessionAssumption
  <2>3. CASE LockFlock(p)
    BY <2>3 DEF LockFlock, AskedBesideLive, IInv, TypeOK, SessionAssumption
  <2>4. CASE LockCheck(p)
    BY <2>4 DEF LockCheck, AskedBesideLive, IInv, TypeOK, SessionAssumption
  <2>5. CASE GateOpen(p)
    BY <2>5 DEF GateOpen, AskedBesideLive, IInv, TypeOK, SessionAssumption
  <2>6. CASE GateFlock(p)
    BY <2>6 DEF GateFlock, AskedBesideLive, IInv, TypeOK, SessionAssumption
  <2>7. CASE ProbeOpen(p)
    BY <2>7 DEF ProbeOpen, AskedBesideLive, IInv, TypeOK, SessionAssumption
  <2>8. CASE ProbeFlock(p)
    <3> SUFFICES ASSUME NEW q \in Launch, pc[q] = "probeFlock",
                        pc'[q] = "liveOpen", ~stolen
                 PROVE  \E r \in Launch \ {q} : live[r] = root
      BY DEF AskedBesideLive
    <3>1. q = p /\ fd[p] = root /\ gate[p] = root
      BY <2>8 DEF ProbeFlock, IInv, TypeOK, LocksFollowCode, HeldInRoot,
         HasHold
    <3>2. \A r \in Launch : liveEx[r] = root => r = p
      BY <3>1 DEF IInv, LocksFollowCode, Exclusion, HeldInRoot, HasHold
    <3> QED
      BY <2>8, <3>1, <3>2 DEF ProbeFlock, NoOther, IInv, TypeOK
  <2>9. CASE ProbeClose(p)
    BY <2>9 DEF ProbeClose, AskedBesideLive, IInv, TypeOK, SessionAssumption
  <2>10. CASE LiveOpen(p)
    BY <2>10 DEF LiveOpen, AskedBesideLive, IInv, TypeOK, SessionAssumption
  <2>11. CASE LiveFlock(p)
    BY <2>11 DEF LiveFlock, AskedBesideLive, IInv, TypeOK, SessionAssumption
  <2>12. CASE LiveCheck(p)
    BY <2>12 DEF LiveCheck, AskedBesideLive, IInv, TypeOK, SessionAssumption
  <2>13. CASE GateClose(p)
    BY <2>13 DEF GateClose, AskedBesideLive, IInv, TypeOK, SessionAssumption
  <2>14. CASE FailShared(p)
    BY <2>14 DEF FailShared, AskedBesideLive, IInv, TypeOK, SessionAssumption
  <2> QED BY <1>1, <2>1, <2>2, <2>3, <2>4, <2>5, <2>6, <2>7, <2>8, <2>9, <2>10, <2>11, <2>12,
             <2>13, <2>14 DEF Acquire
<1>2. ASSUME NEW p \in Launch, Session(p) PROVE AskedBesideLive
  <2>1. CASE Designated(p)
    BY <2>1 DEF Designated, AskedBesideLive, IInv, TypeOK, SessionAssumption
  <2>2. CASE CleanRead(p)
    BY <2>2 DEF CleanRead, AskedBesideLive, IInv, TypeOK, SessionAssumption
  <2>3. CASE CleanRemove(p)
    BY <2>3 DEF CleanRemove, AskedBesideLive, IInv, TypeOK, SessionAssumption
  <2>4. CASE Run(p)
    BY <2>4 DEF Run, AskedBesideLive, IInv, TypeOK, SessionAssumption
  <2>5. CASE CleanupSessionOverlays(p)
    BY <2>5 DEF CleanupSessionOverlays, AskedBesideLive, IInv, TypeOK,
       SessionAssumption
  <2>6. CASE ReleaseLive(p)
    BY <2>6 DEF ReleaseLive, AskedBesideLive, IInv, TypeOK, SessionAssumption
  <2>7. CASE ReleaseShared(p)
    BY <2>7 DEF ReleaseShared, AskedBesideLive, IInv, TypeOK,
       SessionAssumption
  <2> QED BY <1>2, <2>1, <2>2, <2>3, <2>4, <2>5, <2>6, <2>7 DEF Session
<1>3. ASSUME NEW p \in Launch, RemoveSandboxIfIdle(p) PROVE AskedBesideLive
  <2>1. CASE RmOpen(p)
    BY <2>1 DEF RmOpen, AskedBesideLive, IInv, TypeOK, SessionAssumption
  <2>2. CASE RmFlock(p)
    BY <2>2 DEF RmFlock, AskedBesideLive, IInv, TypeOK, SessionAssumption
  <2>3. CASE RmBefore(p)
    BY <2>3 DEF RmBefore, AskedBesideLive, IInv, TypeOK, SessionAssumption
  <2>4. CASE RmRename(p)
    BY <2>4 DEF RmRename, TakeRoot, AskedBesideLive, IInv, TypeOK,
       SessionAssumption
  <2>5. CASE RmClose(p)
    BY <2>5 DEF RmClose, AskedBesideLive, IInv, TypeOK, SessionAssumption
  <2>6. CASE RmDelete(p)
    BY <2>6 DEF RmDelete, AskedBesideLive, IInv, TypeOK, SessionAssumption
  <2> QED BY <1>3, <2>1, <2>2, <2>3, <2>4, <2>5, <2>6 DEF RemoveSandboxIfIdle
<1>4. ASSUME NEW p \in Pruner, Prune(p) PROVE AskedBesideLive
  <2>1. CASE PruneList(p)
    BY <2>1 DEF PruneList, AskedBesideLive, IInv, TypeOK, SessionAssumption
  <2>2. CASE PruneStranded(p)
    BY <2>2 DEF PruneStranded, AskedBesideLive, IInv, TypeOK,
       SessionAssumption
  <2>3. CASE PruneOpen(p)
    BY <2>3 DEF PruneOpen, AskedBesideLive, IInv, TypeOK, SessionAssumption
  <2>4. CASE PruneFlock(p)
    BY <2>4 DEF PruneFlock, AskedBesideLive, IInv, TypeOK, SessionAssumption
  <2>5. CASE PruneUnlock(p)
    BY <2>5 DEF PruneUnlock, AskedBesideLive, IInv, TypeOK, SessionAssumption
  <2>6. CASE PruneRemove(p)
    BY <2>6 DEF PruneRemove, TakeRoot, AskedBesideLive, IInv, TypeOK,
       SessionAssumption
  <2>7. CASE PruneReclaim(p)
    BY <2>7 DEF PruneReclaim, AskedBesideLive, IInv, TypeOK, SessionAssumption
  <2> QED BY <1>4, <2>1, <2>2, <2>3, <2>4, <2>5, <2>6, <2>7 DEF Prune
<1>5. ASSUME NEW p \in Launch, Exit(p) PROVE AskedBesideLive
  BY <1>5 DEF Exit, AskedBesideLive, IInv, TypeOK, SessionAssumption
<1>6. ASSUME NEW p \in Pruner, PruneConfirm(p) PROVE AskedBesideLive
  BY <1>6 DEF PruneConfirm, AskedBesideLive, IInv, TypeOK, SessionAssumption
<1>7. ASSUME NEW p \in Proc, Crash(p) PROVE AskedBesideLive
  BY <1>7 DEF Crash, AskedBesideLive, IInv, TypeOK, SessionAssumption
<1>8. CASE UNCHANGED vars
  BY <1>8 DEF vars, AskedBesideLive, IInv, TypeOK,
     SessionAssumption
<1> QED BY <1>1, <1>2, <1>3, <1>4, <1>5, <1>6, <1>7, <1>8 DEF Next

\* A launch is designated concurrent only beside a registered session.
THEOREM BesideLive == Spec => ConcurrentOnlyBesideLive
<1>1. IInv /\ [Next]_vars => AskedBesideLive
  BY NextBeside
<1> QED
  BY Invariance, <1>1, PTL DEF Spec, ConcurrentOnlyBesideLive

-----------------------------------------------------------------------------
(* What a prune reclaims: a process that is gone stays gone, so a staged tree
   listed after the end of its teardown still has no owner when it is deleted *)

ListedGone == \A r \in Pruner : \A s \in snapshot[r] : ~Alive(s[2])

\* Of a step by p: p was alive, and nobody else moves.
Moves(p) ==
  /\ Alive(p)
  /\ \A q \in Proc \ {p} : pc'[q] = pc[q]

StagedStays ==
  \A s \in staged \ staged' :
    ~Alive(s[2]) \/ (pc[s[2]] = "rmDelete" /\ pc'[s[2]] # pc[s[2]])

OnlyTheGone ==
  /\ \A q \in Proc : ~Alive(q) => ~Alive(q)'
  /\ \A r \in Pruner : \A s \in snapshot'[r] : s \in snapshot[r] \/ ~Alive(s[2])
  /\ StagedStays

LEMMA MoverStays ==
  ASSUME NEW p \in Proc, Moves(p)
  PROVE  \A q \in Proc : ~Alive(q) => ~Alive(q)'
BY DEF Moves, Alive

LEMMA NextGone ==
  ASSUME TypeOK, ListedGone, [Next]_vars
  PROVE  OnlyTheGone
<1> USE DEF Proc
<1>  /\ pc \in [Proc -> LaunchPC \cup PrunePC]
      /\ snapshot \in [Proc -> SUBSET (Tree \X Launch)]
  BY DEF TypeOK
<1>1. ASSUME NEW p \in Launch, Acquire(p) PROVE OnlyTheGone
  <2>1. CASE EnsureSandboxDirs(p)
    <3>1. Moves(p) /\ snapshot' = snapshot /\ staged \subseteq staged'
      BY <2>1 DEF EnsureSandboxDirs, Goto, Moves, Alive, treeVars
    <3> QED BY <3>1, MoverStays DEF OnlyTheGone, StagedStays
  <2>2. CASE LockOpen(p)
    <3>1. Moves(p) /\ snapshot' = snapshot /\ staged \subseteq staged'
      BY <2>2 DEF LockOpen, OpenShared, Retry, Goto, Moves, Alive, treeVars
    <3> QED BY <3>1, MoverStays DEF OnlyTheGone, StagedStays
  <2>3. CASE LockFlock(p)
    <3>1. Moves(p) /\ snapshot' = snapshot /\ staged \subseteq staged'
      BY <2>3 DEF LockFlock, Retry, Goto, Moves, Alive, treeVars
    <3> QED BY <3>1, MoverStays DEF OnlyTheGone, StagedStays
  <2>4. CASE LockCheck(p)
    <3>1. Moves(p) /\ snapshot' = snapshot /\ staged \subseteq staged'
      BY <2>4 DEF LockCheck, Retry, Proceed, Goto, Moves, Alive, treeVars
    <3> QED BY <3>1, MoverStays DEF OnlyTheGone, StagedStays
  <2>5. CASE GateOpen(p)
    <3>1. Moves(p) /\ snapshot' = snapshot /\ staged \subseteq staged'
      BY <2>5 DEF GateOpen, Goto, Moves, Alive, treeVars
    <3> QED BY <3>1, MoverStays DEF OnlyTheGone, StagedStays
  <2>6. CASE GateFlock(p)
    <3>1. Moves(p) /\ snapshot' = snapshot /\ staged \subseteq staged'
      BY <2>6 DEF GateFlock, Retry, Proceed, Goto, Moves, Alive, treeVars
    <3> QED BY <3>1, MoverStays DEF OnlyTheGone, StagedStays
  <2>7. CASE ProbeOpen(p)
    <3>1. Moves(p) /\ snapshot' = snapshot /\ staged \subseteq staged'
      BY <2>7 DEF ProbeOpen, Goto, Moves, Alive, treeVars
    <3> QED BY <3>1, MoverStays DEF OnlyTheGone, StagedStays
  <2>8. CASE ProbeFlock(p)
    <3>1. Moves(p) /\ snapshot' = snapshot /\ staged \subseteq staged'
      BY <2>8 DEF ProbeFlock, Goto, Moves, Alive, treeVars
    <3> QED BY <3>1, MoverStays DEF OnlyTheGone, StagedStays
  <2>9. CASE ProbeClose(p)
    <3>1. Moves(p) /\ snapshot' = snapshot /\ staged \subseteq staged'
      BY <2>9 DEF ProbeClose, Goto, Moves, Alive, treeVars
    <3> QED BY <3>1, MoverStays DEF OnlyTheGone, StagedStays
  <2>10. CASE LiveOpen(p)
    <3>1. Moves(p) /\ snapshot' = snapshot /\ staged \subseteq staged'
      BY <2>10 DEF LiveOpen, OpenShared, Retry, Goto, Moves, Alive, treeVars
    <3> QED BY <3>1, MoverStays DEF OnlyTheGone, StagedStays
  <2>11. CASE LiveFlock(p)
    <3>1. Moves(p) /\ snapshot' = snapshot /\ staged \subseteq staged'
      BY <2>11 DEF LiveFlock, Retry, Goto, Moves, Alive, treeVars
    <3> QED BY <3>1, MoverStays DEF OnlyTheGone, StagedStays
  <2>12. CASE LiveCheck(p)
    <3>1. Moves(p) /\ snapshot' = snapshot /\ staged \subseteq staged'
      BY <2>12 DEF LiveCheck, Retry, Proceed, Goto, Moves, Alive, treeVars
    <3> QED BY <3>1, MoverStays DEF OnlyTheGone, StagedStays
  <2>13. CASE GateClose(p)
    <3>1. Moves(p) /\ snapshot' = snapshot /\ staged \subseteq staged'
      BY <2>13 DEF GateClose, Goto, Moves, Alive, treeVars
    <3> QED BY <3>1, MoverStays DEF OnlyTheGone, StagedStays
  <2>14. CASE FailShared(p)
    <3>1. Moves(p) /\ snapshot' = snapshot /\ staged \subseteq staged'
      BY <2>14 DEF FailShared, Goto, Moves, Alive, treeVars
    <3> QED BY <3>1, MoverStays DEF OnlyTheGone, StagedStays
  <2> QED BY <1>1, <2>1, <2>2, <2>3, <2>4, <2>5, <2>6, <2>7, <2>8, <2>9, <2>10, <2>11,
             <2>12, <2>13, <2>14 DEF Acquire
<1>2. ASSUME NEW p \in Launch, Session(p) PROVE OnlyTheGone
  <2>1. CASE Designated(p)
    <3>1. Moves(p) /\ snapshot' = snapshot /\ staged \subseteq staged'
      BY <2>1 DEF Designated, Goto, Moves, Alive, treeVars
    <3> QED BY <3>1, MoverStays DEF OnlyTheGone, StagedStays
  <2>2. CASE CleanRead(p)
    <3>1. Moves(p) /\ staged' = staged
      BY <2>2 DEF CleanRead, Goto, Moves, Alive, treeVars
    <3>2. \A r \in Pruner : snapshot'[r] = snapshot[r]
      BY <2>2, SessionAssumption DEF CleanRead
    <3> QED BY <3>1, <3>2, MoverStays DEF OnlyTheGone, StagedStays
  <2>3. CASE CleanRemove(p)
    <3>1. Moves(p) /\ staged' = staged
      BY <2>3 DEF CleanRemove, Goto, Moves, Alive, treeVars
    <3>2. \A r \in Pruner : snapshot'[r] = snapshot[r]
      BY <2>3, SessionAssumption DEF CleanRemove
    <3> QED BY <3>1, <3>2, MoverStays DEF OnlyTheGone, StagedStays
  <2>4. CASE Run(p)
    <3>1. Moves(p) /\ snapshot' = snapshot /\ staged \subseteq staged'
      BY <2>4 DEF Run, Goto, Moves, Alive, treeVars
    <3> QED BY <3>1, MoverStays DEF OnlyTheGone, StagedStays
  <2>5. CASE CleanupSessionOverlays(p)
    <3>1. Moves(p) /\ snapshot' = snapshot /\ staged \subseteq staged'
      BY <2>5 DEF CleanupSessionOverlays, Goto, Moves, Alive, treeVars
    <3> QED BY <3>1, MoverStays DEF OnlyTheGone, StagedStays
  <2>6. CASE ReleaseLive(p)
    <3>1. Moves(p) /\ snapshot' = snapshot /\ staged \subseteq staged'
      BY <2>6 DEF ReleaseLive, Goto, Moves, Alive, treeVars
    <3> QED BY <3>1, MoverStays DEF OnlyTheGone, StagedStays
  <2>7. CASE ReleaseShared(p)
    <3>1. Moves(p) /\ snapshot' = snapshot /\ staged \subseteq staged'
      BY <2>7 DEF ReleaseShared, Goto, Moves, Alive, treeVars
    <3> QED BY <3>1, MoverStays DEF OnlyTheGone, StagedStays
  <2> QED BY <1>2, <2>1, <2>2, <2>3, <2>4, <2>5, <2>6, <2>7 DEF Session
<1>3. ASSUME NEW p \in Launch, RemoveSandboxIfIdle(p) PROVE OnlyTheGone
  <2>1. CASE RmOpen(p)
    <3>1. Moves(p) /\ snapshot' = snapshot /\ staged \subseteq staged'
      BY <2>1 DEF RmOpen, Goto, Moves, Alive, treeVars
    <3> QED BY <3>1, MoverStays DEF OnlyTheGone, StagedStays
  <2>2. CASE RmFlock(p)
    <3>1. Moves(p) /\ snapshot' = snapshot /\ staged \subseteq staged'
      BY <2>2 DEF RmFlock, Goto, Moves, Alive, treeVars
    <3> QED BY <3>1, MoverStays DEF OnlyTheGone, StagedStays
  <2>3. CASE RmBefore(p)
    <3>1. Moves(p) /\ snapshot' = snapshot /\ staged \subseteq staged'
      BY <2>3 DEF RmBefore, Goto, Moves, Alive, treeVars
    <3> QED BY <3>1, MoverStays DEF OnlyTheGone, StagedStays
  <2>4. CASE RmRename(p)
    <3>1. Moves(p) /\ snapshot' = snapshot /\ staged \subseteq staged'
      BY <2>4 DEF RmRename, Goto, Moves, Alive, treeVars
    <3> QED BY <3>1, MoverStays DEF OnlyTheGone, StagedStays
  <2>5. CASE RmClose(p)
    <3>1. Moves(p) /\ snapshot' = snapshot /\ staged \subseteq staged'
      BY <2>5 DEF RmClose, Goto, Moves, Alive, treeVars
    <3> QED BY <3>1, MoverStays DEF OnlyTheGone, StagedStays
  <2>6. CASE RmDelete(p)
    <3>1. pc[p] = "rmDelete" /\ Goto(p, "done") /\ snapshot' = snapshot
      BY <2>6 DEF RmDelete
    <3>2. Moves(p) /\ pc'[p] = "done"
      BY <3>1 DEF Goto, Moves, Alive
    <3>3. \A s \in staged \ staged' : s[2] = p
      BY <2>6 DEF RmDelete
    <3> QED BY <3>1, <3>2, <3>3, MoverStays DEF OnlyTheGone, StagedStays
  <2> QED BY <1>3, <2>1, <2>2, <2>3, <2>4, <2>5, <2>6 DEF RemoveSandboxIfIdle
<1>4. ASSUME NEW p \in Pruner, Prune(p) PROVE OnlyTheGone
  <2>1. CASE PruneList(p)
    <3>1. Moves(p) /\ snapshot' = snapshot /\ staged \subseteq staged'
      BY <2>1 DEF PruneList, Goto, Moves, Alive, treeVars
    <3> QED BY <3>1, MoverStays DEF OnlyTheGone, StagedStays
  <2>2. CASE PruneStranded(p)
    <3>1. Moves(p) /\ staged' = staged
      BY <2>2 DEF PruneStranded, Goto, Moves, Alive, treeVars
    <3>2. \A r \in Pruner : \A s \in snapshot'[r] : s \in snapshot[r] \/ ~Alive(s[2])
      BY <2>2 DEF PruneStranded
    <3> QED BY <3>1, <3>2, MoverStays DEF OnlyTheGone, StagedStays
  <2>3. CASE PruneOpen(p)
    <3>1. Moves(p) /\ snapshot' = snapshot /\ staged \subseteq staged'
      BY <2>3 DEF PruneOpen, Goto, Moves, Alive, treeVars
    <3> QED BY <3>1, MoverStays DEF OnlyTheGone, StagedStays
  <2>4. CASE PruneFlock(p)
    <3>1. Moves(p) /\ snapshot' = snapshot /\ staged \subseteq staged'
      BY <2>4 DEF PruneFlock, Goto, Moves, Alive, treeVars
    <3> QED BY <3>1, MoverStays DEF OnlyTheGone, StagedStays
  <2>5. CASE PruneUnlock(p)
    <3>1. Moves(p) /\ snapshot' = snapshot /\ staged \subseteq staged'
      BY <2>5 DEF PruneUnlock, Goto, Moves, Alive, treeVars
    <3> QED BY <3>1, MoverStays DEF OnlyTheGone, StagedStays
  <2>6. CASE PruneRemove(p)
    <3>1. Moves(p) /\ snapshot' = snapshot /\ staged \subseteq staged'
      BY <2>6 DEF PruneRemove, Goto, Moves, Alive, treeVars
    <3> QED BY <3>1, MoverStays DEF OnlyTheGone, StagedStays
  <2>7. CASE PruneReclaim(p)
    <3>1. /\ pc[p] = "prReclaim" /\ Goto(p, "done")
          /\ snapshot' = [snapshot EXCEPT ![p] = {}]
      BY <2>7 DEF PruneReclaim
    <3>2. Moves(p)
      BY <3>1 DEF Goto, Moves, Alive
    <3>3. \A r \in Pruner : snapshot'[r] \subseteq snapshot[r]
      BY <3>1
    <3>4. staged \ staged' \subseteq snapshot[p]
      BY <2>7 DEF PruneReclaim
    <3> QED BY <1>4, <3>2, <3>3, <3>4, MoverStays DEF ListedGone, OnlyTheGone, StagedStays
  <2> QED BY <1>4, <2>1, <2>2, <2>3, <2>4, <2>5, <2>6, <2>7 DEF Prune
<1>5. ASSUME NEW p \in Launch, Exit(p) PROVE OnlyTheGone
  <2>1. Moves(p) /\ snapshot' = snapshot /\ staged' = staged
    BY <1>5 DEF Exit, Goto, Moves, Alive, treeVars
  <2> QED BY <2>1, MoverStays DEF OnlyTheGone, StagedStays
<1>6. ASSUME NEW p \in Pruner, PruneConfirm(p) PROVE OnlyTheGone
  <2>1. Moves(p) /\ snapshot' = snapshot /\ staged' = staged
    BY <1>6 DEF PruneConfirm, Goto, Moves, Alive, treeVars
  <2> QED BY <2>1, MoverStays DEF OnlyTheGone, StagedStays
<1>7. ASSUME NEW p \in Proc, Crash(p) PROVE OnlyTheGone
  <2>1. Moves(p) /\ snapshot' = snapshot /\ staged' = staged
    BY <1>7 DEF Crash, Goto, Moves, Alive, treeVars
  <2> QED BY <2>1, MoverStays DEF OnlyTheGone, StagedStays
<1>8. CASE UNCHANGED vars
  BY <1>8 DEF vars, OnlyTheGone, StagedStays, Alive
<1> QED BY <1>1, <1>2, <1>3, <1>4, <1>5, <1>6, <1>7, <1>8 DEF Next

LEMMA NextListed ==
  ASSUME TypeOK, TypeOK', ListedGone, [Next]_vars
  PROVE  ListedGone'
<1>1. OnlyTheGone
  BY NextGone
<1> SUFFICES ASSUME NEW r \in Pruner, NEW s \in snapshot'[r] PROVE ~Alive(s[2])'
  BY DEF ListedGone
<1>2. s[2] \in Proc
  BY DEF TypeOK, Proc
<1>3. ~Alive(s[2])
  BY <1>1 DEF OnlyTheGone, ListedGone
<1> QED BY <1>1, <1>2, <1>3 DEF OnlyTheGone

\* A staged tree is deleted by the teardown that staged it, as it ends, or once the
\* process of that teardown is gone: a prune that acts on a list it made long ago,
\* and asks for nothing again, still takes no tree from a teardown under way.
THEOREM ReclaimsAbandoned == Spec => ReclaimOnlyAbandoned
<1>1. Init => ListedGone
  BY DEF Init, ListedGone, Proc
<1>2. TypeOK /\ TypeOK' /\ ListedGone /\ [Next]_vars => ListedGone'
  BY NextListed
<1>3. TypeOK /\ ListedGone /\ [Next]_vars => StagedStays
  BY NextGone DEF OnlyTheGone
<1>4. StagedStays =>
        [\A s \in staged \ staged' :
           ~Alive(s[2]) \/ (pc[s[2]] = "rmDelete" /\ pc'[s[2]] # pc[s[2]])]_vars
  BY DEF StagedStays
<1>5. Spec => []ListedGone
  BY TypeCorrect, <1>1, <1>2, PTL DEF Spec
<1> QED BY TypeCorrect, <1>3, <1>4, <1>5, PTL DEF Spec, ReclaimOnlyAbandoned

-----------------------------------------------------------------------------
(* Refinement *)

USE DEF Ownership!vars

OwnershipStep == Ownership!Next \/ UNCHANGED Ownership!vars

\* A step that moves no registration and keeps the root is no step of the
\* abstract specification.
LEMMA Silent ==
  ASSUME (root' = NoTree) <=> (root = NoTree), stolen' = stolen, live' = live,
         \A q \in Launch : alone'[q] = alone[q] \/ live[q] = NoTree
  PROVE  OwnershipStep
<1>1. \A q \in Launch : Owner(q)' <=> Owner(q)
  BY DEF Owner
<1>2. {q \in Launch : Owner(q)}' = {q \in Launch : Owner(q)}
  BY <1>1
<1>3. (root # NoTree)' = (root # NoTree)
  OBVIOUS
<1> QED
  BY <1>2, <1>3 DEF OwnershipStep

LEMMA Broken == ASSUME stolen' = TRUE PROVE OwnershipStep
  BY DEF OwnershipStep, Ownership!Next, Ownership!Break

\* Creating the root when there is none.
LEMMA Created ==
  ASSUME MkdirRoot, stolen' = stolen, live' = live, alone' = alone
  PROVE  OwnershipStep
<1>1. CASE root' = root
  BY <1>1, Silent
<1>2. CASE root' # root
  <2>1. root = NoTree /\ root' # NoTree
    BY <1>2 DEF SessionAssumption
  <2>2. Ownership!Create
    BY <2>1 DEF Ownership!Create, Owner
  <2> QED
    BY <2>2 DEF OwnershipStep, Ownership!Next
<1> QED
  BY <1>1, <1>2

\* p lets go of .sessions.lock.
LEMMA Left ==
  ASSUME IInv, NEW p \in Launch, live' = [live EXCEPT ![p] = NoTree],
         root' = root, stolen' = stolen, alone' = alone
  PROVE  OwnershipStep
<1>1. CASE live[p] = NoTree
  <2>1. live' = live
    BY <1>1 DEF IInv, TypeOK
  <2> QED
    BY <2>1, Silent
<1>2. CASE live[p] # NoTree
  <2>1. {q \in Launch : live'[q] # NoTree}
          = {q \in Launch : live[q] # NoTree} \ {p}
    BY DEF IInv, TypeOK
  <2>2. {q \in Launch : Owner(q)}' = {q \in Launch : Owner(q)} \ {p}
    BY DEF Owner, IInv, TypeOK
  <2>3. Ownership!Leave(p)
    BY <1>2, <2>1, <2>2 DEF Ownership!Leave
  <2> QED
    BY <2>3 DEF OwnershipStep, Ownership!Next
<1> QED
  BY <1>1, <1>2

\* The root goes away.
LEMMA Taken ==
  ASSUME IInv, NEW p \in Proc, p \in Launch => ~HasHold(p), TakeRoot(p),
         live' = live, alone' = alone
  PROVE  OwnershipStep
<1>1. CASE stolen' = TRUE
  BY <1>1, Broken
<1>2. CASE stolen' # TRUE
  <2>1. stolen = FALSE /\ stolen' = FALSE
    BY <1>2 DEF TakeRoot, IInv, TypeOK
  <2>2. \A q \in Launch : ~HasHold(q)
    BY <2>1 DEF TakeRoot, IInv, HeldInRoot
  <2>3. \A q \in Launch : live[q] = NoTree
    BY <2>2 DEF HasHold, IInv, LocksFollowCode
  <2>4. {q \in Launch : Owner(q)}' = {q \in Launch : Owner(q)}
    BY <2>3 DEF Owner
  <2>5. Ownership!Remove
    BY <2>1, <2>3, <2>4 DEF Ownership!Remove, TakeRoot
  <2> QED
    BY <2>5 DEF OwnershipStep, Ownership!Next
<1> QED
  BY <1>1, <1>2

\* p registers in .sessions.lock.
LEMMA Joined ==
  ASSUME IInv, NEW p \in Launch, LiveFlock(p)
  PROVE  OwnershipStep
<1>1. CASE stolen
  BY <1>1, Broken DEF LiveFlock, IInv, TypeOK
<1>2. CASE ~stolen /\ live' = live
  BY <1>2, Silent DEF LiveFlock
<1>3. CASE ~stolen /\ live' # live
  <2>1. live' = [live EXCEPT ![p] = root] /\ root # NoTree
    BY <1>3 DEF LiveFlock, IInv, LocksFollowCode, HeldInRoot, HasHold
  <2>2. live[p] = NoTree
    BY DEF LiveFlock, IInv, LocksFollowCode
  <2>3. {q \in Launch : live'[q] # NoTree}
          = {q \in Launch : live[q] # NoTree} \cup {p}
    BY <2>1 DEF IInv, TypeOK
  <2>4. UNCHANGED <<root, stolen, alone>>
    BY DEF LiveFlock
  <2>5. CASE alone[p]
    <3>1. \A q \in Launch \ {p} : live[q] = NoTree
      BY <1>3, <2>5 DEF LiveFlock, IInv, AloneMeansAlone
    <3>2. {q \in Launch : Owner(q)}' = {p}
      BY <2>1, <2>4, <2>5, <3>1 DEF Owner, IInv, TypeOK
    <3>3. Ownership!Join(p)
      BY <2>1, <2>2, <2>3, <2>4, <3>1, <3>2 DEF Ownership!Join
    <3> QED
      BY <3>3 DEF OwnershipStep, Ownership!Next
  <2>6. CASE ~alone[p]
    <3>1. {q \in Launch : Owner(q)}' = {q \in Launch : Owner(q)}
      BY <2>1, <2>4, <2>6 DEF Owner, IInv, TypeOK
    <3>2. Ownership!Join(p)
      BY <2>1, <2>2, <2>3, <2>4, <3>1 DEF Ownership!Join
    <3> QED
      BY <3>2 DEF OwnershipStep, Ownership!Next
  <2> QED
    BY <2>5, <2>6
<1> QED
  BY <1>1, <1>2, <1>3

LEMMA NextRefines ==
  ASSUME IInv, [Next]_vars
  PROVE  OwnershipStep
<1>1. ASSUME NEW p \in Launch, Acquire(p) PROVE OwnershipStep
  <2>1. CASE EnsureSandboxDirs(p)
    BY <2>1, Created DEF EnsureSandboxDirs
  <2>2. CASE LockOpen(p)
    BY <2>2, Created DEF LockOpen
  <2>3. CASE LockFlock(p)
    BY <2>3, Silent DEF LockFlock
  <2>4. CASE LockCheck(p)
    BY <2>4, Silent DEF LockCheck
  <2>5. CASE GateOpen(p)
    BY <2>5, Silent DEF GateOpen
  <2>6. CASE GateFlock(p)
    BY <2>6, Silent DEF GateFlock
  <2>7. CASE ProbeOpen(p)
    BY <2>7, Silent DEF ProbeOpen
  <2>8. CASE ProbeFlock(p)
    <3>1. live[p] = NoTree
      BY <2>8 DEF ProbeFlock, IInv, LocksFollowCode
    <3>2. \A q \in Launch : alone'[q] = alone[q] \/ live[q] = NoTree
      BY <2>8, <3>1 DEF ProbeFlock, IInv, TypeOK
    <3> QED
      BY <2>8, <3>2, Silent DEF ProbeFlock
  <2>9. CASE ProbeClose(p)
    BY <2>9, Silent DEF ProbeClose
  <2>10. CASE LiveOpen(p)
    BY <2>10, Created DEF LiveOpen
  <2>11. CASE LiveFlock(p)
    BY <2>11, Joined
  <2>12. CASE LiveCheck(p)
    <3>1. CASE live' = live
      BY <2>12, <3>1, Silent DEF LiveCheck
    <3>2. CASE live' # live
      BY <2>12, <3>2, Left DEF LiveCheck
    <3> QED
      BY <3>1, <3>2
  <2>13. CASE GateClose(p)
    BY <2>13, Silent DEF GateClose
  <2>14. CASE FailShared(p)
    BY <2>14, Silent DEF FailShared
  <2> QED BY <1>1, <2>1, <2>2, <2>3, <2>4, <2>5, <2>6, <2>7, <2>8, <2>9, <2>10, <2>11, <2>12,
             <2>13, <2>14 DEF Acquire
<1>2. ASSUME NEW p \in Launch, Session(p) PROVE OwnershipStep
  <2>1. CASE Designated(p)
    BY <2>1, Silent DEF Designated
  <2>2. CASE CleanRead(p)
    BY <2>2, Silent DEF CleanRead
  <2>3. CASE CleanRemove(p)
    BY <2>3, Silent DEF CleanRemove
  <2>4. CASE Run(p)
    <3>1. CASE root' = root
      BY <2>4, <3>1, Silent DEF Run
    <3>2. CASE MkdirRoot
      BY <2>4, <3>2, Created DEF Run
    <3> QED
      BY <2>4, <3>1, <3>2 DEF Run
  <2>5. CASE CleanupSessionOverlays(p)
    BY <2>5, Silent DEF CleanupSessionOverlays
  <2>6. CASE ReleaseLive(p)
    BY <2>6, Left DEF ReleaseLive
  <2>7. CASE ReleaseShared(p)
    BY <2>7, Silent DEF ReleaseShared
  <2> QED BY <1>2, <2>1, <2>2, <2>3, <2>4, <2>5, <2>6, <2>7 DEF Session
<1>3. ASSUME NEW p \in Launch, RemoveSandboxIfIdle(p) PROVE OwnershipStep
  <2>1. CASE RmOpen(p)
    BY <2>1, Silent DEF RmOpen
  <2>2. CASE RmFlock(p)
    BY <2>2, Silent DEF RmFlock
  <2>3. CASE RmBefore(p)
    BY <2>3, Silent DEF RmBefore
  <2>4. CASE RmRename(p)
    <3>1. CASE root' = root /\ stolen' = stolen
      BY <2>4, <3>1, Silent DEF RmRename
    <3>2. CASE TakeRoot(p)
      <4>1. p \in Launch => ~HasHold(p)
        BY <2>4 DEF RmRename, IInv, LocksFollowCode, HasHold, SessionAssumption
      <4> QED
        BY <2>4, <3>2, <4>1, Taken DEF RmRename
    <3> QED
      BY <2>4, <3>1, <3>2 DEF RmRename
  <2>5. CASE RmClose(p)
    BY <2>5, Silent DEF RmClose
  <2>6. CASE RmDelete(p)
    BY <2>6, Silent DEF RmDelete
  <2> QED BY <1>3, <2>1, <2>2, <2>3, <2>4, <2>5, <2>6 DEF RemoveSandboxIfIdle
<1>4. ASSUME NEW p \in Pruner, Prune(p) PROVE OwnershipStep
  <2>1. CASE PruneList(p)
    <3>1. \A q \in Launch : alone'[q] = alone[q]
      BY <2>1 DEF PruneList, IInv, TypeOK, SessionAssumption
    <3> QED
      BY <2>1, <3>1, Silent DEF PruneList
  <2>2. CASE PruneStranded(p)
    BY <2>2, Silent DEF PruneStranded
  <2>3. CASE PruneOpen(p)
    BY <2>3, Silent DEF PruneOpen
  <2>4. CASE PruneFlock(p)
    <3>1. \A q \in Launch : alone'[q] = alone[q]
      BY <2>4 DEF PruneFlock, IInv, TypeOK, SessionAssumption
    <3> QED
      BY <2>4, <3>1, Silent DEF PruneFlock
  <2>5. CASE PruneUnlock(p)
    BY <2>5, Silent DEF PruneUnlock
  <2>6. CASE PruneRemove(p)
    <3>1. CASE root' = root /\ stolen' = stolen
      BY <2>6, <3>1, Silent DEF PruneRemove
    <3>2. CASE TakeRoot(p)
      <4>1. p \in Launch => ~HasHold(p)
        BY <2>6 DEF PruneRemove, IInv, LocksFollowCode, HasHold, SessionAssumption
      <4> QED
        BY <2>6, <3>2, <4>1, Taken DEF PruneRemove
    <3> QED
      BY <2>6, <3>1, <3>2 DEF PruneRemove
  <2>7. CASE PruneReclaim(p)
    BY <2>7, Silent DEF PruneReclaim
  <2> QED BY <1>4, <2>1, <2>2, <2>3, <2>4, <2>5, <2>6, <2>7 DEF Prune
<1>5. ASSUME NEW p \in Launch, Exit(p) PROVE OwnershipStep
  BY <1>5, Silent DEF Exit
<1>6. ASSUME NEW p \in Pruner, PruneConfirm(p) PROVE OwnershipStep
  BY <1>6, Silent DEF PruneConfirm
<1>7. ASSUME NEW p \in Proc, Crash(p) PROVE OwnershipStep
  <2>1. CASE p \in Launch
    BY <1>7, <2>1, Left DEF Crash, Dropped, IInv, TypeOK
  <2>2. CASE p \notin Launch
    BY <1>7, <2>2, Silent DEF Crash, Dropped, IInv, TypeOK
  <2> QED
    BY <2>1, <2>2
<1>8. CASE UNCHANGED vars
  BY <1>8, Silent DEF vars
<1> QED BY <1>1, <1>2, <1>3, <1>4, <1>5, <1>6, <1>7, <1>8 DEF Next

\* The locks keep the promise of SandboxOwnership: every step of every launch,
\* teardown and prune joins, leaves, creates, removes while nobody is in,
\* breaks the promise for good, or does nothing to it.
THEOREM Implements == Spec => Refinement
<1>1. Init => Ownership!Init
  BY DEF Init, Ownership!Init, Owner
<1>2. IInv /\ [Next]_vars => [Ownership!Next]_Ownership!vars
  BY NextRefines DEF OwnershipStep
<1> QED
  BY Invariance, <1>1, <1>2, PTL DEF Spec, Refinement, Ownership!Spec
=============================================================================
