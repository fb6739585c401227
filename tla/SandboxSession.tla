--------------------------- MODULE SandboxSession ---------------------------
(***************************************************************************)
(* The hold a devsandbox launch takes on the on-disk state of its sandbox, *)
(* from AcquireSession to the --rm teardown, and the prune command that    *)
(* removes sandboxes from outside (internal/sandbox/lock.go, and its       *)
(* callers in cmd/devsandbox/main.go and sandboxes.go).                    *)
(*                                                                         *)
(* The sandbox root is a path.  What the path names is a `tree', an inode  *)
(* identity: a teardown renames the tree aside and the next launch makes a *)
(* new one.  Each tree holds three lock files, .lock, .primary.lock and    *)
(* .sessions.lock; no code unlinks one on its own, so a lock file is       *)
(* identified with its tree.  Locks are flock(2) locks, always taken with  *)
(* LOCK_NB and dropped by the kernel when their holder dies.               *)
(*                                                                         *)
(* Opening a lock file (a path lookup) and locking it (on the inode that   *)
(* was opened) are two steps: the path can be renamed in between.          *)
(***************************************************************************)
EXTENDS Naturals

CONSTANTS
  Launch,                 \* processes launching a sandbox for one project
  Pruner,                 \* `devsandbox sandboxes prune' processes
  Bwrap,                  \* the launches on the bwrap backend
  Rm,                     \* the launches given --rm
  Tree, NoTree,           \* directory identities the root path can name
  SharedLockRetries,      \* 751 in the source
  DesignationGateRetries  \* 50 in the source

ASSUME SessionAssumption ==
  /\ Launch \cap Pruner = {}
  /\ Bwrap \subseteq Launch
  /\ Rm \subseteq Launch
  /\ NoTree \notin Tree
  /\ SharedLockRetries \in Nat \ {0}
  /\ DesignationGateRetries \in Nat \ {0}

Proc == Launch \cup Pruner
MaybeTree == Tree \cup {NoTree}

VARIABLES
  root,        \* the tree the sandbox root names, or NoTree
  used,        \* trees created so far
  staged,      \* pairs <<tree, pid>> under the .removing directory
  sessionDirs, \* pairs <<tree, launch>>: overlay/sessions/<id> directories
  pc,          \* where each process is
  attempt,     \* attempts made by the retry loop the process is in
  fd,          \* a lock file opened and not yet locked
  lockSh,      \* .lock held shared
  lockEx,      \* .lock held exclusively
  gate,        \* .primary.lock held exclusively
  live,        \* .sessions.lock held shared
  liveEx,      \* .sessions.lock held exclusively, by the probe
  alone,       \* the probe found nobody: SessionHandle.primary for a launch,
               \* ~Metadata.Active for a prune
  snapshot,    \* directory entries a cleanup or a prune has read
  stolen       \* history: the root was removed under a verified hold

treeVars == <<root, used, staged>>
lockVars == <<lockSh, lockEx, gate, live, liveEx>>
vars == <<root, used, staged, sessionDirs, pc, attempt, fd, lockSh, lockEx,
          gate, live, liveEx, alone, snapshot, stolen>>

-----------------------------------------------------------------------------
(* Types and roles *)

\* Inside AcquireSession, with .lock held and verified.
Acquiring == {"gateOpen", "gateFlock", "probeOpen", "probeFlock",
              "probeClose", "liveOpen", "liveFlock", "liveCheck"}
\* Holding a SessionHandle.
Holding == {"gateClose", "designated", "cleanRead", "cleanRemove", "ready",
            "running", "exit", "relLive"}
Teardown == {"rmOpen", "rmFlock", "rmBefore", "rmRename", "rmClose",
             "rmDelete"}

LaunchPC == {"start", "lockOpen", "lockFlock", "lockCheck"} \cup Acquiring
            \cup Holding \cup {"relShared", "failGate", "failShared"}
            \cup Teardown \cup {"done", "dead"}
PrunePC == {"start", "prStranded", "prOpen", "prFlock", "prUnlock",
            "prConfirm", "prRemove", "prReclaim", "done", "dead"}

TypeOK ==
  /\ root \in MaybeTree
  /\ used \subseteq Tree
  /\ staged \subseteq Tree \X Launch
  /\ sessionDirs \subseteq Tree \X Launch
  /\ pc \in [Proc -> LaunchPC \cup PrunePC]
  /\ attempt \in [Launch -> {n \in Nat : \/ n < SharedLockRetries
                                      \/ n < DesignationGateRetries}]
  /\ fd \in [Proc -> MaybeTree]
  /\ lockSh \in [Launch -> MaybeTree]
  /\ lockEx \in [Proc -> MaybeTree]
  /\ gate \in [Launch -> MaybeTree]
  /\ live \in [Launch -> MaybeTree]
  /\ liveEx \in [Launch -> MaybeTree]
  /\ alone \in [Proc -> BOOLEAN]
  /\ snapshot \in [Proc -> SUBSET (Tree \X Launch)]
  /\ stolen \in BOOLEAN

\* Config.IsConcurrent: only bwrap launches are rerouted.
IsConcurrent(p) == p \in Bwrap /\ ~alone[p]

\* p has .lock, and has checked that it still lies at the root path.
HasHold(p) == lockSh[p] # NoTree /\ pc[p] # "lockCheck"

Alive(p) == pc[p] \notin {"done", "dead"}

Init ==
  /\ root \in MaybeTree
  /\ used = {root} \ {NoTree}
  /\ staged = {}
  /\ sessionDirs = {}
  /\ pc = [p \in Proc |-> "start"]
  /\ attempt = [p \in Launch |-> 0]
  /\ fd = [p \in Proc |-> NoTree]
  /\ lockSh = [p \in Launch |-> NoTree]
  /\ lockEx = [p \in Proc |-> NoTree]
  /\ gate = [p \in Launch |-> NoTree]
  /\ live = [p \in Launch |-> NoTree]
  /\ liveEx = [p \in Launch |-> NoTree]
  /\ alone = [p \in Proc |-> FALSE]
  /\ snapshot = [p \in Proc |-> {}]
  /\ stolen = FALSE

-----------------------------------------------------------------------------
(* Directory and flock primitives *)

Goto(p, there) == pc' = [pc EXCEPT ![p] = there]

\* os.MkdirAll(sandboxRoot): a no-op when the path names a directory.
MkdirRoot ==
  IF root # NoTree
  THEN UNCHANGED <<root, used>>
  ELSE \E t \in Tree \ used : root' = t /\ used' = used \cup {t}

\* No process but p has its hold h on tree t.
NoOther(h, p, t) == \A q \in DOMAIN h \ {p} : h[q] # t

\* The root goes away, under whoever holds it.
TakeRoot(p) ==
  /\ root' = NoTree
  /\ stolen' = (stolen \/ \E q \in Launch \ {p} :
                             HasHold(q) /\ lockSh[q] = root)

\* Mutant: one attempt too many.
Retry_OffByOne(p, limit, again, giveUp) ==
  IF attempt[p] < limit
  THEN Goto(p, again) /\ attempt' = [attempt EXCEPT ![p] = @ + 1]
  ELSE Goto(p, giveUp) /\ attempt' = [attempt EXCEPT ![p] = 0]

\* A failed attempt of a loop that makes `limit' attempts in all.
Retry(p, limit, again, giveUp) ==
  IF attempt[p] + 1 < limit
  THEN Goto(p, again) /\ attempt' = [attempt EXCEPT ![p] = @ + 1]
  ELSE Goto(p, giveUp) /\ attempt' = [attempt EXCEPT ![p] = 0]

\* An attempt that succeeded; the next loop starts from zero.
Proceed(p, there) ==
  /\ Goto(p, there)
  /\ attempt' = [attempt EXCEPT ![p] = 0]

-----------------------------------------------------------------------------
(* AcquireSession *)

\* runSandbox creates the sandbox directories before it designates.
EnsureSandboxDirs(p) ==
  /\ pc[p] = "start"
  /\ MkdirRoot
  /\ Goto(p, "lockOpen")
  /\ UNCHANGED <<staged, sessionDirs, attempt, fd, lockVars, alone, snapshot,
                 stolen>>

\* acquireSharedLock, once for .lock and once for .sessions.lock: open the
\* path (creating the file, and on ENOENT the root), lock, check that the
\* path still names what was locked.
OpenShared(p, open, flock, giveUp) ==
  /\ pc[p] = open
  /\ MkdirRoot
  /\ IF root # NoTree
     THEN /\ fd' = [fd EXCEPT ![p] = root]
          /\ Goto(p, flock)
          /\ UNCHANGED attempt
     ELSE /\ UNCHANGED fd
          /\ Retry(p, SharedLockRetries, open, giveUp)
  /\ UNCHANGED <<staged, sessionDirs, lockVars, alone, snapshot, stolen>>

LockOpen(p) == OpenShared(p, "lockOpen", "lockFlock", "done")
LiveOpen(p) == OpenShared(p, "liveOpen", "liveFlock", "failGate")

LockFlock(p) ==
  /\ pc[p] = "lockFlock"
  /\ IF NoOther(lockEx, p, fd[p])
     THEN /\ lockSh' = [lockSh EXCEPT ![p] = fd[p]]
          /\ Goto(p, "lockCheck")
          /\ UNCHANGED attempt
     ELSE /\ UNCHANGED lockSh
          /\ Retry(p, SharedLockRetries, "lockOpen", "done")
  /\ fd' = [fd EXCEPT ![p] = NoTree]
  /\ UNCHANGED <<treeVars, sessionDirs, lockEx, gate, live, liveEx, alone,
                 snapshot, stolen>>

\* Mutant: a flock is taken for proof that the file still lies at the path.
LockCheck_NoSameFile(p) ==
  /\ pc[p] = "lockCheck"
  /\ Proceed(p, "gateOpen")
  /\ UNCHANGED <<treeVars, sessionDirs, fd, lockVars, alone, snapshot, stolen>>

\* sameFileAt
LockCheck(p) ==
  /\ pc[p] = "lockCheck"
  /\ IF lockSh[p] = root
     THEN Proceed(p, "gateOpen") /\ UNCHANGED lockSh
     ELSE /\ lockSh' = [lockSh EXCEPT ![p] = NoTree]
          /\ Retry(p, SharedLockRetries, "lockOpen", "done")
  /\ UNCHANGED <<treeVars, sessionDirs, fd, lockEx, gate, live, liveEx, alone,
                 snapshot, stolen>>

\* acquireDesignationGate: only contention is retried, a missing root is not.
GateOpen(p) ==
  /\ pc[p] = "gateOpen"
  /\ IF root # NoTree
     THEN fd' = [fd EXCEPT ![p] = root] /\ Goto(p, "gateFlock")
     ELSE UNCHANGED fd /\ Goto(p, "failShared")
  /\ UNCHANGED <<treeVars, sessionDirs, attempt, lockVars, alone, snapshot,
                 stolen>>

\* Mutant: the gate is taken shared.
GateFlock_Shared(p) ==
  /\ pc[p] = "gateFlock"
  /\ gate' = [gate EXCEPT ![p] = fd[p]]
  /\ Proceed(p, "probeOpen")
  /\ fd' = [fd EXCEPT ![p] = NoTree]
  /\ UNCHANGED <<treeVars, sessionDirs, lockSh, lockEx, live, liveEx, alone,
                 snapshot, stolen>>

GateFlock(p) ==
  /\ pc[p] = "gateFlock"
  /\ IF NoOther(gate, p, fd[p])
     THEN gate' = [gate EXCEPT ![p] = fd[p]] /\ Proceed(p, "probeOpen")
     ELSE /\ UNCHANGED gate
          /\ Retry(p, DesignationGateRetries, "gateOpen", "failShared")
  /\ fd' = [fd EXCEPT ![p] = NoTree]
  /\ UNCHANGED <<treeVars, sessionDirs, lockSh, lockEx, live, liveEx, alone,
                 snapshot, stolen>>

\* noOtherSessionIsLive: take .sessions.lock exclusively, and let it go.
ProbeOpen(p) ==
  /\ pc[p] = "probeOpen"
  /\ IF root # NoTree
     THEN fd' = [fd EXCEPT ![p] = root] /\ Goto(p, "probeFlock")
     ELSE UNCHANGED fd /\ Goto(p, "failGate")
  /\ UNCHANGED <<treeVars, sessionDirs, attempt, lockVars, alone, snapshot,
                 stolen>>

\* Mutant: the probe asks .lock, which teardowns and lists take as well.
ProbeFlock_SessionLock(p) ==
  /\ pc[p] = "probeFlock"
  /\ IF NoOther(lockSh, p, fd[p]) /\ NoOther(lockEx, p, fd[p])
     THEN /\ liveEx' = [liveEx EXCEPT ![p] = fd[p]]
          /\ alone' = [alone EXCEPT ![p] = TRUE]
          /\ Goto(p, "probeClose")
     ELSE /\ UNCHANGED liveEx
          /\ alone' = [alone EXCEPT ![p] = FALSE]
          /\ Goto(p, "liveOpen")
  /\ fd' = [fd EXCEPT ![p] = NoTree]
  /\ UNCHANGED <<treeVars, sessionDirs, attempt, lockSh, lockEx, gate, live,
                 snapshot, stolen>>

ProbeFlock(p) ==
  /\ pc[p] = "probeFlock"
  /\ IF NoOther(live, p, fd[p]) /\ NoOther(liveEx, p, fd[p])
     THEN /\ liveEx' = [liveEx EXCEPT ![p] = fd[p]]
          /\ alone' = [alone EXCEPT ![p] = TRUE]
          /\ Goto(p, "probeClose")
     ELSE /\ UNCHANGED liveEx
          /\ alone' = [alone EXCEPT ![p] = FALSE]
          /\ Goto(p, "liveOpen")
  /\ fd' = [fd EXCEPT ![p] = NoTree]
  /\ UNCHANGED <<treeVars, sessionDirs, attempt, lockSh, lockEx, gate, live,
                 snapshot, stolen>>

\* Mutant: the gate is released with the probe, before the registration.
ProbeClose_OpensGate(p) ==
  /\ pc[p] = "probeClose"
  /\ liveEx' = [liveEx EXCEPT ![p] = NoTree]
  /\ gate' = [gate EXCEPT ![p] = NoTree]
  /\ Goto(p, "liveOpen")
  /\ UNCHANGED <<treeVars, sessionDirs, attempt, fd, lockSh, lockEx, live,
                 alone, snapshot, stolen>>

ProbeClose(p) ==
  /\ pc[p] = "probeClose"
  /\ liveEx' = [liveEx EXCEPT ![p] = NoTree]
  /\ Goto(p, "liveOpen")
  /\ UNCHANGED <<treeVars, sessionDirs, attempt, fd, lockSh, lockEx, gate,
                 live, alone, snapshot, stolen>>

LiveFlock(p) ==
  /\ pc[p] = "liveFlock"
  /\ IF NoOther(liveEx, p, fd[p])
     THEN /\ live' = [live EXCEPT ![p] = fd[p]]
          /\ Goto(p, "liveCheck")
          /\ UNCHANGED attempt
     ELSE /\ UNCHANGED live
          /\ Retry(p, SharedLockRetries, "liveOpen", "failGate")
  /\ fd' = [fd EXCEPT ![p] = NoTree]
  /\ UNCHANGED <<treeVars, sessionDirs, lockSh, lockEx, gate, liveEx, alone,
                 snapshot, stolen>>

LiveCheck(p) ==
  /\ pc[p] = "liveCheck"
  /\ IF live[p] = root
     THEN Proceed(p, "gateClose") /\ UNCHANGED live
     ELSE /\ live' = [live EXCEPT ![p] = NoTree]
          /\ Retry(p, SharedLockRetries, "liveOpen", "failGate")
  /\ UNCHANGED <<treeVars, sessionDirs, fd, lockSh, lockEx, gate, liveEx,
                 alone, snapshot, stolen>>

\* Mutant: the gate is kept for the lifetime of the session.
GateClose_Kept(p) ==
  /\ \/ pc[p] = "gateClose" /\ Goto(p, "designated")
     \/ pc[p] = "failGate" /\ Goto(p, "failShared")
  /\ UNCHANGED <<treeVars, sessionDirs, attempt, fd, lockVars, alone, snapshot,
                 stolen>>

\* The deferred gate.Close, on success and on error.
GateClose(p) ==
  /\ \/ pc[p] = "gateClose" /\ Goto(p, "designated")
     \/ pc[p] = "failGate" /\ Goto(p, "failShared")
  /\ gate' = [gate EXCEPT ![p] = NoTree]
  /\ UNCHANGED <<treeVars, sessionDirs, attempt, fd, lockSh, lockEx, live,
                 liveEx, alone, snapshot, stolen>>

\* The deferred shared.Close of a failed AcquireSession: the launch aborts.
FailShared(p) ==
  /\ pc[p] = "failShared"
  /\ lockSh' = [lockSh EXCEPT ![p] = NoTree]
  /\ Goto(p, "done")
  /\ UNCHANGED <<treeVars, sessionDirs, attempt, fd, lockEx, gate, live,
                 liveEx, alone, snapshot, stolen>>

-----------------------------------------------------------------------------
(* The launch while it holds its SessionHandle *)

\* DesignateSession applies the role.  A launch that lost the designation on
\* bwrap needs a session ID, and releases the handle when it cannot get one.
Designated(p) ==
  /\ pc[p] = "designated"
  /\ IF alone[p]
     THEN Goto(p, "cleanRead")
     ELSE \/ Goto(p, "ready")
          \/ IsConcurrent(p) /\ Goto(p, "relLive")
  /\ UNCHANGED <<treeVars, sessionDirs, attempt, fd, lockVars, alone, snapshot,
                 stolen>>

\* CleanupStaleSessionDirs: list overlay/sessions, then remove what was
\* listed.
CleanRead(p) ==
  /\ pc[p] = "cleanRead"
  /\ snapshot' = [snapshot EXCEPT ![p] = {d \in sessionDirs : d[1] = root}]
  /\ Goto(p, "cleanRemove")
  /\ UNCHANGED <<treeVars, sessionDirs, attempt, fd, lockVars, alone, stolen>>

CleanRemove(p) ==
  /\ pc[p] = "cleanRemove"
  /\ sessionDirs' = sessionDirs \ snapshot[p]
  /\ snapshot' = [snapshot EXCEPT ![p] = {}]
  /\ Goto(p, "ready")
  /\ UNCHANGED <<treeVars, attempt, fd, lockVars, alone, stolen>>

\* The workload starts: a concurrent session gets overlay directories of its
\* own (createOverlayDirs).
Run(p) ==
  /\ pc[p] = "ready"
  /\ IF IsConcurrent(p)
     THEN MkdirRoot /\ sessionDirs' = sessionDirs \cup {<<root', p>>}
     ELSE UNCHANGED <<root, used, sessionDirs>>
  /\ Goto(p, "running")
  /\ UNCHANGED <<staged, attempt, fd, lockVars, alone, snapshot, stolen>>

\* The workload ends, or a later step of the launch fails before it starts.
Exit(p) ==
  /\ pc[p] \in {"ready", "running"}
  /\ Goto(p, "exit")
  /\ UNCHANGED <<treeVars, sessionDirs, attempt, fd, lockVars, alone, snapshot,
                 stolen>>

\* Deferred CleanupSessionOverlays of a concurrent session.
CleanupSessionOverlays(p) ==
  /\ pc[p] = "exit"
  /\ sessionDirs' = IF IsConcurrent(p) THEN sessionDirs \ {<<root, p>>}
                    ELSE sessionDirs
  /\ Goto(p, "relLive")
  /\ UNCHANGED <<treeVars, attempt, fd, lockVars, alone, snapshot, stolen>>

\* SessionHandle.Release drops .sessions.lock, then .lock.
ReleaseLive(p) ==
  /\ pc[p] = "relLive"
  /\ live' = [live EXCEPT ![p] = NoTree]
  /\ Goto(p, "relShared")
  /\ UNCHANGED <<treeVars, sessionDirs, attempt, fd, lockSh, lockEx, gate,
                 liveEx, alone, snapshot, stolen>>

ReleaseShared(p) ==
  /\ pc[p] = "relShared"
  /\ lockSh' = [lockSh EXCEPT ![p] = NoTree]
  /\ Goto(p, IF p \in Rm /\ ~IsConcurrent(p) THEN "rmOpen" ELSE "done")
  /\ UNCHANGED <<treeVars, sessionDirs, attempt, fd, lockEx, gate, live,
                 liveEx, alone, snapshot, stolen>>

-----------------------------------------------------------------------------
(* RemoveSandboxIfIdle, run by removeSandboxOnExit under --rm *)

RmOpen(p) ==
  /\ pc[p] = "rmOpen"
  /\ IF root = NoTree
     THEN UNCHANGED fd /\ Goto(p, "done")
     ELSE fd' = [fd EXCEPT ![p] = root] /\ Goto(p, "rmFlock")
  /\ UNCHANGED <<treeVars, sessionDirs, attempt, lockVars, alone, snapshot,
                 stolen>>

\* Mutant: the teardown asks .sessions.lock whether the sandbox is idle.
RmFlock_Registered(p) ==
  /\ pc[p] = "rmFlock"
  /\ IF NoOther(live, p, fd[p]) /\ NoOther(lockEx, p, fd[p])
     THEN lockEx' = [lockEx EXCEPT ![p] = fd[p]] /\ Goto(p, "rmBefore")
     ELSE UNCHANGED lockEx /\ Goto(p, "done")
  /\ fd' = [fd EXCEPT ![p] = NoTree]
  /\ UNCHANGED <<treeVars, sessionDirs, attempt, lockSh, gate, live, liveEx,
                 alone, snapshot, stolen>>

\* acquireExclusiveLock: busy means the state is kept.
RmFlock(p) ==
  /\ pc[p] = "rmFlock"
  /\ IF NoOther(lockSh, p, fd[p]) /\ NoOther(lockEx, p, fd[p])
     THEN lockEx' = [lockEx EXCEPT ![p] = fd[p]] /\ Goto(p, "rmBefore")
     ELSE UNCHANGED lockEx /\ Goto(p, "done")
  /\ fd' = [fd EXCEPT ![p] = NoTree]
  /\ UNCHANGED <<treeVars, sessionDirs, attempt, lockSh, gate, live, liveEx,
                 alone, snapshot, stolen>>

\* beforeRemove (the worktree removal) and the creation of .removing, which
\* may fail and abandon the teardown.
RmBefore(p) ==
  /\ pc[p] = "rmBefore"
  /\ \/ Goto(p, "rmRename") /\ UNCHANGED lockEx
     \/ Goto(p, "done") /\ lockEx' = [lockEx EXCEPT ![p] = NoTree]
  /\ UNCHANGED <<treeVars, sessionDirs, attempt, fd, lockSh, gate, live,
                 liveEx, alone, snapshot, stolen>>

\* os.Rename(sandboxRoot, staged): by path, whatever the path names now.
RmRename(p) ==
  /\ pc[p] = "rmRename"
  /\ IF root # NoTree
     THEN TakeRoot(p) /\ staged' = staged \cup {<<root, p>>}
     ELSE UNCHANGED <<root, staged, stolen>>
  /\ Goto(p, "rmClose")
  /\ UNCHANGED <<used, sessionDirs, attempt, fd, lockVars, alone, snapshot>>

RmClose(p) ==
  /\ pc[p] = "rmClose"
  /\ lockEx' = [lockEx EXCEPT ![p] = NoTree]
  /\ Goto(p, IF \E t \in Tree : <<t, p>> \in staged THEN "rmDelete" ELSE "done")
  /\ UNCHANGED <<treeVars, sessionDirs, attempt, fd, lockSh, gate, live,
                 liveEx, alone, snapshot, stolen>>

\* RemoveSandbox(staged); it may fail and leave the tree behind.
RmDelete(p) ==
  /\ pc[p] = "rmDelete"
  /\ LET mine == {s \in staged : s[2] = p}
     IN  \/ /\ staged' = staged \ mine
            /\ sessionDirs' = {d \in sessionDirs : <<d[1], p>> \notin mine}
         \/ UNCHANGED <<staged, sessionDirs>>
  /\ Goto(p, "done")
  /\ UNCHANGED <<root, used, attempt, fd, lockVars, alone, snapshot, stolen>>

-----------------------------------------------------------------------------
(* `sandboxes prune' *)

\* ListAllSandboxes
PruneList(p) ==
  /\ pc[p] = "start"
  /\ alone' = [alone EXCEPT ![p] = root # NoTree]
  /\ Goto(p, "prStranded")
  /\ UNCHANGED <<treeVars, sessionDirs, attempt, fd, lockVars, snapshot,
                 stolen>>

\* Mutant: every staged tree counts as abandoned.
PruneStranded_All(p) ==
  /\ pc[p] = "prStranded"
  /\ snapshot' = [snapshot EXCEPT ![p] = staged]
  /\ Goto(p, IF alone[p] THEN "prOpen"
             ELSE IF snapshot'[p] # {} THEN "prConfirm" ELSE "done")
  /\ UNCHANGED <<treeVars, sessionDirs, attempt, fd, lockVars, alone, stolen>>

\* ListAbandonedStaging: staged trees whose pid is gone.
PruneStranded(p) ==
  /\ pc[p] = "prStranded"
  /\ snapshot' = [snapshot EXCEPT ![p] = {s \in staged : ~Alive(s[2])}]
  /\ Goto(p, IF alone[p] THEN "prOpen"
             ELSE IF snapshot'[p] # {} THEN "prConfirm" ELSE "done")
  /\ UNCHANGED <<treeVars, sessionDirs, attempt, fd, lockVars, alone, stolen>>

\* IsSessionActive opens without creating; it takes .lock and drops it again.
PruneOpen(p) ==
  /\ pc[p] = "prOpen"
  /\ fd' = [fd EXCEPT ![p] = root]
  /\ Goto(p, IF root = NoTree THEN "prConfirm" ELSE "prFlock")
  /\ UNCHANGED <<treeVars, sessionDirs, attempt, lockVars, alone, snapshot,
                 stolen>>

PruneFlock(p) ==
  /\ pc[p] = "prFlock"
  /\ IF NoOther(lockSh, p, fd[p]) /\ NoOther(lockEx, p, fd[p])
     THEN /\ lockEx' = [lockEx EXCEPT ![p] = fd[p]]
          /\ Goto(p, "prUnlock")
          /\ UNCHANGED alone
     ELSE /\ alone' = [alone EXCEPT ![p] = FALSE]
          /\ Goto(p, "prConfirm")
          /\ UNCHANGED lockEx
  /\ fd' = [fd EXCEPT ![p] = NoTree]
  /\ UNCHANGED <<treeVars, sessionDirs, attempt, lockSh, gate, live, liveEx,
                 snapshot, stolen>>

PruneUnlock(p) ==
  /\ pc[p] = "prUnlock"
  /\ lockEx' = [lockEx EXCEPT ![p] = NoTree]
  /\ Goto(p, "prConfirm")
  /\ UNCHANGED <<treeVars, sessionDirs, attempt, fd, lockSh, gate, live,
                 liveEx, alone, snapshot, stolen>>

\* SelectForPruning drops an active sandbox, and may drop an idle one that is
\* too recent; then nothing is left to do, --dry-run or the user stops here,
\* or the removal begins.
PruneConfirm(p) ==
  /\ pc[p] = "prConfirm"
  /\ \/ alone[p] /\ Goto(p, "prRemove")
     \/ snapshot[p] # {} /\ Goto(p, "prReclaim")
     \/ Goto(p, "done")
  /\ UNCHANGED <<treeVars, sessionDirs, attempt, fd, lockVars, alone, snapshot,
                 stolen>>

\* RemoveSandboxByType deletes what the path names now, and takes no lock.
\* The recursive delete is one step; it may also fail.
PruneRemove(p) ==
  /\ pc[p] = "prRemove"
  /\ \/ /\ root # NoTree
        /\ TakeRoot(p)
        /\ sessionDirs' = {d \in sessionDirs : d[1] # root}
     \/ UNCHANGED <<root, stolen, sessionDirs>>
  /\ Goto(p, "prReclaim")
  /\ UNCHANGED <<used, staged, attempt, fd, lockVars, alone, snapshot>>

PruneReclaim(p) ==
  /\ pc[p] = "prReclaim"
  /\ \E gone \in SUBSET snapshot[p] :
       /\ staged' = staged \ gone
       /\ sessionDirs' = {d \in sessionDirs : \A s \in gone : s[1] # d[1]}
  /\ snapshot' = [snapshot EXCEPT ![p] = {}]
  /\ Goto(p, "done")
  /\ UNCHANGED <<root, used, attempt, fd, lockVars, alone, stolen>>

-----------------------------------------------------------------------------
(* A process is killed: the kernel drops its descriptors and locks, what it
   left on disk stays *)

Dropped(h, p) ==
  IF p \in DOMAIN h THEN [h EXCEPT ![p] = NoTree] ELSE h

Crash(p) ==
  /\ Alive(p)
  /\ Goto(p, "dead")
  /\ fd' = Dropped(fd, p)
  /\ lockSh' = Dropped(lockSh, p)
  /\ lockEx' = Dropped(lockEx, p)
  /\ gate' = Dropped(gate, p)
  /\ live' = Dropped(live, p)
  /\ liveEx' = Dropped(liveEx, p)
  /\ UNCHANGED <<treeVars, sessionDirs, attempt, alone, snapshot, stolen>>

-----------------------------------------------------------------------------

Acquire(p) ==
  \/ EnsureSandboxDirs(p)
  \/ LockOpen(p)  \/ LockFlock(p)  \/ LockCheck(p)
  \/ GateOpen(p)  \/ GateFlock(p)
  \/ ProbeOpen(p) \/ ProbeFlock(p) \/ ProbeClose(p)
  \/ LiveOpen(p)  \/ LiveFlock(p)  \/ LiveCheck(p)
  \/ GateClose(p) \/ FailShared(p)

Session(p) ==
  \/ Designated(p) \/ CleanRead(p) \/ CleanRemove(p) \/ Run(p)
  \/ CleanupSessionOverlays(p) \/ ReleaseLive(p) \/ ReleaseShared(p)

RemoveSandboxIfIdle(p) ==
  \/ RmOpen(p) \/ RmFlock(p) \/ RmBefore(p)
  \/ RmRename(p) \/ RmClose(p) \/ RmDelete(p)

Prune(p) ==
  \/ PruneList(p) \/ PruneStranded(p)
  \/ PruneOpen(p) \/ PruneFlock(p) \/ PruneUnlock(p)
  \/ PruneRemove(p) \/ PruneReclaim(p)

Next ==
  \/ \E p \in Launch : Acquire(p) \/ Session(p) \/ Exit(p)
                       \/ RemoveSandboxIfIdle(p)
  \/ \E p \in Pruner : Prune(p) \/ PruneConfirm(p)
  \/ \E p \in Proc : Crash(p)

\* The program goes on by itself, except that the workload may run for ever
\* (Exit) and the user may leave the prompt unanswered (PruneConfirm).
Fairness ==
  /\ \A p \in Launch :
       WF_vars(Acquire(p) \/ Session(p) \/ RemoveSandboxIfIdle(p))
  /\ \A p \in Pruner : WF_vars(Prune(p))

Spec == Init /\ [][Next]_vars
FairSpec == Spec /\ Fairness

-----------------------------------------------------------------------------
(* Properties *)

\* p answered "alone" and is registered: it owns the persistent overlay.
Owner(p) == alone[p] /\ live[p] # NoTree

\* Two launches never both own the persistent upper and work directories
\* (AcquireSession: "exactly one can be"), unless the state was removed under
\* a session before.
AtMostOneOwner ==
  ~stolen => \A p, q \in Launch : Owner(p) /\ Owner(q) => p = q

\* The path a launch goes on using is the tree it has locked: whatever renames
\* and re-creations happened while it was acquiring, all its locks lie in the
\* tree the sandbox root names.
RootStaysUnderSession ==
  ~stolen => \A p \in Launch : HasHold(p) =>
    /\ root = lockSh[p]
    /\ {fd[p], gate[p], liveEx[p]} \subseteq {NoTree, root}
    /\ live[p] \in {NoTree, root}

\* A launch is told it is not alone only because another session is
\* registered, never because a list, a prune or a teardown happened to hold a
\* lock at that moment (the reason .sessions.lock is not .lock).
AskedBesideLive ==
  \A p \in Launch :
    (pc[p] = "probeFlock" /\ pc'[p] = "liveOpen" /\ ~stolen) =>
      \E q \in Launch \ {p} : live[q] = root
ConcurrentOnlyBesideLive == [][AskedBesideLive]_vars

\* While a teardown's exclusive lock lies in the tree the root names, nobody,
\* the teardown included, takes the root from a session.
LockedRootIsIdle ==
  \A p \in Proc : (lockEx[p] # NoTree /\ lockEx[p] = root) => stolen' = stolen
TeardownTakesIdleTree == [][LockedRootIsIdle]_vars

\* A staged tree is deleted by the teardown that staged it, or by a prune after
\* that teardown's process is gone, however long ago the prune listed it.
ReclaimOnlyAbandoned ==
  [][\A s \in staged \ staged' :
       ~Alive(s[2]) \/ (pc[s[2]] = "rmDelete" /\ pc'[s[2]] # pc[s[2]])]_vars

\* Every exclusive lock is a short hold: none outlives the designation, the
\* probe or the teardown that took it, even if the workload runs for ever.
ExclusiveHoldsEnd ==
  /\ \A p \in Launch : []<>(gate[p] = NoTree /\ liveEx[p] = NoTree)
  /\ \A p \in Proc : []<>(lockEx[p] = NoTree)

\* RemoveSandboxIfIdle "removes the sandbox state only while no session holds
\* it" (lock.go:270).
TeardownSparesSessions ==
  [][\A p \in Launch :
       (pc[p] = "rmRename" /\ pc'[p] = "rmClose") => stolen' = stolen]_vars

\* CleanupStaleSessionDirs is "called by the primary session on startup when no
\* other sessions are active" (session.go:73): what it removes belongs to no
\* session still running.
CleanupSparesSessions ==
  [][\A p \in Launch : (pc[p] = "cleanRemove" /\ pc'[p] = "ready") =>
       \A d \in sessionDirs \ sessionDirs' : pc[d[2]] # "running"]_vars

\* The abstract specification this one implements.
Ownership == INSTANCE SandboxOwnership WITH
  sessions <- {p \in Launch : live[p] # NoTree},
  owners   <- {p \in Launch : Owner(p)},
  present  <- root # NoTree,
  broken   <- stolen

Refinement == Ownership!Spec
=============================================================================
