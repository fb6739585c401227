------------------------------ MODULE Worktree ------------------------------
(***************************************************************************)
(* `devsandbox --worktree': a git worktree per branch under the project's  *)
(* sandbox directory, made before the launch holds anything, and removed   *)
(* by the exit of a --rm launch, by `sandboxes prune', or by accident,     *)
(* with the sandbox directory it lies in (internal/worktree/manager.go,    *)
(* cmd/devsandbox/main.go and sandboxes.go).                               *)
(*                                                                         *)
(* A branch and its directory are one: the leaf is derived from the branch *)
(* with a hash.  git is external: it keeps an entry per worktree until it  *)
(* is told to remove or prune it, refuses to check a branch out twice, and *)
(* lists the entry of a directory that has vanished like any other.        *)
(***************************************************************************)

CONSTANTS
  Makers,      \* devsandbox --worktree processes
  Sweepers,    \* `sandboxes prune' processes
  Branches,    \* branches asked for; also the worktree directory of each
  NoBranch

ASSUME WorktreeAssumption == NoBranch \notin Branches

VARIABLES
  gitEntry,    \* the branch git has on record for each directory, or NoBranch
  treeDir,     \* the directories that exist
  refs,        \* the branches that exist
  makerAt,     \* where each launch is
  branchOf,    \* the branch each launch asked for
  rmFlag,      \* launches with --rm
  trees,       \* worktrees on record in the session store, by launch
  sweeperAt    \* where each prune is

treeVars == <<gitEntry, treeDir, refs, makerAt, branchOf, rmFlag, trees,
              sweeperAt>>

\* The part of a launch in which it holds the sandbox's lock shared.
Holding == {"inside"}

WorktreeTypeOK ==
  /\ gitEntry \in [Branches -> Branches \cup {NoBranch}]
  /\ treeDir \subseteq Branches
  /\ refs \subseteq Branches
  /\ makerAt \in [Makers -> {"start", "stat", "parent", "add", "addNew", "ensured",
                             "missing", "inside", "exit", "rm", "wipe",
                             "over"}]
  /\ branchOf \in [Makers -> Branches]
  /\ rmFlag \subseteq Makers
  /\ trees \subseteq Makers
  /\ sweeperAt \in [Sweepers -> {"start", "asked", "over"}]

WorktreeInit ==
  /\ gitEntry = [b \in Branches |-> NoBranch]
  /\ treeDir = {}
  /\ refs \in SUBSET Branches
  /\ makerAt = [m \in Makers |-> "start"]
  /\ branchOf \in [Makers -> Branches]
  /\ rmFlag \in SUBSET Makers
  /\ trees = {}
  /\ sweeperAt = [s \in Sweepers |-> "start"]

MakerGo(m, place) == makerAt' = [makerAt EXCEPT ![m] = place]
\* A teardown has the exclusive lock from its idle test to its rename.
Idle == \A m \in Makers : makerAt[m] \notin Holding \cup {"rm", "wipe"}
Locked == \E m \in Makers : makerAt[m] \in {"rm", "wipe"}

-----------------------------------------------------------------------------
(* git, external *)

GitAdd(b) ==
  /\ \A c \in Branches : gitEntry[c] # b
  /\ b \notin treeDir
  /\ gitEntry' = [gitEntry EXCEPT ![b] = b]
  /\ treeDir' = treeDir \cup {b}

\* `worktree remove --force' of one directory, then `worktree prune'.
Removed(b) ==
  /\ treeDir' = treeDir \ {b}
  /\ gitEntry' = [c \in Branches |->
       IF c = b \/ c \notin treeDir THEN NoBranch ELSE gitEntry[c]]

-----------------------------------------------------------------------------
(* Manager.Ensure, before the launch holds the sandbox *)

\* findWorktree: an entry for the directory decides, the directory is not
\* looked at.
FindWorktree(m) ==
  /\ makerAt[m] = "start"
  /\ LET b == branchOf[m] IN
       MakerGo(m, CASE gitEntry[b] = b -> "ensured"
                    [] gitEntry[b] = NoBranch -> "stat"
                    [] OTHER -> "over")
  /\ UNCHANGED <<gitEntry, treeDir, refs, branchOf, rmFlag, trees, sweeperAt>>

\* A directory git has no entry for is not clobbered.
StatTree(m) ==
  /\ makerAt[m] = "stat"
  /\ MakerGo(m, IF branchOf[m] \in treeDir THEN "over" ELSE "parent")
  /\ UNCHANGED <<gitEntry, treeDir, refs, branchOf, rmFlag, trees, sweeperAt>>

BranchExists(m) ==
  /\ makerAt[m] = "parent"
  /\ MakerGo(m, IF branchOf[m] \in refs THEN "add" ELSE "addNew")
  /\ UNCHANGED <<gitEntry, treeDir, refs, branchOf, rmFlag, trees, sweeperAt>>

\* `worktree add', with -b for a branch that was not there; it may fail.
AddWorktree(m) ==
  /\ makerAt[m] \in {"add", "addNew"}
  /\ \/ /\ (makerAt[m] = "add") = (branchOf[m] \in refs)
        /\ GitAdd(branchOf[m])
        /\ refs' = refs \cup {branchOf[m]}
        /\ MakerGo(m, "ensured")
     \/ /\ MakerGo(m, "over")
        /\ UNCHANGED <<gitEntry, treeDir, refs>>
  /\ UNCHANGED <<branchOf, rmFlag, trees, sweeperAt>>

\* Only now, the proxy and the herdr record later, the lock; it waits out a
\* teardown.  Without its directory the sandbox cannot be built.
EnterSandbox(m) ==
  /\ makerAt[m] = "ensured"
  /\ ~Locked
  /\ IF branchOf[m] \in treeDir
     THEN /\ MakerGo(m, "inside")
          /\ trees' \in {trees, trees \cup {m}}
     ELSE MakerGo(m, "missing") /\ UNCHANGED trees
  /\ UNCHANGED <<gitEntry, treeDir, refs, branchOf, rmFlag, sweeperAt>>

\* The workload commits, edits, and may switch the worktree to a branch that is
\* checked out nowhere.
SwitchBranch(m) ==
  /\ makerAt[m] = "inside"
  /\ branchOf[m] \in treeDir
  /\ \E b \in refs :
       /\ \A c \in Branches : gitEntry[c] # b
       /\ gitEntry' = [gitEntry EXCEPT ![branchOf[m]] = b]
  /\ UNCHANGED <<treeDir, refs, makerAt, branchOf, rmFlag, trees, sweeperAt>>

-----------------------------------------------------------------------------
(* The end of a launch: the record goes, the lock is released, and with --rm
   the sandbox is removed if nobody else holds it *)

LeaveSandbox(m) ==
  /\ makerAt[m] \in {"inside", "missing"}
  /\ MakerGo(m, IF m \in rmFlag THEN "exit" ELSE "over")
  /\ trees' = trees \ {m}
  /\ UNCHANGED <<gitEntry, treeDir, refs, branchOf, rmFlag, sweeperAt>>

\* Killed: its lock is gone, its record stays.
MakerKilled(m) ==
  /\ makerAt[m] \notin {"start", "over"}
  /\ MakerGo(m, "over")
  /\ UNCHANGED <<gitEntry, treeDir, refs, branchOf, rmFlag, trees, sweeperAt>>

\* Mutant: the teardown does not test whether the sandbox is idle.
RemoveIfIdle_Always(m) ==
  /\ makerAt[m] = "exit"
  /\ MakerGo(m, "rm")
  /\ UNCHANGED <<gitEntry, treeDir, refs, branchOf, rmFlag, trees, sweeperAt>>

RemoveIfIdle(m) ==
  /\ makerAt[m] = "exit"
  /\ MakerGo(m, IF Idle THEN "rm" ELSE "over")
  /\ UNCHANGED <<gitEntry, treeDir, refs, branchOf, rmFlag, trees, sweeperAt>>

\* beforeRemove: its own worktree, best effort.
RemoveWorktree(m) ==
  /\ makerAt[m] = "rm"
  /\ MakerGo(m, "wipe")
  /\ \/ Removed(branchOf[m])
     \/ UNCHANGED <<gitEntry, treeDir>>
  /\ UNCHANGED <<refs, branchOf, rmFlag, trees, sweeperAt>>

\* The sandbox directory is renamed away, with every worktree in it.
WipeSandbox(m) ==
  /\ makerAt[m] = "wipe"
  /\ MakerGo(m, "over")
  /\ treeDir' = {}
  /\ UNCHANGED <<gitEntry, refs, branchOf, rmFlag, trees, sweeperAt>>

-----------------------------------------------------------------------------
(* prune: samples, asks, and then removes without a lock *)

PruneSample(s) ==
  /\ sweeperAt[s] = "start"
  /\ sweeperAt' = [sweeperAt EXCEPT ![s] = IF Idle THEN "asked" ELSE "over"]
  /\ UNCHANGED <<gitEntry, treeDir, refs, makerAt, branchOf, rmFlag, trees>>

\* One worktree on record, and its record.
PruneOne(s) ==
  /\ sweeperAt[s] = "asked"
  /\ \E m \in trees :
       /\ Removed(branchOf[m])
       /\ trees' = trees \ {m}
  /\ UNCHANGED <<refs, makerAt, branchOf, rmFlag, sweeperAt>>

PruneWipe(s) ==
  /\ sweeperAt[s] = "asked"
  /\ sweeperAt' = [sweeperAt EXCEPT ![s] = "over"]
  /\ treeDir' = {}
  /\ UNCHANGED <<gitEntry, refs, makerAt, branchOf, rmFlag, trees>>

-----------------------------------------------------------------------------

WorktreeNext ==
  \/ \E m \in Makers :
       \/ FindWorktree(m) \/ StatTree(m) \/ BranchExists(m) \/ AddWorktree(m)
       \/ EnterSandbox(m) \/ SwitchBranch(m) \/ LeaveSandbox(m)
       \/ MakerKilled(m) \/ RemoveIfIdle(m) \/ RemoveWorktree(m)
       \/ WipeSandbox(m)
  \/ \E s \in Sweepers : PruneSample(s) \/ PruneOne(s) \/ PruneWipe(s)

WorktreeSpec == WorktreeInit /\ [][WorktreeNext]_treeVars

-----------------------------------------------------------------------------
(* Properties *)

\* A worktree a session works in is deleted by no --rm exit, whichever branch
\* that launch was on: only by a prune, and by one that took its sample when no
\* session held the sandbox.
LiveTreeKept ==
  [][\A m \in Makers :
       makerAt[m] = "inside" /\ branchOf[m] \in treeDir \ treeDir' =>
         \E s \in Sweepers : sweeperAt[s] = "asked"]_treeVars
=============================================================================
