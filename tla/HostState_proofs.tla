-------------------------- MODULE HostState_proofs ---------------------------
(***************************************************************************)
(* The host state that sessions share, for any number of launches, users   *)
(* and clients: the worktrees of a sandbox, the container of a project,    *)
(* the store of named sessions, and a host directory to which overlays are *)
(* migrated; the microVM of a project; and the mounts, the volumes and the *)
(* environment a workload is given, for any host, tools and rules.         *)
(***************************************************************************)
EXTENDS SessionStore, ContainerLaunch, Worktree, OverlayMigrate, MicroVMSession,
        ContainerMounts, Induction, SequenceTheorems, FiniteSetTheorems, TLAPS

-----------------------------------------------------------------------------
(* Worktrees: while a launch tears the sandbox down nobody is inside, so the
   only step that takes a worktree from under a session is a prune's.        *)

\* The part of a --rm exit under the exclusive lock.
Tearing == {"rm", "wipe"}

\* A teardown, and nobody inside: what the lock is for.
Exclusion ==
  /\ makerAt \in [Makers -> {"start", "stat", "parent", "add", "addNew", "ensured",
                             "missing", "inside", "exit", "rm", "wipe", "over"}]
  /\ \A m, n \in Makers : makerAt[m] \in Tearing => makerAt[n] # "inside"

-----------------------------------------------------------------------------
(* The steps *)

\* A step that takes its maker neither inside nor to the teardown leaves the two apart.
LEMMA OthersStayApart ==
  ASSUME Exclusion, NEW m \in Makers,
         NEW place \in {"stat", "parent", "add", "addNew", "ensured", "missing", "exit",
                        "over"},
         MakerGo(m, place)
  PROVE  Exclusion'
BY DEF Exclusion, MakerGo, Tearing

LEMMA MakerStep ==
  ASSUME Exclusion, NEW m \in Makers,
         \/ FindWorktree(m) \/ StatTree(m) \/ BranchExists(m) \/ AddWorktree(m)
         \/ EnterSandbox(m) \/ SwitchBranch(m) \/ LeaveSandbox(m)
         \/ MakerKilled(m) \/ RemoveIfIdle(m) \/ RemoveWorktree(m)
         \/ WipeSandbox(m)
  PROVE  Exclusion'
PROOF
<1>1. CASE \/ FindWorktree(m) \/ StatTree(m) \/ BranchExists(m) \/ AddWorktree(m)
           \/ LeaveSandbox(m) \/ MakerKilled(m) \/ WipeSandbox(m)
  BY <1>1, OthersStayApart DEF FindWorktree, StatTree, BranchExists, AddWorktree,
         LeaveSandbox, MakerKilled, WipeSandbox
<1>2. CASE EnterSandbox(m)
  <2>1. CASE MakerGo(m, "missing")
    BY <2>1, OthersStayApart
  <2>2. CASE MakerGo(m, "inside")
    BY <1>2, <2>2 DEF EnterSandbox, Locked, Exclusion, Tearing, MakerGo
  <2> QED BY <1>2, <2>1, <2>2 DEF EnterSandbox
<1>3. CASE SwitchBranch(m)
  BY <1>3 DEF SwitchBranch, Exclusion
<1>4. CASE RemoveIfIdle(m)
  <2>1. CASE MakerGo(m, "over")
    BY <2>1, OthersStayApart
  <2>2. CASE Idle /\ MakerGo(m, "rm")
    BY <2>2 DEF Idle, Holding, Exclusion, Tearing, MakerGo
  <2> QED BY <1>4, <2>1, <2>2 DEF RemoveIfIdle
<1>5. CASE RemoveWorktree(m)
  BY <1>5 DEF RemoveWorktree, Exclusion, Tearing, MakerGo
<1> QED BY <1>1, <1>2, <1>3, <1>4, <1>5

LEMMA WorktreeStep == Exclusion /\ [WorktreeNext]_treeVars => Exclusion'
PROOF
<1> SUFFICES ASSUME Exclusion, [WorktreeNext]_treeVars PROVE Exclusion'
  OBVIOUS
<1>1. ASSUME NEW s \in Sweepers, PruneSample(s) \/ PruneOne(s) \/ PruneWipe(s)
      PROVE  Exclusion'
  BY <1>1 DEF PruneSample, PruneOne, PruneWipe, Exclusion
<1>2. CASE UNCHANGED treeVars
  BY <1>2 DEF treeVars, Exclusion
<1> QED BY <1>1, <1>2, MakerStep DEF WorktreeNext

-----------------------------------------------------------------------------
(* The theorems *)

\* Nobody is inside a sandbox that is being torn down.
THEOREM WorktreeExclusion == WorktreeSpec => []Exclusion
PROOF
<1>1. WorktreeInit => Exclusion
  BY DEF WorktreeInit, Exclusion, Tearing
<1> QED BY <1>1, WorktreeStep, PTL DEF WorktreeSpec

LEMMA MakerTyped ==
  ASSUME WorktreeTypeOK, NEW m \in Makers,
         \/ FindWorktree(m) \/ StatTree(m) \/ BranchExists(m) \/ AddWorktree(m)
         \/ EnterSandbox(m) \/ SwitchBranch(m) \/ LeaveSandbox(m)
         \/ MakerKilled(m) \/ RemoveIfIdle(m) \/ RemoveWorktree(m)
         \/ WipeSandbox(m)
  PROVE  WorktreeTypeOK'
PROOF
<1> DEFINE At == {"start", "stat", "parent", "add", "addNew", "ensured", "missing",
                  "inside", "exit", "rm", "wipe", "over"}
<1>1. makerAt' \in [Makers -> At]
  <2>1. \A place \in At : MakerGo(m, place) => makerAt' \in [Makers -> At]
    BY DEF WorktreeTypeOK, MakerGo
  <2>2. makerAt' = makerAt \/ \E place \in At : MakerGo(m, place)
    BY DEF FindWorktree, StatTree, BranchExists, AddWorktree, EnterSandbox, SwitchBranch,
           LeaveSandbox, MakerKilled, RemoveIfIdle, RemoveWorktree, WipeSandbox
  <2> QED BY <2>1, <2>2 DEF WorktreeTypeOK
<1>2. branchOf[m] \in Branches
  BY DEF WorktreeTypeOK
<1>3. CASE FindWorktree(m) \/ StatTree(m) \/ BranchExists(m) \/ MakerKilled(m) \/ RemoveIfIdle(m)
  BY <1>1, <1>3 DEF WorktreeTypeOK, FindWorktree, StatTree, BranchExists, MakerKilled,
         RemoveIfIdle
<1>4. CASE AddWorktree(m)
  BY <1>1, <1>2, <1>4 DEF WorktreeTypeOK, AddWorktree, GitAdd
<1>5. CASE EnterSandbox(m) \/ LeaveSandbox(m)
  BY <1>1, <1>5 DEF WorktreeTypeOK, EnterSandbox, LeaveSandbox
<1>6. CASE SwitchBranch(m)
  BY <1>1, <1>2, <1>6 DEF WorktreeTypeOK, SwitchBranch
<1>7. CASE RemoveWorktree(m)
  BY <1>1, <1>7 DEF WorktreeTypeOK, RemoveWorktree, Removed
<1>8. CASE WipeSandbox(m)
  BY <1>1, <1>8 DEF WorktreeTypeOK, WipeSandbox
<1> QED BY <1>3, <1>4, <1>5, <1>6, <1>7, <1>8

\* What git records, the directories that are there and where each launch is keep their
\* types, for any branches, launches and prunes.
THEOREM WorktreeTyped == WorktreeSpec => []WorktreeTypeOK
PROOF
<1>1. WorktreeInit => WorktreeTypeOK
  BY DEF WorktreeInit, WorktreeTypeOK
<1>2. WorktreeTypeOK /\ [WorktreeNext]_treeVars => WorktreeTypeOK'
  <2> SUFFICES ASSUME WorktreeTypeOK, [WorktreeNext]_treeVars PROVE WorktreeTypeOK'
    OBVIOUS
  <2>1. ASSUME NEW s \in Sweepers, PruneSample(s) PROVE WorktreeTypeOK'
    BY <2>1 DEF PruneSample, WorktreeTypeOK
  <2>2. ASSUME NEW s \in Sweepers, PruneOne(s) PROVE WorktreeTypeOK'
    BY <2>2 DEF PruneOne, Removed, WorktreeTypeOK
  <2>3. ASSUME NEW s \in Sweepers, PruneWipe(s) PROVE WorktreeTypeOK'
    BY <2>3 DEF PruneWipe, WorktreeTypeOK
  <2>4. CASE UNCHANGED treeVars
    BY <2>4 DEF treeVars, WorktreeTypeOK
  <2> QED BY <2>1, <2>2, <2>3, <2>4, MakerTyped DEF WorktreeNext
<1> QED BY <1>1, <1>2, PTL DEF WorktreeSpec

\* No --rm exit takes the worktree of a session that is inside, on whichever branch.
THEOREM WorktreeKept == WorktreeSpec => LiveTreeKept
PROOF
<1> DEFINE Kept == \A m \in Makers :
                     makerAt[m] = "inside" /\ branchOf[m] \in treeDir \ treeDir' =>
                       \E s \in Sweepers : sweeperAt[s] = "asked"
<1>1. Exclusion /\ [WorktreeNext]_treeVars => [Kept]_treeVars
  <2> SUFFICES ASSUME Exclusion, WorktreeNext, NEW m \in Makers,
                      makerAt[m] = "inside", branchOf[m] \in treeDir \ treeDir'
               PROVE  \E s \in Sweepers : sweeperAt[s] = "asked"
    BY DEF Kept
  <2>1. ASSUME NEW n \in Makers
        PROVE  ~(RemoveWorktree(n) \/ WipeSandbox(n))
    BY DEF RemoveWorktree, WipeSandbox, Exclusion, Tearing
  <2>2. ASSUME NEW n \in Makers,
               \/ FindWorktree(n) \/ StatTree(n) \/ BranchExists(n) \/ AddWorktree(n)
               \/ EnterSandbox(n) \/ SwitchBranch(n) \/ LeaveSandbox(n)
               \/ MakerKilled(n) \/ RemoveIfIdle(n)
        PROVE  treeDir \subseteq treeDir'
    BY <2>2 DEF FindWorktree, StatTree, BranchExists, AddWorktree, GitAdd, EnterSandbox,
           SwitchBranch, LeaveSandbox, MakerKilled, RemoveIfIdle
  <2>3. ASSUME NEW s \in Sweepers, PruneSample(s) \/ PruneOne(s) \/ PruneWipe(s)
        PROVE  treeDir' = treeDir \/ sweeperAt[s] = "asked"
    BY <2>3 DEF PruneSample, PruneOne, PruneWipe
  <2> QED BY <2>1, <2>2, <2>3 DEF WorktreeNext
<1> QED BY <1>1, WorktreeExclusion, PTL DEF WorktreeSpec, LiveTreeKept

USE ContainerAssumption DEF Exists, IsRunning, Go

-----------------------------------------------------------------------------
(* The container of a project *)

\* The part of a launch behind the creation of its container.
PastPlaces == {"startNew", "wait", "ready", "inside", "leave", "done"}
Past(u) == userAt[u] \in PastPlaces

\* What the one container is, whoever acts on it.
CtrOwn ==
  Exists =>
    /\ ctr.id \in Users => Past(ctr.id)
    /\ ctr.hash.proxy = ctr.args.proxy
    /\ ctr.running /\ ctr.args.proxy => ctr.net = net /\ net # NoNet
    /\ ctr.boot = "none" => ~ctr.ready
    /\ ctr.ready /\ ~ctr.again => ctr.boot # "setup"

\* A label that was read is of a container that will not be made again.
Judgement ==
  \A v \in Users : userAt[v] = "differs" =>
    /\ judged[v] \in Users => Past(judged[v])
    /\ Exists /\ ctr.id = judged[v] => ctr.hash # ConfigHash(want[v])

\* Whoever is not crossed is the only one.
Alone ==
  \A u, v \in Users : Active(u) /\ u \notin crossed /\ u # v => ~Active(v)

\* What a launch on its own has found or made, it finds again.
Undisturbed ==
  \A u \in Users : u \notin crossed =>
    /\ userAt[u] = "gateway" => net # NoNet
    /\ Active(u) /\ userAt[u] # "gateway" /\ want[u].proxy => netOf[u] = net /\ net # NoNet
    /\ userAt[u] \in {"restart", "startNew", "wait", "ready", "inside"} /\ Exists =>
         ctr.hash = ConfigHash(want[u])

\* Only a container that is ready has a workload of the launch that made it.
OwnReady ==
  \A u \in Users :
    userAt[u] \in {"ready", "inside"} /\ Exists /\ ctr.id = u => ctr.ready

CtrInv == ContainerTypeOK /\ CtrOwn /\ Judgement /\ Alone /\ Undisturbed /\ OwnReady

-----------------------------------------------------------------------------
(* The steps *)

\* What a step of a launch may do with the container, and where that takes it.
Makes(u) == userAt[u] = "create" /\ userAt'[u] = "startNew" /\ ctr' = Created(u, want[u])
BootsNow(u) == userAt[u] \in {"restart", "startNew"} /\ userAt'[u] = "wait"
              /\ Startable /\ ctr' = IF IsRunning THEN ctr ELSE Booted(ctr)
Clears(u) == userAt[u] \in Reasons /\ userAt'[u] = "build" /\ ctr' = NoCtr

\* The shim and the engine change what they may of the container, nothing else.
Ripens ==
  /\ Exists /\ UNCHANGED <<net, userAt, want, netOf, inside, judged, crossed>>
  /\ \/ IsRunning /\ ctr.boot = "setup" /\ ctr' = [ctr EXCEPT !.boot = "overlays", !.ready = TRUE]
     \/ IsRunning /\ ctr.boot = "overlays" /\ ctr' = [ctr EXCEPT !.boot = "up"]
     \/ IsRunning /\ ctr' = [ctr EXCEPT !.running = FALSE]

LEMMA RecordsOf ==
  ASSUME NEW u \in Users, NEW s \in Settings
  PROVE  /\ CreateArgs(s).proxy = s.proxy /\ ConfigHash(s).proxy = s.proxy
         /\ Created(u, s) \in Containers
         /\ Created(u, s).id = u /\ Created(u, s).args = CreateArgs(s)
         /\ Created(u, s).hash = ConfigHash(s) /\ ~Created(u, s).running
         /\ ~Created(u, s).ready /\ ~Created(u, s).again /\ Created(u, s).boot = "none"
  BY DEF CreateArgs, ConfigHash, Created, Containers, Creators, SettingsShape

LEMMA BootedIs ==
  ASSUME NEW c \in Containers, net \in Creators \cup {NoNet}
  PROVE  /\ Booted(c) \in Containers
         /\ Booted(c).id = c.id /\ Booted(c).args = c.args /\ Booted(c).hash = c.hash
         /\ Booted(c).ready = c.ready /\ Booted(c).boot = "setup" /\ Booted(c).running
         /\ Booted(c).again = (c.boot # "none")
         /\ Booted(c).net = IF c.args.proxy THEN net ELSE NoNet
  BY DEF Booted, Containers

LEMMA CtrSteps ==
  ASSUME ContainerTypeOK, ContainerNext
  PROVE  \/ \E u \in Users : UserSteps(u) /\ \A v \in Users : v # u => userAt'[v] = userAt[v]
         \/ Ripens
<1>1. ASSUME NEW u \in Users, UserSteps(u)
      PROVE  \A v \in Users : v # u => userAt'[v] = userAt[v]
  BY <1>1 DEF UserSteps, CreateNetwork, ReadGateway, Inspect, CompareHash, Restart,
     RemoveContainer, BuildImage, CreateContainer, StartNew, WaitReady, ExecInto,
     WorkloadEnds, Cleanup, LauncherKilled, ContainerTypeOK
<1>2. ShimSetUp \/ ShimOverlays \/ ContainerStops => Ripens
  BY DEF ShimSetUp, ShimOverlays, ContainerStops, Ripens
<1> QED BY <1>1, <1>2 DEF ContainerNext

\* The steps of a launch that touch the container, and the others.
LEMMA CtrChange ==
  ASSUME ContainerTypeOK, NEW u \in Users, UserSteps(u)
  PROVE  ctr' = ctr \/ Makes(u) \/ BootsNow(u) \/ Clears(u)
  BY DEF UserSteps, CreateNetwork, ReadGateway, Inspect, CompareHash, Restart,
     RemoveContainer, BuildImage, CreateContainer, StartNew, WaitReady, ExecInto,
     WorkloadEnds, Cleanup, LauncherKilled, ContainerTypeOK, Makes, BootsNow, Clears

LEMMA CtrTypeStep == ContainerTypeOK /\ ContainerNext => ContainerTypeOK'
<1> SUFFICES ASSUME ContainerTypeOK, ContainerNext PROVE ContainerTypeOK'
  OBVIOUS
<1>1. CASE Ripens
  BY <1>1 DEF Ripens, ContainerTypeOK, Containers
<1>2. ASSUME NEW u \in Users, UserSteps(u) PROVE ContainerTypeOK'
  <2>1. want' = want
    BY <1>2 DEF UserSteps, CreateNetwork, ReadGateway, Inspect, CompareHash, Restart,
     RemoveContainer, BuildImage, CreateContainer, StartNew, WaitReady, ExecInto,
     WorkloadEnds, Cleanup, LauncherKilled
  <2>2. ctr' \in Containers \cup {NoCtr}
    BY <1>2, CtrChange, RecordsOf, BootedIs DEF Makes, BootsNow, Clears, ContainerTypeOK, Startable
  <2>3. userAt' \in [Users -> Places]
    BY <1>2 DEF UserSteps, CreateNetwork, ReadGateway, Inspect, CompareHash, Restart,
     RemoveContainer, BuildImage, CreateContainer, StartNew, WaitReady, ExecInto,
     WorkloadEnds, Cleanup, LauncherKilled, ContainerTypeOK, Places, Reasons
  <2>4. net' \in Creators \cup {NoNet} /\ netOf' \in [Users -> Creators \cup {NoNet}]
    BY <1>2 DEF UserSteps, CreateNetwork, ReadGateway, Inspect, CompareHash, Restart,
     RemoveContainer, BuildImage, CreateContainer, StartNew, WaitReady, ExecInto,
     WorkloadEnds, Cleanup, LauncherKilled, ContainerTypeOK, Creators
  <2>5. inside' \in [Users -> Creators \cup {NoCtr}] /\ judged' \in [Users -> Creators \cup {NoCtr}]
    <3>1. Exists => ctr.id \in Creators
      BY DEF ContainerTypeOK, Containers
    <3> QED BY <1>2, <3>1 DEF UserSteps, CreateNetwork, ReadGateway, Inspect, CompareHash, Restart,
     RemoveContainer, BuildImage, CreateContainer, StartNew, WaitReady, ExecInto,
     WorkloadEnds, Cleanup, LauncherKilled, ContainerTypeOK
  <2>6. crossed' \subseteq Users
    BY <1>2 DEF UserSteps, CreateNetwork, ReadGateway, Inspect, CompareHash, Restart,
     RemoveContainer, BuildImage, CreateContainer, StartNew, WaitReady, ExecInto,
     WorkloadEnds, Cleanup, LauncherKilled, ContainerTypeOK
  <2> QED BY <2>1, <2>2, <2>3, <2>4, <2>5, <2>6 DEF ContainerTypeOK
<1> QED BY <1>1, <1>2, CtrSteps

\* Nobody comes back to where a container is looked for or made.
LEMMA PastKept ==
  ASSUME ContainerTypeOK, ContainerNext, NEW v \in Users, Past(v)
  PROVE  userAt'[v] \in PastPlaces
<1>1. CASE Ripens
  BY <1>1 DEF Ripens, Past
<1>2. ASSUME NEW u \in Users, UserSteps(u), v # u => userAt'[v] = userAt[v]
      PROVE  userAt'[v] \in PastPlaces
  BY <1>2 DEF UserSteps, CreateNetwork, ReadGateway, Inspect, CompareHash, Restart,
     RemoveContainer, BuildImage, CreateContainer, StartNew, WaitReady, ExecInto,
     WorkloadEnds, Cleanup, LauncherKilled, ContainerTypeOK, Past, PastPlaces, Reasons
<1> QED BY <1>1, <1>2, CtrSteps

\* What the shim and the engine leave alone.
LEMMA RipensIs ==
  ASSUME ContainerTypeOK, Ripens
  PROVE  /\ Exists /\ ctr \in Containers
         /\ ctr'.id = ctr.id /\ ctr'.args = ctr.args /\ ctr'.hash = ctr.hash
         /\ ctr'.net = ctr.net /\ ctr'.again = ctr.again /\ (ctr.ready => ctr'.ready)
         /\ (ctr'.running => ctr.running)
         /\ (ctr'.boot = ctr.boot /\ ctr'.ready = ctr.ready)
              \/ (ctr'.boot \in {"overlays", "up"})
<1>1. ctr \in Containers
  BY DEF Ripens, ContainerTypeOK
<1>2. CASE ctr' = [ctr EXCEPT !.boot = "overlays", !.ready = TRUE]
  BY <1>1, <1>2 DEF Ripens, Containers
<1>3. CASE ctr' = [ctr EXCEPT !.boot = "up"]
  BY <1>1, <1>3 DEF Ripens, Containers
<1>4. CASE ctr' = [ctr EXCEPT !.running = FALSE]
  BY <1>1, <1>4 DEF Ripens, Containers
<1> QED BY <1>1, <1>2, <1>3, <1>4 DEF Ripens

LEMMA CtrOwnStep == CtrInv /\ ContainerNext => CtrOwn'
<1> SUFFICES ASSUME CtrInv, ContainerNext, Exists' PROVE CtrOwn'
  BY DEF CtrOwn
<1> USE DEF CtrInv
<1>1. CASE Ripens
  BY <1>1, RipensIs DEF Ripens, CtrOwn, Past
<1>2. ASSUME NEW u \in Users, UserSteps(u), \A v \in Users : v # u => userAt'[v] = userAt[v]
      PROVE  CtrOwn'
  <2>1. \A v \in Users : Past(v) => Past(v)'
    BY PastKept DEF Past
  <2>2. CASE Makes(u)
    BY <2>2, RecordsOf DEF Makes, CtrOwn, ContainerTypeOK, Past, PastPlaces
  <2>3. CASE BootsNow(u)
    <3>1. CASE IsRunning
      <4>1. ctr' = ctr /\ net' = net
        BY <1>2, <2>3, <3>1 DEF BootsNow, UserSteps, CreateNetwork, ReadGateway, Inspect,
          CompareHash, Restart, RemoveContainer, BuildImage, CreateContainer, StartNew,
          WaitReady, ExecInto, WorkloadEnds, Cleanup, LauncherKilled
      <4> QED BY <2>1, <4>1 DEF CtrOwn
    <3>2. CASE ~IsRunning
      <4>1. ctr' = Booted(ctr) /\ ctr \in Containers /\ (ctr.args.proxy => net # NoNet)
                /\ net' = net
        BY <1>2, <2>3, <3>2 DEF BootsNow, Startable, ContainerTypeOK, UserSteps, CreateNetwork,
          ReadGateway, Inspect, CompareHash, Restart, RemoveContainer, BuildImage,
          CreateContainer, StartNew, WaitReady, ExecInto, WorkloadEnds, Cleanup,
          LauncherKilled
      <4>2. net \in Creators \cup {NoNet} /\ Exists
        BY <2>3 DEF BootsNow, Startable, ContainerTypeOK
      <4>3. ctr'.id = ctr.id /\ ctr'.args = ctr.args /\ ctr'.hash = ctr.hash
                /\ ctr'.ready = ctr.ready
            /\ ctr'.boot = "setup" /\ ctr'.again = (ctr.boot # "none")
            /\ ctr'.net = IF ctr.args.proxy THEN net ELSE NoNet
        BY <4>1, <4>2, BootedIs
      <4>4. ctr'.ready => ctr'.again
        BY <4>2, <4>3 DEF CtrOwn
      <4> QED BY <2>1, <4>1, <4>2, <4>3, <4>4 DEF CtrOwn
    <3> QED BY <3>1, <3>2
  <2>4. CASE ctr' = ctr
    <3>1. CASE net' = net
      BY <2>1, <2>4, <3>1 DEF CtrOwn
    <3>2. CASE CreateNetwork(u) /\ net' # net
      BY <2>1, <2>4, <3>2 DEF CtrOwn, CreateNetwork
    <3>3. CASE Cleanup(u) /\ net' # net
      BY <2>1, <2>4, <3>3 DEF CtrOwn, Cleanup
    <3> QED BY <1>2, <3>1, <3>2, <3>3 DEF UserSteps, ReadGateway, Inspect, CompareHash, Restart,
     RemoveContainer, BuildImage, CreateContainer, StartNew, WaitReady, ExecInto,
     WorkloadEnds, LauncherKilled
  <2> QED BY <1>2, <2>2, <2>3, <2>4, CtrChange DEF Clears
<1> QED BY <1>1, <1>2, CtrSteps

LEMMA JudgementStep == CtrInv /\ ContainerNext => Judgement'
<1> SUFFICES ASSUME CtrInv, ContainerNext, NEW v \in Users, userAt'[v] = "differs"
             PROVE  /\ judged'[v] \in Users => userAt'[judged'[v]] \in PastPlaces
                    /\ Exists' /\ ctr'.id = judged'[v] => ctr'.hash # ConfigHash(want'[v])
  BY DEF Judgement, Past
<1> USE DEF CtrInv
<1>1. want' = want
  BY DEF ContainerNext, UserSteps, CreateNetwork, ReadGateway, Inspect, CompareHash, Restart,
     RemoveContainer, BuildImage, CreateContainer, StartNew, WaitReady, ExecInto,
     WorkloadEnds, Cleanup, LauncherKilled, ShimSetUp, ShimOverlays, ContainerStops
<1>2. CASE Ripens
  BY <1>1, <1>2, RipensIs DEF Ripens, Judgement, Past
<1>3. ASSUME NEW u \in Users, UserSteps(u), userAt'[v] = userAt[v], judged'[v] = judged[v]
      PROVE  /\ judged'[v] \in Users => userAt'[judged'[v]] \in PastPlaces
             /\ Exists' /\ ctr'.id = judged'[v] => ctr'.hash # ConfigHash(want'[v])
  <2>1. /\ judged[v] \in Users => Past(judged[v])
        /\ Exists /\ ctr.id = judged[v] => ctr.hash # ConfigHash(want[v])
    BY <1>3 DEF Judgement
  <2>2. CASE Makes(u)
    BY <1>1, <1>3, <2>1, <2>2, PastKept, RecordsOf DEF Makes, Past, PastPlaces, ContainerTypeOK
  <2>3. CASE BootsNow(u)
    BY <1>1, <1>3, <2>1, <2>3, PastKept, BootedIs DEF BootsNow, Startable, ContainerTypeOK
  <2>4. CASE ctr' = ctr \/ Clears(u)
    BY <1>1, <1>3, <2>1, <2>4, PastKept DEF Clears
  <2> QED BY <1>3, <2>2, <2>3, <2>4, CtrChange
<1>4. CASE CompareHash(v)
  <2>1. Exists /\ judged'[v] = ctr.id /\ ctr.hash # ConfigHash(want[v]) /\ ctr' = ctr
    BY <1>4 DEF CompareHash, ContainerTypeOK
  <2> QED BY <1>1, <2>1, PastKept DEF CtrOwn
<1>5. ASSUME NEW u \in Users, UserSteps(u), ~(u = v /\ CompareHash(u))
      PROVE  userAt'[v] = userAt[v] /\ judged'[v] = judged[v]
  <2>1. CASE u # v
    BY <1>5, <2>1 DEF UserSteps, CreateNetwork, ReadGateway, Inspect, CompareHash, Restart,
     RemoveContainer, BuildImage, CreateContainer, StartNew, WaitReady, ExecInto,
     WorkloadEnds, Cleanup, LauncherKilled, ContainerTypeOK
  <2>2. CASE u = v
    BY <1>5, <2>2 DEF UserSteps, CreateNetwork, ReadGateway, Inspect, Restart,
     RemoveContainer, BuildImage, CreateContainer, StartNew, WaitReady, ExecInto,
     WorkloadEnds, Cleanup, LauncherKilled, ContainerTypeOK
  <2> QED BY <2>1, <2>2
<1> QED BY <1>2, <1>3, <1>4, <1>5, CtrSteps

LEMMA AloneStep == CtrInv /\ ContainerNext => Alone'
<1> SUFFICES ASSUME CtrInv, ContainerNext PROVE Alone'
  OBVIOUS
<1> USE DEF CtrInv
<1>1. CASE Ripens
  BY <1>1 DEF Ripens, Alone, Active
<1>2. ASSUME NEW u \in Users, UserSteps(u), \A v \in Users : v # u => userAt'[v] = userAt[v]
      PROVE  Alone'
  <2>1. CASE CreateNetwork(u)
    BY <1>2, <2>1 DEF CreateNetwork, Alone, Active, ContainerTypeOK
  <2>2. CASE ~CreateNetwork(u)
    <3>1. Active(u) /\ crossed' = crossed
      BY <1>2, <2>2 DEF Active, UserSteps, ReadGateway, Inspect, CompareHash, Restart,
     RemoveContainer, BuildImage, CreateContainer, StartNew, WaitReady, ExecInto,
     WorkloadEnds, Cleanup, LauncherKilled, Reasons
    <3> QED BY <1>2, <3>1 DEF Alone, Active
  <2> QED BY <2>1, <2>2
<1> QED BY <1>1, <1>2, CtrSteps

LEMMA UndisturbedStep == CtrInv /\ ContainerNext => Undisturbed'
<1> SUFFICES ASSUME CtrInv, ContainerNext, NEW u \in Users, u \notin crossed'
             PROVE  /\ userAt'[u] = "gateway" => net' # NoNet
                    /\ Active(u)' /\ userAt'[u] # "gateway" /\ want'[u].proxy =>
                         netOf'[u] = net' /\ net' # NoNet
                    /\ userAt'[u] \in {"restart", "startNew", "wait", "ready", "inside"}
                           /\ Exists' =>
                         ctr'.hash = ConfigHash(want'[u])
  BY DEF Undisturbed, Active
<1> USE DEF CtrInv
<1>1. u \notin crossed
  BY DEF ContainerNext, UserSteps, CreateNetwork, ReadGateway, Inspect, CompareHash, Restart,
     RemoveContainer, BuildImage, CreateContainer, StartNew, WaitReady, ExecInto,
     WorkloadEnds, Cleanup, LauncherKilled, ShimSetUp, ShimOverlays, ContainerStops
<1>2. CASE Ripens
  BY <1>1, <1>2 DEF Ripens, Undisturbed, Active, ContainerTypeOK, Containers
<1>3. ASSUME NEW v \in Users, v # u, UserSteps(v), userAt'[u] = userAt[u]
      PROVE  ~Active(u)'
  <2>1. CASE CreateNetwork(v)
    BY <1>3, <2>1 DEF CreateNetwork, Active
  <2>2. CASE ~CreateNetwork(v)
    BY <1>1, <1>3, <2>2 DEF Alone, Active, UserSteps, ReadGateway, Inspect, CompareHash, Restart,
     RemoveContainer, BuildImage, CreateContainer, StartNew, WaitReady, ExecInto,
     WorkloadEnds, Cleanup, LauncherKilled, Reasons
  <2> QED BY <2>1, <2>2
<1>4. CASE UserSteps(u)
  <2>1. CASE CreateNetwork(u)
    BY <2>1 DEF CreateNetwork, ContainerTypeOK, Active
  <2>2. CASE ReadGateway(u)
    BY <1>1, <2>2 DEF ReadGateway, ContainerTypeOK, Active, Undisturbed
  <2>3. CASE Inspect(u) \/ CompareHash(u) \/ WaitReady(u) \/ ExecInto(u) \/ WorkloadEnds(u)
             \/ BuildImage(u) \/ RemoveContainer(u)
    BY <1>1, <2>3 DEF Inspect, CompareHash, WaitReady, ExecInto, WorkloadEnds, BuildImage,
      RemoveContainer, ContainerTypeOK, Active, Undisturbed, Reasons
  <2>4. CASE CreateContainer(u)
    BY <1>1, <2>4, RecordsOf DEF CreateContainer, ContainerTypeOK, Active, Undisturbed
  <2>5. CASE Restart(u) \/ StartNew(u)
    <3>1. /\ userAt[u] \in {"restart", "startNew"} /\ UNCHANGED <<net, want, netOf>>
          /\ userAt'[u] \in {"wait", "leave", "unstartable"}
          /\ ctr' = ctr \/ (Exists /\ ctr' = Booted(ctr))
      BY <2>5 DEF Restart, StartNew, ContainerTypeOK, Startable
    <3>2. Exists' => Exists /\ ctr'.hash = ctr.hash
      BY <3>1, BootedIs DEF ContainerTypeOK
    <3> QED BY <1>1, <3>1, <3>2 DEF Active, Undisturbed
  <2>6. CASE Cleanup(u) \/ LauncherKilled(u)
    BY <2>6 DEF Cleanup, LauncherKilled, ContainerTypeOK, Active
  <2> QED BY <1>4, <2>1, <2>2, <2>3, <2>4, <2>5, <2>6 DEF UserSteps
<1> QED BY <1>2, <1>3, <1>4, CtrSteps DEF Active

LEMMA OwnReadyStep == CtrInv /\ ContainerNext => OwnReady'
<1> SUFFICES ASSUME CtrInv, ContainerNext, NEW u \in Users,
                    userAt'[u] \in {"ready", "inside"}, Exists', ctr'.id = u
             PROVE  ctr'.ready
  BY DEF OwnReady
<1> USE DEF CtrInv
<1>1. CASE Ripens
  BY <1>1, RipensIs DEF Ripens, OwnReady
<1>2. ASSUME NEW w \in Users, UserSteps(w), \A v \in Users : v # w => userAt'[v] = userAt[v]
      PROVE  ctr'.ready
  <2>1. CASE Makes(w)
    BY <1>2, <2>1, RecordsOf DEF Makes, ContainerTypeOK
  <2>2. CASE BootsNow(w)
    <3>1. w # u /\ Exists /\ ctr'.id = ctr.id /\ ctr'.ready = ctr.ready
      BY <2>2, BootedIs DEF BootsNow, Startable, ContainerTypeOK
    <3> QED BY <1>2, <3>1 DEF OwnReady
  <2>3. CASE ctr' = ctr /\ w # u
    BY <1>2, <2>3 DEF OwnReady
  <2>4. CASE ctr' = ctr /\ w = u
    <3>1. CASE CompareHash(u)
      BY <2>4, <3>1 DEF CompareHash, CtrOwn, Past, PastPlaces, ContainerTypeOK
    <3>2. CASE ~CompareHash(u)
      BY <1>2, <2>4, <3>2 DEF OwnReady, UserSteps, CreateNetwork, ReadGateway, Inspect, Restart,
     RemoveContainer, BuildImage, CreateContainer, StartNew, WaitReady, ExecInto,
     WorkloadEnds, Cleanup, LauncherKilled, ContainerTypeOK
    <3> QED BY <3>1, <3>2
  <2> QED BY <1>2, <2>1, <2>2, <2>3, <2>4, CtrChange DEF Clears
<1> QED BY <1>1, <1>2, CtrSteps

-----------------------------------------------------------------------------
(* The theorems *)

LEMMA CtrInvariance == ContainerSpec => []CtrInv
<1>1. ContainerInit => CtrInv
  <2> SUFFICES ASSUME ContainerInit PROVE CtrInv
    OBVIOUS
  <2>1. ctr = NoCtr \/ \E s \in Settings, on \in BOOLEAN, at \in {"setup", "overlays", "up"} :
          ctr = LeftBehind(s, on, at)
    BY DEF ContainerInit
  <2>2. ASSUME NEW s \in Settings, NEW on \in BOOLEAN, NEW at \in {"setup", "overlays", "up"},
               ctr = LeftBehind(s, on, at)
        PROVE  /\ ctr \in Containers /\ ctr.id = Earlier
               /\ ctr.hash.proxy = s.proxy /\ ctr.args.proxy = s.proxy
               /\ ctr.net = IF s.proxy THEN Earlier ELSE NoNet
               /\ ctr.boot = at /\ ctr.ready = (at # "setup") /\ ~ctr.again
    BY <2>2 DEF LeftBehind, Created, CreateArgs, ConfigHash, Containers, Creators, SettingsShape
  <2>3. ctr # NoCtr => ctr \in Containers /\ ctr.id = Earlier
                       /\ ctr.hash.proxy = ctr.args.proxy /\ ctr.boot # "none"
                       /\ (ctr.ready <=> ctr.boot # "setup")
                       /\ ctr.net = IF ctr.args.proxy THEN Earlier ELSE NoNet
    BY <2>1, <2>2
  <2>4. ContainerTypeOK
    BY <2>3 DEF ContainerInit, ContainerTypeOK, Creators, Places
  <2>5. CtrOwn
    <3>1. ctr # NoCtr /\ ctr.running => ctr.net \in {net, NoNet}
      BY DEF ContainerInit
    <3> QED BY <2>3, <3>1 DEF CtrOwn, Exists
  <2> QED BY <2>4, <2>5
        DEF ContainerInit, CtrInv, Judgement, Alone, Undisturbed, OwnReady, Active
<1>2. CtrInv /\ UNCHANGED ctrVars => CtrInv'
  BY DEF ctrVars, CtrInv, ContainerTypeOK, CtrOwn, Judgement, Alone, Undisturbed, OwnReady,
     Active, Past
<1>3. CtrInv /\ ContainerNext => CtrInv'
  BY CtrTypeStep, CtrOwnStep, JudgementStep, AloneStep, UndisturbedStep, OwnReadyStep DEF CtrInv
<1> QED BY <1>1, <1>2, <1>3, PTL DEF ContainerSpec

\* The container of a project and the launches that share it keep to their values
\* (internal/isolator/docker.go).
THEOREM ContainerTyped == ContainerSpec => []ContainerTypeOK
<1>1. CtrInv => ContainerTypeOK
  BY DEF CtrInv
<1> QED BY <1>1, CtrInvariance, PTL

\* A workload runs in a container of its own configuration, on the network of its proxy
\* and after the shim's set-up, unless another launch came between the inspection and the
\* exec of its own, each of which goes by name.
THEOREM PlaceHeld == ContainerSpec => []WorkloadPlace
<1>1. CtrInv => WorkloadConfig
  <2> SUFFICES ASSUME CtrInv, NEW u \in Users, WorksIn(u), u \notin crossed
               PROVE  /\ ctr.hash = ConfigHash(want[u])
                      /\ want[u].proxy /\ ctr.running => ctr.net = netOf[u] /\ net = netOf[u]
    BY DEF WorkloadConfig
  <2>1. ctr.hash = ConfigHash(want[u])
    BY DEF CtrInv, Undisturbed, WorksIn
  <2>2. ctr.hash.proxy = want[u].proxy
    BY <2>1 DEF ConfigHash
  <2> QED BY <2>1, <2>2 DEF CtrInv, Undisturbed, CtrOwn, WorksIn, Active
<1>2. CtrInv => SetUpBeforeExec
  BY DEF CtrInv, OwnReady, CtrOwn, SetUpBeforeExec, WorksIn
<1> QED BY <1>1, <1>2, CtrInvariance, PTL DEF WorkloadPlace

\* A container with a workload in it is removed only by a launch that could not read or
\* restart it, whose own configuration is another, or that judged a container which has
\* been replaced since.
THEOREM KilledForReason == ContainerSpec => KilledOnlyFor
<1>1. CtrInv => [\A u, v \in Users :
                   WorksIn(u) /\ RemoveContainer(v) =>
                     \/ userAt[v] \in {"unread", "unstartable"}
                     \/ ConfigHash(want[v]) # ctr.hash
                     \/ judged[v] # ctr.id]_ctrVars
  BY DEF CtrInv, Judgement, WorksIn, RemoveContainer, Reasons
<1> QED BY <1>1, CtrInvariance, PTL DEF KilledOnlyFor

HIDE ContainerAssumption DEF Exists, IsRunning, Go

-----------------------------------------------------------------------------
(* The session store *)

USE StoreAssumption

StoreProcesses == Launches \cup Clients

StoreShape ==
  /\ entries \in [Names -> MaybeEntry]
  /\ launchAt \in [Launches -> {"start", "sweep", "named", "removed", "gone"}
                               \cup Started]
  /\ clientAt \in [Clients -> {"start", "sweep", "found", "forward", "gone"}]
  /\ called \in [Launches -> Names \cup {NoName}]
  /\ pidAlive \subseteq Launches
  /\ listed \in [StoreProcesses -> SUBSET Entry]
  /\ copy \in [StoreProcesses -> MaybeEntry]
  /\ found \in [Launches -> AutoPorts \cup {NoPort}]
  /\ opened \subseteq Launches \X Ports

\* What a session is called is settled before it is written down.
Settled ==
  /\ \A n \in Names : entries[n] # NoEntry =>
       entries[n].name = n /\ called[entries[n].owner] = n
  /\ \A p \in StoreProcesses : \A e \in listed[p] : called[e.owner] = e.name
  /\ \A p \in StoreProcesses : copy[p] # NoEntry => called[copy[p].owner] = copy[p].name
  /\ \A l \in Launches :
       /\ launchAt[l] \in {"start", "sweep"} => called[l] = NoName
       /\ launchAt[l] \notin {"start", "sweep", "gone"} => called[l] \in Names

\* Whose copy each process has.
OwnCopy ==
  /\ \A l \in Launches :
       launchAt[l] = "registered" \/ found[l] # NoPort =>
         copy[l] # NoEntry /\ copy[l].owner = l
  /\ \A c \in Clients :
       /\ clientAt[c] \in {"start", "sweep"} => copy[c] = NoEntry
       /\ clientAt[c] = "found" => copy[c] # NoEntry

PortOpened(e) == \A port \in e.ports : <<e.owner, port>> \in opened
OnlyOpened ==
  /\ \A n \in Names : entries[n] # NoEntry => PortOpened(entries[n])
  /\ \A p \in StoreProcesses : copy[p] # NoEntry => PortOpened(copy[p])
  /\ \A l \in Launches : found[l] # NoPort => <<l, found[l]>> \in opened

StoreInv == StoreShape /\ Settled /\ OwnCopy /\ OnlyOpened /\ RecordKept
              /\ PortsLostToForwardOnly
-----------------------------------------------------------------------------
(* Entries *)

LEMMA EntryIs == NoEntry \notin Entry
  BY DEF Entry, Ports

LEMMA NewEntryIs ==
  ASSUME NEW l \in Launches, called[l] \in Names
  PROVE  /\ NewEntry(l) \in Entry /\ NewEntry(l) # NoEntry
         /\ NewEntry(l).name = called[l] /\ NewEntry(l).owner = l /\ NewEntry(l).ports = {}
  BY DEF NewEntry, Entry, Ports

LEMMA WithPortsIs ==
  ASSUME NEW e \in Entry, NEW ports \in SUBSET Ports
  PROVE  /\ WithPorts(e, ports) \in Entry /\ WithPorts(e, ports) # NoEntry
         /\ WithPorts(e, ports).name = e.name /\ WithPorts(e, ports).owner = e.owner
         /\ WithPorts(e, ports).ports = e.ports \cup ports
  BY DEF WithPorts, Entry, Ports

LEMMA Listed ==
  ASSUME StoreShape, NEW e \in List
  PROVE  e \in Entry /\ e # NoEntry /\ \E n \in Names : entries[n] = e
  BY DEF StoreShape, List, MaybeEntry

\* The steps that store an entry are those that take it for their own copy.
Stores(p, e) ==
  /\ e \in Entry /\ called[e.owner] = e.name
  /\ copy' = [copy EXCEPT ![p] = e] /\ Store(e)
  /\ UNCHANGED <<called, pidAlive, listed>>
  /\ opened \subseteq opened' /\ \A port \in e.ports : <<e.owner, port>> \in opened'

-----------------------------------------------------------------------------
(* The steps *)

LEMMA StoreSteps ==
  ASSUME StoreInv, StoreNext
  PROVE  \/ \E p \in StoreProcesses : SweepOne(p)
         \/ \E l \in Launches :
              \/ ChooseName(l) \/ RegisterWrite(l) \/ PortRecorded(l) \/ Deregister(l)
              \/ LaunchClean(l) \/ SandboxStarts(l) \/ StartFails(l) \/ RegisterCheck(l)
              \/ PortAdded(l) \/ SandboxExits(l) \/ LaunchEnds(l)
         \/ \E c \in Clients :
              FindSession(c) \/ Forward(c) \/ ClientClean(c) \/ ClientEnds(c)
  BY DEF StoreNext, LaunchSteps, ClientSteps, StoreProcesses

LEMMA WriteIs ==
  ASSUME StoreInv
  PROVE  /\ \A l \in Launches : RegisterWrite(l) \/ PortRecorded(l) =>
              Stores(l, copy'[l]) /\ copy'[l].owner = l
         /\ \A c \in Clients : Forward(c) =>
              /\ Stores(c, copy'[c])
              /\ copy'[c].ports \cap AskedPorts # {}
<1> USE DEF StoreInv, StoreProcesses
<1>1. ASSUME NEW l \in Launches, RegisterWrite(l)
      PROVE  Stores(l, copy'[l]) /\ copy'[l].owner = l
  <2>1. called[l] \in Names
    BY <1>1 DEF RegisterWrite, Settled
  <2>2. copy'[l] = NewEntry(l)
    BY <1>1 DEF RegisterWrite, StoreShape
  <2>3. copy' = [copy EXCEPT ![l] = copy'[l]] /\ Store(copy'[l])
    BY <1>1, <2>2 DEF RegisterWrite
  <2>4. called[copy'[l].owner] = copy'[l].name /\ copy'[l] \in Entry /\ copy'[l].ports = {}
    BY <2>1, <2>2, NewEntryIs
  <2>5. UNCHANGED <<called, pidAlive, listed, opened>>
    BY <1>1 DEF RegisterWrite
  <2> QED BY <2>1, <2>2, <2>3, <2>4, <2>5, NewEntryIs DEF Stores
<1>2. ASSUME NEW l \in Launches, PortRecorded(l)
      PROVE  Stores(l, copy'[l]) /\ copy'[l].owner = l
  <2>1. copy[l] \in Entry /\ copy[l] # NoEntry /\ copy[l].owner = l /\ found[l] \in Ports
    BY <1>2 DEF PortRecorded, OwnCopy, StoreShape, MaybeEntry, Ports
  <2>2. copy'[l] = WithPorts(copy[l], {found[l]})
    BY <1>2 DEF PortRecorded, StoreShape
  <2>3. PortOpened(copy[l]) /\ <<l, found[l]>> \in opened
    BY <1>2, <2>1 DEF PortRecorded, OnlyOpened
  <2>4. \A port \in copy'[l].ports : <<l, port>> \in opened'
    BY <1>2, <2>1, <2>2, <2>3, WithPortsIs DEF PortRecorded, PortOpened
  <2>5. UNCHANGED <<called, pidAlive, listed, opened>>
      /\ copy' = [copy EXCEPT ![l] = copy'[l]] /\ Store(copy'[l])
    BY <1>2, <2>2 DEF PortRecorded
  <2>6. called[copy'[l].owner] = copy'[l].name /\ copy'[l] \in Entry /\ copy'[l].owner = l
    BY <2>1, <2>2, WithPortsIs DEF Settled
  <2> QED BY <2>4, <2>5, <2>6 DEF Stores
<1>3. ASSUME NEW c \in Clients, Forward(c)
      PROVE  Stores(c, copy'[c]) /\ copy'[c].ports \cap AskedPorts # {}
  <2>1. PICK ports \in (SUBSET AskedPorts) \ {{}} :
          /\ copy' = [copy EXCEPT ![c] = WithPorts(copy[c], ports)]
          /\ Store(WithPorts(copy[c], ports))
          /\ opened' = opened \cup {<<WithPorts(copy[c], ports).owner, port>> : port \in ports}
    BY <1>3 DEF Forward
  <2>2. copy[c] \in Entry /\ copy[c] # NoEntry /\ ports \in SUBSET Ports
    BY <1>3 DEF Forward, OwnCopy, StoreShape, MaybeEntry, Ports
  <2>3. copy'[c] = WithPorts(copy[c], ports)
    BY <2>1 DEF StoreShape
  <2>4. \A port \in copy'[c].ports : <<copy'[c].owner, port>> \in opened'
    BY <2>1, <2>2, <2>3, WithPortsIs DEF PortOpened, OnlyOpened
  <2>5. called[copy'[c].owner] = copy'[c].name /\ copy'[c] \in Entry
    BY <2>2, <2>3, WithPortsIs DEF Settled
  <2>6. copy' = [copy EXCEPT ![c] = copy'[c]] /\ Store(copy'[c])
    BY <2>1, <2>3
  <2>7. UNCHANGED <<called, pidAlive, listed>> /\ opened \subseteq opened'
    BY <1>3, <2>1 DEF Forward
  <2>8. copy'[c].ports \cap AskedPorts # {}
    <3>1. PICK port \in ports : port \in AskedPorts
      OBVIOUS
    <3>2. copy'[c].ports = copy[c].ports \cup ports
      BY <2>2, <2>3, WithPortsIs
    <3> QED BY <3>1, <3>2
  <2> QED BY <2>4, <2>5, <2>6, <2>7, <2>8 DEF Stores
<1> QED BY <1>1, <1>2, <1>3

LEMMA ShapeStep == StoreInv /\ StoreNext => StoreShape'
<1> SUFFICES ASSUME StoreInv, StoreNext PROVE StoreShape'
  OBVIOUS
<1> USE DEF StoreInv, StoreShape, StoreProcesses
<1>1. ASSUME NEW p \in StoreProcesses, SweepOne(p) PROVE StoreShape'
  BY <1>1 DEF SweepOne, Delete, MaybeEntry
<1>2. ASSUME NEW l \in Launches,
             \/ LaunchClean(l) \/ SandboxStarts(l) \/ StartFails(l) \/ RegisterCheck(l)
             \/ SandboxExits(l) \/ LaunchEnds(l) \/ ChooseName(l) \/ Deregister(l)
      PROVE  StoreShape'
  BY <1>2, Listed DEF LaunchClean, SandboxStarts, StartFails, RegisterCheck, SandboxExits,
     LaunchEnds, ChooseName, AutoName, Deregister, Delete, MaybeEntry, Started
<1>3. ASSUME NEW l \in Launches, PortAdded(l) PROVE StoreShape'
  BY <1>3 DEF PortAdded, Ports
<1>4. ASSUME NEW l \in Launches, RegisterWrite(l) \/ PortRecorded(l) PROVE StoreShape'
  <2>1. Stores(l, copy'[l])
    BY <1>4, WriteIs
  <2> QED BY <1>4, <2>1 DEF RegisterWrite, PortRecorded, Stores, Store, Entry, MaybeEntry, Started
<1>5. ASSUME NEW c \in Clients, Forward(c) PROVE StoreShape'
  <2>1. Stores(c, copy'[c])
    BY <1>5, WriteIs
  <2>2. opened' \subseteq Launches \X Ports
    BY <1>5 DEF Forward, WithPorts, OwnCopy, Ports, MaybeEntry, Entry
  <2> QED BY <1>5, <2>1, <2>2 DEF Forward, Stores, Store, Entry, MaybeEntry
<1>6. ASSUME NEW c \in Clients, FindSession(c) \/ ClientClean(c) \/ ClientEnds(c)
      PROVE  StoreShape'
  BY <1>6, Listed DEF FindSession, ClientClean, ClientEnds, MaybeEntry
<1> QED BY <1>1, <1>2, <1>3, <1>4, <1>5, <1>6, StoreSteps

LEMMA SettledStep == StoreInv /\ StoreNext => Settled'
<1> SUFFICES ASSUME StoreInv, StoreNext PROVE Settled'
  OBVIOUS
<1> USE DEF StoreInv, StoreProcesses
<1>1. ASSUME NEW p \in StoreProcesses, SweepOne(p) PROVE Settled'
  BY <1>1 DEF SweepOne, Delete, StoreShape, Settled
<1>2. ASSUME NEW l \in Launches,
             \/ SandboxStarts(l) \/ StartFails(l) \/ RegisterCheck(l)
             \/ PortAdded(l) \/ SandboxExits(l) \/ Deregister(l)
      PROVE  Settled'
  BY <1>2 DEF SandboxStarts, StartFails, RegisterCheck, PortAdded, SandboxExits, Deregister,
     Delete, StoreShape, Settled
<1>3. ASSUME NEW l \in Launches, LaunchClean(l) \/ LaunchEnds(l) PROVE Settled'
  BY <1>3, Listed DEF LaunchClean, LaunchEnds, StoreShape, Settled
<1>4. ASSUME NEW l \in Launches, ChooseName(l) PROVE Settled'
  <2>1. called[l] = NoName /\ \A m \in Launches : m # l => called'[m] = called[m]
    BY <1>4 DEF ChooseName, StoreShape, Settled
  <2>2. \A e \in Entry : called[e.owner] = e.name => called'[e.owner] = e.name
    BY <2>1 DEF Entry
  <2>3. called'[l] \in Names
    BY <1>4 DEF ChooseName, AutoName, StoreShape
  <2> QED BY <1>4, <2>1, <2>2, <2>3 DEF ChooseName, StoreShape, MaybeEntry, Settled
<1>5. ASSUME NEW p \in StoreProcesses, NEW e, Stores(p, e), \A l \in Launches :
               \/ launchAt'[l] = launchAt[l]
               \/ launchAt[l] = "checked" /\ launchAt'[l] = "registered"
      PROVE  Settled'
  <2>1. \A n \in Names : entries'[n] = IF n = e.name THEN e ELSE entries[n]
    BY <1>5 DEF Stores, Store, StoreShape
  <2>2. \A q \in StoreProcesses : copy'[q] = IF q = p THEN e ELSE copy[q]
    BY <1>5 DEF Stores, StoreShape
  <2>3. called' = called /\ listed' = listed /\ called[e.owner] = e.name
    BY <1>5 DEF Stores
  <2>4. \A l \in Launches :
          /\ launchAt'[l] \in {"start", "sweep"} => called'[l] = NoName
          /\ launchAt'[l] \notin {"start", "sweep", "gone"} => called'[l] \in Names
    BY <1>5, <2>3 DEF Settled
  <2> QED BY <2>1, <2>2, <2>3, <2>4 DEF Settled
<1>6. ASSUME NEW c \in Clients, FindSession(c) \/ ClientClean(c) \/ ClientEnds(c)
      PROVE  Settled'
  <2>1. \A e \in List : called[e.owner] = e.name
    BY Listed DEF Settled
  <2>2. entries' = entries /\ called' = called /\ launchAt' = launchAt
    BY <1>6 DEF FindSession, ClientClean, ClientEnds
  <2>3. \A p \in StoreProcesses : listed'[p] \in {listed[p], List, {}}
    BY <1>6 DEF FindSession, ClientClean, ClientEnds, StoreShape
  <2>4. \A p \in StoreProcesses : copy'[p] = copy[p] \/ copy'[p] \in List
    BY <1>6 DEF FindSession, ClientClean, ClientEnds, StoreShape
  <2> QED BY <2>1, <2>2, <2>3, <2>4 DEF Settled
<1>7. ASSUME NEW l \in Launches, RegisterWrite(l) \/ PortRecorded(l) PROVE Settled'
  <2>1. Stores(l, copy'[l])
    BY <1>7, WriteIs
  <2> QED BY <1>5, <1>7, <2>1 DEF RegisterWrite, PortRecorded, StoreShape
<1>8. ASSUME NEW c \in Clients, Forward(c) PROVE Settled'
  BY <1>5, <1>8, WriteIs DEF Forward, StoreShape
<1> QED BY <1>1, <1>2, <1>3, <1>4, <1>6, <1>7, <1>8, StoreSteps

LEMMA OwnCopyStep == StoreInv /\ StoreNext => OwnCopy'
<1> SUFFICES ASSUME StoreInv, StoreNext PROVE OwnCopy'
  OBVIOUS
<1> USE DEF StoreInv, StoreProcesses
<1>1. ASSUME NEW p \in StoreProcesses, SweepOne(p) PROVE OwnCopy'
  BY <1>1 DEF SweepOne, OwnCopy
<1>2. ASSUME NEW l \in Launches,
             \/ LaunchClean(l) \/ SandboxStarts(l) \/ StartFails(l) \/ RegisterCheck(l)
             \/ SandboxExits(l) \/ LaunchEnds(l) \/ ChooseName(l) \/ Deregister(l)
      PROVE  OwnCopy'
  BY <1>2 DEF LaunchClean, SandboxStarts, StartFails, RegisterCheck, SandboxExits,
     LaunchEnds, ChooseName, Deregister, StoreShape, OwnCopy
<1>3. ASSUME NEW l \in Launches, PortAdded(l) PROVE OwnCopy'
  BY <1>3 DEF PortAdded, StoreShape, OwnCopy
<1>4. ASSUME NEW l \in Launches, RegisterWrite(l) \/ PortRecorded(l) PROVE OwnCopy'
  <2>1. /\ copy'[l].owner = l /\ copy'[l] # NoEntry
        /\ \A p \in StoreProcesses : p # l => copy'[p] = copy[p]
    <3>1. Stores(l, copy'[l]) /\ copy'[l].owner = l
      BY <1>4, WriteIs
    <3> QED BY <3>1, EntryIs DEF Stores, StoreShape
  <2> QED BY <1>4, <2>1 DEF RegisterWrite, PortRecorded, StoreShape, OwnCopy
<1>5. ASSUME NEW c \in Clients, Forward(c) PROVE OwnCopy'
  <2>1. \A p \in StoreProcesses : p # c => copy'[p] = copy[p]
    BY <1>5, WriteIs DEF Stores, StoreShape
  <2> QED BY <1>5, <2>1 DEF Forward, StoreShape, OwnCopy
<1>6. ASSUME NEW c \in Clients, FindSession(c) \/ ClientClean(c) \/ ClientEnds(c)
      PROVE  OwnCopy'
  BY <1>6, Listed DEF FindSession, ClientClean, ClientEnds, StoreShape, OwnCopy
<1> QED BY <1>1, <1>2, <1>3, <1>4, <1>5, <1>6, StoreSteps

LEMMA OnlyOpenedStep == StoreInv /\ StoreNext => OnlyOpened'
<1> SUFFICES ASSUME StoreInv, StoreNext PROVE OnlyOpened'
  OBVIOUS
<1> USE DEF StoreInv, StoreProcesses, PortOpened
<1>1. ASSUME NEW p \in StoreProcesses, SweepOne(p) PROVE OnlyOpened'
  BY <1>1 DEF SweepOne, Delete, StoreShape, OnlyOpened
<1>2. ASSUME NEW l \in Launches,
             \/ LaunchClean(l) \/ SandboxStarts(l) \/ StartFails(l) \/ RegisterCheck(l)
             \/ SandboxExits(l) \/ LaunchEnds(l) \/ ChooseName(l) \/ Deregister(l)
      PROVE  OnlyOpened'
  BY <1>2 DEF LaunchClean, SandboxStarts, StartFails, RegisterCheck, SandboxExits,
     LaunchEnds, ChooseName, Deregister, Delete, StoreShape, OnlyOpened
<1>3. ASSUME NEW l \in Launches, PortAdded(l) PROVE OnlyOpened'
  BY <1>3 DEF PortAdded, StoreShape, OnlyOpened
<1>4. ASSUME NEW p \in StoreProcesses, NEW e, Stores(p, e),
             \A l \in Launches : found'[l] \in {found[l], NoPort}
      PROVE  OnlyOpened'
  BY <1>4 DEF Stores, Store, StoreShape, OnlyOpened, Entry
<1>5. ASSUME NEW l \in Launches, RegisterWrite(l) \/ PortRecorded(l) PROVE OnlyOpened'
  <2>1. Stores(l, copy'[l])
    BY <1>5, WriteIs
  <2> QED BY <1>4, <1>5, <2>1 DEF RegisterWrite, PortRecorded, StoreShape
<1>6. ASSUME NEW c \in Clients, Forward(c) PROVE OnlyOpened'
  BY <1>4, <1>6, WriteIs DEF Forward, StoreShape
<1>7. ASSUME NEW c \in Clients, FindSession(c) \/ ClientClean(c) \/ ClientEnds(c)
      PROVE  OnlyOpened'
  BY <1>7, Listed DEF FindSession, ClientClean, ClientEnds, StoreShape, OnlyOpened
<1> QED BY <1>1, <1>2, <1>3, <1>5, <1>6, <1>7, StoreSteps

\* The entry under a sole name is its owner's, wherever it was read.
LEMMA SoleOwner ==
  ASSUME StoreInv, NEW l \in Launches, called[l] \in Names, SoleName(l)
  PROVE  /\ \A p \in StoreProcesses : \A e \in listed[p] : e.name = called[l] => e.owner = l
         /\ \A p \in StoreProcesses : \A e : Stores(p, e) /\ e.name = called[l] => e.owner = l
         /\ \A m \in Launches : called[m] = called[l] => m = l
  BY DEF StoreInv, StoreShape, Settled, SoleName, Stores, Entry

\* Who is or will be Running under a sole name already had it.
LEMMA RunningBefore ==
  ASSUME StoreInv, StoreNext, NEW l \in Launches, Running(l)', SoleName(l)'
  PROVE  /\ called[l] \in Names /\ called'[l] = called[l] /\ SoleName(l) /\ l \in pidAlive
         /\ Running(l) \/ RegisterWrite(l)
<1> USE DEF StoreInv, StoreProcesses
<1>1. launchAt[l] # "gone" /\ l \in pidAlive /\ (Running(l) \/ RegisterWrite(l))
  BY StoreSteps DEF Running, SweepOne, LaunchClean, SandboxStarts, StartFails, RegisterCheck,
     SandboxExits, LaunchEnds, ChooseName, Deregister, PortAdded, RegisterWrite,
     PortRecorded, FindSession, ClientClean, ClientEnds, Forward, StoreShape
<1>2. called[l] \in Names
  BY <1>1 DEF Running, RegisterWrite, Settled
<1>3. \A m \in Launches : called'[m] = called[m] \/ called[m] = NoName
  BY StoreSteps DEF SweepOne, LaunchClean, SandboxStarts, StartFails, RegisterCheck,
     SandboxExits, LaunchEnds, ChooseName, Deregister, PortAdded, RegisterWrite,
     PortRecorded, FindSession, ClientClean, ClientEnds, Forward, StoreShape, Settled
<1> QED BY <1>1, <1>2, <1>3 DEF SoleName

\* Neither a sweep nor a Remove takes the entry of a live session with a name of its own.
LEMMA SoleEntryKept ==
  ASSUME StoreInv, NEW l \in Launches, called[l] \in Names, SoleName(l), l \in pidAlive,
         \/ \E p \in StoreProcesses : SweepOne(p)
         \/ \E m \in Launches : Deregister(m)
  PROVE  entries'[called[l]] = entries[called[l]]
<1>1. ASSUME NEW p \in StoreProcesses, SweepOne(p) PROVE entries'[called[l]] = entries[called[l]]
  BY <1>1, SoleOwner DEF SweepOne, Delete, StoreInv, StoreShape
<1>2. ASSUME NEW m \in Launches, Deregister(m) PROVE entries'[called[l]] = entries[called[l]]
  BY <1>2, SoleOwner DEF Deregister, Delete, StoreInv, StoreShape
<1> QED BY <1>1, <1>2

LEMMA RecordKeptStep == StoreInv /\ StoreNext => RecordKept'
<1> SUFFICES ASSUME StoreInv, StoreNext, NEW l \in Launches, Running(l)', SoleName(l)'
             PROVE  entries'[called'[l]] # NoEntry /\ entries'[called'[l]].owner = l
  BY DEF RecordKept
<1> DEFINE n == called[l]
<1>1. n \in Names /\ called'[l] = n /\ SoleName(l) /\ l \in pidAlive
  BY RunningBefore
<1> HIDE DEF n
<1>2. Running(l) => entries[n] # NoEntry /\ entries[n].owner = l
  BY <1>1 DEF n, StoreInv, RecordKept
<1>3. CASE RegisterWrite(l)
  BY <1>1, <1>3, WriteIs, NewEntryIs DEF n, RegisterWrite, Store, StoreInv, StoreShape
<1>4. CASE Running(l) /\ entries'[n] = entries[n]
  BY <1>1, <1>2, <1>4
<1>5. ASSUME NEW p \in StoreProcesses, NEW e, Stores(p, e), Running(l)
      PROVE  entries'[n] = entries[n] \/ (entries'[n] = e /\ e.owner = l)
  <2>1. e.name = n => e.owner = l
    BY <1>1, <1>5, SoleOwner DEF n
  <2> QED BY <1>1, <1>5, <2>1 DEF Stores, Store, StoreInv, StoreShape
<1>6. ASSUME NEW p \in StoreProcesses, SweepOne(p) PROVE entries'[n] = entries[n]
  BY <1>1, <1>6, SoleEntryKept DEF n
<1>7. ASSUME NEW m \in Launches, Deregister(m) PROVE entries'[n] = entries[n]
  BY <1>1, <1>7, SoleEntryKept DEF n
<1>8. ASSUME NEW m \in Launches, RegisterWrite(m) \/ PortRecorded(m), Running(l)
      PROVE  entries'[n] = entries[n]
               \/ (entries'[n] # NoEntry /\ entries'[n].owner = l)
  <2>1. Stores(m, copy'[m])
    BY <1>8, WriteIs
  <2>2. copy'[m] # NoEntry
    BY <2>1, EntryIs DEF Stores
  <2> QED BY <1>5, <1>8, <2>1, <2>2 DEF StoreProcesses
<1>9. ASSUME NEW c \in Clients, Forward(c), Running(l)
      PROVE  entries'[n] = entries[n]
               \/ (entries'[n] # NoEntry /\ entries'[n].owner = l)
  <2>1. Stores(c, copy'[c])
    BY <1>9, WriteIs
  <2>2. copy'[c] # NoEntry
    BY <2>1, EntryIs DEF Stores
  <2> QED BY <1>5, <1>9, <2>1, <2>2 DEF StoreProcesses
<1>10. Running(l) \/ RegisterWrite(l)
  BY RunningBefore
<1>11. ASSUME NEW m \in Launches,
             \/ LaunchClean(m) \/ SandboxStarts(m) \/ StartFails(m) \/ RegisterCheck(m)
             \/ SandboxExits(m) \/ LaunchEnds(m) \/ ChooseName(m) \/ PortAdded(m)
       PROVE  entries' = entries
  BY <1>11 DEF LaunchClean, SandboxStarts, StartFails, RegisterCheck, SandboxExits,
     LaunchEnds, ChooseName, PortAdded
<1>12. ASSUME NEW c \in Clients, FindSession(c) \/ ClientClean(c) \/ ClientEnds(c)
       PROVE  entries' = entries
  BY <1>12 DEF FindSession, ClientClean, ClientEnds
<1> QED BY <1>1, <1>2, <1>3, <1>6, <1>7, <1>8, <1>9, <1>10, <1>11, <1>12, StoreSteps

LEMMA PortsLostStep == StoreInv /\ StoreNext => PortsLostToForwardOnly'
<1> SUFFICES ASSUME StoreInv, StoreNext, NEW l \in Launches, Running(l)', SoleName(l)',
                    entries'[called'[l]] # copy'[l]
             PROVE  \E c \in Clients : copy'[c] # NoEntry /\ copy'[c].owner = l
                                       /\ copy'[c].ports \cap AskedPorts # {}
  BY DEF PortsLostToForwardOnly
<1> DEFINE n == called[l]
<1>1. n \in Names /\ called'[l] = n /\ SoleName(l) /\ l \in pidAlive
  BY RunningBefore
<1> HIDE DEF n
<1>2. Running(l) => /\ copy[l] # NoEntry
                    /\ \/ entries[n] = copy[l]
                       \/ \E c \in Clients : copy[c] # NoEntry /\ copy[c].owner = l
                                             /\ copy[c].ports \cap AskedPorts # {}
  BY <1>1 DEF n, StoreInv, PortsLostToForwardOnly, OwnCopy, Running
<1>3. ~RegisterWrite(l) /\ ~PortRecorded(l)
  <2>1. RegisterWrite(l) \/ PortRecorded(l) => copy'[l].name = n /\ Store(copy'[l])
    BY WriteIs DEF Stores, n
  <2> QED BY <1>1, <2>1 DEF Store, StoreInv, StoreShape
<1>4. Running(l)
  BY <1>3, RunningBefore
<1>5. ASSUME NEW c \in Clients, Forward(c)
      PROVE  copy'[c] # NoEntry /\ copy'[c].ports \cap AskedPorts # {}
               /\ (copy'[c].owner = l \/ (entries'[n] = entries[n] /\ copy[c].owner # l))
  <2>1. Stores(c, copy'[c]) /\ copy'[c].ports \cap AskedPorts # {}
    BY <1>5, WriteIs
  <2>2. copy'[c].owner = copy[c].owner
    BY <1>5, WithPortsIs
       DEF Forward, StoreInv, OwnCopy, StoreShape, MaybeEntry, StoreProcesses, Ports
  <2>3. copy'[c].name = n => copy'[c].owner = l
    BY <1>1, <2>1, SoleOwner DEF n, StoreProcesses
  <2> QED BY <1>1, <2>1, <2>2, <2>3, EntryIs DEF Stores, Store, StoreInv, StoreShape
<1>6. CASE \E c \in Clients : Forward(c)
  <2>1. PICK c \in Clients : Forward(c)
    BY <1>6
  <2>2. CASE copy'[c].owner = l
    BY <1>5, <2>1, <2>2
  <2>3. CASE copy'[c].owner # l
    <3>1. entries'[n] = entries[n] /\ copy[c].owner # l
      BY <1>5, <2>1, <2>3
    <3>2. \A p \in StoreProcesses : p # c => copy'[p] = copy[p]
      BY <2>1, WriteIs DEF Stores, StoreInv, StoreShape
    <3> QED BY <1>1, <1>2, <1>4, <3>1, <3>2 DEF StoreProcesses
  <2> QED BY <2>2, <2>3
<1>7. CASE \E m \in Launches : RegisterWrite(m) \/ PortRecorded(m)
  <2>1. PICK m \in Launches : RegisterWrite(m) \/ PortRecorded(m)
    BY <1>7
  <2>2. Stores(m, copy'[m]) /\ copy'[m].owner = m /\ m # l
    BY <1>3, <2>1, WriteIs
  <2>3. copy'[m].name # n
    BY <1>1, <2>2, SoleOwner DEF n, StoreProcesses
  <2>4. entries'[n] = entries[n] /\ \A p \in StoreProcesses : p # m => copy'[p] = copy[p]
    BY <1>1, <2>2, <2>3 DEF Stores, Store, StoreInv, StoreShape
  <2> QED BY <1>1, <1>2, <1>4, <2>2, <2>4 DEF StoreProcesses
<1>8. CASE \E c \in Clients : FindSession(c)
  <2>1. PICK c \in Clients : FindSession(c)
    BY <1>8
  <2>2. /\ copy[c] = NoEntry /\ entries' = entries
        /\ \A p \in StoreProcesses : p # c => copy'[p] = copy[p]
    BY <2>1 DEF FindSession, StoreInv, OwnCopy, StoreShape
  <2> QED BY <1>1, <1>2, <1>4, <2>2 DEF StoreProcesses
<1>9. CASE entries'[n] = entries[n] /\ copy' = copy
  BY <1>1, <1>2, <1>4, <1>9
<1>10. CASE \/ \E p \in StoreProcesses : SweepOne(p)
            \/ \E m \in Launches : Deregister(m)
  BY <1>1, <1>9, <1>10, SoleEntryKept DEF n, SweepOne, Deregister
<1>11. ASSUME NEW m \in Launches,
             \/ LaunchClean(m) \/ SandboxStarts(m) \/ StartFails(m) \/ RegisterCheck(m)
             \/ SandboxExits(m) \/ LaunchEnds(m) \/ ChooseName(m) \/ PortAdded(m)
       PROVE  entries' = entries /\ copy' = copy
  BY <1>11 DEF LaunchClean, SandboxStarts, StartFails, RegisterCheck, SandboxExits,
     LaunchEnds, ChooseName, PortAdded
<1>12. ASSUME NEW c \in Clients, ClientClean(c) \/ ClientEnds(c)
       PROVE  entries' = entries /\ copy' = copy
  BY <1>12 DEF ClientClean, ClientEnds
<1> QED BY <1>6, <1>7, <1>8, <1>9, <1>10, <1>11, <1>12, StoreSteps

-----------------------------------------------------------------------------
(* The theorem *)

LEMMA StoreInvariance == StoreSpec => []StoreInv
<1>1. StoreInit => StoreInv
  BY EntryIs DEF StoreInit, StoreInv, StoreShape, Settled, OwnCopy, OnlyOpened, RecordKept,
     PortsLostToForwardOnly, Running, StoreProcesses, MaybeEntry, Started
<1>2. StoreInv /\ UNCHANGED storeVars => StoreInv'
  BY DEF storeVars, StoreInv, StoreShape, Settled, OwnCopy, OnlyOpened, PortOpened, RecordKept,
     PortsLostToForwardOnly, Running, SoleName
<1>3. StoreInv /\ StoreNext => StoreInv'
  BY ShapeStep, SettledStep, OwnCopyStep, OnlyOpenedStep, RecordKeptStep, PortsLostStep
     DEF StoreInv
<1> QED BY <1>1, <1>2, <1>3, PTL DEF StoreSpec

\* The store and the processes that use it keep to their values: an entry lies under its
\* own name, whoever wrote it (internal/session/store.go).
THEOREM StoreTyped == StoreSpec => []StoreTypeOK
<1>1. StoreInv => StoreTypeOK
  BY DEF StoreInv, StoreShape, Settled, StoreTypeOK, StoreProcesses
<1> QED BY <1>1, StoreInvariance, PTL

\* What sessions and clients rely on in the store, although each writes
\* back the copy it read before: the record of a running session that has its name to
\* itself is its own; it differs from what its monitor forwards only after a forward wrote
\* its copy back; and the ports listed under a name were forwarded into that very session.
THEOREM StoreRelied == StoreSpec => []StoreKept
<1>1. StoreInv => StoreKept
  BY DEF StoreInv, StoreKept, PortsOfOwner, OnlyOpened, PortOpened
<1> QED BY <1>1, StoreInvariance, PTL

-----------------------------------------------------------------------------
(* Overlay migration: what the walk over each upper records is what overlayfs
   shows, the plan has an operation for every path that needs one, a directory
   before what it holds, and each operation settles its path.                *)

-----------------------------------------------------------------------------
(* Paths: to lie above is a strict order *)

LEMMA PrefixIs ==
  ASSUME NEW S, NEW s \in Seq(S), NEW t \in Seq(S)
  PROVE  IsStrictPrefix(s, t) <=>
           Len(s) < Len(t) /\ \A i \in 1..Len(s) : s[i] = t[i]
<1>1. CASE Len(s) <= Len(t)
  <2>1. SubSeq(s, 1, Len(s)) = s
    OBVIOUS
  <2>2. SubSeq(t, 1, Len(s)) = [i \in 1..Len(s) |-> t[i]]
    BY <1>1
  <2>3. s = [i \in 1..Len(s) |-> t[i]] <=> \A i \in 1..Len(s) : s[i] = t[i]
    OBVIOUS
  <2>4. Len(s) = Len(t) /\ (\A i \in 1..Len(s) : s[i] = t[i]) => s = t
    OBVIOUS
  <2> QED BY <1>1, <2>1, <2>2, <2>3, <2>4 DEF IsStrictPrefix, IsPrefix
<1>2. CASE ~(Len(s) <= Len(t))
  BY <1>2 DEF IsStrictPrefix, IsPrefix
<1> QED BY <1>1, <1>2

LEMMA RelsAreSeqs == \E S : Rels \subseteq Seq(S)
<1> DEFINE S == UNION {{p[i] : i \in DOMAIN p} : p \in Rels}
<1>1. ASSUME NEW p \in Rels PROVE p \in Seq(S)
  <2>1. p \in Seq({p[i] : i \in DOMAIN p})
    BY MigrateAssumption
  <2>2. {p[i] : i \in DOMAIN p} \subseteq S
    OBVIOUS
  <2> QED BY <2>1, <2>2
<1> QED BY <1>1

LEMMA AboveOrder ==
  ASSUME NEW p \in Rels, NEW q \in Above(p)
  PROVE  /\ q \in Rels /\ q # p /\ p \notin Above(q)
         /\ Above(q) \subseteq Above(p)
<1>1. PICK S : Rels \subseteq Seq(S)
  BY RelsAreSeqs
<1>2. q \in Rels /\ IsStrictPrefix(q, p)
  BY DEF Above
<1>3. q # p /\ Len(q) < Len(p)
  BY <1>1, <1>2, PrefixIs DEF IsStrictPrefix
<1>4. ~IsStrictPrefix(p, q)
  BY <1>1, <1>2, <1>3, PrefixIs
<1>5. ASSUME NEW r \in Above(q) PROVE r \in Above(p)
  <2>1. r \in Rels /\ IsStrictPrefix(r, q)
    BY DEF Above
  <2>2. Len(r) < Len(q) /\ \A i \in 1..Len(r) : r[i] = q[i]
    BY <1>1, <1>2, <2>1, PrefixIs
  <2>3. Len(q) < Len(p) /\ \A i \in 1..Len(q) : q[i] = p[i]
    BY <1>1, <1>2, PrefixIs
  <2>4. Len(r) < Len(p) /\ \A i \in 1..Len(r) : r[i] = p[i]
    BY <1>1, <1>2, <2>1, <2>2, <2>3
  <2> QED BY <1>1, <2>1, <2>4, PrefixIs DEF Above
<1> QED BY <1>2, <1>3, <1>4, <1>5 DEF Above

LEMMA BelowIs == \A p, q \in Rels : q \in Below(p) <=> p \in Above(q)
BY DEF Below, Above

-----------------------------------------------------------------------------
(* The merge of the uppers *)

Recorded == [k : {"none", "file", "dir", "whiteout"}, from : 0..Layers]
Record == [Rels -> Recorded]
Steps == Len(WalkOrder)

\* What an upper records of a path it has.
EntryOf(i, p) ==
  CASE uppers[i][p] \in {"dir", "opaque"} -> [k |-> "dir", from |-> i]
    [] uppers[i][p] = "special" -> None
    [] OTHER -> [k |-> uppers[i][p], from |-> i]
MaskedIn(i, p) == \E q \in Above(p) : Masks(uppers[i][q])

\* The paths an upper's walk has come by.
Walked(n) == {WalkOrder[j] : j \in 1..n}

LEMMA UpperIs ==
  ASSUME uppers \in [1..Layers -> Uppers], NEW i \in 1..Layers, NEW p \in Rels
  PROVE  /\ uppers[i] \in [Rels -> UpperKinds]
         /\ uppers[i][p] \in UpperKinds
         /\ uppers[i][p] # "none" => \A q \in Above(p) : uppers[i][q] \in {"dir", "opaque"}
BY DEF Uppers

LEMMA EntryRecorded ==
  ASSUME uppers \in [1..Layers -> Uppers], NEW i \in 1..Layers, NEW p \in Rels,
         uppers[i][p] # "none"
  PROVE  EntryOf(i, p) \in Recorded
<1>1. uppers[i][p] \in UpperKinds /\ i \in 0..Layers /\ 0 \in 0..Layers
  BY UpperIs, MigrateAssumption
<1> QED BY <1>1 DEF EntryOf, UpperKinds, Recorded, None

LEMMA MergeIs ==
  ASSUME uppers \in [1..Layers -> Uppers], NEW i \in 1..Layers, NEW m \in Record,
         NEW w \in Rels
  PROVE  /\ Merge(m, i, w) \in Record
         /\ \A p \in Rels :
              Merge(m, i, w)[p] =
                IF uppers[i][w] = "none" THEN m[p]
                ELSE IF p = w THEN EntryOf(i, w)
                ELSE IF w \in Above(p) /\ Masks(uppers[i][w]) THEN None ELSE m[p]
<1> DEFINE kind == uppers[i][w]
           pruned == [q \in Rels |-> IF q \in Below(w) THEN None ELSE m[q]]
<1>1. kind \in UpperKinds
  BY UpperIs
<1>2. None \in Recorded
  BY MigrateAssumption DEF None, Recorded
<1>3. pruned \in Record
  BY <1>2 DEF Record
<1>4. \A p \in Rels : pruned[p] = IF w \in Above(p) THEN None ELSE m[p]
  BY BelowIs
<1>5. w \notin Above(w)
  BY AboveOrder
<1>6. CASE kind = "none"
  BY <1>6 DEF Merge
<1>7. CASE kind = "dir"
  <2>1. Merge(m, i, w) = [m EXCEPT ![w] = EntryOf(i, w)]
    BY <1>7 DEF Merge, EntryOf
  <2>2. ~Masks(kind)
    BY <1>7 DEF Masks
  <2> QED BY <1>7, <2>1, <2>2, EntryRecorded DEF Record
<1>8. CASE kind \notin {"none", "dir"}
  <2>1. Merge(m, i, w) = [pruned EXCEPT ![w] = EntryOf(i, w)]
    BY <1>8 DEF Merge, EntryOf
  <2>2. Masks(kind)
    BY <1>1, <1>8 DEF Masks, UpperKinds
  <2>3. EntryOf(i, w) \in Recorded
    BY <1>8, EntryRecorded
  <2> HIDE DEF pruned
  <2> QED BY <1>3, <1>4, <1>8, <2>1, <2>2, <2>3 DEF Record
<1> QED BY <1>6, <1>7, <1>8

LEMMA WalkFacts ==
  /\ Steps \in Nat
  /\ \A n \in 1..Steps : WalkOrder[n] \in Rels
  /\ Walked(Steps) = Rels
  /\ \A n \in 0..Steps : n # Steps => Walked(n + 1) = Walked(n) \cup {WalkOrder[n + 1]}
  /\ \A n \in 1..Steps : Above(WalkOrder[n]) \subseteq Walked(n - 1)
  /\ \A n \in 1..Steps : WalkOrder[n] \notin Walked(n - 1)
<1>1. WalkOrder \in Seq(Rels) /\ DOMAIN WalkOrder = 1..Steps /\ Steps \in Nat
  BY MigrateAssumption DEF Steps
<1>2. Walked(Steps) = Rels
  BY <1>1, MigrateAssumption DEF Walked
<1>3. \A n \in 0..Steps : n # Steps => Walked(n + 1) = Walked(n) \cup {WalkOrder[n + 1]}
  <2> SUFFICES ASSUME NEW n \in 0..Steps, n # Steps
               PROVE  Walked(n + 1) = Walked(n) \cup {WalkOrder[n + 1]}
    OBVIOUS
  <2>1. 1..(n + 1) = (1..n) \cup {n + 1}
    BY <1>1
  <2> QED BY <2>1 DEF Walked
<1>4. ASSUME NEW n \in 1..Steps, NEW q \in Above(WalkOrder[n])
      PROVE  q \in Walked(n - 1)
  <2>1. q \in Rels /\ IsStrictPrefix(q, WalkOrder[n])
    BY DEF Above
  <2>2. PICK j \in 1..Steps : q = WalkOrder[j]
    BY <1>1, <2>1, MigrateAssumption
  <2>3. j < n
    BY <1>1, <2>1, <2>2, MigrateAssumption
  <2> QED BY <1>1, <2>2, <2>3 DEF Walked
<1>5. ASSUME NEW n \in 1..Steps PROVE WalkOrder[n] \notin Walked(n - 1)
  <2> SUFFICES ASSUME NEW j \in 1..(n - 1), WalkOrder[j] = WalkOrder[n] PROVE FALSE
    BY DEF Walked
  <2>1. j \in 1..Steps /\ j # n
    BY <1>1
  <2> QED BY <1>1, <2>1, MigrateAssumption
<1> QED BY <1>1, <1>2, <1>3, <1>4, <1>5
LEMMA WalkedClosed ==
  ASSUME NEW n \in 0..Steps, NEW p \in Walked(n)
  PROVE  p \in Rels /\ Above(p) \subseteq Walked(n)
<1>1. PICK j \in 1..n : p = WalkOrder[j]
  BY DEF Walked
<1>2. j \in 1..Steps /\ 1..(j - 1) \subseteq 1..n
  BY WalkFacts
<1>3. Walked(j - 1) \subseteq Walked(n)
  BY <1>2 DEF Walked
<1> QED BY <1>1, <1>2, <1>3, WalkFacts

\* What the walk of upper i over the merge m has made of path p after n steps.
AfterWalk(m, i, n, p) ==
  IF p \in Walked(n) /\ uppers[i][p] # "none" THEN EntryOf(i, p)
  ELSE IF \E q \in Above(p) \cap Walked(n) : Masks(uppers[i][q]) THEN None
  ELSE m[p]

LEMMA WalkStep ==
  ASSUME uppers \in [1..Layers -> Uppers], NEW i \in 1..Layers, NEW m,
         NEW a \in Record, NEW n \in 0..Steps, n # Steps,
         \A p \in Rels : a[p] = AfterWalk(m, i, n, p)
  PROVE  \A p \in Rels :
           Merge(a, i, WalkOrder[n + 1])[p] = AfterWalk(m, i, n + 1, p)
<1> DEFINE w == WalkOrder[n + 1]
<1>1. n + 1 \in 1..Steps /\ (n + 1) - 1 = n /\ w \in Rels
  BY WalkFacts
<1>2. Walked(n + 1) = Walked(n) \cup {w} /\ w \notin Walked(n)
  BY <1>1, WalkFacts
<1> SUFFICES ASSUME NEW p \in Rels
             PROVE  Merge(a, i, w)[p] = AfterWalk(m, i, n + 1, p)
  OBVIOUS
<1> HIDE DEF w
<1>3. Merge(a, i, w)[p] =
        IF uppers[i][w] = "none" THEN a[p]
        ELSE IF p = w THEN EntryOf(i, w)
        ELSE IF w \in Above(p) /\ Masks(uppers[i][w]) THEN None ELSE a[p]
  BY <1>1, MergeIs
<1>4. CASE uppers[i][w] # "none" /\ p = w
  BY <1>2, <1>3, <1>4 DEF AfterWalk
<1>5. CASE uppers[i][w] # "none" /\ p # w /\ w \in Above(p) /\ Masks(uppers[i][w])
  <2>1. p \notin Walked(n)
    BY <1>2, <1>5, WalkedClosed
  <2> QED BY <1>2, <1>3, <1>5, <2>1 DEF AfterWalk
<1>6. CASE \/ uppers[i][w] = "none"
           \/ uppers[i][w] # "none" /\ p # w /\ ~(w \in Above(p) /\ Masks(uppers[i][w]))
  <2>1. ~(w \in Above(p) /\ Masks(uppers[i][w]))
    BY <1>6 DEF Masks
  <2>2. Merge(a, i, w)[p] = a[p]
    BY <1>3, <1>6, <2>1
  <2>3. p = w => uppers[i][p] = "none"
    BY <1>6
  <2>4. AfterWalk(m, i, n + 1, p) = AfterWalk(m, i, n, p)
    BY <1>2, <2>1, <2>3 DEF AfterWalk
  <2> QED BY <2>2, <2>4
<1> QED BY <1>4, <1>5, <1>6

LEMMA WalkIs ==
  ASSUME uppers \in [1..Layers -> Uppers], NEW i \in 1..Layers, NEW m \in Record
  PROVE  /\ WalkUpper(m, i) \in Record
         /\ \A p \in Rels :
              WalkUpper(m, i)[p] =
                IF uppers[i][p] # "none" THEN EntryOf(i, p)
                ELSE IF MaskedIn(i, p) THEN None ELSE m[p]
<1> DEFINE seen[n \in 0..Len(WalkOrder)] ==
             IF n = 0 THEN m ELSE Merge(seen[n - 1], i, WalkOrder[n])
           step == [n \in 1..Steps |-> [a \in Record |-> Merge(a, i, WalkOrder[n])]]
<1>1. WalkUpper(m, i) = seen[Steps]
  BY DEF WalkUpper, Steps
<1>2. \A n \in 1..Steps, a \in Record : Merge(a, i, WalkOrder[n]) \in Record
  BY MergeIs, WalkFacts
<1>3. step \in [1..Steps -> [Record -> Record]]
  BY <1>2
<1>4. Steps \in Nat
  BY WalkFacts
<1>5. PICK g \in [0..Steps -> Record] : GoesOn(g, Steps, m, step)
  <2> HIDE DEF step
  <2> QED BY <1>3, <1>4, Recursion
<1>6. \A n \in 1..Steps : g[n] = Merge(g[n - 1], i, WalkOrder[n])
  <2> SUFFICES ASSUME NEW n \in 1..Steps PROVE g[n] = Merge(g[n - 1], i, WalkOrder[n])
    OBVIOUS
  <2>1. g[n - 1] \in Record
    BY <1>4
  <2> QED BY <1>5, <2>1 DEF GoesOn
<1>7. g = [n \in 0..Steps |-> IF n = 0 THEN m ELSE Merge(g[n - 1], i, WalkOrder[n])]
  BY <1>4, <1>5, <1>6 DEF GoesOn
<1>8. seen = [n \in 0..Steps |-> IF n = 0 THEN m ELSE Merge(seen[n - 1], i, WalkOrder[n])]
  BY <1>7 DEF Steps
<1> HIDE DEF seen, step
<1> DEFINE S == {n \in 0..Steps : /\ seen[n] \in Record
                                  /\ \A p \in Rels : seen[n][p] = AfterWalk(m, i, n, p)}
<1>9. 0 \in S
  <2>1. seen[0] = m /\ 0 \in 0..Steps
    BY <1>4, <1>8
  <2>2. Walked(0) = {}
    BY DEF Walked
  <2> QED BY <2>1, <2>2 DEF AfterWalk
<1>10. ASSUME NEW n \in 0..Steps, n # Steps, n \in S PROVE n + 1 \in S
  <2>1. n + 1 \in 0..Steps /\ n + 1 \in 1..Steps /\ n + 1 # 0 /\ (n + 1) - 1 = n
    BY <1>4, <1>10
  <2>2. seen[n + 1] = Merge(seen[n], i, WalkOrder[n + 1])
    BY <1>8, <2>1
  <2>3. seen[n + 1] \in Record
    BY <1>2, <1>10, <2>1, <2>2
  <2>4. \A p \in Rels : seen[n + 1][p] = AfterWalk(m, i, n + 1, p)
    BY <1>10, <2>2, WalkStep
  <2> QED BY <2>1, <2>3, <2>4
<1>11. Steps \in S
  <2> HIDE DEF S
  <2>1. \A n \in 0..Steps : n \in S
    BY <1>4, <1>9, <1>10, UpTo
  <2> QED BY <1>4, <2>1
<1>12. ASSUME NEW p \in Rels
       PROVE  AfterWalk(m, i, Steps, p) =
                IF uppers[i][p] # "none" THEN EntryOf(i, p)
                ELSE IF MaskedIn(i, p) THEN None ELSE m[p]
  <2>1. Above(p) \cap Walked(Steps) = Above(p) /\ p \in Walked(Steps)
    BY WalkFacts DEF Above
  <2> QED BY <2>1 DEF AfterWalk, MaskedIn
<1> QED BY <1>1, <1>11, <1>12

\* Upper i is the last of the first n to have path p, and none of those after it
\* masks p.
Latest(n, p, i) ==
  /\ uppers[i][p] # "none"
  /\ \A j \in i + 1..n : uppers[j][p] = "none" /\ ~MaskedIn(j, p)

\* What the walks of the first n uppers have made of path p.
AfterLayers(a, n, p) ==
  /\ \A i \in 1..n : Latest(n, p, i) => a[p] = EntryOf(i, p)
  /\ (\A i \in 1..n : ~Latest(n, p, i)) => a[p] = None

LEMMA LayerStep ==
  ASSUME uppers \in [1..Layers -> Uppers], NEW n \in 0..Layers, n # Layers,
         NEW a \in Record, NEW p \in Rels, AfterLayers(a, n, p)
  PROVE  AfterLayers(WalkUpper(a, n + 1), n + 1, p)
<1>0. Layers \in Nat /\ n \in Nat
  BY MigrateAssumption
<1>1. n + 1 \in 1..Layers /\ 1..(n + 1) = (1..n) \cup {n + 1}
  BY <1>0
<1> DEFINE b == WalkUpper(a, n + 1)
<1>2. b[p] = IF uppers[n + 1][p] # "none" THEN EntryOf(n + 1, p)
             ELSE IF MaskedIn(n + 1, p) THEN None ELSE a[p]
  BY <1>1, WalkIs
<1> HIDE DEF b
<1>3. ASSUME NEW i \in 1..n
      PROVE  Latest(n + 1, p, i) <=>
               Latest(n, p, i) /\ uppers[n + 1][p] = "none" /\ ~MaskedIn(n + 1, p)
  <2>1. \A j : j \in i + 1..n + 1 <=> j \in i + 1..n \/ j = n + 1
    BY <1>0
  <2> QED BY <2>1 DEF Latest
<1>4. Latest(n + 1, p, n + 1) <=> uppers[n + 1][p] # "none"
  <2>1. ((n + 1) + 1)..(n + 1) = {}
    BY MigrateAssumption
  <2> QED BY <2>1 DEF Latest
<1>5. AfterLayers(b, n + 1, p)
  <2>1. CASE uppers[n + 1][p] # "none"
    BY <1>1, <1>2, <1>3, <1>4, <2>1 DEF AfterLayers
  <2>2. CASE uppers[n + 1][p] = "none" /\ MaskedIn(n + 1, p)
    BY <1>1, <1>2, <1>3, <1>4, <2>2 DEF AfterLayers
  <2>3. CASE uppers[n + 1][p] = "none" /\ ~MaskedIn(n + 1, p)
    BY <1>1, <1>2, <1>3, <1>4, <2>3 DEF AfterLayers
  <2> QED BY <2>1, <2>2, <2>3
<1> QED BY <1>5 DEF b

LEMMA DeciderIs ==
  ASSUME NEW p
  PROVE  /\ Decider(p) \in 0..Layers
         /\ Decider(p) # 0 => Decides(Decider(p), p)
         /\ \A i \in 1..Layers : Decides(i, p) => Decider(p) = i
<1>1. ASSUME NEW i \in 1..Layers, NEW j \in 1..Layers, Decides(i, p), Decides(j, p), i < j
      PROVE  FALSE
  <2>1. j \in i + 1..Layers
    BY <1>1, MigrateAssumption
  <2> QED BY <1>1, <2>1 DEF Decides
<1>2. \A i, j \in 1..Layers : Decides(i, p) /\ Decides(j, p) => i = j
  BY <1>1, MigrateAssumption
<1> QED BY <1>2, MigrateAssumption DEF Decider

LEMMA MergedIs ==
  ASSUME uppers \in [1..Layers -> Uppers]
  PROVE  /\ Merged \in Record
         /\ \A p \in Rels :
              Merged[p] = IF Decider(p) = 0 THEN None ELSE EntryOf(Decider(p), p)
<1> DEFINE empty == [p \in Rels |-> None]
           upTo[i \in 0..Layers] ==
             IF i = 0 THEN [p \in Rels |-> None] ELSE WalkUpper(upTo[i - 1], i)
           step == [i \in 1..Layers |-> [a \in Record |-> WalkUpper(a, i)]]
<1>1. Merged = upTo[Layers]
  BY DEF Merged
<1>2. \A i \in 1..Layers, a \in Record : WalkUpper(a, i) \in Record
  BY WalkIs
<1>3. step \in [1..Layers -> [Record -> Record]]
  BY <1>2
<1>4. Layers \in Nat
  BY MigrateAssumption
<1>5. empty \in Record
  BY <1>4 DEF Record, Recorded, None
<1>6. PICK g \in [0..Layers -> Record] : GoesOn(g, Layers, empty, step)
  <2> HIDE DEF step, empty
  <2> QED BY <1>3, <1>4, <1>5, Recursion
<1>7. \A i \in 1..Layers : g[i] = WalkUpper(g[i - 1], i)
  <2> SUFFICES ASSUME NEW i \in 1..Layers PROVE g[i] = WalkUpper(g[i - 1], i)
    OBVIOUS
  <2>1. g[i - 1] \in Record
    BY <1>4
  <2> QED BY <1>6, <2>1 DEF GoesOn
<1>8. g = [i \in 0..Layers |-> IF i = 0 THEN [p \in Rels |-> None] ELSE WalkUpper(g[i - 1], i)]
  BY <1>4, <1>6, <1>7 DEF GoesOn
<1>9. upTo = [i \in 0..Layers |->
                IF i = 0 THEN [p \in Rels |-> None] ELSE WalkUpper(upTo[i - 1], i)]
  BY <1>8
<1> HIDE DEF upTo, step
<1> DEFINE S == {n \in 0..Layers : /\ upTo[n] \in Record
                                   /\ \A p \in Rels : AfterLayers(upTo[n], n, p)}
<1>10. 0 \in S
  <2>1. upTo[0] = empty /\ 0 \in 0..Layers
    BY <1>4, <1>9
  <2> QED BY <1>5, <2>1 DEF AfterLayers
<1>11. ASSUME NEW n \in 0..Layers, n # Layers, n \in S PROVE n + 1 \in S
  <2>1. n + 1 \in 0..Layers /\ n + 1 \in 1..Layers /\ n + 1 # 0 /\ (n + 1) - 1 = n
    BY <1>4, <1>11
  <2>2. upTo[n + 1] = WalkUpper(upTo[n], n + 1)
    BY <1>9, <2>1
  <2>3. upTo[n + 1] \in Record
    BY <1>2, <1>11, <2>1, <2>2
  <2>4. \A p \in Rels : AfterLayers(upTo[n + 1], n + 1, p)
    BY <1>11, <2>2, LayerStep
  <2> QED BY <2>1, <2>3, <2>4
<1>12. Layers \in S
  <2> HIDE DEF S
  <2>1. \A n \in 0..Layers : n \in S
    BY <1>4, <1>10, <1>11, UpTo
  <2> QED BY <1>4, <2>1
<1>13. ASSUME NEW p \in Rels
       PROVE  Merged[p] = IF Decider(p) = 0 THEN None ELSE EntryOf(Decider(p), p)
  <2>1. \A i \in 1..Layers : Latest(Layers, p, i) <=> Decides(i, p)
    BY DEF Latest, Decides, MaskedIn
  <2>2. AfterLayers(Merged, Layers, p)
    BY <1>1, <1>12
  <2>3. CASE Decider(p) = 0
    <3>1. \A i \in 1..Layers : ~Decides(i, p)
      BY <2>3, DeciderIs
    <3> QED BY <2>1, <2>2, <2>3, <3>1 DEF AfterLayers
  <2>4. CASE Decider(p) # 0
    <3>1. Decider(p) \in 1..Layers /\ Decides(Decider(p), p)
      BY <1>4, <2>4, DeciderIs
    <3> QED BY <2>1, <2>2, <2>4, <3>1 DEF AfterLayers
  <2> QED BY <2>3, <2>4
<1> QED BY <1>1, <1>12, <1>13

-----------------------------------------------------------------------------
(* What the uppers have decided of a path *)

Kind(p) == IF Decider(p) = 0 THEN "none" ELSE uppers[Decider(p)][p]
Decided(p) == Kind(p) \in {"dir", "opaque", "file", "whiteout"}
Replaces(p) == Kind(p) \in {"file", "whiteout"}
OpKind(p) == IF Kind(p) = "whiteout" THEN "delete"
             ELSE IF Kind(p) = "file" THEN "file" ELSE "dir"

LEMMA KindIs ==
  ASSUME uppers \in [1..Layers -> Uppers], NEW p \in Rels
  PROVE  /\ Kind(p) \in UpperKinds
         /\ Kind(p) # "none" => Decider(p) \in 1..Layers /\ Kind(p) = uppers[Decider(p)][p]
<1>1. Decider(p) \in 0..Layers /\ (Decider(p) # 0 => Decider(p) \in 1..Layers)
  BY DeciderIs, MigrateAssumption
<1>2. Decider(p) # 0 => uppers[Decider(p)][p] \in UpperKinds
  BY <1>1, UpperIs
<1> QED BY <1>1, <1>2 DEF Kind, UpperKinds

\* Above a path that is decided there are directories: the upper that decides it has
\* them, and no later one has replaced them.
LEMMA DirectoriesAbove ==
  ASSUME uppers \in [1..Layers -> Uppers], NEW p \in Rels, Kind(p) # "none", NEW q \in Above(p)
  PROVE  q \in Rels /\ Kind(q) \in {"dir", "opaque"}
<1> DEFINE i == Decider(p)
           T == {j \in i..Layers : uppers[j][q] # "none"}
<1>0. Layers \in Nat
  BY MigrateAssumption
<1>1. i \in 1..Layers /\ Decides(i, p) /\ uppers[i][p] # "none"
  BY KindIs, DeciderIs DEF Kind, Decides
<1>2. q \in Rels /\ Above(q) \subseteq Above(p)
  BY AboveOrder
<1>3. uppers[i][q] \in {"dir", "opaque"}
  BY <1>1, UpperIs
<1>4. \A j \in i + 1..Layers : \A r \in Above(p) : ~Masks(uppers[j][r])
  BY <1>1 DEF Decides
<1> HIDE DEF i
<1>5. PICK j \in T : \A l \in T : l <= j
  <2>1. T \in SUBSET (0..Layers)
    BY <1>0, <1>1
  <2>2. i \in T
    BY <1>0, <1>1, <1>3
  <2> HIDE DEF T
  <2> QED BY <1>0, <2>1, <2>2, Greatest
<1>6. j \in 1..Layers /\ uppers[j][q] # "none"
  BY <1>0, <1>1, <1>5
<1>7. Decides(j, q)
  <2> SUFFICES ASSUME NEW l \in j + 1..Layers
               PROVE  uppers[l][q] = "none" /\ \A r \in Above(q) : ~Masks(uppers[l][r])
    BY <1>6 DEF Decides
  <2>1. l \in i..Layers /\ l \in i + 1..Layers /\ ~(l <= j)
    BY <1>0, <1>1, <1>5
  <2> QED BY <1>2, <1>4, <1>5, <2>1
<1>8. Decider(q) = j
  BY <1>6, <1>7, DeciderIs
<1>9. uppers[j][q] \in {"dir", "opaque"}
  <2>1. CASE j = i
    BY <1>3, <2>1
  <2>2. CASE j # i
    <3>1. j \in i + 1..Layers
      BY <1>0, <1>1, <1>5, <2>2
    <3>2. ~Masks(uppers[j][q])
      BY <1>4, <3>1
    <3>3. uppers[j][q] \in UpperKinds
      BY <1>2, <1>6, UpperIs
    <3> QED BY <1>6, <3>2, <3>3 DEF Masks, UpperKinds
  <2> QED BY <2>1, <2>2
<1>10. j # 0
  BY <1>0, <1>6
<1> QED BY <1>2, <1>8, <1>9, <1>10 DEF Kind

LEMMA PromotedIs ==
  ASSUME uppers \in [1..Layers -> Uppers], NEW p \in Rels
  PROVE  /\ Kind(p) \in {"dir", "opaque"} => Promoted(p) = Dir
         /\ Kind(p) = "file" => Promoted(p) = [k |-> "file", from |-> Decider(p)]
         /\ Kind(p) = "whiteout" => Promoted(p) = None
         /\ ~Decided(p) => Promoted(p) = IF \E q \in Above(p) : Replaces(q)
                                         THEN None ELSE before[p]
<1> DEFINE replaced == \E q \in Above(p) :
             Decider(q) # 0 /\ uppers[Decider(q)][q] \in {"file", "whiteout"}
<1>1. replaced <=> \E q \in Above(p) : Replaces(q)
  BY DEF Replaces, Kind
<1>0. Kind(p) # "none" => ~replaced
  <2>1. \A q \in Above(p) : Kind(p) # "none" => ~Replaces(q)
    BY DirectoriesAbove DEF Replaces
  <2> QED BY <1>1, <2>1
<1>2. Promoted(p) = CASE Kind(p) \in {"dir", "opaque"} -> Dir
                      [] Kind(p) = "file" -> [k |-> "file", from |-> Decider(p)]
                      [] Kind(p) = "whiteout" \/ replaced -> None
                      [] OTHER -> before[p]
  BY DEF Promoted, Kind
<1> HIDE DEF replaced
<1>3. CASE Kind(p) \in {"dir", "opaque"}
  <2>1. Kind(p) # "file" /\ Kind(p) # "whiteout" /\ Decided(p)
    BY <1>3 DEF Decided
  <2>2. Promoted(p) = Dir
    BY <1>0, <1>2, <1>3
  <2> QED BY <1>3, <2>1, <2>2
<1>4. CASE Kind(p) = "file"
  <2>1. Kind(p) \notin {"dir", "opaque"} /\ Kind(p) # "whiteout" /\ Decided(p)
    BY <1>4 DEF Decided
  <2>2. Promoted(p) = [k |-> "file", from |-> Decider(p)]
    BY <1>0, <1>2, <1>4
  <2> QED BY <1>4, <2>1, <2>2
<1>5. CASE Kind(p) = "whiteout"
  BY <1>2, <1>5 DEF Decided
<1>6. CASE ~Decided(p)
  BY <1>1, <1>2, <1>6 DEF Decided
<1> QED BY <1>3, <1>4, <1>5, <1>6 DEF Decided

\* What lies beneath something that replaces it is gone.
LEMMA PromotedBelow ==
  ASSUME uppers \in [1..Layers -> Uppers], NEW p \in Rels, NEW q \in Above(p), Replaces(q)
  PROVE  Kind(p) = "none" /\ Promoted(p) = None
<1>1. Kind(p) = "none"
  BY DirectoriesAbove DEF Replaces
<1> QED BY <1>1, PromotedIs DEF Decided

-----------------------------------------------------------------------------
(* The plan *)

\* An operation of a plan is the one for its path; a path has one at most, and no
\* operation follows one for a path beneath its own.
Says(o) == Decided(o.rel) /\ o.from = Decider(o.rel) /\ o.k = OpKind(o.rel)
SaysAll(pl) == \A j \in DOMAIN pl : Says(pl[j])
InOrder(pl) == \A i, j \in DOMAIN pl :
                 i < j => pl[j].rel \notin Above(pl[i].rel) \cup {pl[i].rel}
Has(pl, p) == \E j \in DOMAIN pl : pl[j].rel = p

\* A plan needs an operation for this path.
Needed(p) == Decided(p) /\ ~(Kind(p) = "whiteout" /\ host[p].k = "none")
\* What the plan has after n steps of its walk.
PlannedSoFar(pl, n) ==
  /\ SaysAll(pl)
  /\ InOrder(pl)
  /\ \A j \in DOMAIN pl : pl[j].rel \in Walked(n)
  /\ \A p \in Walked(n) : Needed(p) => Has(pl, p)

OpFor(p) == [rel |-> p, k |-> OpKind(p), from |-> Decider(p)]

LEMMA PlannedIs ==
  ASSUME uppers \in [1..Layers -> Uppers], NEW p \in Rels
  PROVE  /\ Planned(Merged, p) = IF Needed(p) THEN <<OpFor(p)>> ELSE <<>>
         /\ Needed(p) => OpFor(p) \in Ops /\ Says(OpFor(p))
<1>1. Merged[p] = IF Decider(p) = 0 THEN None ELSE EntryOf(Decider(p), p)
  BY MergedIs
<1>2. /\ Kind(p) \in UpperKinds
      /\ Kind(p) # "none" => Decider(p) \in 1..Layers /\ Kind(p) = uppers[Decider(p)][p]
      /\ Decider(p) = 0 => Kind(p) = "none"
  BY KindIs DEF Kind
<1>3. Decider(p) # 0 => Kind(p) = uppers[Decider(p)][p]
  BY DEF Kind
<1>4. CASE Kind(p) \in {"dir", "opaque"}
  <2>1. Merged[p] = [k |-> "dir", from |-> Decider(p)]
    BY <1>1, <1>2, <1>4, MigrateAssumption DEF EntryOf
  <2>2. Needed(p) /\ OpKind(p) = "dir"
    BY <1>4 DEF Needed, Decided, OpKind
  <2>3. Planned(Merged, p) = <<OpFor(p)>>
    BY <2>1, <2>2 DEF Planned, OpFor
  <2> QED BY <1>2, <1>4, <2>2, <2>3 DEF Ops, OpFor, Says, Decided
<1>5. CASE Kind(p) = "file"
  <2>1. Merged[p] = [k |-> "file", from |-> Decider(p)]
    BY <1>1, <1>2, <1>5, MigrateAssumption DEF EntryOf
  <2>2. Needed(p) /\ OpKind(p) = "file"
    BY <1>5 DEF Needed, Decided, OpKind
  <2>3. Planned(Merged, p) = <<OpFor(p)>>
    BY <2>1, <2>2 DEF Planned, OpFor
  <2> QED BY <1>2, <1>5, <2>2, <2>3 DEF Ops, OpFor, Says, Decided
<1>6. CASE Kind(p) = "whiteout"
  <2>1. Merged[p] = [k |-> "whiteout", from |-> Decider(p)]
    BY <1>1, <1>2, <1>6, MigrateAssumption DEF EntryOf
  <2>2. (Needed(p) <=> host[p].k # "none") /\ OpKind(p) = "delete" /\ Decided(p)
    BY <1>6 DEF Needed, Decided, OpKind
  <2>3. Planned(Merged, p) = IF Needed(p) THEN <<OpFor(p)>> ELSE <<>>
    BY <2>1, <2>2 DEF Planned, OpFor
  <2> QED BY <1>2, <1>6, <2>2, <2>3 DEF Ops, OpFor, Says
<1>7. CASE Kind(p) \in {"none", "special"}
  <2>1. Merged[p] = None
    <3>1. Decider(p) # 0 => uppers[Decider(p)][p] # "none"
      BY DeciderIs DEF Decides
    <3> QED BY <1>1, <1>3, <1>7, <3>1 DEF EntryOf
  <2>2. ~Needed(p)
    BY <1>7 DEF Needed, Decided
  <2>3. Planned(Merged, p) = <<>>
    BY <2>1 DEF Planned, None
  <2> QED BY <2>2, <2>3
<1> QED BY <1>2, <1>4, <1>5, <1>6, <1>7 DEF UpperKinds

LEMMA PlanStep ==
  ASSUME uppers \in [1..Layers -> Uppers], NEW n \in 0..Steps, n # Steps,
         NEW pl \in Seq(Ops), PlannedSoFar(pl, n)
  PROVE  /\ pl \o Planned(Merged, WalkOrder[n + 1]) \in Seq(Ops)
         /\ PlannedSoFar(pl \o Planned(Merged, WalkOrder[n + 1]), n + 1)
<1> DEFINE w == WalkOrder[n + 1]
           new == pl \o Planned(Merged, w)
<1>1. n + 1 \in 1..Steps /\ (n + 1) - 1 = n /\ w \in Rels
  BY WalkFacts
<1>2. Walked(n + 1) = Walked(n) \cup {w} /\ w \notin Walked(n)
  BY <1>1, WalkFacts
<1> HIDE DEF w
<1>3. CASE ~Needed(w)
  <2>1. new = pl
    BY <1>1, <1>3, PlannedIs
  <2> HIDE DEF new
  <2>2. PlannedSoFar(new, n + 1)
    BY <1>2, <1>3, <2>1 DEF PlannedSoFar
  <2> QED BY <2>1, <2>2 DEF new, w
<1>4. CASE Needed(w)
  <2> DEFINE l == Len(pl)
  <2>1. new = Append(pl, OpFor(w)) /\ OpFor(w) \in Ops /\ Says(OpFor(w)) /\ OpFor(w).rel = w
    <3>1. new = pl \o <<OpFor(w)>>
      BY <1>1, <1>4, PlannedIs
    <3>2. OpFor(w) \in Ops /\ Says(OpFor(w)) /\ OpFor(w).rel = w
      BY <1>1, <1>4, PlannedIs DEF OpFor
    <3> HIDE DEF new
    <3> QED BY <3>1, <3>2
  <2> HIDE DEF new
  <2>2. /\ new \in Seq(Ops) /\ l \in Nat /\ DOMAIN pl = 1..l
        /\ DOMAIN new = 1..(l + 1) /\ new[l + 1] = OpFor(w)
        /\ \A j \in 1..l : new[j] = pl[j]
    BY <2>1
  <2>3. \A j \in DOMAIN new : j \in 1..l \/ j = l + 1
    BY <2>2
  <2>4. SaysAll(new)
    BY <2>1, <2>2, <2>3 DEF PlannedSoFar, SaysAll
  <2>5. \A j \in DOMAIN new : new[j].rel \in Walked(n + 1)
    BY <1>2, <2>1, <2>2, <2>3 DEF PlannedSoFar
  <2>6. ASSUME NEW i \in DOMAIN new, NEW j \in DOMAIN new, i < j
        PROVE  new[j].rel \notin Above(new[i].rel) \cup {new[i].rel}
    <3>1. i \in 1..l
      BY <2>2, <2>6
    <3>2. pl[i].rel \in Walked(n) /\ new[i] = pl[i]
      BY <2>2, <3>1 DEF PlannedSoFar
    <3>3. CASE j = l + 1
      BY <1>2, <2>1, <2>2, <3>2, <3>3, WalkedClosed
    <3>4. CASE j \in 1..l
      BY <2>2, <2>6, <3>1, <3>4 DEF PlannedSoFar, InOrder
    <3> QED BY <2>3, <3>3, <3>4
  <2>7. ASSUME NEW p \in Walked(n + 1), Needed(p) PROVE Has(new, p)
    <3>1. CASE p = w
      <4>1. l + 1 \in DOMAIN new
        BY <2>2
      <4> QED BY <2>1, <2>2, <3>1, <4>1 DEF Has
    <3>2. CASE p \in Walked(n)
      <4>1. PICK j \in 1..l : pl[j].rel = p
        BY <2>2, <2>7, <3>2 DEF PlannedSoFar, Has
      <4> QED BY <2>2, <4>1 DEF Has
    <3> QED BY <1>2, <3>1, <3>2
  <2>8. PlannedSoFar(new, n + 1)
    BY <2>4, <2>5, <2>6, <2>7 DEF PlannedSoFar, InOrder
  <2> QED BY <2>2, <2>8 DEF new, w
<1> QED BY <1>3, <1>4

LEMMA PlanIs ==
  ASSUME uppers \in [1..Layers -> Uppers]
  PROVE  /\ BuildPlan \in Seq(Ops) /\ SaysAll(BuildPlan) /\ InOrder(BuildPlan)
         /\ \A p \in Rels : Needed(p) => Has(BuildPlan, p)
<1> DEFINE step == [n \in 1..Steps |-> [a \in Seq(Ops) |-> a \o Planned(Merged, WalkOrder[n])]]
<1>2. \A n \in 1..Steps, a \in Seq(Ops) : a \o Planned(Merged, WalkOrder[n]) \in Seq(Ops)
  <2> SUFFICES ASSUME NEW n \in 1..Steps, NEW a \in Seq(Ops)
               PROVE  a \o Planned(Merged, WalkOrder[n]) \in Seq(Ops)
    OBVIOUS
  <2> DEFINE added == Planned(Merged, WalkOrder[n])
  <2>1. WalkOrder[n] \in Rels
    BY WalkFacts
  <2>2. (added = <<OpFor(WalkOrder[n])>> /\ OpFor(WalkOrder[n]) \in Ops) \/ added = <<>>
    BY <2>1, PlannedIs
  <2> HIDE DEF added
  <2>3. added \in Seq(Ops)
    <3>1. CASE added = <<OpFor(WalkOrder[n])>> /\ OpFor(WalkOrder[n]) \in Ops
      BY <3>1
    <3>2. CASE added = <<>>
      BY <3>2
    <3> QED BY <2>2, <3>1, <3>2
  <2>4. a \o added \in Seq(Ops)
    BY <2>3
  <2> QED BY <2>4 DEF added
<1>3. step \in [1..Steps -> [Seq(Ops) -> Seq(Ops)]]
  BY <1>2
<1>4. Steps \in Nat /\ <<>> \in Seq(Ops)
  BY WalkFacts
<1>5. PICK g \in [0..Steps -> Seq(Ops)] : GoesOn(g, Steps, <<>>, step)
  <2> HIDE DEF step
  <2> QED BY <1>3, <1>4, Recursion
<1>6. \A n \in 1..Steps : g[n] = g[n - 1] \o Planned(Merged, WalkOrder[n])
  <2> SUFFICES ASSUME NEW n \in 1..Steps
               PROVE  g[n] = g[n - 1] \o Planned(Merged, WalkOrder[n])
    OBVIOUS
  <2>1. g[n - 1] \in Seq(Ops)
    BY <1>4
  <2> QED BY <1>5, <2>1 DEF GoesOn
<1>7. g = [n \in 0..Steps |->
             IF n = 0 THEN <<>> ELSE g[n - 1] \o Planned(Merged, WalkOrder[n])]
  <2>1. g[0] = <<>> /\ DOMAIN g = 0..Steps
    BY <1>5 DEF GoesOn
  <2> DEFINE f == [n \in 0..Steps |->
                     IF n = 0 THEN <<>> ELSE g[n - 1] \o Planned(Merged, WalkOrder[n])]
  <2>2. \A n \in 0..Steps : g[n] = f[n]
    <3> SUFFICES ASSUME NEW n \in 0..Steps PROVE g[n] = f[n]
      OBVIOUS
    <3>1. CASE n = 0
      BY <2>1, <3>1
    <3>2. CASE n # 0
      <4>1. n \in 1..Steps
        BY <1>4, <3>2
      <4> QED BY <1>6, <3>2, <4>1
    <3> QED BY <3>1, <3>2
  <2>3. DOMAIN f = 0..Steps /\ f = [n \in 0..Steps |-> f[n]] /\ g = [n \in 0..Steps |-> g[n]]
    OBVIOUS
  <2> HIDE DEF f
  <2>4. g = f
    BY <2>1, <2>2, <2>3
  <2> QED BY <2>4 DEF f
<1> DEFINE upTo[n \in 0..Len(WalkOrder)] ==
             IF n = 0 THEN <<>> ELSE upTo[n - 1] \o Planned(Merged, WalkOrder[n])
<1>1. BuildPlan = upTo[Steps]
  BY DEF BuildPlan, Steps
<1>8. upTo = [n \in 0..Steps |->
                IF n = 0 THEN <<>> ELSE upTo[n - 1] \o Planned(Merged, WalkOrder[n])]
  BY <1>7 DEF Steps
<1> HIDE DEF upTo, step
<1> DEFINE S == {n \in 0..Steps : upTo[n] \in Seq(Ops) /\ PlannedSoFar(upTo[n], n)}
<1>9. 0 \in S
  <2>1. upTo[0] = <<>> /\ 0 \in 0..Steps
    BY <1>4, <1>8
  <2>2. Walked(0) = {}
    BY DEF Walked
  <2>3. DOMAIN <<>> = {}
    OBVIOUS
  <2> QED BY <1>4, <2>1, <2>2, <2>3 DEF PlannedSoFar, SaysAll, InOrder
<1>10. ASSUME NEW n \in 0..Steps, n # Steps, n \in S PROVE n + 1 \in S
  <2>1. n + 1 \in 0..Steps /\ n + 1 # 0 /\ (n + 1) - 1 = n
    BY <1>4, <1>10
  <2>2. upTo[n + 1] = upTo[n] \o Planned(Merged, WalkOrder[n + 1])
    BY <1>8, <2>1
  <2>3. upTo[n + 1] \in Seq(Ops) /\ PlannedSoFar(upTo[n + 1], n + 1)
    BY <1>10, <2>2, PlanStep
  <2> QED BY <2>1, <2>3
<1>11. Steps \in S
  <2> HIDE DEF S
  <2>1. \A n \in 0..Steps : n \in S
    BY <1>4, <1>9, <1>10, UpTo
  <2> QED BY <1>4, <2>1
<1>12. Walked(Steps) = Rels
  BY WalkFacts
<1> QED BY <1>1, <1>11, <1>12 DEF PlannedSoFar

-----------------------------------------------------------------------------
(* The inductive invariant of a migration *)

Uppered == uppers \in [1..Layers -> Uppers]

\* Only a directory of the host has anything beneath it.
HostTree == \A p \in Rels : host[p].k # "none" => \A q \in Above(p) : host[q].k = "dir"

\* OldOrNew, with the one path a file in hand may have left empty.
Kept ==
  \A p \in Rels :
    \/ host[p] = before[p]
    \/ host[p] = Promoted(p)
    \/ /\ host[p] = None
       /\ before[p].k # Promoted(p).k
       /\ wasKilled \/ (phase = "cleared" /\ Op.rel = p)

\* The file being put in place is the one at the head of the plan, and once the
\* destination is cleared no directory is there.
InHand ==
  /\ phase \in {"staged", "cleared"} => HasOp /\ Op.k = "file"
  /\ phase = "cleared" => host[Op.rel].k # "dir"

\* A path has its promoted entry, or will have it by an operation for itself or for
\* something above that replaces it.
PathSettled(p) ==
  \/ Has(plan, p) /\ Decided(p)
  \/ host[p] = Promoted(p)
  \/ \E q \in Above(p) : Has(plan, q) /\ Replaces(q)
Doing == phase \in {"apply", "staged", "cleared"} => \A p \in Rels : PathSettled(p)

MigrateIndInv ==
  /\ MigrateTypeOK /\ Uppered /\ HostTree /\ Kept /\ SaysAll(plan) /\ InOrder(plan)
  /\ InHand /\ Doing /\ phase # "refused" /\ AppliedIsView

\* Nothing is at a path in one way only.
LEMMA NothingIsNone ==
  ASSUME MigrateTypeOK, Uppered, Kept, NEW p \in Rels, host[p].k = "none"
  PROVE  host[p] = None
<1>1. before[p] \in [k : HostKinds, from : {0}]
  BY DEF MigrateTypeOK, HostDirs
<1>2. before[p].k = "none" => before[p] = None
  BY <1>1 DEF None
<1>3. host[p] = Promoted(p) => host[p] \in {None, before[p]}
  <2>1. Kind(p) \in UpperKinds
    BY KindIs DEF Uppered
  <2> QED BY <2>1, PromotedIs DEF Uppered, UpperKinds, Decided, Dir
<1> QED BY <1>2, <1>3 DEF Kept

\* The operation at the head of the plan.
LEMMA HeadIs ==
  ASSUME plan \in Seq(Ops), SaysAll(plan), InOrder(plan), HasOp
  PROVE  /\ Op \in Ops /\ Op.rel \in Rels /\ Says(Op) /\ Has(plan, Op.rel)
         /\ Tail(plan) \in Seq(Ops) /\ SaysAll(Tail(plan)) /\ InOrder(Tail(plan))
         /\ \A p : Has(plan, p) /\ p # Op.rel => Has(Tail(plan), p)
         /\ \A p : Has(plan, p) => p \notin Above(Op.rel)
<1> DEFINE l == Len(plan)
<1>1. l \in Nat /\ l # 0 /\ DOMAIN plan = 1..l /\ Op = plan[1] /\ 1 \in DOMAIN plan
  BY DEF HasOp, Op
<1>2. Op \in Ops /\ Op.rel \in Rels
  <2>1. Op \in Ops
    BY <1>1
  <2> QED BY <2>1 DEF Ops
<1>3. /\ Tail(plan) \in Seq(Ops) /\ DOMAIN Tail(plan) = 1..(l - 1)
      /\ \A j \in 1..(l - 1) : Tail(plan)[j] = plan[j + 1] /\ j + 1 \in DOMAIN plan
  BY <1>1 DEF HasOp
<1>4. SaysAll(Tail(plan))
  BY <1>3 DEF SaysAll
<1>5. InOrder(Tail(plan))
  <2> SUFFICES ASSUME NEW i \in 1..(l - 1), NEW j \in 1..(l - 1), i < j
               PROVE  plan[j + 1].rel \notin Above(plan[i + 1].rel) \cup {plan[i + 1].rel}
    BY <1>3 DEF InOrder
  <2>1. i + 1 < j + 1
    BY <1>1
  <2> QED BY <1>3, <2>1 DEF InOrder
<1>6. ASSUME NEW p, NEW j \in DOMAIN plan, plan[j].rel = p, p # Op.rel
      PROVE  Has(Tail(plan), p) /\ p \notin Above(Op.rel)
  <2>1. j # 1 /\ j - 1 \in 1..(l - 1) /\ (j - 1) + 1 = j /\ 1 < j
    BY <1>1, <1>6
  <2>2. Has(Tail(plan), p)
    BY <1>3, <1>6, <2>1 DEF Has
  <2> QED BY <1>1, <1>6, <2>1, <2>2 DEF InOrder
<1>7. Op.rel \notin Above(Op.rel)
  BY <1>2, AboveOrder
<1> QED BY <1>1, <1>2, <1>3, <1>4, <1>5, <1>6, <1>7 DEF Has, SaysAll

\* When an operation's turn comes, the directories above it are there.
LEMMA ParentsThere ==
  ASSUME MigrateIndInv, HasOp, phase \in {"apply", "staged", "cleared"}
  PROVE  /\ \A q \in Above(Op.rel) : q \in Rels /\ host[q] = Dir
         /\ Reachable /\ WithParents(host, Op.rel) = host
<1>0. /\ Op.rel \in Rels /\ Decided(Op.rel)
      /\ \A p : Has(plan, p) => p \notin Above(Op.rel)
  BY HeadIs DEF MigrateIndInv, MigrateTypeOK, Says
<1>1. ASSUME NEW q \in Above(Op.rel) PROVE q \in Rels /\ host[q] = Dir
  <2>1. /\ q \in Rels /\ Kind(q) \in {"dir", "opaque"}
        /\ \A r \in Above(q) : r \in Above(Op.rel) /\ Kind(r) \in {"dir", "opaque"}
    BY <1>0, AboveOrder, DirectoriesAbove DEF MigrateIndInv, Uppered, Decided
  <2>2. Promoted(q) = Dir
    BY <2>1, PromotedIs DEF MigrateIndInv, Uppered
  <2>3. PathSettled(q)
    BY <2>1 DEF MigrateIndInv, Doing
  <2> QED BY <1>0, <2>1, <2>2, <2>3 DEF PathSettled, Replaces
<1>2. Reachable
  BY <1>1 DEF Reachable, Dir
<1>3. host = [p \in Rels |-> host[p]]
  BY DEF MigrateIndInv, MigrateTypeOK
<1>4. WithParents(host, Op.rel) = host
  BY <1>1, <1>3 DEF WithParents
<1> QED BY <1>1, <1>2, <1>4

\* What the uppers decide is the same after every step.
LEMMA DecidedStays ==
  ASSUME uppers' = uppers, before' = before, NEW p
  PROVE  /\ Decider(p)' = Decider(p) /\ Kind(p)' = Kind(p) /\ Decided(p)' = Decided(p)
         /\ Replaces(p)' = Replaces(p) /\ OpKind(p)' = OpKind(p)
         /\ Promoted(p)' = Promoted(p)
<1>1. \A q : Decider(q)' = Decider(q)
  BY DEF Decider, Decides
<1>2. \A q : Kind(q)' = Kind(q)
  BY <1>1 DEF Kind
<1>3. Promoted(p)' = Promoted(p)
  BY <1>1 DEF Promoted
<1> QED BY <1>1, <1>2, <1>3 DEF Decided, Replaces, OpKind

LEMMA Carried ==
  ASSUME MigrateIndInv, uppers' = uppers, before' = before
  PROVE  /\ Uppered'
         /\ SaysAll(plan') => SaysAll(plan)'
         /\ InOrder(plan') => InOrder(plan)'
         /\ \A p : Promoted(p)' = Promoted(p)
         /\ \A p : PathSettled(p)' <=>
                     \/ Has(plan', p) /\ Decided(p)
                     \/ host'[p] = Promoted(p)
                     \/ \E q \in Above(p) : Has(plan', q) /\ Replaces(q)
<1>1. \A p : /\ Decider(p)' = Decider(p) /\ Decided(p)' = Decided(p)
             /\ Replaces(p)' = Replaces(p) /\ OpKind(p)' = OpKind(p)
             /\ Promoted(p)' = Promoted(p)
  BY DecidedStays
<1>2. Uppered'
  BY DEF MigrateIndInv, Uppered
<1>3. SaysAll(plan') => SaysAll(plan)'
  BY <1>1 DEF SaysAll, Says
<1>4. InOrder(plan') => InOrder(plan)'
  BY DEF InOrder
<1>5. ASSUME NEW p
      PROVE  PathSettled(p)' <=> \/ Has(plan', p) /\ Decided(p)
                             \/ host'[p] = Promoted(p)
                             \/ \E q \in Above(p) : Has(plan', q) /\ Replaces(q)
  BY <1>1 DEF PathSettled, Has
<1> QED BY <1>1, <1>2, <1>3, <1>4, <1>5

LEMMA EntriesTyped ==
  /\ None \in HostEntries /\ Dir \in HostEntries
  /\ \A i \in 1..Layers : [k |-> "file", from |-> i] \in HostEntries
BY MigrateAssumption DEF HostEntries, HostKinds, None, Dir

\* A host directory from which a path has been removed, with what is beneath it.
LEMMA WithoutIs ==
  ASSUME host \in [Rels -> HostEntries], HostTree, NEW r \in Rels,
         host' = Without(host, r)
  PROVE  /\ host' \in [Rels -> HostEntries] /\ HostTree'
         /\ \A p \in Rels : host'[p] = IF p = r \/ r \in Above(p) THEN None ELSE host[p]
<1>1. \A p \in Rels : host'[p] = IF p = r \/ r \in Above(p) THEN None ELSE host[p]
  BY BelowIs DEF Without
<1>2. host' \in [Rels -> HostEntries]
  BY EntriesTyped DEF Without
<1>3. ASSUME NEW p \in Rels, host'[p].k # "none", NEW q \in Above(p)
      PROVE  host'[q].k = "dir"
  <2>1. p # r /\ r \notin Above(p) /\ host[p].k # "none"
    BY <1>1, <1>3 DEF None
  <2>2. q \in Rels /\ q # r /\ r \notin Above(q)
    BY <2>1, AboveOrder
  <2> QED BY <1>1, <2>1, <2>2 DEF HostTree
<1> QED BY <1>1, <1>2, <1>3 DEF HostTree

LEMMA InitInv == MigrateInit => MigrateIndInv
<1> SUFFICES ASSUME MigrateInit PROVE MigrateIndInv
  OBVIOUS
<1>1. host \in [Rels -> HostEntries]
  BY MigrateAssumption DEF MigrateInit, HostDirs, HostEntries
<1>2. MigrateTypeOK
  <2>1. runs \in 0..MaxRuns /\ before \in HostDirs /\ plan \in Seq(Ops)
    BY MigrateAssumption DEF MigrateInit
  <2> QED BY <1>1, <2>1 DEF MigrateInit, MigrateTypeOK
<1>3. HostTree /\ Kept
  BY DEF MigrateInit, HostTree, Kept, HostDirs
<1>4. DOMAIN plan = {}
  BY DEF MigrateInit
<1> QED BY <1>2, <1>3, <1>4 DEF MigrateInit, MigrateIndInv, Uppered, SaysAll, InOrder,
           InHand, Doing, AppliedIsView

LEMMA StartKeeps == MigrateIndInv /\ StartRun => MigrateIndInv'
<1> SUFFICES ASSUME MigrateIndInv, StartRun PROVE MigrateIndInv'
  OBVIOUS
<1>0. /\ Uppered /\ uppers' = uppers /\ before' = before /\ host' = host /\ phase = "start"
      /\ plan' = BuildPlan /\ phase' = "apply" /\ wasKilled' = wasKilled
  BY DEF MigrateIndInv, StartRun
<1>1. /\ plan' \in Seq(Ops) /\ SaysAll(plan') /\ InOrder(plan')
      /\ \A p \in Rels : Needed(p) => Has(plan', p)
  BY <1>0, PlanIs DEF Uppered
<1>2. MigrateTypeOK'
  BY <1>0, <1>1, MigrateAssumption DEF StartRun, MigrateTypeOK, MigrateIndInv
<1>3. HostTree' /\ Kept'
  BY <1>0, Carried DEF MigrateIndInv, HostTree, Kept
<1>4. ASSUME NEW p \in Rels PROVE PathSettled(p)'
  <2>1. CASE Decided(p)
    <3>1. CASE Needed(p)
      BY <1>0, <1>1, <2>1, <3>1, Carried
    <3>2. CASE ~Needed(p)
      <4>1. Kind(p) = "whiteout" /\ host[p].k = "none"
        BY <2>1, <3>2 DEF Needed
      <4>2. host[p] = None /\ Promoted(p) = None
        BY <4>1, NothingIsNone, PromotedIs DEF MigrateIndInv, Uppered
      <4> QED BY <1>0, <4>2, Carried
    <3> QED BY <3>1, <3>2
  <2>2. CASE ~Decided(p) /\ \E q \in Above(p) : Replaces(q)
    <3>1. PICK q \in Above(p) : Replaces(q)
      BY <2>2
    <3>2. q \in Rels /\ Decided(q)
      BY <3>1, AboveOrder DEF Replaces, Decided
    <3>3. CASE Needed(q)
      BY <1>0, <1>1, <3>1, <3>2, <3>3, Carried
    <3>4. CASE ~Needed(q)
      <4>1. host[q].k = "none"
        BY <3>2, <3>4 DEF Needed
      <4>2. host[p].k = "none"
        BY <4>1 DEF MigrateIndInv, HostTree
      <4>3. host[p] = None /\ Promoted(p) = None
        BY <3>1, <4>2, NothingIsNone, PromotedBelow DEF MigrateIndInv, Uppered
      <4> QED BY <1>0, <4>3, Carried
    <3> QED BY <3>3, <3>4
  <2>3. CASE ~Decided(p) /\ ~\E q \in Above(p) : Replaces(q)
    <3>1. Promoted(p) = before[p]
      BY <1>0, <2>3, PromotedIs DEF Uppered
    <3>2. host[p] = Promoted(p)
      BY <3>1 DEF MigrateIndInv, Kept
    <3> QED BY <1>0, <3>2, Carried
  <2> QED BY <2>1, <2>2, <2>3
<1> QED BY <1>0, <1>1, <1>2, <1>3, <1>4, Carried DEF MigrateIndInv, InHand, Doing, AppliedIsView

LEMMA DeleteKeeps == MigrateIndInv /\ ApplyDelete => MigrateIndInv'
<1> SUFFICES ASSUME MigrateIndInv, ApplyDelete PROVE MigrateIndInv'
  OBVIOUS
<1> DEFINE r == Op.rel
<1>0. /\ uppers' = uppers /\ before' = before /\ phase = "apply" /\ phase' = "apply"
      /\ HasOp /\ host' = Without(host, r) /\ plan' = Tail(plan) /\ wasKilled' = wasKilled
      /\ runs' = runs /\ Op.k = "delete"
  BY DEF ApplyDelete
<1>1. /\ r \in Rels /\ Says(Op)
      /\ plan' \in Seq(Ops) /\ SaysAll(plan') /\ InOrder(plan')
      /\ \A p : Has(plan, p) /\ p # r => Has(plan', p)
  BY <1>0, HeadIs DEF MigrateIndInv, MigrateTypeOK
<1>2. Kind(r) = "whiteout" /\ Replaces(r)
  BY <1>0, <1>1 DEF Says, OpKind, Decided, Replaces
<1>3. /\ host' \in [Rels -> HostEntries] /\ HostTree'
      /\ \A p \in Rels : host'[p] = IF p = r \/ r \in Above(p) THEN None ELSE host[p]
  BY <1>0, <1>1, WithoutIs DEF MigrateIndInv, MigrateTypeOK
<1>4. \A p \in Rels : p = r \/ r \in Above(p) => Promoted(p) = None
  BY <1>2, PromotedIs, PromotedBelow DEF MigrateIndInv, Uppered
<1> HIDE DEF r
<1>5. MigrateTypeOK'
  BY <1>0, <1>1, <1>3 DEF MigrateTypeOK, MigrateIndInv
<1>6. Kept'
  BY <1>0, <1>3, <1>4, Carried DEF MigrateIndInv, Kept
<1>7. ASSUME NEW p \in Rels PROVE PathSettled(p)'
  <2>1. CASE p = r \/ r \in Above(p)
    BY <1>0, <1>3, <1>4, <2>1, Carried
  <2>2. CASE ~(p = r \/ r \in Above(p))
    <3>1. PathSettled(p) /\ host'[p] = host[p]
      BY <1>0, <1>3, <2>2 DEF MigrateIndInv, Doing
    <3> QED BY <1>0, <1>1, <2>2, <3>1, Carried DEF PathSettled
  <2> QED BY <2>1, <2>2
<1> QED BY <1>0, <1>1, <1>3, <1>5, <1>6, <1>7, Carried
        DEF MigrateIndInv, InHand, Doing, AppliedIsView

LEMMA DirKeeps == MigrateIndInv /\ ApplyDir => MigrateIndInv'
<1> SUFFICES ASSUME MigrateIndInv, ApplyDir PROVE MigrateIndInv'
  OBVIOUS
<1> DEFINE r == Op.rel
<1>0. /\ uppers' = uppers /\ before' = before /\ phase = "apply" /\ phase' = "apply"
      /\ HasOp /\ plan' = Tail(plan) /\ wasKilled' = wasKilled /\ runs' = runs /\ Op.k = "dir"
  BY DEF ApplyDir
<1>1. /\ r \in Rels /\ Says(Op)
      /\ plan' \in Seq(Ops) /\ SaysAll(plan') /\ InOrder(plan')
      /\ \A p : Has(plan, p) /\ p # r => Has(plan', p)
  BY <1>0, HeadIs DEF MigrateIndInv, MigrateTypeOK
<1>2. Kind(r) \in {"dir", "opaque"} /\ ~Replaces(r)
  BY <1>0, <1>1 DEF Says, OpKind, Decided, Replaces
<1>3. host' = [host EXCEPT ![r] = Dir]
  BY <1>0, ParentsThere DEF ApplyDir
<1>4. \A q \in Above(r) : host[q] = Dir
  BY <1>0, ParentsThere
<1>5. host \in [Rels -> HostEntries]
  BY DEF MigrateIndInv, MigrateTypeOK
<1> HIDE DEF r
<1>6. \A p \in Rels : host'[p] = IF p = r THEN Dir ELSE host[p]
  BY <1>3, <1>5
<1>7. host' \in [Rels -> HostEntries]
  BY <1>3, <1>5, EntriesTyped
<1>8. HostTree'
  <2> SUFFICES ASSUME NEW p \in Rels, host'[p].k # "none", NEW q \in Above(p)
               PROVE  host'[q].k = "dir"
    BY DEF HostTree
  <2>1. q \in Rels
    BY AboveOrder
  <2>2. CASE p = r
    BY <1>4, <1>6, <2>1, <2>2 DEF Dir
  <2>3. CASE p # r
    BY <1>6, <2>1, <2>3 DEF MigrateIndInv, HostTree, Dir
  <2> QED BY <2>2, <2>3
<1>9. Promoted(r) = Dir
  BY <1>1, <1>2, PromotedIs DEF MigrateIndInv, Uppered
<1>10. MigrateTypeOK'
  BY <1>0, <1>1, <1>7 DEF MigrateTypeOK, MigrateIndInv
<1>11. Kept'
  BY <1>0, <1>6, <1>9, Carried DEF MigrateIndInv, Kept
<1>12. ASSUME NEW p \in Rels PROVE PathSettled(p)'
  <2>1. CASE p = r
    BY <1>0, <1>6, <1>9, <2>1, Carried
  <2>2. CASE p # r
    <3>1. PathSettled(p) /\ host'[p] = host[p]
      BY <1>0, <1>6, <2>2 DEF MigrateIndInv, Doing
    <3> QED BY <1>0, <1>1, <1>2, <2>2, <3>1, Carried DEF PathSettled
  <2> QED BY <2>1, <2>2
<1> QED BY <1>0, <1>1, <1>8, <1>10, <1>11, <1>12, Carried
        DEF MigrateIndInv, InHand, Doing, AppliedIsView

LEMMA StageKeeps == MigrateIndInv /\ Stage => MigrateIndInv'
<1> SUFFICES ASSUME MigrateIndInv, Stage PROVE MigrateIndInv'
  OBVIOUS
<1>0. /\ uppers' = uppers /\ before' = before /\ phase = "apply" /\ phase' = "staged"
      /\ HasOp /\ Op.k = "file" /\ plan' = plan /\ wasKilled' = wasKilled /\ runs' = runs
  BY DEF Stage
<1>1. host' = host
  BY <1>0, ParentsThere DEF Stage
<1>2. MigrateTypeOK' /\ HostTree' /\ Kept' /\ InHand'
  BY <1>0, <1>1, Carried
     DEF MigrateIndInv, MigrateTypeOK, HostTree, Kept, InHand, HasOp, Op
<1>3. \A p \in Rels : PathSettled(p)'
  BY <1>0, <1>1, Carried DEF MigrateIndInv, Doing, PathSettled
<1> QED BY <1>0, <1>1, <1>2, <1>3, Carried DEF MigrateIndInv, Doing, AppliedIsView

LEMMA ReconcileKeeps == MigrateIndInv /\ Reconcile => MigrateIndInv'
<1> SUFFICES ASSUME MigrateIndInv, Reconcile PROVE MigrateIndInv'
  OBVIOUS
<1> DEFINE r == Op.rel
<1>0. /\ uppers' = uppers /\ before' = before /\ phase = "staged" /\ phase' = "cleared"
      /\ HasOp /\ Op.k = "file" /\ plan' = plan /\ Op' = Op /\ HasOp'
      /\ wasKilled' = wasKilled /\ runs' = runs
      /\ host' = IF host[r].k = "dir" THEN Without(host, r) ELSE host
  BY DEF Reconcile, MigrateIndInv, InHand, HasOp, Op
<1>1. r \in Rels /\ Says(Op) /\ Has(plan, r)
  BY <1>0, HeadIs DEF MigrateIndInv, MigrateTypeOK
<1>2. Kind(r) = "file" /\ Replaces(r) /\ Decided(r)
  BY <1>0, <1>1 DEF Says, OpKind, Decided, Replaces
<1>3. Promoted(r).k = "file"
  BY <1>1, <1>2, PromotedIs DEF MigrateIndInv, Uppered
<1>4. \A p \in Rels : r \in Above(p) => Promoted(p) = None
  BY <1>1, <1>2, PromotedBelow DEF MigrateIndInv, Uppered
<1>5. Op'.rel = r
  BY <1>0
<1> HIDE DEF r
<1>6. CASE host[r].k = "dir"
  <2>1. /\ host' \in [Rels -> HostEntries] /\ HostTree'
        /\ \A p \in Rels : host'[p] = IF p = r \/ r \in Above(p) THEN None ELSE host[p]
    BY <1>0, <1>1, <1>6, WithoutIs DEF MigrateIndInv, MigrateTypeOK
  <2>2. MigrateTypeOK'
    BY <1>0, <2>1 DEF MigrateTypeOK, MigrateIndInv
  <2>3. host'[r] = None /\ before[r].k # Promoted(r).k
    <3>1. host[r] = before[r]
      BY <1>1, <1>3, <1>6 DEF MigrateIndInv, Kept, None
    <3> QED BY <1>1, <1>3, <1>6, <2>1, <3>1
  <2>4. ASSUME NEW p \in Rels
        PROVE  \/ host'[p] = before[p]
               \/ host'[p] = Promoted(p)
               \/ /\ host'[p] = None
                  /\ before[p].k # Promoted(p).k
                  /\ wasKilled \/ p = r
    <3>1. CASE p = r
      BY <2>3, <3>1
    <3>2. CASE p # r /\ r \in Above(p)
      BY <1>4, <2>1, <3>2
    <3>3. CASE p # r /\ r \notin Above(p)
      BY <1>0, <2>1, <3>3 DEF MigrateIndInv, Kept
    <3> QED BY <3>1, <3>2, <3>3
  <2>5. Kept'
    BY <1>0, <1>5, <2>4, Carried DEF Kept
  <2>6. InHand'
    BY <1>0, <1>5, <2>3 DEF InHand, None
  <2>7. ASSUME NEW p \in Rels PROVE PathSettled(p)'
    <3>1. CASE p = r
      BY <1>0, <1>1, <1>2, <3>1, Carried
    <3>2. CASE p # r /\ r \in Above(p)
      BY <1>0, <1>4, <2>1, <3>2, Carried
    <3>3. CASE p # r /\ r \notin Above(p)
      BY <1>0, <2>1, <3>3, Carried DEF MigrateIndInv, Doing, PathSettled
    <3> QED BY <3>1, <3>2, <3>3
  <2> QED BY <1>0, <2>1, <2>2, <2>5, <2>6, <2>7, Carried DEF MigrateIndInv, Doing, AppliedIsView
<1>7. CASE host[r].k # "dir"
  <2>1. host' = host
    BY <1>0, <1>7
  <2>2. MigrateTypeOK' /\ HostTree'
    BY <1>0, <2>1 DEF MigrateIndInv, MigrateTypeOK, HostTree
  <2>3. Kept'
    BY <1>0, <2>1, Carried DEF MigrateIndInv, Kept
  <2>4. InHand'
    BY <1>0, <1>5, <1>7, <2>1 DEF InHand
  <2>5. \A p \in Rels : PathSettled(p)'
    BY <1>0, <2>1, Carried DEF MigrateIndInv, Doing, PathSettled
  <2> QED BY <1>0, <2>2, <2>3, <2>4, <2>5, Carried DEF MigrateIndInv, Doing, AppliedIsView
<1> QED BY <1>6, <1>7

LEMMA RenameKeeps == MigrateIndInv /\ Rename => MigrateIndInv'
<1> SUFFICES ASSUME MigrateIndInv, Rename PROVE MigrateIndInv'
  OBVIOUS
<1> DEFINE r == Op.rel
           placed == [k |-> "file", from |-> Op.from]
<1>0. /\ uppers' = uppers /\ before' = before /\ phase = "cleared" /\ phase' = "apply"
      /\ HasOp /\ Op.k = "file" /\ plan' = Tail(plan) /\ host[r].k # "dir"
      /\ wasKilled' = wasKilled /\ runs' = runs
      /\ host' = [host EXCEPT ![r] = placed]
  BY DEF Rename, MigrateIndInv, InHand
<1>1. /\ r \in Rels /\ Says(Op) /\ Op \in Ops
      /\ plan' \in Seq(Ops) /\ SaysAll(plan') /\ InOrder(plan')
      /\ \A p : Has(plan, p) /\ p # r => Has(plan', p)
  BY <1>0, HeadIs DEF MigrateIndInv, MigrateTypeOK
<1>2. Kind(r) = "file" /\ Replaces(r) /\ Decided(r)
  BY <1>0, <1>1 DEF Says, OpKind, Decided, Replaces
<1>3. Promoted(r) = placed
  BY <1>1, <1>2, PromotedIs DEF MigrateIndInv, Uppered, Says
<1>4. \A q \in Above(r) : host[q] = Dir
  BY <1>0, ParentsThere
<1>5. host \in [Rels -> HostEntries] /\ placed \in HostEntries
  BY <1>1, EntriesTyped DEF MigrateIndInv, MigrateTypeOK, Ops
<1>6. \A p \in Rels : r \in Above(p) => Promoted(p) = None
  BY <1>1, <1>2, PromotedBelow DEF MigrateIndInv, Uppered
<1>7. placed.k = "file"
  OBVIOUS
<1> HIDE DEF r, placed
<1>8. \A p \in Rels : host'[p] = IF p = r THEN placed ELSE host[p]
  BY <1>0, <1>5
<1>9. host' \in [Rels -> HostEntries]
  BY <1>0, <1>5
<1>10. \A p \in Rels : r \in Above(p) => host[p] = None
  <2>1. \A p \in Rels : r \in Above(p) => host[p].k = "none"
    BY <1>0 DEF MigrateIndInv, HostTree
  <2> QED BY <2>1, NothingIsNone DEF MigrateIndInv
<1>11. HostTree'
  <2> SUFFICES ASSUME NEW p \in Rels, host'[p].k # "none", NEW q \in Above(p)
               PROVE  host'[q].k = "dir"
    BY DEF HostTree
  <2>1. q \in Rels /\ q # p
    BY AboveOrder
  <2>2. CASE p = r
    BY <1>4, <1>8, <2>1, <2>2 DEF Dir
  <2>3. CASE p # r
    <3>1. host[p].k # "none" /\ q # r
      BY <1>8, <1>10, <2>3 DEF None
    <3> QED BY <1>8, <2>1, <3>1 DEF MigrateIndInv, HostTree
  <2> QED BY <2>2, <2>3
<1>12. MigrateTypeOK'
  BY <1>0, <1>1, <1>9 DEF MigrateTypeOK, MigrateIndInv
<1>13. ASSUME NEW p \in Rels
       PROVE  \/ host'[p] = before[p]
              \/ host'[p] = Promoted(p)
              \/ host'[p] = None /\ before[p].k # Promoted(p).k /\ wasKilled
  <2>1. CASE p = r
    BY <1>3, <1>8, <2>1
  <2>2. CASE p # r
    <3>1. Op.rel # p
      BY <2>2 DEF r
    <3> QED BY <1>8, <2>2, <3>1 DEF MigrateIndInv, Kept
  <2> QED BY <2>1, <2>2
<1>14. Kept'
  BY <1>0, <1>13, Carried DEF Kept
<1>15. ASSUME NEW p \in Rels PROVE PathSettled(p)'
  <2>1. CASE p = r
    BY <1>0, <1>3, <1>8, <2>1, Carried
  <2>2. CASE p # r /\ r \in Above(p)
    BY <1>0, <1>6, <1>8, <1>10, <2>2, Carried
  <2>3. CASE p # r /\ r \notin Above(p)
    <3>1. PathSettled(p) /\ host'[p] = host[p]
      BY <1>0, <1>8, <2>3 DEF MigrateIndInv, Doing
    <3> QED BY <1>0, <1>1, <2>3, <3>1, Carried DEF PathSettled
  <2> QED BY <2>1, <2>2, <2>3
<1> QED BY <1>0, <1>1, <1>11, <1>12, <1>14, <1>15, Carried
        DEF MigrateIndInv, InHand, Doing, AppliedIsView

\* A step that ends a run, or readies the next, and leaves the host.
LEMMA EndKeeps ==
  ASSUME MigrateIndInv, UNCHANGED <<uppers, host, before, runs>>,
         plan' \in {plan, <<>>}, phase' \in {"start", "failed", "killed"},
         wasKilled' \in BOOLEAN, wasKilled => wasKilled', phase = "cleared" => wasKilled'
  PROVE  MigrateIndInv'
<1>1. plan' \in Seq(Ops) /\ SaysAll(plan') /\ InOrder(plan')
  <2>1. DOMAIN <<>> = {} /\ <<>> \in Seq(Ops)
    OBVIOUS
  <2> QED BY <2>1 DEF MigrateIndInv, MigrateTypeOK, SaysAll, InOrder
<1>2. MigrateTypeOK'
  BY <1>1 DEF MigrateIndInv, MigrateTypeOK
<1>3. HostTree' /\ Kept'
  BY Carried DEF MigrateIndInv, HostTree, Kept
<1> QED BY <1>1, <1>2, <1>3, Carried DEF MigrateIndInv, InHand, Doing, AppliedIsView

LEMMA FinishKeeps == MigrateIndInv /\ Finish => MigrateIndInv'
<1> SUFFICES ASSUME MigrateIndInv, Finish PROVE MigrateIndInv'
  OBVIOUS
<1>0. /\ UNCHANGED <<uppers, host, before, plan, runs, wasKilled>>
      /\ phase = "apply" /\ phase' = "done" /\ ~HasOp
  BY DEF Finish
<1>1. \A p \in Rels : host[p] = Promoted(p)
  <2>1. \A p : ~Has(plan, p)
    BY <1>0 DEF HasOp, Has
  <2> QED BY <1>0, <2>1 DEF MigrateIndInv, Doing, PathSettled
<1>2. MigrateTypeOK' /\ HostTree' /\ Kept'
  BY <1>0, Carried DEF MigrateIndInv, MigrateTypeOK, HostTree, Kept
<1>3. AppliedIsView'
  BY <1>0, <1>1, Carried DEF AppliedIsView
<1> QED BY <1>0, <1>2, <1>3, Carried DEF MigrateIndInv, InHand, Doing

\* A removal cut short takes part of what the removal would have taken.
LEMMA KilledKeeps == MigrateIndInv /\ Killed => MigrateIndInv'
<1> SUFFICES ASSUME MigrateIndInv, Killed PROVE MigrateIndInv'
  OBVIOUS
<1> DEFINE r == Op.rel
<1>0. /\ UNCHANGED <<uppers, before, plan, runs>>
      /\ phase \in {"apply", "staged", "cleared"} /\ phase' = "killed" /\ wasKilled'
      /\ wasKilled' \in BOOLEAN
  BY DEF Killed
<1>1. CASE host' = host
  BY <1>0, <1>1, EndKeeps
<1>2. ASSUME NEW t \in Rels, HasOp, host' = Without(host, t),
             \A p \in Rels : p = t \/ t \in Above(p) =>
               \/ Promoted(p) = None
               \/ host[p] = None
               \/ before[p].k # Promoted(p).k
      PROVE  MigrateIndInv'
  <2>1. /\ host' \in [Rels -> HostEntries] /\ HostTree'
        /\ \A p \in Rels : host'[p] = IF p = t \/ t \in Above(p) THEN None ELSE host[p]
    BY <1>2, WithoutIs DEF MigrateIndInv, MigrateTypeOK
  <2>2. MigrateTypeOK'
    BY <1>0, <2>1 DEF MigrateIndInv, MigrateTypeOK
  <2>3. ASSUME NEW p \in Rels
        PROVE  \/ host'[p] = before[p]
               \/ host'[p] = Promoted(p)
               \/ host'[p] = None /\ before[p].k # Promoted(p).k
    <3>1. CASE p = t \/ t \in Above(p)
      BY <1>2, <2>1, <3>1 DEF MigrateIndInv, Kept
    <3>2. CASE ~(p = t \/ t \in Above(p))
      BY <2>1, <3>2 DEF MigrateIndInv, Kept
    <3> QED BY <3>1, <3>2
  <2>4. Kept'
    BY <1>0, <2>3, Carried DEF Kept
  <2>5. SaysAll(plan) /\ InOrder(plan)
    BY DEF MigrateIndInv
  <2> QED BY <1>0, <2>1, <2>2, <2>4, <2>5, Carried
          DEF MigrateIndInv, InHand, Doing, AppliedIsView
<1>3. ASSUME HasOp, Op.k = "delete" \/ phase = "staged",
             NEW q \in Below(r), host' = Without(host, q)
      PROVE  MigrateIndInv'
  <2>1. r \in Rels /\ Says(Op)
    BY <1>3, HeadIs DEF MigrateIndInv, MigrateTypeOK
  <2>2. Op.k \in {"delete", "file"}
    BY <1>3 DEF MigrateIndInv, InHand
  <2>3. Replaces(r)
    BY <2>1, <2>2 DEF Says, OpKind, Decided, Replaces
  <2>4. q \in Rels /\ r \in Above(q)
    BY <2>1, BelowIs DEF Below
  <2>5. ASSUME NEW p \in Rels, p = q \/ q \in Above(p) PROVE Promoted(p) = None
    <3>1. r \in Above(p)
      BY <2>4, <2>5, AboveOrder
    <3> QED BY <2>3, <3>1, PromotedBelow DEF MigrateIndInv, Uppered
  <2> QED BY <1>2, <1>3, <2>4, <2>5
<1>4. ASSUME HasOp, Op.k = "dir", host[r].k # "dir", host' = Without(host, r)
      PROVE  MigrateIndInv'
  <2>1. r \in Rels /\ Says(Op)
    BY <1>4, HeadIs DEF MigrateIndInv, MigrateTypeOK
  <2>2. Promoted(r) = Dir
    BY <1>4, <2>1, PromotedIs DEF Says, OpKind, Decided, MigrateIndInv, Uppered
  <2>3. host[r] = None \/ before[r].k # Promoted(r).k
    BY <1>4, <2>1, <2>2 DEF MigrateIndInv, Kept, Dir
  <2>4. ASSUME NEW p \in Rels, r \in Above(p) PROVE host[p] = None
    <3>1. host[p].k = "none"
      BY <1>4, <2>4 DEF MigrateIndInv, HostTree
    <3> QED BY <3>1, NothingIsNone DEF MigrateIndInv
  <2> QED BY <1>2, <1>4, <2>1, <2>3, <2>4
<1> QED BY <1>1, <1>3, <1>4 DEF Killed

LEMMA MigrateStep == MigrateIndInv /\ [MigrateNext]_migrateVars => MigrateIndInv'
<1> SUFFICES ASSUME MigrateIndInv, [MigrateNext]_migrateVars PROVE MigrateIndInv'
  OBVIOUS
<1>1. CASE StartRun
  BY <1>1, StartKeeps
<1>2. CASE Refuse
  BY <1>2, ParentsThere DEF Refuse
<1>3. CASE ApplyDelete
  BY <1>3, DeleteKeeps
<1>4. CASE ApplyDir
  BY <1>4, DirKeeps
<1>5. CASE Stage
  BY <1>5, StageKeeps
<1>6. CASE Reconcile
  BY <1>6, ReconcileKeeps
<1>7. CASE Rename
  BY <1>7, RenameKeeps
<1>8. CASE Finish
  BY <1>8, FinishKeeps
<1>9. CASE StageFails
  <2>1. host' = host
    BY <1>9, ParentsThere DEF StageFails
  <2> QED BY <1>9, <2>1, EndKeeps DEF StageFails, MigrateIndInv, MigrateTypeOK
<1>10. CASE Killed
  BY <1>10, KilledKeeps
<1>11. CASE RunAgain
  BY <1>11, EndKeeps DEF RunAgain, MigrateIndInv, MigrateTypeOK
<1>12. CASE UNCHANGED migrateVars
  <2>1. /\ UNCHANGED <<uppers, host, before, plan, phase, runs, wasKilled>>
        /\ uppers' = uppers /\ before' = before
    BY <1>12 DEF migrateVars
  <2>2. MigrateTypeOK' /\ HostTree' /\ Kept' /\ InHand' /\ AppliedIsView'
    BY <2>1, Carried
       DEF MigrateIndInv, MigrateTypeOK, HostTree, Kept, InHand, AppliedIsView, HasOp, Op
  <2>3. Doing'
    BY <2>1, Carried DEF MigrateIndInv, Doing, PathSettled
  <2> QED BY <2>1, <2>2, <2>3, Carried DEF MigrateIndInv
<1> QED BY <1>1, <1>2, <1>3, <1>4, <1>5, <1>6, <1>7, <1>8, <1>9, <1>10, <1>11, <1>12
        DEF MigrateNext

LEMMA MigrateInv == MigrateSpec => []MigrateIndInv
<1> QED BY InitInv, MigrateStep, PTL DEF MigrateSpec

\* A migration keeps host, plan and run in a state the code knows: every entry of
\* the host is its own or comes from one of the uppers, and every operation of the
\* plan is one BuildPlan makes.
THEOREM MigrateTyped == MigrateSpec => []MigrateTypeOK
<1>1. MigrateIndInv => MigrateTypeOK
  BY DEF MigrateIndInv
<1> QED BY <1>1, MigrateInv, PTL

\* Whatever the uppers hold, and however often a run fails or is killed and is
\* started again: a run that ends well leaves the host as the mount showed it, none
\* is refused, and no file goes missing before its successor is there.
THEOREM ViewReached == MigrateSpec => []MigratesToView
<1>1. MigrateIndInv => MigratesToView
  <2> SUFFICES ASSUME MigrateIndInv PROVE AppliedIsView /\ NeverRefused /\ OldOrNew
    BY DEF MigratesToView
  <2>1. OldOrNew
    BY DEF MigrateIndInv, Kept, OldOrNew
  <2> QED BY <2>1 DEF MigrateIndInv, NeverRefused
<1> QED BY <1>1, MigrateInv, PTL

-----------------------------------------------------------------------------
(***************************************************************************)
(* The microVM of a project, for any number of launches: what runs in it   *)
(* runs behind the lockdown, no launch takes a running VM away, and no     *)
(* record outlives the launch that wrote it.  The argument is the session  *)
(* lock: from the lock to the joined goroutine its holder is alone.        *)
(***************************************************************************)

USE MicroVMAssumption DEF VMs, BootGo, Resolver, Unlocked, Own

\* The part of a launch under the lock, and the part in which its goroutine runs.
UnderLock == {"guard", "clear", "boot", "wait", "join"}
Working == {"poll", "lockdown", "release", "register"}

\* Who is under the lock holds it, and only its goroutine is at work.
LockedAlone ==
  \A b \in Boots : /\ bootAt[b] \in UnderLock => vmLock = b
                   /\ resolver[b] \in Working => bootAt[b] \in {"wait", "join"}

\* Until the VM is started there is none, and the file of an earlier one is gone.
Cleared ==
  \A b \in Boots : /\ bootAt[b] \in {"clear", "boot"} => vm = NoVM
                   /\ bootAt[b] = "boot" => ~goFile

\* The file is there, or about to be, only for a VM that is locked down.
Released ==
  /\ vm # NoVM /\ (vm.phase = "work" \/ goFile) => vm.locked
  /\ \A b \in Boots : resolver[b] = "release" /\ vm # NoVM => vm.locked

\* A record is on file only from the goroutine's end to the launch's return.
VMRecorded ==
  \A b \in Boots :
    bootAt[b] \in {"start", "lock", "guard", "clear", "boot", "over"} => b \notin registered

VMInv == MicroVMTypeOK /\ LockedAlone /\ Cleared /\ Released /\ VMRecorded

-----------------------------------------------------------------------------
(* The steps *)

LEMMA VMInitOK == MicroVMInit => VMInv
PROOF
<1> SUFFICES ASSUME MicroVMInit PROVE VMInv
  OBVIOUS
<1> USE DEF MicroVMInit
<1>1. MicroVMTypeOK
  BY DEF MicroVMTypeOK
<1>2. LockedAlone
  BY DEF LockedAlone, UnderLock, Working
<1>3. Cleared /\ Released /\ VMRecorded
  BY DEF Cleared, Released, VMRecorded
<1> QED BY <1>1, <1>2, <1>3 DEF VMInv

\* A step that moves one launch, and touches neither the VM nor the file.
LEMMA BootStep ==
  ASSUME VMInv, NEW b \in Boots, BootSteps(b)
  PROVE  VMInv'
PROOF
<1> USE DEF VMInv
<1>1. CASE Preflight(b)
  <2> USE <1>1 DEF Preflight
  <2>1. MicroVMTypeOK'
    BY DEF MicroVMTypeOK
  <2>2. LockedAlone'
    BY DEF MicroVMTypeOK, LockedAlone, UnderLock, Working
  <2>3. Cleared' /\ Released' /\ VMRecorded'
    BY DEF MicroVMTypeOK, Cleared, Released, VMRecorded
  <2> QED BY <2>1, <2>2, <2>3
<1>2. CASE AcquireLock(b)
  <2> USE <1>2 DEF AcquireLock
  <2>1. MicroVMTypeOK'
    BY DEF MicroVMTypeOK
  <2>2. LockedAlone'
    BY DEF MicroVMTypeOK, LockedAlone, UnderLock, Working
  <2>3. Cleared' /\ Released' /\ VMRecorded'
    BY DEF MicroVMTypeOK, Cleared, Released, VMRecorded
  <2> QED BY <2>1, <2>2, <2>3
<1>3. CASE GuardRunning(b)
  <2> USE <1>3 DEF GuardRunning
  <2>1. MicroVMTypeOK'
    BY DEF MicroVMTypeOK
  <2>2. LockedAlone'
    BY DEF MicroVMTypeOK, LockedAlone, UnderLock, Working
  <2>3. Cleared' /\ Released' /\ VMRecorded'
    BY DEF MicroVMTypeOK, Cleared, Released, VMRecorded
  <2> QED BY <2>1, <2>2, <2>3
<1>4. CASE ClearGoFile(b)
  <2> USE <1>4 DEF ClearGoFile
  <2>1. MicroVMTypeOK'
    BY DEF MicroVMTypeOK
  <2>2. LockedAlone'
    BY DEF MicroVMTypeOK, LockedAlone, UnderLock, Working
  <2>3. Cleared' /\ Released' /\ VMRecorded'
    BY DEF MicroVMTypeOK, Cleared, Released, VMRecorded
  <2> QED BY <2>1, <2>2, <2>3
<1>5. CASE StartVM(b)
  <2> USE <1>5 DEF StartVM
  <2>1. MicroVMTypeOK'
    <3>1. [id |-> b, phase |-> "gated", locked |-> FALSE] \in VMs
      OBVIOUS
    <3>2. vm' \in VMs \cup {NoVM}
      BY <3>1 DEF MicroVMTypeOK
    <3> QED BY <3>2 DEF MicroVMTypeOK
  <2>2. LockedAlone'
    BY DEF MicroVMTypeOK, LockedAlone, UnderLock, Working
  <2>3. Cleared'
    BY DEF MicroVMTypeOK, LockedAlone, UnderLock, Cleared
  <2>4. Released'
    BY DEF MicroVMTypeOK, LockedAlone, UnderLock, Working, Cleared, Released
  <2>5. VMRecorded'
    BY DEF MicroVMTypeOK, VMRecorded
  <2> QED BY <2>1, <2>2, <2>3, <2>4, <2>5
<1>6. CASE WaitReturns(b)
  <2> USE <1>6 DEF WaitReturns
  <2>1. MicroVMTypeOK'
    BY DEF MicroVMTypeOK
  <2>2. LockedAlone'
    BY DEF MicroVMTypeOK, LockedAlone, UnderLock, Working
  <2>3. Cleared' /\ Released' /\ VMRecorded'
    BY DEF MicroVMTypeOK, Cleared, Released, VMRecorded
  <2> QED BY <2>1, <2>2, <2>3
<1>7. CASE JoinResolver(b)
  <2> USE <1>7 DEF JoinResolver
  <2>1. MicroVMTypeOK'
    BY DEF MicroVMTypeOK
  <2>2. LockedAlone'
    BY DEF MicroVMTypeOK, LockedAlone, UnderLock, Working
  <2>3. Cleared' /\ Released' /\ VMRecorded'
    BY DEF MicroVMTypeOK, Cleared, Released, VMRecorded
  <2> QED BY <2>1, <2>2, <2>3
<1>8. CASE RemoveRecord(b)
  <2> USE <1>8 DEF RemoveRecord
  <2>1. MicroVMTypeOK'
    BY DEF MicroVMTypeOK
  <2>2. LockedAlone'
    BY DEF MicroVMTypeOK, LockedAlone, UnderLock, Working
  <2>3. Cleared' /\ Released' /\ VMRecorded'
    BY DEF MicroVMTypeOK, Cleared, Released, VMRecorded
  <2> QED BY <2>1, <2>2, <2>3
<1>9. CASE BootKilled(b)
  <2> USE <1>9 DEF BootKilled
  <2>1. MicroVMTypeOK'
    BY DEF MicroVMTypeOK
  <2>2. LockedAlone'
    BY DEF MicroVMTypeOK, LockedAlone, UnderLock, Working
  <2>3. Cleared' /\ Released' /\ VMRecorded'
    BY DEF MicroVMTypeOK, Cleared, Released, VMRecorded
  <2> QED BY <2>1, <2>2, <2>3
<1> QED BY <1>1, <1>2, <1>3, <1>4, <1>5, <1>6, <1>7, <1>8, <1>9 DEF BootSteps

\* The goroutine gives up: no VM is left, and what held before still does.
LEMMA FailOK ==
  ASSUME VMInv, NEW b \in Boots, resolver[b] \in Working, Fail(b),
         UNCHANGED <<vmLock, goFile, bootAt, registered>>
  PROVE  VMInv'
PROOF
<1> USE DEF VMInv, Fail
<1>1. MicroVMTypeOK'
  BY DEF MicroVMTypeOK
<1>2. LockedAlone'
  BY DEF MicroVMTypeOK, LockedAlone, UnderLock, Working
<1>3. Cleared' /\ Released' /\ VMRecorded'
  BY DEF MicroVMTypeOK, Cleared, Released, VMRecorded
<1> QED BY <1>1, <1>2, <1>3

LEMMA ResolverStep ==
  ASSUME VMInv, NEW b \in Boots, ResolverSteps(b)
  PROVE  VMInv'
PROOF
<1> USE DEF VMInv
<1>1. CASE ResolvePID(b)
  <2>1. CASE Fail(b)
    BY <1>1, <2>1, FailOK DEF ResolvePID, Working
  <2>2. CASE ~Fail(b)
    <3> USE <1>1, <2>2 DEF ResolvePID
    <3>1. /\ resolver[b] = "poll" /\ resolver' \in {[resolver EXCEPT ![b] = "finished"],
                                                   [resolver EXCEPT ![b] = "lockdown"]}
          /\ UNCHANGED <<vm, vmLock, goFile, bootAt, registered, stopped, failed>>
      OBVIOUS
    <3>2. MicroVMTypeOK'
      BY <3>1 DEF MicroVMTypeOK
    <3>3. LockedAlone'
      BY <3>1 DEF MicroVMTypeOK, LockedAlone, UnderLock, Working
    <3>4. Cleared' /\ Released' /\ VMRecorded'
      BY <3>1 DEF MicroVMTypeOK, Cleared, Released, VMRecorded
    <3> QED BY <3>2, <3>3, <3>4
  <2> QED BY <2>1, <2>2
<1>2. CASE LockEgress(b)
  <2>1. CASE Fail(b)
    BY <1>2, <2>1, FailOK DEF LockEgress, Working
  <2>2. CASE ~Fail(b)
    <3>1. /\ resolver[b] = "lockdown" /\ vm # NoVM /\ vm' = [vm EXCEPT !.locked = TRUE]
          /\ resolver' = [resolver EXCEPT ![b] = "release"]
          /\ UNCHANGED <<vmLock, goFile, bootAt, registered, stopped, failed>>
      BY <1>2, <2>2 DEF LockEgress
    <3>2. vm \in VMs /\ vm' \in VMs /\ vm'.locked /\ vm'.phase = vm.phase
      BY <3>1 DEF MicroVMTypeOK
    <3>3. MicroVMTypeOK'
      BY <3>1, <3>2 DEF MicroVMTypeOK
    <3>4. LockedAlone'
      BY <3>1 DEF MicroVMTypeOK, LockedAlone, UnderLock, Working
    <3>5. Cleared' /\ Released' /\ VMRecorded'
      BY <3>1, <3>2 DEF MicroVMTypeOK, Cleared, Released, VMRecorded
    <3> QED BY <3>3, <3>4, <3>5
  <2> QED BY <2>1, <2>2
<1>3. CASE WriteGoFile(b)
  <2>1. CASE Fail(b) /\ UNCHANGED goFile
    BY <1>3, <2>1, FailOK DEF WriteGoFile, Working
  <2>2. CASE ~(Fail(b) /\ UNCHANGED goFile)
    <3>1. /\ resolver[b] = "release" /\ goFile' = TRUE
          /\ resolver' = [resolver EXCEPT ![b] = "register"]
          /\ UNCHANGED <<vm, vmLock, bootAt, registered, stopped, failed>>
      BY <1>3, <2>2 DEF WriteGoFile
    <3>2. MicroVMTypeOK'
      BY <3>1 DEF MicroVMTypeOK
    <3>3. LockedAlone'
      BY <3>1 DEF MicroVMTypeOK, LockedAlone, UnderLock, Working
    <3>4. Cleared'
      BY <3>1 DEF MicroVMTypeOK, LockedAlone, UnderLock, Working, Cleared
    <3>5. Released' /\ VMRecorded'
      BY <3>1 DEF MicroVMTypeOK, Released, VMRecorded
    <3> QED BY <3>2, <3>3, <3>4, <3>5
  <2> QED BY <2>1, <2>2
<1>4. CASE OnStart(b)
  <2> USE <1>4 DEF OnStart
  <2>1. MicroVMTypeOK'
    BY DEF MicroVMTypeOK
  <2>2. LockedAlone'
    BY DEF MicroVMTypeOK, LockedAlone, UnderLock, Working
  <2>3. Cleared' /\ Released'
    BY DEF MicroVMTypeOK, Cleared, Released
  <2>4. VMRecorded'
    BY DEF MicroVMTypeOK, LockedAlone, Working, VMRecorded
  <2> QED BY <2>1, <2>2, <2>3, <2>4
<1> QED BY <1>1, <1>2, <1>3, <1>4 DEF ResolverSteps

LEMMA GuestStep ==
  ASSUME VMInv, GuestReleased \/ GuestGivesUp \/ WorkEnds
  PROVE  VMInv'
PROOF
<1> USE DEF VMInv
<1>1. UNCHANGED <<vmLock, goFile, bootAt, resolver, stopped, failed, registered>>
  BY DEF GuestReleased, GuestGivesUp, WorkEnds
<1>2. vm # NoVM
  BY DEF GuestReleased, GuestGivesUp, WorkEnds
<1>3. vm' = NoVM \/ (vm' \in VMs /\ vm'.locked)
  <2>1. CASE GuestReleased
    BY <2>1 DEF GuestReleased, Released, MicroVMTypeOK
  <2> QED BY <2>1 DEF GuestGivesUp, WorkEnds
<1>4. MicroVMTypeOK' /\ LockedAlone' /\ VMRecorded'
  BY <1>1, <1>3 DEF MicroVMTypeOK, LockedAlone, VMRecorded
<1>5. Cleared'
  BY <1>1, <1>2 DEF Cleared
<1>6. Released'
  BY <1>1, <1>3 DEF Released
<1> QED BY <1>4, <1>5, <1>6

LEMMA VMStep == VMInv /\ [MicroVMNext]_vmVars => VMInv'
PROOF
<1> SUFFICES ASSUME VMInv, [MicroVMNext]_vmVars PROVE VMInv'
  OBVIOUS
<1>1. CASE \E b \in Boots : BootSteps(b) \/ ResolverSteps(b)
  BY <1>1, BootStep, ResolverStep
<1>2. CASE GuestReleased \/ GuestGivesUp \/ WorkEnds
  BY <1>2, GuestStep
<1>3. CASE UNCHANGED vmVars
  BY <1>3 DEF vmVars, VMInv, MicroVMTypeOK, LockedAlone, Cleared, Released, VMRecorded
<1> QED BY <1>1, <1>2, <1>3 DEF MicroVMNext

-----------------------------------------------------------------------------
(* The theorems *)

\* The strengthened invariant, of every behaviour.
THEOREM VMInvariant == MicroVMSpec => []VMInv
PROOF
<1> QED BY VMInitOK, VMStep, PTL DEF MicroVMSpec

\* Whatever runs in a microVM runs behind the lockdown, and a record goes with its
\* launch: for any number of launches, killed wherever.
THEOREM MicroVMHeld == MicroVMSpec => []GuestHeld
PROOF
<1>1. VMInv => GuestHeld
  BY DEF VMInv, Released, VMRecorded, GuestHeld, WorkloadLocked, NoRecordLeft
<1> QED BY <1>1, VMInvariant, PTL

\* No launch replaces a VM that runs.
THEOREM MicroVMNeverReplaced == MicroVMSpec => NeverReplaced
PROOF
<1>1. VMInv /\ [MicroVMNext]_vmVars => [KeepsVM]_vmVars
  <2> SUFFICES ASSUME VMInv, MicroVMNext PROVE KeepsVM
    OBVIOUS
  <2> USE DEF VMInv
  <2>1. ASSUME NEW b \in Boots, BootSteps(b) PROVE vm' = vm \/ vm = NoVM
    BY <2>1 DEF BootSteps, Preflight, AcquireLock, GuardRunning, ClearGoFile, StartVM,
           WaitReturns, JoinResolver, RemoveRecord, BootKilled, Cleared
  <2>2. ASSUME NEW b \in Boots, ResolverSteps(b)
        PROVE  vm' \in {vm, NoVM, [vm EXCEPT !.locked = TRUE]}
    BY <2>2 DEF ResolverSteps, ResolvePID, LockEgress, WriteGoFile, OnStart, Fail
  <2>3. ASSUME GuestReleased \/ GuestGivesUp \/ WorkEnds
        PROVE  vm' \in {NoVM, [vm EXCEPT !.phase = "work"]}
    BY <2>3 DEF GuestReleased, GuestGivesUp, WorkEnds
  <2> QED BY <2>1, <2>2, <2>3 DEF MicroVMNext, MicroVMTypeOK, KeepsVM
<1> QED BY <1>1, VMInvariant, PTL DEF MicroVMSpec, NeverReplaced

\* The VM, the lock and each launch and its goroutine keep their types.
THEOREM MicroVMTyped == MicroVMSpec => []MicroVMTypeOK
PROOF
<1>1. VMInv => MicroVMTypeOK
  BY DEF VMInv
<1> QED BY <1>1, VMInvariant, PTL

\* What the launches of one project keep to, with --replace or without.
THEOREM MicroVMKept == MicroVMSpec => GuestKept
PROOF
BY MicroVMHeld, MicroVMNeverReplaced, PTL DEF GuestKept, NeverReplaced

-----------------------------------------------------------------------------
(* Mounts: what a step has mounted stays mounted to the end, and trackMount lets
   none be covered, so every rule's mount is what is seen at its path.         *)

(* What tools bind *)

Fields == {"source", "dest", "type", "ro", "category", "to"}

\* A sequence of bindings.
Bind(s) == \E X : s \in Seq(X) /\ \A b \in X : DOMAIN b = Fields

LEMMA BindingMade ==
  /\ \A source, dest, type, ro, category :
       /\ DOMAIN Binding(source, dest, type, ro, category) = Fields
       /\ DOMAIN NoDest(source, type, ro, category) = Fields
  /\ \A b : DOMAIN b = Fields => DOMAIN HomeRelative(b) = Fields
BY DEF Fields, Binding, NoDest, HomeRelative

LEMMA PlaceMade ==
  /\ \A p : DOMAIN ReadOnly(p) = Fields /\ DOMAIN Writable(p) = Fields
  /\ \A names, category : DOMAIN InHome(names, category) = Fields
  /\ \A name, names : DOMAIN Copied(name, names) = Fields
  /\ \A app : /\ DOMAIN Config(app) = Fields /\ DOMAIN Data(app) = Fields
              /\ DOMAIN State(app) = Fields /\ DOMAIN Cache(app) = Fields
              /\ DOMAIN Dotfile(app) = Fields
BY BindingMade DEF ReadOnly, Writable, InHome, Copied, Config, Data, State, Cache, Dotfile

LEMMA BindJoined == ASSUME NEW s, NEW t, Bind(s), Bind(t) PROVE Bind(s \o t)
<1>1. PICK X : s \in Seq(X) /\ \A b \in X : DOMAIN b = Fields
  BY DEF Bind
<1>2. PICK Y : t \in Seq(Y) /\ \A b \in Y : DOMAIN b = Fields
  BY DEF Bind
<1>3. s \in Seq(X \cup Y) /\ t \in Seq(X \cup Y)
  BY <1>1, <1>2
<1>4. s \o t \in Seq(X \cup Y)
  BY <1>3
<1> QED BY <1>1, <1>2, <1>4 DEF Bind

\* As a rule: its members are bindings.
LEMMA BindAll == ASSUME NEW X, NEW s \in Seq(X), \A b \in X : DOMAIN b = Fields PROVE Bind(s)
BY DEF Bind

\* A list of a few bindings.
LEMMA BindListed ==
  /\ Bind(<<>>)
  /\ \A a : DOMAIN a = Fields => Bind(<<a>>)
  /\ \A a, b : DOMAIN a = Fields /\ DOMAIN b = Fields => Bind(<<a, b>>)
  /\ \A a, b, c : DOMAIN a = Fields /\ DOMAIN b = Fields /\ DOMAIN c = Fields
       => Bind(<<a, b, c>>)
  /\ \A a, b, c, d :
       DOMAIN a = Fields /\ DOMAIN b = Fields /\ DOMAIN c = Fields /\ DOMAIN d = Fields
       => Bind(<<a, b, c, d>>)
  /\ \A a, b, c, d, e :
       /\ DOMAIN a = Fields /\ DOMAIN b = Fields /\ DOMAIN c = Fields /\ DOMAIN d = Fields
       /\ DOMAIN e = Fields
       => Bind(<<a, b, c, d, e>>)
<1>0. Bind(<<>>)
  <2>1. PICK X : X = {}
    OBVIOUS
  <2>2. <<>> \in Seq(X) /\ \A b \in X : DOMAIN b = Fields
    BY <2>1
  <2> QED BY <2>2, BindAll
<1>1. ASSUME NEW a, DOMAIN a = Fields
      PROVE Bind(<<a>>)
  <2>1. PICK X : X = {a}
    OBVIOUS
  <2>2. <<a>> \in Seq(X) /\ \A x \in X : DOMAIN x = Fields
    BY <1>1, <2>1
  <2> QED BY <2>2, BindAll
<1>2. ASSUME NEW a, NEW b, DOMAIN a = Fields, DOMAIN b = Fields
      PROVE Bind(<<a, b>>)
  <2>1. PICK X : X = {a, b}
    OBVIOUS
  <2>2. <<a, b>> \in Seq(X) /\ \A x \in X : DOMAIN x = Fields
    BY <1>2, <2>1
  <2> QED BY <2>2, BindAll
<1>3. ASSUME NEW a, NEW b, NEW c, DOMAIN a = Fields, DOMAIN b = Fields, DOMAIN c = Fields
      PROVE Bind(<<a, b, c>>)
  <2>1. PICK X : X = {a, b, c}
    OBVIOUS
  <2>2. <<a, b, c>> \in Seq(X) /\ \A x \in X : DOMAIN x = Fields
    BY <1>3, <2>1
  <2> QED BY <2>2, BindAll
<1>4. ASSUME NEW a, NEW b, NEW c, NEW d,
             DOMAIN a = Fields, DOMAIN b = Fields, DOMAIN c = Fields, DOMAIN d = Fields
      PROVE Bind(<<a, b, c, d>>)
  <2>1. PICK X : X = {a, b, c, d}
    OBVIOUS
  <2>2. <<a, b, c, d>> \in Seq(X) /\ \A x \in X : DOMAIN x = Fields
    BY <1>4, <2>1
  <2> QED BY <2>2, BindAll
<1>5. ASSUME NEW a, NEW b, NEW c, NEW d, NEW e,
             DOMAIN a = Fields, DOMAIN b = Fields, DOMAIN c = Fields, DOMAIN d = Fields,
             DOMAIN e = Fields
      PROVE Bind(<<a, b, c, d, e>>)
  <2>1. PICK X : X = {a, b, c, d, e}
    OBVIOUS
  <2>2. <<a, b, c, d, e>> \in Seq(X) /\ \A x \in X : DOMAIN x = Fields
    BY <1>5, <2>1
  <2> QED BY <2>2, BindAll
<1> QED BY <1>0, <1>1, <1>2, <1>3, <1>4, <1>5

\* Whatever the tool, and whatever its settings.
LEMMA ToolBinds ==
  ASSUME NEW t, NEW mode, NEW dir, NEW repo, NEW copied
  PROVE  Bind(ToolBindings(t, mode, dir, repo, copied))
<1> USE BindListed, BindingMade, PlaceMade
<1>1. Bind(ClaudeBindings)
  BY BindJoined DEF ClaudeBindings
<1>2. Bind(CodexBindings) /\ Bind(OhMyPoshBindings) /\ Bind(PiBindings) /\ Bind(PortalBindings)
      /\ Bind(RtkBindings) /\ Bind(ZellijBindings)
  BY DEF CodexBindings, OhMyPoshBindings, PiBindings, PortalBindings, RtkBindings, ZellijBindings
<1>3. Bind(KittyBindings) /\ Bind(PywalBindings) /\ Bind(<< SharedTmpBinding >>)
      /\ Bind(StarshipBindings)
  BY DEF KittyBindings, PywalBindings, SharedTmpBinding, StarshipBindings
<1>4. Bind(CopilotBindings) /\ Bind(NvimBindings) /\ Bind(OpenCodeBindings)
  BY DEF CopilotBindings, NvimBindings, OpenCodeBindings
<1>5. Bind(MiseBindings) /\ Bind(Powerlevel10kBindings(copied)) /\ Bind(FishBindings)
  BY DEF MiseBindings, Powerlevel10kBindings, FishBindings
<1>6. Bind(GitBindings(mode, dir, repo))
  BY BindJoined DEF GitBindings
<1>7. Bind(HerdrBindings) /\ Bind(OhMyZshBindings(copied))
  BY BindJoined DEF HerdrBindings, OhMyZshBindings
<1>8. Bind(TmuxBindings(copied))
  BY BindJoined DEF TmuxBindings
<1>9. Bind(BashBindings)
  <2> DEFINE X == {BashBindings[i] : i \in 1..10}
  <2>1. BashBindings \in Seq(X)
    BY DEF BashBindings
  <2>2. \A i \in 1..10 : DOMAIN BashBindings[i] = Fields
    BY DEF BashBindings
  <2>3. \A b \in X : DOMAIN b = Fields
    BY <2>2
  <2> HIDE DEF X
  <2> QED BY <2>1, <2>3, BindAll
<1>10. Bind(ZshBindings)
  <2> DEFINE X == {ZshBindings[i] : i \in 1..6}
  <2>1. ZshBindings \in Seq(X)
    BY DEF ZshBindings
  <2>2. \A i \in 1..6 : DOMAIN ZshBindings[i] = Fields
    BY DEF ZshBindings
  <2>3. \A b \in X : DOMAIN b = Fields
    BY <2>2
  <2> HIDE DEF X
  <2> QED BY <2>1, <2>3, BindAll
<1>11. Bind(<<>>)
  OBVIOUS
<1> HIDE BindListed, BindingMade, PlaceMade
<1> QED BY <1>1, <1>2, <1>3, <1>4, <1>5, <1>6, <1>7, <1>8, <1>9, <1>10, <1>11 DEF ToolBindings

-----------------------------------------------------------------------------
(* Lists *)

\* A sequence, of whatever it has.
IsList(s) == s \in Seq(Range(s))

LEMMA ListedOf == ASSUME NEW X, NEW s \in Seq(X) PROVE IsList(s)
<1>1. Len(s) \in Nat /\ s \in [1..Len(s) -> X] /\ DOMAIN s = 1..Len(s)
  BY LenProperties
<1>2. PICK R : R = Range(s)
  OBVIOUS
<1>3. \A k \in 1..Len(s) : s[k] \in R
  BY <1>1, <1>2 DEF Range
<1>4. s \in [1..Len(s) -> R]
  BY <1>1, <1>3
<1>5. s \in Seq(R)
  BY <1>1, <1>4, SeqDef
<1> QED BY <1>2, <1>5 DEF IsList

LEMMA ListedJoined ==
  ASSUME NEW s, NEW t, IsList(s), IsList(t)
  PROVE  /\ IsList(s \o t)
         /\ \A x : x \in Range(s \o t) <=> x \in Range(s) \/ x \in Range(t)
<1>1. PICK X : X = Range(s) \cup Range(t)
  OBVIOUS
<1>2. s \in Seq(X) /\ t \in Seq(X)
  BY <1>1, SeqMonotonic DEF IsList
<1> QED BY <1>2, Chained, ListedOf

\* A sequence with the places of another.
LEMMA ListedAlong ==
  ASSUME NEW s, IsList(s), NEW t, DOMAIN t = DOMAIN s, t = [i \in DOMAIN t |-> t[i]]
  PROVE  IsList(t) /\ \A x : x \in Range(t) <=> \E i \in DOMAIN s : x = t[i]
<1>1. Len(s) \in Nat /\ DOMAIN s = 1..Len(s)
  BY LenProperties DEF IsList
<1>2. DOMAIN t = 1..Len(s)
  BY <1>1
<1>4. PICK R : R = Range(t)
  OBVIOUS
<1>5. \A i \in 1..Len(s) : t[i] \in R
  BY <1>2, <1>4 DEF Range
<1>6. t \in [1..Len(s) -> R]
  BY <1>2, <1>5
<1>7. t \in Seq(R)
  BY <1>1, <1>6, SeqDef
<1>8. IsList(t)
  BY <1>4, <1>7 DEF IsList
<1>9. \A x : x \in Range(t) <=> \E i \in DOMAIN s : x = t[i]
  BY <1>1, <1>2 DEF Range
<1> QED BY <1>8, <1>9

\* A list's members have places.
LEMMA ListedPlaces ==
  ASSUME NEW s, IsList(s)
  PROVE  /\ Len(s) \in Nat /\ DOMAIN s = 1..Len(s)
         /\ \A x : x \in Range(s) <=> \E i \in DOMAIN s : s[i] = x
BY LenProperties DEF IsList, Range

LEMMA ListedSifted ==
  ASSUME NEW s, IsList(s), NEW S
  PROVE  IsList(Sifted(s, S)) /\ \A x : x \in Range(Sifted(s, S)) <=> x \in S /\ x \in Range(s)
<1>1. PICK X : X = Range(s)
  OBVIOUS
<1>2. s \in Seq(X)
  BY <1>1 DEF IsList
<1>3. Sifted(s, S) \in Seq(X)
  BY <1>2, SiftedRange
<1> QED BY <1>2, <1>3, SiftedRange, ListedOf

LEMMA ListedFlattened ==
  ASSUME NEW ss, IsList(ss), \A i \in DOMAIN ss : IsList(ss[i])
  PROVE  /\ IsList(Flattened(ss))
         /\ \A x : x \in Range(Flattened(ss)) <=> \E i \in DOMAIN ss : x \in Range(ss[i])
<1>1. PICK X : X = UNION {Range(ss[i]) : i \in DOMAIN ss}
  OBVIOUS
<1>2. Len(ss) \in Nat /\ DOMAIN ss = 1..Len(ss)
  BY ListedPlaces
<1>3. \A i \in DOMAIN ss : ss[i] \in Seq(X)
  <2> SUFFICES ASSUME NEW i \in DOMAIN ss PROVE ss[i] \in Seq(X)
    OBVIOUS
  <2>1. Range(ss[i]) \subseteq X
    BY <1>1
  <2>2. ss[i] \in Seq(Range(ss[i]))
    BY DEF IsList
  <2> QED BY <2>1, <2>2, SeqMonotonic
<1>4. ss \in Seq(Seq(X))
  <2>1. PICK R : R = Range(ss)
    OBVIOUS
  <2>2. ss \in Seq(R)
    BY <2>1 DEF IsList
  <2>3. \A r \in R : r \in Seq(X)
    BY <1>3, <2>1, ListedPlaces
  <2>4. R \subseteq Seq(X)
    BY <2>3
  <2> QED BY <2>2, <2>4, SeqMonotonic
<1>5. Flattened(ss) \in Seq(X)
  BY <1>4, FlattenedRange
<1> QED BY <1>4, <1>5, FlattenedRange, ListedOf

-----------------------------------------------------------------------------
(* The tools' mounts *)

LEMMA UsedListed == IsList(UsedTools)
<1>1. PICK X : X = {RegistryOrder[i] : i \in 1..25}
  OBVIOUS
<1>2. RegistryOrder \in Seq(X)
  BY <1>1 DEF RegistryOrder
<1>3. UsedTools \in Seq(X)
  BY <1>2, SiftedRange DEF UsedTools
<1> QED BY <1>3, ListedOf

LEMMA BindPlaces ==
  ASSUME NEW s, Bind(s)
  PROVE  IsList(s) /\ \A b \in Range(s) : DOMAIN b = Fields
<1>1. PICK X : s \in Seq(X) /\ \A b \in X : DOMAIN b = Fields
  BY DEF Bind
<1>2. DOMAIN s = 1..Len(s) /\ \A i \in 1..Len(s) : s[i] \in X
  BY <1>1
<1> QED BY <1>1, <1>2, ListedOf DEF Range

LEMMA ExistingBinds ==
  ASSUME NEW s, IsList(s)
  PROVE  /\ IsList(Existing(s))
         /\ \A b : b \in Range(Existing(s)) <=> b \in Range(s) /\ OnHost(b.source)
BY ListedSifted DEF Existing

LEMMA OwnBinds ==
  ASSUME NEW t
  PROVE  IsList(OwnBindings(t)) /\ \A b \in Range(OwnBindings(t)) : DOMAIN b = Fields
BY ToolBinds, BindPlaces DEF OwnBindings

\* All that the tools bind, and nothing else.
LEMMA ToolMountsListed ==
  /\ IsList(ToolMounts)
  /\ \A t \in Range(UsedTools) : \A b \in Range(OwnBindings(t)) :
       OnHost(b.source) => ToolMount(b) \in Range(ToolMounts)
  /\ \A m \in Range(ToolMounts) : \E b : m = ToolMount(b)
<1> DEFINE ss == [i \in DOMAIN UsedTools |-> Existing(OwnBindings(UsedTools[i]))]
           all == Flattened(ss)
           ms == [i \in DOMAIN all |-> ToolMount(all[i])]
<1>1. IsList(ss) /\ DOMAIN ss = DOMAIN UsedTools
  BY UsedListed, ListedAlong
<1>2. \A i \in DOMAIN ss : ss[i] = Existing(OwnBindings(UsedTools[i]))
  OBVIOUS
<1>3. \A i \in DOMAIN ss : IsList(ss[i])
  BY <1>2, OwnBinds, ExistingBinds
<1> HIDE DEF ss
<1>4. /\ IsList(all)
      /\ \A x : x \in Range(all) <=> \E i \in DOMAIN ss : x \in Range(ss[i])
  BY <1>1, <1>3, ListedFlattened
<1> HIDE DEF all
<1>5. IsList(ms) /\ \A x : x \in Range(ms) <=> \E i \in DOMAIN all : x = ToolMount(all[i])
  <2>1. DOMAIN ms = DOMAIN all /\ ms = [i \in DOMAIN ms |-> ms[i]]
    OBVIOUS
  <2>2. \A i \in DOMAIN all : ms[i] = ToolMount(all[i])
    OBVIOUS
  <2> HIDE DEF ms
  <2>3. IsList(ms) /\ \A x : x \in Range(ms) <=> \E i \in DOMAIN all : x = ms[i]
    BY <1>4, <2>1, ListedAlong
  <2> QED BY <2>2, <2>3
<1>6. ToolMounts = ms
  BY DEF ToolMounts, ss, all, ms
<1> HIDE DEF ms
<1>7. ASSUME NEW t \in Range(UsedTools), NEW b \in Range(OwnBindings(t)), OnHost(b.source)
      PROVE  ToolMount(b) \in Range(ms)
  <2>1. PICK i \in DOMAIN UsedTools : UsedTools[i] = t
    BY <1>7, UsedListed, ListedPlaces
  <2>2. b \in Range(Existing(OwnBindings(t)))
    BY <1>7, OwnBinds, ExistingBinds
  <2>3. b \in Range(all)
    BY <1>1, <1>2, <1>4, <2>1, <2>2
  <2>4. PICK k \in DOMAIN all : all[k] = b
    BY <1>4, <2>3, ListedPlaces
  <2> QED BY <1>5, <2>4
<1> QED BY <1>5, <1>6, <1>7

-----------------------------------------------------------------------------
(* Finite sets, and the batches that list them *)

LEMMA FiniteImage ==
  ASSUME NEW S, IsFiniteSet(S), NEW f, NEW T, f \in [S -> T], \A t \in T : \E s \in S : f[s] = t
  PROVE  IsFiniteSet(T)
<1>1. f \in Surjection(S, T)
  BY DEF Surjection
<1> QED BY <1>1, FS_Surjection

LEMMA FiniteUnion ==
  ASSUME NEW n \in Nat, NEW f, DOMAIN f = 1..n, f = [i \in DOMAIN f |-> f[i]],
         \A i \in 1..n : IsFiniteSet(f[i])
  PROVE  IsFiniteSet(UNION {f[i] : i \in DOMAIN f})
<1>1. PICK F : F = {f[i] : i \in DOMAIN f}
  OBVIOUS
<1>2. f \in [1..n -> F] /\ \A t \in F : \E i \in 1..n : f[i] = t
  <2>1. \A i \in 1..n : f[i] \in F
    BY <1>1
  <2>2. f \in [1..n -> F]
    BY <2>1
  <2>3. \A t \in F : \E i \in 1..n : f[i] = t
    BY <1>1
  <2> QED BY <2>2, <2>3
<1>3. IsFiniteSet(F)
  <2>1. IsFiniteSet(1..n)
    <3>1. \A a, b \in Int : IsFiniteSet(a..b)
      BY FS_Interval
    <3> QED BY <3>1
  <2> QED BY <1>2, <2>1, FiniteImage
<1>4. \A t \in F : IsFiniteSet(t)
  BY <1>1
<1> QED BY <1>1, <1>3, <1>4, FS_UNION

LEMMA BatchListed ==
  ASSUME NEW S, IsFiniteSet(S), NEW s \in ParentsFirst(S)
  PROVE  IsList(s) /\ Range(s) = S
<1>1. Cardinality(S) \in Nat
  BY FS_CardinalityType
<1>2. s \in [1..Cardinality(S) -> S] /\ \A m \in S : \E i \in DOMAIN s : s[i] = m
  BY DEF ParentsFirst
<1>3. s \in Seq(S)
  BY <1>1, <1>2, SeqDef
<1> QED BY <1>2, <1>3, ListedOf DEF Range

-----------------------------------------------------------------------------
(* trackMount *)

\* As mount records are.
WellMade(m) == /\ DOMAIN m = {"at", "kind", "by"}
               /\ m.kind \in MountKinds /\ m.by \in Callers

MountsGood == /\ IsList(mounts) /\ ~Shadows(mounts)
              /\ \A m \in Range(mounts) : WellMade(m)

LEMMA EmitKeeps ==
  ASSUME MountsGood, NEW batch, NEW next, Emit(batch, next),
         IsList(batch), \A m \in Range(batch) : WellMade(m)
  PROVE  /\ MountsGood'
         /\ \A m : m \in Range(mounts) => m \in Range(mounts')
         /\ \/ panicked' = TRUE /\ stage' = "refused"
            \/ /\ stage' = next /\ panicked' = panicked
               /\ \A m : m \in Range(batch) => m \in Range(mounts')
<1>1. CASE Shadows(mounts \o batch)
  <2>1. panicked' = TRUE /\ stage' = "refused" /\ mounts' = mounts
    BY <1>1 DEF Emit
  <2>2. MountsGood'
    BY <2>1 DEF MountsGood, IsList, Shadows
  <2> QED BY <2>1, <2>2
<1>2. CASE ~Shadows(mounts \o batch)
  <2>1. mounts' = mounts \o batch /\ stage' = next /\ panicked' = panicked
    BY <1>2 DEF Emit
  <2>2. /\ IsList(mounts \o batch)
        /\ \A x : x \in Range(mounts \o batch) <=> x \in Range(mounts) \/ x \in Range(batch)
    BY ListedJoined DEF MountsGood
  <2>3. PICK all : all = mounts \o batch
    OBVIOUS
  <2>4. mounts' = all /\ IsList(all) /\ ~Shadows(all) /\ \A m \in Range(all) : WellMade(m)
    BY <1>2, <2>1, <2>2, <2>3 DEF MountsGood
  <2>5. MountsGood'
    BY <2>4 DEF MountsGood, Shadows
  <2> QED BY <2>1, <2>2, <2>5
<1> QED BY <1>1, <1>2

\* A mount of a caller other than the runtime's is not covered.
LEMMA SeenAtItsPlace ==
  ASSUME MountsGood, NEW i \in DOMAIN mounts, mounts[i].by # "runtime"
  PROVE  SeenThrough(i, mounts[i].at)
<1>1. \A j \in DOMAIN mounts : i < j /\ IsTracked(mounts[j]) => ~Overlaps(mounts[i], mounts[j])
  BY DEF MountsGood, Shadows, IsTracked
<1>2. \A j \in DOMAIN mounts : j > i <=> i < j
  BY ListedPlaces DEF MountsGood
<1> QED BY <1>1, <1>2 DEF SeenThrough, IsTracked, Overlaps

-----------------------------------------------------------------------------
(* The rules *)

PlanInputs == project \in ProjectDirs /\ rules \in RuleSets

LEMMA RulesAre ==
  ASSUME PlanInputs
  PROVE  /\ Len(rules) \in Nat /\ DOMAIN rules = 1..Len(rules)
         /\ \A i \in DOMAIN rules :
              /\ rules[i] \in PathRule /\ IsFiniteSet(rules[i].matches)
              /\ rules[i].matches \subseteq Path
              /\ rules[i].relative \/ \A p \in rules[i].matches : IsAbsolute(p)
         /\ project \in Path /\ project # <<>> /\ IsAbsolute(project)
<1>1. /\ rules \in Seq(PathRule)
      /\ \A i \in DOMAIN rules :
           /\ IsFiniteSet(rules[i].matches)
           /\ rules[i].relative \/ \A p \in rules[i].matches : IsAbsolute(p)
  BY PlanAssumption DEF PlanInputs
<1>2. /\ Len(rules) \in Nat /\ DOMAIN rules = 1..Len(rules)
      /\ \A i \in DOMAIN rules : rules[i] \in PathRule
  BY <1>1
<1>3. \A r \in PathRule : r.matches \subseteq Path
  BY DEF PathRule
<1> QED BY <1>1, <1>2, <1>3, PlanAssumption DEF PlanInputs

LEMMA GlobsFinite ==
  ASSUME PlanInputs, NEW i \in DOMAIN rules
  PROVE  IsFiniteSet(Globs(rules[i])) /\ IsFiniteSet(GlobsInProject(rules[i]))
<1> DEFINE M == rules[i].matches
<1>1. IsFiniteSet(M)
  BY RulesAre
<1> HIDE DEF M
<1>2. IsFiniteSet({<<".">> \o p : p \in M})
  <2>1. PICK T : T = {<<".">> \o p : p \in M}
    OBVIOUS
  <2>2. PICK f : f = [p \in M |-> <<".">> \o p]
    OBVIOUS
  <2>3. f \in [M -> T] /\ \A t \in T : \E s \in M : f[s] = t
    BY <2>1, <2>2
  <2>4. IsFiniteSet(T)
    BY <1>1, <2>3, FiniteImage
  <2> QED BY <2>1, <2>4
<1>3. IsFiniteSet({project \o p : p \in M})
  <2>1. PICK T : T = {project \o p : p \in M}
    OBVIOUS
  <2>2. PICK f : f = [p \in M |-> project \o p]
    OBVIOUS
  <2>3. f \in [M -> T] /\ \A t \in T : \E s \in M : f[s] = t
    BY <2>1, <2>2
  <2>4. IsFiniteSet(T)
    BY <1>1, <2>3, FiniteImage
  <2> QED BY <2>1, <2>4
<1> QED BY <1>1, <1>2, <1>3, FS_EmptySet DEF M, Globs, GlobsInProject

\* What Governing takes: the paths of the host that each rule matches.
Hits == [i \in DOMAIN rules |-> {p \in Globs(rules[i]) : OnHost(p)}]
HitsInProject == [i \in DOMAIN rules |-> {p \in GlobsInProject(rules[i]) : OnHost(p)}]

LEMMA GoverningFinite ==
  ASSUME PlanInputs, NEW hits, DOMAIN hits = DOMAIN rules, hits = [i \in DOMAIN hits |-> hits[i]],
         \A i \in DOMAIN rules : IsFiniteSet(hits[i])
  PROVE  IsFiniteSet(DOMAIN Governing(hits))
<1>1. Len(rules) \in Nat /\ DOMAIN hits = 1..Len(rules)
  BY RulesAre
<1>2. IsFiniteSet(UNION {hits[i] : i \in DOMAIN hits})
  BY <1>1, FiniteUnion
<1> QED BY <1>2 DEF Governing

LEMMA ExpandedFinite ==
  ASSUME PlanInputs
  PROVE  IsFiniteSet(DOMAIN ExpandedPaths) /\ IsFiniteSet(DOMAIN ExpandedPathsInDir)
<1>1. ExpandedPaths = Governing(Hits) /\ ExpandedPathsInDir = Governing(HitsInProject)
  BY DEF ExpandedPaths, ExpandedPathsInDir, Hits, HitsInProject
<1>2. IsFiniteSet(DOMAIN Governing(Hits))
  <2>1. PICK hits : hits = Hits
    OBVIOUS
  <2>2. DOMAIN hits = DOMAIN rules /\ hits = [i \in DOMAIN hits |-> hits[i]]
    BY <2>1 DEF Hits
  <2>3. ASSUME NEW i \in DOMAIN rules PROVE IsFiniteSet(hits[i])
    <3>1. hits[i] \in SUBSET Globs(rules[i])
      BY <2>1 DEF Hits
    <3> QED BY <3>1, GlobsFinite, FS_Subset
  <2> QED BY <2>1, <2>2, <2>3, GoverningFinite
<1>3. IsFiniteSet(DOMAIN Governing(HitsInProject))
  <2>1. PICK hits : hits = HitsInProject
    OBVIOUS
  <2>2. DOMAIN hits = DOMAIN rules /\ hits = [i \in DOMAIN hits |-> hits[i]]
    BY <2>1 DEF HitsInProject
  <2>3. ASSUME NEW i \in DOMAIN rules PROVE IsFiniteSet(hits[i])
    <3>1. hits[i] \in SUBSET GlobsInProject(rules[i])
      BY <2>1 DEF HitsInProject
    <3> QED BY <3>1, GlobsFinite, FS_Subset
  <2> QED BY <2>1, <2>2, <2>3, GoverningFinite
<1> QED BY <1>1, <1>2, <1>3

\* The first rule that matches a path governs it.
LEMMA GoverningFirst ==
  ASSUME PlanInputs, NEW hits, DOMAIN hits = DOMAIN rules,
         NEW i \in DOMAIN rules, NEW p \in hits[i],
         \A j \in DOMAIN rules : j < i => p \notin hits[j]
  PROVE  p \in DOMAIN Governing(hits) /\ Governing(hits)[p] = rules[i]
<1> DEFINE c == CHOOSE k \in DOMAIN hits :
                  p \in hits[k] /\ \A j \in DOMAIN hits : j < k => p \notin hits[j]
<1>1. p \in DOMAIN Governing(hits) /\ Governing(hits)[p] = rules[c]
  BY DEF Governing
<1>2. c \in DOMAIN hits /\ p \in hits[c] /\ \A j \in DOMAIN hits : j < c => p \notin hits[j]
  OBVIOUS
<1> HIDE DEF c
<1>3. c = i
  BY <1>2, RulesAre
<1> QED BY <1>1, <1>3

\* And whatever governs a path is a rule.
LEMMA GoverningRule ==
  ASSUME PlanInputs, NEW hits, DOMAIN hits = DOMAIN rules, NEW p \in DOMAIN Governing(hits)
  PROVE  Governing(hits)[p] \in PathRule
<1> DEFINE c == CHOOSE k \in DOMAIN hits :
                  p \in hits[k] /\ \A j \in DOMAIN hits : j < k => p \notin hits[j]
           T == {k \in DOMAIN hits : p \in hits[k]}
<1>1. p \in UNION {hits[i] : i \in DOMAIN hits} /\ Governing(hits)[p] = rules[c]
  BY DEF Governing
<1>2. T \in SUBSET Nat /\ T # {}
  BY <1>1, RulesAre
<1>3. PICK k \in T : \A j \in T : k <= j
  <2> HIDE DEF T
  <2> QED BY <1>2, Least
<1>4. k \in DOMAIN hits /\ p \in hits[k] /\ \A j \in DOMAIN hits : j < k => p \notin hits[j]
  BY <1>3, RulesAre
<1>5. c \in DOMAIN hits
  BY <1>4
<1> HIDE DEF c
<1> QED BY <1>1, <1>5, RulesAre

LEMMA ExpandedRule ==
  ASSUME PlanInputs
  PROVE  /\ \A p \in DOMAIN ExpandedPaths : ExpandedPaths[p] \in PathRule
         /\ \A p \in DOMAIN ExpandedPathsInDir : ExpandedPathsInDir[p] \in PathRule
<1>1. ExpandedPaths = Governing(Hits) /\ ExpandedPathsInDir = Governing(HitsInProject)
  BY DEF ExpandedPaths, ExpandedPathsInDir, Hits, HitsInProject
<1>2. PICK h : h = Hits
  OBVIOUS
<1>3. PICK g : g = HitsInProject
  OBVIOUS
<1>4. DOMAIN h = DOMAIN rules /\ DOMAIN g = DOMAIN rules
  BY <1>2, <1>3 DEF Hits, HitsInProject
<1> QED BY <1>1, <1>2, <1>3, <1>4, GoverningRule

\* A rule's mounts.
LEMMA RuleMountsFinite ==
  ASSUME NEW expanded, NEW P, NEW D, IsFiniteSet(D), P \subseteq D,
         \A p \in P : expanded[p] \in PathRule
  PROVE  /\ IsFiniteSet(RuleMounts(expanded, P))
         /\ \A m \in RuleMounts(expanded, P) : WellMade(m)
<1> DEFINE Q == {q \in P : Applies(q, expanded[q])}
           f == [p \in Q |-> RuleMount(p, expanded[p])]
<1>1. Q \in SUBSET D
  OBVIOUS
<1>2. IsFiniteSet(Q)
  BY <1>1, FS_Subset
<1>3. /\ f \in [Q -> RuleMounts(expanded, P)]
      /\ \A t \in RuleMounts(expanded, P) : \E s \in Q : f[s] = t
  BY DEF RuleMounts
<1>4. IsFiniteSet(RuleMounts(expanded, P))
  <2> HIDE DEF Q, f
  <2> QED BY <1>2, <1>3, FiniteImage
<1>5. \A r \in PathRule : \A p : WellMade(RuleMount(p, r))
  <2> SUFFICES ASSUME NEW r \in PathRule, NEW p PROVE WellMade(RuleMount(p, r))
    OBVIOUS
  <2>1. r.mode \in Modes
    BY DEF PathRule
  <2> QED BY <2>1 DEF WellMade, RuleMount, Mount, Modes, MountKinds, Callers
<1>6. \A m \in RuleMounts(expanded, P) : WellMade(m)
  BY <1>5 DEF RuleMounts
<1> QED BY <1>4, <1>6

-----------------------------------------------------------------------------
(* Paths *)

LEMMA UnderIs ==
  ASSUME NEW X, NEW d \in Seq(X), NEW p \in Seq(X)
  PROVE  Under(d, p) <=> Len(d) <= Len(p) /\ \A i \in 1..Len(d) : p[i] = d[i]
<1>1. Len(d) \in Nat /\ Len(p) \in Nat
  OBVIOUS
<1>2. CASE Len(d) <= Len(p)
  <2>1. /\ SubSeq(p, 1, Len(d)) \in Seq(X) /\ Len(SubSeq(p, 1, Len(d))) = Len(d)
        /\ \A i \in 1..Len(d) : SubSeq(p, 1, Len(d))[i] = p[i]
    BY <1>1, <1>2
  <2>2. SubSeq(p, 1, Len(d)) = d <=> \A i \in 1..Len(d) : SubSeq(p, 1, Len(d))[i] = d[i]
    BY <2>1, SeqEqual
  <2> QED BY <1>2, <2>1, <2>2 DEF Under
<1>3. CASE ~(Len(d) <= Len(p))
  BY <1>3 DEF Under
<1> QED BY <1>2, <1>3

\* A path under a directory is the directory's and its own part.
LEMMA UnderSplit ==
  ASSUME NEW X, NEW d \in Seq(X), NEW p \in Seq(X), Under(d, p)
  PROVE  p = d \o SubSeq(p, Len(d) + 1, Len(p))
<1>1. Len(d) \in Nat /\ Len(p) \in Nat /\ Len(d) <= Len(p) /\ \A i \in 1..Len(d) : p[i] = d[i]
  BY UnderIs
<1>2. PICK r : r = SubSeq(p, Len(d) + 1, Len(p))
  OBVIOUS
<1>3. /\ r \in Seq(X) /\ Len(r) = Len(p) - Len(d)
      /\ \A i \in 1..Len(r) : r[i] = p[Len(d) + i]
  BY <1>1, <1>2
<1>4. PICK q : q = d \o r
  OBVIOUS
<1>5. /\ q \in Seq(X) /\ Len(q) = Len(p)
      /\ \A i \in 1..Len(d) : q[i] = d[i]
      /\ \A i \in (Len(d) + 1)..Len(p) : q[i] = r[i - Len(d)]
  BY <1>1, <1>3, <1>4
<1>6. ASSUME NEW i \in 1..Len(p) PROVE q[i] = p[i]
  <2>1. CASE i <= Len(d)
    BY <1>1, <1>5, <2>1
  <2>2. CASE ~(i <= Len(d))
    <3>1. i \in (Len(d) + 1)..Len(p) /\ i - Len(d) \in 1..Len(r) /\ Len(d) + (i - Len(d)) = i
      BY <1>1, <1>3, <2>2
    <3> QED BY <1>3, <1>5, <3>1
  <2> QED BY <2>1, <2>2
<1>7. q = p
  BY <1>5, <1>6, SeqEqual
<1> QED BY <1>2, <1>4, <1>7

LEMMA UnderOwn ==
  ASSUME NEW X, NEW d \in Seq(X), NEW r \in Seq(X)
  PROVE  Under(d, d \o r) /\ SubSeq(d \o r, Len(d) + 1, Len(d \o r)) = r
<1>1. PICK q : q = d \o r
  OBVIOUS
<1>2. /\ q \in Seq(X) /\ Len(q) = Len(d) + Len(r) /\ Len(d) \in Nat /\ Len(r) \in Nat
      /\ \A i \in 1..Len(d) : q[i] = d[i]
      /\ \A i \in 1..Len(r) : q[Len(d) + i] = r[i]
  BY <1>1
<1>3. Under(d, q)
  BY <1>2, UnderIs
<1>4. PICK s : s = SubSeq(q, Len(d) + 1, Len(q))
  OBVIOUS
<1>5. s \in Seq(X) /\ Len(s) = Len(r) /\ \A i \in 1..Len(r) : s[i] = q[Len(d) + i]
  BY <1>2, <1>4
<1>6. s = r
  BY <1>2, <1>5, SeqEqual
<1> QED BY <1>1, <1>3, <1>4, <1>6

\* Nothing is both relative and under an absolute directory.
LEMMA AbsoluteAll ==
  ASSUME NEW X, NEW d \in Seq(X), NEW p \in Seq(X), d # <<>>, IsAbsolute(d), Under(d, p)
  PROVE  IsAbsolute(p)
<1>1. PICK Y : Y = X \cup {"."}
  OBVIOUS
<1>2. PICK dot : dot = <<".">>
  OBVIOUS
<1>3. dot \in Seq(Y) /\ Len(dot) = 1 /\ d \in Seq(Y) /\ p \in Seq(Y)
  BY <1>1, <1>2, SeqMonotonic
<1>4. Len(d) \in Nat /\ Len(d) # 0
  BY EmptySeq
<1>5. p[1] = d[1] /\ Len(d) <= Len(p) /\ Len(p) \in Nat
  BY <1>4, UnderIs
<1>6. (Under(dot, p) <=> p[1] = dot[1]) /\ (Under(dot, d) <=> d[1] = dot[1])
  <2>1. \A s \in Seq(Y) :
          Under(dot, s) <=> Len(dot) <= Len(s) /\ \A i \in 1..Len(dot) : s[i] = dot[i]
    BY <1>3, UnderIs
  <2>2. \A s \in Seq(Y) : 1 <= Len(s) => (Under(dot, s) <=> s[1] = dot[1])
    BY <1>3, <2>1
  <2>3. 1 <= Len(d) /\ 1 <= Len(p)
    BY <1>4, <1>5
  <2> QED BY <1>3, <2>2, <2>3
<1> QED BY <1>2, <1>5, <1>6 DEF IsAbsolute

LEMMA RelativeUnder ==
  ASSUME NEW X, NEW q \in Seq(X)
  PROVE  ~IsAbsolute(<<".">> \o q)
<1>1. PICK Y : Y = X \cup {"."}
  OBVIOUS
<1>2. <<".">> \in Seq(Y) /\ q \in Seq(Y)
  BY <1>1, SeqMonotonic
<1> QED BY <1>2, UnderOwn DEF IsAbsolute

\* What each step that mounts rules has to mount.
OuterRules ==
  RuleMounts(ExpandedPaths, {p \in DOMAIN ExpandedPaths : ~InsideProject(p) /\ ~InsideHome(p)})
HomeRules ==
  RuleMounts(ExpandedPaths, {p \in DOMAIN ExpandedPaths : InsideHome(p) /\ ~InsideProject(p)})

LEMMA RuledFinite ==
  ASSUME PlanInputs
  PROVE  /\ IsFiniteSet(OuterRules) /\ \A m \in OuterRules : WellMade(m)
         /\ IsFiniteSet(HomeRules) /\ \A m \in HomeRules : WellMade(m)
         /\ IsFiniteSet(ProjectRules) /\ \A m \in ProjectRules : WellMade(m)
<1> DEFINE D == DOMAIN ExpandedPaths
           E == DOMAIN ExpandedPathsInDir
           A == {p \in D : InsideProject(p)}
           O == {p \in D : ~InsideProject(p) /\ ~InsideHome(p)}
           H == {p \in D : InsideHome(p) /\ ~InsideProject(p)}
           L == E \ A
<1>1. IsFiniteSet(D) /\ IsFiniteSet(E)
  BY ExpandedFinite
<1>2. /\ \A p \in D : ExpandedPaths[p] \in PathRule
      /\ \A p \in E : ExpandedPathsInDir[p] \in PathRule
  BY ExpandedRule
<1>3. A \subseteq D /\ O \subseteq D /\ H \subseteq D /\ L \subseteq E
  OBVIOUS
<1>4. /\ OuterRules = RuleMounts(ExpandedPaths, O) /\ HomeRules = RuleMounts(ExpandedPaths, H)
      /\ ProjectRules = RuleMounts(ExpandedPaths, A) \cup RuleMounts(ExpandedPathsInDir, L)
  BY DEF OuterRules, HomeRules, ProjectRules
<1> HIDE DEF D, E, A, O, H, L
<1>5. \A P : P \subseteq D => /\ IsFiniteSet(RuleMounts(ExpandedPaths, P))
                              /\ \A m \in RuleMounts(ExpandedPaths, P) : WellMade(m)
  BY <1>1, <1>2, RuleMountsFinite
<1>6. /\ IsFiniteSet(RuleMounts(ExpandedPathsInDir, L))
      /\ \A m \in RuleMounts(ExpandedPathsInDir, L) : WellMade(m)
  BY <1>1, <1>2, <1>3, RuleMountsFinite
<1>7. IsFiniteSet(RuleMounts(ExpandedPaths, A) \cup RuleMounts(ExpandedPathsInDir, L))
  BY <1>3, <1>5, <1>6, FS_Union
<1> QED BY <1>3, <1>4, <1>5, <1>6, <1>7

LEMMA EnvFinite == IsFiniteSet(EnvMounts) /\ \A m \in EnvMounts : WellMade(m)
<1> DEFINE F == IF option.hideEnv THEN FoundEnvFiles ELSE {}
           f == [p \in F |-> Mount(p, "null", "env")]
<1>1. F \in SUBSET EnvFiles
  BY DEF FoundEnvFiles
<1>2. IsFiniteSet(F)
  BY <1>1, FS_Subset, PlanAssumption
<1>3. EnvMounts = {Mount(p, "null", "env") : p \in F}
  BY DEF EnvMounts
<1>4. f \in [F -> EnvMounts] /\ \A t \in EnvMounts : \E s \in F : f[s] = t
  BY <1>3
<1>5. IsFiniteSet(EnvMounts)
  <2> HIDE DEF F, f
  <2> QED BY <1>2, <1>4, FiniteImage
<1>6. \A m \in EnvMounts : WellMade(m)
  <2> HIDE DEF F, f
  <2> QED BY <1>3 DEF WellMade, Mount, MountKinds, Callers
<1> QED BY <1>5, <1>6

LEMMA SetsKept ==
  ASSUME UNCHANGED inputs
  PROVE  /\ ExpandedPaths' = ExpandedPaths /\ ExpandedPathsInDir' = ExpandedPathsInDir
         /\ OuterRules' = OuterRules /\ HomeRules' = HomeRules /\ ProjectRules' = ProjectRules
         /\ EnvMounts' = EnvMounts /\ ToolMounts' = ToolMounts /\ ProxyEnv' = ProxyEnv
<1>1. project' = project /\ rules' = rules /\ tools' = tools /\ option' = option
  BY DEF inputs
<1>2. ExpandedPaths' = ExpandedPaths
  BY <1>1 DEF ExpandedPaths, Governing, Globs
<1>3. ExpandedPathsInDir' = ExpandedPathsInDir
  BY <1>1 DEF ExpandedPathsInDir, Governing, GlobsInProject
<1>4. OuterRules' = OuterRules
  BY <1>1, <1>2 DEF OuterRules, RuleMounts, InsideProject, InsideHome, Applies, HostPath
<1>5. HomeRules' = HomeRules
  BY <1>1, <1>2 DEF HomeRules, RuleMounts, InsideProject, InsideHome, Applies, HostPath
<1>6. ProjectRules' = ProjectRules
  BY <1>1, <1>2, <1>3 DEF ProjectRules, RuleMounts, InsideProject, InsideHome, Applies, HostPath
<1>7. EnvMounts' = EnvMounts
  BY <1>1 DEF EnvMounts, FoundEnvFiles, InsideProject
<1>8. UsedTools' = UsedTools
  BY <1>1 DEF UsedTools
<1>9. ToolMounts' = ToolMounts
  BY <1>1, <1>8 DEF ToolMounts, ToolMount, OwnBindings, Repo
<1>10. ProxyEnv' = ProxyEnv
  BY <1>1 DEF ProxyEnv, UserEnv
<1> QED BY <1>2, <1>3, <1>4, <1>5, <1>6, <1>7, <1>9, <1>10

LEMMA ToolsWellMade == \A m \in Range(ToolMounts) : WellMade(m)
<1>1. \A b : WellMade(ToolMount(b))
  BY DEF ToolMount, WellMade, Mount, MountKinds, Callers
<1> QED BY <1>1, ToolMountsListed

\* Batches written out.
LEMMA FewListed ==
  /\ IsList(<<>>) /\ ~\E m : m \in Range(<<>>)
  /\ \A a : IsList(<<a>>) /\ \A m : m \in Range(<<a>>) <=> m = a
<1>1. IsList(<<>>) /\ ~\E m : m \in Range(<<>>)
  <2>1. PICK s : s = <<>>
    OBVIOUS
  <2>2. PICK X : X = {}
    OBVIOUS
  <2>3. s \in Seq(X) /\ DOMAIN s = {}
    BY <2>1
  <2>4. IsList(s)
    BY <2>3, ListedOf
  <2>5. ~\E m : m \in Range(s)
    BY <2>3 DEF Range
  <2> QED BY <2>1, <2>4, <2>5
<1>2. ASSUME NEW a PROVE IsList(<<a>>) /\ \A m : m \in Range(<<a>>) <=> m = a
  <2>1. PICK s : s = <<a>>
    OBVIOUS
  <2>2. PICK X : X = {a}
    OBVIOUS
  <2>3. s \in Seq(X) /\ DOMAIN s = {1} /\ s[1] = a
    BY <2>1, <2>2
  <2>4. IsList(s)
    BY <2>3, ListedOf
  <2>5. \A m : m \in Range(s) <=> m = a
    BY <2>3 DEF Range
  <2> QED BY <2>1, <2>4, <2>5
<1> QED BY <1>1, <1>2

\* The steps that follow each of these.
Ended == {"ssh", "proxyCA", "environment", "built"}
AfterProject == {"tools"} \cup Ended
AfterHome == {"project"} \cup AfterProject
AfterCustom == {"home", "homeRules"} \cup AfterHome

\* A step mounts all it has to, or is the last: what is mounted stays to the end.
MountedSoFar ==
  /\ stage \in AfterCustom => \A m \in OuterRules : m \in Range(mounts)
  /\ stage \in AfterHome => \A m \in HomeRules : m \in Range(mounts)
  /\ stage \in AfterProject =>
       /\ \A m \in ProjectRules : m \in Range(mounts)
       /\ \A m \in EnvMounts : m \in Range(mounts)
  /\ stage \in Ended /\ ~setupError => \A m \in Range(ToolMounts) : m \in Range(mounts)
  /\ stage = "built" => env = ProxyEnv /\ ~setupError

\* What a sandbox is built from, but for its mounts and its environment.
PlanSettled ==
  /\ project \in ProjectDirs /\ rules \in RuleSets /\ tools \in ToolSets /\ option \in Options
  /\ stage \in Stages
  /\ panicked \in BOOLEAN /\ setupError \in BOOLEAN /\ agentWrapper \in BOOLEAN
  /\ panicked => stage = "refused"

EnvTyped ==
  DOMAIN env \subseteq CoreVars \cup ToolVars \cup ProxyVars \cup CAVars \cup
    {DefaultVar} \cup option.envVars \cup option.passthrough

PlanInv == PlanSettled /\ EnvTyped /\ MountsGood /\ MountedSoFar

LEMMA PlanTypes == ASSUME PlanInv PROVE PlanTypeOK
<1>1. \A i \in DOMAIN mounts : WellMade(mounts[i])
  BY ListedPlaces DEF PlanInv, MountsGood
<1> QED BY <1>1 DEF PlanInv, PlanSettled, EnvTyped, PlanTypeOK, WellMade

-----------------------------------------------------------------------------
(* The steps *)

LEMMA PlanStarts == PlanInit => PlanInv
<1> SUFFICES ASSUME PlanInit PROVE PlanInv
  OBVIOUS
<1>1. PlanSettled
  BY DEF PlanInit, PlanSettled, Stages
<1>2. EnvTyped
  BY DEF PlanInit, EnvTyped
<1>3. MountsGood
  <2>1. mounts = <<>> /\ DOMAIN mounts = {}
    BY DEF PlanInit
  <2>2. ~Shadows(mounts)
    BY <2>1 DEF Shadows
  <2> QED BY <2>1, <2>2, FewListed DEF MountsGood
<1>4. MountedSoFar
  BY DEF PlanInit, MountedSoFar, AfterCustom, AfterHome, AfterProject, Ended
<1> QED BY <1>1, <1>2, <1>3, <1>4 DEF PlanInv

\* A step that only mounts, at a place of the order: what it does besides its own batch.
LEMMA MountStep ==
  ASSUME PlanInv, stage # "refused", NEW batch, NEW next, next \in Stages, next # "built",
         IsList(batch), \A m \in Range(batch) : WellMade(m),
         Emit(batch, next), UNCHANGED <<inputs, agentWrapper, env>>,
         setupError' \in BOOLEAN
  PROVE  /\ PlanSettled' /\ EnvTyped' /\ MountsGood'
         /\ \A m : m \in Range(mounts) => m \in Range(mounts')
         /\ \/ stage' = "refused"
            \/ stage' = next /\ \A m : m \in Range(batch) => m \in Range(mounts')
<1>1. /\ MountsGood'
      /\ \A m : m \in Range(mounts) => m \in Range(mounts')
      /\ \/ panicked' = TRUE /\ stage' = "refused"
         \/ /\ stage' = next /\ panicked' = panicked
            /\ \A m : m \in Range(batch) => m \in Range(mounts')
  BY EmitKeeps DEF PlanInv
<1>2. project' = project /\ rules' = rules /\ tools' = tools /\ option' = option
      /\ agentWrapper' = agentWrapper /\ env' = env
  BY DEF inputs
<1>3. PlanSettled'
  <2>1. /\ project' \in ProjectDirs /\ rules' \in RuleSets /\ tools' \in ToolSets
        /\ option' \in Options /\ agentWrapper' \in BOOLEAN
    BY <1>2 DEF PlanInv, PlanSettled
  <2>2. stage' \in Stages
    BY <1>1 DEF Stages
  <2>3. panicked = FALSE
    BY DEF PlanInv, PlanSettled
  <2>4. panicked' \in BOOLEAN /\ (panicked' => stage' = "refused")
    BY <1>1, <2>3
  <2> QED BY <2>1, <2>2, <2>4 DEF PlanSettled
<1>4. EnvTyped'
  BY <1>2 DEF PlanInv, EnvTyped
<1> QED BY <1>1, <1>3, <1>4

\* A step that mounts nothing the invariant counts.
LEMMA OtherStep ==
  ASSUME PlanInv, NEW batch, NEW next, stage # "refused",
         next \in Stages, next # "built",
         IsList(batch), \A m \in Range(batch) : WellMade(m),
         Emit(batch, next), UNCHANGED <<inputs, setupError, agentWrapper, env>>,
         \/ next \notin AfterCustom
         \/ stage = "home" /\ next = "homeRules"
         \/ stage = "proxyCA" /\ next = "environment"
  PROVE  PlanInv'
<1>1. /\ PlanSettled' /\ EnvTyped' /\ MountsGood'
      /\ \A m : m \in Range(mounts) => m \in Range(mounts')
      /\ \/ stage' = "refused"
         \/ stage' = next /\ \A m : m \in Range(batch) => m \in Range(mounts')
  <2>1. setupError' \in BOOLEAN
    BY DEF PlanInv, PlanSettled
  <2>2. UNCHANGED <<inputs, agentWrapper, env>>
    OBVIOUS
  <2> QED BY <2>1, <2>2, MountStep
<1>2. /\ OuterRules' = OuterRules /\ HomeRules' = HomeRules /\ ProjectRules' = ProjectRules
      /\ EnvMounts' = EnvMounts /\ ToolMounts' = ToolMounts /\ ProxyEnv' = ProxyEnv
      /\ setupError' = setupError
  BY SetsKept
<1>3. MountedSoFar'
  BY <1>1, <1>2 DEF PlanInv, MountedSoFar, AfterCustom, AfterHome, AfterProject, Ended
<1> QED BY <1>1, <1>3 DEF PlanInv

LEMMA ListStep ==
  ASSUME PlanInv, NEW at \in {"system", "network", "locale", "ca"}, NEW next,
         next \in {"network", "locale", "ca", "custom"}, AddList(at, next)
  PROVE  PlanInv'
<1> DEFINE present == Sifted(SystemLists[at], Range(SystemLists[at]) \ Missing)
           batch == [i \in DOMAIN present |-> Mount(present[i], "readonly", "system")]
<1>1. IsList(present)
  <2>1. SystemLists[at] \in Seq(Path)
    BY PlanAssumption
  <2> QED BY <2>1, ListedOf, ListedSifted
<1>2. stage = at /\ Emit(batch, next) /\ UNCHANGED <<inputs, setupError, agentWrapper, env>>
  BY DEF AddList
<1> HIDE DEF present
<1>3. DOMAIN batch = DOMAIN present /\ batch = [i \in DOMAIN batch |-> batch[i]]
      /\ \A i \in DOMAIN present : batch[i] = Mount(present[i], "readonly", "system")
  OBVIOUS
<1> HIDE DEF batch
<1>4. IsList(batch) /\ \A x : x \in Range(batch) <=> \E i \in DOMAIN present : x = batch[i]
  BY <1>1, <1>3, ListedAlong
<1>5. \A m \in Range(batch) : WellMade(m)
  <2>1. \A p : WellMade(Mount(p, "readonly", "system"))
    BY DEF WellMade, Mount, MountKinds, Callers
  <2> QED BY <1>3, <1>4, <2>1
<1>6. next \in Stages /\ next # "built" /\ next \notin AfterCustom /\ stage # "refused"
  BY <1>2 DEF Stages, AfterCustom, AfterHome, AfterProject, Ended
<1> QED BY <1>2, <1>4, <1>5, <1>6, OtherStep

LEMMA CustomStep == ASSUME PlanInv, AddCustomMounts PROVE PlanInv'
<1>1. PICK batch \in ParentsFirst(OuterRules) : Emit(batch, "home")
  BY DEF AddCustomMounts, AddRules, OuterRules
<1>2. stage = "custom" /\ UNCHANGED <<inputs, setupError, agentWrapper, env>>
  BY DEF AddCustomMounts, AddRules
<1>3. PlanInputs
  BY DEF PlanInv, PlanSettled, PlanInputs
<1>4. IsList(batch) /\ Range(batch) = OuterRules /\ \A m \in Range(batch) : WellMade(m)
  BY <1>3, RuledFinite, BatchListed
<1>5. /\ PlanSettled' /\ EnvTyped' /\ MountsGood'
      /\ \/ stage' = "refused"
         \/ stage' = "home" /\ \A m : m \in Range(batch) => m \in Range(mounts')
  <2>1. setupError' \in BOOLEAN /\ "home" \in Stages
    BY <1>2 DEF PlanInv, PlanSettled, Stages
  <2> QED BY <1>1, <1>2, <1>4, <2>1, MountStep
<1>6. OuterRules' = OuterRules
  BY <1>2, SetsKept
<1>7. MountedSoFar'
  BY <1>4, <1>5, <1>6 DEF MountedSoFar, AfterCustom, AfterHome, AfterProject, Ended
<1> QED BY <1>5, <1>7 DEF PlanInv

LEMMA HomeStep == ASSUME PlanInv, AddSandboxHome PROVE PlanInv'
<1> DEFINE m == Mount(Home, "readwrite", "home")
<1>1. /\ stage = "home" /\ Emit(<<m>>, "homeRules")
      /\ UNCHANGED <<inputs, setupError, agentWrapper, env>>
  BY DEF AddSandboxHome
<1>2. WellMade(m)
  BY DEF WellMade, Mount, MountKinds, Callers
<1> HIDE DEF m
<1>3. IsList(<<m>>) /\ \A x \in Range(<<m>>) : WellMade(x)
  BY <1>2, FewListed
<1>4. "homeRules" \in Stages
  BY DEF Stages
<1> QED BY <1>1, <1>3, <1>4, OtherStep

LEMMA HomeRulesStep == ASSUME PlanInv, AddHomeCustomMounts PROVE PlanInv'
<1>1. PICK batch \in ParentsFirst(HomeRules) : Emit(batch, "project")
  BY DEF AddHomeCustomMounts, AddRules, HomeRules
<1>2. stage = "homeRules" /\ UNCHANGED <<inputs, setupError, agentWrapper, env>>
  BY DEF AddHomeCustomMounts, AddRules
<1>3. PlanInputs
  BY DEF PlanInv, PlanSettled, PlanInputs
<1>4. IsList(batch) /\ Range(batch) = HomeRules /\ \A m \in Range(batch) : WellMade(m)
  BY <1>3, RuledFinite, BatchListed
<1>5. /\ PlanSettled' /\ EnvTyped' /\ MountsGood'
      /\ \A m : m \in Range(mounts) => m \in Range(mounts')
      /\ \/ stage' = "refused"
         \/ stage' = "project" /\ \A m : m \in Range(batch) => m \in Range(mounts')
  <2>1. setupError' \in BOOLEAN /\ "project" \in Stages
    BY <1>2 DEF PlanInv, PlanSettled, Stages
  <2> QED BY <1>1, <1>2, <1>4, <2>1, MountStep
<1>6. OuterRules' = OuterRules /\ HomeRules' = HomeRules
  BY <1>2, SetsKept
<1>7. MountedSoFar'
  BY <1>2, <1>4, <1>5, <1>6
     DEF PlanInv, MountedSoFar, AfterCustom, AfterHome, AfterProject, Ended
<1> QED BY <1>5, <1>7 DEF PlanInv

LEMMA ProjectStep == ASSUME PlanInv, AddProjectBindings PROVE PlanInv'
<1> DEFINE first == Mount(project, "readwrite", "project")
           last == Mount(Runtime, "tmpfs", "runtime")
<1>1. PICK ruled \in ParentsFirst(ProjectRules), hidden \in ParentsFirst(EnvMounts) :
        Emit(<<first>> \o ConfigMounts \o ruled \o hidden \o <<last>>, "tools")
  BY DEF AddProjectBindings
<1>2. stage = "project" /\ UNCHANGED <<inputs, setupError, agentWrapper, env>>
  BY DEF AddProjectBindings
<1>3. PlanInputs
  BY DEF PlanInv, PlanSettled, PlanInputs
<1>4. WellMade(first) /\ WellMade(last)
  BY DEF WellMade, Mount, MountKinds, Callers
<1> HIDE DEF first, last
<1>5. IsList(ruled) /\ Range(ruled) = ProjectRules /\ \A m \in Range(ruled) : WellMade(m)
  BY <1>3, RuledFinite, BatchListed
<1>6. IsList(hidden) /\ Range(hidden) = EnvMounts /\ \A m \in Range(hidden) : WellMade(m)
  BY EnvFinite, BatchListed
<1>7. IsList(ConfigMounts) /\ \A m \in Range(ConfigMounts) : WellMade(m)
  <2>1. \A p : WellMade(Mount(p, "readonly", "config")) /\ WellMade(Mount(p, "null", "config"))
    BY DEF WellMade, Mount, MountKinds, Callers
  <2>2. ConfigMounts = <<>> \/ \E m : WellMade(m) /\ ConfigMounts = <<m>>
    BY <2>1 DEF ConfigMounts
  <2> QED BY <2>2, FewListed
<1>8. PICK batch : /\ batch = <<first>> \o ConfigMounts \o ruled \o hidden \o <<last>>
                   /\ IsList(batch) /\ \A m \in Range(batch) : WellMade(m)
                   /\ \A m \in ProjectRules : m \in Range(batch)
                   /\ \A m \in EnvMounts : m \in Range(batch)
  <2>1. PICK a : a = <<first>> \o ConfigMounts
    OBVIOUS
  <2>2. IsList(a) /\ \A m \in Range(a) : WellMade(m)
    BY <1>4, <1>7, <2>1, FewListed, ListedJoined
  <2>3. PICK b : b = a \o ruled
    OBVIOUS
  <2>4. /\ IsList(b) /\ \A m \in Range(b) : WellMade(m)
        /\ \A m \in ProjectRules : m \in Range(b)
    BY <1>5, <2>2, <2>3, ListedJoined
  <2>5. PICK c : c = b \o hidden
    OBVIOUS
  <2>6. /\ IsList(c) /\ \A m \in Range(c) : WellMade(m)
        /\ \A m \in ProjectRules : m \in Range(c)
        /\ \A m \in EnvMounts : m \in Range(c)
    BY <1>6, <2>4, <2>5, ListedJoined
  <2>7. PICK d : d = c \o <<last>>
    OBVIOUS
  <2>8. /\ IsList(d) /\ \A m \in Range(d) : WellMade(m)
        /\ \A m \in ProjectRules : m \in Range(d)
        /\ \A m \in EnvMounts : m \in Range(d)
    BY <1>4, <2>6, <2>7, FewListed, ListedJoined
  <2> QED BY <2>1, <2>3, <2>5, <2>7, <2>8
<1>9. /\ PlanSettled' /\ EnvTyped' /\ MountsGood'
      /\ \A m : m \in Range(mounts) => m \in Range(mounts')
      /\ \/ stage' = "refused"
         \/ stage' = "tools" /\ \A m : m \in Range(batch) => m \in Range(mounts')
  <2>1. setupError' \in BOOLEAN /\ "tools" \in Stages /\ Emit(batch, "tools")
    BY <1>1, <1>2, <1>8 DEF PlanInv, PlanSettled, Stages
  <2> QED BY <1>2, <1>8, <2>1, MountStep
<1>10. /\ OuterRules' = OuterRules /\ HomeRules' = HomeRules /\ ProjectRules' = ProjectRules
       /\ EnvMounts' = EnvMounts
  BY <1>2, SetsKept
<1>11. MountedSoFar'
  BY <1>2, <1>8, <1>9, <1>10
     DEF PlanInv, MountedSoFar, AfterCustom, AfterHome, AfterProject, Ended
<1> QED BY <1>9, <1>11 DEF PlanInv

LEMMA ToolsStep == ASSUME PlanInv, AddTools PROVE PlanInv'
<1>1. stage = "tools" /\ UNCHANGED <<inputs, agentWrapper, env>>
  BY DEF AddTools
<1>2. OuterRules' = OuterRules /\ HomeRules' = HomeRules /\ ProjectRules' = ProjectRules
      /\ EnvMounts' = EnvMounts /\ ToolMounts' = ToolMounts
  BY <1>1, SetsKept
<1>3. "ssh" \in Stages /\ "ssh" # "built"
  BY DEF Stages
<1>4. CASE Emit(ToolMounts, "ssh") /\ UNCHANGED setupError
  <2>1. /\ PlanSettled' /\ EnvTyped' /\ MountsGood'
        /\ \A m : m \in Range(mounts) => m \in Range(mounts')
        /\ \/ stage' = "refused"
           \/ stage' = "ssh" /\ \A m : m \in Range(ToolMounts) => m \in Range(mounts')
    <3>1. setupError' \in BOOLEAN
      BY <1>4 DEF PlanInv, PlanSettled
    <3> QED BY <1>1, <1>3, <1>4, <3>1, ToolMountsListed, ToolsWellMade, MountStep
  <2>2. MountedSoFar'
    BY <1>1, <1>2, <2>1
       DEF PlanInv, MountedSoFar, AfterCustom, AfterHome, AfterProject, Ended
  <2> QED BY <2>1, <2>2 DEF PlanInv
<1>5. CASE option.setupFails /\ setupError' = TRUE /\ Emit(<<>>, "ssh")
  <2>1. /\ PlanSettled' /\ EnvTyped' /\ MountsGood'
        /\ \A m : m \in Range(mounts) => m \in Range(mounts')
        /\ \/ stage' = "refused"
           \/ stage' = "ssh"
    <3>1. setupError' \in BOOLEAN
      BY <1>5
    <3> QED BY <1>1, <1>3, <1>5, <3>1, FewListed, MountStep
  <2>2. MountedSoFar'
    BY <1>1, <1>2, <1>5, <2>1
       DEF PlanInv, MountedSoFar, AfterCustom, AfterHome, AfterProject, Ended
  <2> QED BY <2>1, <2>2 DEF PlanInv
<1> QED BY <1>4, <1>5 DEF AddTools

LEMMA CAStep == ASSUME PlanInv, AddProxyCACertificate PROVE PlanInv'
<1> DEFINE batch == IF option.proxy THEN << Mount(CACertPath, "readonly", "ca") >> ELSE <<>>
<1>1. stage = "proxyCA" /\ Emit(batch, "environment")
      /\ UNCHANGED <<inputs, setupError, agentWrapper, env>>
  BY DEF AddProxyCACertificate
<1>2. WellMade(Mount(CACertPath, "readonly", "ca"))
  BY DEF WellMade, Mount, MountKinds, Callers
<1>3. batch = <<>> \/ \E m : WellMade(m) /\ batch = <<m>>
  BY <1>2
<1> HIDE DEF batch
<1>4. IsList(batch) /\ \A m \in Range(batch) : WellMade(m)
  BY <1>3, FewListed
<1>5. "environment" \in Stages
  BY DEF Stages
<1> QED BY <1>1, <1>4, <1>5, OtherStep

\* The steps that leave the mounts as they are.
LEMMA BaseAndAgentStep ==
  ASSUME PlanInv, AddBaseArgs \/ SuppressSSHAgent
  PROVE  PlanInv'
<1>1. /\ UNCHANGED <<inputs, mounts, panicked, setupError, env>> /\ agentWrapper' \in BOOLEAN
      /\ \/ stage = "base" /\ stage' = "system"
         \/ stage = "ssh" /\ stage' = "proxyCA"
  BY DEF AddBaseArgs, SuppressSSHAgent, PlanInv, PlanSettled
<1>2. /\ OuterRules' = OuterRules /\ HomeRules' = HomeRules /\ ProjectRules' = ProjectRules
      /\ EnvMounts' = EnvMounts /\ ToolMounts' = ToolMounts
  BY <1>1, SetsKept
<1>3. panicked = FALSE
  BY <1>1 DEF PlanInv, PlanSettled
<1>4. PlanSettled' /\ EnvTyped'
  BY <1>1, <1>3 DEF PlanInv, PlanSettled, EnvTyped, inputs, Stages
<1>5. MountsGood'
  BY <1>1 DEF PlanInv, MountsGood, IsList, Shadows
<1>6. MountedSoFar'
  BY <1>1, <1>2 DEF PlanInv, MountedSoFar, AfterCustom, AfterHome, AfterProject, Ended
<1> QED BY <1>4, <1>5, <1>6 DEF PlanInv

LEMMA EnvDomain ==
  DOMAIN ProxyEnv \subseteq CoreVars \cup ToolVars \cup ProxyVars \cup CAVars \cup
    {DefaultVar} \cup option.envVars \cup option.passthrough
<1>1. DOMAIN UserEnv \subseteq CoreVars \cup ToolVars \cup option.envVars \cup option.passthrough
  BY DEF UserEnv, Over, All
<1>2. \A f, g : DOMAIN Over(f, g) = DOMAIN f \cup DOMAIN g
  BY DEF Over
<1>3. \A S, v : DOMAIN All(S, v) = S
  BY DEF All
<1>4. CASE option.proxy
  <2>1. PICK CA : CA = IF option.mitm THEN CAVars ELSE {}
    OBVIOUS
  <2>2. ProxyEnv = Over(All(ProxyVars \cup CA, "proxy"),
                        Over(UserEnv, All({DefaultVar}, "proxy")))
    BY <1>4, <2>1 DEF ProxyEnv
  <2>3. DOMAIN ProxyEnv = (ProxyVars \cup CA) \cup (DOMAIN UserEnv \cup {DefaultVar})
    <3>1. PICK a : a = All(ProxyVars \cup CA, "proxy") /\ DOMAIN a = ProxyVars \cup CA
      BY <1>3
    <3>2. PICK b : b = All({DefaultVar}, "proxy") /\ DOMAIN b = {DefaultVar}
      BY <1>3
    <3>3. PICK c : c = Over(UserEnv, b) /\ DOMAIN c = DOMAIN UserEnv \cup {DefaultVar}
      BY <1>2, <3>2
    <3>4. ProxyEnv = Over(a, c)
      BY <2>2, <3>1, <3>2, <3>3
    <3>5. DOMAIN ProxyEnv = DOMAIN a \cup DOMAIN c
      BY <1>2, <3>4
    <3> QED BY <3>1, <3>3, <3>5
  <2> QED BY <1>1, <2>1, <2>3
<1> QED BY <1>1, <1>4 DEF ProxyEnv

LEMMA EnvironmentStep == ASSUME PlanInv, AddEnvironment PROVE PlanInv'
<1>1. /\ stage = "environment" /\ env' = ProxyEnv
      /\ stage' = IF setupError THEN "refused" ELSE "built"
      /\ UNCHANGED <<inputs, mounts, panicked, setupError, agentWrapper>>
  BY DEF AddEnvironment
<1>2. /\ OuterRules' = OuterRules /\ HomeRules' = HomeRules /\ ProjectRules' = ProjectRules
      /\ EnvMounts' = EnvMounts /\ ToolMounts' = ToolMounts /\ ProxyEnv' = ProxyEnv
  BY <1>1, SetsKept
<1>3. panicked = FALSE /\ setupError \in BOOLEAN
  BY <1>1 DEF PlanInv, PlanSettled
<1>4. PlanSettled'
  BY <1>1, <1>3 DEF PlanInv, PlanSettled, inputs, Stages
<1>5. EnvTyped'
  BY <1>1, EnvDomain DEF EnvTyped, inputs
<1>6. MountsGood'
  BY <1>1 DEF PlanInv, MountsGood, IsList, Shadows
<1>7. MountedSoFar'
  BY <1>1, <1>2, <1>3
     DEF PlanInv, MountedSoFar, AfterCustom, AfterHome, AfterProject, Ended
<1> QED BY <1>4, <1>5, <1>6, <1>7 DEF PlanInv

LEMMA AnyPlanStep == PlanInv /\ [PlanNext]_planVars => PlanInv'
<1> SUFFICES ASSUME PlanInv, [PlanNext]_planVars PROVE PlanInv'
  OBVIOUS
<1>1. CASE AddSystemBindings \/ AddNetworkBindings \/ AddLocaleBindings \/ AddCABindings
  BY <1>1, ListStep
     DEF AddSystemBindings, AddNetworkBindings, AddLocaleBindings, AddCABindings
<1>2. CASE AddBaseArgs \/ SuppressSSHAgent
  BY <1>2, BaseAndAgentStep
<1>3. CASE UNCHANGED planVars
  <2>1. UNCHANGED inputs /\ UNCHANGED <<stage, mounts, panicked, setupError, agentWrapper, env>>
    BY <1>3 DEF planVars, inputs
  <2>2. PlanSettled' /\ EnvTyped'
    BY <2>1 DEF PlanInv, PlanSettled, EnvTyped, inputs
  <2>3. MountsGood'
    BY <2>1 DEF PlanInv, MountsGood, IsList, Shadows
  <2>4. MountedSoFar'
    BY <2>1, SetsKept DEF PlanInv, MountedSoFar
  <2> QED BY <2>2, <2>3, <2>4 DEF PlanInv
<1> QED BY <1>1, <1>2, <1>3, CustomStep, HomeStep, HomeRulesStep, ProjectStep, ToolsStep,
           CAStep, EnvironmentStep DEF PlanNext

\* The induction: PlanInv holds of every state of the builder.
THEOREM PlanInvariance == PlanSpec => []PlanInv
BY PlanStarts, AnyPlanStep, PTL DEF PlanSpec

\* The builder is at a step of its own, and its mounts are of the kinds it knows
\* (builder.go, launch in bwrap.go).
THEOREM PlanTyped == PlanSpec => []PlanTypeOK
BY PlanInvariance, PlanTypes, PTL

\* The two ways a rule can be the one that governs a path.
Absolutely(s, p) == ~s.relative /\ p \in s.matches
Locally(s, p) == /\ s.relative /\ InsideProject(p)
                 /\ SubSeq(p, Len(project) + 1, Len(p)) \in s.matches

LEMMA GovernsEither ==
  ASSUME NEW r, NEW p, Governs(r, p)
  PROVE  \/ \E i \in DOMAIN rules : /\ rules[i] = r /\ Absolutely(r, p)
                                    /\ \A j \in 1..(i - 1) : ~Absolutely(rules[j], p)
         \/ /\ \E i \in DOMAIN rules : /\ rules[i] = r /\ Locally(r, p)
                                       /\ \A j \in 1..(i - 1) : ~Locally(rules[j], p)
            /\ \A i \in DOMAIN rules : ~Absolutely(rules[i], p)
BY DEF Governs, Absolutely, Locally

LEMMA AbsolutelyExpanded ==
  ASSUME PlanInputs, NEW i \in DOMAIN rules, NEW p, OnHost(p), Absolutely(rules[i], p),
         \A j \in 1..(i - 1) : ~Absolutely(rules[j], p)
  PROVE  p \in DOMAIN ExpandedPaths /\ ExpandedPaths[p] = rules[i]
<1>1. PICK h : h = Hits
  OBVIOUS
<1>2. DOMAIN h = DOMAIN rules /\ \A j \in DOMAIN rules : h[j] = {x \in Globs(rules[j]) : OnHost(x)}
  BY <1>1 DEF Hits
<1>3. p \in h[i]
  BY <1>2 DEF Globs, Absolutely
<1>4. ASSUME NEW j \in DOMAIN rules, j < i PROVE p \notin h[j]
  <2>1. j \in 1..(i - 1)
    BY <1>4, RulesAre
  <2>2. ~rules[j].relative => p \notin Globs(rules[j])
    BY <2>1 DEF Globs, Absolutely
  <2>3. IsAbsolute(p)
    BY RulesAre DEF Absolutely
  <2>4. \A x \in rules[j].matches : ~IsAbsolute(<<".">> \o x)
    BY RulesAre, RelativeUnder DEF Path
  <2>5. rules[j].relative => p \notin Globs(rules[j])
    BY <2>3, <2>4 DEF Globs
  <2> QED BY <1>2, <2>2, <2>5
<1>5. ExpandedPaths = Governing(h)
  BY <1>1 DEF ExpandedPaths, Hits
<1> QED BY <1>2, <1>3, <1>4, <1>5, GoverningFirst

LEMMA LocallyExpanded ==
  ASSUME PlanInputs, NEW i \in DOMAIN rules, NEW p \in Path, OnHost(p), Locally(rules[i], p),
         \A j \in 1..(i - 1) : ~Locally(rules[j], p),
         \A j \in DOMAIN rules : ~Absolutely(rules[j], p)
  PROVE  /\ p \in DOMAIN ExpandedPathsInDir /\ ExpandedPathsInDir[p] = rules[i]
         /\ p \notin DOMAIN ExpandedPaths
<1>n. PICK N : N = STRING
  OBVIOUS
<1>p. p \in Seq(N) /\ project \in Seq(N) /\ project # <<>> /\ IsAbsolute(project)
      /\ \A j \in DOMAIN rules : \A x \in rules[j].matches : x \in Seq(N)
  BY <1>n, RulesAre DEF Path
<1>1. PICK h : h = HitsInProject
  OBVIOUS
<1>2. /\ DOMAIN h = DOMAIN rules
      /\ \A j \in DOMAIN rules : h[j] = {x \in GlobsInProject(rules[j]) : OnHost(x)}
  BY <1>1 DEF HitsInProject
<1>3. p \in h[i]
  <2>1. p = project \o SubSeq(p, Len(project) + 1, Len(p))
    BY <1>p, UnderSplit DEF Locally, InsideProject
  <2> QED BY <1>2, <2>1 DEF GlobsInProject, Locally
<1>4. ASSUME NEW j \in DOMAIN rules, j < i PROVE p \notin h[j]
  <2>1. j \in 1..(i - 1)
    BY <1>4, RulesAre
  <2>2. SUFFICES ASSUME rules[j].relative, NEW x \in rules[j].matches, p = project \o x
                 PROVE  FALSE
    BY <1>2 DEF GlobsInProject
  <2>3. SubSeq(p, Len(project) + 1, Len(p)) = x /\ Under(project, p)
    BY <1>p, <2>2, UnderOwn
  <2> QED BY <2>1, <2>2, <2>3 DEF Locally, InsideProject
<1>5. ExpandedPathsInDir = Governing(h)
  BY <1>1 DEF ExpandedPathsInDir, HitsInProject
<1>6. p \notin DOMAIN ExpandedPaths
  <2>1. SUFFICES ASSUME NEW j \in DOMAIN rules, p \in Globs(rules[j]) PROVE FALSE
    BY DEF ExpandedPaths, Governing
  <2>2. IsAbsolute(p)
    BY <1>p, AbsoluteAll DEF Locally, InsideProject
  <2>3. \A x \in rules[j].matches : ~IsAbsolute(<<".">> \o x)
    BY <1>p, RelativeUnder
  <2> QED BY <2>1, <2>2, <2>3 DEF Globs, Absolutely
<1> QED BY <1>2, <1>3, <1>4, <1>5, <1>6, GoverningFirst

\* What a rule governs is in the set of one of the three steps.
LEMMA GovernedMounted ==
  ASSUME PlanInputs, NEW k \in DOMAIN rules, NEW p \in Path, OnHost(p),
         Governs(rules[k], p), Applies(p, rules[k])
  PROVE  LET m == RuleMount(p, rules[k])
         IN m \in OuterRules \/ m \in HomeRules \/ m \in ProjectRules
<1>1. CASE p \in DOMAIN ExpandedPaths /\ ExpandedPaths[p] = rules[k]
  BY <1>1 DEF OuterRules, HomeRules, ProjectRules, RuleMounts
<1>2. CASE /\ p \in DOMAIN ExpandedPathsInDir /\ ExpandedPathsInDir[p] = rules[k]
           /\ p \notin DOMAIN ExpandedPaths
  BY <1>2 DEF ProjectRules, RuleMounts
<1> QED BY <1>1, <1>2, GovernsEither, AbsolutelyExpanded, LocallyExpanded

LEMMA RulesHeld == ASSUME PlanInv PROVE RulesHold
<1> SUFFICES ASSUME stage = "built" PROVE RulesHold
  BY DEF RulesHold
<1>0. PlanInputs
  BY DEF PlanInv, PlanSettled, PlanInputs
<1>1. /\ \A m \in OuterRules : m \in Range(mounts)
      /\ \A m \in HomeRules : m \in Range(mounts)
      /\ \A m \in ProjectRules : m \in Range(mounts)
      /\ \A m \in EnvMounts : m \in Range(mounts)
  BY DEF PlanInv, MountedSoFar, AfterCustom, AfterHome, AfterProject, Ended
<1>2. ASSUME NEW m \in Range(mounts), m.by # "runtime"
      PROVE  \E i \in DOMAIN mounts : mounts[i] = m /\ SeenThrough(i, m.at)
  <2>1. PICK i \in DOMAIN mounts : mounts[i] = m
    BY ListedPlaces DEF PlanInv, MountsGood
  <2> QED BY <1>2, <2>1, SeenAtItsPlace DEF PlanInv
<1>3. ASSUME NEW k \in DOMAIN rules, NEW q \in rules[k].matches, NEW p,
             p = IF rules[k].relative THEN project \o q ELSE q,
             OnHost(p), Governs(rules[k], p), Applies(p, rules[k])
      PROVE  \E i \in DOMAIN mounts :
               mounts[i] = RuleMount(p, rules[k]) /\ SeenThrough(i, p)
  <2>1. p \in Path
    <3>1. PICK N : N = STRING
      OBVIOUS
    <3>2. q \in Seq(N) /\ project \in Seq(N)
      BY <1>0, <3>1, RulesAre DEF Path
    <3>3. project \o q \in Seq(N)
      BY <3>2
    <3> QED BY <1>3, <3>1, <3>2, <3>3 DEF Path
  <2>2. PICK m : m = RuleMount(p, rules[k])
    OBVIOUS
  <2>m. m.at = p /\ m.by # "runtime"
    BY <2>2 DEF RuleMount, Mount
  <2>3. m \in Range(mounts)
    BY <1>0, <1>1, <1>3, <2>1, <2>2, GovernedMounted
  <2> QED BY <1>2, <2>2, <2>3, <2>m
<1>4. ASSUME NEW m \in EnvMounts
      PROVE  \E i \in DOMAIN mounts : mounts[i] = m /\ SeenThrough(i, m.at)
  <2>1. m.by # "runtime"
    BY DEF EnvMounts, Mount
  <2> QED BY <1>1, <1>2, <2>1
<1>5. ASSUME NEW i \in DOMAIN mounts, mounts[i].by = "config"
      PROVE  SeenThrough(i, mounts[i].at)
  BY <1>5, SeenAtItsPlace DEF PlanInv
<1> QED BY <1>3, <1>4, <1>5 DEF RulesHold

LEMMA EnvironmentHeld == ASSUME PlanInv PROVE EnvironmentHolds
<1> SUFFICES ASSUME stage = "built" PROVE EnvironmentHolds
  BY DEF EnvironmentHolds
<1>1. env = ProxyEnv
  BY DEF PlanInv, MountedSoFar
<1>2. \A n \in option.envVars : n \in DOMAIN UserEnv /\ UserEnv[n] = "user"
  BY DEF UserEnv, Over, All
<1>3. CASE option.proxy
  <2>1. PICK CA : CA = IF option.mitm THEN CAVars ELSE {}
    OBVIOUS
  <2>c. CA \subseteq CAVars
    BY <2>1
  <2>2. PICK a : a = All(ProxyVars \cup CA, "proxy")
    OBVIOUS
  <2>3. PICK d : d = All({DefaultVar}, "proxy")
    OBVIOUS
  <2>4. PICK u : u = UserEnv
    OBVIOUS
  <2>5. PICK e : e = Over(u, d)
    OBVIOUS
  <2>6. env = Over(a, e)
    BY <1>1, <1>3, <2>1, <2>2, <2>3, <2>4, <2>5 DEF ProxyEnv
  <2>7. DOMAIN a = ProxyVars \cup CA /\ \A n \in ProxyVars \cup CA : a[n] = "proxy"
    BY <2>2 DEF All
  <2>8. \A n \in ProxyVars \cup CA : env[n] = "proxy"
    BY <2>6, <2>7 DEF Over
  <2>9. \A n \in option.envVars : n \in DOMAIN e /\ e[n] = "user"
    BY <1>2, <2>4, <2>5 DEF Over
  <2>10. \A n \in option.envVars : n \notin ProxyVars \cup CA => env[n] = "user"
    BY <2>6, <2>7, <2>9 DEF Over
  <2> QED BY <1>3, <2>c, <2>8, <2>10 DEF EnvironmentHolds
<1>4. CASE ~option.proxy
  BY <1>1, <1>2, <1>4 DEF EnvironmentHolds, ProxyEnv
<1> QED BY <1>3, <1>4

\* A sandbox that is built shows the workload what the rules, the .env files to be
\* hidden and the configuration ask for, whatever tools and rules there are: trackMount
\* and the order of AddCustomMounts, AddHomeCustomMounts and AddProjectBindings.
THEOREM PlannedAsConfigured == PlanSpec => []PlanAsConfigured
<1>1. PlanInv => PlanAsConfigured
  BY RulesHeld, EnvironmentHeld DEF PlanAsConfigured
<1> QED BY <1>1, PlanInvariance, PTL

LEMMA ResolvedAt ==
  ASSUME NEW b, DOMAIN b = Fields, NEW mode
  PROVE  ResolveType(b, mode).source = b.source
BY DEF Fields, ResolveType

\* The bindings of a container are those of bubblewrap, with their types.
LEMMA BoundByListed ==
  ASSUME NEW t
  PROVE  /\ IsList(BoundBy(t))
         /\ \A b \in Range(BoundBy(t)) :
              \E own \in Range(OwnBindings(t)) :
                OnHost(own.source) /\ b = ResolveType(own, option.mountMode)
<1> DEFINE own == IF t = "mise" THEN <<>> ELSE OwnBindings(t)
           typed == [i \in DOMAIN own |-> ResolveType(own[i], option.mountMode)]
<1>1. /\ IsList(own)
      /\ \A b \in Range(own) : b \in Range(OwnBindings(t)) /\ DOMAIN b = Fields
  BY OwnBinds, FewListed
<1>2. BoundBy(t) = Existing(typed)
  BY DEF BoundBy
<1> HIDE DEF own
<1>3. /\ DOMAIN typed = DOMAIN own /\ typed = [i \in DOMAIN typed |-> typed[i]]
      /\ \A i \in DOMAIN own : typed[i] = ResolveType(own[i], option.mountMode)
  OBVIOUS
<1> HIDE DEF typed
<1>4. IsList(typed) /\ \A x : x \in Range(typed) <=> \E i \in DOMAIN own : x = typed[i]
  BY <1>1, <1>3, ListedAlong
<1>5. /\ IsList(Existing(typed))
      /\ \A b : b \in Range(Existing(typed)) <=> b \in Range(typed) /\ OnHost(b.source)
  BY <1>4, ExistingBinds
<1>6. ASSUME NEW b \in Range(Existing(typed))
      PROVE  \E o \in Range(OwnBindings(t)) :
               OnHost(o.source) /\ b = ResolveType(o, option.mountMode)
  <2>1. PICK i \in DOMAIN own : b = ResolveType(own[i], option.mountMode)
    BY <1>3, <1>4, <1>5
  <2>2. own[i] \in Range(OwnBindings(t)) /\ DOMAIN own[i] = Fields
    BY <1>1, ListedPlaces
  <2>3. OnHost(own[i].source)
    BY <1>5, <2>1, <2>2, ResolvedAt
  <2> QED BY <2>1, <2>2, <2>3
<1> QED BY <1>2, <1>5, <1>6

LEMMA MiseListed ==
  IsList(MiseVolumes) /\ \A v \in Range(MiseVolumes) : v.ro
<1> DEFINE at == << ContainerHome \o <<".local", "bin">>, ContainerHome \o <<".config", "mise">>,
                    HostMise >>
           from == << Home \o <<".local", "bin">>, Home \o <<".config", "mise">>,
                      Home \o <<".local", "share", "mise", "installs">> >>
           all == [i \in 1..3 |-> Volume(from[i], at[i], TRUE, ReadOnly(from[i]))]
<1>1. MiseVolumes = Sifted(all, {v \in Range(all) : OnHost(v.source)})
  BY DEF MiseVolumes
<1> HIDE DEF at, from
<1>2. DOMAIN all = 1..3 /\ \A i \in 1..3 : all[i].ro
  BY DEF Volume
<1>3. all = [i \in 1..3 |-> all[i]]
  OBVIOUS
<1> HIDE DEF all
<1>4. PICK R : R = Range(all)
  OBVIOUS
<1>5. all \in [1..3 -> R]
  BY <1>2, <1>3, <1>4 DEF Range
<1>6. all \in Seq(R)
  BY <1>5, SeqDef
<1>7. IsList(all)
  BY <1>6, ListedOf
<1> QED BY <1>1, <1>2, <1>7, ListedSifted, ListedPlaces

\* What a container may write to through a volume, bubblewrap lets it write too.
LEMMA WritableBinding ==
  ASSUME NEW o, NEW b, b = ResolveType(o, option.mountMode), ~ToolVolume(b).ro
  PROVE  /\ ToolVolume(b).by = b /\ ToolMount(o).at = b.dest
         /\ ToolMount(o).kind = "readwrite"
<1>1. ToolVolume(b).by = b
  BY DEF ToolVolume, Volume
<1>2. ~IsCopied(b)
  BY DEF ToolVolume, Volume
<1>3. ToolVolume(b).ro = (b.type \in {"tmpoverlay", "overlay"} \/ b.ro)
  BY <1>2 DEF ToolVolume, Volume
<1>4. ToolMount(o).at = b.dest
  BY DEF ToolMount, Mount
<1>5. ToolMount(o).kind = "readwrite"
  BY <1>3 DEF ToolMount, Mount
<1> QED BY <1>1, <1>4, <1>5

LEMMA VolumesListed ==
  ASSUME NEW t
  PROVE  /\ IsList(VolumesOf(t))
         /\ \A v \in Range(VolumesOf(t)) :
              v.ro \/ \E b \in Range(BoundBy(t)) : v = ToolVolume(b)
<1> DEFINE mise == IF t = "mise" THEN MiseVolumes ELSE <<>>
           bound == BoundBy(t)
           own == [i \in DOMAIN bound |-> ToolVolume(bound[i])]
<1>1. VolumesOf(t) = mise \o own
  BY DEF VolumesOf
<1>2. IsList(mise) /\ \A v \in Range(mise) : v.ro
  BY MiseListed, FewListed
<1>3. IsList(bound)
  BY BoundByListed
<1> HIDE DEF mise, bound
<1>4. /\ DOMAIN own = DOMAIN bound /\ own = [i \in DOMAIN own |-> own[i]]
      /\ \A i \in DOMAIN bound : own[i] = ToolVolume(bound[i])
  OBVIOUS
<1> HIDE DEF own
<1>5. IsList(own) /\ \A v : v \in Range(own) <=> \E i \in DOMAIN bound : v = own[i]
  BY <1>3, <1>4, ListedAlong
<1>6. \A v \in Range(own) : \E b \in Range(bound) : v = ToolVolume(b)
  BY <1>3, <1>4, <1>5, ListedPlaces
<1>7. /\ IsList(mise \o own)
      /\ \A v : v \in Range(mise \o own) <=> v \in Range(mise) \/ v \in Range(own)
  BY <1>2, <1>5, ListedJoined
<1> QED BY <1>1, <1>2, <1>6, <1>7 DEF bound

LEMMA ToolVolumesListed ==
  /\ IsList(ToolVolumes)
  /\ \A v \in Range(ToolVolumes) :
       v.ro \/ \E t \in Range(UsedTools) : \E b \in Range(BoundBy(t)) : v = ToolVolume(b)
<1> DEFINE ss == [i \in DOMAIN UsedTools |-> VolumesOf(UsedTools[i])]
<1>1. /\ DOMAIN ss = DOMAIN UsedTools /\ ss = [i \in DOMAIN ss |-> ss[i]]
      /\ \A i \in DOMAIN ss : ss[i] = VolumesOf(UsedTools[i])
  OBVIOUS
<1>2. ToolVolumes = Flattened(ss)
  BY DEF ToolVolumes
<1> HIDE DEF ss
<1>3. IsList(ss)
  BY <1>1, UsedListed, ListedAlong
<1>4. /\ IsList(Flattened(ss))
      /\ \A v : v \in Range(Flattened(ss)) <=> \E i \in DOMAIN ss : v \in Range(ss[i])
  BY <1>1, <1>3, VolumesListed, ListedFlattened
<1>5. ASSUME NEW v \in Range(Flattened(ss))
      PROVE  v.ro \/ \E t \in Range(UsedTools) : \E b \in Range(BoundBy(t)) : v = ToolVolume(b)
  <2>1. PICK i \in DOMAIN UsedTools : v \in Range(VolumesOf(UsedTools[i]))
    BY <1>1, <1>4
  <2>2. UsedTools[i] \in Range(UsedTools)
    BY UsedListed, ListedPlaces
  <2> QED BY <2>1, <2>2, VolumesListed
<1> QED BY <1>2, <1>4, <1>5

LEMMA SameEnvironment == ContainerEnv = ProxyEnv
<1>1. CASE option.proxy
  <2>1. PICK CA : CA = IF option.mitm THEN CAVars ELSE {}
    OBVIOUS
  <2>2. PICK u : u = UserEnv
    OBVIOUS
  <2>3. DOMAIN u = option.envVars \cup option.passthrough \cup ToolVars \cup CoreVars
    BY <2>2 DEF UserEnv, Over, All
  <2>4. DefaultVar \in DOMAIN u <=> UserConfigured(DefaultVar)
    BY <2>3, DefaultAssumption DEF UserConfigured
  <2>5. PICK defaults : defaults = {n \in {DefaultVar} : ~UserConfigured(n)}
    OBVIOUS
  <2>6. ContainerEnv = Over(All(ProxyVars \cup defaults \cup CA, "proxy"), u)
    BY <1>1, <2>1, <2>2, <2>5 DEF ContainerEnv
  <2>7. ProxyEnv = Over(All(ProxyVars \cup CA, "proxy"), Over(u, All({DefaultVar}, "proxy")))
    BY <1>1, <2>1, <2>2 DEF ProxyEnv
  <2>8. \/ defaults = {} /\ DefaultVar \in DOMAIN u
        \/ defaults = {DefaultVar} /\ DefaultVar \notin DOMAIN u
    <3>1. CASE UserConfigured(DefaultVar)
      BY <2>4, <2>5, <3>1
    <3>2. CASE ~UserConfigured(DefaultVar)
      BY <2>4, <2>5, <3>2
    <3> QED BY <3>1, <3>2
  <2>9. Over(All(ProxyVars \cup defaults \cup CA, "proxy"), u)
        = Over(All(ProxyVars \cup CA, "proxy"), Over(u, All({DefaultVar}, "proxy")))
    BY <2>8 DEF Over, All
  <2> QED BY <2>6, <2>7, <2>9
<1>2. CASE ~option.proxy
  BY <1>2 DEF ContainerEnv, ProxyEnv
<1> QED BY <1>1, <1>2

\* Where bubblewrap can be asked for a sandbox, a container of the same configuration
\* writes through to nothing more (getToolBindings), and has the same environment
\* (buildCommonArgs).
THEOREM ContainerHeld == PlanSpec => []ContainerNoLooser
<1>1. ASSUME PlanInv PROVE ContainerNoLooser
  <2> SUFFICES ASSUME stage = "built" PROVE NotLooser(ToolVolumes) /\ ContainerEnv = env
    BY DEF ContainerNoLooser
  <2>1. /\ \A m \in Range(ToolMounts) : m \in Range(mounts)
        /\ env = ProxyEnv
    BY <1>1 DEF PlanInv, MountedSoFar, Ended
  <2>2. ASSUME NEW i \in DOMAIN ToolVolumes, ~ToolVolumes[i].ro
        PROVE  \E j \in DOMAIN mounts : /\ mounts[j].at = ToolVolumes[i].by.dest
                                        /\ mounts[j].kind = "readwrite"
    <3>1. ToolVolumes[i] \in Range(ToolVolumes)
      BY ToolVolumesListed, ListedPlaces
    <3>2. PICK t \in Range(UsedTools) : \E b \in Range(BoundBy(t)) : ToolVolumes[i] = ToolVolume(b)
      BY <2>2, <3>1, ToolVolumesListed
    <3>3. PICK b \in Range(BoundBy(t)) : ToolVolumes[i] = ToolVolume(b)
      BY <3>2
    <3>4. PICK o \in Range(OwnBindings(t)) :
            OnHost(o.source) /\ b = ResolveType(o, option.mountMode)
      BY BoundByListed
    <3>5. /\ ToolVolumes[i].by.dest = ToolMount(o).at /\ ToolMount(o).kind = "readwrite"
      BY <2>2, <3>3, <3>4, WritableBinding
    <3>6. ToolMount(o) \in Range(mounts)
      BY <2>1, <3>4, ToolMountsListed
    <3>7. PICK j \in DOMAIN mounts : mounts[j] = ToolMount(o)
      BY <1>1, <3>6, ListedPlaces DEF PlanInv, MountsGood
    <3> QED BY <3>5, <3>7
  <2> QED BY <2>1, <2>2, SameEnvironment DEF NotLooser
<1> QED BY <1>1, PlanInvariance, PTL
=============================================================================
