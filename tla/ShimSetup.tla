------------------------------- MODULE ShimSetup -------------------------------
(***************************************************************************)
(* What a container's entrypoint does before it becomes the workload       *)
(* (cmd/devsandbox-shim): the mise installs of the image and of the host   *)
(* are mirrored into the sandbox home, the shims remade, and directories   *)
(* the host shares by copy are cleared and copied afresh.  The home        *)
(* outlives the container and the workload writes to it, so each boot      *)
(* finds what an earlier one, cut short perhaps, or the workload left.     *)
(***************************************************************************)
EXTENDS Integers, Sequences, FiniteSets

CONSTANTS
  HomePaths,       \* paths of the sandbox home: sequences of names, closed under prefix
  XdgDirs,         \* those setupDirectories creates
  Overlays,        \* the manifest: a sequence of paths
  Shared,          \* HomePath -> what the host has there: none, dir, host, link, socket
  MountSets,       \* the choices for the bindings that lie below an overlay
  Ships,           \* source of installs -> tool version -> what it has in it
  Dangling,        \* source -> what does not resolve in the guest
  HostMises,       \* what may be mounted as the host's mise: absent, broken or a version
  GuestSteps,      \* how often the workload writes, and the host changes: a bound
  Boots            \* how often the container is started: a bound

Below(p) == {q \in HomePaths : Len(q) > Len(p) /\ SubSeq(q, 1, Len(p)) = p}
Above(p) == {SubSeq(p, 1, n) : n \in 1..(Len(p) - 1)}

\* The paths are a tree, and what the host shares at them is one; a copy is taken of a
\* directory, and never inside what is mounted.
ASSUME HomeAssumption ==
  /\ HomePaths \subseteq Seq(STRING) \ {<<>>}
  /\ \A p \in HomePaths : Above(p) \subseteq HomePaths
  /\ XdgDirs \subseteq HomePaths /\ \A p \in XdgDirs : Above(p) \subseteq XdgDirs
  /\ Shared \in [HomePaths -> {"none", "dir", "host", "link", "socket"}]
  /\ \A p \in HomePaths : Shared[p] # "none" => \A q \in Above(p) : Shared[q] = "dir"
  /\ Overlays \in Seq(HomePaths) /\ \A n \in 1..Len(Overlays) : Shared[Overlays[n]] = "dir"
  /\ MountSets \subseteq SUBSET HomePaths
  /\ \A choice \in MountSets : \A m \in choice, n \in 1..Len(Overlays) :
       Overlays[n] \notin {m} \cup Below(m)

\* The image and the host ship versions of the same tools; no mise calls itself nothing.
ASSUME MiseAssumption ==
  /\ DOMAIN Ships = {"baked", "host"} /\ DOMAIN Ships["host"] = DOMAIN Ships["baked"]
  /\ "" \notin HostMises

\* No entry is below one that a later entry clears: what ContainerMounts checks of the
\* manifests the isolator writes (CopiesDescend).
ASSUME OverlayOrder ==
  \A m, n \in 1..Len(Overlays) :
    m < n => ~ (/\ Len(Overlays[m]) > Len(Overlays[n])
                /\ SubSeq(Overlays[m], 1, Len(Overlays[n])) = Overlays[n])

MiseSources == <<"baked", "host">>
ToolVersions == DOMAIN Ships["baked"]
ImageMise == "image"

VARIABLES
  home,            \* HomePath -> none, dir, file (the workload's), host (a copy), link
  mounts,          \* bindings below an overlay
  installs,        \* version -> what lies in the sandbox home for it
  shims,           \* versions with a shim, and the mise that made them
  madeBy,          \* .devsandbox-mise-version: the mise of the last reshim
  hostMise,        \* the mise of the host
  miseLinked,      \* /usr/local/bin/mise has become a link to the host's
  shimAt,          \* where the shim is: off, a step of main, or running, the workload
  entry,           \* the overlay it is at
  pending,         \* versions it has not looked at yet
  seeded,          \* links were made in this boot
  miseVer,         \* what mise --version said
  boots, writes,   \* counted against the bounds
  own,             \* versions the workload has installed
  partial,         \* some boot, or link, or reshim failed, or was cut short
  strayed,         \* something outside the home was written or removed
  skipped,         \* overlays this boot left out
  untouched        \* the workload has not written since it was started

shimVars == <<home, mounts, installs, shims, madeBy, hostMise, miseLinked, shimAt, entry,
              pending, seeded, miseVer, boots, writes, own, partial, strayed, skipped,
              untouched>>
treeVars == <<home, mounts, strayed>>
miseVars == <<installs, shims, madeBy, own, partial>>
bootVars == <<entry, pending, seeded, miseVer, skipped>>
guestVars == <<boots, writes, untouched>>

\* A mount stays, and so does every directory on the way to it.
Keeps(p) == \E m \in mounts : p = m \/ m \in Below(p) \/ p \in Below(m)

Nothing == [shape |-> "none", of |-> "", has |-> {}]
Install(shape, source, has) == [shape |-> shape, of |-> source, has |-> has]
ShimPhases == {"off", "gate", "mise", "dirs", "baked", "host", "version", "reshim", "mark",
               "manifest", "clean", "copy", "exec", "running"}

ShimTypeOK ==
  /\ home \in [HomePaths -> {"none", "dir", "file", "host", "link"}]
  /\ \A p \in HomePaths : home[p] # "none" => \A q \in Above(p) : home[q] = "dir"
  /\ \A m \in mounts : home[m] = "dir"
  /\ \A v \in ToolVersions : installs[v].shape \in {"none", "own", "link", "seed"}
  /\ shims.of \subseteq ToolVersions /\ shims.by \in HostMises \cup {ImageMise}
  /\ shimAt \in ShimPhases /\ entry \in 1..(Len(Overlays) + 1)
  /\ pending \subseteq ToolVersions /\ own \subseteq ToolVersions

\* The isolator has made the home and the mount points; an earlier devsandbox may have
\* left links for whole versions.
ShimInit ==
  /\ mounts \in MountSets
  /\ home = [p \in HomePaths |-> IF Keeps(p) \/ p \in XdgDirs THEN "dir" ELSE "none"]
  /\ installs \in [ToolVersions -> {Nothing, Install("link", "host", {})}]
  /\ shims = [of |-> {}, by |-> ImageMise] /\ madeBy = ""
  /\ hostMise \in HostMises /\ miseLinked = FALSE
  /\ shimAt = "off" /\ entry = 1 /\ pending = {} /\ seeded = FALSE /\ miseVer = ""
  /\ boots = 0 /\ writes = 0 /\ own = {} /\ partial = FALSE /\ strayed = FALSE
  /\ skipped = {} /\ untouched = FALSE

-----------------------------------------------------------------------------
(* A boot *)

\* The container is started, anew or again.
StartShim ==
  /\ shimAt = "off" /\ boots < Boots
  /\ shimAt' = "gate" /\ boots' = boots + 1
  /\ miseLinked' \in {miseLinked, FALSE}
  /\ entry' = 1 /\ pending' = {} /\ seeded' = FALSE /\ miseVer' = "" /\ skipped' = {}
  /\ untouched' = TRUE
  /\ UNCHANGED <<treeVars, miseVars, hostMise, writes>>

\* waitForEgressReady: the host says that egress is locked; otherwise the shim ends.
EgressConfirmed ==
  /\ shimAt = "gate" /\ shimAt' = "mise"
  /\ UNCHANGED <<treeVars, miseVars, hostMise, miseLinked, bootVars, guestVars>>

Works(mise) == mise \notin {"absent", "broken"}

\* preferHostMise: a link beside it, renamed over the image's.
PreferHostMise ==
  /\ shimAt = "mise" /\ shimAt' = "dirs"
  /\ miseLinked' \in (IF Works(hostMise) THEN {TRUE, miseLinked} ELSE {miseLinked})
  /\ UNCHANGED <<treeVars, miseVars, hostMise, bootVars, guestVars>>

\* MkdirAll, which follows links and cannot pass a file.
SetupDirectories ==
  /\ shimAt = "dirs" /\ shimAt' = "baked"
  /\ home' = [p \in HomePaths |->
                IF /\ p \in XdgDirs /\ home[p] = "none"
                   /\ \A q \in Above(p) : home[q] \in {"none", "dir"}
                THEN "dir" ELSE home[p]]
  /\ pending' = ToolVersions
  /\ UNCHANGED <<mounts, strayed, miseVars, hostMise, miseLinked, entry, seeded, miseVer,
                 skipped, guestVars>>

\* Only what is not there, and the whole-version link of this very source.
MaySeed(source, v) ==
  installs[v].shape = "none" \/ installs[v] = Install("link", source, {})

\* seedSymlink: what resolves.
Wanted(source, v) == Ships[source][v] \ Dangling[source]

\* One version of one source; links that cannot be made are reported and left out.
SeedVersion(source) ==
  /\ shimAt = source
  /\ \E v \in pending :
       /\ pending' = pending \ {v}
       /\ IF Ships[source][v] # {} /\ MaySeed(source, v)
          THEN \E got \in SUBSET Wanted(source, v) :
                 /\ installs' = [installs EXCEPT ![v] = Install("seed", source, got)]
                 /\ seeded' = (seeded \/ got # {})
                 /\ partial' = (partial \/ got # Wanted(source, v))
          ELSE UNCHANGED <<installs, seeded, partial>>
  /\ UNCHANGED <<treeVars, shims, madeBy, own, hostMise, miseLinked, shimAt, entry,
                 miseVer, skipped, guestVars>>

SeedOver(source) ==
  /\ shimAt = source /\ pending = {}
  /\ IF source = "baked" THEN shimAt' = "host" /\ pending' = ToolVersions
     ELSE shimAt' = "version" /\ UNCHANGED pending
  /\ UNCHANGED <<treeVars, miseVars, hostMise, miseLinked, entry, seeded, miseVer,
                 skipped, guestVars>>

CurrentMise == IF miseLinked THEN hostMise ELSE ImageMise

\* miseVersion: what it says, or nothing.  A failure is reported.
MiseVersion ==
  /\ shimAt = "version" /\ shimAt' = "reshim"
  /\ \/ Works(CurrentMise) /\ miseVer' = CurrentMise /\ UNCHANGED partial
     \/ miseVer' = "" /\ partial' = TRUE
  /\ UNCHANGED <<treeVars, installs, shims, madeBy, own, hostMise, miseLinked, entry,
                 pending, seeded, skipped, guestVars>>

\* A new mise may make other shims of the same installs.
MustReshim == seeded \/ (miseVer # "" /\ miseVer # madeBy)

\* mise reshim, best-effort.
Reshim ==
  /\ shimAt = "reshim"
  /\ IF MustReshim
     THEN /\ shimAt' = "mark"
          /\ \/ /\ Works(CurrentMise) /\ UNCHANGED partial
                /\ shims' = [of |-> {v \in ToolVersions : installs[v].shape # "none"},
                             by |-> CurrentMise]
             \/ partial' = TRUE /\ UNCHANGED shims
     ELSE shimAt' = "manifest" /\ UNCHANGED <<shims, partial>>
  /\ UNCHANGED <<treeVars, installs, madeBy, own, hostMise, miseLinked, bootVars,
                 guestVars>>

WriteMarker ==
  /\ shimAt = "mark" /\ shimAt' = "manifest"
  /\ \/ miseVer = "" /\ UNCHANGED <<madeBy, partial>>
     \/ miseVer # "" /\ madeBy' = miseVer /\ UNCHANGED partial
     \/ miseVer # "" /\ partial' = TRUE /\ UNCHANGED madeBy
  /\ UNCHANGED <<treeVars, installs, shims, own, hostMise, miseLinked, bootVars,
                 guestVars>>

\* loadOverlayManifest leaves out what is no directory; links are followed to see.
LoadManifest ==
  /\ shimAt = "manifest" /\ shimAt' = "clean"
  /\ \E out \in SUBSET {Overlays[n] : n \in 1..Len(Overlays)} :
       /\ \A n \in 1..Len(Overlays) :
            LET p == Overlays[n]
            IN IF \E q \in Above(p) \cup {p} : home[q] = "link" THEN TRUE
               ELSE p \in out <=> home[p] # "dir"
       /\ skipped' = out
  /\ UNCHANGED <<treeVars, miseVars, hostMise, miseLinked, entry, pending, seeded, miseVer,
                 guestVars>>

-----------------------------------------------------------------------------
(* Directories shared by copy *)

\* ensureRealDirPath: from the home down, what is no directory is removed, not
\* followed, and made one; what is missing is left missing.
RealDirPath(p) ==
  [q \in HomePaths |-> IF q \in Above(p) \cup {p} /\ home[q] # "none" THEN "dir" ELSE home[q]]

\* A path that leads out of the home.
Astray(tree, p) == \E q \in Above(p) : tree[q] = "link"

\* cleanOverlayTree, as far as it came.
Removed(tree, gone) == [p \in HomePaths |-> IF p \in gone THEN "none" ELSE tree[p]]
Stale(tree, target) == {p \in Below(target) : tree[p] # "none" /\ ~Keeps(p)}

\* copyDirExcluding, as far as it came: links as links, and neither sockets nor what
\* belongs to a mount.
Belongs(target) ==
  {p \in Below(target) : /\ Shared[p] \notin {"none", "socket"}
                         /\ ~ \E m \in mounts : p = m \/ p \in Below(m)}
\* Mutant: a link is copied as what it leads to.
Made_FollowsLinks(tree, target, got) ==
  [p \in HomePaths |-> IF p \in got THEN IF Shared[p] = "link" THEN "host" ELSE Shared[p]
                       ELSE IF p \in Above(target) \cup {target} THEN "dir" ELSE tree[p]]
Made(tree, target, got) ==
  [p \in HomePaths |-> IF p \in got THEN Shared[p]
                       ELSE IF p \in Above(target) \cup {target} THEN "dir" ELSE tree[p]]

AtOverlay(step) == shimAt = step /\ entry <= Len(Overlays)
Target == Overlays[entry]

CleanTarget(gone) ==
  LET tree == RealDirPath(Target)
  IN IF Astray(tree, Target) THEN strayed' = TRUE /\ home' = tree
     ELSE home' = Removed(tree, gone) /\ UNCHANGED strayed

CopyTarget(got) ==
  LET tree == RealDirPath(Target)
  IN IF Astray(tree, Target) THEN strayed' = TRUE /\ home' = tree
     ELSE home' = Made(tree, Target, got) /\ UNCHANGED strayed

CleanOverlay ==
  /\ AtOverlay("clean") /\ Target \notin skipped
  /\ CleanTarget(Stale(RealDirPath(Target), Target)) /\ shimAt' = "copy"
  /\ UNCHANGED <<mounts, miseVars, hostMise, miseLinked, bootVars, guestVars>>

\* A directory that is kept is merged into, and cannot be replaced: the error is fatal,
\* see CutShort.
Fits(p) == Keeps(p) => Shared[p] = "dir"

CopyOverlay ==
  /\ AtOverlay("copy") /\ \A p \in Belongs(Target) : Fits(p)
  /\ CopyTarget(Belongs(Target)) /\ shimAt' = "clean" /\ entry' = entry + 1
  /\ UNCHANGED <<mounts, miseVars, hostMise, miseLinked, pending, seeded, miseVer, skipped,
                 guestVars>>

LeaveOut ==
  /\ AtOverlay("clean") /\ Target \in skipped /\ entry' = entry + 1
  /\ UNCHANGED <<treeVars, miseVars, hostMise, miseLinked, shimAt, pending, seeded, miseVer,
                 skipped, guestVars>>

\* dropPrivsAndExec
ExecWorkload ==
  /\ shimAt = "clean" /\ entry > Len(Overlays) /\ shimAt' = "running"
  /\ UNCHANGED <<treeVars, miseVars, hostMise, miseLinked, bootVars, guestVars>>

-----------------------------------------------------------------------------
(* What cuts a boot short, and what goes on between two *)

\* The container is killed, or an error is fatal, somewhere on the way.
CutShort ==
  /\ shimAt \notin {"off", "running"} /\ shimAt' = "off"
  /\ partial' = TRUE
  /\ \/ UNCHANGED <<home, strayed>>
     \/ /\ AtOverlay("clean") /\ Target \notin skipped
        /\ \E gone \in SUBSET Stale(RealDirPath(Target), Target) :
             /\ \A p \in gone : Below(p) \cap Stale(RealDirPath(Target), Target) \subseteq gone
             /\ CleanTarget(gone)
     \/ /\ AtOverlay("copy")
        /\ \E got \in SUBSET {p \in Belongs(Target) : Fits(p)} :
             /\ \A p \in got : Above(p) \cap Below(Target) \subseteq got
             /\ CopyTarget(got)
  /\ UNCHANGED <<mounts, installs, shims, madeBy, own, hostMise, miseLinked, bootVars,
                 guestVars>>

GuestStep == shimAt = "running" /\ writes < GuestSteps /\ writes' = writes + 1 /\ untouched' = FALSE

\* The workload makes, replaces or removes something in the home.
WorkloadWrites ==
  /\ GuestStep
  /\ \E p \in HomePaths, kind \in {"none", "dir", "file", "link"} :
       /\ ~Keeps(p) /\ home[p] # kind /\ \A q \in Above(p) : home[q] = "dir"
       /\ home' = [q \in HomePaths |-> IF q = p THEN kind
                                      ELSE IF q \in Below(p) THEN "none" ELSE home[q]]
  /\ UNCHANGED <<mounts, strayed, miseVars, hostMise, miseLinked, shimAt, bootVars, boots>>

\* It installs a version, or removes one; mise sees to the shims.
WorkloadInstalls ==
  /\ GuestStep
  /\ \E v \in ToolVersions :
       \/ /\ installs' = [installs EXCEPT ![v] = Install("own", "", {})]
          /\ own' = own \cup {v} /\ shims' = [shims EXCEPT !.of = @ \cup {v}]
       \/ /\ installs' = [installs EXCEPT ![v] = Nothing]
          /\ own' = own \ {v} /\ shims' = [shims EXCEPT !.of = @ \ {v}]
  /\ UNCHANGED <<treeVars, madeBy, partial, hostMise, miseLinked, shimAt, bootVars, boots>>

WorkloadStops ==
  /\ shimAt = "running" /\ shimAt' = "off"
  /\ UNCHANGED <<treeVars, miseVars, hostMise, miseLinked, bootVars, guestVars>>

\* The host gets another mise.
HostUpgrades ==
  /\ shimAt = "off" /\ writes < GuestSteps /\ writes' = writes + 1
  /\ hostMise' \in HostMises \ {hostMise}
  /\ UNCHANGED <<treeVars, miseVars, miseLinked, shimAt, bootVars, boots, untouched>>

ShimNext ==
  \/ StartShim \/ EgressConfirmed \/ PreferHostMise \/ SetupDirectories
  \/ \E n \in 1..2 : SeedVersion(MiseSources[n]) \/ SeedOver(MiseSources[n])
  \/ MiseVersion \/ Reshim \/ WriteMarker \/ LoadManifest
  \/ CleanOverlay \/ CopyOverlay \/ LeaveOut \/ ExecWorkload
  \/ CutShort \/ WorkloadWrites \/ WorkloadInstalls \/ WorkloadStops \/ HostUpgrades

ShimSpec == ShimInit /\ [][ShimNext]_shimVars

-----------------------------------------------------------------------------
(* Properties *)

\* The shim removes and writes nothing a link leads to, and never touches a version the
\* workload installed.  When the workload starts, a directory shared by copy holds what
\* the host has there and nothing of what an earlier workload, or a boot cut short,
\* left; and unless a boot was cut short or reported a failure, each version the image
\* or the host ships is there, whole, and has a shim made by the mise in use, if any of
\* it resolves here.
BootAsPromised ==
  /\ ~strayed
  /\ \A v \in own : installs[v].shape = "own"
  /\ shimAt = "running" /\ untouched =>
       /\ \A n \in 1..Len(Overlays) : Overlays[n] \notin skipped =>
            \A p \in Below(Overlays[n]) :
              home[p] = IF p \in Belongs(Overlays[n]) THEN Shared[p]
                        ELSE IF Keeps(p) THEN "dir" ELSE "none"
       /\ partial \/
            /\ shims.by = CurrentMise
            /\ \A v \in ToolVersions :
                 /\ installs[v].shape = "none" => \A s \in DOMAIN Ships : Ships[s][v] = {}
                 /\ installs[v].shape = "seed" =>
                      /\ installs[v].has = Wanted(installs[v].of, v)
                      /\ installs[v].has # {} => v \in shims.of
=============================================================================
