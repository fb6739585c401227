---------------------------- MODULE ContainerMounts ----------------------------
(***************************************************************************)
(* What the docker and krun backends make of the same inputs               *)
(* (DockerIsolator.getToolBindings and buildCommonArgs): the volumes of    *)
(* the container, the manifest of the directories its shim is to copy, and *)
(* the variables.  The engine mounts volumes by the depth of their         *)
(* destination, and refuses two at one; the shim copies in the manifest's  *)
(* order.  Mount rules and the project's configuration visibility have no  *)
(* part in it.                                                             *)
(***************************************************************************)
EXTENDS MountPlan

CONSTANTS
  ContainerHome,   \* /home/sandboxuser, where the sandbox home is
  HostMise,        \* where the shim finds the host's installs of mise
  ShadowDir,       \* the directory of the sources of copies
  CacheVolume, CacheDir,         \* the volume for the tools' caches, and its place
  Manifest, ManifestPath,        \* the manifest on the host, and in the container
  CACert, ContainerCA            \* the proxy's certificate, and its place

\* The variable with a default is one that neither the builder nor a tool sets.
ASSUME DefaultAssumption == DefaultVar \notin CoreVars \cup ToolVars

Volume(source, at, ro, by) == [source |-> source, at |-> at, ro |-> ro, by |-> by]

\* remapHomePrefix
Rehomed(p) ==
  IF Under(Home, p) THEN ContainerHome \o SubSeq(p, Len(Home) + 1, Len(p)) ELSE p

\* remapToContainerHome: the project is where it is on the host.
Remapped(p) == IF InsideProject(p) /\ p # project THEN p ELSE Rehomed(p)

Destination(b) ==
  CASE b.to = "source" -> Remapped(b.source)
    [] b.to = "home" -> Rehomed(b.dest)
    [] OTHER -> b.dest

\* Mutant: by the name alone.
Shadow_ByName(p) == <<ShadowDir, p[Len(p)]>>
\* copyOverlayShadowPath: by a hash of the destination.
Shadow(p) == <<ShadowDir, p>>

IsCopied(b) == b.type = "tmpoverlay" /\ IsDir(b.source)

\* Mutant: a file that was to be a discarded overlay is bound as it is.
ToolVolume_FileWritable(b) ==
  IF IsCopied(b) THEN Volume(b.source, Shadow(Destination(b)), TRUE, b)
  ELSE Volume(b.source, Destination(b), b.type = "overlay" \/ b.ro, b)
\* A directory with discarded writes is bound out of the way, for the shim to copy;
\* every other overlay is a read-only volume.
ToolVolume(b) ==
  IF IsCopied(b) THEN Volume(b.source, Shadow(Destination(b)), TRUE, b)
  ELSE Volume(b.source, Destination(b), b.type \in {"tmpoverlay", "overlay"} \/ b.ro, b)

\* Mise.DockerBindings: its own state stays the guest's.
MiseVolumes ==
  LET at == << ContainerHome \o <<".local", "bin">>, ContainerHome \o <<".config", "mise">>,
               HostMise >>
      from == << Home \o <<".local", "bin">>, Home \o <<".config", "mise">>,
                 Home \o <<".local", "share", "mise", "installs">> >>
      all == [i \in 1..3 |-> Volume(from[i], at[i], TRUE, ReadOnly(from[i]))]
  IN Sifted(all, {v \in Range(all) : OnHost(v.source)})

\* The bindings of a tool with their types: none for mise, which has volumes instead.
BoundBy(t) ==
  LET own == IF t = "mise" THEN <<>> ELSE OwnBindings(t)
  IN Existing([i \in DOMAIN own |-> ResolveType(own[i], option.mountMode)])

VolumesOf(t) ==
  LET bound == BoundBy(t)
  IN (IF t = "mise" THEN MiseVolumes ELSE <<>>) \o [i \in DOMAIN bound |-> ToolVolume(bound[i])]

ToolVolumes == Flattened([i \in DOMAIN UsedTools |-> VolumesOf(UsedTools[i])])

\* The manifest: where the shim copies to.
CopyTargets ==
  LET bound == Flattened([i \in DOMAIN UsedTools |-> BoundBy(UsedTools[i])])
      copied == Sifted(bound, {b \in Range(bound) : IsCopied(b)})
  IN [i \in DOMAIN copied |-> Destination(copied[i])]

NoBinding == ReadOnly(<<>>)
OwnVolume(source, at, ro) == Volume(source, at, ro, NoBinding)

\* buildCommonArgs, its -v arguments, as a set and the tools' as a sequence.
CommonVolumes ==
  {OwnVolume(project, project, FALSE), OwnVolume(SandboxCopies, ContainerHome, FALSE),
   OwnVolume(CacheVolume, CacheDir, FALSE)}
  \cup (IF CopyTargets # <<>> THEN {OwnVolume(Manifest, ManifestPath, TRUE)} ELSE {})
  \cup (IF option.hideEnv THEN {OwnVolume(<<"dev", "null">>, p, TRUE) : p \in FoundEnvFiles}
        ELSE {})
  \cup (IF option.proxy /\ option.mitm THEN {OwnVolume(CACert, ContainerCA, TRUE)} ELSE {})

\* userConfiguredEnv
UserConfigured(name) == name \in option.envVars \cup option.passthrough

\* Mutant: the default is a -e like the others, and the last -e wins.
ContainerEnv_DefaultLast ==
  IF option.proxy
  THEN Over(All({DefaultVar} \cup ProxyVars \cup IF option.mitm THEN CAVars ELSE {}, "proxy"),
            UserEnv)
  ELSE UserEnv
\* The -e arguments, of which the last wins.
ContainerEnv ==
  LET defaults == {n \in {DefaultVar} : ~UserConfigured(n)}
  IN IF option.proxy
     THEN Over(All(ProxyVars \cup defaults \cup IF option.mitm THEN CAVars ELSE {}, "proxy"),
               UserEnv)
     ELSE UserEnv

-----------------------------------------------------------------------------
(* Properties *)

\* No two volumes have one destination: the engine would refuse the container.
OnePlaceEach(volumes) ==
  LET places == {volumes[i].at : i \in DOMAIN volumes}
      common == {v.at : v \in CommonVolumes}
  IN /\ Cardinality(places) = Len(volumes)
     /\ Cardinality(common) = Cardinality(CommonVolumes)
     /\ places \cap common = {}

\* No copy follows one that was made below its target, which it would clear away:
\* ShimSetup rests on it.
CopiesDescend(targets) ==
  \A j \in DOMAIN targets : \A i \in 1..(j - 1) : ~Under(targets[j], targets[i])

\* The workload of a container writes through to no file of the host that a
\* bubblewrap sandbox of the same configuration would not let it write.
NotLooser(volumes) ==
  \A i \in DOMAIN volumes : ~volumes[i].ro =>
    \E j \in DOMAIN mounts :
      mounts[j].at = volumes[i].by.dest /\ mounts[j].kind = "readwrite"

\* Where bubblewrap can be asked for a sandbox, a container of the same configuration
\* is not let write more of the host, and its workload finds the same environment
\* (mount rules, which it has no use for, aside).
ContainerNoLooser ==
  stage = "built" /\ rules = <<>> => NotLooser(ToolVolumes) /\ ContainerEnv = env

\* There, a container of the same configuration can be made too, and its directories
\* are filled as they are meant.
ContainerCanBeMade ==
  stage = "built" /\ rules = <<>> => OnePlaceEach(ToolVolumes) /\ CopiesDescend(CopyTargets)
=============================================================================
