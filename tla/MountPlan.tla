------------------------------ MODULE MountPlan ------------------------------
(***************************************************************************)
(* The mounts and the environment of a bubblewrap sandbox                  *)
(* (internal/sandbox/builder.go, mounts/mounts.go, envfiles.go, and        *)
(* internal/proxyenv), built in the order of BwrapIsolator.launch.  Later  *)
(* mounts cover earlier ones; trackMount refuses, by a panic, a mount at a *)
(* destination that is taken or above one that is.  /proc, /dev, /tmp and  *)
(* the runtime directory are mounted without being tracked.                *)
(***************************************************************************)
EXTENDS ToolRegistry, SequenceFilters, FiniteSets, Functions

CONSTANTS
  ProjectDirs,    \* projects a sandbox may be launched in
  MainRepo,       \* the repository a project may be a worktree of
  HostFiles,      \* files of the host; other paths are directories
  Missing,        \* paths the host lacks
  EnvFiles,       \* the files of HostFiles named .env or .env.*
  LocalConfig,    \* the name of a project's own configuration file
  SkippedNames,   \* directories FindEnvFiles does not enter
  EnvDepth,       \* how deep it goes
  SystemLists,    \* the fixed lists of paths bound read-only, in their order
  CACertPath,     \* where the proxy's certificate is mounted
  RuleSets,       \* the sequences of mount rules a configuration may have
  ToolSets,       \* the tools that may be available
  Options,        \* the other settings a launch may have
  CoreVars, ToolVars, ProxyVars, CAVars, DefaultVar \* environment variables

Stages == {"base", "system", "network", "locale", "ca", "custom", "home",
           "homeRules", "project", "tools", "ssh", "proxyCA", "environment",
           "built", "refused"}
MountKinds == {"null", "readonly", "readwrite", "overlay", "tmpoverlay", "tmpfs"}
Callers == {"system", "rule", "home", "project", "config", "env", "tool", "ca",
            "runtime"}
Modes == {"hidden", "readonly", "readwrite", "overlay", "tmpoverlay"}
Path == Seq(STRING)
PathRule == [relative : BOOLEAN, mode : Modes, matches : SUBSET Path]

\* A path that does not start with the "." that stands for the working directory.
IsAbsolute(p) == ~Under(<<".">>, p)

ASSUME PlanAssumption ==
  /\ \A d \in ProjectDirs : d \in Path /\ d # <<>> /\ IsAbsolute(d)
  /\ \A rs \in RuleSets :
       /\ rs \in Seq(PathRule)
       /\ \A i \in DOMAIN rs :
            /\ IsFiniteSet(rs[i].matches)
            /\ rs[i].relative \/ \A p \in rs[i].matches : IsAbsolute(p)
  /\ \A list \in {"system", "network", "locale", "ca"} : SystemLists[list] \in Seq(Path)
  /\ EnvFiles \subseteq Path /\ IsFiniteSet(EnvFiles)

VARIABLES
  project,        \* the working directory, and the project
  rules,          \* the configured rules, in order
  tools,          \* the available tools
  option,         \* the other settings
  stage,          \* the builder's next step
  mounts,         \* the mounts so far, in order
  panicked,       \* trackMount has refused one
  setupError,     \* a tool's Setup failed: b.err
  agentWrapper,   \* the no-op ssh-agent is in the sandbox home
  env             \* the variables of the workload

planVars == <<project, rules, tools, option, stage, mounts, panicked, setupError,
              agentWrapper, env>>
inputs == <<project, rules, tools, option>>

PlanTypeOK ==
  /\ project \in ProjectDirs
  /\ rules \in RuleSets /\ tools \in ToolSets /\ option \in Options
  /\ stage \in Stages
  /\ \A i \in DOMAIN mounts :
       /\ DOMAIN mounts[i] = {"at", "kind", "by"}
       /\ mounts[i].kind \in MountKinds /\ mounts[i].by \in Callers
  /\ panicked \in BOOLEAN /\ setupError \in BOOLEAN /\ agentWrapper \in BOOLEAN
  /\ DOMAIN env \subseteq CoreVars \cup ToolVars \cup ProxyVars \cup CAVars \cup
       {DefaultVar} \cup option.envVars \cup option.passthrough
  /\ panicked => stage = "refused"

PlanInit ==
  /\ project \in ProjectDirs /\ rules \in RuleSets
  /\ tools \in ToolSets /\ option \in Options
  /\ stage = "base"
  /\ mounts = <<>>
  /\ panicked = FALSE /\ setupError = FALSE
  /\ agentWrapper \in BOOLEAN
  /\ env = << >>

-----------------------------------------------------------------------------
(* The host *)

OnHost(p) == p \notin Missing
IsDir(p) == OnHost(p) /\ p \notin HostFiles

Mount(p, kind, by) == [at |-> p, kind |-> kind, by |-> by]

-----------------------------------------------------------------------------
(* trackMount *)

IsTracked(m) == m.by # "runtime"

\* Mutant: only a destination that is taken is refused.
Overlaps_SameOnly(old, new) == new.at = old.at
\* The new mount is at the old one's destination or at a parent of it.
Overlaps(old, new) == Under(new.at, old.at)

Shadows(all) ==
  \E i, j \in DOMAIN all :
    i < j /\ IsTracked(all[i]) /\ IsTracked(all[j]) /\ Overlaps(all[i], all[j])

\* The step mounts batch, in order, and hands over to next; the first mount that
\* is refused ends the program.
Emit(batch, next) ==
  IF Shadows(mounts \o batch)
  THEN panicked' = TRUE /\ stage' = "refused" /\ UNCHANGED mounts
  ELSE mounts' = mounts \o batch /\ stage' = next /\ UNCHANGED panicked

\* sortPaths: the batches in which no mount follows one below it.
ParentsFirst(S) ==
  {s \in [1..Cardinality(S) -> S] :
     /\ \A m \in S : \E i \in DOMAIN s : s[i] = m
     /\ \A i, j \in DOMAIN s : i < j => ~Under(s[j].at, s[i].at)}

-----------------------------------------------------------------------------
(* The rules: mounts.Engine *)

\* A relative pattern is expanded against the working directory too, to paths that
\* stay relative: "." stands for that root.
Globs(r) == IF r.relative THEN {<<".">> \o p : p \in r.matches} ELSE r.matches
GlobsInProject(r) == IF r.relative THEN {project \o p : p \in r.matches} ELSE {}

\* The rule that governs each matched path, given what each rule matches.
Governing_LastWins(hits) ==
  [p \in UNION {hits[i] : i \in DOMAIN hits} |->
     rules[CHOOSE i \in DOMAIN hits :
             p \in hits[i] /\ \A j \in DOMAIN hits : j > i => p \notin hits[j]]]
Governing(hits) ==
  [p \in UNION {hits[i] : i \in DOMAIN hits} |->
     rules[CHOOSE i \in DOMAIN hits :
             p \in hits[i] /\ \A j \in DOMAIN hits : j < i => p \notin hits[j]]]

ExpandedPaths == Governing([i \in DOMAIN rules |-> {p \in Globs(rules[i]) : OnHost(p)}])
ExpandedPathsInDir ==
  Governing([i \in DOMAIN rules |-> {p \in GlobsInProject(rules[i]) : OnHost(p)}])

\* A relative path stands for one of the project.
HostPath(p) == IF Under(<<".">>, p) THEN project \o Tail(p) ELSE p

\* applyMountRule: a directory cannot be hidden, and only one can be an overlay.
Applies(p, r) ==
  CASE r.mode = "hidden" -> ~IsDir(HostPath(p))
    [] r.mode \in {"overlay", "tmpoverlay"} -> IsDir(HostPath(p))
    [] OTHER -> TRUE
RuleMount(p, r) == Mount(p, IF r.mode = "hidden" THEN "null" ELSE r.mode, "rule")

\* applyMountRuleSet, for the paths of P.
RuleMounts(expanded, P) ==
  {RuleMount(p, expanded[p]) : p \in {q \in P : Applies(q, expanded[q])}}

InsideProject(p) == Under(project, p)
InsideHome(p) == Under(Home, p)

-----------------------------------------------------------------------------
(* The builder's steps *)

AddBaseArgs ==
  /\ stage = "base" /\ stage' = "system"
  /\ UNCHANGED <<inputs, mounts, panicked, setupError, agentWrapper, env>>

\* The read-only bindings of a fixed list.
AddList(at, next) ==
  /\ stage = at
  /\ LET present == Sifted(SystemLists[at], Range(SystemLists[at]) \ Missing)
     IN Emit([i \in DOMAIN present |-> Mount(present[i], "readonly", "system")], next)
  /\ UNCHANGED <<inputs, setupError, agentWrapper, env>>

AddSystemBindings == AddList("system", "network")
AddNetworkBindings == AddList("network", "locale")
AddLocaleBindings == AddList("locale", "ca")
AddCABindings == AddList("ca", "custom")

AddRules(at, P, next) ==
  /\ stage = at
  /\ \E batch \in ParentsFirst(RuleMounts(ExpandedPaths, P)) : Emit(batch, next)
  /\ UNCHANGED <<inputs, setupError, agentWrapper, env>>

AddCustomMounts ==
  AddRules("custom",
    {p \in DOMAIN ExpandedPaths : ~InsideProject(p) /\ ~InsideHome(p)}, "home")

AddSandboxHome ==
  /\ stage = "home"
  /\ Emit(<< Mount(Home, "readwrite", "home") >>, "homeRules")
  /\ UNCHANGED <<inputs, setupError, agentWrapper, env>>

AddHomeCustomMounts ==
  AddRules("homeRules",
    {p \in DOMAIN ExpandedPaths : InsideHome(p) /\ ~InsideProject(p)}, "project")

\* The project's own configuration, under ConfigVisibility.
ConfigMounts ==
  LET file == Append(project, LocalConfig) IN
  CASE ~OnHost(file) \/ option.visibility = "readwrite" -> <<>>
    [] OnHost(file) /\ option.visibility = "readonly" ->
         << Mount(file, "readonly", "config") >>
    [] OTHER -> << Mount(file, "null", "config") >>

\* What absolute patterns match in the project goes before what relative ones do.
ProjectRules ==
  LET absolute == {p \in DOMAIN ExpandedPaths : InsideProject(p)}
  IN RuleMounts(ExpandedPaths, absolute)
     \cup RuleMounts(ExpandedPathsInDir, DOMAIN ExpandedPathsInDir \ absolute)

\* FindEnvFiles does not enter a directory by its name, the project's own included.
FoundEnvFiles ==
  {p \in EnvFiles :
     /\ OnHost(p) /\ InsideProject(p)
     /\ Len(p) - Len(project) <= EnvDepth + 1
     /\ \A i \in Len(project)..(Len(p) - 1) : p[i] \notin SkippedNames}
EnvMounts == {Mount(p, "null", "env") : p \in IF option.hideEnv THEN FoundEnvFiles ELSE {}}

AddProjectBindings ==
  /\ stage = "project"
  /\ \E ruled \in ParentsFirst(ProjectRules), hidden \in ParentsFirst(EnvMounts) :
       Emit(<< Mount(project, "readwrite", "project") >> \o ConfigMounts \o ruled
              \o hidden \o << Mount(Runtime, "tmpfs", "runtime") >>, "tools")
  /\ UNCHANGED <<inputs, setupError, agentWrapper, env>>

\* applyBinding: an overlay of what is no directory becomes a read-only bind.
ToolMount(b) ==
  LET r == ResolveType(b, option.mountMode)
      kind == CASE r.type \in {"overlay", "tmpoverlay"} ->
                     IF IsDir(r.source) THEN r.type ELSE "readonly"
                [] OTHER -> IF r.ro THEN "readonly" ELSE "readwrite"
  IN Mount(r.dest, kind, "tool")

Repo == IF option.worktree THEN MainRepo ELSE project

\* The enabled tools, in the registry's order.
UsedTools == Sifted(RegistryOrder, tools \ option.disabled)

\* A binding whose source is missing is left out.
Existing(bindings) == Sifted(bindings, {b \in Range(bindings) : OnHost(b.source)})

OwnBindings(t) == ToolBindings(t, option.gitMode, project, Repo, option.copied)

ToolMounts ==
  LET all == Flattened([i \in DOMAIN UsedTools |-> Existing(OwnBindings(UsedTools[i]))])
  IN [i \in DOMAIN all |-> ToolMount(all[i])]

\* A failed Setup is reported when everything is built.
AddTools ==
  /\ stage = "tools"
  /\ \/ Emit(ToolMounts, "ssh") /\ UNCHANGED setupError
     \/ option.setupFails /\ setupError' = TRUE /\ Emit(<<>>, "ssh")
  /\ UNCHANGED <<inputs, agentWrapper, env>>

SuppressSSHAgent ==
  /\ stage = "ssh" /\ stage' = "proxyCA"
  /\ agentWrapper' = ~(\E i \in DOMAIN mounts :
                         IsTracked(mounts[i]) /\ mounts[i].at = Append(Home, ".ssh"))
  /\ UNCHANGED <<inputs, mounts, panicked, setupError, env>>

AddProxyCACertificate ==
  /\ stage = "proxyCA"
  /\ Emit(IF option.proxy THEN << Mount(CACertPath, "readonly", "ca") >> ELSE <<>>,
          "environment")
  /\ UNCHANGED <<inputs, setupError, agentWrapper, env>>

-----------------------------------------------------------------------------
(* AddEnvironment *)

All(names, value) == [n \in names |-> value]

\* SetEnv replaces what an earlier step set.
Over(later, earlier) ==
  [n \in DOMAIN later \cup DOMAIN earlier |->
     IF n \in DOMAIN later THEN later[n] ELSE earlier[n]]

\* The configuration's variables over the ones passed through over the tools' over the
\* builder's own.
UserEnv ==
  Over(All(option.envVars, "user"),
       Over(All(option.passthrough, "host"),
            Over(All(ToolVars, "tool"), All(CoreVars, "core"))))

\* Mutant: the proxy's variables do not replace the user's.
ProxyEnv_UserFirst ==
  IF option.proxy
  THEN Over(UserEnv, All(ProxyVars \cup CAVars \cup {DefaultVar}, "proxy"))
  ELSE UserEnv
\* Over all of them the proxy's, but for the one that is only a default.
ProxyEnv ==
  IF option.proxy
  THEN Over(All(ProxyVars \cup IF option.mitm THEN CAVars ELSE {}, "proxy"),
            Over(UserEnv, All({DefaultVar}, "proxy")))
  ELSE UserEnv

AddEnvironment ==
  /\ stage = "environment"
  /\ env' = ProxyEnv
  /\ stage' = IF setupError THEN "refused" ELSE "built"
  /\ UNCHANGED <<inputs, mounts, panicked, setupError, agentWrapper>>

PlanNext ==
  \/ AddBaseArgs \/ AddSystemBindings \/ AddNetworkBindings \/ AddLocaleBindings
  \/ AddCABindings \/ AddCustomMounts \/ AddSandboxHome \/ AddHomeCustomMounts
  \/ AddProjectBindings \/ AddTools \/ SuppressSSHAgent \/ AddProxyCACertificate
  \/ AddEnvironment

PlanSpec == PlanInit /\ [][PlanNext]_planVars

-----------------------------------------------------------------------------
(* Properties *)

\* What the sandbox sees at p is the mount i: no later one covers p, but for the
\* empty runtime directory.
SeenThrough(i, p) ==
  \A j \in DOMAIN mounts : j > i /\ Under(mounts[j].at, p) => mounts[j].by = "runtime"

\* The rule that is to govern p: the first absolute one that matches it, or else, in
\* the project, the first relative one.
Governs(r, p) ==
  LET absolute(s) == ~s.relative /\ p \in s.matches
      local(s) == s.relative /\ InsideProject(p)
                  /\ SubSeq(p, Len(project) + 1, Len(p)) \in s.matches
      first(test(_)) == \E i \in DOMAIN rules :
                          /\ rules[i] = r /\ test(r)
                          /\ \A j \in 1..(i - 1) : ~test(rules[j])
  IN \/ first(absolute)
     \/ first(local) /\ \A i \in DOMAIN rules : ~absolute(rules[i])

\* A sandbox is built only if every path a mount rule governs is seen through that
\* rule's mount, whatever the order of rules, tools and the builder's own steps;
\* and with them the hidden configuration and the hidden .env files.
RulesHold ==
  stage = "built" =>
    /\ \A k \in DOMAIN rules : \A q \in rules[k].matches :
         LET p == IF rules[k].relative THEN project \o q ELSE q
         IN OnHost(p) /\ Governs(rules[k], p) /\ Applies(p, rules[k]) =>
              \E i \in DOMAIN mounts :
                mounts[i] = RuleMount(p, rules[k]) /\ SeenThrough(i, p)
    /\ \A m \in EnvMounts :
         \E i \in DOMAIN mounts : mounts[i] = m /\ SeenThrough(i, m.at)
    /\ \A i \in DOMAIN mounts :
         mounts[i].by = "config" => SeenThrough(i, mounts[i].at)

\* Behind the proxy no variable that leads a client to it is the user's, and every
\* other variable of the configuration is.
EnvironmentHolds ==
  stage = "built" =>
    /\ option.proxy => \A n \in ProxyVars : env[n] = "proxy"
    /\ \A n \in option.envVars :
         env[n] # "user" => option.proxy /\ n \in ProxyVars \cup CAVars

\* What is built is what was configured: the rules hold for the files that the workload
\* sees, and the configuration for its environment, whatever the tools add to either.
PlanAsConfigured == RulesHold /\ EnvironmentHolds

\* Without rules of the user's own, a sandbox outside the tools' directories can
\* be built whatever tools the host has: no two of them bind one place, and none a
\* place above another's.
ToolsAgree == rules = <<>> => ~panicked
=============================================================================
