--------------------------- MODULE ContainerLaunch ---------------------------
(***************************************************************************)
(* The Docker backend with keep_container, its default: every launch for a *)
(* project finds, restarts, replaces or creates the one container that     *)
(* bears the project's name, and runs its workload in it with `docker      *)
(* exec' (internal/isolator/docker.go; the container's entry point is      *)
(* cmd/devsandbox-shim/main.go).                                           *)
(*                                                                         *)
(* Launches of one project hold no lock against each other here.  Each     *)
(* engine call is one step and acts on the container that has the name at  *)
(* that moment; what a launch read in an earlier call is where it is in    *)
(* its program.  The engine's own behaviour (a name is taken once, `rm -f' *)
(* kills what runs, a network with a running container on it cannot be     *)
(* removed, starting what runs does nothing) is external.                  *)
(***************************************************************************)
EXTENDS Naturals, FiniteSets

CONSTANTS
  Users,         \* devsandbox processes launched for the project
  Settings,      \* what a launch can ask for, see SettingsShape
  Earlier,       \* a launch that is over
  NoCtr, NoNet   \* no container, no network

\* hashed stands for ports, CA, image, limits, mounts; env for the variables of
\* sandbox.environment, env_passthrough and the proxy's extra ones; files for
\* the .env files under the project, hide for whether they are to be hidden.
SettingsShape(s) ==
  /\ DOMAIN s = {"proxy", "hashed", "env", "files", "hide"}
  /\ s.proxy \in BOOLEAN
  /\ s.hide \in BOOLEAN

ASSUME ContainerAssumption ==
  /\ \A s \in Settings : SettingsShape(s)
  /\ Earlier \notin Users
  /\ NoNet \notin Users \cup {Earlier}

VARIABLES
  ctr,        \* the container that has the name, or NoCtr
  net,        \* the project's network, named by the launch that created it
  userAt,     \* where each launch is
  want,       \* what each launch asks for
  netOf,      \* the network whose gateway a launch's proxy is bound to
  inside,     \* the container a launch's workload was started in
  judged,     \* history: the container whose label a launch has read
  crossed     \* history: launches another one of the project overlapped

ctrVars == <<ctr, net, userAt, want, netOf, inside, judged, crossed>>

-----------------------------------------------------------------------------
(* What a container is created with, and what is remembered of it *)

\* The last two conjuncts of the flags: variables are baked in by -e, hidden
\* files by a mount of /dev/null.
CreateArgs(s) ==
  [proxy |-> s.proxy, hashed |-> s.hashed, env |-> s.env,
   hidden |-> IF s.hide THEN s.files ELSE {}]

\* The label configHash leaves on it.  The Environment it hashes is the map Run
\* leaves empty, and it hashes the .env files whether they are hidden or not.
ConfigHash(s) == [proxy |-> s.proxy, hashed |-> s.hashed, files |-> s.files]

\* A container is named by the launch that created it: each creates one at most.
Created(u, s) ==
  [id |-> u, args |-> CreateArgs(s), hash |-> ConfigHash(s),
   net |-> NoNet, running |-> FALSE, boot |-> "none", ready |-> FALSE,
   again |-> FALSE]

Creators == Users \cup {Earlier}

Containers ==
  [id : Creators, args : {CreateArgs(s) : s \in Settings},
   hash : {ConfigHash(s) : s \in Settings}, net : Creators \cup {NoNet},
   running : BOOLEAN, boot : {"none", "setup", "overlays", "up"},
   ready : BOOLEAN, again : BOOLEAN]

Reasons == {"differs", "unread", "unstartable"}
Places == {"start", "gateway", "inspect", "sawRunning", "sawStopped",
           "restart", "build", "create", "startNew", "wait", "ready", "inside",
           "leave", "done"} \cup Reasons

ContainerTypeOK ==
  /\ ctr \in Containers \cup {NoCtr}
  /\ net \in Creators \cup {NoNet}
  /\ userAt \in [Users -> Places]
  /\ want \in [Users -> Settings]
  /\ netOf \in [Users -> Creators \cup {NoNet}]
  /\ inside \in [Users -> Creators \cup {NoCtr}]
  /\ judged \in [Users -> Creators \cup {NoCtr}]
  /\ crossed \subseteq Users

\* An earlier launch may have left its container, stopped or running, with its
\* set-up done or cut short, and its network.
LeftBehind(s, on, at) ==
  [Created(Earlier, s) EXCEPT
     !.running = on, !.boot = at, !.ready = (at # "setup"),
     !.net = IF s.proxy THEN Earlier ELSE NoNet]

ContainerInit ==
  /\ net \in {Earlier, NoNet}
  /\ ctr \in {NoCtr} \cup
       {LeftBehind(s, on, at) :
          s \in Settings, on \in BOOLEAN, at \in {"setup", "overlays", "up"}}
  /\ ctr # NoCtr /\ ctr.running => ctr.net \in {net, NoNet}
  /\ userAt = [u \in Users |-> "start"]
  /\ want \in [Users -> Settings]
  /\ netOf = [u \in Users |-> NoNet]
  /\ inside = [u \in Users |-> NoCtr]
  /\ judged = [u \in Users |-> NoCtr]
  /\ crossed = {}

Exists == ctr # NoCtr
IsRunning == Exists /\ ctr.running
Go(u, place) == userAt' = [userAt EXCEPT ![u] = place]
Active(u) == userAt[u] \notin {"start", "done"}

\* Started by the engine, on the network that has the name now; the shim begins
\* anew.  The file that says it is ready lies in the container's own layer and
\* outlives a stop.
Booted(c) == [c EXCEPT !.running = TRUE, !.boot = "setup",
                       !.again = (c.boot # "none"),
                       !.net = IF c.args.proxy THEN net ELSE NoNet]
\* `docker start' needs the container's network to exist, and may fail without
\* that; starting what runs changes nothing.
Startable == Exists /\ (IsRunning \/ ~ctr.args.proxy \/ net # NoNet)

-----------------------------------------------------------------------------
(* A launch *)

\* PrepareNetwork, first call: create it, "already exists" being no error.
CreateNetwork(u) ==
  /\ userAt[u] = "start"
  /\ crossed' = IF \E v \in Users : Active(v)
                THEN crossed \cup {u} \cup {v \in Users : Active(v)}
                ELSE crossed
  /\ IF want[u].proxy
     THEN Go(u, "gateway") /\ net' = IF net = NoNet THEN u ELSE net
     ELSE Go(u, "inspect") /\ UNCHANGED net
  /\ UNCHANGED <<ctr, want, netOf, inside, judged>>

\* Its second: the gateway the proxy will listen on.  An error ends the launch
\* before its Cleanup is deferred.
ReadGateway(u) ==
  /\ userAt[u] = "gateway"
  /\ netOf' = [netOf EXCEPT ![u] = net]
  /\ Go(u, IF net = NoNet THEN "done" ELSE "inspect")
  /\ UNCHANGED <<ctr, net, want, inside, judged, crossed>>

\* BuildDocker: getContainerState reads an engine error as absence.
Inspect(u) ==
  /\ userAt[u] = "inspect"
  /\ \/ Go(u, "build")
     \/ /\ Exists
        /\ Go(u, IF ctr.running THEN "sawRunning" ELSE "sawStopped")
  /\ UNCHANGED <<ctr, net, want, netOf, inside, judged, crossed>>

\* Mutant: configHash goes through its maps unsorted, equal settings hash
\* differently.
CompareHash_Unsorted(u) ==
  /\ userAt[u] \in {"sawRunning", "sawStopped"}
  /\ \/ Go(u, "unread")
     \/ Exists /\ Go(u, "differs")
  /\ judged' = [judged EXCEPT ![u] = IF Exists THEN ctr.id ELSE NoCtr]
  /\ UNCHANGED <<ctr, net, want, netOf, inside, crossed>>

\* The label is asked for in a call of its own; no answer matches no hash.
CompareHash(u) ==
  /\ userAt[u] \in {"sawRunning", "sawStopped"}
  /\ \/ Go(u, "unread")
     \/ /\ Exists
        /\ ctr.hash # ConfigHash(want[u])
        /\ Go(u, "differs")
     \/ /\ Exists
        /\ ctr.hash = ConfigHash(want[u])
        /\ Go(u, IF userAt[u] = "sawRunning" THEN "ready" ELSE "restart")
  /\ judged' = [judged EXCEPT ![u] = IF Exists THEN ctr.id ELSE NoCtr]
  /\ UNCHANGED <<ctr, net, want, netOf, inside, crossed>>

Restart(u) ==
  /\ userAt[u] = "restart"
  /\ \/ /\ Startable
        /\ ctr' = IF IsRunning THEN ctr ELSE Booted(ctr)
        /\ Go(u, "wait")
     \/ /\ ~IsRunning
        /\ Go(u, "unstartable")
        /\ UNCHANGED ctr
  /\ UNCHANGED <<net, want, netOf, inside, judged, crossed>>

\* removeContainer: `rm -f' by name, whatever has it by now.
RemoveContainer(u) ==
  /\ userAt[u] \in Reasons
  /\ ctr' = NoCtr
  /\ Go(u, "build")
  /\ UNCHANGED <<net, want, netOf, inside, judged, crossed>>

BuildImage(u) ==
  /\ userAt[u] = "build"
  /\ Go(u, "create") \/ Go(u, "leave")
  /\ UNCHANGED <<ctr, net, want, netOf, inside, judged, crossed>>

\* `docker create': refused if the name is taken.
CreateContainer(u) ==
  /\ userAt[u] = "create"
  /\ IF Exists
     THEN Go(u, "leave") /\ UNCHANGED ctr
     ELSE Go(u, "startNew") /\ ctr' = Created(u, want[u])
  /\ UNCHANGED <<net, want, netOf, inside, judged, crossed>>

StartNew(u) ==
  /\ userAt[u] = "startNew"
  /\ \/ /\ Startable
        /\ ctr' = IF IsRunning THEN ctr ELSE Booted(ctr)
        /\ Go(u, "wait")
     \/ /\ ~IsRunning
        /\ Go(u, "leave")
        /\ UNCHANGED ctr
  /\ UNCHANGED <<net, want, netOf, inside, judged, crossed>>

\* Mutant: a running container is taken for a ready one.
WaitReady_Running(u) ==
  /\ userAt[u] = "wait"
  /\ Go(u, "leave") \/ (IsRunning /\ Go(u, "ready"))
  /\ UNCHANGED <<ctr, net, want, netOf, inside, judged, crossed>>

\* waitForContainerReady: the probe needs a running container and the file; a
\* container that has exited or 90 seconds end the launch, and its absence is
\* waited out.
WaitReady(u) ==
  /\ userAt[u] = "wait"
  /\ \/ IsRunning /\ ctr.ready /\ Go(u, "ready")
     \/ Go(u, "leave")
  /\ UNCHANGED <<ctr, net, want, netOf, inside, judged, crossed>>

\* execIntoContainer, after installMiseTools in the same container.
ExecInto(u) ==
  /\ userAt[u] = "ready"
  /\ IF IsRunning
     THEN Go(u, "inside") /\ inside' = [inside EXCEPT ![u] = ctr.id]
     ELSE Go(u, "leave") /\ UNCHANGED inside
  /\ UNCHANGED <<ctr, net, want, netOf, judged, crossed>>

WorkloadEnds(u) ==
  /\ userAt[u] = "inside"
  /\ Go(u, "leave")
  /\ UNCHANGED <<ctr, net, want, netOf, inside, judged, crossed>>

\* The deferred Cleanup: the container stays, running; the network goes unless a
\* running container is on it.
Cleanup(u) ==
  /\ userAt[u] = "leave"
  /\ net' = IF want[u].proxy /\ ~(IsRunning /\ ctr.net = net) THEN NoNet ELSE net
  /\ Go(u, "done")
  /\ UNCHANGED <<ctr, want, netOf, inside, judged, crossed>>

\* The process is killed: nothing deferred runs, and what it started inside the
\* container goes on.
LauncherKilled(u) ==
  /\ Active(u)
  /\ Go(u, "done")
  /\ UNCHANGED <<ctr, net, want, netOf, inside, judged, crossed>>

-----------------------------------------------------------------------------
(* The container *)

\* The shim prepares user, directories and tools and leaves the file ...
ShimSetUp ==
  /\ IsRunning /\ ctr.boot = "setup"
  /\ ctr' = [ctr EXCEPT !.boot = "overlays", !.ready = TRUE]
  /\ UNCHANGED <<net, userAt, want, netOf, inside, judged, crossed>>

\* ... and then applies the overlays of the manifest and becomes the shell.
ShimOverlays ==
  /\ IsRunning /\ ctr.boot = "overlays"
  /\ ctr' = [ctr EXCEPT !.boot = "up"]
  /\ UNCHANGED <<net, userAt, want, netOf, inside, judged, crossed>>

\* A fatal error of the shim, `docker stop', a restart of the host.
ContainerStops ==
  /\ IsRunning
  /\ ctr' = [ctr EXCEPT !.running = FALSE]
  /\ UNCHANGED <<net, userAt, want, netOf, inside, judged, crossed>>

-----------------------------------------------------------------------------

UserSteps(u) ==
  \/ CreateNetwork(u) \/ ReadGateway(u) \/ Inspect(u) \/ CompareHash(u)
  \/ Restart(u) \/ RemoveContainer(u) \/ BuildImage(u) \/ CreateContainer(u)
  \/ StartNew(u) \/ WaitReady(u) \/ ExecInto(u) \/ WorkloadEnds(u)
  \/ Cleanup(u) \/ LauncherKilled(u)

ContainerNext ==
  \/ \E u \in Users : UserSteps(u)
  \/ ShimSetUp \/ ShimOverlays \/ ContainerStops

ContainerSpec == ContainerInit /\ [][ContainerNext]_ctrVars

-----------------------------------------------------------------------------
(* Properties *)

WorksIn(u) == userAt[u] = "inside" /\ Exists /\ inside[u] = ctr.id

\* A launch that no other one overlapped runs its workload in a container whose
\* label it would compute itself, and that is on the network its own proxy is
\* bound to: between the two inspections, the restart, the image build and the
\* exec, each by name, nothing but another launch can put a different one there.
WorkloadConfig ==
  \A u \in Users : WorksIn(u) /\ u \notin crossed =>
    /\ ctr.hash = ConfigHash(want[u])
    /\ want[u].proxy /\ ctr.running => ctr.net = netOf[u] /\ net = netOf[u]

\* A launch that makes a new container starts its workload there after the
\* shim's set-up, if nobody overlapped it.  (A later boot finds the file of the
\* first, and a launch that finds the container running does not look for it.)
SetUpBeforeExec ==
  \A u \in Users : WorksIn(u) /\ u \notin crossed /\ ctr.id = u /\ ~ctr.again =>
    ctr.boot # "setup"

\* What a launch may rely on of the container its workload runs in.
WorkloadPlace == WorkloadConfig /\ SetUpBeforeExec

\* A container with a workload in it is taken away only by a launch that read a
\* different label on it, could not read it, could not restart what it had seen
\* stopped, or whose reading is of a container that another launch has replaced
\* since.  In particular a launch that asks for the same settings from another
\* pane, with another environment, joins the workload and does not kill it.
KilledOnlyFor ==
  [][\A u, v \in Users :
       WorksIn(u) /\ RemoveContainer(v) =>
         \/ userAt[v] \in {"unread", "unstartable"}
         \/ ConfigHash(want[v]) # ctr.hash
         \/ judged[v] # ctr.id]_ctrVars
=============================================================================
