---------------------------- MODULE SandboxRemoval ----------------------------
(***************************************************************************)
(* `sandboxes prune' and `scratchpad rm' (cmd/devsandbox): what they list, *)
(* select, ask about and then remove one after the other, while sessions   *)
(* start and end.  A sandbox kept by Docker is listed twice, by its        *)
(* directory and by its container.  The locks of a prune and what a        *)
(* teardown strands are in SandboxSession; worktrees are in Worktree.      *)
(***************************************************************************)
EXTENDS Naturals, FiniteSets

CONSTANTS
  Boxes,           \* sandboxes
  InDocker,        \* those kept by Docker
  Scratchpads,     \* those of a scratchpad
  Used,            \* <<box, how it is listed>> -> rank of its last use, the latest highest
  OldRank,         \* --older-than reaches up to this rank
  PruneOptions,    \* the options a prune may be given
  StartLimit       \* bound: sessions that start

ASSUME RemovalAssumption ==
  /\ IsFiniteSet(Boxes) /\ InDocker \subseteq Boxes /\ Scratchpads \subseteq Boxes
  /\ \A o \in PruneOptions : o.keep \in Nat

VARIABLES
  tree,            \* state directory: none, whole, or bare of its metadata
  workDir,         \* boxes whose project directory exists
  locked,          \* boxes with a session
  container,       \* none, stopped or running
  network, volume, \* boxes whose network, or volume, exists
  asked,           \* the command and its options
  phase,           \* its step
  targets,         \* what it is going to remove
  doing,           \* the target it is at
  starts,          \* counted against the bound
  listing,         \* history: what it had to choose from
  held,            \* history: boxes with a session at the check and ever since
  failed           \* history: boxes it has told of, or was cut short at

boxVars == <<tree, workDir, locked, container, network, volume, starts>>
removerVars == <<asked, phase, targets, doing, listing>>
removalVars == <<boxVars, removerVars, held, failed>>

NoTarget == [box |-> "", via |-> "", iso |-> "", active |-> FALSE, orphaned |-> FALSE]
Prunes == asked.cmd = "prune"

RemovalTypeOK ==
  /\ tree \in [Boxes -> {"none", "whole", "bare"}]
  /\ container \in [Boxes -> {"none", "stopped", "running"}]
  /\ \A b \in Boxes \ InDocker : container[b] = "none" /\ b \notin network \cup volume
  /\ workDir \subseteq Boxes /\ locked \subseteq Boxes /\ held \subseteq locked
  /\ phase \in {"list", "confirm", "next", "net", "vol", "stop", "rm", "tree", "work", "end"}
  /\ targets \subseteq listing
  /\ doing # NoTarget <=> phase \in {"net", "vol", "stop", "rm", "tree", "work"}

\* Sandboxes never used, left by their last session, in use, or without a project.
RemovalInit ==
  /\ \E was \in [Boxes -> {"none", "idle", "live", "orphan"}] :
       /\ tree = [b \in Boxes |-> IF was[b] = "none" THEN "none" ELSE "whole"]
       /\ workDir = {b \in Boxes : was[b] # "orphan"}
       /\ locked = {b \in Boxes : was[b] = "live"}
       /\ container = [b \in Boxes |-> IF b \notin InDocker \/ was[b] = "none" THEN "none"
                                       ELSE IF was[b] = "live" THEN "running" ELSE "stopped"]
       /\ network = {b \in InDocker : was[b] # "none"} /\ volume = network
  /\ asked \in {[cmd |-> "prune", with |-> o] : o \in PruneOptions}
                 \cup {[cmd |-> "rm", with |-> [keepState |-> k]] : k \in BOOLEAN}
  /\ phase = "list" /\ targets = {} /\ doing = NoTarget /\ starts = 0
  /\ listing = {} /\ held = {} /\ failed = {}

-----------------------------------------------------------------------------
(* Sessions *)

SessionStarts(b) ==
  /\ b \in workDir /\ b \notin locked /\ starts < StartLimit
  /\ starts' = starts + 1 /\ locked' = locked \cup {b}
  /\ tree' = [tree EXCEPT ![b] = "whole"]
  /\ IF b \in InDocker
     THEN /\ container' = [container EXCEPT ![b] = "running"]
          /\ network' = network \cup {b} /\ volume' = volume \cup {b}
     ELSE UNCHANGED <<container, network, volume>>
  /\ UNCHANGED <<workDir, removerVars, held, failed>>

\* A container is kept, or removed with its network.
SessionEnds(b) ==
  /\ b \in locked /\ locked' = locked \ {b} /\ held' = held \ {b}
  /\ \/ /\ container' = [container EXCEPT ![b] = IF @ = "running" THEN "stopped" ELSE @]
        /\ UNCHANGED network
     \/ b \in InDocker /\ container' = [container EXCEPT ![b] = "none"] /\ network' = network \ {b}
  /\ UNCHANGED <<tree, workDir, volume, starts, removerVars, failed>>

-----------------------------------------------------------------------------
(* What there is *)

\* ListSandboxes: a directory without metadata is taken for an orphaned one of bwrap.
DirEntry(b) ==
  [box |-> b, via |-> "disk",
   iso |-> IF tree[b] = "whole" /\ b \in InDocker THEN "docker" ELSE "bwrap",
   active |-> b \in locked, orphaned |-> tree[b] = "bare" \/ b \notin workDir]
OnDisk == {DirEntry(b) : b \in {c \in Boxes : tree[c] # "none"}}

\* ListDockerSandboxes; IsSessionActive is asked about a path that is the container's
\* name, where nothing is locked.
CtrEntry(b) ==
  [box |-> b, via |-> "docker", iso |-> "docker", active |-> FALSE,
   orphaned |-> b \notin workDir]
InEngine == {CtrEntry(b) : b \in {c \in Boxes : container[c] # "none"}}

\* Scratchpads by their working directories; activity is asked later.
PadEntry(b) ==
  [box |-> b, via |-> "disk", iso |-> IF tree[b] = "none" THEN "none" ELSE "state",
   active |-> FALSE, orphaned |-> b \notin workDir]
Scratch == {PadEntry(b) : b \in Scratchpads \cap workDir}

\* One scratchpad may be named although only its state is left.
Named == {PadEntry(b) : b \in {c \in Scratchpads : c \in workDir \/ tree[c] # "none"}}

Rank(e) == Used[<<e.box, e.via>>]
LaterThan(e, all) == {f \in all : Rank(f) > Rank(e)}

\* Mutant: one that is in use is not passed over.
Selected_InUse(all, o) ==
  {e \in all :
     /\ o.orphaned => e.orphaned
     /\ \/ o.all \/ (o.orphaned /\ o.keep = 0 /\ ~o.older)
        \/ /\ Cardinality(LaterThan(e, all)) >= o.keep
           /\ o.older => Rank(e) <= OldRank
           /\ o.keep = 0 /\ ~o.older => e.orphaned}
\* SelectForPruning
Selected(all, o) ==
  {e \in all :
     /\ ~e.active /\ (o.orphaned => e.orphaned)
     /\ \/ o.all \/ (o.orphaned /\ o.keep = 0 /\ ~o.older)
        \/ /\ Cardinality(LaterThan(e, all)) >= o.keep
           /\ o.older => Rank(e) <= OldRank
           /\ o.keep = 0 /\ ~o.older => e.orphaned}

ListPrune ==
  /\ phase = "list" /\ Prunes
  /\ \E all \in {OnDisk, OnDisk \cup InEngine} :    \* Docker may not answer
       /\ listing' = all
       /\ targets' = Selected(all, asked.with)
  /\ held' = locked
  /\ phase' = IF targets' = {} THEN "end" ELSE "confirm"
  /\ UNCHANGED <<boxVars, asked, doing, failed>>

ListScratchpads ==
  /\ phase = "list" /\ ~Prunes
  /\ targets' \in {Scratch} \cup {{e} : e \in Named}
  /\ listing' = targets'
  /\ phase' = IF targets' = {} THEN "end" ELSE "confirm"
  /\ UNCHANGED <<boxVars, asked, doing, held, failed>>

\* The user takes any time to answer, or has given --force.
Confirm ==
  /\ phase = "confirm" /\ phase' \in {"next", "end"}
  /\ targets' = IF phase' = "end" THEN {} ELSE targets
  /\ UNCHANGED <<boxVars, asked, doing, listing, held, failed>>

-----------------------------------------------------------------------------
(* One target after the other *)

\* RemoveSandboxByType: the container first, of a kind that has one.
FirstStep(iso) == IF iso = "docker" THEN "net" ELSE "tree"

NextTarget ==
  /\ phase = "next" /\ Prunes
  /\ \E e \in targets :
       /\ LaterThan(e, targets) = {}
       /\ targets' = targets \ {e} /\ doing' = e /\ phase' = FirstStep(e.iso)
  /\ UNCHANGED <<boxVars, asked, listing, held, failed>>

\* A scratchpad in use is skipped; metadata that cannot be read means bwrap.
NextScratchpad ==
  /\ phase = "next" /\ ~Prunes
  /\ \E e \in targets :
       LET iso == IF tree[e.box] = "whole" /\ e.box \in InDocker THEN "docker" ELSE "bwrap"
           skip == e.iso = "state" /\ e.box \in locked
       IN /\ targets' = targets \ {e}
          /\ doing' = IF skip THEN NoTarget ELSE [e EXCEPT !.iso = IF @ = "none" THEN @ ELSE iso]
          /\ phase' = IF skip THEN "next"
                      ELSE IF asked.with.keepState \/ e.iso = "none" THEN "work"
                      ELSE FirstStep(iso)
          /\ held' = IF skip THEN held \cup {e.box} ELSE held
  /\ UNCHANGED <<boxVars, asked, listing, failed>>

AllDone ==
  /\ phase = "next" /\ targets = {} /\ phase' = "end"
  /\ UNCHANGED <<boxVars, asked, targets, doing, listing, held, failed>>

Box == doing.box
WithVolumes == ~Prunes \/ asked.with.volumes
GoOn(there) == phase' = there /\ UNCHANGED <<asked, targets, doing, listing, held>>
Leave == phase' = "next" /\ doing' = NoTarget /\ UNCHANGED <<asked, targets, listing, held>>

\* The engine keeps a network with a running container; that is only a warning.
RemoveNetwork ==
  /\ phase = "net"
  /\ network' = IF container[Box] = "stopped" THEN network \ {Box} ELSE network
  /\ GoOn(IF WithVolumes THEN "vol" ELSE "stop")
  /\ UNCHANGED <<tree, workDir, locked, container, volume, starts, failed>>

\* The volumes of a container the engine still knows are in use, and stay.
RemoveVolumes ==
  /\ phase = "vol" /\ GoOn("stop")
  /\ UNCHANGED <<boxVars, failed>>

\* docker stop, whose failure is ignored.
StopContainer ==
  /\ phase = "stop" /\ GoOn("rm")
  /\ container' \in {container, [container EXCEPT ![Box] = IF @ = "running" THEN "stopped" ELSE @]}
  /\ UNCHANGED <<tree, workDir, locked, network, volume, starts, failed>>

\* Where it goes after the container; a scratchpad whose state has failed is left.
AfterContainer == IF doing.via = "disk" THEN "tree" ELSE "next"

\* docker rm: of one that runs it fails; that there is none is no error.
RemoveContainer ==
  /\ phase = "rm"
  /\ \/ /\ container[Box] # "running"
        /\ container' = [container EXCEPT ![Box] = "none"] /\ UNCHANGED failed
     \/ container[Box] # "none" /\ failed' = failed \cup {Box} /\ UNCHANGED container
  /\ phase' = AfterContainer
  /\ doing' = IF phase' = "next" THEN NoTarget ELSE doing
  /\ UNCHANGED <<tree, workDir, locked, network, volume, starts, asked, targets, listing, held>>

\* RemoveSandbox: all of it, or an error halfway.
RemoveTree ==
  /\ phase = "tree"
  /\ \/ /\ tree' = [tree EXCEPT ![Box] = "none"] /\ UNCHANGED failed
        /\ IF Prunes THEN Leave ELSE GoOn("work")
     \/ /\ tree' \in {tree, [tree EXCEPT ![Box] = IF @ = "none" THEN @ ELSE "bare"]}
        /\ failed' = failed \cup {Box}
        /\ Leave
  /\ UNCHANGED <<workDir, locked, container, network, volume, starts>>

RemoveWorkDir ==
  /\ phase = "work" /\ Leave
  /\ \/ workDir' = workDir \ {Box} /\ UNCHANGED failed
     \/ failed' = failed \cup {Box} /\ UNCHANGED workDir
  /\ UNCHANGED <<tree, locked, container, network, volume, starts>>

\* The command is killed, a removal halfway.
RemoverKilled ==
  /\ phase \notin {"list", "end"} /\ phase' = "end"
  /\ IF doing = NoTarget THEN UNCHANGED <<tree, failed>>
     ELSE /\ failed' = failed \cup {Box}
          /\ tree' \in {tree} \cup (IF phase = "tree" /\ tree[Box] # "none"
                                    THEN {[tree EXCEPT ![Box] = "bare"]} ELSE {})
  /\ doing' = NoTarget
  /\ UNCHANGED <<workDir, locked, container, network, volume, starts, asked, targets,
                 listing, held>>

RemoverSteps ==
  \/ ListPrune \/ ListScratchpads \/ Confirm \/ NextTarget \/ NextScratchpad \/ AllDone
  \/ RemoveNetwork \/ RemoveVolumes \/ StopContainer \/ RemoveContainer \/ RemoveTree
  \/ RemoveWorkDir \/ RemoverKilled

RemovalNext ==
  \/ RemoverSteps
  \/ phase # "end" /\ \E b \in Boxes : SessionStarts(b) \/ SessionEnds(b)

RemovalSpec == RemovalInit /\ [][RemovalNext]_removalVars

-----------------------------------------------------------------------------
(* Properties *)

Of(b, via) == {e \in listing : e.box = b /\ e.via = via}

\* The directory of a sandbox that was in use when the command looked, and has been ever
\* since, is whole: its session keeps it.  A prune takes away only what its options
\* name, and never the directory of one of the --keep latest.  The state of a
\* scratchpad goes before its working directory, so that a failure leaves something to
\* find it by.  And a run that was not told otherwise, of a sandbox no session has
\* started in meanwhile, leaves nothing of it but what the engine keeps.
RemovedAsAsked ==
  /\ \A b \in held : tree[b] = "whole"
  /\ Prunes =>
       \A b \in Boxes : \A e \in Of(b, "disk") : tree[b] = "none" =>
         /\ ~(asked.with.all \/ asked.with.older \/ asked.with.keep > 0) => e.orphaned
         /\ asked.with.all \/ Cardinality(LaterThan(e, listing)) >= asked.with.keep
  /\ ~Prunes /\ ~asked.with.keepState =>
       \A b \in Scratchpads :
         (\E e \in listing : e.box = b /\ e.iso # "none" /\ ~e.orphaned)
           /\ b \notin workDir /\ starts = 0 => tree[b] = "none"
  /\ phase = "next" /\ targets = {} /\ starts = 0 =>
       \A e \in listing :
         e.box \notin failed \cup held /\ tree[e.box] = "none" => container[e.box] = "none"
=============================================================================
