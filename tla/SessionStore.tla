---------------------------- MODULE SessionStore ----------------------------
(***************************************************************************)
(* The named-session store: one JSON file per running sandbox, by which    *)
(* `devsandbox sessions' and `devsandbox forward' find it                  *)
(* (internal/session/session.go, and its callers main.go, sessions.go and  *)
(* forward.go in cmd/devsandbox).                                          *)
(*                                                                         *)
(* No lock guards the store.  A file is written by a rename and read       *)
(* whole, so one read or one write of a file is one step; everything that  *)
(* reads and then writes (the stale sweep, Register, `forward') is several *)
(* steps, and acts in the later ones on what it read in the first.  All    *)
(* launches here start in directories of the same base name: AutoName is   *)
(* what keeps them apart.  A name is a number, n standing for `base-n'.    *)
(* Process ids are not reused.                                             *)
(***************************************************************************)
EXTENDS Naturals

CONSTANTS
  Launches,      \* devsandbox processes that start a sandbox; also its PID
  Clients,       \* `sessions' and `forward' commands
  Names,         \* names a session can have: base, base-2, ...
  AskedNames,    \* the names given with --name
  AutoPorts,     \* ports the workload of a sandbox listens on
  AskedPorts,    \* ports `forward' commands are asked for
  NoEntry, NoName, NoPort

ASSUME StoreAssumption ==
  /\ Launches \cap Clients = {}
  /\ Names \subseteq Nat \ {0}
  /\ AskedNames \subseteq Names
  /\ NoEntry \notin [name: Names, owner: Launches,
                     ports: SUBSET (AutoPorts \cup AskedPorts)]
  /\ NoName \notin Names
  /\ NoPort \notin AutoPorts

VARIABLES
  entries,     \* the store: the session each file holds
  launchAt,    \* where each launch is
  clientAt,    \* where each client is
  called,      \* the name a launch goes by: sandboxName
  pidAlive,    \* sandboxes whose namespace process runs
  listed,      \* what a CleanStale has read and not judged yet
  copy,        \* the Session a process has in memory
  found,       \* a port the monitor has begun to forward
  opened       \* history: pairs <<sandbox, port>> somebody forwarded

storeVars == <<entries, launchAt, clientAt, called, pidAlive, listed, copy,
               found, opened>>

Ports == AutoPorts \cup AskedPorts
Entry == [name: Names, owner: Launches, ports: SUBSET Ports]
MaybeEntry == Entry \cup {NoEntry}

\* The part of a launch in which its deferred Remove is still to run.
Started == {"started", "checked", "registered", "unregistered"}

StoreTypeOK ==
  /\ entries \in [Names -> MaybeEntry]
  /\ \A n \in Names : entries[n] # NoEntry => entries[n].name = n
  /\ launchAt \in [Launches -> {"start", "sweep", "named", "removed", "gone"}
                               \cup Started]
  /\ clientAt \in [Clients -> {"start", "sweep", "found", "forward", "gone"}]
  /\ called \in [Launches -> Names \cup {NoName}]
  /\ pidAlive \subseteq Launches
  /\ listed \in [Launches \cup Clients -> SUBSET Entry]
  /\ copy \in [Launches \cup Clients -> MaybeEntry]
  /\ found \in [Launches -> AutoPorts \cup {NoPort}]
  /\ opened \subseteq Launches \X Ports

StoreInit ==
  /\ entries = [n \in Names |-> NoEntry]
  /\ launchAt = [l \in Launches |-> "start"]
  /\ clientAt = [c \in Clients |-> "start"]
  /\ called = [l \in Launches |-> NoName]
  /\ pidAlive = {}
  /\ listed = [p \in Launches \cup Clients |-> {}]
  /\ copy = [p \in Launches \cup Clients |-> NoEntry]
  /\ found = [l \in Launches |-> NoPort]
  /\ opened = {}

-----------------------------------------------------------------------------
(* The operations of the store *)

List == {entries[n] : n \in Names} \ {NoEntry}
ListLive == {e \in List : e.owner \in pidAlive}
Store(e) == entries' = [entries EXCEPT ![e.name] = e]
Delete(n) == entries' = [entries EXCEPT ![n] = NoEntry]

\* Mutant: the sweep does not ask whether the process runs.
SweepOne_All(p) ==
  \E e \in listed[p] :
    /\ listed' = [listed EXCEPT ![p] = @ \ {e}]
    /\ Delete(e.name)
    /\ UNCHANGED <<launchAt, clientAt, called, pidAlive, copy, found, opened>>

\* CleanStale has one list and then asks of each entry whether its process
\* runs; it removes by name, whatever the file holds by then.  A process that
\* is dead stays dead, so asking and removing are one step.
SweepOne(p) ==
  \E e \in listed[p] :
    /\ listed' = [listed EXCEPT ![p] = @ \ {e}]
    /\ IF e.owner \in pidAlive THEN UNCHANGED entries ELSE Delete(e.name)
    /\ UNCHANGED <<launchAt, clientAt, called, pidAlive, copy, found, opened>>

\* AutoName: the first of base, base-2, ... that no live session has; none if
\* Names bounds them and all are taken.
AutoName == {n \in Names :
              /\ \A e \in ListLive : e.name # n
              /\ \A m \in Names : m < n => \E e \in ListLive : e.name = m}

-----------------------------------------------------------------------------
(* A launch *)

LaunchClean(l) ==
  /\ launchAt[l] = "start"
  /\ launchAt' = [launchAt EXCEPT ![l] = "sweep"]
  /\ listed' = [listed EXCEPT ![l] = List]
  /\ UNCHANGED <<entries, clientAt, called, pidAlive, copy, found, opened>>

\* Long before the sandbox runs: the proxy, the tools and the image are set up
\* in between.
ChooseName(l) ==
  /\ launchAt[l] = "sweep"
  /\ listed[l] = {}
  /\ \E n \in AskedNames \cup AutoName :
       called' = [called EXCEPT ![l] = n]
  /\ launchAt' = [launchAt EXCEPT ![l] = "named"]
  /\ UNCHANGED <<entries, clientAt, pidAlive, listed, copy, found, opened>>

SandboxStarts(l) ==
  /\ launchAt[l] = "named"
  /\ launchAt' = [launchAt EXCEPT ![l] = "started"]
  /\ pidAlive' = pidAlive \cup {l}
  /\ UNCHANGED <<entries, clientAt, called, listed, copy, found, opened>>

\* The sandbox could not be started: Run returns, and the deferred Remove runs
\* as after any other session.
StartFails(l) ==
  /\ launchAt[l] = "named"
  /\ launchAt' = [launchAt EXCEPT ![l] = "unregistered"]
  /\ UNCHANGED <<entries, clientAt, called, pidAlive, listed, copy, found,
                 opened>>

\* Register, up to its decision.  A refusal is a warning to the launch.
RegisterCheck(l) ==
  /\ launchAt[l] = "started"
  /\ \/ /\ \E e \in ListLive : e.name = called[l]
        /\ launchAt' = [launchAt EXCEPT ![l] = "unregistered"]
     \/ /\ \A e \in ListLive : e.name # called[l]
        /\ launchAt' = [launchAt EXCEPT ![l] = "checked"]
  /\ UNCHANGED <<entries, clientAt, called, pidAlive, listed, copy, found,
                 opened>>

NewEntry(l) == [name |-> called[l], owner |-> l, ports |-> {}]

RegisterWrite(l) ==
  /\ launchAt[l] = "checked"
  /\ launchAt' = [launchAt EXCEPT ![l] = "registered"]
  /\ Store(NewEntry(l))
  /\ copy' = [copy EXCEPT ![l] = NewEntry(l)]
  /\ UNCHANGED <<clientAt, called, pidAlive, listed, found, opened>>

\* The monitor finds a port the workload listens on and forwards it ...
PortAdded(l) ==
  /\ launchAt[l] = "registered"
  /\ l \in pidAlive
  /\ found[l] = NoPort
  /\ \E port \in AutoPorts \ copy[l].ports :
       /\ found' = [found EXCEPT ![l] = port]
       /\ opened' = opened \cup {<<l, port>>}
  /\ UNCHANGED <<entries, launchAt, clientAt, called, pidAlive, listed, copy>>

WithPorts(e, ports) == [e EXCEPT !.ports = @ \cup ports]

\* ... and records it from its own copy of the session, which nothing refreshes.
\* The monitor runs until the process ends: this can follow the Remove.
PortRecorded(l) ==
  /\ found[l] # NoPort
  /\ launchAt[l] \in {"registered", "removed"}
  /\ LET e == WithPorts(copy[l], {found[l]}) IN
       /\ copy' = [copy EXCEPT ![l] = e]
       /\ Store(e)
  /\ found' = [found EXCEPT ![l] = NoPort]
  /\ UNCHANGED <<launchAt, clientAt, called, pidAlive, listed, opened>>

SandboxExits(l) ==
  /\ l \in pidAlive
  /\ pidAlive' = pidAlive \ {l}
  /\ UNCHANGED <<entries, launchAt, clientAt, called, listed, copy, found,
                 opened>>

\* The deferred Remove asks neither whether Register succeeded nor whose the
\* file is.
Deregister(l) ==
  /\ launchAt[l] \in {"registered", "unregistered"}
  /\ l \notin pidAlive
  /\ Delete(called[l])
  /\ launchAt' = [launchAt EXCEPT ![l] = "removed"]
  /\ UNCHANGED <<clientAt, called, pidAlive, listed, copy, found, opened>>

\* The process ends, after its Remove or killed before it; its sandbox dies
\* with it.
LaunchEnds(l) ==
  /\ launchAt[l] \notin {"start", "gone"}
  /\ launchAt' = [launchAt EXCEPT ![l] = "gone"]
  /\ pidAlive' = pidAlive \ {l}
  /\ listed' = [listed EXCEPT ![l] = {}]
  /\ found' = [found EXCEPT ![l] = NoPort]
  /\ UNCHANGED <<entries, clientAt, called, copy, opened>>

-----------------------------------------------------------------------------
(* A client: `sessions' ends after its sweep, `forward' goes on *)

ClientClean(c) ==
  /\ clientAt[c] = "start"
  /\ clientAt' = [clientAt EXCEPT ![c] = "sweep"]
  /\ listed' = [listed EXCEPT ![c] = List]
  /\ UNCHANGED <<entries, launchAt, called, pidAlive, copy, found, opened>>

\* A session asked for by name is taken as it is read (Get), alive or not; one
\* that is not named must be the only live one (FindSingle).
FindSession(c) ==
  /\ clientAt[c] = "sweep"
  /\ listed[c] = {}
  /\ \E e \in List :
       /\ e.name \in AskedNames \/ ListLive = {e}
       /\ copy' = [copy EXCEPT ![c] = e]
  /\ clientAt' = [clientAt EXCEPT ![c] = "found"]
  /\ UNCHANGED <<entries, launchAt, called, pidAlive, listed, found, opened>>

\* The forwarders are started, into the namespace of the copy's PID, and the
\* copy is written back with their ports.
Forward(c) ==
  /\ clientAt[c] = "found"
  /\ \E ports \in (SUBSET AskedPorts) \ {{}} :
       LET e == WithPorts(copy[c], ports) IN
         /\ copy' = [copy EXCEPT ![c] = e]
         /\ Store(e)
         /\ opened' = opened \cup {<<e.owner, port>> : port \in ports}
  /\ clientAt' = [clientAt EXCEPT ![c] = "forward"]
  /\ UNCHANGED <<launchAt, called, pidAlive, listed, found>>

\* The command is done, is stopped, or sees the sandbox exit.
ClientEnds(c) ==
  /\ clientAt[c] \notin {"start", "gone"}
  /\ clientAt' = [clientAt EXCEPT ![c] = "gone"]
  /\ listed' = [listed EXCEPT ![c] = {}]
  /\ UNCHANGED <<entries, launchAt, called, pidAlive, copy, found, opened>>

-----------------------------------------------------------------------------

LaunchSteps(l) ==
  \/ LaunchClean(l) \/ SweepOne(l) \/ ChooseName(l) \/ SandboxStarts(l)
  \/ StartFails(l) \/ RegisterCheck(l) \/ RegisterWrite(l) \/ PortAdded(l)
  \/ PortRecorded(l) \/ SandboxExits(l) \/ Deregister(l) \/ LaunchEnds(l)

ClientSteps(c) ==
  \/ ClientClean(c) \/ SweepOne(c) \/ FindSession(c) \/ Forward(c)
  \/ ClientEnds(c)

StoreNext ==
  \/ \E l \in Launches : LaunchSteps(l)
  \/ \E c \in Clients : ClientSteps(c)

StoreSpec == StoreInit /\ [][StoreNext]_storeVars

-----------------------------------------------------------------------------
(* Properties *)

Running(l) == launchAt[l] = "registered" /\ l \in pidAlive
SoleName(l) == \A m \in Launches \ {l} : called[m] # called[l]

\* While a registered sandbox runs, the file under its name is its own: a sweep
\* that listed a predecessor, an earlier session's Remove, a refused launch's
\* Remove or a `forward' with an old copy can take it away only if some other
\* launch went by the same name.
RecordKept ==
  \A l \in Launches :
    Running(l) /\ SoleName(l) =>
      entries[called[l]] # NoEntry /\ entries[called[l]].owner = l

\* What the file of such a session lists is what its own monitor forwards, unless
\* a `forward' has written its copy of that session back: the monitor's view is
\* not refreshed and neither is the command's, so each can only lose the other's.
PortsLostToForwardOnly ==
  \A l \in Launches :
    /\ Running(l) /\ SoleName(l)
    /\ entries[called[l]] # copy[l]
    => \E c \in Clients : copy[c] # NoEntry /\ copy[c].owner = l
                          /\ copy[c].ports \cap AskedPorts # {}

\* A port is listed under a session only if it was forwarded into that
\* session's own namespace: never into that of a predecessor or successor of
\* the same name.
PortsOfOwner ==
  \A n \in Names : entries[n] # NoEntry =>
    \A port \in entries[n].ports : <<entries[n].owner, port>> \in opened

\* What the commands that read the store may rely on.
StoreKept == RecordKept /\ PortsLostToForwardOnly /\ PortsOfOwner
=============================================================================
