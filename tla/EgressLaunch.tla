----------------------------- MODULE EgressLaunch -----------------------------
(***************************************************************************)
(* A proxy launch of the bubblewrap backend (internal/isolator/bwrap.go,   *)
(* internal/bwrap, internal/egress): a preflight that tries the rules in a *)
(* namespace of its own, then pasta, whose first child is a shell script   *)
(* that restricts the network namespace, leaves a marker and becomes the   *)
(* workload; beside it devsandbox looks for the child's pid, waits, and    *)
(* turns the exit status into what the user is told.                       *)
(***************************************************************************)
EXTENDS Integers, Sequences

CONSTANTS
  OutboundLists, \* the lists of (TCP) ports the user may forward out of the sandbox
  Statuses,      \* exit statuses a workload may have
  LookupFailed   \* the status of a shell that cannot find a command

LockdownExitCode == 78
BySignal == -1     \* ended by a signal: ExitError.ExitCode is -1
Alive == -2      \* the outermost process has not ended

VARIABLES
  hostTools,     \* what the host has: ip, the firewall backend, --map-host-loopback
  forwards,      \* the outbound forwards configured
  pastaAt,      \* devsandbox: where it is
  scriptLine,          \* the next command of the script
  scriptAt,      \* the script: where it is
  netns,         \* the network namespace pasta made
  marker,        \* the ready file
  status,        \* what the outermost process ended with, or Alive
  report         \* what the launch returned

egressVars == <<hostTools, forwards, pastaAt, scriptLine, scriptAt, netns, marker, status,
                report>>

Backends == {"nft", "iptables", "none"}
Proxy == "proxy"
PortSet(list) == {list[i] : i \in DOMAIN list}
Outbound == UNION {PortSet(list) : list \in OutboundLists}
NetNS == [gateway : BOOLEAN, default : BOOLEAN, drop : BOOLEAN,
          accepts : SUBSET ({"established", "lo", Proxy} \cup Outbound),
          auto : SUBSET {"tcp", "udp"}]

EgressTypeOK ==
  /\ hostTools \in [ip : BOOLEAN, backend : Backends, maps : BOOLEAN]
  /\ forwards \in OutboundLists
  /\ pastaAt \in {"preflight", "probe", "markerDir", "start", "locate", "kill",
                   "wait", "returned"}
  /\ scriptAt \in {"none", "forking", "device", "commands", "mark", "workload", "gone"}
  /\ netns \in NetNS /\ marker \in BOOLEAN
  /\ status \in Statuses \cup {1, LockdownExitCode, LookupFailed, BySignal, Alive}

-----------------------------------------------------------------------------
(* What the script runs *)

RouteCommands == << "gatewayRoute", "noDefault" >>

\* nft has the policy first, iptables appends the accepts before it drops.
FirewallCommands(backend, ports) ==
  LET accepts == << "established", "lo", Proxy >> \o ports
  IN IF backend = "nft" THEN << "drop" >> \o accepts ELSE accepts \o << "drop" >>

Commands == RouteCommands \o FirewallCommands(hostTools.backend, forwards)

\* A forward is not named like one of the script's own commands.
ASSUME EgressAssumption ==
  /\ \A list \in OutboundLists : list \in Seq(Outbound)
  /\ Outbound \cap {"gatewayRoute", "noDefault", "drop"} = {}
  /\ Statuses \subseteq Nat /\ LookupFailed \in Nat

Apply(command, ns) ==
  CASE command = "gatewayRoute" -> [ns EXCEPT !.gateway = TRUE]
    [] command = "noDefault" -> [ns EXCEPT !.default = FALSE]
    [] command = "drop" -> [ns EXCEPT !.drop = TRUE]
    [] OTHER -> [ns EXCEPT !.accepts = @ \cup {command}]

\* NoAutoForwardArgs: pasta is told not to forward by itself, but for the protocol
\* of a configured forward, which pasta's own setting does not touch.
AutoForwards == IF forwards = <<>> THEN {} ELSE {"tcp"}

EgressInit ==
  /\ hostTools \in [ip : BOOLEAN, backend : Backends, maps : BOOLEAN]
  /\ forwards \in OutboundLists
  /\ pastaAt = "preflight" /\ scriptLine = 1 /\ scriptAt = "none"
  /\ netns = [gateway |-> FALSE, default |-> TRUE, drop |-> FALSE, accepts |-> {},
              auto |-> {"tcp", "udp"}]
  /\ marker = FALSE /\ status = Alive /\ report = "none"

-----------------------------------------------------------------------------
(* devsandbox *)

Return(what) == pastaAt' = "returned" /\ report' = what
KeepScript == UNCHANGED <<scriptLine, scriptAt, netns, marker, status>>

\* ResolveTools
ResolveTools ==
  /\ pastaAt = "preflight"
  /\ IF hostTools.ip /\ hostTools.backend # "none"
     THEN pastaAt' = "probe" /\ UNCHANGED report
     ELSE Return("preflight")
  /\ KeepScript /\ UNCHANGED <<hostTools, forwards>>

\* Probe: the rules, in a throwaway namespace; the kernel may refuse them.
ProbeRules ==
  /\ pastaAt = "probe"
  /\ \/ pastaAt' = "markerDir" /\ UNCHANGED report
     \/ Return("preflight")
  /\ KeepScript /\ UNCHANGED <<hostTools, forwards>>

MakeMarkerDir ==
  /\ pastaAt = "markerDir"
  /\ \/ pastaAt' = "start" /\ UNCHANGED report
     \/ Return("notStarted")
  /\ KeepScript /\ UNCHANGED <<hostTools, forwards>>

\* StartWithPasta refuses a pasta that cannot map the gateway.
StartPasta ==
  /\ pastaAt = "start"
  /\ \/ /\ hostTools.maps
        /\ pastaAt' = "locate" /\ scriptAt' = "forking"
        /\ netns' = [netns EXCEPT !.auto = AutoForwards]
        /\ UNCHANGED report
     \/ Return("notStarted") /\ UNCHANGED <<scriptAt, netns>>
  /\ UNCHANGED <<hostTools, forwards, scriptLine, marker, status>>

\* waitForFirstChildPID sees the child while it is there.
LocateChild ==
  /\ pastaAt = "locate" /\ status = Alive /\ scriptAt # "forking"
  /\ pastaAt' = "wait"
  /\ KeepScript /\ UNCHANGED <<hostTools, forwards, report>>

\* It finds pasta over, or nothing in its time.
GiveUpLocating ==
  /\ pastaAt = "locate"
  /\ pastaAt' = "kill"
  /\ KeepScript /\ UNCHANGED <<hostTools, forwards, report>>

\* Mutant: the status alone tells an abort.
AsLockdownOrCommandExit_StatusOnly(s) ==
  IF s = LockdownExitCode THEN "lockdown" ELSE "exit"
\* asLockdownOrCommandExit
AsLockdownOrCommandExit(s) ==
  IF s = LockdownExitCode /\ ~marker THEN "lockdown" ELSE "exit"

\* The kill hits a pasta that has not ended; the script, in a pid namespace of its
\* own, may go on.  A lockdown's status is handed on.
KillPasta ==
  /\ pastaAt = "kill"
  /\ LET s == IF status = Alive THEN BySignal ELSE status
     IN /\ status' = s
        /\ scriptAt' \in {scriptAt, "gone"}
        /\ Return(IF s = LockdownExitCode THEN AsLockdownOrCommandExit(s)
                  ELSE "notLocated")
  /\ UNCHANGED <<hostTools, forwards, scriptLine, netns, marker>>

WaitPasta ==
  /\ pastaAt = "wait" /\ status # Alive
  /\ Return(AsLockdownOrCommandExit(status))
  /\ KeepScript /\ UNCHANGED <<hostTools, forwards>>

-----------------------------------------------------------------------------
(* The script, pasta's first child *)

KeepLaunch == UNCHANGED <<hostTools, forwards, pastaAt, report>>

\* The script is over, and pasta with it, if it is still there to hand on the status.
Ends(s) == scriptAt' = "gone" /\ status' = IF status = Alive THEN s ELSE status

\* pasta makes the namespace and forks; or it fails by itself.
Fork ==
  /\ scriptAt = "forking"
  /\ \/ scriptAt' = "device" /\ UNCHANGED status
     \/ Ends(1)
  /\ KeepLaunch /\ UNCHANGED <<scriptLine, netns, marker>>

\* fail, and the EXIT trap: whatever goes wrong ends with this status.
Abort ==
  /\ Ends(LockdownExitCode)
  /\ UNCHANGED <<scriptLine, netns, marker>>

\* The loop that waits for a default route: found, or never, or `ip' fails.
FindDevice ==
  /\ scriptAt = "device"
  /\ \/ scriptAt' = "commands" /\ UNCHANGED <<scriptLine, netns, marker, status>>
     \/ Abort
  /\ KeepLaunch

Command ==
  /\ scriptAt = "commands" /\ scriptLine <= Len(Commands)
  /\ \/ netns' = Apply(Commands[scriptLine], netns) /\ scriptLine' = scriptLine + 1
        /\ UNCHANGED <<scriptAt, marker, status>>
     \/ Abort
  /\ KeepLaunch

\* : > marker
Mark ==
  /\ scriptAt = "commands" /\ scriptLine > Len(Commands)
  /\ \/ marker' = TRUE /\ scriptAt' = "mark" /\ UNCHANGED <<scriptLine, netns, status>>
     \/ Abort
  /\ KeepLaunch

\* The trap is cleared; exec, which fails when bwrap is not there.
Exec ==
  /\ scriptAt = "mark"
  /\ \/ scriptAt' = "workload" /\ UNCHANGED status
     \/ Ends(LookupFailed)
  /\ KeepLaunch /\ UNCHANGED <<scriptLine, netns, marker>>

WorkloadExits ==
  /\ scriptAt = "workload"
  /\ \E s \in Statuses \cup {BySignal} : Ends(s)
  /\ KeepLaunch /\ UNCHANGED <<scriptLine, netns, marker>>

LaunchStage ==
  \/ ResolveTools \/ ProbeRules \/ MakeMarkerDir \/ StartPasta \/ LocateChild
  \/ GiveUpLocating \/ KillPasta \/ WaitPasta
ScriptStage == Fork \/ FindDevice \/ Command \/ Mark \/ Exec \/ WorkloadExits

EgressNext == LaunchStage \/ ScriptStage

EgressSpec == EgressInit /\ [][EgressNext]_egressVars

-----------------------------------------------------------------------------
(* Properties *)

\* The workload runs only where nothing but the proxy and the configured forwards
\* can be reached; an abort is never told as the workload's own exit, nor the
\* workload's status 78 as an abort, however the script races the search for its pid.
EgressAsReported ==
  /\ scriptAt = "workload" =>
       /\ netns.gateway /\ ~netns.default /\ netns.drop
       /\ netns.accepts = {"established", "lo", Proxy} \cup PortSet(forwards)
       /\ netns.auto \subseteq (IF forwards = <<>> THEN {} ELSE {"tcp"})
  /\ report = "lockdown" => ~marker
  /\ report = "exit" => marker
  /\ report \in {"preflight", "notStarted"} => scriptAt = "none"
=============================================================================
