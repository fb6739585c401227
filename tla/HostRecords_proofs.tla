------------------------- MODULE HostRecords_proofs --------------------------
(***************************************************************************)
(* The steps that leave a record on the host, for any number of launches,  *)
(* sessions, projects and sandboxes: the launch script and its marker, the *)
(* accounting of OOM kills, approvals of configuration files, the removal  *)
(* of sandboxes and the set-up of a sandbox's home.                        *)
(***************************************************************************)
EXTENDS EgressLaunch, OOMWatch, ConfigTrust, SandboxRemoval, ShimSetup,
        Induction, SequenceTheorems, FiniteSetTheorems

-----------------------------------------------------------------------------
(* The proxy launch of the bubblewrap backend: the workload never runs before
   every command of the script has been applied, and the marker tells an abort
   from the workload's own exit however the search for its pid goes.         *)

OwnCommands == {"gatewayRoute", "noDefault", "drop"}

-----------------------------------------------------------------------------
(* The script *)

WantedCommands(ports) == {"established", "lo", Proxy} \cup PortSet(ports)

\* The firewall's part is the policy and one accept per destination, in either order.
LEMMA FirewallIs ==
  ASSUME NEW ports \in Seq(Outbound), NEW backend
  PROVE  /\ FirewallCommands(backend, ports) \in Seq({"drop"} \cup WantedCommands(ports))
         /\ PortSet(FirewallCommands(backend, ports)) = {"drop"} \cup WantedCommands(ports)
PROOF
<1> DEFINE head == << "established", "lo", Proxy >>
           accepts == head \o ports
           C == {"drop"} \cup WantedCommands(ports)
<1>0. ports \in Seq(PortSet(ports))
  BY DEF PortSet
<1>1. head \in Seq(C) /\ ports \in Seq(C) /\ <<"drop">> \in Seq(C)
  BY <1>0 DEF WantedCommands, PortSet
<1>2. accepts \in Seq(C) /\ PortSet(accepts) = WantedCommands(ports)
  <2>1. accepts \in Seq(C)
    BY <1>1, ConcatProperties
  <2>2. Len(accepts) = 3 + Len(ports)
    BY <1>1, ConcatProperties
  <2>3. accepts[1] = "established" /\ accepts[2] = "lo" /\ accepts[3] = Proxy
    BY <1>1
  <2>4. \A i \in 1..Len(ports) : accepts[i + 3] = ports[i]
    BY <1>1
  <2>5. \A i \in 1..Len(accepts) :
          i = 1 \/ i = 2 \/ i = 3 \/ (i - 3 \in 1..Len(ports) /\ i = (i - 3) + 3)
    BY <2>2, <1>0
  <2>6. DOMAIN accepts = 1..Len(accepts) /\ DOMAIN ports = 1..Len(ports)
    BY <2>1, <1>1
  <2>7. PortSet(accepts) \subseteq WantedCommands(ports)
    BY <2>3, <2>4, <2>5, <2>6 DEF PortSet, WantedCommands
  <2>8. PortSet(ports) \subseteq PortSet(accepts)
    <3>1. \A i \in 1..Len(ports) : i + 3 \in 1..Len(accepts)
      BY <2>2, <1>0
    <3> QED BY <3>1, <2>4, <2>6 DEF PortSet
  <2>9. {"established", "lo", Proxy} \subseteq PortSet(accepts)
    <3>1. {1, 2, 3} \subseteq 1..Len(accepts)
      BY <2>2, <1>0
    <3> QED BY <3>1, <2>3, <2>6 DEF PortSet
  <2> QED BY <2>1, <2>7, <2>8, <2>9 DEF WantedCommands
<1>3. ASSUME NEW s \in Seq(C), NEW t \in Seq(C)
      PROVE  s \o t \in Seq(C) /\ PortSet(s \o t) = PortSet(s) \cup PortSet(t)
  <2>1. s \o t \in Seq(C) /\ Len(s \o t) = Len(s) + Len(t)
    BY <1>3, ConcatProperties
  <2>2. \A i \in 1..Len(s) : i \in 1..Len(s \o t) /\ (s \o t)[i] = s[i]
    BY <1>3, <2>1
  <2>3. \A i \in 1..Len(t) : Len(s) + i \in 1..Len(s \o t) /\ (s \o t)[Len(s) + i] = t[i]
    BY <1>3, <2>1
  <2>4. \A i \in 1..Len(s \o t) :
          i \in 1..Len(s) \/ (i - Len(s) \in 1..Len(t) /\ i = Len(s) + (i - Len(s)))
    BY <1>3, <2>1
  <2>5. DOMAIN (s \o t) = 1..Len(s \o t) /\ DOMAIN s = 1..Len(s) /\ DOMAIN t = 1..Len(t)
    BY <1>3, <2>1
  <2>6. PortSet(s) \cup PortSet(t) \subseteq PortSet(s \o t)
    BY <2>2, <2>3, <2>5 DEF PortSet
  <2>7. PortSet(s \o t) \subseteq PortSet(s) \cup PortSet(t)
    BY <2>2, <2>3, <2>4, <2>5 DEF PortSet
  <2> QED BY <2>1, <2>6, <2>7
<1>4. PortSet(<<"drop">>) = {"drop"}
  BY DEF PortSet
<1>5. CASE backend = "nft"
  <2>1. FirewallCommands(backend, ports) = <<"drop">> \o accepts
    BY <1>5 DEF FirewallCommands
  <2> HIDE DEF accepts, C
  <2>2. /\ <<"drop">> \o accepts \in Seq(C)
        /\ PortSet(<<"drop">> \o accepts) = {"drop"} \cup WantedCommands(ports)
    BY <1>1, <1>2, <1>3, <1>4
  <2> QED BY <2>1, <2>2 DEF C
<1>6. CASE backend # "nft"
  <2>1. FirewallCommands(backend, ports) = accepts \o <<"drop">>
    BY <1>6 DEF FirewallCommands
  <2> HIDE DEF accepts, C
  <2>2. /\ accepts \o <<"drop">> \in Seq(C)
        /\ PortSet(accepts \o <<"drop">>) = PortSet(accepts) \cup PortSet(<<"drop">>)
    BY <1>1, <1>2, <1>3
  <2>3. PortSet(accepts \o <<"drop">>) = {"drop"} \cup WantedCommands(ports)
    BY <2>2, <1>2, <1>4
  <2> QED BY <2>1, <2>2, <2>3 DEF C
<1> QED BY <1>5, <1>6

\* The script is the two route commands and the firewall's.
LEMMA CommandsAre ==
  ASSUME forwards \in OutboundLists
  PROVE  /\ Commands \in Seq(OwnCommands \cup WantedCommands(forwards))
         /\ PortSet(Commands) = OwnCommands \cup WantedCommands(forwards)
PROOF
<1> DEFINE fw == FirewallCommands(hostTools.backend, forwards)
           C == OwnCommands \cup WantedCommands(forwards)
<1>1. forwards \in Seq(Outbound)
  BY EgressAssumption
<1>2. fw \in Seq({"drop"} \cup WantedCommands(forwards))
          /\ PortSet(fw) = {"drop"} \cup WantedCommands(forwards)
  BY <1>1, FirewallIs
<1>3. fw \in Seq(C) /\ RouteCommands \in Seq(C) /\ Len(RouteCommands) = 2
  BY <1>2 DEF OwnCommands, RouteCommands
<1> HIDE DEF fw, C
<1>4. Commands = RouteCommands \o fw
  BY DEF Commands, fw
<1>5. Commands \in Seq(C) /\ Len(Commands) = 2 + Len(fw)
  <2>1. Len(RouteCommands \o fw) = Len(RouteCommands) + Len(fw) /\ RouteCommands \o fw \in Seq(C)
    BY <1>3, ConcatProperties
  <2> QED BY <2>1, <1>3, <1>4
<1>6. Commands[1] = "gatewayRoute" /\ Commands[2] = "noDefault"
  BY <1>3, <1>4 DEF RouteCommands
<1>7. \A i \in 1..Len(fw) : i + 2 \in 1..Len(Commands) /\ Commands[i + 2] = fw[i]
  BY <1>3, <1>4, <1>5
<1>8. DOMAIN Commands = 1..Len(Commands) /\ DOMAIN fw = 1..Len(fw) /\ Len(fw) \in Nat
  BY <1>3, <1>5
<1>9. \A i \in 1..Len(Commands) :
        i = 1 \/ i = 2 \/ (i - 2 \in 1..Len(fw) /\ i = (i - 2) + 2)
  BY <1>5, <1>8
<1>10. PortSet(Commands) \subseteq {"gatewayRoute", "noDefault"} \cup PortSet(fw)
  <2>1. ASSUME NEW i \in DOMAIN Commands
        PROVE  Commands[i] \in {"gatewayRoute", "noDefault"} \cup PortSet(fw)
    <3>1. CASE i = 1 \/ i = 2
      BY <3>1, <1>6
    <3>2. CASE i - 2 \in 1..Len(fw) /\ i = (i - 2) + 2
      <4>1. Commands[i] = fw[i - 2] /\ i - 2 \in DOMAIN fw
        BY <3>2, <1>7, <1>8
      <4> QED BY <4>1 DEF PortSet
    <3> QED BY <3>1, <3>2, <1>8, <1>9
  <2> QED BY <2>1 DEF PortSet
<1>11. PortSet(fw) \subseteq PortSet(Commands)
  BY <1>7, <1>8 DEF PortSet
<1>12. {"gatewayRoute", "noDefault"} \subseteq PortSet(Commands)
  <2>1. 1 \in DOMAIN Commands /\ 2 \in DOMAIN Commands
    BY <1>5, <1>8
  <2> QED BY <2>1, <1>6 DEF PortSet
<1> QED BY <1>2, <1>5, <1>10, <1>11, <1>12 DEF C, OwnCommands

-----------------------------------------------------------------------------
(* The invariant *)

\* The commands before the script's next line.
CommandsDone == {Commands[i] : i \in 1..(scriptLine - 1)}

\* What the namespace is, by what has been run.
AppliedSoFar ==
  /\ netns.gateway <=> "gatewayRoute" \in CommandsDone
  /\ netns.default <=> "noDefault" \notin CommandsDone
  /\ netns.drop <=> "drop" \in CommandsDone
  /\ netns.accepts = CommandsDone \ OwnCommands
  /\ scriptAt # "none" => netns.auto = AutoForwards

\* Where the script is, and what that says of the marker and of the launch.
ScriptPlace ==
  /\ scriptLine \in 1..(Len(Commands) + 1)
  /\ pastaAt \in {"preflight", "probe", "markerDir", "start"} => scriptAt = "none"
  /\ pastaAt \in {"locate", "kill", "wait"} => scriptAt # "none"
  /\ scriptAt \in {"none", "forking", "device", "commands"} => ~marker
  /\ scriptAt \in {"mark", "workload"} => marker /\ scriptLine = Len(Commands) + 1
  /\ status \notin {Alive, BySignal} => scriptAt = "gone"
  /\ pastaAt = "wait" =>
       /\ scriptAt \notin {"none", "forking"}
       /\ status \notin {Alive, LockdownExitCode} => marker

\* What the launch has said.
ExitTold ==
  /\ report # "none" => pastaAt = "returned"
  /\ report = "lockdown" => ~marker /\ scriptAt = "gone"
  /\ report = "exit" => marker
  /\ report \in {"preflight", "notStarted"} => scriptAt = "none"

EgressInv == EgressTypeOK /\ AppliedSoFar /\ ScriptPlace /\ ExitTold

-----------------------------------------------------------------------------
(* The steps *)

LEMMA EgressInitOK == EgressInit => EgressInv
PROOF
<1> SUFFICES ASSUME EgressInit PROVE EgressInv
  OBVIOUS
<1> USE DEF EgressInit
<1>1. CommandsDone = {}
  BY DEF CommandsDone
<1>2. Len(Commands) \in Nat
  BY CommandsAre
<1>3. netns \in NetNS
  BY DEF NetNS
<1>4. EgressTypeOK
  BY <1>3 DEF EgressTypeOK
<1>5. AppliedSoFar
  BY <1>1 DEF AppliedSoFar
<1>6. ScriptPlace /\ ExitTold
  BY <1>2 DEF ScriptPlace, ExitTold, Alive
<1> QED BY <1>4, <1>5, <1>6 DEF EgressInv

\* A step of devsandbox moves neither the script nor the namespace, except to start it.
LEMMA EgressLaunchStep ==
  ASSUME EgressInv, LaunchStage PROVE EgressInv'
PROOF
<1> USE EgressAssumption DEF Return, KeepScript
<1>1. UNCHANGED <<hostTools, forwards, scriptLine, marker>>
  BY DEF LaunchStage, ResolveTools, ProbeRules, MakeMarkerDir, StartPasta, LocateChild,
         GiveUpLocating, KillPasta, WaitPasta
<1>2. Commands' = Commands /\ CommandsDone' = CommandsDone /\ AutoForwards' = AutoForwards
  BY <1>1 DEF Commands, CommandsDone, AutoForwards, FirewallCommands, RouteCommands
<1> USE DEF EgressInv
<1>3. CASE ResolveTools
  BY <1>1, <1>2, <1>3 DEF ResolveTools, EgressTypeOK, AppliedSoFar, ScriptPlace, ExitTold
<1>4. CASE ProbeRules
  BY <1>1, <1>2, <1>4 DEF ProbeRules, EgressTypeOK, AppliedSoFar, ScriptPlace, ExitTold
<1>5. CASE MakeMarkerDir
  BY <1>1, <1>2, <1>5 DEF MakeMarkerDir, EgressTypeOK, AppliedSoFar, ScriptPlace, ExitTold
<1>6. CASE StartPasta
  <2>1. EgressTypeOK'
    BY <1>1, <1>6 DEF StartPasta, EgressTypeOK, NetNS, AutoForwards
  <2>2. AppliedSoFar'
    BY <1>1, <1>2, <1>6 DEF StartPasta, EgressTypeOK, NetNS, AppliedSoFar
  <2>3. ScriptPlace' /\ ExitTold'
    BY <1>1, <1>2, <1>6 DEF StartPasta, ScriptPlace, ExitTold
  <2> QED BY <2>1, <2>2, <2>3
<1>7. CASE LocateChild
  <2>1. EgressTypeOK'
    BY <1>1, <1>7 DEF LocateChild, EgressTypeOK
  <2>2. AppliedSoFar'
    BY <1>1, <1>2, <1>7 DEF LocateChild, AppliedSoFar
  <2>3. ScriptPlace'
    BY <1>1, <1>2, <1>7 DEF LocateChild, ScriptPlace
  <2>4. ExitTold'
    BY <1>1, <1>7 DEF LocateChild, ExitTold
  <2> QED BY <2>1, <2>2, <2>3, <2>4
<1>8. CASE GiveUpLocating
  BY <1>1, <1>2, <1>8 DEF GiveUpLocating, EgressTypeOK, AppliedSoFar, ScriptPlace, ExitTold
<1>9. CASE KillPasta
  <2> DEFINE s == IF status = Alive THEN BySignal ELSE status
  <2>1. /\ pastaAt = "kill" /\ status' = s /\ scriptAt' \in {scriptAt, "gone"}
        /\ pastaAt' = "returned" /\ netns' = netns
        /\ report' = IF s = LockdownExitCode THEN AsLockdownOrCommandExit(s)
                     ELSE "notLocated"
    BY <1>9 DEF KillPasta
  <2>2. s = LockdownExitCode => status = LockdownExitCode /\ scriptAt = "gone"
    BY DEF ScriptPlace, BySignal, LockdownExitCode, Alive
  <2>3. scriptAt' \in {"none", "forking", "device", "commands", "mark", "workload", "gone"}
    BY <2>1 DEF EgressTypeOK
  <2>4. status' \in Statuses \cup {1, LockdownExitCode, LookupFailed, BySignal, Alive}
    BY <2>1 DEF EgressTypeOK
  <2>5. EgressTypeOK'
    BY <1>1, <2>1, <2>3, <2>4 DEF EgressTypeOK
  <2>6. AppliedSoFar'
    BY <1>1, <1>2, <2>1 DEF AppliedSoFar, ScriptPlace
  <2>7. ScriptPlace'
    BY <1>1, <1>2, <2>1 DEF ScriptPlace
  <2>8. ExitTold'
    BY <1>1, <2>1, <2>2 DEF ExitTold, AsLockdownOrCommandExit
  <2> QED BY <2>5, <2>6, <2>7, <2>8
<1>10. CASE WaitPasta
  <2>1. /\ pastaAt = "wait" /\ status # Alive /\ pastaAt' = "returned"
        /\ report' = AsLockdownOrCommandExit(status)
        /\ UNCHANGED <<netns, status, scriptAt>>
    BY <1>10 DEF WaitPasta
  <2>2. EgressTypeOK' /\ AppliedSoFar' /\ ScriptPlace'
    BY <1>1, <1>2, <2>1 DEF EgressTypeOK, AppliedSoFar, ScriptPlace
  <2>3. status = LockdownExitCode => scriptAt = "gone"
    BY DEF ScriptPlace, LockdownExitCode, Alive, BySignal
  <2>4. ExitTold'
    BY <1>1, <2>1, <2>3 DEF ExitTold, ScriptPlace, AsLockdownOrCommandExit
  <2> QED BY <2>2, <2>4
<1> QED BY <1>3, <1>4, <1>5, <1>6, <1>7, <1>8, <1>9, <1>10 DEF LaunchStage

\* The script ends with a status that is a status, or pasta was gone before it.
LEMMA EndOK ==
  ASSUME EgressInv, NEW s \in Statuses \cup {1, LockdownExitCode, LookupFailed, BySignal},
         Ends(s), scriptAt # "none", KeepLaunch, UNCHANGED <<scriptLine, netns, marker>>,
         marker \/ s = LockdownExitCode \/ pastaAt # "wait"
  PROVE  EgressInv'
PROOF
<1> USE EgressAssumption DEF EgressInv, KeepLaunch, Ends
<1>1. Commands' = Commands /\ CommandsDone' = CommandsDone /\ AutoForwards' = AutoForwards
  BY DEF Commands, CommandsDone, AutoForwards, FirewallCommands, RouteCommands
<1>2. EgressTypeOK'
  BY DEF EgressTypeOK
<1>3. AppliedSoFar'
  BY <1>1 DEF AppliedSoFar
<1>4. ScriptPlace'
  BY <1>1 DEF ScriptPlace, Alive, BySignal, LockdownExitCode
<1>5. ExitTold'
  BY DEF ExitTold
<1> QED BY <1>2, <1>3, <1>4, <1>5

\* A command of the script does to the namespace what it says.
LEMMA CommandOK ==
  ASSUME EgressInv, scriptAt = "commands", scriptLine <= Len(Commands), KeepLaunch,
         netns' = Apply(Commands[scriptLine], netns), scriptLine' = scriptLine + 1,
         UNCHANGED <<scriptAt, marker, status>>
  PROVE  EgressInv'
PROOF
<1> USE DEF EgressInv, KeepLaunch
<1>1. Commands' = Commands /\ AutoForwards' = AutoForwards
  BY DEF Commands, AutoForwards, FirewallCommands, RouteCommands
<1>2. Commands \in Seq(OwnCommands \cup WantedCommands(forwards)) /\ forwards \in OutboundLists
  BY CommandsAre DEF EgressTypeOK
<1>3. scriptLine \in 1..Len(Commands) /\ scriptLine + 1 \in 1..(Len(Commands) + 1)
  BY <1>2 DEF ScriptPlace
<1> DEFINE c == Commands[scriptLine]
<1>4. c \in OwnCommands \cup WantedCommands(forwards)
  BY <1>2, <1>3
<1>5. CommandsDone' = CommandsDone \cup {c}
  <2>1. CommandsDone' = {Commands[i] : i \in 1..scriptLine}
    BY <1>1, <1>3 DEF CommandsDone
  <2>2. 1..scriptLine = (1..(scriptLine - 1)) \cup {scriptLine}
    BY <1>3
  <2> QED BY <2>1, <2>2 DEF CommandsDone
<1>6. WantedCommands(forwards) \subseteq {"established", "lo", Proxy} \cup Outbound
  BY <1>2 DEF WantedCommands, Outbound
<1>7. Outbound \cap OwnCommands = {}
  BY EgressAssumption DEF OwnCommands
<1>8. c \notin OwnCommands => c \in {"established", "lo", Proxy} \cup Outbound
  BY <1>4, <1>6
<1>9. netns \in NetNS /\ AppliedSoFar
  BY DEF EgressTypeOK
<1>10. netns' \in NetNS /\ AppliedSoFar'
  <2>1. CASE c = "gatewayRoute"
    <3>1. netns' = [netns EXCEPT !.gateway = TRUE]
      BY <2>1 DEF Apply
    <3>2. "noDefault" \in CommandsDone' <=> "noDefault" \in CommandsDone
      BY <1>5, <2>1
    <3>3. "drop" \in CommandsDone' <=> "drop" \in CommandsDone
      BY <1>5, <2>1
    <3>4. CommandsDone' \ OwnCommands = CommandsDone \ OwnCommands
              /\ "gatewayRoute" \in CommandsDone'
      BY <1>5, <2>1 DEF OwnCommands
    <3>5. /\ netns' \in NetNS /\ netns'.gateway = TRUE
          /\ netns'.default = netns.default /\ netns'.drop = netns.drop
          /\ netns'.accepts = netns.accepts /\ netns'.auto = netns.auto
      BY <3>1, <1>9 DEF NetNS
    <3> QED BY <3>2, <3>3, <3>4, <3>5, <1>1, <1>9 DEF AppliedSoFar
  <2>2. CASE c = "noDefault"
    <3>1. netns' = [netns EXCEPT !.default = FALSE]
      BY <2>2 DEF Apply
    <3>2. "gatewayRoute" \in CommandsDone' <=> "gatewayRoute" \in CommandsDone
      BY <1>5, <2>2
    <3>3. "drop" \in CommandsDone' <=> "drop" \in CommandsDone
      BY <1>5, <2>2
    <3>4. CommandsDone' \ OwnCommands = CommandsDone \ OwnCommands /\ "noDefault" \in CommandsDone'
      BY <1>5, <2>2 DEF OwnCommands
    <3>5. /\ netns' \in NetNS /\ netns'.default = FALSE
          /\ netns'.gateway = netns.gateway /\ netns'.drop = netns.drop
          /\ netns'.accepts = netns.accepts /\ netns'.auto = netns.auto
      BY <3>1, <1>9 DEF NetNS
    <3> QED BY <3>2, <3>3, <3>4, <3>5, <1>1, <1>9 DEF AppliedSoFar
  <2>3. CASE c = "drop"
    <3>1. netns' = [netns EXCEPT !.drop = TRUE]
      BY <2>3 DEF Apply
    <3>2. "gatewayRoute" \in CommandsDone' <=> "gatewayRoute" \in CommandsDone
      BY <1>5, <2>3
    <3>3. "noDefault" \in CommandsDone' <=> "noDefault" \in CommandsDone
      BY <1>5, <2>3
    <3>4. CommandsDone' \ OwnCommands = CommandsDone \ OwnCommands /\ "drop" \in CommandsDone'
      BY <1>5, <2>3 DEF OwnCommands
    <3>5. /\ netns' \in NetNS /\ netns'.drop = TRUE
          /\ netns'.gateway = netns.gateway /\ netns'.default = netns.default
          /\ netns'.accepts = netns.accepts /\ netns'.auto = netns.auto
      BY <3>1, <1>9 DEF NetNS
    <3> QED BY <3>2, <3>3, <3>4, <3>5, <1>1, <1>9 DEF AppliedSoFar
  <2>4. CASE c \notin OwnCommands
    <3>1. netns' = [netns EXCEPT !.accepts = @ \cup {c}]
      BY <2>4 DEF Apply, OwnCommands
    <3>2. \A w \in OwnCommands : w \in CommandsDone' <=> w \in CommandsDone
      BY <1>5, <2>4
    <3>3. CommandsDone' \ OwnCommands = (CommandsDone \ OwnCommands) \cup {c}
      BY <1>5, <2>4
    <3>4. netns'.accepts = netns.accepts \cup {c} /\ netns' \in NetNS
      BY <3>1, <1>8, <1>9, <2>4 DEF NetNS
    <3>5. /\ netns'.gateway = netns.gateway /\ netns'.default = netns.default
          /\ netns'.drop = netns.drop /\ netns'.auto = netns.auto
      BY <3>1, <1>9 DEF NetNS
    <3>6. /\ "gatewayRoute" \in CommandsDone' <=> "gatewayRoute" \in CommandsDone
          /\ "noDefault" \in CommandsDone' <=> "noDefault" \in CommandsDone
          /\ "drop" \in CommandsDone' <=> "drop" \in CommandsDone
      BY <3>2 DEF OwnCommands
    <3> QED BY <3>3, <3>4, <3>5, <3>6, <1>1, <1>9 DEF AppliedSoFar
  <2> QED BY <2>1, <2>2, <2>3, <2>4 DEF OwnCommands
<1>11. EgressTypeOK'
  BY <1>10 DEF EgressTypeOK
<1>12. ScriptPlace' /\ ExitTold'
  BY <1>1, <1>3 DEF ScriptPlace, ExitTold
<1> QED BY <1>10, <1>11, <1>12

LEMMA ScriptStep ==
  ASSUME EgressInv, ScriptStage PROVE EgressInv'
PROOF
<1> USE EgressAssumption
<1>1. KeepLaunch
  BY DEF ScriptStage, Fork, FindDevice, Command, Mark, Exec, WorkloadExits
<1>2. AutoForwards' = AutoForwards /\ Commands' = Commands
  BY <1>1 DEF KeepLaunch, Commands, AutoForwards, FirewallCommands, RouteCommands
<1>3. ASSUME Abort, scriptAt # "none" PROVE EgressInv'
  BY <1>1, <1>3, EndOK DEF Abort
<1>4. ASSUME UNCHANGED <<scriptLine, netns>> PROVE CommandsDone' = CommandsDone
  BY <1>2, <1>4 DEF CommandsDone
<1>5. CASE Fork
  <2>1. CASE Ends(1)
    <3>1. pastaAt # "wait"
      BY <1>5 DEF Fork, EgressInv, ScriptPlace
    <3> QED BY <1>1, <1>5, <2>1, <3>1, EndOK DEF Fork
  <2>2. CASE scriptAt' = "device" /\ UNCHANGED status
    <3>1. UNCHANGED <<scriptLine, netns, marker>> /\ CommandsDone' = CommandsDone
              /\ scriptAt = "forking"
      BY <1>4, <1>5 DEF Fork
    <3> QED BY <1>1, <1>2, <2>2, <3>1
            DEF EgressInv, EgressTypeOK, AppliedSoFar, ScriptPlace, ExitTold, KeepLaunch
  <2> QED BY <1>5, <2>1, <2>2 DEF Fork
<1>6. CASE FindDevice
  <2>1. CASE scriptAt' = "commands" /\ UNCHANGED <<scriptLine, netns, marker, status>>
    <3>1. CommandsDone' = CommandsDone /\ scriptAt = "device"
      BY <1>4, <1>6, <2>1 DEF FindDevice
    <3> QED BY <1>1, <1>2, <2>1, <3>1
            DEF EgressInv, EgressTypeOK, AppliedSoFar, ScriptPlace, ExitTold, KeepLaunch
  <2> QED BY <1>3, <1>6, <2>1 DEF FindDevice
<1>7. CASE Command
  <2>1. CASE Abort
    BY <1>3, <1>7, <2>1 DEF Command
  <2>2. CASE ~Abort
    BY <1>1, <1>7, <2>2, CommandOK DEF Command
  <2> QED BY <2>1, <2>2
<1>8. CASE Mark
  <2>1. CASE marker' = TRUE /\ scriptAt' = "mark" /\ UNCHANGED <<scriptLine, netns, status>>
    <3>1. CommandsDone' = CommandsDone /\ scriptAt = "commands" /\ scriptLine > Len(Commands)
      BY <1>4, <1>8, <2>1 DEF Mark
    <3>2. scriptLine = Len(Commands) + 1
      BY <3>1, CommandsAre DEF EgressInv, ScriptPlace, EgressTypeOK
    <3> QED BY <1>1, <1>2, <2>1, <3>1, <3>2
            DEF EgressInv, EgressTypeOK, AppliedSoFar, ScriptPlace, ExitTold, KeepLaunch
  <2> QED BY <1>3, <1>8, <2>1 DEF Mark
<1>9. CASE Exec
  <2>0. marker /\ scriptAt = "mark" /\ UNCHANGED <<scriptLine, netns, marker>>
    BY <1>9 DEF Exec, EgressInv, ScriptPlace
  <2>1. CASE Ends(LookupFailed)
    BY <1>1, <2>0, <2>1, EndOK
  <2>2. CASE scriptAt' = "workload" /\ UNCHANGED status
    <3>1. CommandsDone' = CommandsDone
      BY <1>4, <2>0
    <3> QED BY <1>1, <1>2, <2>0, <2>2, <3>1
            DEF EgressInv, EgressTypeOK, AppliedSoFar, ScriptPlace, ExitTold, KeepLaunch
  <2> QED BY <1>9, <2>1, <2>2 DEF Exec
<1>10. CASE WorkloadExits
  <2>1. marker /\ scriptAt = "workload" /\ UNCHANGED <<scriptLine, netns, marker>>
    BY <1>10 DEF WorkloadExits, EgressInv, ScriptPlace
  <2>2. PICK s \in Statuses \cup {BySignal} : Ends(s)
    BY <1>10 DEF WorkloadExits
  <2> QED BY <1>1, <2>1, <2>2, EndOK
<1> QED BY <1>5, <1>6, <1>7, <1>8, <1>9, <1>10 DEF ScriptStage

-----------------------------------------------------------------------------
(* The theorems *)

\* What the invariant says of the property the runs check.
LEMMA InvImpliesEgressAsReported == EgressInv => EgressAsReported
PROOF
<1> SUFFICES ASSUME EgressInv PROVE EgressAsReported
  OBVIOUS
<1> USE DEF EgressInv
<1>1. ASSUME scriptAt = "workload"
      PROVE  /\ netns.gateway /\ ~netns.default /\ netns.drop
             /\ netns.accepts = {"established", "lo", Proxy} \cup PortSet(forwards)
             /\ netns.auto \subseteq (IF forwards = <<>> THEN {} ELSE {"tcp"})
  <2>1. /\ Commands \in Seq(OwnCommands \cup WantedCommands(forwards))
        /\ PortSet(Commands) = OwnCommands \cup WantedCommands(forwards)
    BY CommandsAre DEF EgressTypeOK
  <2>2. scriptLine = Len(Commands) + 1
    BY <1>1 DEF ScriptPlace
  <2>3. CommandsDone = PortSet(Commands)
    BY <2>1, <2>2 DEF CommandsDone, PortSet
  <2>4. PortSet(forwards) \cap OwnCommands = {}
    BY EgressAssumption DEF EgressTypeOK, Outbound, OwnCommands
  <2>5. CommandsDone \ OwnCommands = WantedCommands(forwards)
    BY <2>1, <2>3, <2>4 DEF WantedCommands, OwnCommands, Proxy
  <2>6. "gatewayRoute" \in CommandsDone /\ "noDefault" \in CommandsDone /\ "drop" \in CommandsDone
    BY <2>1, <2>3 DEF OwnCommands
  <2> QED BY <1>1, <2>5, <2>6 DEF AppliedSoFar, WantedCommands, AutoForwards
<1> QED BY <1>1 DEF EgressAsReported, ExitTold

\* For every list of forwards and every status a workload may end with: the workload
\* runs behind the whole lockdown, and the launch tells an abort from an exit.
THEOREM EgressCorrect == EgressSpec => []EgressAsReported
PROOF
<1>1. EgressInit => EgressInv
  BY EgressInitOK
<1>2. EgressInv /\ [EgressNext]_egressVars => EgressInv'
  <2> SUFFICES ASSUME EgressInv, [EgressNext]_egressVars PROVE EgressInv'
    OBVIOUS
  <2>1. CASE LaunchStage
    BY <2>1, EgressLaunchStep
  <2>2. CASE ScriptStage
    BY <2>2, ScriptStep
  <2>3. CASE UNCHANGED egressVars
    <3>1. Commands' = Commands /\ CommandsDone' = CommandsDone /\ AutoForwards' = AutoForwards
      BY <2>3 DEF egressVars, Commands, CommandsDone, AutoForwards, FirewallCommands, RouteCommands
    <3> QED BY <2>3, <3>1
            DEF egressVars, EgressInv, EgressTypeOK, AppliedSoFar, ScriptPlace, ExitTold
  <2> QED BY <2>1, <2>2, <2>3 DEF EgressNext
<1>3. EgressInv => EgressAsReported
  BY InvImpliesEgressAsReported
<1> QED BY <1>1, <1>2, <1>3, PTL DEF EgressSpec

-----------------------------------------------------------------------------
(* The accounting of OOM kills: what a session is charged with is its own, and
   the record it leaves is the verdict it gave, as long as no other session of
   the sandbox wrote the metadata in between.                                *)

USE DEF Goes, launchVars, kernelVars, watcherVars

-----------------------------------------------------------------------------
(* The invariant *)

OOMRecords == [kills : Nat, fatal : BOOLEAN] \cup {NoRecord}

OOMShape ==
  /\ limited \in [Watched -> BOOLEAN] /\ reused \in [Watched -> BOOLEAN]
  /\ oomAt \in [Watched -> {"reset", "resetSave", "start", "running", "cancelled",
                            "stopping", "report", "record", "over"}]
  /\ attach \in [Watched -> {"none", "resolve", "read", "watch", "attached", "failed"}]
  /\ watcherAt \in [Watched -> {"none", "report", "load", "save", "wait", "done"}]
  /\ ending \in [Watched -> {"alive", "clean", "propagated", "direct"}]
  /\ verdict \in [Watched -> {"none", "nothing", "survived", "fatal", "unattributable"}]
  /\ tally \in [Watched -> Nat] /\ tallyBefore \in [Watched -> Nat]
  /\ initial \in [Watched -> Nat] /\ current \in [Watched -> Nat] /\ seen \in [Watched -> Nat]
  /\ closed \in [Watched -> BOOLEAN] /\ disturbed \in [Watched -> BOOLEAN]
  /\ record \in [Watched -> [finish : OOMRecords, watch : OOMRecords]] /\ lastOOM \in OOMRecords

\* What has been read was there, and the baseline leaves out what was there before.
Counts ==
  \A s \in Watched :
    /\ tallyBefore[s] > 0 => reused[s]
    /\ tallyBefore[s] <= tally[s] /\ initial[s] <= tally[s] /\ current[s] <= tally[s]
    /\ attach[s] \in {"watch", "attached"} => tallyBefore[s] <= initial[s]
    /\ seen[s] <= tally[s] - tallyBefore[s]

\* How far the three goroutines of a session can be apart.
Stages ==
  \A s \in Watched :
    /\ watcherAt[s] # "none" <=> attach[s] = "attached"
    /\ watcherAt[s] = "none" => seen[s] = 0
    /\ watcherAt[s] \in {"load", "save"} => seen[s] > 0
    /\ oomAt[s] \in {"reset", "resetSave", "start"} => attach[s] = "none" /\ verdict[s] = "none"
    /\ oomAt[s] \in {"running", "cancelled", "stopping"} => verdict[s] = "none"
    /\ oomAt[s] \in {"cancelled", "stopping", "report", "record", "over"} =>
         ending[s] # "alive"
    /\ oomAt[s] \in {"stopping", "report", "record", "over"} =>
         attach[s] \in {"attached", "failed"}
    /\ oomAt[s] \in {"report", "record", "over"} => watcherAt[s] \in {"none", "done"}
    /\ oomAt[s] \in {"report", "record"} => verdict[s] = "fatal"
    /\ verdict[s] = "fatal" => seen[s] > 0 /\ ending[s] # "clean"
    /\ verdict[s] = "unattributable" => attach[s] = "failed"

\* What a session has told the metadata before its verdict.
VerdictTold(s) == IF seen[s] = 0 THEN NoRecord ELSE Kill(seen[s], FALSE)
NotFatal(r) == r = NoRecord \/ r.fatal = FALSE

\* While no other session writes, the record is what this one has told.
OnRecord ==
  \A s \in Watched :
    ~disturbed[s] /\ oomAt[s] \notin {"reset", "resetSave"} =>
      /\ oomAt[s] # "over" /\ watcherAt[s] \notin {"load", "save"} => lastOOM = VerdictTold(s)
      /\ oomAt[s] # "over" => NotFatal(lastOOM)
      /\ watcherAt[s] = "save" => NotFatal(record[s].watch)
      /\ oomAt[s] = "record" => NotFatal(record[s].finish)
      /\ oomAt[s] = "over" =>
           lastOOM = IF verdict[s] = "fatal" THEN Kill(seen[s], TRUE) ELSE VerdictTold(s)

OOMInv == OOMShape /\ Counts /\ Stages /\ OnRecord

-----------------------------------------------------------------------------
(* The steps *)

\* RecordOOM over a record that is not fatal writes what it is given.
LEMMA RecordedIs ==
  ASSUME NEW r, NEW k \in Nat, NEW f \in BOOLEAN, NotFatal(r)
  PROVE  Recorded(r, k, f) = Kill(k, f)
PROOF
<1>1. (r # NoRecord /\ r.fatal) = FALSE
  BY DEF NotFatal
<1>2. (f \/ (r # NoRecord /\ r.fatal)) = f
  BY <1>1
<1> QED BY <1>2 DEF Recorded, Kill

LEMMA OOMInitOK == OOMInit => OOMInv
PROOF
<1> SUFFICES ASSUME OOMInit PROVE OOMInv
  OBVIOUS
<1> USE DEF OOMInit
<1>1. tallyBefore \in [Watched -> Nat] /\ tally \in [Watched -> Nat]
  OBVIOUS
<1>2. OOMShape
  BY <1>1 DEF OOMShape, OOMRecords
<1>3. Counts
  <2> SUFFICES ASSUME NEW s \in Watched
               PROVE  /\ tallyBefore[s] > 0 => reused[s]
                      /\ tallyBefore[s] <= tally[s] /\ initial[s] <= tally[s]
                      /\ current[s] <= tally[s]
                      /\ attach[s] \in {"watch", "attached"} => tallyBefore[s] <= initial[s]
                      /\ seen[s] <= tally[s] - tallyBefore[s]
    BY DEF Counts
  <2>1. tallyBefore[s] \in Nat /\ tally[s] = tallyBefore[s]
    BY <1>1
  <2> QED BY <2>1
<1>4. Stages /\ OnRecord
  BY DEF Stages, OnRecord
<1> QED BY <1>2, <1>3, <1>4 DEF OOMInv

\* A step of the launch.
LEMMA OOMLaunchStep ==
  ASSUME OOMInv, NEW s \in Watched, MonitorSteps(s)
  PROVE  OOMInv'
PROOF
<1> USE DEF OOMInv
<1>1. CASE ResetLoad(s)
  <2> USE <1>1 DEF ResetLoad
  <2>1. OOMShape'
    BY DEF OOMShape, OOMRecords, Kill, Recorded
  <2>2. Counts'
    BY DEF OOMShape, Counts, Stages
  <2>3. Stages'
    BY DEF OOMShape, Counts, Stages
  <2>4. OnRecord'
    BY DEF OOMShape, Stages, OnRecord, VerdictTold, NotFatal, Kill
  <2> QED BY <2>1, <2>2, <2>3, <2>4
<1>2. CASE ResetSave(s)
  <2> USE <1>2 DEF SaveRecord, ResetSave
  <2>1. OOMShape'
    BY DEF OOMShape, OOMRecords, Kill, Recorded
  <2>2. Counts'
    BY DEF OOMShape, Counts, Stages
  <2>3. Stages'
    BY DEF OOMShape, Counts, Stages
  <2>4. OnRecord'
    BY DEF OOMShape, Stages, OnRecord, VerdictTold, NotFatal, Kill
  <2> QED BY <2>1, <2>2, <2>3, <2>4
<1>3. CASE StartMonitor(s)
  <2> USE <1>3 DEF StartMonitor
  <2>1. OOMShape'
    BY DEF OOMShape, OOMRecords, Kill, Recorded
  <2>2. Counts'
    BY DEF OOMShape, Counts, Stages
  <2>3. Stages'
    BY DEF OOMShape, Counts, Stages
  <2>4. OnRecord'
    BY DEF OOMShape, Stages, OnRecord, VerdictTold, NotFatal, Kill
  <2> QED BY <2>1, <2>2, <2>3, <2>4
<1>4. CASE WaitOver(s)
  <2> USE <1>4 DEF WaitOver
  <2>1. OOMShape'
    BY DEF OOMShape, OOMRecords, Kill, Recorded
  <2>2. Counts'
    BY DEF OOMShape, Counts, Stages
  <2>3. Stages'
    BY DEF OOMShape, Counts, Stages
  <2>4. OnRecord'
    BY DEF OOMShape, Stages, OnRecord, VerdictTold, NotFatal, Kill
  <2> QED BY <2>1, <2>2, <2>3, <2>4
<1>5. CASE StopWatcher(s)
  <2> USE <1>5 DEF StopWatcher
  <2>1. OOMShape'
    BY DEF OOMShape, OOMRecords, Kill, Recorded
  <2>2. Counts'
    BY DEF OOMShape, Counts, Stages
  <2>3. Stages'
    BY DEF OOMShape, Counts, Stages
  <2>4. OnRecord'
    BY DEF OOMShape, Stages, OnRecord, VerdictTold, NotFatal, Kill
  <2> QED BY <2>1, <2>2, <2>3, <2>4
<1>6. CASE Classify(s)
  <2> USE <1>6 DEF Outcome, WatcherJoined, Classify
  <2>1. OOMShape'
    BY DEF OOMShape, OOMRecords, Kill, Recorded
  <2>2. Counts'
    BY DEF OOMShape, Counts, Stages
  <2>3. Stages'
    BY DEF OOMShape, Counts, Stages
  <2>4. OnRecord'
    BY DEF OOMShape, Stages, OnRecord, VerdictTold, NotFatal, Kill
  <2> QED BY <2>1, <2>2, <2>3, <2>4
<1>7. CASE FatalLoad(s)
  <2> USE <1>7 DEF FatalLoad
  <2>1. OOMShape'
    BY DEF OOMShape, OOMRecords, Kill, Recorded
  <2>2. Counts'
    BY DEF OOMShape, Counts, Stages
  <2>3. Stages'
    BY DEF OOMShape, Counts, Stages
  <2>4. OnRecord'
    BY DEF OOMShape, Stages, OnRecord, VerdictTold, NotFatal, Kill
  <2> QED BY <2>1, <2>2, <2>3, <2>4
<1>8. CASE FatalSave(s)
  <2> USE <1>8 DEF SaveRecord, FatalSave
  <2>1. OOMShape'
    BY DEF OOMShape, OOMRecords, Kill, Recorded
  <2>2. Counts'
    BY DEF OOMShape, Counts, Stages
  <2>3. Stages'
    BY DEF OOMShape, Counts, Stages
  <2>4. OnRecord'
    <3>1. seen[s] \in Nat /\ seen[s] > 0 /\ verdict[s] = "fatal"
      BY DEF OOMShape, Stages
    <3>2. ~disturbed[s] => lastOOM' = Kill(seen[s], TRUE)
      BY <3>1, RecordedIs DEF OnRecord
    <3>3. ASSUME NEW t \in Watched, t # s PROVE disturbed'[t]
      BY <3>3
    <3>4. oomAt' = [oomAt EXCEPT ![s] = "over"] /\ UNCHANGED <<seen, verdict>>
          /\ (disturbed'[s] <=> disturbed[s])
      BY DEF OOMShape
    <3> QED BY <3>1, <3>2, <3>3, <3>4 DEF OOMShape, OnRecord
  <2> QED BY <2>1, <2>2, <2>3, <2>4
<1> QED BY <1>1, <1>2, <1>3, <1>4, <1>5, <1>6, <1>7, <1>8 DEF MonitorSteps

\* A step of the goroutines beside it.
LEMMA WatchStep ==
  ASSUME OOMInv, NEW s \in Watched, WatchSteps(s)
  PROVE  OOMInv'
PROOF
<1> USE DEF OOMInv
<1>1. CASE Resolve(s)
  <2> USE <1>1 DEF Resolve
  <2>1. OOMShape'
    BY DEF OOMShape, OOMRecords, Kill, Recorded
  <2>2. Counts'
    BY DEF OOMShape, Counts, Stages
  <2>3. Stages'
    BY DEF OOMShape, Counts, Stages
  <2>4. OnRecord'
    BY DEF OOMShape, Stages, OnRecord, VerdictTold, NotFatal, Kill
  <2> QED BY <2>1, <2>2, <2>3, <2>4
<1>2. CASE ReadInitial(s)
  <2> USE <1>2 DEF ReadInitial
  <2>1. OOMShape'
    <3>1. CASE cgroup[s]
      <4>1. /\ initial' = [initial EXCEPT ![s] = tally[s]]
            /\ attach' = [attach EXCEPT ![s] = "watch"]
        BY <3>1
      <4>2. UNCHANGED <<limited, reused, oomAt, watcherAt, ending, verdict, tally, tallyBefore,
                        current, seen, closed, disturbed, record, lastOOM>>
        BY <3>1
      <4> QED BY <4>1, <4>2 DEF OOMShape
    <3>2. CASE ~cgroup[s]
      BY <3>2 DEF OOMShape
    <3> QED BY <3>1, <3>2
  <2>2. Counts'
    BY DEF OOMShape, Counts, Stages
  <2>3. Stages'
    BY DEF OOMShape, Counts, Stages
  <2>4. OnRecord'
    BY DEF OOMShape, Stages, OnRecord, VerdictTold, NotFatal, Kill
  <2> QED BY <2>1, <2>2, <2>3, <2>4
<1>3. CASE AddWatch(s)
  <2> USE <1>3 DEF AddWatch
  <2>1. OOMShape'
    <3>1. CASE cgroup[s]
      <4>1. /\ watcherAt' = [watcherAt EXCEPT ![s] = "report"]
            /\ current' = [current EXCEPT ![s] = initial[s]]
            /\ attach' = [attach EXCEPT ![s] = "attached"]
        BY <3>1
      <4>2. UNCHANGED <<limited, reused, oomAt, ending, verdict, tally, tallyBefore, initial,
                        seen, closed, disturbed, record, lastOOM>>
        BY <3>1
      <4>3. initial[s] \in Nat
        BY DEF OOMShape
      <4> QED BY <4>1, <4>2, <4>3 DEF OOMShape
    <3>2. CASE ~cgroup[s]
      BY <3>2 DEF OOMShape
    <3> QED BY <3>1, <3>2
  <2>2. Counts'
    BY DEF OOMShape, Counts, Stages
  <2>3. Stages'
    BY DEF OOMShape, Counts, Stages
  <2>4. OnRecord'
    BY DEF OOMShape, Stages, OnRecord, VerdictTold, NotFatal, Kill
  <2> QED BY <2>1, <2>2, <2>3, <2>4
<1>4. CASE Report(s)
  <2> USE <1>4 DEF Baseline, Report
  <2>1. OOMShape'
    BY DEF OOMShape, OOMRecords, Kill, Recorded
  <2>2. Counts'
    <3> DEFINE observed == current[s] - Baseline(s)
    <3>1. attach[s] = "attached" /\ current[s] \in Nat /\ initial[s] \in Nat
          /\ tally[s] \in Nat /\ tallyBefore[s] \in Nat
      BY DEF OOMShape, Stages
    <3>2. observed <= tally[s] - tallyBefore[s]
      BY <3>1 DEF Counts
    <3>3. seen' = seen \/ seen' = [seen EXCEPT ![s] = observed]
      OBVIOUS
    <3>4. UNCHANGED <<reused, tally, tallyBefore, initial, current, attach>>
      OBVIOUS
    <3> QED BY <3>2, <3>3, <3>4 DEF OOMShape, Counts
  <2>3. Stages'
    BY DEF OOMShape, Counts, Stages
  <2>4. OnRecord'
    BY DEF OOMShape, Stages, OnRecord, VerdictTold, NotFatal, Kill
  <2> QED BY <2>1, <2>2, <2>3, <2>4
<1>5. CASE ObservedLoad(s)
  <2> USE <1>5 DEF ObservedLoad
  <2>1. OOMShape'
    BY DEF OOMShape, OOMRecords, Kill, Recorded
  <2>2. Counts'
    BY DEF OOMShape, Counts, Stages
  <2>3. Stages'
    BY DEF OOMShape, Counts, Stages
  <2>4. OnRecord'
    BY DEF OOMShape, Stages, OnRecord, VerdictTold, NotFatal, Kill
  <2> QED BY <2>1, <2>2, <2>3, <2>4
<1>6. CASE ObservedSave(s)
  <2> USE <1>6 DEF SaveRecord, ObservedSave
  <2>1. OOMShape'
    BY DEF OOMShape, OOMRecords, Kill, Recorded
  <2>2. Counts'
    BY DEF OOMShape, Counts, Stages
  <2>3. Stages'
    BY DEF OOMShape, Counts, Stages
  <2>4. OnRecord'
    <3>1. seen[s] \in Nat /\ seen[s] > 0 /\ oomAt[s] \notin {"report", "record", "over"}
      BY DEF OOMShape, Stages
    <3>2. ~disturbed[s] /\ oomAt[s] \notin {"reset", "resetSave"} =>
            lastOOM' = Kill(seen[s], FALSE)
      BY <3>1, RecordedIs DEF OnRecord
    <3>3. ASSUME NEW t \in Watched, t # s PROVE disturbed'[t]
      BY <3>3
    <3>4. watcherAt' = [watcherAt EXCEPT ![s] = "wait"]
          /\ UNCHANGED <<seen, verdict, oomAt, record>>
          /\ (disturbed'[s] <=> disturbed[s])
      BY DEF OOMShape
    <3>5. VerdictTold(s)' = Kill(seen[s], FALSE) /\ NotFatal(Kill(seen[s], FALSE))
      BY <3>1, <3>4 DEF VerdictTold, NotFatal, Kill
    <3> QED BY <3>1, <3>2, <3>3, <3>4, <3>5 DEF OOMShape, OnRecord
  <2> QED BY <2>1, <2>2, <2>3, <2>4
<1>7. CASE EventRead(s)
  <2> USE <1>7 DEF EventRead
  <2>1. OOMShape'
    <3>1. CASE cgroup[s]
      <4>1. /\ watcherAt' = [watcherAt EXCEPT ![s] = "report"]
            /\ current' = [current EXCEPT ![s] = tally[s]]
            /\ UNCHANGED attach
        BY <3>1
      <4>2. UNCHANGED <<limited, reused, oomAt, ending, verdict, tally, tallyBefore, initial,
                        seen, closed, disturbed, record, lastOOM>>
        BY <3>1
      <4>3. tally[s] \in Nat
        BY DEF OOMShape
      <4> QED BY <4>1, <4>2, <4>3 DEF OOMShape
    <3>2. CASE ~cgroup[s]
      BY <3>2 DEF OOMShape
    <3> QED BY <3>1, <3>2
  <2>2. Counts'
    <3>1. CASE cgroup[s]
      BY <3>1 DEF OOMShape, Counts
    <3>2. CASE ~cgroup[s]
      BY <3>2 DEF OOMShape, Counts
    <3> QED BY <3>1, <3>2
  <2>3. Stages'
    BY DEF OOMShape, Counts, Stages
  <2>4. OnRecord'
    BY DEF OOMShape, Stages, OnRecord, VerdictTold, NotFatal, Kill
  <2> QED BY <2>1, <2>2, <2>3, <2>4
<1>8. CASE WatcherEnds(s)
  <2> USE <1>8 DEF WatcherEnds
  <2>1. OOMShape'
    BY DEF OOMShape, OOMRecords, Kill, Recorded
  <2>2. Counts'
    BY DEF OOMShape, Counts, Stages
  <2>3. Stages'
    BY DEF OOMShape, Counts, Stages
  <2>4. OnRecord'
    BY DEF OOMShape, Stages, OnRecord, VerdictTold, NotFatal, Kill
  <2> QED BY <2>1, <2>2, <2>3, <2>4
<1> QED BY <1>1, <1>2, <1>3, <1>4, <1>5, <1>6, <1>7, <1>8 DEF WatchSteps

\* A step of the workload and the kernel.
LEMMA WorkloadStep ==
  ASSUME OOMInv, NEW s \in Watched, OOMKill(s) \/ WorkloadOver(s) \/ CgroupRemoved(s)
  PROVE  OOMInv'
PROOF
<1> USE DEF OOMInv
<1>1. CASE OOMKill(s)
  <2> USE <1>1 DEF OOMKill
  <2>1. OOMShape'
    BY DEF OOMShape, OOMRecords, Kill, Recorded
  <2>2. Counts'
    BY DEF OOMShape, Counts, Stages
  <2>3. Stages'
    BY DEF OOMShape, Counts, Stages
  <2>4. OnRecord'
    BY DEF OOMShape, Stages, OnRecord, VerdictTold, NotFatal, Kill
  <2> QED BY <2>1, <2>2, <2>3, <2>4
<1>2. CASE WorkloadOver(s)
  <2> USE <1>2 DEF WorkloadOver
  <2>1. OOMShape'
    BY DEF OOMShape, OOMRecords, Kill, Recorded
  <2>2. Counts'
    BY DEF OOMShape, Counts, Stages
  <2>3. Stages'
    BY DEF OOMShape, Counts, Stages
  <2>4. OnRecord'
    BY DEF OOMShape, Stages, OnRecord, VerdictTold, NotFatal, Kill
  <2> QED BY <2>1, <2>2, <2>3, <2>4
<1>3. CASE CgroupRemoved(s)
  <2> USE <1>3 DEF CgroupRemoved
  <2>1. OOMShape'
    BY DEF OOMShape, OOMRecords, Kill, Recorded
  <2>2. Counts'
    BY DEF OOMShape, Counts, Stages
  <2>3. Stages'
    BY DEF OOMShape, Counts, Stages
  <2>4. OnRecord'
    BY DEF OOMShape, Stages, OnRecord, VerdictTold, NotFatal, Kill
  <2> QED BY <2>1, <2>2, <2>3, <2>4
<1> QED BY <1>1, <1>2, <1>3

LEMMA OOMStep == OOMInv /\ [OOMNext]_oomVars => OOMInv'
PROOF
<1> SUFFICES ASSUME OOMInv, [OOMNext]_oomVars PROVE OOMInv'
  OBVIOUS
<1>1. CASE OOMNext
  BY <1>1, OOMLaunchStep, WatchStep, WorkloadStep DEF OOMNext
<1>2. CASE UNCHANGED oomVars
  BY <1>2 DEF oomVars, OOMInv, OOMShape, Counts, Stages, OnRecord, VerdictTold
<1> QED BY <1>1, <1>2

-----------------------------------------------------------------------------
(* The theorem *)

\* A session is charged with its own kills only, the verdict follows from them, and
\* the record says what the verdict said, for any number of sessions and kills.
THEOREM OOMCorrect == OOMSpec => []OOMAccounted
PROOF
<1>1. OOMInv => OOMAccounted
  <2> SUFFICES ASSUME OOMInv, NEW s \in Watched
               PROVE  /\ seen[s] <= tally[s] - tallyBefore[s]
                      /\ verdict[s] = "fatal" => tally[s] > tallyBefore[s] /\ ending[s] # "clean"
                      /\ verdict[s] = "unattributable" => attach[s] = "failed"
                      /\ oomAt[s] = "over" /\ ~disturbed[s] =>
                           lastOOM = IF seen[s] = 0 THEN NoRecord
                                     ELSE Kill(seen[s], verdict[s] = "fatal")
    BY DEF OOMAccounted
  <2> USE DEF OOMInv
  <2>1. seen[s] <= tally[s] - tallyBefore[s]
    BY DEF Counts
  <2>2. verdict[s] = "fatal" => seen[s] > 0 /\ ending[s] # "clean"
    BY DEF Stages
  <2>3. verdict[s] = "fatal" => tally[s] > tallyBefore[s]
    BY <2>1, <2>2 DEF OOMShape
  <2>4. verdict[s] = "unattributable" => attach[s] = "failed"
    BY DEF Stages
  <2>5. ASSUME oomAt[s] = "over", ~disturbed[s]
        PROVE  lastOOM = IF seen[s] = 0 THEN NoRecord
                         ELSE Kill(seen[s], verdict[s] = "fatal")
    <3>1. CASE verdict[s] = "fatal"
      <4>1. lastOOM = Kill(seen[s], TRUE) /\ (verdict[s] = "fatal") = TRUE
        BY <2>5, <3>1 DEF OnRecord
      <4>2. seen[s] # 0
        BY <2>2, <3>1 DEF OOMShape
      <4> QED BY <4>1, <4>2
    <3>2. CASE verdict[s] # "fatal"
      BY <2>5, <3>2 DEF OnRecord, VerdictTold, Kill
    <3> QED BY <3>1, <3>2
  <2> QED BY <2>1, <2>2, <2>3, <2>4, <2>5
<1> QED BY <1>1, OOMInitOK, OOMStep, PTL DEF OOMSpec

HIDE DEF Goes, launchVars, kernelVars, watcherVars

-----------------------------------------------------------------------------
(* Approvals: only what was approved is stored and applied, and an approval
   that was taken back returns only with a save of a stale copy.  What a file
   may do once it is approved is a fact about one merge.                     *)

USE DEF Turn, fileVars, userVars

-----------------------------------------------------------------------------
(* The merge *)

\* The fields of a merge that a launch looks at.
LEMMA MergedFields ==
  ASSUME NEW base, NEW local
  PROVE  LET m == MergeConfigs(base, local)
             s == MergeProjectConfig(base, local)
         IN /\ s.redact = m.redact /\ s.action = m.action
            /\ s.body = IF m.body # Unset /\ (m.body <= 0 \/ m.body > BodyBytes(base))
                        THEN base.body ELSE m.body
            /\ s.scan = IF ScanBytes(m) > ScanBytes(base) THEN base.scan ELSE m.scan
PROOF
<1> DEFINE m == MergeConfigs(base, local)
           body == IF m.body # Unset /\ (m.body <= 0 \/ m.body > BodyBytes(base))
                   THEN base.body ELSE m.body
           scan == IF ScanBytes(m) > ScanBytes(base) THEN base.scan ELSE m.scan
           s == [m EXCEPT !.body = body, !.scan = scan]
<1>1. DOMAIN m = {"redact", "action", "scan", "body", "isolation", "rules", "forward", "ports"}
  BY DEF MergeConfigs
<1> HIDE DEF m, body, scan
<1>2. s.redact = m.redact /\ s.action = m.action /\ s.body = body /\ s.scan = scan
  BY <1>1
<1>3. MergeProjectConfig(base, local) = s
  BY DEF MergeProjectConfig, m, body, scan
<1> QED BY <1>2, <1>3 DEF m, body, scan

\* Whatever a project's file says, it loosens nothing: for every two files with numbers
\* for limits.
THEOREM LocalTightens ==
  ASSUME NEW base, NEW local, Numbers(base), Numbers(local)
  PROVE  Tightens(base, MergeProjectConfig(base, local))
PROOF
<1> DEFINE m == MergeConfigs(base, local)
           s == MergeProjectConfig(base, local)
<1>1. /\ m.redact = IF local.redact # "unset" /\ base.redact # "on" THEN local.redact
                    ELSE base.redact
      /\ m.action = IF local.action = "unset" THEN base.action
                    ELSE MostRestrictive(base.action, local.action)
      /\ m.scan = IF local.scan > 0 THEN local.scan ELSE base.scan
      /\ m.body = IF local.body # Unset THEN local.body ELSE base.body
  BY DEF MergeConfigs
<1>2. /\ s.redact = m.redact /\ s.action = m.action
      /\ s.body = IF m.body # Unset /\ (m.body <= 0 \/ m.body > BodyBytes(base))
                  THEN base.body ELSE m.body
      /\ s.scan = IF ScanBytes(m) > ScanBytes(base) THEN base.scan ELSE m.scan
  BY MergedFields
<1> HIDE DEF m, s
<1>3. base.redact = "on" => s.redact = "on"
  BY <1>1, <1>2
<1>4. Severity(s.action) >= Severity(base.action)
  <2>1. \A a : Severity(a) \in 0..2
    BY DEF Severity
  <2> QED BY <1>1, <1>2, <2>1 DEF MostRestrictive
<1>5. m.scan \in Int /\ m.body \in Int /\ (m.body = Unset => base.body = Unset)
  BY <1>1 DEF Numbers
<1>6. ScanBytes(s) <= ScanBytes(base)
  BY <1>2, <1>5 DEF Numbers, ScanBytes, DefaultScan
<1>7. BodyBytes(s) <= BodyBytes(base) /\ (BodyBytes(base) > 0 => BodyBytes(s) > 0)
  BY <1>2, <1>5 DEF Numbers, BodyBytes, DefaultBody, Unset
<1> QED BY <1>3, <1>4, <1>6, <1>7 DEF Tightens, s

-----------------------------------------------------------------------------
(* The invariant *)

TrustShape ==
  /\ global \in Globals
  /\ localFile \in Stores /\ store \in Stores /\ torn \in BOOLEAN /\ lateSave \in BOOLEAN
  /\ loaderAt \in [Loaders -> {"start", "store", "local", "prompt", "truncate",
                               "write", "apply", "done", "failed"}]
  /\ task \in [Loaders -> {"launch", "add", "remove"}]
  /\ where \in [Loaders -> Projects]
  /\ loaded \in [Loaders -> Stores] /\ contents \in [Loaders -> LocalFiles \cup {NoFile}]
  /\ DOMAIN settings = Loaders

\* Every copy of the store holds approvals only.
Backed ==
  /\ \A p \in Projects : store[p] # NoFile => <<p, store[p]>> \in approved
  /\ \A a \in Loaders, p \in Projects :
       loaded[a][p] # NoFile => <<p, loaded[a][p]>> \in approved

\* A launch that goes on with its file has it approved.
Agreed ==
  \A a \in Loaders :
    /\ loaderAt[a] = "prompt" => contents[a] # NoFile
    /\ loaderAt[a] = "local" => task[a] \in {"launch", "add"}
    /\ loaderAt[a] \in {"prompt", "apply"} => task[a] = "launch"
    /\ task[a] = "launch" /\ loaderAt[a] \in {"truncate", "write", "apply"}
          /\ contents[a] # NoFile => <<where[a], contents[a]>> \in approved
    /\ task[a] = "add" /\ loaderAt[a] \in {"store", "truncate", "write"} =>
         contents[a] # NoFile
    /\ task[a] = "launch" /\ loaderAt[a] \in {"truncate", "write"} => contents[a] # NoFile

\* What a launch has applied.
Applied ==
  \A a \in Loaders :
    settings[a] \notin {NoFile, WithIncludes(where[a])} =>
      \E f \in LocalFiles :
        /\ <<where[a], f>> \in approved /\ Validates(f)
        /\ settings[a] = MergeProjectConfig(WithIncludes(where[a]), f)

\* While no stale copy was saved, whoever is between the two steps of a save is alone
\* and has the store in hand; and no approval that was taken back is stored.
Fresh ==
  ~lateSave =>
    /\ \A a \in Loaders : loaderAt[a] = "write" => torn /\ loaded[a] = store
    /\ \A a, b \in Loaders : loaderAt[a] = "write" /\ loaderAt[b] = "write" => a = b
    /\ torn => \E a \in Loaders : loaderAt[a] = "write"
    /\ \A p \in revoked : p \in Projects => store[p] = NoFile

TrustInv == TrustShape /\ Backed /\ Agreed /\ Applied /\ Fresh

-----------------------------------------------------------------------------
(* The steps *)

LEMMA TrustInitOK == TrustInit => TrustInv
PROOF
<1> SUFFICES ASSUME TrustInit PROVE TrustInv
  OBVIOUS
<1> USE DEF TrustInit
<1>1. Empty \in Stores
  BY DEF Empty, Stores
<1>2. TrustShape
  BY <1>1 DEF TrustShape, Stores
<1>3. Backed /\ Agreed /\ Applied /\ Fresh
  BY DEF Backed, Agreed, Applied, Fresh, Empty
<1> QED BY <1>2, <1>3 DEF TrustInv

\* The base of a launch does not change under it.
LEMMA BaseStays ==
  ASSUME UNCHANGED <<global, where>>, NEW p
  PROVE  WithIncludes(p)' = WithIncludes(p)
BY DEF WithIncludes

\* A step that applies nothing leaves what was applied, and what was approved.
LEMMA AppliedStays ==
  ASSUME Applied, UNCHANGED <<global, where, settings>>, approved \subseteq approved'
  PROVE  Applied'
PROOF
<1>1. \A p : WithIncludes(p)' = WithIncludes(p)
  BY BaseStays
<1> QED BY <1>1 DEF Applied

LEMMA LoaderStep ==
  ASSUME TrustInv, NEW a \in Loaders, LoaderSteps(a)
  PROVE  TrustInv'
PROOF
<1> USE DEF TrustInv
<1>1. CASE Begin(a)
  <2> USE <1>1 DEF Begin
  <2>1. TrustShape'
    BY DEF TrustShape
  <2>2. Backed'
    BY DEF TrustShape, Backed, Agreed
  <2>3. Agreed'
    BY DEF TrustShape, Backed, Agreed
  <2>4. Applied'
    BY AppliedStays
  <2>5. Fresh'
    BY DEF TrustShape, Fresh
  <2> QED BY <2>1, <2>2, <2>3, <2>4, <2>5
<1>2. CASE LoadStore(a)
  <2> USE <1>2 DEF LoadStore
  <2>1. TrustShape'
    BY DEF TrustShape, Stores, Empty
  <2>2. Backed'
    BY DEF TrustShape, Backed, Agreed, Stores, Empty
  <2>3. Agreed'
    BY DEF TrustShape, Backed, Agreed, Stores, Empty
  <2>4. Applied'
    BY AppliedStays
  <2>5. Fresh'
    BY DEF TrustShape, Fresh, Stores, Empty
  <2> QED BY <2>1, <2>2, <2>3, <2>4, <2>5
<1>3. CASE ReadLocal(a)
  <2> USE <1>3 DEF ReadLocal
  <2>1. TrustShape'
    BY DEF TrustShape, Stores
  <2>2. Backed'
    BY DEF TrustShape, Backed, Agreed, Stores
  <2>3. Agreed'
    <3> DEFINE read == localFile[where[a]]
    <3>1. contents' = [contents EXCEPT ![a] = read]
      OBVIOUS
    <3>2. contents'[a] = read /\ \A b \in Loaders : b # a => contents'[b] = contents[b]
      BY <3>1 DEF TrustShape
    <3>3. UNCHANGED <<loaded, task, where, approved>>
      OBVIOUS
    <3>4. CASE task[a] = "add"
      <4>1. loaderAt' = [loaderAt EXCEPT ![a] = IF read = NoFile THEN "failed" ELSE "store"]
        BY <3>2, <3>4
      <4> QED BY <3>2, <3>3, <3>4, <4>1 DEF TrustShape, Agreed
    <3>5. CASE task[a] # "add" /\ (read = NoFile \/ loaded[a][where[a]] = read)
      <4>1. loaderAt' = [loaderAt EXCEPT ![a] = "apply"]
        BY <3>2, <3>5
      <4>2. read # NoFile => <<where[a], read>> \in approved
        BY <3>5 DEF TrustShape, Backed
      <4>3. task[a] = "launch"
        BY <3>5 DEF TrustShape, Agreed
      <4> QED BY <3>2, <3>3, <4>1, <4>2, <4>3 DEF TrustShape, Agreed
    <3>6. CASE task[a] # "add" /\ ~(read = NoFile \/ loaded[a][where[a]] = read)
      <4>1. loaderAt' = [loaderAt EXCEPT ![a] = "prompt"] /\ read # NoFile
        BY <3>2, <3>6
      <4>2. task[a] = "launch"
        BY <3>6 DEF TrustShape, Agreed
      <4> QED BY <3>2, <3>3, <4>1, <4>2 DEF TrustShape, Agreed
    <3> QED BY <3>4, <3>5, <3>6
  <2>4. Applied'
    BY AppliedStays
  <2>5. Fresh'
    BY DEF TrustShape, Fresh, Stores
  <2> QED BY <2>1, <2>2, <2>3, <2>4, <2>5
<1>4. CASE Decline(a)
  <2> USE <1>4 DEF Decline
  <2>1. TrustShape'
    BY DEF TrustShape
  <2>2. Backed'
    BY DEF TrustShape, Backed, Agreed
  <2>3. Agreed'
    BY DEF TrustShape, Backed, Agreed
  <2>4. Applied'
    BY AppliedStays
  <2>5. Fresh'
    BY DEF TrustShape, Fresh
  <2> QED BY <2>1, <2>2, <2>3, <2>4, <2>5
<1>5. CASE Approve(a)
  <2> USE <1>5 DEF Approve
  <2>1. TrustShape'
    BY DEF TrustShape
  <2>2. Backed'
    BY DEF TrustShape, Backed, Agreed
  <2>3. Agreed'
    BY DEF TrustShape, Backed, Agreed
  <2>4. Applied'
    BY AppliedStays
  <2>5. Fresh'
    BY DEF TrustShape, Fresh
  <2> QED BY <2>1, <2>2, <2>3, <2>4, <2>5
<1>6. CASE Truncate(a)
  <2> USE <1>6 DEF Truncate
  <2>1. TrustShape'
    BY DEF TrustShape, Stores
  <2>2. Backed'
    BY DEF TrustShape, Backed, Agreed, Stores
  <2>3. Agreed'
    BY DEF TrustShape, Backed, Agreed, Stores
  <2>4. Applied'
    BY AppliedStays
  <2>5. Fresh'
    BY DEF TrustShape, Fresh, Stores
  <2> QED BY <2>1, <2>2, <2>3, <2>4, <2>5
<1>7. CASE WriteStore(a)
  <2> USE <1>7 DEF WriteStore
  <2>1. TrustShape'
    BY DEF TrustShape, Changed, Stores
  <2>2. Backed'
    BY DEF TrustShape, Backed, Agreed, Changed, Stores
  <2>3. Agreed'
    BY DEF TrustShape, Backed, Agreed, Changed, Stores
  <2>4. Applied'
    BY AppliedStays
  <2>5. Fresh'
    BY DEF TrustShape, Fresh, Changed, Stores
  <2> QED BY <2>1, <2>2, <2>3, <2>4, <2>5
<1>8. CASE ApplyConfig(a)
  <2> USE <1>8 DEF ApplyConfig
  <2>1. TrustShape'
    BY DEF TrustShape
  <2>2. Backed'
    BY DEF TrustShape, Backed, Agreed
  <2>3. Agreed'
    BY DEF TrustShape, Backed, Agreed
  <2>4. Applied'
    <3> DEFINE base == WithIncludes(where[a])
    <3>1. /\ settings' = [settings EXCEPT ![a] =
                            IF contents[a] = NoFile THEN base
                            ELSE MergeProjectConfig(base, LocalSettings(a))]
          /\ UNCHANGED <<global, where, approved>>
          /\ contents[a] # NoFile => Validates(contents[a])
      BY DEF AllValid, LocalSettings
    <3>2. contents[a] # NoFile => /\ contents[a] \in LocalFiles
                                  /\ <<where[a], contents[a]>> \in approved
      BY DEF TrustShape, Agreed
    <3>3. \A p : WithIncludes(p)' = WithIncludes(p)
      BY <3>1, BaseStays
    <3>4. settings'[a] # base =>
            \E f \in LocalFiles : /\ <<where[a], f>> \in approved /\ Validates(f)
                                  /\ settings'[a] = MergeProjectConfig(base, f)
      BY <3>1, <3>2 DEF TrustShape, LocalSettings
    <3>5. \A b \in Loaders : b # a => settings'[b] = settings[b]
      BY <3>1 DEF TrustShape
    <3> QED BY <3>1, <3>3, <3>4, <3>5 DEF Applied
  <2>5. Fresh'
    BY DEF TrustShape, Fresh
  <2> QED BY <2>1, <2>2, <2>3, <2>4, <2>5
<1>9. CASE Invalid(a)
  <2> USE <1>9 DEF Invalid
  <2>1. TrustShape'
    BY DEF TrustShape
  <2>2. Backed'
    BY DEF TrustShape, Backed, Agreed
  <2>3. Agreed'
    BY DEF TrustShape, Backed, Agreed
  <2>4. Applied'
    BY AppliedStays
  <2>5. Fresh'
    BY DEF TrustShape, Fresh
  <2> QED BY <2>1, <2>2, <2>3, <2>4, <2>5
<1>10. CASE SaverKilled(a)
  <2> USE <1>10 DEF SaverKilled
  <2>1. TrustShape'
    BY DEF TrustShape, Stores, Empty
  <2>2. Backed'
    BY DEF TrustShape, Backed, Agreed, Stores, Empty
  <2>3. Agreed'
    BY DEF TrustShape, Backed, Agreed, Stores, Empty
  <2>4. Applied'
    BY AppliedStays
  <2>5. Fresh'
    BY DEF TrustShape, Fresh, Stores, Empty
  <2> QED BY <2>1, <2>2, <2>3, <2>4, <2>5
<1> QED BY <1>1, <1>2, <1>3, <1>4, <1>5, <1>6, <1>7, <1>8, <1>9, <1>10 DEF LoaderSteps

LEMMA TrustStep == TrustInv /\ [TrustNext]_trustVars => TrustInv'
PROOF
<1> SUFFICES ASSUME TrustInv, [TrustNext]_trustVars PROVE TrustInv'
  OBVIOUS
<1> USE DEF TrustInv
<1>1. CASE RewriteLocal
  <2>1. UNCHANGED <<global, store, torn, loaderAt, task, where, loaded, contents, settings,
                    approved, revoked, lateSave>>
    BY <1>1 DEF RewriteLocal
  <2>2. localFile' \in Stores
    BY <1>1 DEF RewriteLocal, TrustShape, Stores
  <2>3. TrustShape' /\ Backed' /\ Agreed' /\ Fresh'
    BY <2>1, <2>2 DEF TrustShape, Backed, Agreed, Fresh
  <2> QED BY <2>1, <2>3, AppliedStays
<1>2. CASE UNCHANGED trustVars
  <2>1. UNCHANGED <<global, localFile, store, torn, loaderAt, task, where, loaded, contents,
                    settings, approved, revoked, lateSave>>
    BY <1>2 DEF trustVars
  <2>2. TrustShape' /\ Backed' /\ Agreed' /\ Fresh'
    BY <2>1 DEF TrustShape, Backed, Agreed, Fresh
  <2> QED BY <2>1, <2>2, AppliedStays
<1> QED BY <1>1, <1>2, LoaderStep DEF TrustNext

-----------------------------------------------------------------------------
(* The theorems *)

LEMMA InvApproves == TrustInv => OnlyApproved
PROOF
<1> SUFFICES ASSUME TrustInv PROVE OnlyApproved
  OBVIOUS
<1>1. ASSUME NEW p \in Projects, store[p] # NoFile
      PROVE  <<p, store[p]>> \in approved /\ (p \in revoked => lateSave)
  BY <1>1 DEF TrustInv, Backed, Fresh
<1> QED BY <1>1 DEF TrustInv, Applied, OnlyApproved

\* For any number of actors and files: nothing is stored or applied that was not
\* approved for its project, however saves, rewrites and kills interleave.
THEOREM TrustCorrect == TrustSpec => []OnlyApproved
PROOF
<1> QED BY InvApproves, TrustInitOK, TrustStep, PTL DEF TrustSpec

\* However many includes match, they leave the limits numbers.
LEMMA IncludesNumbers ==
  ASSUME global \in Globals, NEW p
  PROVE  Numbers(WithIncludes(p))
PROOF
<1> DEFINE N == Len(Includes)
           After(s, n) == IF Matches(n, p) /\ Includes[n].file # NoFile
                          THEN MergeConfigs(s, Includes[n].file) ELSE s
           Runs(g, m) == /\ g = [n \in 0..m |-> g[n]]
                         /\ g[0] = global
                         /\ \A n \in 1..m : g[n] = After(g[n - 1], n)
           T == {m \in 0..N : \E g : Runs(g, m)}
<1>n. N \in Nat
  BY LimitsAssumption
<1>a. \A s : \A n \in 1..N : Numbers(s) => Numbers(After(s, n))
  <2> SUFFICES ASSUME NEW s, NEW n \in 1..N, Numbers(s), Matches(n, p),
                      Includes[n].file # NoFile
               PROVE  Numbers(MergeConfigs(s, Includes[n].file))
    OBVIOUS
  <2>1. Numbers(Includes[n].file)
    BY LimitsAssumption
  <2> QED BY <2>1 DEF Numbers, MergeConfigs
<1> HIDE DEF N, After
<1>1. 0 \in T
  <2> DEFINE g == [n \in 0..0 |-> global]
  <2>1. Runs(g, 0)
    OBVIOUS
  <2> HIDE DEF g, Runs
  <2> QED BY <1>n, <2>1
<1>2. ASSUME NEW m \in 0..N, m # N, m \in T PROVE m + 1 \in T
  <2>1. PICK g : Runs(g, m)
    BY <1>2
  <2> DEFINE h == [n \in 0..(m + 1) |-> IF n = m + 1 THEN After(g[m], m + 1) ELSE g[n]]
  <2>2. m + 1 \in 1..N
    BY <1>n, <1>2
  <2>3. h[0] = global
    BY <2>1
  <2>4. ASSUME NEW n \in 1..(m + 1) PROVE h[n] = After(h[n - 1], n)
    <3>1. h[n - 1] = g[n - 1]
      OBVIOUS
    <3>2. CASE n = m + 1
      <4>1. n - 1 = m /\ h[n] = After(g[m], m + 1)
        BY <3>2
      <4> QED BY <3>1, <3>2, <4>1
    <3>3. CASE n # m + 1
      <4>1. n \in 1..m /\ h[n] = g[n]
        BY <3>3
      <4> QED BY <2>1, <3>1, <4>1
    <3> QED BY <3>2, <3>3
  <2>5. h = [n \in 0..(m + 1) |-> h[n]]
    OBVIOUS
  <2> HIDE DEF h
  <2>6. Runs(h, m + 1)
    BY <2>3, <2>4, <2>5
  <2> HIDE DEF Runs
  <2> QED BY <2>2, <2>6
<1>3. N \in T
  <2> HIDE DEF T
  <2>1. \A k \in 0..N : k # N /\ k \in T => k + 1 \in T
    BY <1>2
  <2>2. \A k \in 0..N : k \in T
    BY <1>n, <1>1, <2>1, UpTo
  <2> QED BY <1>n, <2>2
<1>4. PICK g : Runs(g, N)
  BY <1>3
<1> DEFINE upTo[n \in 0..Len(Includes)] ==
             IF n = 0 THEN global
             ELSE IF Matches(n, p) /\ Includes[n].file # NoFile
                  THEN MergeConfigs(upTo[n - 1], Includes[n].file)
                  ELSE upTo[n - 1]
<1>5. WithIncludes(p) = upTo[N]
  BY DEF WithIncludes, N
<1>6. g = [n \in 0..Len(Includes) |->
             IF n = 0 THEN global
             ELSE IF Matches(n, p) /\ Includes[n].file # NoFile
                  THEN MergeConfigs(g[n - 1], Includes[n].file)
                  ELSE g[n - 1]]
  <2> HIDE DEF upTo
  <2> DEFINE step(n) == IF n = 0 THEN global
                        ELSE IF Matches(n, p) /\ Includes[n].file # NoFile
                             THEN MergeConfigs(g[n - 1], Includes[n].file)
                             ELSE g[n - 1]
  <2>1. ASSUME NEW n \in 0..N PROVE g[n] = step(n)
    <3>1. CASE n = 0
      BY <1>4, <3>1
    <3>2. CASE n # 0
      <4>1. n \in 1..N
        BY <1>n, <3>2
      <4>2. g[n] = After(g[n - 1], n)
        BY <1>4, <4>1
      <4> QED BY <3>2, <4>2 DEF After
    <3> QED BY <3>1, <3>2
  <2>2. g = [n \in 0..N |-> g[n]]
    BY <1>4
  <2> HIDE DEF step, Runs
  <2>3. g = [n \in 0..N |-> step(n)]
    BY <2>1, <2>2
  <2> QED BY <2>3 DEF step, N
<1>7. upTo = [n \in 0..Len(Includes) |->
                IF n = 0 THEN global
                ELSE IF Matches(n, p) /\ Includes[n].file # NoFile
                     THEN MergeConfigs(upTo[n - 1], Includes[n].file)
                     ELSE upTo[n - 1]]
  BY <1>6
<1> HIDE DEF upTo, T
<1>8. \A k \in 0..N : Numbers(upTo[k])
  <2> DEFINE G == {k \in 0..N : Numbers(upTo[k])}
  <2>1. 0 \in G
    BY <1>n, <1>7, LimitsAssumption DEF N
  <2>2. ASSUME NEW k \in 0..N, k # N, k \in G PROVE k + 1 \in G
    <3>1. k + 1 \in 1..N /\ k + 1 \in 0..N /\ (k + 1) - 1 = k
      BY <1>n, <2>2
    <3>2. upTo[k + 1] = After(upTo[k], k + 1)
      BY <1>7, <3>1 DEF N, After
    <3> QED BY <1>a, <2>2, <3>1, <3>2
  <2> HIDE DEF G
  <2>3. \A k \in 0..N : k \in G
    BY <1>n, <2>1, <2>2, UpTo
  <2> QED BY <2>3 DEF G
<1> QED BY <1>n, <1>5, <1>8

\* What is applied was approved, and loosens nothing the user has set.
THEOREM TrustHeld == TrustSpec => []AppliedAsApproved
PROOF
<1>1. TrustInv => AppliedAsApproved
  <2> SUFFICES ASSUME TrustInv PROVE AppliedAsApproved
    OBVIOUS
  <2>1. OnlyApproved
    BY InvApproves
  <2>2. ASSUME NEW a \in Loaders, settings[a] # NoFile
        PROVE  Tightens(WithIncludes(where[a]), settings[a])
    <3> DEFINE base == WithIncludes(where[a])
    <3>1. Numbers(base)
      BY IncludesNumbers DEF TrustInv, TrustShape
    <3> HIDE DEF base
    <3>2. CASE settings[a] = base
      <4>1. Tightens(base, base)
        <5>1. \A x : Severity(x) \in 0..2
          BY DEF Severity
        <5> QED BY <3>1, <5>1
                DEF Numbers, Tightens, ScanBytes, BodyBytes, DefaultScan, DefaultBody, Unset
      <4> QED BY <3>2, <4>1 DEF base
    <3>3. CASE settings[a] # base
      <4>1. PICK f \in LocalFiles : settings[a] = MergeProjectConfig(base, f)
        BY <2>1, <2>2, <3>3 DEF OnlyApproved, base
      <4>2. Tightens(base, settings[a])
        BY <3>1, <4>1, LimitsAssumption, LocalTightens
      <4> QED BY <4>2 DEF base
    <3> QED BY <3>2, <3>3
  <2> QED BY <2>1, <2>2 DEF AppliedAsApproved
<1> QED BY <1>1, TrustInitOK, TrustStep, PTL DEF TrustSpec

HIDE DEF Turn, fileVars, userVars

-----------------------------------------------------------------------------
(* Removal of sandboxes *)

Listings ==
  [box : Boxes, via : {"disk", "docker"}, iso : {"docker", "bwrap", "none", "state"},
   active : BOOLEAN, orphaned : BOOLEAN]

\* What was listed and has been taken up, or given up.
Taken == listing \ targets

RemovalShape ==
  /\ RemovalTypeOK /\ starts \in Nat
  /\ asked.cmd \in {"prune", "rm"} /\ (Prunes => asked.with \in PruneOptions)
  /\ listing \subseteq Listings /\ doing \in Listings \cup {NoTarget}
  /\ phase = "list" => listing = {} /\ held = {}
  /\ phase \in {"net", "vol", "stop", "rm"} => doing.iso = "docker"
  /\ phase = "tree" => doing.via = "disk" /\ doing.iso # "none"
  /\ Prunes => \A e \in listing : /\ e.iso \in {"docker", "bwrap"}
                                  /\ e.via = "docker" => e.iso = "docker"
  /\ ~Prunes => \A e \in listing : e.via = "disk"

\* A directory is listed once.
ListedOnce ==
  \A e, f \in listing : e.via = "disk" /\ f.via = "disk" /\ e.box = f.box => e = f

\* What is removed is what was listed, and it is no target any more.
FromListing ==
  /\ doing # NoTarget =>
       \E e \in Taken : /\ e.box = doing.box /\ e.via = doing.via
                        /\ e.iso = "none" <=> doing.iso = "none"
                        /\ Prunes => doing = e
  /\ Prunes => /\ targets \subseteq Selected(listing, asked.with)
               /\ doing # NoTarget => doing \in Selected(listing, asked.with)

\* A session's directory is whole unless its sandbox has been taken up.
LockedWhole == \A b \in locked : tree[b] = "whole" \/ \E e \in Taken : e.box = b
TargetsWhole ==
  /\ \A e \in targets : e.via = "disk" /\ e.iso # "none" => tree[e.box] = "whole"
  /\ phase = "list" => \A b \in Boxes : tree[b] # "bare"

HeldApart ==
  /\ \A b \in held : tree[b] = "whole"
  /\ Prunes => \A e \in listing : e.via = "disk" /\ e.box \in held => e.active
  /\ ~Prunes /\ doing # NoTarget /\ doing.iso # "none" => doing.box \notin held
  /\ ~Prunes => \A e \in targets : e.box \notin held

\* A directory that is gone was a selected one.
GoneWasSelected ==
  Prunes => \A e \in listing : e.via = "disk" /\ tree[e.box] = "none" =>
              e \in Selected(listing, asked.with)

\* Of a scratchpad the state goes first.
StateBeforeWork ==
  ~Prunes /\ ~asked.with.keepState /\ starts = 0 =>
    /\ phase = "work" /\ doing.iso # "none" => tree[doing.box] = "none"
    /\ \A e \in listing : e.iso # "none" /\ ~e.orphaned /\ e.box \notin workDir =>
         tree[e.box] = "none"

\* Of a sandbox kept by Docker the container goes first.
ContainerBeforeTree ==
  /\ Prunes => \A e \in listing : e.via = "disk" => (e.iso = "docker" <=> e.box \in InDocker)
  /\ doing # NoTarget /\ doing.via = "disk" /\ doing.iso # "none" =>
       (doing.iso = "docker" <=> doing.box \in InDocker)
  /\ starts = 0 =>
       /\ phase = "tree" => container[doing.box] = "none" \/ doing.box \in failed
       /\ \A b \in Boxes : tree[b] = "none" => container[b] = "none" \/ b \in failed

RemovalInv ==
  /\ RemovalShape /\ ListedOnce /\ FromListing /\ LockedWhole /\ TargetsWhole
  /\ HeldApart /\ GoneWasSelected /\ StateBeforeWork /\ ContainerBeforeTree

USE RemovalAssumption

-----------------------------------------------------------------------------
(* What is listed *)

LEMMA OnDiskIs ==
  ASSUME NEW e \in OnDisk
  PROVE  /\ e \in Listings /\ e.via = "disk" /\ tree[e.box] # "none"
         /\ e.iso = IF tree[e.box] = "whole" /\ e.box \in InDocker THEN "docker" ELSE "bwrap"
         /\ e.active <=> e.box \in locked
<1>1. PICK b \in Boxes : tree[b] # "none" /\ e = DirEntry(b)
  BY DEF OnDisk
<1>2. (b \in locked) \in BOOLEAN /\ (tree[b] = "bare" \/ b \notin workDir) \in BOOLEAN
  OBVIOUS
<1> QED BY <1>1, <1>2 DEF DirEntry, Listings

LEMMA InEngineIs ==
  ASSUME NEW e \in InEngine
  PROVE  e \in Listings /\ e.via = "docker" /\ e.iso = "docker"
<1>1. PICK b \in Boxes : e = CtrEntry(b)
  BY DEF InEngine
<1> QED BY <1>1 DEF CtrEntry, Listings

LEMMA ScratchIs ==
  ASSUME NEW e \in Scratch \cup Named
  PROVE  /\ e \in Listings /\ e.via = "disk"
         /\ e.iso = IF tree[e.box] = "none" THEN "none" ELSE "state"
         /\ e.orphaned <=> e.box \notin workDir
<1>1. PICK b \in Boxes : e = PadEntry(b)
  BY DEF Scratch, Named
<1> QED BY <1>1 DEF PadEntry, Listings

LEMMA DiskApart ==
  /\ \A e, f \in OnDisk : e.box = f.box => e = f
  /\ \A e, f \in Scratch : e.box = f.box => e = f
<1>1. ASSUME NEW e \in OnDisk PROVE e = DirEntry(e.box)
  <2>1. PICK b \in Boxes : e = DirEntry(b)
    BY DEF OnDisk
  <2> QED BY <2>1 DEF DirEntry
<1>2. ASSUME NEW e \in Scratch PROVE e = PadEntry(e.box)
  <2>1. PICK b \in Boxes : e = PadEntry(b)
    BY DEF Scratch
  <2> QED BY <2>1 DEF PadEntry
<1> QED BY <1>1, <1>2

LEMMA RemovalTargetIs ==
  ASSUME NEW e \in Listings
  PROVE  /\ e # NoTarget /\ e.box \in Boxes /\ e.via \in {"disk", "docker"}
         /\ e.iso \in {"docker", "bwrap", "none", "state"}
<1>1. e.via # NoTarget.via
  BY DEF Listings, NoTarget
<1> QED BY <1>1 DEF Listings

LEMMA SelectedAre ==
  ASSUME NEW all, NEW o
  PROVE  Selected(all, o) \subseteq all /\ \A e \in Selected(all, o) : ~e.active
BY DEF Selected

-----------------------------------------------------------------------------
(* Steps *)

LEMMA ListPruneIs ==
  ASSUME ListPrune
  PROVE  /\ listing' \subseteq Listings /\ targets' \subseteq listing'
         /\ targets' = Selected(listing', asked.with) /\ held' = locked
         /\ \A e \in listing' : e \in OnDisk \cup InEngine /\ (e.via = "disk" => e \in OnDisk)
         /\ phase = "list" /\ Prunes /\ phase' \in {"end", "confirm"}
         /\ UNCHANGED <<boxVars, asked, doing, failed>>
<1>1. PICK all \in {OnDisk, OnDisk \cup InEngine} :
        listing' = all /\ targets' = Selected(all, asked.with)
  BY DEF ListPrune
<1>2. all \subseteq Listings /\ \A e \in all : e \in OnDisk \cup InEngine
                                               /\ (e.via = "disk" => e \in OnDisk)
  BY <1>1, OnDiskIs, InEngineIs
<1>3. targets' \subseteq all
  BY <1>1, SelectedAre
<1> QED BY <1>1, <1>2, <1>3 DEF ListPrune

LEMMA NextTargetIs ==
  ASSUME NextTarget, targets \subseteq Listings
  PROVE  \E e \in targets : /\ targets' = targets \ {e} /\ doing' = e /\ e # NoTarget
                            /\ phase' = FirstStep(e.iso) /\ phase = "next" /\ Prunes
                            /\ UNCHANGED <<boxVars, asked, listing, held, failed>>
BY RemovalTargetIs DEF NextTarget

LEMMA NextScratchpadIs ==
  ASSUME NextScratchpad, targets \subseteq Listings
  PROVE  \E e \in targets :
           /\ targets' = targets \ {e} /\ phase = "next" /\ ~Prunes
           /\ UNCHANGED <<boxVars, asked, listing, failed>>
           /\ \/ /\ e.iso = "state" /\ e.box \in locked
                 /\ doing' = NoTarget /\ phase' = "next" /\ held' = held \cup {e.box}
              \/ /\ ~(e.iso = "state" /\ e.box \in locked) /\ held' = held
                 /\ doing' \in Listings /\ doing'.box = e.box /\ doing'.via = e.via
                 /\ e.iso = "none" <=> doing'.iso = "none"
                 /\ e.iso # "none" =>
                      doing'.iso = IF tree[e.box] = "whole" /\ e.box \in InDocker THEN "docker"
                                   ELSE "bwrap"
                 /\ \/ (asked.with.keepState \/ e.iso = "none") /\ phase' = "work"
                    \/ ~(asked.with.keepState \/ e.iso = "none") /\ phase' = FirstStep(doing'.iso)
<1> DEFINE Iso(e) == IF tree[e.box] = "whole" /\ e.box \in InDocker THEN "docker" ELSE "bwrap"
           Skip(e) == e.iso = "state" /\ e.box \in locked
<1>1. PICK e \in targets :
        /\ targets' = targets \ {e}
        /\ doing' = IF Skip(e) THEN NoTarget ELSE [e EXCEPT !.iso = IF @ = "none" THEN @
               ELSE Iso(e)]
        /\ phase' = IF Skip(e) THEN "next"
                    ELSE IF asked.with.keepState \/ e.iso = "none" THEN "work"
                    ELSE FirstStep(Iso(e))
        /\ held' = IF Skip(e) THEN held \cup {e.box} ELSE held
  BY DEF NextScratchpad
<1>2. phase = "next" /\ ~Prunes /\ UNCHANGED <<boxVars, asked, listing, failed>>
  BY DEF NextScratchpad
<1>3. CASE Skip(e)
  BY <1>1, <1>2, <1>3
<1>4. CASE ~Skip(e)
  <2>1. e \in Listings /\ Iso(e) \in {"docker", "bwrap"}
    OBVIOUS
  <2>2. doing' \in Listings /\ doing'.box = e.box /\ doing'.via = e.via
        /\ doing'.iso = IF e.iso = "none" THEN e.iso ELSE Iso(e)
    BY <1>1, <1>4, <2>1 DEF Listings
  <2> QED BY <1>1, <1>2, <1>4, <2>2
<1> QED BY <1>3, <1>4

LEMMA RemovalShapeStep == RemovalInv /\ RemovalNext => RemovalShape'
<1> SUFFICES ASSUME RemovalInv, RemovalNext PROVE RemovalShape'
  OBVIOUS
<1> USE RemovalTargetIs DEF RemovalInv, RemovalShape, RemovalTypeOK, FromListing, Prunes, Box, Taken
<1>1. ASSUME NEW b \in Boxes, SessionStarts(b) \/ SessionEnds(b) PROVE RemovalShape'
  BY <1>1 DEF SessionStarts, SessionEnds, removerVars
<1>2. CASE ListPrune
  BY <1>2, ListPruneIs, OnDiskIs, InEngineIs DEF boxVars
<1>3. CASE ListScratchpads
  BY <1>3, ScratchIs DEF ListScratchpads, boxVars
<1>4. CASE Confirm \/ AllDone
  BY <1>4 DEF Confirm, AllDone, boxVars
<1>5. CASE NextTarget
  BY <1>5, NextTargetIs DEF FirstStep, boxVars
<1>6. CASE NextScratchpad
  BY <1>6, NextScratchpadIs DEF FirstStep, boxVars
<1>7. CASE RemoveNetwork \/ RemoveVolumes \/ StopContainer
  BY <1>7 DEF RemoveNetwork, RemoveVolumes, StopContainer, GoOn, boxVars
<1>8. CASE RemoveContainer
  BY <1>8 DEF RemoveContainer, AfterContainer
<1>9. CASE RemoveTree
  BY <1>9 DEF RemoveTree, GoOn, Leave
<1>10. CASE RemoveWorkDir
  BY <1>10 DEF RemoveWorkDir, Leave
<1>11. CASE RemoverKilled
  BY <1>11 DEF RemoverKilled
<1> QED BY <1>1, <1>2, <1>3, <1>4, <1>5, <1>6, <1>7, <1>8, <1>9, <1>10, <1>11
           DEF RemovalNext, RemoverSteps

LEMMA OnceStep == RemovalInv /\ RemovalNext => ListedOnce'
<1> SUFFICES ASSUME RemovalInv, RemovalNext PROVE ListedOnce'
  OBVIOUS
<1> USE DEF RemovalInv, RemovalShape, RemovalTypeOK, ListedOnce, Prunes, Box, Taken
<1>1. ASSUME NEW b \in Boxes, SessionStarts(b) \/ SessionEnds(b) PROVE ListedOnce'
  BY <1>1 DEF SessionStarts, SessionEnds, removerVars
<1>2. CASE ListPrune
  BY <1>2, ListPruneIs, DiskApart DEF boxVars
<1>3. CASE ListScratchpads
  BY <1>3, DiskApart DEF ListScratchpads, boxVars
<1>4. CASE Confirm \/ AllDone
  BY <1>4 DEF Confirm, AllDone, boxVars
<1>5. CASE NextTarget
  BY <1>5, NextTargetIs DEF FirstStep, boxVars
<1>6. CASE NextScratchpad
  BY <1>6, NextScratchpadIs DEF FirstStep, boxVars
<1>7. CASE RemoveNetwork \/ RemoveVolumes \/ StopContainer
  BY <1>7 DEF RemoveNetwork, RemoveVolumes, StopContainer, GoOn, boxVars
<1>8. CASE RemoveContainer
  BY <1>8 DEF RemoveContainer, AfterContainer
<1>9. CASE RemoveTree
  BY <1>9 DEF RemoveTree, GoOn, Leave
<1>10. CASE RemoveWorkDir
  BY <1>10 DEF RemoveWorkDir, Leave
<1>11. CASE RemoverKilled
  BY <1>11 DEF RemoverKilled
<1> QED BY <1>1, <1>2, <1>3, <1>4, <1>5, <1>6, <1>7, <1>8, <1>9, <1>10, <1>11
           DEF RemovalNext, RemoverSteps

LEMMA FromStep == RemovalInv /\ RemovalNext => FromListing'
<1> SUFFICES ASSUME RemovalInv, RemovalNext PROVE FromListing'
  OBVIOUS
<1> USE DEF RemovalInv, RemovalShape, RemovalTypeOK, FromListing, Prunes, Box, Taken
<1>1. ASSUME NEW b \in Boxes, SessionStarts(b) \/ SessionEnds(b) PROVE FromListing'
  BY <1>1 DEF SessionStarts, SessionEnds, removerVars
<1>2. CASE ListPrune
  BY <1>2, ListPruneIs DEF boxVars
<1>3. CASE ListScratchpads
  BY <1>3 DEF ListScratchpads, boxVars
<1>4. CASE Confirm \/ AllDone
  BY <1>4 DEF Confirm, AllDone, boxVars
<1>5. CASE NextTarget
  BY <1>5, NextTargetIs DEF FirstStep, boxVars
<1>6. CASE NextScratchpad
  BY <1>6, NextScratchpadIs DEF FirstStep, boxVars
<1>7. CASE RemoveNetwork \/ RemoveVolumes \/ StopContainer
  BY <1>7 DEF RemoveNetwork, RemoveVolumes, StopContainer, GoOn, boxVars
<1>8. CASE RemoveContainer
  BY <1>8 DEF RemoveContainer, AfterContainer
<1>9. CASE RemoveTree
  BY <1>9 DEF RemoveTree, GoOn, Leave
<1>10. CASE RemoveWorkDir
  BY <1>10 DEF RemoveWorkDir, Leave
<1>11. CASE RemoverKilled
  BY <1>11 DEF RemoverKilled
<1> QED BY <1>1, <1>2, <1>3, <1>4, <1>5, <1>6, <1>7, <1>8, <1>9, <1>10, <1>11
           DEF RemovalNext, RemoverSteps

LEMMA LockedStep == RemovalInv /\ RemovalNext => LockedWhole'
<1> SUFFICES ASSUME RemovalInv, RemovalNext PROVE LockedWhole'
  OBVIOUS
<1> USE DEF RemovalInv, RemovalShape, RemovalTypeOK, LockedWhole, FromListing, Prunes, Box, Taken
<1>1. ASSUME NEW b \in Boxes, SessionStarts(b) \/ SessionEnds(b) PROVE LockedWhole'
  BY <1>1 DEF SessionStarts, SessionEnds, removerVars
<1>2. CASE ListPrune
  BY <1>2, ListPruneIs DEF boxVars
<1>3. CASE ListScratchpads
  BY <1>3 DEF ListScratchpads, boxVars
<1>4. CASE Confirm \/ AllDone
  BY <1>4 DEF Confirm, AllDone, boxVars
<1>5. CASE NextTarget
  BY <1>5, NextTargetIs DEF FirstStep, boxVars
<1>6. CASE NextScratchpad
  BY <1>6, NextScratchpadIs DEF FirstStep, boxVars
<1>7. CASE RemoveNetwork \/ RemoveVolumes \/ StopContainer
  BY <1>7 DEF RemoveNetwork, RemoveVolumes, StopContainer, GoOn, boxVars
<1>8. CASE RemoveContainer
  BY <1>8 DEF RemoveContainer, AfterContainer
<1>9. CASE RemoveTree
  BY <1>9 DEF RemoveTree, GoOn, Leave
<1>10. CASE RemoveWorkDir
  BY <1>10 DEF RemoveWorkDir, Leave
<1>11. CASE RemoverKilled
  BY <1>11 DEF RemoverKilled
<1> QED BY <1>1, <1>2, <1>3, <1>4, <1>5, <1>6, <1>7, <1>8, <1>9, <1>10, <1>11
           DEF RemovalNext, RemoverSteps

LEMMA TargetsStep == RemovalInv /\ RemovalNext => TargetsWhole'
<1> SUFFICES ASSUME RemovalInv, RemovalNext PROVE TargetsWhole'
  OBVIOUS
<1> USE RemovalTargetIs DEF RemovalInv, RemovalShape, RemovalTypeOK, TargetsWhole, FromListing,
                     ListedOnce, Prunes, Box, Taken
<1>1. ASSUME NEW b \in Boxes, SessionStarts(b) \/ SessionEnds(b) PROVE TargetsWhole'
  BY <1>1 DEF SessionStarts, SessionEnds, removerVars
<1>2. CASE ListPrune
  BY <1>2, ListPruneIs, OnDiskIs DEF boxVars
<1>3. CASE ListScratchpads
  BY <1>3, ScratchIs DEF ListScratchpads, boxVars
<1>4. CASE Confirm \/ AllDone
  BY <1>4 DEF Confirm, AllDone, boxVars
<1>5. CASE NextTarget
  BY <1>5, NextTargetIs DEF FirstStep, boxVars
<1>6. CASE NextScratchpad
  BY <1>6, NextScratchpadIs DEF FirstStep, boxVars
<1>7. CASE RemoveNetwork \/ RemoveVolumes \/ StopContainer
  BY <1>7 DEF RemoveNetwork, RemoveVolumes, StopContainer, GoOn, boxVars
<1>8. CASE RemoveContainer
  BY <1>8 DEF RemoveContainer, AfterContainer
<1>9. CASE RemoveTree
  BY <1>9 DEF RemoveTree, GoOn, Leave
<1>10. CASE RemoveWorkDir
  BY <1>10 DEF RemoveWorkDir, Leave
<1>11. CASE RemoverKilled
  BY <1>11 DEF RemoverKilled
<1> QED BY <1>1, <1>2, <1>3, <1>4, <1>5, <1>6, <1>7, <1>8, <1>9, <1>10, <1>11
           DEF RemovalNext, RemoverSteps

LEMMA HeldStep == RemovalInv /\ RemovalNext => HeldApart'
<1> SUFFICES ASSUME RemovalInv, RemovalNext PROVE HeldApart'
  OBVIOUS
<1> USE RemovalTargetIs DEF RemovalInv, RemovalShape, RemovalTypeOK, HeldApart, FromListing,
                     ListedOnce, LockedWhole, Prunes, Box, Taken
<1>1. ASSUME NEW b \in Boxes, SessionStarts(b) \/ SessionEnds(b) PROVE HeldApart'
  BY <1>1 DEF SessionStarts, SessionEnds, removerVars
<1>2. CASE ListPrune
  BY <1>2, ListPruneIs, OnDiskIs DEF boxVars
<1>3. CASE ListScratchpads
  BY <1>3 DEF ListScratchpads, boxVars
<1>4. CASE Confirm \/ AllDone
  BY <1>4, SelectedAre DEF Confirm, AllDone, boxVars
<1>5. CASE NextTarget
  BY <1>5, NextTargetIs DEF FirstStep, boxVars
<1>6. CASE NextScratchpad
  BY <1>6, NextScratchpadIs DEF FirstStep, boxVars
<1>7. CASE RemoveNetwork \/ RemoveVolumes \/ StopContainer
  BY <1>7, SelectedAre DEF RemoveNetwork, RemoveVolumes, StopContainer, GoOn, boxVars
<1>8. CASE RemoveContainer
  BY <1>8, SelectedAre DEF RemoveContainer, AfterContainer
<1>9. CASE RemoveTree
  BY <1>9, SelectedAre DEF RemoveTree, GoOn, Leave
<1>10. CASE RemoveWorkDir
  BY <1>10, SelectedAre DEF RemoveWorkDir, Leave
<1>11. CASE RemoverKilled
  BY <1>11, SelectedAre DEF RemoverKilled
<1> QED BY <1>1, <1>2, <1>3, <1>4, <1>5, <1>6, <1>7, <1>8, <1>9, <1>10, <1>11
           DEF RemovalNext, RemoverSteps

LEMMA GoneStep == RemovalInv /\ RemovalNext => GoneWasSelected'
<1> SUFFICES ASSUME RemovalInv, RemovalNext PROVE GoneWasSelected'
  OBVIOUS
<1> USE RemovalTargetIs DEF RemovalInv, RemovalShape, RemovalTypeOK, GoneWasSelected, FromListing,
                     ListedOnce, Prunes, Box, Taken
<1>1. ASSUME NEW b \in Boxes, SessionStarts(b) \/ SessionEnds(b) PROVE GoneWasSelected'
  BY <1>1 DEF SessionStarts, SessionEnds, removerVars
<1>2. CASE ListPrune
  BY <1>2, ListPruneIs, OnDiskIs DEF boxVars
<1>3. CASE ListScratchpads
  BY <1>3 DEF ListScratchpads, boxVars
<1>4. CASE Confirm \/ AllDone
  BY <1>4 DEF Confirm, AllDone, boxVars
<1>5. CASE NextTarget
  BY <1>5, NextTargetIs DEF FirstStep, boxVars
<1>6. CASE NextScratchpad
  BY <1>6, NextScratchpadIs DEF FirstStep, boxVars
<1>7. CASE RemoveNetwork \/ RemoveVolumes \/ StopContainer
  BY <1>7 DEF RemoveNetwork, RemoveVolumes, StopContainer, GoOn, boxVars
<1>8. CASE RemoveContainer
  BY <1>8 DEF RemoveContainer, AfterContainer
<1>9. CASE RemoveTree
  BY <1>9 DEF RemoveTree, GoOn, Leave
<1>10. CASE RemoveWorkDir
  BY <1>10 DEF RemoveWorkDir, Leave
<1>11. CASE RemoverKilled
  BY <1>11 DEF RemoverKilled
<1> QED BY <1>1, <1>2, <1>3, <1>4, <1>5, <1>6, <1>7, <1>8, <1>9, <1>10, <1>11
           DEF RemovalNext, RemoverSteps

LEMMA WorkStep == RemovalInv /\ RemovalNext => StateBeforeWork'
<1> SUFFICES ASSUME RemovalInv, RemovalNext PROVE StateBeforeWork'
  OBVIOUS
<1> USE RemovalTargetIs DEF RemovalInv, RemovalShape, RemovalTypeOK, StateBeforeWork, FromListing,
                     ListedOnce, Prunes, Box, Taken
<1>1. ASSUME NEW b \in Boxes, SessionStarts(b) \/ SessionEnds(b) PROVE StateBeforeWork'
  BY <1>1 DEF SessionStarts, SessionEnds, removerVars
<1>2. CASE ListPrune
  BY <1>2, ListPruneIs DEF boxVars
<1>3. CASE ListScratchpads
  BY <1>3, ScratchIs DEF ListScratchpads, boxVars
<1>4. CASE Confirm \/ AllDone
  BY <1>4 DEF Confirm, AllDone, boxVars
<1>5. CASE NextTarget
  BY <1>5, NextTargetIs DEF FirstStep, boxVars
<1>6. CASE NextScratchpad
  BY <1>6, NextScratchpadIs DEF FirstStep, boxVars
<1>7. CASE RemoveNetwork \/ RemoveVolumes \/ StopContainer
  BY <1>7 DEF RemoveNetwork, RemoveVolumes, StopContainer, GoOn, boxVars
<1>8. CASE RemoveContainer
  BY <1>8 DEF RemoveContainer, AfterContainer
<1>9. CASE RemoveTree
  BY <1>9 DEF RemoveTree, GoOn, Leave
<1>10. CASE RemoveWorkDir
  BY <1>10 DEF RemoveWorkDir, Leave
<1>11. CASE RemoverKilled
  BY <1>11 DEF RemoverKilled
<1> QED BY <1>1, <1>2, <1>3, <1>4, <1>5, <1>6, <1>7, <1>8, <1>9, <1>10, <1>11
           DEF RemovalNext, RemoverSteps

LEMMA ContainerStep == RemovalInv /\ RemovalNext => ContainerBeforeTree'
<1> SUFFICES ASSUME RemovalInv, RemovalNext PROVE ContainerBeforeTree'
  OBVIOUS
<1> USE RemovalTargetIs DEF RemovalInv, RemovalShape, RemovalTypeOK, ContainerBeforeTree,
                     TargetsWhole, Prunes, Box, Taken
<1>1. ASSUME NEW b \in Boxes, SessionStarts(b) \/ SessionEnds(b) PROVE ContainerBeforeTree'
  BY <1>1 DEF SessionStarts, SessionEnds, removerVars
<1>2. CASE ListPrune
  BY <1>2, ListPruneIs, OnDiskIs DEF boxVars
<1>3. CASE ListScratchpads
  BY <1>3 DEF ListScratchpads, boxVars
<1>4. CASE Confirm \/ AllDone
  BY <1>4 DEF Confirm, AllDone, boxVars
<1>5. CASE NextTarget
  BY <1>5, NextTargetIs DEF FirstStep, boxVars
<1>6. CASE NextScratchpad
  BY <1>6, NextScratchpadIs DEF FirstStep, boxVars
<1>7. CASE RemoveNetwork \/ RemoveVolumes \/ StopContainer
  BY <1>7 DEF RemoveNetwork, RemoveVolumes, StopContainer, GoOn, boxVars
<1>8. CASE RemoveContainer
  BY <1>8 DEF RemoveContainer, AfterContainer
<1>9. CASE RemoveTree
  BY <1>9 DEF RemoveTree, GoOn, Leave
<1>10. CASE RemoveWorkDir
  BY <1>10 DEF RemoveWorkDir, Leave
<1>11. CASE RemoverKilled
  BY <1>11 DEF RemoverKilled
<1> QED BY <1>1, <1>2, <1>3, <1>4, <1>5, <1>6, <1>7, <1>8, <1>9, <1>10, <1>11
           DEF RemovalNext, RemoverSteps

-----------------------------------------------------------------------------
(* The theorem *)

LEMMA ListingsFinite == IsFiniteSet(Listings)
<1> DEFINE Vias == {"disk", "docker"}
           Isos == {"docker", "bwrap", "none", "state"}
           Fields == Boxes \X (Vias \X (Isos \X (BOOLEAN \X BOOLEAN)))
           f == [e \in Listings |-> <<e.box, <<e.via, <<e.iso, <<e.active, e.orphaned>>>>>>>>]
<1>1. IsFiniteSet(Vias) /\ IsFiniteSet(Isos) /\ IsFiniteSet(BOOLEAN)
  <2>1. ASSUME NEW x, NEW y PROVE IsFiniteSet({x, y})
    <3>1. {x, y} = {x} \cup {y} /\ IsFiniteSet({x}) /\ IsFiniteSet({y})
      BY FS_Singleton
    <3>2. IsFiniteSet({x} \cup {y})
      BY <3>1, FS_Union
    <3> QED BY <3>1, <3>2
  <2>2. IsFiniteSet(Isos)
    <3>1. Isos = {"docker", "bwrap"} \cup {"none", "state"}
      OBVIOUS
    <3>2. IsFiniteSet({"docker", "bwrap"} \cup {"none", "state"})
      BY <2>1, FS_Union
    <3> QED BY <3>1, <3>2
  <2>3. BOOLEAN = {TRUE, FALSE}
    OBVIOUS
  <2> QED BY <2>1, <2>2, <2>3
<1>2. IsFiniteSet(Fields)
  <2>1. IsFiniteSet(BOOLEAN \X BOOLEAN)
    BY <1>1, FS_Product
  <2>2. IsFiniteSet(Isos \X (BOOLEAN \X BOOLEAN))
    BY <1>1, <2>1, FS_Product
  <2>3. IsFiniteSet(Vias \X (Isos \X (BOOLEAN \X BOOLEAN)))
    BY <1>1, <2>2, FS_Product
  <2> QED BY <2>3, FS_Product
<1>3. f \in Injection(Listings, Fields)
  <2>1. f \in [Listings -> Fields]
    BY DEF Listings
  <2>2. \A a, b \in Listings : f[a] = f[b] => a = b
    BY DEF Listings
  <2> QED BY <2>1, <2>2 DEF Injection, IsInjective
<1> QED BY <1>2, <1>3, FS_Injection

LEMMA LaterCounted ==
  ASSUME NEW all \in SUBSET Listings, NEW e
  PROVE  Cardinality(LaterThan(e, all)) \in Nat
<1>1. LaterThan(e, all) \subseteq Listings
  BY DEF LaterThan
<1> QED BY <1>1, ListingsFinite, FS_Subset, FS_CardinalityType

LEMMA RemovalInvariance == RemovalSpec => []RemovalInv
<1>1. RemovalInit => RemovalInv
  <2> SUFFICES ASSUME RemovalInit PROVE RemovalInv
    OBVIOUS
  <2>1. PICK was \in [Boxes -> {"none", "idle", "live", "orphan"}] :
          /\ tree = [b \in Boxes |-> IF was[b] = "none" THEN "none" ELSE "whole"]
          /\ workDir = {b \in Boxes : was[b] # "orphan"}
          /\ locked = {b \in Boxes : was[b] = "live"}
          /\ container = [b \in Boxes |-> IF b \notin InDocker \/ was[b] = "none" THEN "none"
                                          ELSE IF was[b] = "live" THEN "running" ELSE "stopped"]
          /\ network = {b \in InDocker : was[b] # "none"} /\ volume = network
    BY DEF RemovalInit
  <2>2. RemovalTypeOK
    BY <2>1 DEF RemovalInit, RemovalTypeOK
  <2>3. asked.cmd \in {"prune", "rm"} /\ (Prunes => asked.with \in PruneOptions)
    BY DEF RemovalInit, Prunes
  <2>4. RemovalShape
    BY <2>2, <2>3 DEF RemovalInit, RemovalShape
  <2>5. LockedWhole /\ TargetsWhole
    BY <2>1 DEF RemovalInit, LockedWhole, TargetsWhole
  <2>6. ContainerBeforeTree
    BY <2>1 DEF RemovalInit, ContainerBeforeTree
  <2>7. ListedOnce /\ FromListing /\ HeldApart /\ GoneWasSelected /\ StateBeforeWork
    BY DEF RemovalInit, ListedOnce, FromListing, HeldApart, GoneWasSelected, StateBeforeWork
  <2> QED BY <2>4, <2>5, <2>6, <2>7 DEF RemovalInv
<1>2. RemovalInv /\ UNCHANGED removalVars => RemovalInv'
  BY DEF removalVars, boxVars, removerVars, RemovalInv, RemovalShape, RemovalTypeOK, Prunes,
         ListedOnce, FromListing, LockedWhole, TargetsWhole, HeldApart, GoneWasSelected,
         StateBeforeWork, ContainerBeforeTree, Taken
<1>3. RemovalInv /\ RemovalNext => RemovalInv'
  BY RemovalShapeStep, OnceStep, FromStep, LockedStep, TargetsStep, HeldStep, GoneStep, WorkStep,
     ContainerStep DEF RemovalInv
<1> QED BY <1>1, <1>2, <1>3, PTL DEF RemovalSpec

\* The listings, targets and steps of a prune and of a scratchpad removal keep to their
\* values (internal/sandbox/metadata.go, cmd/devsandbox/scratchpad.go).
THEOREM RemovalTyped == RemovalSpec => []RemovalTypeOK
<1>1. RemovalInv => RemovalTypeOK
  BY DEF RemovalInv, RemovalShape
<1> QED BY <1>1, RemovalInvariance, PTL

\* A removal takes what its options name and no sandbox that was in use when it looked and
\* ever since, the state of a scratchpad before its directory, whichever step fails or is
\* killed and whatever sessions start meanwhile (internal/sandbox/docker.go).
THEOREM RemovedRight == RemovalSpec => []RemovedAsAsked
<1>1. RemovalInv => RemovedAsAsked
  <2> SUFFICES ASSUME RemovalInv PROVE RemovedAsAsked
    OBVIOUS
  <2>1. \A b \in held : tree[b] = "whole"
    BY DEF RemovalInv, HeldApart
  <2>2. ASSUME Prunes, NEW b \in Boxes, NEW e \in Of(b, "disk"), tree[b] = "none"
        PROVE  /\ ~(asked.with.all \/ asked.with.older \/ asked.with.keep > 0) => e.orphaned
               /\ asked.with.all \/ Cardinality(LaterThan(e, listing)) >= asked.with.keep
    <3>1. e \in Selected(listing, asked.with) /\ asked.with.keep \in Nat
      BY <2>2 DEF RemovalInv, GoneWasSelected, RemovalShape, Of
    <3>2. Cardinality(LaterThan(e, listing)) \in Nat
      BY LaterCounted DEF RemovalInv, RemovalShape
    <3> QED BY <3>1, <3>2 DEF Selected
  <2>3. ASSUME ~Prunes, ~asked.with.keepState, NEW b \in Scratchpads, b \notin workDir, starts = 0,
               NEW e \in listing, e.box = b, e.iso # "none", ~e.orphaned
        PROVE  tree[b] = "none"
    BY <2>3 DEF RemovalInv, StateBeforeWork
  <2>4. ASSUME starts = 0, NEW e \in listing, e.box \notin failed, tree[e.box] = "none"
        PROVE  container[e.box] = "none"
    BY <2>4, RemovalTargetIs DEF RemovalInv, ContainerBeforeTree, RemovalShape
  <2> QED BY <2>1, <2>2, <2>3, <2>4 DEF RemovedAsAsked
<1> QED BY <1>1, RemovalInvariance, PTL

HIDE RemovalAssumption

-----------------------------------------------------------------------------
(* The home of a sandbox, its shims and what is shared with it by copy: what a
   boot put there is what it promised, unless the workload has changed it.     *)

-----------------------------------------------------------------------------
(* The home as a homeTree *)

\* What is below a path has it above.
LEMMA BelowIs ==
  ASSUME NEW p \in HomePaths, NEW q \in HomePaths
  PROVE  /\ p \in Below(q) <=> q \in Above(p)
         /\ p \in Below(q) => p # q /\ p \notin Above(q)
PROOF
<1>1. p \in Seq(STRING) /\ q \in Seq(STRING) /\ Len(p) \in Nat \ {0} /\ Len(q) \in Nat \ {0}
  BY HomeAssumption
<1>2. ASSUME p \in Below(q) PROVE q \in Above(p)
  <2>1. Len(p) > Len(q) /\ SubSeq(p, 1, Len(q)) = q
    BY <1>2 DEF Below
  <2>2. Len(q) \in 1..(Len(p) - 1)
    BY <1>1, <2>1
  <2> QED BY <2>1, <2>2 DEF Above
<1>3. ASSUME q \in Above(p) PROVE p \in Below(q)
  <2>1. PICK n \in 1..(Len(p) - 1) : q = SubSeq(p, 1, n)
    BY <1>3 DEF Above
  <2>2. Len(q) = n
    BY <1>1, <2>1
  <2> QED BY <1>1, <2>1, <2>2 DEF Below
<1>4. ASSUME p \in Below(q) PROVE p # q /\ p \notin Above(q)
  <2>1. Len(p) > Len(q)
    BY <1>4 DEF Below
  <2>2. \A n \in 1..(Len(q) - 1) : Len(SubSeq(q, 1, n)) = n
    BY <1>1
  <2> QED BY <1>1, <2>1, <2>2 DEF Above
<1> QED BY <1>2, <1>3, <1>4

LEMMA AboveIs ==
  ASSUME NEW p \in HomePaths, NEW q \in Above(p)
  PROVE  /\ q \in HomePaths /\ Above(q) \subseteq Above(p)
         /\ \A m \in Above(p) : m = q \/ m \in Above(q) \/ q \in Above(m)
PROOF
<1>1. p \in Seq(STRING) /\ Len(p) \in Nat
  BY HomeAssumption
<1>2. q \in HomePaths
  BY HomeAssumption
<1>3. PICK n \in 1..(Len(p) - 1) : q = SubSeq(p, 1, n)
  BY DEF Above
<1>4. \A k \in 1..(Len(p) - 1) : Len(SubSeq(p, 1, k)) = k
  BY <1>1
<1>5. \A k \in 1..(Len(p) - 1) : \A j \in 1..k : SubSeq(SubSeq(p, 1, k), 1, j) = SubSeq(p, 1, j)
  BY <1>1
<1>6. Above(q) \subseteq Above(p)
  BY <1>1, <1>3, <1>4, <1>5 DEF Above
<1>7. ASSUME NEW m \in Above(p) PROVE m = q \/ m \in Above(q) \/ q \in Above(m)
  <2>1. PICK k \in 1..(Len(p) - 1) : m = SubSeq(p, 1, k)
    BY <1>7 DEF Above
  <2>2. CASE k < n
    BY <1>1, <1>3, <1>4, <1>5, <2>1, <2>2 DEF Above
  <2>3. CASE n < k
    BY <1>1, <1>3, <1>4, <1>5, <2>1, <2>3 DEF Above
  <2> QED BY <1>1, <1>3, <2>1, <2>2, <2>3
<1> QED BY <1>2, <1>6, <1>7

\* The way to what is kept is kept.
LEMMA KeepsUp ==
  ASSUME mounts \subseteq HomePaths, NEW p \in HomePaths, Keeps(p), NEW q \in Above(p)
  PROVE  Keeps(q)
PROOF
<1>1. q \in HomePaths
  BY AboveIs
<1>2. PICK m \in mounts : p = m \/ m \in Below(p) \/ p \in Below(m)
  BY DEF Keeps
<1>3. m \in HomePaths
  OBVIOUS
<1>4. CASE p = m
  BY <1>1, <1>2, <1>4, BelowIs DEF Keeps
<1>5. CASE m \in Below(p)
  <2>1. p \in Above(m)
    BY <1>3, <1>5, BelowIs
  <2>2. q \in Above(m)
    BY <1>3, <2>1, AboveIs
  <2> QED BY <1>1, <1>3, <2>2, BelowIs DEF Keeps
<1>6. CASE p \in Below(m)
  <2>1. m \in Above(p)
    BY <1>3, <1>6, BelowIs
  <2>2. m = q \/ m \in Above(q) \/ q \in Above(m)
    BY <2>1, AboveIs
  <2> QED BY <1>1, <1>3, <2>2, BelowIs DEF Keeps
<1> QED BY <1>2, <1>4, <1>5, <1>6

-----------------------------------------------------------------------------
(* The invariant *)

\* Of a boot: when the installs are looked at, and when the shims are settled.
Seeding == {"baked", "host", "version", "reshim"}
Settled == {"manifest", "clean", "copy", "running"}

Resolving == UNION {UNION {Wanted(s, v) : v \in ToolVersions} : s \in {"baked", "host"}}
InstallRecords ==
  [shape : {"none", "own", "link", "seed"}, of : {"", "baked", "host"}, has : SUBSET Resolving]

ShimShape ==
  /\ mounts \in MountSets
  /\ installs \in [ToolVersions -> InstallRecords]
  /\ shims \in [of : SUBSET ToolVersions, by : HostMises \cup {ImageMise}]
  /\ hostMise \in HostMises
  /\ miseVer \in HostMises \cup {ImageMise, ""}
  /\ shimAt \in ShimPhases /\ entry \in Nat /\ 1 <= entry /\ entry <= Len(Overlays) + 1
  /\ pending \subseteq ToolVersions /\ own \subseteq ToolVersions
  /\ seeded \in BOOLEAN /\ partial \in BOOLEAN /\ untouched \in BOOLEAN /\ strayed = FALSE

\* What has something below it is a directory, and so is what a mount keeps.
HomeTrees == [HomePaths -> {"none", "dir", "file", "host", "link"}]
IsTree(homeTree) == \A p \in HomePaths : homeTree[p] # "none"
    => \A q \in Above(p) : homeTree[q] = "dir"
HasKept(homeTree) == \A p \in HomePaths : Keeps(p) => homeTree[p] = "dir"

\* A directory shared by copy: cleared, and then as promised.
Bare(p) == IF Keeps(p) THEN "dir" ELSE "none"
Promise(target, p) == IF p \in Belongs(target) THEN Shared[p] ELSE Bare(p)

Cleared ==
  shimAt = "copy" =>
    /\ entry <= Len(Overlays) /\ Target \notin skipped
    /\ \A p \in Below(Target) : home[p] = Bare(p)

Copied ==
  /\ shimAt \notin {"off", "clean", "copy", "running"} => entry = 1
  /\ shimAt = "running" => entry > Len(Overlays)
  /\ shimAt \in {"clean", "copy"} \/ (shimAt = "running" /\ untouched) =>
       \A n \in 1..Len(Overlays) : n < entry /\ Overlays[n] \notin skipped =>
         \A p \in Below(Overlays[n]) :
           (shimAt = "copy" /\ p \in Below(Target)) \/ home[p] = Promise(Overlays[n], p)

\* What the workload installed stays its own; a version that is shipped is looked at.
OwnStays == \A v \in own : installs[v].shape = "own"

Looked(source, v) == installs[v].shape # "none" \/ Ships[source][v] = {}
Covered ==
  /\ shimAt = "baked" => \A v \in ToolVersions \ pending : Looked("baked", v)
  /\ shimAt \in {"host", "version", "reshim", "mark"} \cup Settled
         /\ (shimAt # "running" \/ untouched) =>
       \A v \in ToolVersions : Looked("baked", v)
  /\ shimAt = "host" => \A v \in ToolVersions \ pending : Looked("host", v)
  /\ shimAt \in {"version", "reshim", "mark"} \cup Settled /\ (shimAt # "running" \/ untouched) =>
       \A v \in ToolVersions : Looked("host", v)

\* As long as nothing has failed: what is seeded is whole, and has a shim or will get it;
\* the marker names the mise that made the shims; and settled, they are of the mise in use.
Whole ==
  ~partial =>
    \A v \in ToolVersions : installs[v].shape = "seed" =>
      /\ installs[v].has = Wanted(installs[v].of, v)
      /\ installs[v].has # {} => v \in shims.of \/ (seeded /\ shimAt \in Seeding)

Marked ==
  ~partial =>
    /\ shimAt # "mark" => madeBy \in {"", shims.by}
    /\ shimAt \in {"reshim", "mark"} => miseVer = CurrentMise /\ Works(CurrentMise)
    /\ shimAt \in {"mark"} \cup Settled => shims.by = CurrentMise

ShimInv ==
  /\ ShimShape /\ home \in HomeTrees /\ IsTree(home) /\ HasKept(home) /\ Cleared /\ Copied
  /\ OwnStays /\ Covered /\ Whole /\ Marked

-----------------------------------------------------------------------------
(* What a boot does to the home *)

LEMMA OverlayIs ==
  ASSUME NEW n \in 1..Len(Overlays)
  PROVE  Overlays[n] \in HomePaths /\ Shared[Overlays[n]] = "dir"
BY HomeAssumption

\* What is below two directories shared by copy is promised once, and what is on the way
\* to one is promised a directory.
LEMMA PromisedOnce ==
  ASSUME NEW s \in HomePaths, NEW t \in HomePaths, NEW p \in Below(s)
  PROVE  /\ p \in Below(t) => Promise(s, p) = Promise(t, p)
         /\ p \in Above(t) \cup {t} /\ Shared[t] = "dir" => Promise(s, p) = "dir"
PROOF
<1>1. p \in HomePaths
  BY DEF Below
<1>2. p \in Below(t) => Promise(s, p) = Promise(t, p)
  BY DEF Promise, Belongs
<1>3. ASSUME p \in Above(t) \cup {t}, Shared[t] = "dir" PROVE Promise(s, p) = "dir"
  <2>1. Shared[p] = "dir"
    BY <1>3, HomeAssumption
  <2>2. p \in Belongs(s) \/ \E m \in mounts : p = m \/ p \in Below(m)
    BY <2>1 DEF Belongs
  <2> QED BY <2>1, <2>2 DEF Promise, Bare, Keeps
<1> QED BY <1>2, <1>3

\* No link is left on the way to the target.
LEMMA RealDirPathIs ==
  ASSUME NEW target \in HomePaths, mounts \subseteq HomePaths,
         home \in HomeTrees, IsTree(home), HasKept(home)
  PROVE  LET homeTree == RealDirPath(target)
         IN /\ homeTree \in HomeTrees /\ IsTree(homeTree) /\ HasKept(homeTree)
            /\ ~Astray(homeTree, target)
            /\ \A p \in HomePaths : p \notin Above(target) \cup {target} => homeTree[p] = home[p]
            /\ \A p \in HomePaths : home[p] \in {"none", "dir"} => homeTree[p] = home[p]
PROOF
<1> DEFINE homeTree == RealDirPath(target)
<1>1. homeTree \in HomeTrees
  BY DEF RealDirPath, HomeTrees
<1>2. \A p \in HomePaths : /\ homeTree[p] # "none" => home[p] # "none"
                           /\ home[p] = "dir" => homeTree[p] = "dir"
  BY DEF RealDirPath
<1>3. IsTree(homeTree)
  BY <1>2, AboveIs DEF IsTree
<1>4. HasKept(homeTree)
  BY <1>2 DEF HasKept
<1>5. ~Astray(homeTree, target)
  BY AboveIs DEF Astray, RealDirPath
<1>6. \A p \in HomePaths : p \notin Above(target) \cup {target} => homeTree[p] = home[p]
  BY DEF RealDirPath
<1>7. \A p \in HomePaths : home[p] \in {"none", "dir"} => homeTree[p] = home[p]
  BY DEF RealDirPath
<1> QED BY <1>1, <1>3, <1>4, <1>5, <1>6, <1>7

\* Clearing goes from the leaves, and spares the mounts and the way to them.
LEMMA RemovedIs ==
  ASSUME NEW target \in HomePaths, mounts \subseteq HomePaths,
         NEW homeTree \in HomeTrees, IsTree(homeTree), HasKept(homeTree),
         NEW gone \in SUBSET Stale(homeTree, target),
         \A p \in gone : Below(p) \cap Stale(homeTree, target) \subseteq gone
  PROVE  Removed(homeTree, gone) \in HomeTrees /\ IsTree(Removed(homeTree, gone))
         /\ HasKept(Removed(homeTree, gone))
PROOF
<1> DEFINE left == Removed(homeTree, gone)
<1>1. left \in HomeTrees
  BY DEF Removed, HomeTrees
<1>2. HasKept(left)
  BY DEF HasKept, Removed, Stale
<1>3. ASSUME NEW p \in HomePaths, left[p] # "none", NEW q \in Above(p)
      PROVE  left[q] = "dir"
  <2>1. p \notin gone /\ homeTree[p] # "none"
    BY <1>3 DEF Removed
  <2>2. q \in HomePaths /\ homeTree[q] = "dir" /\ p \in Below(q)
    BY <1>3, <2>1, AboveIs, BelowIs DEF IsTree
  <2>3. CASE q \in gone
    <3>1. q \in Below(target) /\ ~Keeps(q)
      BY <2>3 DEF Stale
    <3>2. p \in Below(target)
      <4>1. target \in Above(q)
        BY <2>2, <3>1, BelowIs
      <4>2. target \in Above(p)
        BY <4>1, AboveIs
      <4> QED BY <4>2, BelowIs
    <3>3. ~Keeps(p)
      BY <3>1, KeepsUp
    <3>4. p \in Stale(homeTree, target)
      BY <2>1, <3>2, <3>3 DEF Stale
    <3> QED BY <2>1, <2>2, <2>3, <3>4
  <2>4. CASE q \notin gone
    BY <2>2, <2>4 DEF Removed
  <2> QED BY <2>3, <2>4
<1> QED BY <1>1, <1>2, <1>3 DEF IsTree

\* A copy goes from the root, into a directory that holds only what mounts keep.
LEMMA MadeIs ==
  ASSUME NEW target \in HomePaths, Shared[target] = "dir", mounts \subseteq HomePaths,
         NEW homeTree \in HomeTrees, IsTree(homeTree), HasKept(homeTree),
         \A p \in Below(target) : homeTree[p] = Bare(p),
         NEW got \in SUBSET {p \in Belongs(target) : Fits(p)},
         \A p \in got : Above(p) \cap Below(target) \subseteq got
  PROVE  Made(homeTree, target, got) \in HomeTrees /\ IsTree(Made(homeTree, target, got))
         /\ HasKept(Made(homeTree, target, got))
PROOF
<1> DEFINE made == Made(homeTree, target, got)
<1>1. \A p \in got : /\ p \in Below(target) /\ p \in HomePaths
                     /\ Shared[p] \in {"dir", "host", "link"} /\ Fits(p)
  BY HomeAssumption DEF Belongs, Below
<1>2. \A p \in HomePaths :
        made[p] = IF p \in got THEN Shared[p]
                  ELSE IF p \in Above(target) \cup {target} THEN "dir" ELSE homeTree[p]
  BY DEF Made
<1>3. made \in HomeTrees
  BY <1>1 DEF Made, HomeTrees
<1>4. HasKept(made)
  BY <1>1, <1>2 DEF HasKept, Fits
<1>5. ASSUME NEW p \in HomePaths, made[p] # "none", NEW q \in Above(p)
      PROVE  made[q] = "dir"
  <2>1. q \in HomePaths
    BY AboveIs
  <2>3. CASE p \in got
    <3>1. Shared[p] # "none" /\ Shared[q] = "dir"
      BY <1>1, <2>3, HomeAssumption
    <3>2. CASE q \in Below(target)
      BY <1>2, <2>1, <2>3, <3>1, <3>2
    <3>3. CASE q \notin Below(target)
      <4>1. target \in Above(p)
        BY <1>1, <2>3, BelowIs
      <4>2. q \in Above(target) \cup {target}
        BY <2>1, <3>3, <4>1, AboveIs, BelowIs
      <4> QED BY <1>2, <2>1, <3>1, <4>2
    <3> QED BY <3>2, <3>3
  <2>4. CASE p \in Above(target) \cup {target}
    <3>1. q \in Above(target)
      BY <2>4, AboveIs
    <3>2. Shared[q] = "dir"
      BY <3>1, HomeAssumption
    <3> QED BY <1>2, <2>1, <3>1, <3>2
  <2>5. CASE p \notin got /\ p \notin Above(target) \cup {target}
    <3>1. homeTree[p] # "none" /\ homeTree[q] = "dir"
      BY <1>2, <1>5, <2>5 DEF IsTree
    <3>2. q \in got => Shared[q] = "dir"
      <4> SUFFICES ASSUME q \in got PROVE Shared[q] = "dir"
        OBVIOUS
      <4>1. p \in Below(target)
        <5>1. target \in Above(q)
          BY <1>1, <2>1, BelowIs
        <5>2. target \in Above(p)
          BY <5>1, AboveIs
        <5> QED BY <5>2, BelowIs
      <4>2. Keeps(p)
        BY <3>1, <4>1 DEF Bare
      <4>3. Keeps(q)
        BY <4>2, KeepsUp
      <4> QED BY <1>1, <4>3 DEF Fits
    <3> QED BY <1>2, <2>1, <3>1, <3>2
  <2> QED BY <2>3, <2>4, <2>5
<1> QED BY <1>3, <1>4, <1>5 DEF IsTree

-----------------------------------------------------------------------------
(* The steps that change the home *)

LEMMA TargetIs ==
  ASSUME ShimInv, entry <= Len(Overlays)
  PROVE  /\ Target \in HomePaths /\ Shared[Target] = "dir"
         /\ mounts \subseteq HomePaths
PROOF
<1>1. Len(Overlays) \in Nat
  BY HomeAssumption
<1>2. mounts \in MountSets /\ entry \in Nat /\ 1 <= entry
  BY DEF ShimInv, ShimShape
<1>3. entry \in 1..Len(Overlays)
  BY <1>1, <1>2
<1> QED BY <1>2, <1>3, OverlayIs, HomeAssumption DEF Target

\* Whatever it removes, it removes from the home.
LEMMA CleanIs ==
  ASSUME ShimInv, entry <= Len(Overlays),
         NEW gone \in SUBSET Stale(RealDirPath(Target), Target), CleanTarget(gone),
         \A p \in gone : Below(p) \cap Stale(RealDirPath(Target), Target) \subseteq gone
  PROVE  /\ strayed' = strayed
         /\ home' = Removed(RealDirPath(Target), gone)
         /\ home' \in HomeTrees /\ IsTree(home') /\ HasKept(home')
PROOF
<1>1. /\ Target \in HomePaths /\ mounts \subseteq HomePaths
      /\ home \in HomeTrees /\ IsTree(home) /\ HasKept(home)
  BY TargetIs DEF ShimInv
<1> DEFINE homeTree == RealDirPath(Target)
<1>2. homeTree \in HomeTrees /\ IsTree(homeTree) /\ HasKept(homeTree) /\ ~Astray(homeTree, Target)
  BY <1>1, RealDirPathIs
<1>3. strayed' = strayed /\ home' = Removed(homeTree, gone)
  BY <1>2 DEF CleanTarget
<1> HIDE DEF homeTree
<1> USE DEF homeTree
<1>4. Removed(homeTree, gone) \in HomeTrees /\ IsTree(Removed(homeTree, gone))
      /\ HasKept(Removed(homeTree, gone))
  BY <1>1, <1>2, RemovedIs
<1> QED BY <1>3, <1>4

LEMMA CopyIs ==
  ASSUME ShimInv, AtOverlay("copy"),
         NEW got \in SUBSET {p \in Belongs(Target) : Fits(p)}, CopyTarget(got),
         \A p \in got : Above(p) \cap Below(Target) \subseteq got
  PROVE  /\ strayed' = strayed
         /\ home' = Made(RealDirPath(Target), Target, got)
         /\ home' \in HomeTrees /\ IsTree(home') /\ HasKept(home')
PROOF
<1>1. /\ Target \in HomePaths /\ mounts \subseteq HomePaths /\ Shared[Target] = "dir"
      /\ home \in HomeTrees /\ IsTree(home) /\ HasKept(home)
  BY TargetIs DEF ShimInv, AtOverlay
<1> DEFINE homeTree == RealDirPath(Target)
<1>2. /\ homeTree \in HomeTrees /\ IsTree(homeTree) /\ HasKept(homeTree)
             /\ ~Astray(homeTree, Target)
      /\ \A p \in HomePaths : p \notin Above(Target) \cup {Target} => homeTree[p] = home[p]
  BY <1>1, RealDirPathIs
<1>3. strayed' = strayed /\ home' = Made(homeTree, Target, got)
  BY <1>2 DEF CopyTarget
<1>4. \A p \in Below(Target) : homeTree[p] = Bare(p)
  BY <1>1, <1>2, BelowIs DEF ShimInv, Cleared, AtOverlay, Below
<1>5. Made(homeTree, Target, got) \in HomeTrees /\ IsTree(Made(homeTree, Target, got))
      /\ HasKept(Made(homeTree, Target, got))
  BY <1>1, <1>2, <1>4, MadeIs
<1> QED BY <1>3, <1>5

\* What the copy leaves alone goes all the way up.
LEMMA BelongsUp ==
  ASSUME mounts \subseteq HomePaths, NEW target \in HomePaths, NEW p \in Belongs(target)
  PROVE  Above(p) \cap Below(target) \subseteq Belongs(target)
PROOF
<1> SUFFICES ASSUME NEW q \in Above(p), q \in Below(target) PROVE q \in Belongs(target)
  OBVIOUS
<1>1. p \in HomePaths /\ q \in HomePaths /\ Shared[p] # "none"
  BY DEF Belongs, Below
<1>2. Shared[q] = "dir"
  BY <1>1, HomeAssumption
<1>3. ASSUME NEW m \in mounts, q = m \/ q \in Below(m) PROVE FALSE
  <2>1. m = q \/ m \in Above(q)
    BY <1>1, <1>3, BelowIs
  <2>2. m \in Above(p)
    BY <1>1, <2>1, AboveIs
  <2>3. p \in Below(m)
    BY <1>1, <2>2, BelowIs
  <2> QED BY <2>3 DEF Belongs
<1> QED BY <1>2, <1>3 DEF Belongs

LEMMA HomeStep ==
  ASSUME ShimInv, ShimNext
  PROVE  home' \in HomeTrees /\ IsTree(home') /\ HasKept(home') /\ mounts' = mounts
         /\ strayed' = strayed
PROOF
<1> DEFINE Sound == home' \in HomeTrees /\ IsTree(home') /\ HasKept(home')
<1>0. home \in HomeTrees /\ IsTree(home) /\ HasKept(home) /\ mounts \subseteq HomePaths
  BY HomeAssumption DEF ShimInv, ShimShape
<1>1. CASE UNCHANGED treeVars
  BY <1>0, <1>1 DEF treeVars
<1>2. CASE SetupDirectories
  <2>1. \A p \in HomePaths :
          home'[p] = IF p \in XdgDirs /\ home[p] = "none"
                        /\ \A q \in Above(p) : home[q] \in {"none", "dir"}
                     THEN "dir" ELSE home[p]
    BY <1>2 DEF SetupDirectories
  <2>2. home' \in HomeTrees /\ HasKept(home')
    BY <1>0, <1>2, <2>1 DEF SetupDirectories, HomeTrees, HasKept
  <2>3. ASSUME NEW p \in HomePaths, home'[p] # "none", NEW q \in Above(p)
        PROVE  home'[q] = "dir"
    <3>1. q \in HomePaths /\ Above(q) \subseteq Above(p)
      BY AboveIs
    <3>2. CASE home[p] # "none"
      BY <1>0, <2>1, <3>1, <3>2 DEF IsTree
    <3>3. CASE home[p] = "none"
      BY <2>1, <2>3, <3>1, <3>3, HomeAssumption
    <3> QED BY <3>2, <3>3
  <2>4. mounts' = mounts /\ strayed' = strayed
    BY <1>2 DEF SetupDirectories
  <2> QED BY <2>2, <2>3, <2>4 DEF IsTree
<1>3. CASE CleanOverlay
  BY <1>3, CleanIs DEF CleanOverlay, AtOverlay
<1>4. CASE CopyOverlay
  <2>1. Belongs(Target) \in SUBSET {p \in Belongs(Target) : Fits(p)}
        /\ \A p \in Belongs(Target) : Above(p) \cap Below(Target) \subseteq Belongs(Target)
    BY <1>0, <1>4, BelongsUp, TargetIs DEF CopyOverlay, AtOverlay
  <2> QED BY <1>4, <2>1, CopyIs DEF CopyOverlay
<1>5. CASE CutShort
  <2>1. mounts' = mounts
    BY <1>5 DEF CutShort
  <2>2. CASE UNCHANGED <<home, strayed>>
    BY <1>0, <2>1, <2>2
  <2>3. ASSUME AtOverlay("clean"), NEW gone \in SUBSET Stale(RealDirPath(Target), Target),
               \A p \in gone : Below(p) \cap Stale(RealDirPath(Target), Target) \subseteq gone,
               CleanTarget(gone)
        PROVE  Sound /\ strayed' = strayed
    BY <2>3, CleanIs DEF AtOverlay
  <2>4. ASSUME AtOverlay("copy"), NEW got \in SUBSET {p \in Belongs(Target) : Fits(p)},
               \A p \in got : Above(p) \cap Below(Target) \subseteq got, CopyTarget(got)
        PROVE  Sound /\ strayed' = strayed
    BY <2>4, CopyIs
  <2> QED BY <1>5, <2>1, <2>2, <2>3, <2>4 DEF CutShort
<1>6. CASE WorkloadWrites
  <2>1. PICK p \in HomePaths, kind \in {"none", "dir", "file", "link"} :
          /\ ~Keeps(p) /\ \A q \in Above(p) : home[q] = "dir"
          /\ home' = [q \in HomePaths |-> IF q = p THEN kind ELSE IF q \in Below(p) THEN "none"
                                          ELSE home[q]]
    BY <1>6 DEF WorkloadWrites
  <2>2. home' \in HomeTrees
    BY <1>0, <2>1 DEF HomeTrees
  <2>3. ASSUME NEW q \in HomePaths, Keeps(q) PROVE home'[q] = "dir"
    <3>1. q # p /\ q \notin Below(p)
      BY <1>0, <2>1, <2>3, BelowIs, KeepsUp
    <3> QED BY <1>0, <2>1, <2>3, <3>1 DEF HasKept
  <2>4. ASSUME NEW q \in HomePaths, home'[q] # "none", NEW r \in Above(q)
        PROVE  home'[r] = "dir"
    <3>1. r \in HomePaths
      BY AboveIs
    <3>2. CASE q = p
      <4>1. r # p /\ r \notin Below(p)
        BY <3>1, <3>2, BelowIs
      <4> QED BY <2>1, <3>1, <3>2, <4>1
    <3>3. CASE q # p
      <4>1. q \notin Below(p) /\ home[q] # "none"
        BY <2>1, <2>4, <3>3
      <4>2. p \notin Above(q)
        BY <4>1, BelowIs
      <4>3. r # p /\ r \notin Below(p)
        BY <3>1, <4>2, AboveIs, BelowIs
      <4> QED BY <1>0, <2>1, <3>1, <4>1, <4>3 DEF IsTree
    <3> QED BY <3>2, <3>3
  <2>5. mounts' = mounts /\ strayed' = strayed
    BY <1>6 DEF WorkloadWrites
  <2> QED BY <2>2, <2>3, <2>4, <2>5 DEF IsTree, HasKept
<1>7. ASSUME NEW n \in 1..2, SeedVersion(MiseSources[n]) \/ SeedOver(MiseSources[n])
      PROVE  UNCHANGED treeVars
  BY <1>7 DEF SeedVersion, SeedOver
<1>8. CASE \/ StartShim \/ EgressConfirmed \/ PreferHostMise \/ MiseVersion \/ Reshim
           \/ WriteMarker \/ LoadManifest \/ LeaveOut \/ ExecWorkload \/ WorkloadInstalls
           \/ WorkloadStops \/ HostUpgrades
  BY <1>1, <1>8 DEF StartShim, EgressConfirmed, PreferHostMise, MiseVersion, Reshim,
        WriteMarker, LoadManifest, LeaveOut, ExecWorkload, WorkloadInstalls, WorkloadStops,
        HostUpgrades
<1> QED BY <1>1, <1>2, <1>3, <1>4, <1>5, <1>6, <1>7, <1>8 DEF ShimNext

-----------------------------------------------------------------------------
(* The shape *)

LEMMA SourceIs ==
  ASSUME NEW n \in 1..2
  PROVE  MiseSources[n] \in {"baked", "host"}
  BY DEF MiseSources

LEMMA InstallIs ==
  /\ Nothing \in InstallRecords /\ Install("own", "", {}) \in InstallRecords
  /\ \A s \in {"baked", "host"}, v \in ToolVersions :
       \A got \in SUBSET Wanted(s, v) : Install("seed", s, got) \in InstallRecords
  BY DEF Nothing, Install, InstallRecords, Resolving

\* Every phase of the shim moves on to another.
LEMMA ShapeStep ==
  ASSUME ShimInv, ShimNext
  PROVE  ShimShape'
PROOF
<1>1. /\ mounts \in MountSets /\ strayed = FALSE
      /\ installs \in [ToolVersions -> InstallRecords]
      /\ hostMise \in HostMises /\ miseVer \in HostMises \cup {ImageMise, ""}
      /\ shimAt \in ShimPhases /\ seeded \in BOOLEAN /\ partial \in BOOLEAN
      /\ untouched \in BOOLEAN
  BY DEF ShimInv, ShimShape
<1>2. shims \in [of : SUBSET ToolVersions, by : HostMises \cup {ImageMise}]
  BY DEF ShimInv, ShimShape
<1>3. pending \subseteq ToolVersions /\ own \subseteq ToolVersions
  BY DEF ShimInv, ShimShape
<1>4. Len(Overlays) \in Nat /\ entry \in Nat /\ 1 <= entry /\ entry <= Len(Overlays) + 1
  <2>1. Len(Overlays) \in Nat
    BY HomeAssumption
  <2> QED BY <2>1 DEF ShimInv, ShimShape
<1>5. mounts' = mounts /\ strayed' = strayed
  BY HomeStep
<1>6. /\ installs' \in [ToolVersions -> InstallRecords] /\ pending' \subseteq ToolVersions
      /\ own' \subseteq ToolVersions
  <2>1. ASSUME NEW source \in {"baked", "host"}, SeedVersion(source)
        PROVE  /\ installs' \in [ToolVersions -> InstallRecords]
               /\ pending' \subseteq ToolVersions /\ own' \subseteq ToolVersions
    <3>1. PICK v \in pending :
            /\ pending' = pending \ {v}
            /\ \/ \E got \in SUBSET Wanted(source, v) :
                    installs' = [installs EXCEPT ![v] = Install("seed", source, got)]
               \/ UNCHANGED installs
      BY <2>1 DEF SeedVersion
    <3>2. own' = own
      BY <2>1 DEF SeedVersion
    <3> QED BY <1>1, <1>3, <3>1, <3>2, InstallIs
  <2>2. ASSUME NEW source \in {"baked", "host"}, SeedOver(source)
        PROVE  UNCHANGED <<installs, own>> /\ pending' \subseteq ToolVersions
    BY <1>3, <2>2 DEF SeedOver, miseVars
  <2>3. CASE WorkloadInstalls
    BY <1>1, <1>3, <2>3, InstallIs DEF WorkloadInstalls, bootVars
  <2>4. CASE \/ StartShim \/ EgressConfirmed \/ PreferHostMise \/ SetupDirectories
             \/ MiseVersion \/ Reshim \/ WriteMarker \/ LoadManifest
    BY <1>1, <1>3, <2>4 DEF StartShim, EgressConfirmed, PreferHostMise, SetupDirectories,
          MiseVersion, Reshim, WriteMarker, LoadManifest, miseVars, bootVars
  <2>5. CASE \/ CleanOverlay \/ CopyOverlay \/ LeaveOut \/ ExecWorkload \/ CutShort
             \/ WorkloadWrites \/ WorkloadStops \/ HostUpgrades
    BY <1>1, <1>3, <2>5 DEF CleanOverlay, CopyOverlay, LeaveOut, ExecWorkload, CutShort,
          WorkloadWrites, WorkloadStops, HostUpgrades, miseVars, bootVars
  <2> QED BY <1>1, <1>3, <2>1, <2>2, <2>3, <2>4, <2>5, SourceIs DEF ShimNext
<1>7. shims' \in [of : SUBSET ToolVersions, by : HostMises \cup {ImageMise}]
  <2>1. CASE UNCHANGED shims
    BY <1>2, <2>1
  <2>2. CASE Reshim
    <3>1. CurrentMise \in HostMises \cup {ImageMise}
      BY <1>1 DEF CurrentMise
    <3>2. \/ UNCHANGED shims
          \/ shims' = [of |-> {v \in ToolVersions : installs[v].shape # "none"},
                       by |-> CurrentMise]
      BY <2>2 DEF Reshim
    <3> QED BY <1>2, <3>1, <3>2
  <2>3. CASE WorkloadInstalls
    BY <1>2, <2>3 DEF WorkloadInstalls
  <2>4. ASSUME NEW n \in 1..2, SeedVersion(MiseSources[n]) \/ SeedOver(MiseSources[n])
        PROVE  UNCHANGED shims
    BY <2>4 DEF SeedVersion, SeedOver, miseVars
  <2>5. CASE \/ StartShim \/ EgressConfirmed \/ PreferHostMise \/ SetupDirectories
             \/ MiseVersion \/ WriteMarker \/ LoadManifest
             \/ CleanOverlay \/ CopyOverlay \/ LeaveOut \/ ExecWorkload \/ CutShort
             \/ WorkloadWrites \/ WorkloadStops \/ HostUpgrades
    BY <2>1, <2>5 DEF StartShim, EgressConfirmed, PreferHostMise, SetupDirectories,
          MiseVersion, WriteMarker, LoadManifest, CleanOverlay, CopyOverlay, LeaveOut,
          ExecWorkload, CutShort, WorkloadWrites, WorkloadStops, HostUpgrades, miseVars
  <2> QED BY <2>1, <2>2, <2>3, <2>4, <2>5 DEF ShimNext
<1>8. /\ hostMise' \in HostMises /\ miseVer' \in HostMises \cup {ImageMise, ""}
      /\ shimAt' \in ShimPhases /\ seeded' \in BOOLEAN /\ partial' \in BOOLEAN
      /\ untouched' \in BOOLEAN
  <2> DEFINE Goal == /\ hostMise' \in HostMises /\ miseVer' \in HostMises \cup {ImageMise, ""}
                     /\ shimAt' \in ShimPhases /\ seeded' \in BOOLEAN /\ partial' \in BOOLEAN
                     /\ untouched' \in BOOLEAN
  <2> USE <1>1 DEF ShimPhases
  <2>1. ASSUME NEW source \in {"baked", "host"}, SeedVersion(source) PROVE Goal
    <3>1. /\ UNCHANGED <<hostMise, miseVer, shimAt, untouched>>
          /\ seeded' \in BOOLEAN /\ partial' \in BOOLEAN
      BY <2>1 DEF SeedVersion, guestVars
    <3> QED BY <3>1
  <2>2. ASSUME NEW source \in {"baked", "host"}, SeedOver(source) PROVE Goal
    BY <2>2 DEF SeedOver, miseVars, guestVars
  <2>3. CASE StartShim \/ EgressConfirmed \/ PreferHostMise \/ SetupDirectories
    BY <2>3 DEF StartShim, EgressConfirmed, PreferHostMise, SetupDirectories, miseVars,
          bootVars, guestVars
  <2>4. CASE MiseVersion \/ Reshim \/ WriteMarker \/ LoadManifest
    BY <2>4 DEF MiseVersion, Reshim, WriteMarker, LoadManifest, CurrentMise, miseVars,
          bootVars, guestVars
  <2>5. CASE CleanOverlay \/ CopyOverlay \/ LeaveOut \/ ExecWorkload
    BY <2>5 DEF CleanOverlay, CopyOverlay, LeaveOut, ExecWorkload, miseVars, bootVars,
          guestVars
  <2>6. CASE CutShort \/ WorkloadWrites \/ WorkloadInstalls \/ WorkloadStops \/ HostUpgrades
    BY <2>6 DEF CutShort, WorkloadWrites, WorkloadInstalls, WorkloadStops, HostUpgrades,
          GuestStep, miseVars, bootVars, guestVars
  <2> QED BY <2>1, <2>2, <2>3, <2>4, <2>5, <2>6, SourceIs DEF ShimNext
<1>9. entry' \in Nat /\ 1 <= entry' /\ entry' <= Len(Overlays) + 1
  <2>1. entry' = entry \/ entry' = 1 \/ (entry' = entry + 1 /\ entry <= Len(Overlays))
    <3>1. ASSUME NEW source \in {"baked", "host"}, SeedVersion(source) \/ SeedOver(source)
          PROVE  entry' = entry
      BY <3>1 DEF SeedVersion, SeedOver
    <3>2. CASE StartShim
      BY <3>2 DEF StartShim
    <3>3. CASE CopyOverlay \/ LeaveOut
      BY <3>3 DEF CopyOverlay, LeaveOut, AtOverlay
    <3>4. CASE \/ EgressConfirmed \/ PreferHostMise \/ SetupDirectories \/ MiseVersion
               \/ Reshim \/ WriteMarker \/ LoadManifest
      BY <3>4 DEF EgressConfirmed, PreferHostMise, SetupDirectories, MiseVersion, Reshim,
            WriteMarker, LoadManifest, bootVars
    <3>5. CASE \/ CleanOverlay \/ ExecWorkload \/ CutShort \/ WorkloadWrites
               \/ WorkloadInstalls \/ WorkloadStops \/ HostUpgrades
      BY <3>5 DEF CleanOverlay, ExecWorkload, CutShort, WorkloadWrites, WorkloadInstalls,
            WorkloadStops, HostUpgrades, bootVars
    <3> QED BY <3>1, <3>2, <3>3, <3>4, <3>5, SourceIs DEF ShimNext
  <2> QED BY <1>4, <2>1
<1> QED BY <1>1, <1>5, <1>6, <1>7, <1>8, <1>9 DEF ShimShape

-----------------------------------------------------------------------------
(* Directories shared by copy *)

\* The phases that a step starts in, and those it takes the shim to.
LEMMA PhaseIs ==
  ASSUME ShimNext
  PROVE  /\ shimAt' = "copy" => CleanOverlay
         /\ shimAt' = "clean" => LoadManifest \/ CopyOverlay \/ LeaveOut
         /\ shimAt' = "running" =>
              ExecWorkload
                \/ (shimAt = "running" /\ untouched' = FALSE /\ UNCHANGED bootVars)
PROOF
<1>1. ASSUME NEW source \in {"baked", "host"}, SeedVersion(source) \/ SeedOver(source)
      PROVE  shimAt' \notin {"copy", "clean", "running"}
  BY <1>1 DEF SeedVersion, SeedOver
<1>2. CASE \/ StartShim \/ EgressConfirmed \/ PreferHostMise \/ SetupDirectories
           \/ MiseVersion \/ Reshim \/ WriteMarker \/ WorkloadStops \/ HostUpgrades \/ CutShort
  BY <1>2 DEF StartShim, EgressConfirmed, PreferHostMise, SetupDirectories, MiseVersion,
        Reshim, WriteMarker, WorkloadStops, HostUpgrades, CutShort
<1>3. CASE LoadManifest \/ CleanOverlay \/ CopyOverlay \/ LeaveOut \/ ExecWorkload
  BY <1>3 DEF LoadManifest, CleanOverlay, CopyOverlay, LeaveOut, ExecWorkload, AtOverlay
<1>4. CASE WorkloadWrites \/ WorkloadInstalls
  BY <1>4 DEF WorkloadWrites, WorkloadInstalls, GuestStep
<1> QED BY <1>1, <1>2, <1>3, <1>4, SourceIs DEF ShimNext

LEMMA EarlyStep ==
  ASSUME ShimInv, ShimNext, shimAt' \notin {"off", "clean", "copy", "running"}
  PROVE  entry' = 1
PROOF
<1>0. shimAt \notin {"off", "clean", "copy", "running"} => entry = 1
  BY DEF ShimInv, Copied
<1>1. ASSUME NEW source \in {"baked", "host"}, SeedVersion(source) \/ SeedOver(source)
      PROVE  entry' = 1
  BY <1>0, <1>1 DEF SeedVersion, SeedOver
<1>2. CASE StartShim
  BY <1>2 DEF StartShim
<1>3. CASE \/ EgressConfirmed \/ PreferHostMise \/ SetupDirectories \/ MiseVersion \/ Reshim
           \/ WriteMarker
  BY <1>0, <1>3 DEF EgressConfirmed, PreferHostMise, SetupDirectories, MiseVersion, Reshim,
        WriteMarker, bootVars
<1>4. CASE LoadManifest \/ CleanOverlay \/ CopyOverlay \/ LeaveOut \/ ExecWorkload
  BY <1>4 DEF LoadManifest, CleanOverlay, CopyOverlay, LeaveOut, ExecWorkload, AtOverlay
<1>5. CASE \/ CutShort \/ WorkloadWrites \/ WorkloadInstalls \/ WorkloadStops
           \/ HostUpgrades
  BY <1>5 DEF CutShort, WorkloadWrites, WorkloadInstalls, WorkloadStops, HostUpgrades, GuestStep
<1> QED BY <1>1, <1>2, <1>3, <1>4, <1>5, SourceIs DEF ShimNext

\* What the clearing of a directory does to a path, and what the copy does.
LEMMA ClearedIs ==
  ASSUME ShimInv, CleanOverlay
  PROVE  /\ \A p \in Below(Target) : home'[p] = Bare(p)
         /\ \A p \in HomePaths : p \notin Below(Target) /\ home[p] = "dir" => home'[p] = "dir"
         /\ \A p \in HomePaths :
              p \notin Below(Target) \cup Above(Target) \cup {Target} => home'[p] = home[p]
PROOF
<1>1. entry <= Len(Overlays) /\ CleanTarget(Stale(RealDirPath(Target), Target))
  BY DEF CleanOverlay, AtOverlay
<1>2. /\ Target \in HomePaths /\ mounts \subseteq HomePaths
      /\ home \in HomeTrees /\ IsTree(home) /\ HasKept(home)
  BY <1>1, TargetIs DEF ShimInv
<1> DEFINE homeTree == RealDirPath(Target)
<1>3. /\ HasKept(homeTree)
      /\ \A p \in HomePaths : p \notin Above(Target) \cup {Target} => homeTree[p] = home[p]
      /\ \A p \in HomePaths : home[p] \in {"none", "dir"} => homeTree[p] = home[p]
  BY <1>2, RealDirPathIs
<1>4. home' = Removed(homeTree, Stale(homeTree, Target))
  BY <1>1, CleanIs
<1>5. \A p \in HomePaths : home'[p] = IF p \in Stale(homeTree, Target) THEN "none" ELSE homeTree[p]
  BY <1>4 DEF Removed
<1>6. \A p \in Below(Target) : p \in HomePaths
  BY DEF Below
<1>7. \A p \in Below(Target) : home'[p] = Bare(p)
  BY <1>3, <1>5, <1>6 DEF Stale, Bare, HasKept
<1>8. \A p \in HomePaths : p \notin Below(Target) => home'[p] = homeTree[p]
  BY <1>5 DEF Stale
<1> QED BY <1>3, <1>7, <1>8

LEMMA CopiedIs ==
  ASSUME ShimInv, CopyOverlay
  PROVE  /\ \A p \in Below(Target) : home'[p] = Promise(Target, p)
         /\ \A p \in Above(Target) \cup {Target} : home'[p] = "dir"
         /\ \A p \in HomePaths :
              p \notin Below(Target) \cup Above(Target) \cup {Target} => home'[p] = home[p]
PROOF
<1>1. AtOverlay("copy") /\ CopyTarget(Belongs(Target)) /\ \A p \in Belongs(Target) : Fits(p)
  BY DEF CopyOverlay
<1>2. /\ Target \in HomePaths /\ mounts \subseteq HomePaths
      /\ home \in HomeTrees /\ IsTree(home) /\ HasKept(home)
  BY <1>1, TargetIs DEF ShimInv, AtOverlay
<1> DEFINE homeTree == RealDirPath(Target)
<1>3. \A p \in HomePaths : p \notin Above(Target) \cup {Target} => homeTree[p] = home[p]
  BY <1>2, RealDirPathIs
<1>4. \A p \in Belongs(Target) : Above(p) \cap Below(Target) \subseteq Belongs(Target)
  BY <1>2, BelongsUp
<1>5. Belongs(Target) \in SUBSET {p \in Belongs(Target) : Fits(p)}
  BY <1>1
<1>6. home' = Made(homeTree, Target, Belongs(Target))
  BY <1>1, <1>4, <1>5, CopyIs
<1>7. \A p \in HomePaths :
        home'[p] = IF p \in Belongs(Target) THEN Shared[p]
                   ELSE IF p \in Above(Target) \cup {Target} THEN "dir" ELSE homeTree[p]
  BY <1>6 DEF Made
<1>8. \A p \in Below(Target) : p \in HomePaths /\ p \notin Above(Target) \cup {Target}
  BY <1>2, BelowIs DEF Below
<1>9. \A p \in Above(Target) \cup {Target} : p \in HomePaths
  BY <1>2, AboveIs
<1>10. Belongs(Target) \subseteq Below(Target)
  BY DEF Belongs
<1>11. \A p \in Below(Target) : home[p] = Bare(p)
  BY <1>1 DEF ShimInv, Cleared, AtOverlay
<1>12. \A p \in Below(Target) : home'[p] = Promise(Target, p)
  BY <1>3, <1>7, <1>8, <1>11 DEF Promise
<1>13. \A p \in Above(Target) \cup {Target} : home'[p] = "dir"
  BY <1>7, <1>8, <1>9, <1>10
<1> QED BY <1>3, <1>7, <1>10, <1>12, <1>13

LEMMA ClearedStep ==
  ASSUME ShimInv, ShimNext
  PROVE  Cleared'
PROOF
<1>1. shimAt' = "copy" => CleanOverlay
  BY PhaseIs
<1>2. ASSUME CleanOverlay PROVE Cleared'
  <2>1. entry <= Len(Overlays) /\ Target \notin skipped /\ UNCHANGED <<entry, skipped, mounts>>
    BY <1>2 DEF CleanOverlay, AtOverlay, bootVars
  <2>2. \A p \in Below(Target) : home'[p] = Bare(p)
    BY <1>2, ClearedIs
  <2>3. Target' = Target /\ \A p \in HomePaths : Bare(p)' = Bare(p)
    BY <2>1 DEF Target, Bare, Keeps
  <2> QED BY <2>1, <2>2, <2>3 DEF Cleared, Below
<1> QED BY <1>1, <1>2 DEF Cleared

\* What was copied stays as promised while the directories after it are.
LEMMA CopiedStep ==
  ASSUME ShimInv, ShimNext
  PROVE  Copied'
PROOF
<1> DEFINE Good(n) == \A p \in Below(Overlays[n]) : home[p] = Promise(Overlays[n], p)
           GoodNow(n) == \A p \in Below(Overlays[n]) : home'[p] = Promise(Overlays[n], p)
<1>1. mounts' = mounts /\ \A t, p \in HomePaths : Promise(t, p)' = Promise(t, p)
  <2>1. mounts' = mounts
    BY HomeStep
  <2> QED BY <2>1 DEF Promise, Bare, Belongs, Keeps
<1>2. Len(Overlays) \in Nat /\ entry \in Nat
  <2>1. Len(Overlays) \in Nat
    BY HomeAssumption
  <2> QED BY <2>1 DEF ShimInv, ShimShape
<1>3. shimAt' \notin {"off", "clean", "copy", "running"} => entry' = 1
  BY EarlyStep
<1>4. shimAt' = "running" => entry' > Len(Overlays)
  <2>1. ASSUME ExecWorkload PROVE entry' > Len(Overlays)
    BY <2>1 DEF ExecWorkload, bootVars
  <2>2. ASSUME shimAt = "running", UNCHANGED bootVars PROVE entry' > Len(Overlays)
    BY <2>2 DEF ShimInv, Copied, bootVars
  <2> QED BY <2>1, <2>2, PhaseIs
<1>5. \A n \in 1..Len(Overlays) :
        Overlays[n] \in HomePaths /\ \A p \in Below(Overlays[n]) : p \in HomePaths
  BY OverlayIs DEF Below
<1>6. ASSUME CleanOverlay, NEW n \in 1..Len(Overlays), n < entry', Overlays[n] \notin skipped',
             NEW p \in Below(Overlays[n])
      PROVE  p \in Below(Target)' \/ home'[p] = Promise(Overlays[n], p)
  <2>1. /\ UNCHANGED <<entry, skipped>> /\ shimAt = "clean" /\ entry <= Len(Overlays)
        /\ Below(Target)' = Below(Target)
    BY <1>6 DEF CleanOverlay, AtOverlay, bootVars, Target, Below
  <2>2. home[p] = Promise(Overlays[n], p)
    BY <1>6, <2>1 DEF ShimInv, Copied
  <2>3. Target \in HomePaths /\ Shared[Target] = "dir"
    BY <2>1, TargetIs
  <2>4. CASE p \in Above(Target) \cup {Target}
    <3>1. Promise(Overlays[n], p) = "dir" /\ p \notin Below(Target)
      BY <1>5, <2>3, <2>4, PromisedOnce, BelowIs
    <3> QED BY <1>5, <1>6, <2>2, <3>1, ClearedIs
  <2>5. CASE p \notin Below(Target) \cup Above(Target) \cup {Target}
    BY <1>5, <1>6, <2>2, <2>5, ClearedIs
  <2> QED BY <2>1, <2>4, <2>5
<1>7. ASSUME CopyOverlay, NEW n \in 1..Len(Overlays), n < entry', Overlays[n] \notin skipped',
             NEW p \in Below(Overlays[n])
      PROVE  home'[p] = Promise(Overlays[n], p)
  <2>1. /\ entry' = entry + 1 /\ skipped' = skipped /\ shimAt = "copy"
        /\ entry <= Len(Overlays)
    BY <1>7 DEF CopyOverlay, AtOverlay
  <2>2. Target \in HomePaths /\ Shared[Target] = "dir"
    BY <2>1, TargetIs
  <2>3. CASE p \in Below(Target)
    BY <1>5, <1>7, <2>2, <2>3, PromisedOnce, CopiedIs
  <2>4. CASE p \in Above(Target) \cup {Target}
    BY <1>5, <1>7, <2>2, <2>4, PromisedOnce, CopiedIs
  <2>5. CASE p \notin Below(Target) \cup Above(Target) \cup {Target}
    <3>1. n # entry
      BY <2>5 DEF Target
    <3>2. n < entry
      BY <1>2, <1>7, <2>1, <3>1
    <3>3. home[p] = Promise(Overlays[n], p)
      BY <1>7, <2>1, <2>5, <3>2 DEF ShimInv, Copied
    <3> QED BY <1>5, <1>7, <2>5, <3>3, CopiedIs
  <2> QED BY <2>3, <2>4, <2>5
<1>8. ASSUME LoadManifest \/ LeaveOut \/ ExecWorkload,
             NEW n \in 1..Len(Overlays), n < entry', Overlays[n] \notin skipped',
             NEW p \in Below(Overlays[n])
      PROVE  home'[p] = Promise(Overlays[n], p)
  <2>1. home' = home
    BY <1>8 DEF LoadManifest, LeaveOut, ExecWorkload, treeVars
  <2>2. CASE LoadManifest
    <3>1. entry' = entry /\ entry = 1
      BY <2>2 DEF LoadManifest, ShimInv, Copied
    <3> QED BY <1>8, <3>1
  <2>3. CASE LeaveOut
    <3>1. /\ entry' = entry + 1 /\ skipped' = skipped /\ shimAt = "clean"
          /\ Overlays[entry] \in skipped
      BY <2>3 DEF LeaveOut, AtOverlay, Target
    <3>2. n < entry
      BY <1>2, <1>8, <3>1
    <3> QED BY <1>8, <2>1, <3>1, <3>2 DEF ShimInv, Copied
  <2>4. CASE ExecWorkload
    <3>1. UNCHANGED <<entry, skipped>> /\ shimAt = "clean"
      BY <2>4 DEF ExecWorkload, bootVars
    <3> QED BY <1>8, <2>1, <3>1 DEF ShimInv, Copied
  <2> QED BY <1>8, <2>2, <2>3, <2>4
<1>9. ASSUME shimAt' \in {"clean", "copy"} \/ (shimAt' = "running" /\ untouched'),
             NEW n \in 1..Len(Overlays), n < entry', Overlays[n] \notin skipped',
             NEW p \in Below(Overlays[n])
      PROVE  (shimAt' = "copy" /\ p \in Below(Target)') \/ home'[p] = Promise(Overlays[n], p)
  <2>1. CASE shimAt' = "copy"
    BY <1>6, <1>9, <2>1, PhaseIs
  <2>2. CASE shimAt' = "clean"
    BY <1>7, <1>8, <1>9, <2>2, PhaseIs
  <2>3. CASE shimAt' = "running"
    BY <1>8, <1>9, <2>3, PhaseIs
  <2> QED BY <1>9, <2>1, <2>2, <2>3
<1>10. \A n \in 1..Len(Overlays) : \A p \in Below(Overlays[n]) :
         Promise(Overlays[n], p)' = Promise(Overlays[n], p)
  BY <1>1, <1>5
<1> QED BY <1>3, <1>4, <1>9, <1>10 DEF Copied

-----------------------------------------------------------------------------
(* The installs of mise and their shims *)

LEMMA OwnStep ==
  ASSUME ShimInv, ShimNext
  PROVE  OwnStays'
PROOF
<1>1. installs \in [ToolVersions -> InstallRecords] /\ own \subseteq ToolVersions
      /\ \A v \in own : installs[v].shape = "own"
  BY DEF ShimInv, ShimShape, OwnStays
<1>2. ASSUME NEW source \in {"baked", "host"}, SeedVersion(source)
      PROVE  OwnStays'
  <2>1. PICK v \in pending :
          \/ MaySeed(source, v) /\ \E rec : installs' = [installs EXCEPT ![v] = rec]
          \/ UNCHANGED installs
    BY <1>2 DEF SeedVersion
  <2>2. own' = own
    BY <1>2 DEF SeedVersion
  <2>3. MaySeed(source, v) => v \notin own
    BY <1>1 DEF MaySeed, Install
  <2> QED BY <1>1, <2>1, <2>2, <2>3 DEF OwnStays
<1>3. CASE WorkloadInstalls
  <2>1. PICK v \in ToolVersions :
          \/ installs' = [installs EXCEPT ![v] = Install("own", "", {})] /\ own' = own \cup {v}
          \/ installs' = [installs EXCEPT ![v] = Nothing] /\ own' = own \ {v}
    BY <1>3 DEF WorkloadInstalls
  <2>2. Install("own", "", {}).shape = "own"
    BY DEF Install
  <2>3. ASSUME NEW w \in own' PROVE installs'[w].shape = "own"
    <3>1. CASE w = v
      <4>1. installs' = [installs EXCEPT ![v] = Install("own", "", {})]
        BY <2>1, <2>3, <3>1
      <4>2. installs'[v] = Install("own", "", {})
        BY <1>1, <4>1
      <4> QED BY <2>2, <3>1, <4>2
    <3>2. CASE w # v
      <4>1. w \in own /\ w \in ToolVersions
        BY <1>1, <2>1, <2>3, <3>2
      <4>2. installs'[w] = installs[w]
        BY <1>1, <2>1, <3>2, <4>1
      <4> QED BY <1>1, <4>1, <4>2
    <3> QED BY <3>1, <3>2
  <2> QED BY <2>3 DEF OwnStays
<1>4. CASE UNCHANGED <<installs, own>>
  BY <1>1, <1>4 DEF OwnStays
<1>5. ASSUME NEW source \in {"baked", "host"}, SeedOver(source)
      PROVE  UNCHANGED <<installs, own>>
  BY <1>5 DEF SeedOver, miseVars
<1>6. CASE \/ StartShim \/ EgressConfirmed \/ PreferHostMise \/ SetupDirectories
           \/ MiseVersion \/ Reshim \/ WriteMarker \/ LoadManifest
           \/ CleanOverlay \/ CopyOverlay \/ LeaveOut \/ ExecWorkload \/ CutShort
           \/ WorkloadWrites \/ WorkloadStops \/ HostUpgrades
  BY <1>4, <1>6 DEF StartShim, EgressConfirmed, PreferHostMise, SetupDirectories,
        MiseVersion, Reshim, WriteMarker, LoadManifest, CleanOverlay, CopyOverlay, LeaveOut,
        ExecWorkload, CutShort, WorkloadWrites, WorkloadStops, HostUpgrades, miseVars
<1> QED BY <1>2, <1>3, <1>4, <1>5, <1>6, SourceIs DEF ShimNext

LEMMA CoveredStep ==
  ASSUME ShimInv, ShimNext
  PROVE  Covered'
PROOF
<1> DEFINE Late == {"host", "version", "reshim", "mark"} \cup Settled
           Later == {"version", "reshim", "mark"} \cup Settled
<1>0. installs \in [ToolVersions -> InstallRecords] /\ pending \subseteq ToolVersions
  BY DEF ShimInv, ShimShape
<1>1. ASSUME NEW source \in {"baked", "host"}, SeedVersion(source)
      PROVE  Covered'
  <2>1. PICK v \in pending :
          /\ pending' = pending \ {v}
          /\ \/ \E got : installs' = [installs EXCEPT ![v] = Install("seed", source, got)]
             \/ UNCHANGED installs /\ (Ships[source][v] = {} \/ ~MaySeed(source, v))
    BY <1>1 DEF SeedVersion
  <2>2. shimAt = source /\ shimAt' = source
    BY <1>1 DEF SeedVersion
  <2>3. \A w \in ToolVersions : installs[w].shape # "none" => installs'[w].shape # "none"
    BY <1>0, <2>1 DEF Install
  <2>4. installs'[v].shape # "none" \/ Ships[source][v] = {}
    BY <1>0, <2>1 DEF Install, MaySeed
  <2>5. \A s \in {"baked", "host"}, w \in ToolVersions : Looked(s, w) => Looked(s, w)'
    BY <2>3 DEF Looked
  <2>6. \A w \in ToolVersions \ pending' : w = v \/ w \in ToolVersions \ pending
    BY <2>1
  <2>7. Looked(source, v)'
    BY <2>4 DEF Looked
  <2>8. \A w \in ToolVersions \ pending : Looked(source, w)
    BY <2>2 DEF ShimInv, Covered
  <2>9. \A w \in ToolVersions \ pending' : Looked(source, w)'
    BY <2>5, <2>6, <2>7, <2>8
  <2>10. source = "host" => \A w \in ToolVersions : Looked("baked", w)'
    BY <2>2, <2>5 DEF ShimInv, Covered
  <2> QED BY <2>2, <2>9, <2>10 DEF Covered, Settled
<1>2. ASSUME NEW source \in {"baked", "host"}, SeedOver(source)
      PROVE  Covered'
  <2>1. /\ shimAt = source /\ pending = {} /\ installs' = installs
        /\ shimAt' = (IF source = "baked" THEN "host" ELSE "version")
        /\ source = "baked" => pending' = ToolVersions
    BY <1>2 DEF SeedOver, miseVars
  <2>2. \A s \in {"baked", "host"}, w \in ToolVersions : Looked(s, w)' = Looked(s, w)
    BY <2>1 DEF Looked
  <2>3. /\ source = "baked" => \A w \in ToolVersions : Looked("baked", w)
        /\ source = "host" => \A w \in ToolVersions : Looked("baked", w) /\ Looked("host", w)
    BY <2>1 DEF ShimInv, Covered
  <2> QED BY <2>1, <2>2, <2>3 DEF Covered, Settled
<1>3. CASE SetupDirectories
  BY <1>3 DEF SetupDirectories, Covered, Settled
<1>4. ASSUME installs' = installs, shimAt' \in Later, shimAt \in Later,
             shimAt = "running" => untouched
      PROVE  Covered'
  BY <1>4 DEF ShimInv, Covered, Looked, Settled
<1>5. ASSUME shimAt' \in {"off", "gate", "mise", "dirs"} \/ (shimAt' = "running" /\ ~untouched')
      PROVE  Covered'
  BY <1>5 DEF Covered, Settled
<1>6. CASE StartShim \/ EgressConfirmed \/ PreferHostMise \/ CutShort \/ WorkloadStops
          \/ HostUpgrades
  BY <1>5, <1>6 DEF StartShim, EgressConfirmed, PreferHostMise, CutShort, WorkloadStops,
     HostUpgrades
<1>7. CASE WorkloadWrites \/ WorkloadInstalls
  BY <1>5, <1>7 DEF WorkloadWrites, WorkloadInstalls, GuestStep
<1>8. CASE \/ MiseVersion \/ Reshim \/ WriteMarker \/ LoadManifest
           \/ CleanOverlay \/ CopyOverlay \/ LeaveOut \/ ExecWorkload
  <2>1. installs' = installs /\ shimAt # "running"
    BY <1>8 DEF MiseVersion, Reshim, WriteMarker, LoadManifest, CleanOverlay, CopyOverlay,
          LeaveOut, ExecWorkload, AtOverlay, miseVars
  <2>2. shimAt \in Later /\ shimAt' \in Later
    BY <1>8 DEF MiseVersion, Reshim, WriteMarker, LoadManifest, CleanOverlay, CopyOverlay,
          LeaveOut, ExecWorkload, AtOverlay, Settled
  <2> QED BY <1>4, <2>1, <2>2
<1> QED BY <1>1, <1>2, <1>3, <1>6, <1>7, <1>8, SourceIs DEF ShimNext

LEMMA WholeStep ==
  ASSUME ShimInv, ShimNext
  PROVE  Whole'
PROOF
<1> DEFINE Sound(v) == installs[v].shape = "seed" =>
                         /\ installs[v].has = Wanted(installs[v].of, v)
                         /\ installs[v].has # {} => v \in shims.of \/ (seeded /\ shimAt \in Seeding)
<1> SUFFICES ASSUME ~partial' PROVE \A v \in ToolVersions : Sound(v)'
  BY DEF Whole
<1>0. /\ installs \in [ToolVersions -> InstallRecords] /\ pending \subseteq ToolVersions
      /\ shims \in [of : SUBSET ToolVersions, by : HostMises \cup {ImageMise}]
      /\ partial \in BOOLEAN /\ seeded \in BOOLEAN
  BY DEF ShimInv, ShimShape
<1>1. ASSUME NEW source \in {"baked", "host"}, SeedVersion(source)
      PROVE  \A v \in ToolVersions : Sound(v)'
  <2>1. PICK v \in pending :
          IF Ships[source][v] # {} /\ MaySeed(source, v)
          THEN \E got \in SUBSET Wanted(source, v) :
                 /\ installs' = [installs EXCEPT ![v] = Install("seed", source, got)]
                 /\ seeded' = (seeded \/ got # {})
                 /\ partial' = (partial \/ got # Wanted(source, v))
          ELSE UNCHANGED <<installs, seeded, partial>>
    BY <1>1 DEF SeedVersion
  <2>2. shimAt = source /\ shimAt' = source /\ shims' = shims /\ source \in Seeding
    BY <1>1 DEF SeedVersion, Seeding
  <2>3. ~partial /\ (seeded => seeded')
    BY <1>0, <2>1
  <2>4. \A w \in ToolVersions : Sound(w)
    BY <2>3 DEF ShimInv, Whole
  <2>5. CASE UNCHANGED <<installs, seeded, partial>>
    BY <2>2, <2>4, <2>5
  <2>6. ASSUME NEW got \in SUBSET Wanted(source, v),
               installs' = [installs EXCEPT ![v] = Install("seed", source, got)],
               seeded' = (seeded \/ got # {}), partial' = (partial \/ got # Wanted(source, v))
        PROVE  \A w \in ToolVersions : Sound(w)'
    <3>1. got = Wanted(source, v)
      BY <2>6
    <3>2. Install("seed", source, got).of = source /\ Install("seed", source, got).has = got
      BY DEF Install
    <3>3. ASSUME NEW w \in ToolVersions, w # v PROVE Sound(w)'
      BY <1>0, <2>2, <2>3, <2>4, <2>6, <3>3
    <3>4. installs'[v].of = source /\ installs'[v].has = got
      BY <1>0, <2>6, <3>2
    <3>5. got # {} => seeded'
      BY <2>6
    <3>6. Sound(v)'
      BY <2>2, <3>1, <3>4, <3>5
    <3> QED BY <3>3, <3>6
  <2> QED BY <2>1, <2>5, <2>6
<1>2. CASE Reshim
  <2>1. UNCHANGED <<installs, seeded>> /\ ~partial /\ shimAt = "reshim"
    BY <1>2 DEF Reshim, bootVars
  <2>2. \A w \in ToolVersions : Sound(w)
    BY <2>1 DEF ShimInv, Whole
  <2>3. CASE MustReshim
    <3>1. shims'.of = {v \in ToolVersions : installs[v].shape # "none"}
      BY <1>2, <2>3 DEF Reshim
    <3> QED BY <2>1, <2>2, <3>1
  <2>4. CASE ~MustReshim
    <3>1. shims' = shims /\ ~seeded
      BY <1>2, <2>4 DEF Reshim, MustReshim
    <3> QED BY <2>1, <2>2, <3>1
  <2> QED BY <2>3, <2>4
<1>3. CASE WorkloadInstalls
  <2>1. PICK v \in ToolVersions :
          \/ /\ installs' = [installs EXCEPT ![v] = Install("own", "", {})]
             /\ shims' = [shims EXCEPT !.of = @ \cup {v}]
          \/ /\ installs' = [installs EXCEPT ![v] = Nothing]
             /\ shims' = [shims EXCEPT !.of = @ \ {v}]
    BY <1>3 DEF WorkloadInstalls
  <2>2. UNCHANGED <<partial, seeded, shimAt>> /\ shimAt = "running"
    BY <1>3 DEF WorkloadInstalls, GuestStep, bootVars
  <2>3. \A w \in ToolVersions : Sound(w)
    BY <2>2 DEF ShimInv, Whole
  <2>4. \A w \in ToolVersions : w # v => installs'[w] = installs[w] /\ (w \in shims.of
            => w \in shims'.of)
    BY <1>0, <2>1
  <2>5. installs'[v].shape # "seed"
    <3>1. installs'[v] = Install("own", "", {}) \/ installs'[v] = Nothing
      BY <1>0, <2>1
    <3>2. Install("own", "", {}).shape = "own" /\ Nothing.shape = "none"
      BY DEF Install, Nothing
    <3> QED BY <3>1, <3>2
  <2>6. shimAt \notin Seeding
    BY <2>2 DEF Seeding
  <2> QED BY <2>2, <2>3, <2>4, <2>5, <2>6
<1>4. ASSUME UNCHANGED <<installs, shims>>, ~partial, 
             seeded /\ shimAt \in Seeding => seeded' /\ shimAt' \in Seeding
      PROVE  \A v \in ToolVersions : Sound(v)'
  BY <1>4 DEF ShimInv, Whole
<1>5. ASSUME NEW source \in {"baked", "host"}, SeedOver(source)
      PROVE  \A v \in ToolVersions : Sound(v)'
  BY <1>4, <1>5 DEF SeedOver, miseVars, Seeding
<1>6. CASE StartShim \/ EgressConfirmed \/ PreferHostMise \/ SetupDirectories
  BY <1>4, <1>6 DEF StartShim, EgressConfirmed, PreferHostMise, SetupDirectories, miseVars, Seeding
<1>7. CASE MiseVersion
  BY <1>0, <1>4, <1>7 DEF MiseVersion, Seeding
<1>8. CASE WriteMarker
  BY <1>0, <1>4, <1>8 DEF WriteMarker, Seeding
<1>9. CASE CutShort
  BY <1>9 DEF CutShort
<1>10. CASE \/ LoadManifest \/ CleanOverlay \/ CopyOverlay \/ LeaveOut \/ ExecWorkload
            \/ WorkloadWrites \/ WorkloadStops \/ HostUpgrades
  BY <1>4, <1>10 DEF LoadManifest, CleanOverlay, CopyOverlay, LeaveOut, ExecWorkload,
        WorkloadWrites, WorkloadStops, HostUpgrades, GuestStep, AtOverlay, miseVars, Seeding
<1> QED BY <1>1, <1>2, <1>3, <1>5, <1>6, <1>7, <1>8, <1>9, <1>10, SourceIs DEF ShimNext

\* Between boots, and while a workload runs, nothing changes which mise made the shims.
LEMMA MarkedStep ==
  ASSUME ShimInv, ShimNext
  PROVE  Marked'
PROOF
<1> SUFFICES ASSUME ~partial'
             PROVE  /\ shimAt' # "mark" => madeBy' \in {"", shims'.by}
                    /\ shimAt' \in {"reshim", "mark"} => miseVer' = CurrentMise'
                           /\ Works(CurrentMise')
                    /\ shimAt' \in {"mark"} \cup Settled => shims'.by = CurrentMise'
  BY DEF Marked, Works
<1> DEFINE Goal == /\ shimAt' # "mark" => madeBy' \in {"", shims'.by}
                   /\ shimAt' \in {"reshim", "mark"} => miseVer' = CurrentMise'
                          /\ Works(CurrentMise')
                   /\ shimAt' \in {"mark"} \cup Settled => shims'.by = CurrentMise'
<1>0. /\ shims \in [of : SUBSET ToolVersions, by : HostMises \cup {ImageMise}]
      /\ partial \in BOOLEAN /\ hostMise \in HostMises
  BY DEF ShimInv, ShimShape
<1>1. ASSUME ~partial
      PROVE  /\ shimAt # "mark" => madeBy \in {"", shims.by}
             /\ shimAt \in {"reshim", "mark"} => miseVer = CurrentMise /\ Works(CurrentMise)
             /\ shimAt \in {"mark"} \cup Settled => shims.by = CurrentMise
  BY <1>1 DEF ShimInv, Marked
<1>2. ASSUME UNCHANGED <<madeBy, shims, partial>>, shimAt # "mark",
             shimAt' \in {"gate", "mise", "dirs", "baked", "host", "version", "off"}
      PROVE  Goal
  BY <1>1, <1>2 DEF Settled
<1>3. ASSUME UNCHANGED <<madeBy, shims, partial, hostMise, miseLinked>>,
             shimAt \in Settled, shimAt' \in Settled
      PROVE  Goal
  <2>1. CurrentMise' = CurrentMise
    BY <1>3 DEF CurrentMise
  <2> QED BY <1>1, <1>3, <2>1 DEF Settled
<1>4. ASSUME NEW source \in {"baked", "host"}, SeedVersion(source)
      PROVE  Goal
  <2>1. UNCHANGED <<madeBy, shims>> /\ shimAt = source /\ shimAt' = source /\ ~partial
    BY <1>0, <1>4 DEF SeedVersion
  <2> QED BY <1>1, <2>1 DEF Settled
<1>5. ASSUME NEW source \in {"baked", "host"}, SeedOver(source)
      PROVE  Goal
  BY <1>2, <1>5 DEF SeedOver, miseVars
<1>6. CASE StartShim \/ EgressConfirmed \/ PreferHostMise \/ SetupDirectories
           \/ WorkloadStops \/ HostUpgrades
  BY <1>2, <1>6 DEF StartShim, EgressConfirmed, PreferHostMise, SetupDirectories, WorkloadStops,
        HostUpgrades, miseVars
<1>7. CASE MiseVersion
  <2>1. /\ UNCHANGED <<madeBy, shims, hostMise, miseLinked>> /\ ~partial
        /\ Works(CurrentMise) /\ miseVer' = CurrentMise
        /\ shimAt = "version" /\ shimAt' = "reshim"
    BY <1>0, <1>7 DEF MiseVersion
  <2>2. CurrentMise' = CurrentMise
    BY <2>1 DEF CurrentMise
  <2> QED BY <1>1, <2>1, <2>2 DEF Settled
<1>8. CASE Reshim
  <2>1. /\ UNCHANGED <<madeBy, hostMise, miseLinked, miseVer>> /\ ~partial /\ shimAt = "reshim"
    BY <1>0, <1>8 DEF Reshim, bootVars
  <2>2. CurrentMise' = CurrentMise
    BY <2>1 DEF CurrentMise
  <2>3. miseVer = CurrentMise /\ Works(CurrentMise) /\ madeBy \in {"", shims.by}
    BY <1>1, <2>1
  <2>4. CASE MustReshim
    <3>1. shimAt' = "mark" /\ shims'.by = CurrentMise
      BY <1>8, <2>4 DEF Reshim
    <3> QED BY <2>1, <2>2, <2>3, <3>1
  <2>5. CASE ~MustReshim
    <3>1. shimAt' = "manifest" /\ shims' = shims
      BY <1>8, <2>5 DEF Reshim
    <3>2. miseVer # ""
      BY <1>0, <2>3, MiseAssumption DEF CurrentMise, ImageMise
    <3>3. madeBy = miseVer
      BY <2>5, <3>2 DEF MustReshim
    <3> QED BY <2>1, <2>2, <2>3, <3>1, <3>2, <3>3
  <2> QED BY <2>4, <2>5
<1>9. CASE WriteMarker
  <2>1. /\ UNCHANGED <<shims, hostMise, miseLinked>> /\ ~partial
        /\ shimAt = "mark" /\ shimAt' = "manifest"
        /\ miseVer = "" \/ madeBy' = miseVer
    BY <1>0, <1>9 DEF WriteMarker
  <2>2. CurrentMise' = CurrentMise
    BY <2>1 DEF CurrentMise
  <2>3. miseVer = CurrentMise /\ shims.by = CurrentMise
    BY <1>1, <2>1
  <2>4. miseVer # ""
    BY <1>0, <2>3, MiseAssumption DEF CurrentMise, ImageMise
  <2> QED BY <2>1, <2>2, <2>3, <2>4
<1>10. CASE LoadManifest \/ CleanOverlay \/ CopyOverlay \/ LeaveOut \/ ExecWorkload
           \/ WorkloadWrites
  BY <1>3, <1>10 DEF LoadManifest, CleanOverlay, CopyOverlay, LeaveOut, ExecWorkload,
        WorkloadWrites, GuestStep, AtOverlay, Settled, miseVars
<1>11. CASE WorkloadInstalls
  <2>1. /\ UNCHANGED <<madeBy, partial, hostMise, miseLinked, shimAt>> /\ shimAt = "running"
    BY <1>11 DEF WorkloadInstalls, GuestStep
  <2>2. CurrentMise' = CurrentMise
    BY <2>1 DEF CurrentMise
  <2>3. shims'.by = shims.by
    BY <1>0, <1>11 DEF WorkloadInstalls
  <2> QED BY <1>1, <2>1, <2>2, <2>3 DEF Settled
<1>12. CASE CutShort
  BY <1>12 DEF CutShort
<1> QED BY <1>4, <1>5, <1>6, <1>7, <1>8, <1>9, <1>10, <1>11, <1>12, SourceIs DEF ShimNext

-----------------------------------------------------------------------------
(* The theorems *)

LEMMA ShimInitOK == ShimInit => ShimInv
PROOF
<1> SUFFICES ASSUME ShimInit PROVE ShimInv
  OBVIOUS
<1>1. mounts \in MountSets /\ mounts \subseteq HomePaths
  BY HomeAssumption DEF ShimInit
<1>2. \A p \in HomePaths : home[p] = IF Keeps(p) \/ p \in XdgDirs THEN "dir" ELSE "none"
  BY DEF ShimInit
<1>3. home \in HomeTrees /\ HasKept(home)
  BY <1>2 DEF ShimInit, HomeTrees, HasKept
<1>4. IsTree(home)
  <2> SUFFICES ASSUME NEW p \in HomePaths, home[p] # "none", NEW q \in Above(p)
               PROVE  home[q] = "dir"
    BY DEF IsTree
  <2>1. q \in HomePaths
    BY AboveIs
  <2>2. Keeps(p) => Keeps(q)
    BY <1>1, KeepsUp
  <2> QED BY <1>2, <2>1, <2>2, HomeAssumption
<1>5. installs \in [ToolVersions -> {Nothing, Install("link", "host", {})}]
  BY DEF ShimInit
<1>6. Len(Overlays) \in Nat
  BY HomeAssumption
<1>7. entry \in Nat /\ 1 <= entry /\ entry <= Len(Overlays) + 1
  <2>1. entry = 1
    BY DEF ShimInit
  <2> QED BY <1>6, <2>1
<1>8. ShimShape
  <2>1. installs \in [ToolVersions -> InstallRecords]
    <3>1. Nothing \in InstallRecords /\ Install("link", "host", {}) \in InstallRecords
      BY DEF Nothing, Install, InstallRecords
    <3> QED BY <1>5, <3>1
  <2> QED BY <1>1, <1>7, <2>1 DEF ShimInit, ShimShape, ShimPhases
<1>9. shimAt = "off"
  BY DEF ShimInit
<1>10. Cleared /\ Copied /\ Covered
  BY <1>9 DEF Cleared, Copied, Covered, Settled
<1>11. OwnStays /\ Marked
  BY <1>9 DEF ShimInit, OwnStays, Marked, Settled
<1>12. Whole
  <2>1. Install("link", "host", {}).shape = "link" /\ Nothing.shape = "none"
    BY DEF Install, Nothing
  <2> QED BY <1>5, <2>1 DEF Whole
<1> QED BY <1>3, <1>4, <1>8, <1>10, <1>11, <1>12 DEF ShimInv

LEMMA ShimInvariance == ShimSpec => []ShimInv
PROOF
<1>1. ASSUME ShimInv, ShimNext PROVE ShimInv'
  <2>1. home' \in HomeTrees /\ IsTree(home') /\ HasKept(home') /\ mounts' = mounts
    BY <1>1, HomeStep
  <2>2. IsTree(home)' /\ HasKept(home)'
    BY <2>1 DEF IsTree, HasKept, Keeps
  <2> QED BY <1>1, <2>1, <2>2, ShapeStep, ClearedStep, CopiedStep, OwnStep, CoveredStep,
             WholeStep, MarkedStep DEF ShimInv, HomeTrees
<1>2. ASSUME ShimInv, UNCHANGED shimVars PROVE ShimInv'
  <2>1. ShimShape' /\ (home \in HomeTrees)' /\ IsTree(home)' /\ HasKept(home)'
    BY <1>2 DEF shimVars, ShimInv, ShimShape, IsTree, HasKept, HomeTrees, Keeps
  <2>2. Cleared' /\ Copied'
    BY <1>2 DEF shimVars, ShimInv, Cleared, Copied, Keeps, Bare, Promise, Belongs, Target
  <2>3. OwnStays' /\ Covered'
    BY <1>2 DEF shimVars, ShimInv, OwnStays, Covered, Looked
  <2>4. Whole' /\ Marked'
    BY <1>2 DEF shimVars, ShimInv, Whole, Marked, CurrentMise
  <2> QED BY <2>1, <2>2, <2>3, <2>4 DEF ShimInv
<1> QED BY <1>1, <1>2, ShimInitOK, PTL DEF ShimSpec

\* The home of a sandbox is a homeTree in which every mount point stays a directory, whatever
\* the workload wrote and wherever a boot was cut short (cmd/devsandbox-shim/overlay.go).
THEOREM ShimTyped == ShimSpec => []ShimTypeOK
PROOF
<1>1. ASSUME ShimInv PROVE ShimTypeOK
  <2>1. home \in HomeTrees /\ IsTree(home) /\ HasKept(home) /\ ShimShape
    BY <1>1 DEF ShimInv
  <2>2. home \in [HomePaths -> {"none", "dir", "file", "host", "link"}]
        /\ \A p \in HomePaths : home[p] # "none" => \A q \in Above(p) : home[q] = "dir"
    BY <2>1 DEF HomeTrees, IsTree
  <2>3. \A m \in mounts : home[m] = "dir"
    BY <2>1, HomeAssumption DEF ShimShape, HasKept, Keeps
  <2>4. \A v \in ToolVersions : installs[v].shape \in {"none", "own", "link", "seed"}
    BY <2>1 DEF ShimShape, InstallRecords
  <2>5. shims.of \subseteq ToolVersions /\ shims.by \in HostMises \cup {ImageMise}
    BY <2>1 DEF ShimShape
  <2>6. entry \in 1..(Len(Overlays) + 1)
    <3>1. Len(Overlays) \in Nat
      BY HomeAssumption
    <3>2. entry \in Nat /\ 1 <= entry /\ entry <= Len(Overlays) + 1
      BY <2>1 DEF ShimShape
    <3> QED BY <3>1, <3>2
  <2>7. /\ shimAt \in ShimPhases /\ pending \subseteq ToolVersions
        /\ own \subseteq ToolVersions
    BY <2>1 DEF ShimShape
  <2> QED BY <2>2, <2>3, <2>4, <2>5, <2>6, <2>7 DEF ShimTypeOK
<1> QED BY <1>1, ShimInvariance, PTL

\* Whatever an earlier workload, or a boot cut short, left in the home, the shim touches
\* nothing outside it, and the workload starts with copies as the host has them and with
\* the installs and shims the image and the host promise (cmd/devsandbox-shim/main.go).
THEOREM BootPromised == ShimSpec => []BootAsPromised
PROOF
<1>1. ASSUME ShimInv PROVE BootAsPromised
  <2>1. ~strayed /\ \A v \in own : installs[v].shape = "own"
    BY <1>1 DEF ShimInv, ShimShape, OwnStays
  <2>2. ASSUME shimAt = "running", untouched,
               NEW n \in 1..Len(Overlays), Overlays[n] \notin skipped,
               NEW p \in Below(Overlays[n])
        PROVE  home[p] = IF p \in Belongs(Overlays[n]) THEN Shared[p]
                         ELSE IF Keeps(p) THEN "dir" ELSE "none"
    <3>1. Len(Overlays) \in Nat
      BY HomeAssumption
    <3>2. entry \in Nat /\ entry > Len(Overlays)
      BY <1>1, <2>2 DEF ShimInv, ShimShape, Copied
    <3>3. n < entry
      BY <3>1, <3>2
    <3>4. home[p] = Promise(Overlays[n], p)
      BY <1>1, <2>2, <3>3 DEF ShimInv, Copied
    <3> QED BY <3>4 DEF Promise, Bare
  <2>3. ASSUME shimAt = "running", untouched, ~partial
        PROVE  /\ shims.by = CurrentMise
               /\ \A v \in ToolVersions :
                    /\ installs[v].shape = "none" => \A s \in DOMAIN Ships : Ships[s][v] = {}
                    /\ installs[v].shape = "seed" =>
                         /\ installs[v].has = Wanted(installs[v].of, v)
                         /\ installs[v].has # {} => v \in shims.of
    <3>1. shims.by = CurrentMise
      BY <1>1, <2>3 DEF ShimInv, Marked, Settled
    <3>2. \A v \in ToolVersions : Looked("baked", v) /\ Looked("host", v)
      BY <1>1, <2>3 DEF ShimInv, Covered, Settled
    <3>3. \A v \in ToolVersions :
            installs[v].shape = "none" => \A s \in DOMAIN Ships : Ships[s][v] = {}
      BY <3>2, MiseAssumption DEF Looked
    <3>4. \A v \in ToolVersions : installs[v].shape = "seed" =>
            /\ installs[v].has = Wanted(installs[v].of, v)
            /\ installs[v].has # {} => v \in shims.of
      BY <1>1, <2>3 DEF ShimInv, Whole, Seeding
    <3> QED BY <3>1, <3>3, <3>4
  <2> QED BY <2>1, <2>2, <2>3 DEF BootAsPromised
<1> QED BY <1>1, ShimInvariance, PTL
==============================================================================
