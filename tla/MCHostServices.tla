---------------------------- MODULE MCHostServices ----------------------------
(***************************************************************************)
(* The parts of a session that run beside the workload and must come to an *)
(* end, or to their goal: the launch of a microVM, the socket proxies, the *)
(* port forwarder, and the OTLP exporter.  They share no state.  As in     *)
(* MCHostState one of them runs in a behaviour, and fairness is asked of   *)
(* that one.                                                               *)
(***************************************************************************)
EXTENDS MicroVMSession, SocketProxy, PortForward, LogExport

CONSTANTS
  b1, b2, b3,      \* MicroVMSession
  k1, k2,          \* SocketProxy
  peer1, peer2,    \* PortForward
  e1, e2, e3       \* LogExport

VARIABLE part    \* the part that runs

servicesVars == <<vmVars, socketVars, portVars, logVars, part>>
ServiceParts == {"vm", "socket", "port", "log"}

ServicesInit ==
  /\ part \in ServiceParts
  /\ MicroVMInit
  /\ part # "vm" => ~goFile
  /\ SocketInit
  /\ part # "socket" => proxyKind = "kitty"
  /\ PortInit
  /\ LogInit

ServicesNext ==
  \/ /\ part = "vm" /\ MicroVMNext
     /\ UNCHANGED <<part, socketVars, portVars, logVars>>
  \/ /\ part = "socket" /\ SocketNext
     /\ UNCHANGED <<part, vmVars, portVars, logVars>>
  \/ /\ part = "port" /\ PortNext
     /\ UNCHANGED <<part, vmVars, socketVars, logVars>>
  \/ /\ part = "log" /\ LogNext
     /\ UNCHANGED <<part, vmVars, socketVars, portVars>>

\* Each part is as fair as its own specification says.  In the states the others
\* rest in nothing that is fair is enabled, but for the scan of the port monitor.
ServicesFairness ==
  /\ MicroVMFairness
  /\ SocketFairness
  /\ part = "port" => PortFairness
  /\ LogFairness

ServicesSpec == ServicesInit /\ [][ServicesNext]_servicesVars /\ ServicesFairness

\* The type invariants of the parts.
ServicesTypeOK ==
  /\ part \in ServiceParts
  /\ MicroVMTypeOK /\ SocketTypeOK /\ PortTypeOK /\ LogTypeOK
=============================================================================
