----------------------------- MODULE PortForward -----------------------------
(***************************************************************************)
(* Automatic port forwarding (internal/portforward, and the callbacks in   *)
(* cmd/devsandbox/main.go): a monitor scans which ports the sandbox        *)
(* listens on, opens a forwarder for each that appears and stops it when   *)
(* the port disappears.  The callbacks run in the scan, under the          *)
(* monitor's mutex, and stopping a forwarder waits for its connections.    *)
(***************************************************************************)
EXTENDS Naturals, FiniteSets

CONSTANTS
  Ports,          \* sandbox ports, none of them excluded
  Peers,          \* connections made to forwarded host ports
  MaxConns,       \* a forwarder's maxConnections
  NoPort

ASSUME PortAssumption ==
  /\ NoPort \notin Ports
  /\ MaxConns \in Nat \ {0}

VARIABLES
  bound,      \* ports the sandbox listens on
  scanned,        \* what the scan in progress has read
  monitorAt,      \* where the monitor is
  known,          \* ports the monitor has dealt with: m.known
  forwarder,      \* the state of each port's forwarder
  waitsFor,       \* the port whose forwarder the scan waits for in Stop
  peerAt,         \* where each connection is
  peerPort,       \* the port it was made to
  acceptor        \* per port, the connection its accept loop holds without a slot

portVars == <<bound, scanned, monitorAt, known, forwarder, waitsFor, peerAt,
              peerPort, acceptor>>

PeersOf(p) == {k \in Peers : peerPort[k] = p}
Handled(p) == {k \in PeersOf(p) : peerAt[k] \in {"dialing", "open", "halfClosed"}}

PortTypeOK ==
  /\ bound \subseteq Ports
  /\ scanned \subseteq Ports
  /\ monitorAt \in {"idle", "scan"}
  /\ known \subseteq Ports
  /\ forwarder \in [Ports -> {"none", "open", "stopping", "failed"}]
  /\ waitsFor \in Ports \cup {NoPort}
  /\ peerAt \in [Peers -> {"new", "dialing", "held", "open", "halfClosed",
                           "closed"}]
  /\ peerPort \in [Peers -> Ports \cup {NoPort}]
  /\ acceptor \in [Ports -> Peers \cup {NoPort}]
  /\ \A p \in Ports : Cardinality(Handled(p)) <= MaxConns

PortInit ==
  /\ bound = {}
  /\ scanned = {}
  /\ monitorAt = "idle"
  /\ known = {}
  /\ forwarder = [p \in Ports |-> "none"]
  /\ waitsFor = NoPort
  /\ peerAt = [k \in Peers |-> "new"]
  /\ peerPort = [k \in Peers |-> NoPort]
  /\ acceptor = [p \in Ports |-> NoPort]

-----------------------------------------------------------------------------
(* The sandbox *)

ListenChanges ==
  /\ \E p \in Ports : bound' \in {bound \cup {p}, bound \ {p}}
  /\ UNCHANGED <<scanned, monitorAt, known, forwarder, waitsFor, peerAt,
                 peerPort, acceptor>>

-----------------------------------------------------------------------------
(* Monitor.scan *)

\* The list is read before the mutex is taken.
ScanReads ==
  /\ monitorAt = "idle"
  /\ monitorAt' = "scan"
  /\ scanned' = bound
  /\ UNCHANGED <<bound, known, forwarder, waitsFor, peerAt, peerPort,
                 acceptor>>

Appeared == scanned \ known
Vanished == known \ scanned

\* Known before its forwarder is tried.  A host port that is taken is replaced by
\* a free one; any other failure is final while the port stays.
PortAppears ==
  /\ monitorAt = "scan" /\ waitsFor = NoPort
  /\ \E p \in Appeared :
       /\ known' = known \cup {p}
       /\ \E state \in {"open", "failed"} :
            forwarder' = [forwarder EXCEPT ![p] = state]
  /\ UNCHANGED <<bound, scanned, monitorAt, waitsFor, peerAt, peerPort,
                 acceptor>>

\* Mutant: Stop closes the listener and cancels nothing.
PortVanishes_Uncancelled ==
  /\ monitorAt = "scan" /\ waitsFor = NoPort
  /\ Appeared = {}
  /\ \E p \in Vanished :
       /\ known' = known \ {p}
       /\ IF forwarder[p] = "open"
          THEN forwarder' = [forwarder EXCEPT ![p] = "stopping"] /\ waitsFor' = p
          ELSE forwarder' = [forwarder EXCEPT ![p] = "none"] /\ UNCHANGED waitsFor
  /\ UNCHANGED <<bound, scanned, monitorAt, peerAt, peerPort, acceptor>>

\* Stop, up to its wait: the context of the forwarder's connections is cancelled,
\* which kills the helpers they talk to, and the listener is closed.
PortVanishes ==
  /\ monitorAt = "scan" /\ waitsFor = NoPort
  /\ Appeared = {}
  /\ \E p \in Vanished :
       /\ known' = known \ {p}
       /\ IF forwarder[p] = "open"
          THEN /\ forwarder' = [forwarder EXCEPT ![p] = "stopping"]
               /\ waitsFor' = p
               /\ peerAt' = [k \in Peers |->
                    IF k \in PeersOf(p) /\ peerAt[k] = "open"
                    THEN "halfClosed" ELSE peerAt[k]]
          ELSE /\ forwarder' = [forwarder EXCEPT ![p] = "none"]
               /\ UNCHANGED <<waitsFor, peerAt>>
  /\ UNCHANGED <<bound, scanned, monitorAt, peerPort, acceptor>>

StopReturned ==
  /\ waitsFor # NoPort
  /\ Handled(waitsFor) = {}
  /\ acceptor[waitsFor] = NoPort
  /\ forwarder' = [forwarder EXCEPT ![waitsFor] = "none"]
  /\ waitsFor' = NoPort
  /\ UNCHANGED <<bound, scanned, monitorAt, known, peerAt, peerPort, acceptor>>

ScanEnds ==
  /\ monitorAt = "scan" /\ waitsFor = NoPort
  /\ Appeared = {} /\ Vanished = {}
  /\ monitorAt' = "idle"
  /\ UNCHANGED <<bound, scanned, known, forwarder, waitsFor, peerAt,
                 peerPort, acceptor>>

-----------------------------------------------------------------------------
(* A connection *)

\* Accepted, and the loop waits for a slot with it in hand.
AcceptPeer(k) ==
  /\ peerAt[k] = "new"
  /\ \E p \in Ports :
       /\ forwarder[p] = "open"
       /\ acceptor[p] = NoPort
       /\ acceptor' = [acceptor EXCEPT ![p] = k]
       /\ peerPort' = [peerPort EXCEPT ![k] = p]
  /\ peerAt' = [peerAt EXCEPT ![k] = "held"]
  /\ UNCHANGED <<bound, scanned, monitorAt, known, forwarder, waitsFor>>

\* Mutant: one connection too many.
HasSlot_OffByOne(p) == Cardinality(Handled(p)) <= MaxConns

HasSlot(p) == Cardinality(Handled(p)) < MaxConns

\* A slot, or the end of the loop: with both to be had, either.
TakeSlot(k) ==
  /\ peerAt[k] = "held"
  /\ LET p == peerPort[k] IN
       /\ \/ HasSlot(p) /\ peerAt' = [peerAt EXCEPT ![k] = "dialing"]
          \/ forwarder[p] = "stopping" /\ peerAt' = [peerAt EXCEPT ![k] = "closed"]
       /\ acceptor' = [acceptor EXCEPT ![p] = NoPort]
  /\ UNCHANGED <<bound, scanned, monitorAt, known, forwarder, waitsFor,
                 peerPort>>

\* The helper is started in the sandbox's namespace; that fails with the context
\* cancelled, or it is killed right away, and may fail otherwise.
DialPort(k) ==
  /\ peerAt[k] = "dialing"
  /\ \E place \in {"closed", IF forwarder[peerPort[k]] = "open"
                               THEN "open" ELSE "halfClosed"} :
       peerAt' = [peerAt EXCEPT ![k] = place]
  /\ UNCHANGED <<bound, scanned, monitorAt, known, forwarder, waitsFor,
                 peerPort, acceptor>>

\* The helper ends -- the sandbox's side is closed -- and the client is told so by
\* the end of its stream.
SandboxSideEnds(k) ==
  /\ peerAt[k] = "open"
  /\ peerAt' = [peerAt EXCEPT ![k] = "halfClosed"]
  /\ UNCHANGED <<bound, scanned, monitorAt, known, forwarder, waitsFor,
                 peerPort, acceptor>>

\* The client closes, or writes to a helper that is gone.
ClientEnds(k) ==
  /\ peerAt[k] \in {"open", "halfClosed"}
  /\ peerAt' = [peerAt EXCEPT ![k] = "closed"]
  /\ UNCHANGED <<bound, scanned, monitorAt, known, forwarder, waitsFor,
                 peerPort, acceptor>>

-----------------------------------------------------------------------------

PortNext ==
  \/ ListenChanges \/ ScanReads \/ PortAppears \/ PortVanishes \/ StopReturned
  \/ ScanEnds
  \/ \E k \in Peers :
       AcceptPeer(k) \/ TakeSlot(k) \/ DialPort(k) \/ SandboxSideEnds(k)
       \/ ClientEnds(k)

\* The ticker ticks, goroutines go on, and a client whose stream has ended closes
\* its end or writes again.  Nothing makes a client end that is still served.
PortFairness ==
  /\ WF_portVars(ScanReads \/ PortAppears \/ PortVanishes \/ StopReturned
                 \/ ScanEnds)
  /\ \A k \in Peers :
       /\ WF_portVars(TakeSlot(k))
       /\ WF_portVars(DialPort(k))
       /\ WF_portVars(peerAt[k] = "halfClosed" /\ ClientEnds(k))

PortSpec == PortInit /\ [][PortNext]_portVars /\ PortFairness

-----------------------------------------------------------------------------
(* Properties *)

\* A port that stays open in the sandbox is forwarded, or its forwarding has been
\* tried: no connection of a port that has gone, and no number of them waiting
\* for a slot, keeps the scan in Stop for ever.
PortServed ==
  \A p \in Ports :
    p \in bound ~> p \notin bound \/ forwarder[p] \in {"open", "failed"}

\* When a forwarder's Stop has returned nothing of it is left: no connection is
\* proxied, and the accept loop holds none.
StoppedIsQuiet ==
  \A p \in Ports : forwarder[p] \in {"none", "failed"} =>
    Handled(p) = {} /\ acceptor[p] = NoPort
=============================================================================
