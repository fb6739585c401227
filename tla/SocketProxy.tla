----------------------------- MODULE SocketProxy -----------------------------
(***************************************************************************)
(* The unix-socket server that the tool proxies share                      *)
(* (internal/socketproxy/server.go), with the shape of each protocol's     *)
(* handler: herdr bridges two streams until either ends, kitty does one    *)
(* exchange under deadlines, docker one request that may become a stream   *)
(* (herdrproxy, kittyproxy and dockerproxy/proxy.go).                      *)
(*                                                                         *)
(* Stop cancels the context, closes the listener, closes the connections   *)
(* the accept loop has tracked, and then waits for everybody for a limited *)
(* time; each is a step, and the accept loop and the handlers run in       *)
(* between.  Clients and the server behind the proxy may do nothing for    *)
(* ever.                                                                   *)
(***************************************************************************)

CONSTANTS
  Clients,      \* connections made to the socket
  NoClient

ASSUME SocketAssumption == NoClient \notin Clients

VARIABLES
  proxyKind,    \* which proxy the server belongs to
  serverAt,     \* where the server is in Start and Stop
  backlog,      \* connections nobody has accepted
  accepting,    \* what the accept loop has accepted and not tracked
  loopRuns,     \* whether the accept loop runs
  conns,        \* the connections tracked: s.conns
  connsNil,     \* whether closeConns has taken them
  clientOpen,   \* connections whose proxy side is open
  handlerAt,    \* where the handler of each connection is
  stopResult    \* what Stop returned

socketVars == <<proxyKind, serverAt, backlog, accepting, loopRuns, conns,
                connsNil, clientOpen, handlerAt, stopResult>>

Waiting == {"read", "await", "stream"}     \* blocked on somebody else

SocketTypeOK ==
  /\ proxyKind \in {"herdr", "kitty", "docker"}
  /\ serverAt \in {"off", "serving", "cancelled", "unbound", "draining",
                   "stopped"}
  /\ backlog \subseteq Clients
  /\ accepting \in Clients \cup {NoClient}
  /\ loopRuns \in BOOLEAN
  /\ conns \subseteq Clients
  /\ connsNil \in BOOLEAN
  /\ clientOpen \subseteq Clients
  /\ handlerAt \in [Clients -> {"none", "start", "reply", "returned", "over"}
                               \cup Waiting]
  /\ stopResult \in {"none", "clean", "timeout"}

SocketInit ==
  /\ proxyKind \in {"herdr", "kitty", "docker"}
  /\ serverAt = "off"
  /\ backlog = {}
  /\ accepting = NoClient
  /\ loopRuns = FALSE
  /\ conns = {}
  /\ connsNil = TRUE
  /\ clientOpen = {}
  /\ handlerAt = [c \in Clients |-> "none"]
  /\ stopResult = "none"

Cancelled == serverAt \in {"cancelled", "unbound", "draining", "stopped"}
Running(c) == handlerAt[c] \notin {"none", "over"}
HandlerGo(c, place) == handlerAt' = [handlerAt EXCEPT ![c] = place]

-----------------------------------------------------------------------------
(* Start, Stop *)

\* A socket that cannot be bound or given its mode leaves the server off.
StartServer ==
  /\ serverAt = "off"
  /\ serverAt' = "serving"
  /\ loopRuns' = TRUE
  /\ connsNil' = FALSE
  /\ UNCHANGED <<proxyKind, backlog, accepting, conns, clientOpen, handlerAt,
                 stopResult>>

StopCancels ==
  /\ serverAt = "serving"
  /\ serverAt' = "cancelled"
  /\ UNCHANGED <<proxyKind, backlog, accepting, loopRuns, conns, connsNil,
                 clientOpen, handlerAt, stopResult>>

\* What nobody has accepted is reset.
StopUnbinds ==
  /\ serverAt = "cancelled"
  /\ serverAt' = "unbound"
  /\ backlog' = {}
  /\ UNCHANGED <<proxyKind, accepting, loopRuns, conns, connsNil, clientOpen,
                 handlerAt, stopResult>>

\* Mutant: the connections are forgotten, not closed.
CloseConns_Forgets ==
  /\ serverAt = "unbound"
  /\ serverAt' = "draining"
  /\ conns' = {}
  /\ connsNil' = TRUE
  /\ UNCHANGED <<proxyKind, backlog, accepting, loopRuns, clientOpen, handlerAt,
                 stopResult>>

CloseConns ==
  /\ serverAt = "unbound"
  /\ serverAt' = "draining"
  /\ clientOpen' = clientOpen \ conns
  /\ conns' = {}
  /\ connsNil' = TRUE
  /\ UNCHANGED <<proxyKind, backlog, accepting, loopRuns, handlerAt, stopResult>>

StopReturns ==
  /\ serverAt = "draining"
  /\ serverAt' = "stopped"
  /\ \/ /\ ~loopRuns /\ \A c \in Clients : ~Running(c)
        /\ stopResult' = "clean"
     \/ stopResult' = "timeout"
  /\ UNCHANGED <<proxyKind, backlog, accepting, loopRuns, conns, connsNil,
                 clientOpen, handlerAt>>

-----------------------------------------------------------------------------
(* The accept loop *)

Connects(c) ==
  /\ serverAt \in {"serving", "cancelled"}
  /\ handlerAt[c] = "none" /\ c \notin backlog \cup clientOpen
  /\ backlog' = backlog \cup {c}
  /\ UNCHANGED <<proxyKind, serverAt, accepting, loopRuns, conns, connsNil,
                 clientOpen, handlerAt, stopResult>>

AcceptClient(c) ==
  /\ loopRuns /\ accepting = NoClient
  /\ c \in backlog
  /\ backlog' = backlog \ {c}
  /\ accepting' = c
  /\ clientOpen' = clientOpen \cup {c}
  /\ UNCHANGED <<proxyKind, serverAt, loopRuns, conns, connsNil, handlerAt,
                 stopResult>>

\* track, and the goroutine; after Stop the connection is closed and the loop
\* ends.
TrackConn ==
  /\ accepting # NoClient
  /\ accepting' = NoClient
  /\ IF connsNil
     THEN /\ loopRuns' = FALSE
          /\ clientOpen' = clientOpen \ {accepting}
          /\ HandlerGo(accepting, "over")
          /\ UNCHANGED conns
     ELSE /\ conns' = conns \cup {accepting}
          /\ HandlerGo(accepting, "start")
          /\ UNCHANGED <<loopRuns, clientOpen>>
  /\ UNCHANGED <<proxyKind, serverAt, backlog, connsNil, stopResult>>

\* Accept fails for good once the listener is closed.
LoopEnds ==
  /\ loopRuns /\ accepting = NoClient
  /\ serverAt \in {"unbound", "draining", "stopped"}
  /\ loopRuns' = FALSE
  /\ UNCHANGED <<proxyKind, serverAt, backlog, accepting, conns, connsNil,
                 clientOpen, handlerAt, stopResult>>

-----------------------------------------------------------------------------
(* A handler *)

\* herdr dials first and then reads both ways, the others read a request; a dial
\* that fails ends the handler.
HandlerBegins(c) ==
  /\ handlerAt[c] = "start"
  /\ IF proxyKind = "herdr"
     THEN HandlerGo(c, "stream") \/ HandlerGo(c, "returned")
     ELSE HandlerGo(c, "read")
  /\ UNCHANGED <<proxyKind, serverAt, backlog, accepting, loopRuns, conns,
                 connsNil, clientOpen, stopResult>>

\* A request comes: it is denied, the upstream cannot be reached, or it is
\* forwarded and its answer awaited.
RequestRead(c) ==
  /\ handlerAt[c] = "read"
  /\ c \in clientOpen
  /\ HandlerGo(c, "reply") \/ HandlerGo(c, "await")
  /\ UNCHANGED <<proxyKind, serverAt, backlog, accepting, loopRuns, conns,
                 connsNil, clientOpen, stopResult>>

\* The upstream answers, fails, or switches protocols (docker).
UpstreamAnswers(c) ==
  /\ handlerAt[c] = "await"
  /\ \/ HandlerGo(c, "reply")
     \/ proxyKind = "docker" /\ HandlerGo(c, "stream")
  /\ UNCHANGED <<proxyKind, serverAt, backlog, accepting, loopRuns, conns,
                 connsNil, clientOpen, stopResult>>

\* Both directions of a stream end once either side goes away.
StreamEnds(c) ==
  /\ handlerAt[c] = "stream"
  /\ HandlerGo(c, "returned")
  /\ UNCHANGED <<proxyKind, serverAt, backlog, accepting, loopRuns, conns,
                 connsNil, clientOpen, stopResult>>

\* The client goes away.
ClientLeaves(c) ==
  /\ handlerAt[c] = "read"
  /\ HandlerGo(c, "returned")
  /\ UNCHANGED <<proxyKind, serverAt, backlog, accepting, loopRuns, conns,
                 connsNil, clientOpen, stopResult>>

\* What ends a wait although nobody else moves: a read of a connection that is
\* closed, kitty's deadlines on both reads, herdr's goroutine that closes both
\* ends when the context is cancelled.  Nothing closes docker's connection to
\* the daemon.
Unblocked(c) ==
  \/ handlerAt[c] = "read" /\ c \notin clientOpen
  \/ handlerAt[c] \in {"read", "await"} /\ proxyKind = "kitty"
  \/ handlerAt[c] = "stream" /\ proxyKind = "herdr" /\ Cancelled

WaitEnds(c) ==
  /\ Unblocked(c)
  /\ HandlerGo(c, "returned")
  /\ UNCHANGED <<proxyKind, serverAt, backlog, accepting, loopRuns, conns,
                 connsNil, clientOpen, stopResult>>

Replied(c) ==
  /\ handlerAt[c] = "reply"
  /\ HandlerGo(c, "returned")
  /\ UNCHANGED <<proxyKind, serverAt, backlog, accepting, loopRuns, conns,
                 connsNil, clientOpen, stopResult>>

\* runHandler: forget, close, done.
HandlerOver(c) ==
  /\ handlerAt[c] = "returned"
  /\ HandlerGo(c, "over")
  /\ conns' = conns \ {c}
  /\ clientOpen' = clientOpen \ {c}
  /\ UNCHANGED <<proxyKind, serverAt, backlog, accepting, loopRuns, connsNil,
                 stopResult>>

-----------------------------------------------------------------------------

SocketNext ==
  \/ StartServer \/ StopCancels \/ StopUnbinds \/ CloseConns \/ StopReturns
  \/ TrackConn \/ LoopEnds
  \/ \E c \in Clients :
       \/ Connects(c) \/ AcceptClient(c) \/ HandlerBegins(c) \/ RequestRead(c)
       \/ UpstreamAnswers(c) \/ StreamEnds(c) \/ ClientLeaves(c) \/ WaitEnds(c)
       \/ Replied(c) \/ HandlerOver(c)

\* The proxy's own goroutines go on when they can.  Nothing is assumed of
\* clients, of the server behind, or of when Stop is called.
SocketFairness ==
  /\ WF_socketVars(StopUnbinds \/ CloseConns \/ StopReturns)
  /\ WF_socketVars(TrackConn \/ LoopEnds)
  /\ \A c \in Clients :
       WF_socketVars(HandlerBegins(c) \/ WaitEnds(c) \/ Replied(c)
                     \/ HandlerOver(c))

SocketSpec == SocketInit /\ [][SocketNext]_socketVars /\ SocketFairness

-----------------------------------------------------------------------------
(* Properties *)

\* After Stop every handler comes to its end, however its connection was
\* accepted -- before Stop, or by the loop while Stop was between two steps -- and
\* whatever its client and its upstream do not do; a docker request may stay with
\* a daemon that does not answer, or that goes on sending.
HandlersEnd ==
  \A c \in Clients :
    Running(c) /\ serverAt = "stopped" ~>
      ~Running(c) \/ (proxyKind = "docker" /\ handlerAt[c] \in {"await", "stream"})

\* When Stop says that all connections are closed, they are, and none is accepted
\* afterwards.
CleanMeansClosed ==
  stopResult = "clean" =>
    clientOpen = {} /\ accepting = NoClient /\ \A c \in Clients : ~Running(c)
=============================================================================
