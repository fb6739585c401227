------------------------------ MODULE AskMode ------------------------------
(***************************************************************************)
(* Ask mode (internal/proxy/askmode.go, cmd/devsandbox/proxy.go): the       *)
(* proxies of the sandboxes of one project ask a user, at a monitor in a    *)
(* terminal, whether a request may pass.                                    *)
(*                                                                          *)
(* All of them meet at one socket path.  Who finds nothing there listens;   *)
(* who finds a listener dials it.  So a session serves monitors, or is the  *)
(* client of a monitor that came first, and reconnects when it goes.        *)
(* Nothing tells a session from a monitor at the other end of a connection, *)
(* and an answer is matched to its request by the id alone, which every     *)
(* session counts from 1.                                                   *)
(***************************************************************************)
EXTENDS Naturals, Sequences, FiniteSets

CONSTANTS
  Session,  \* proxies of the project's sandboxes
  Monitor,  \* `devsandbox proxy monitor' processes
  None,     \* no party, connection, decision or reply
  Host,     \* what decisions are remembered by
  Key,      \* bound: the keys a user presses, as an action and whether to remember
  Mortal,   \* parties that may be killed
  Quota,    \* bound: requests each session asks about
  Dials,    \* bound: connections each party opens
  Capacity  \* messages a socket buffer takes before a write blocks

Party == Session \cup Monitor
Request == UNION {{s} \X (1..Quota[s]) : s \in Session}
Conn == UNION {{p} \X (1..Dials[p]) : p \in Party}
End == Conn \X {"dial", "listen"}
Action == {"allow", "block"}

\* AskResponse, and AskRequest: both are JSON objects with an id, and a
\* request read as a response has an empty action and nothing to remember.
Response == [of : Request, action : Action, remember : BOOLEAN]
Message == Response \cup [of : Request, action : {"ask"}, remember : {FALSE}]

ASSUME AskAssumption ==
  /\ Session \cap Monitor = {}
  /\ None \notin Party \cup Conn \cup Message \cup Action
  /\ Key \subseteq Action \X BOOLEAN
  /\ Mortal \subseteq Party
  /\ Quota \in [Session -> Nat]
  /\ Dials \in [Party -> Nat]
  /\ Capacity \in Nat \ {0}

VARIABLES
  sock,      \* whose listener ask.sock was made by
  lock,      \* the monitor that holds ask.lock
  listening, \* parties whose listener is open
  pc,        \* where each party is in its life
  peer,      \* the listener each connection was made to
  open,      \* ends not closed
  inbox,     \* what is to be read at each end
  link,      \* handling of the connection by the listener
  conn,      \* the connection a client, or a monitor, has: s.conn
  enc,       \* s.encoder and s.decoder of a client, by their connection
  reader,    \* handleClientResponses
  monitors,  \* s.monitors of each session
  hold,      \* what the reader at an end took out of s.pending
  rpc,       \* where each request is in RequestApproval
  host,
  targets,   \* monitors a request has still to be sent to
  pending,   \* s.pending, of all sessions
  chan,      \* the channel each request waits on
  reply,     \* what was put into that channel
  cache,     \* decisions remembered by each session
  outcome,   \* what became of each request
  asked,     \* the request a monitor shows
  answers,   \* history: what users answered
  crossed    \* history: a session dialed another session

netVars == <<peer, open, inbox>>
pathVars == <<sock, lock, listening>>
clientVars == <<conn, enc, reader>>
replyVars == <<hold, pending, chan, reply>>
askVars == <<rpc, host, targets, cache, outcome>>
userVars == <<asked, answers>>
vars == <<pathVars, pc, netVars, link, clientVars, monitors, replyVars,
          askVars, userVars, crossed>>

StartPC == {"start", "dial", "remove", "listen", "lock", "clean"}
ClosingPC == {"closeMonitors", "cancel", "unlisten", "unlink", "hangUp"}
Serving == {"server", "client"}
PC == StartPC \cup Serving \cup ClosingPC \cup {"quitting", "closed", "dead"}

TypeOK ==
  /\ sock \in Party \cup {None}
  /\ lock \in Monitor \cup {None}
  /\ listening \subseteq Party
  /\ pc \in [Party -> PC]
  /\ peer \in [Conn -> Party \cup {None}]
  /\ open \subseteq End
  /\ inbox \in [End -> Seq(Message)]
  /\ \A e \in End : Len(inbox[e]) <= Capacity
  /\ link \in [Conn -> {"none", "backlog", "reading", "leaving", "gone"}]
  /\ conn \in [Party -> Conn \cup {None}]
  /\ enc \in [Session -> Conn \cup {None}]
  /\ reader \in [Session -> {"none", "reading", "cancel", "redial", "swap"}]
  /\ monitors \in [Session -> SUBSET Conn]
  /\ hold \in [End -> Message \cup {None}]
  /\ rpc \in [Request -> {"idle", "look", "register", "send", "wait", "done"}]
  /\ host \in [Request -> Host \cup {None}]
  /\ targets \in [Request -> SUBSET Conn]
  /\ pending \subseteq Request
  /\ chan \in [Request -> {"none", "open", "closed"}]
  /\ reply \in [Request -> Message \cup {None}]
  /\ cache \in [Session -> [Host -> Action \cup {None}]]
  /\ outcome \in [Request -> Action \cup {None}]
  /\ asked \in [Monitor -> Request \cup {None}]
  /\ answers \subseteq Response
  /\ crossed \in BOOLEAN

Init ==
  /\ sock = None
  /\ lock = None
  /\ listening = {}
  /\ pc = [p \in Party |-> "start"]
  /\ peer = [c \in Conn |-> None]
  /\ open = {}
  /\ inbox = [e \in End |-> <<>>]
  /\ link = [c \in Conn |-> "none"]
  /\ conn = [p \in Party |-> None]
  /\ enc = [s \in Session |-> None]
  /\ reader = [s \in Session |-> "none"]
  /\ monitors = [s \in Session |-> {}]
  /\ hold = [e \in End |-> None]
  /\ rpc = [r \in Request |-> "idle"]
  /\ host = [r \in Request |-> None]
  /\ targets = [r \in Request |-> {}]
  /\ pending = {}
  /\ chan = [r \in Request |-> "none"]
  /\ reply = [r \in Request |-> None]
  /\ cache = [s \in Session |-> [h \in Host |-> None]]
  /\ outcome = [r \in Request |-> None]
  /\ asked = [m \in Monitor |-> None]
  /\ answers = {}
  /\ crossed = FALSE

-----------------------------------------------------------------------------
(* Connections *)

Other(e) == <<e[1], IF e[2] = "dial" THEN "listen" ELSE "dial">>
Owner(e) == IF e[2] = "dial" THEN e[1][1] ELSE peer[e[1]]
OwnEnd(p, c) == <<c, IF c[1] = p THEN "dial" ELSE "listen">>
Up(e) == {e, Other(e)} \subseteq open

\* Mutant: a write takes one message too many.
Room_OffByOne(e) == Len(inbox[Other(e)]) <= Capacity

Room(e) == Len(inbox[Other(e)]) < Capacity

Drained(e) == inbox[e] = <<>> /\ ~Up(e)

Of(s) == {r \in Request : r[1] = s}
EndsOf(p) == {e \in End : Owner(e) = p}
Backlog(p) == {c \in Conn : peer[c] = p /\ link[c] = "backlog"}
Unaccepted(p) == {<<c, "listen">> : c \in Backlog(p)}

Close(E) ==
  /\ open' = open \ E
  /\ inbox' = [e \in End |-> IF e \in E THEN <<>> ELSE inbox[e]]

\* A write blocks while the peer's buffer is full, and fails on a closed end.
Write(e, m) ==
  /\ Up(e) /\ Room(e)
  /\ inbox' = [inbox EXCEPT ![Other(e)] = Append(@, m)]

Connect(p, c) ==
  /\ c[1] = p /\ peer[c] = None
  /\ sock \in listening
  /\ peer' = [peer EXCEPT ![c] = sock]
  /\ open' = open \cup {<<c, "dial">>, <<c, "listen">>}
  /\ link' = [link EXCEPT ![c] = "backlog"]
  /\ conn' = [conn EXCEPT ![p] = c]
  /\ crossed' = (crossed \/ {p, sock} \subseteq Session)

Unlisten(p) ==
  /\ sock' = None
  /\ listening' = listening \ {p}
  /\ link' = [c \in Conn |-> IF c \in Backlog(p) THEN "gone" ELSE link[c]]

-----------------------------------------------------------------------------
(* NewAskServer, and the start of a monitor *)

Go(p, from, to) == pc[p] = from /\ pc' = [pc EXCEPT ![p] = to]

NoTraffic == UNCHANGED <<replyVars, askVars, userVars>>
NoNet == UNCHANGED <<netVars, link>>
NoPath == UNCHANGED <<pathVars, pc>>

\* os.Stat(socketPath)
Stat(p) ==
  /\ \/ sock # None /\ Go(p, "start", "dial")
     \/ sock = None /\ Go(p, "start", IF p \in Session THEN "listen" ELSE "lock")
  /\ UNCHANGED <<pathVars, clientVars, monitors, crossed>> /\ NoNet /\ NoTraffic

Dial(p) ==
  /\ \/ /\ Go(p, "dial", "client")
        /\ \E c \in Conn :
             /\ Connect(p, c)
             /\ IF p \in Session
                THEN /\ enc' = [enc EXCEPT ![p] = c]
                     /\ reader' = [reader EXCEPT ![p] = "reading"]
                ELSE UNCHANGED <<enc, reader>>
        /\ UNCHANGED inbox
     \/ /\ sock \notin listening /\ Go(p, "dial", "remove")
        /\ UNCHANGED <<netVars, link, clientVars, crossed>>
  /\ UNCHANGED <<pathVars, monitors>> /\ NoTraffic

\* The path is removed by name, whatever it leads to by now; a monitor does
\* it again after it has taken the lock.
RemoveStale(p) ==
  /\ \/ Go(p, "remove", IF p \in Session THEN "listen" ELSE "lock")
     \/ Go(p, "clean", "listen")
  /\ sock' = None
  /\ UNCHANGED <<lock, listening, clientVars, monitors, crossed>>
  /\ NoNet /\ NoTraffic

\* A failure to bind ends the launch, or the monitor.
Listen(p) ==
  /\ \/ /\ sock = None /\ Go(p, "listen", "server")
        /\ sock' = p
        /\ listening' = listening \cup {p}
        /\ UNCHANGED lock
     \/ /\ sock # None /\ Go(p, "listen", "dead")
        /\ lock' = IF lock = p THEN None ELSE lock
        /\ UNCHANGED <<sock, listening>>
  /\ UNCHANGED <<clientVars, monitors, crossed>> /\ NoNet /\ NoTraffic

TryFileLock(m) ==
  /\ \/ lock = None /\ Go(m, "lock", "clean") /\ lock' = m
     \/ lock # None /\ Go(m, "lock", "dead") /\ UNCHANGED lock
  /\ UNCHANGED <<sock, listening, clientVars, monitors, crossed>>
  /\ NoNet /\ NoTraffic

Start(p) == Stat(p) \/ Dial(p) \/ RemoveStale(p) \/ Listen(p)

-----------------------------------------------------------------------------
(* RequestApproval and Ask, in the goroutine of a proxied request *)

IsServer(s) == reader[s] = "none"
Alive(s) == pc[s] \in Serving \cup ClosingPC \cup {"closed"}
Closed(s) == pc[s] \in ClosingPC \cup {"closed"}

At(r, from, to) ==
  /\ Alive(r[1])
  /\ rpc[r] = from
  /\ rpc' = [rpc EXCEPT ![r] = to]

Reject(r, from) ==
  /\ At(r, from, "done")
  /\ outcome' = [outcome EXCEPT ![r] = "block"]

\* A request to a host with no remembered decision takes the next id.
Begin(r, h) ==
  /\ At(r, "idle", "look")
  /\ \A q \in Of(r[1]) : q[2] < r[2] => rpc[q] # "idle"
  /\ cache[r[1]][h] = None
  /\ host' = [host EXCEPT ![r] = h]
  /\ UNCHANGED <<targets, cache, outcome, clientVars, monitors, replyVars,
                 userVars, crossed>>
  /\ NoPath /\ NoNet

HasMonitor(s) ==
  IF IsServer(s) THEN monitors[s] # {} ELSE ~Closed(s) /\ conn[s] # None

\* The copy of s.monitors, or the check of s.conn.
Look(r) ==
  /\ \/ /\ HasMonitor(r[1]) /\ At(r, "look", "register")
        /\ targets' = [targets EXCEPT ![r] = IF IsServer(r[1]) THEN monitors[r[1]] ELSE {}]
        /\ UNCHANGED outcome
     \/ ~HasMonitor(r[1]) /\ Reject(r, "look") /\ UNCHANGED targets
  /\ UNCHANGED <<host, cache, clientVars, monitors, replyVars, userVars, crossed>>
  /\ NoPath /\ NoNet

Register(r) ==
  /\ At(r, "register", "send")
  /\ pending' = pending \cup {r}
  /\ chan' = [chan EXCEPT ![r] = "open"]
  /\ UNCHANGED <<hold, reply, host, targets, cache, outcome, clientVars, monitors,
                 userVars, crossed>>
  /\ NoPath /\ NoNet

Question(r) == [of |-> r, action |-> "ask", remember |-> FALSE]

\* Server mode: Encode to the monitors of the copy, ignoring errors.
SendToMonitor(r, c) ==
  /\ c \in targets[r]
  /\ At(r, "send", IF targets[r] = {c} THEN "wait" ELSE "send")
  /\ targets' = [targets EXCEPT ![r] = @ \ {c}]
  /\ \/ Write(<<c, "listen">>, Question(r)) /\ UNCHANGED <<peer, open>>
     \/ ~Up(<<c, "listen">>) /\ UNCHANGED netVars
  /\ UNCHANGED <<link, host, cache, outcome, clientVars, monitors, replyVars,
                 userVars, crossed>>
  /\ NoPath

\* Client mode: an error of Encode is ErrNoMonitor.
SendAsClient(r) ==
  LET e == <<enc[r[1]], "dial">>
  IN  /\ ~IsServer(r[1])
      /\ \/ /\ Write(e, Question(r)) /\ At(r, "send", "wait")
            /\ UNCHANGED <<peer, open, outcome, pending>>
         \/ /\ ~Up(e) /\ Reject(r, "send")
            /\ pending' = pending \ {r}
            /\ UNCHANGED netVars
      /\ UNCHANGED <<link, hold, chan, reply, host, targets, cache, clientVars,
                     monitors, userVars, crossed>>
      /\ NoPath

\* Mutant: the reply is read without ok, and a cancelled request has the
\* empty action.
Verdict_NoOk(m) == IF m # None /\ m.action = "block" THEN "block" ELSE "allow"

\* A channel closed with nothing in it is ErrNoMonitor; of the actions only
\* "block" blocks.
Verdict(m) == IF m = None \/ m.action = "block" THEN "block" ELSE "allow"

\* Mutant: every reply is remembered.
Remembered_Always(m) == m # None

Remembered(m) == m # None /\ m.remember

Receive(r) ==
  /\ chan[r] = "closed"
  /\ At(r, "wait", "done")
  /\ pending' = pending \ {r}
  /\ outcome' = [outcome EXCEPT ![r] = Verdict(reply[r])]
  /\ cache' = IF Remembered(reply[r])
              THEN [cache EXCEPT ![r[1]][host[r]] = reply[r].action] ELSE cache
  /\ UNCHANGED <<hold, chan, reply, host, targets, clientVars, monitors,
                 userVars, crossed>>
  /\ NoPath /\ NoNet

\* Mutant: the select has no ctx.Done case.
Timeout_NoDeadline(r) == rpc[r] = "wait" /\ chan[r] = "closed" /\ Receive(r)

\* ask_timeout: select may take it with a reply ready.
Timeout(r) ==
  /\ Reject(r, "wait")
  /\ pending' = pending \ {r}
  /\ UNCHANGED <<hold, chan, reply, host, targets, cache, clientVars, monitors,
                 userVars, crossed>>
  /\ NoPath /\ NoNet

Send(r) == SendAsClient(r) \/ \E c \in Conn : SendToMonitor(r, c)
Ask(r) == Look(r) \/ Register(r) \/ Send(r) \/ Receive(r) \/ Timeout(r)

-----------------------------------------------------------------------------
(* handleMonitor and handleClientResponses *)

\* The ends a goroutine of s reads responses at.
ReadAt(s, e) ==
  /\ Alive(s)
  /\ \/ e[2] = "listen" /\ peer[e[1]] = s /\ link[e[1]] = "reading"
     \/ e[2] = "dial" /\ reader[s] = "reading" /\ enc[s] = e[1]

\* Decode a response and take its request out of s.pending, by the id.
Decode(s, e) ==
  /\ ReadAt(s, e) /\ hold[e] = None
  /\ e \in open /\ inbox[e] # <<>>
  /\ inbox' = [inbox EXCEPT ![e] = Tail(@)]
  /\ LET m == Head(inbox[e])
         r == <<s, m.of[2]>>
     IN  IF r \in pending
         THEN /\ pending' = pending \ {r}
              /\ hold' = [hold EXCEPT ![e] = [m EXCEPT !.of = r]]
         ELSE UNCHANGED <<pending, hold>>
  /\ UNCHANGED <<peer, open, link, chan, reply, clientVars, monitors, askVars,
                 userVars, crossed>>
  /\ NoPath

\* ch <- resp; close(ch).
Deliver(s, e) ==
  /\ ReadAt(s, e) /\ hold[e] # None
  /\ reply' = [reply EXCEPT ![hold[e].of] = hold[e]]
  /\ chan' = [chan EXCEPT ![hold[e].of] = "closed"]
  /\ hold' = [hold EXCEPT ![e] = None]
  /\ UNCHANGED <<pending, clientVars, monitors, askVars, userVars, crossed>>
  /\ NoPath /\ NoNet

\* handleMonitor closes the connection, then takes it out of s.monitors.
LoseMonitor(s, c) ==
  LET e == <<c, "listen">>
  IN  /\ ReadAt(s, e) /\ hold[e] = None /\ Drained(e)
      /\ Close({e})
      /\ link' = [link EXCEPT ![c] = "leaving"]
      /\ UNCHANGED <<peer, clientVars, monitors, crossed>> /\ NoPath /\ NoTraffic

\* Mutant: a monitor that is gone stays in s.monitors.
RemoveMonitor_Kept(s, c) ==
  /\ Alive(s) /\ peer[c] = s /\ link[c] = "leaving"
  /\ link' = [link EXCEPT ![c] = "gone"]
  /\ UNCHANGED <<netVars, clientVars, monitors, crossed>> /\ NoPath /\ NoTraffic

RemoveMonitor(s, c) ==
  /\ Alive(s) /\ peer[c] = s /\ link[c] = "leaving"
  /\ link' = [link EXCEPT ![c] = "gone"]
  /\ monitors' = [monitors EXCEPT ![s] = @ \ {c}]
  /\ UNCHANGED <<netVars, clientVars, crossed>> /\ NoPath /\ NoTraffic

\* The listener is open until Close shuts it, so a connection can be accepted
\* after Close has dropped s.monitors.
AcceptConnections(s, c) ==
  /\ s \in Session /\ s \in listening
  /\ c \in Backlog(s)
  /\ link' = [link EXCEPT ![c] = "reading"]
  /\ monitors' = [monitors EXCEPT ![s] = @ \cup {c}]
  /\ UNCHANGED <<netVars, clientVars, crossed>> /\ NoPath /\ NoTraffic

\* Client mode: the connection is lost.
Disconnected(s) ==
  LET e == <<enc[s], "dial">>
  IN  /\ ReadAt(s, e) /\ hold[e] = None /\ Drained(e) /\ ~Closed(s)
      /\ conn' = [conn EXCEPT ![s] = None]
      /\ reader' = [reader EXCEPT ![s] = "cancel"]
      /\ UNCHANGED <<enc, monitors, crossed>> /\ NoPath /\ NoNet /\ NoTraffic

\* Mutant: the channels are closed and s.pending is kept.
CancelAll_Kept(s) ==
  /\ chan' = [r \in Request |-> IF r \in pending /\ r[1] = s THEN "closed" ELSE chan[r]]
  /\ UNCHANGED <<hold, reply, pending>>

\* close(ch) for everything in s.pending.
CancelAll(s) ==
  /\ pending' = pending \ Of(s)
  /\ chan' = [r \in Request |-> IF r \in pending /\ r[1] = s THEN "closed" ELSE chan[r]]
  /\ UNCHANGED <<hold, reply>>

CancelPending(s) ==
  /\ Alive(s) /\ reader[s] = "cancel"
  /\ CancelAll(s)
  /\ reader' = [reader EXCEPT ![s] = "redial"]
  /\ UNCHANGED <<conn, enc, monitors, askVars, userVars, crossed>>
  /\ NoPath /\ NoNet

\* Every second, to whoever listens by then.
Redial(s) ==
  /\ Alive(s) /\ ~Closed(s) /\ reader[s] = "redial"
  /\ \E c \in Conn : Connect(s, c)
  /\ reader' = [reader EXCEPT ![s] = "swap"]
  /\ UNCHANGED <<inbox, enc, monitors>> /\ NoPath /\ NoTraffic

\* Between s.conn and s.encoder an Ask still writes to the old connection.
Swap(s) ==
  /\ Alive(s) /\ reader[s] = "swap"
  /\ enc' = [enc EXCEPT ![s] = conn[s]]
  /\ reader' = [reader EXCEPT ![s] = "reading"]
  /\ UNCHANGED <<conn, monitors, crossed>> /\ NoPath /\ NoNet /\ NoTraffic

Respond(s) ==
  \/ \E e \in End : Decode(s, e) \/ Deliver(s, e)
  \/ \E c \in Conn : LoseMonitor(s, c) \/ RemoveMonitor(s, c) \/ AcceptConnections(s, c)
  \/ Disconnected(s) \/ CancelPending(s) \/ Swap(s)

-----------------------------------------------------------------------------
(* AskServer.Close, and the end of a process *)

\* Close sets s.closed.
Stop(s) ==
  /\ \/ Go(s, "server", "closeMonitors")
     \/ Go(s, "client", "hangUp")
  /\ UNCHANGED <<pathVars, clientVars, monitors, crossed>> /\ NoNet /\ NoTraffic

CloseMonitors(s) ==
  /\ Go(s, "closeMonitors", "cancel")
  /\ Close({<<c, "listen">> : c \in monitors[s]})
  /\ monitors' = [monitors EXCEPT ![s] = {}]
  /\ UNCHANGED <<pathVars, peer, link, clientVars, crossed>> /\ NoTraffic

CancelOnClose(s) ==
  /\ Go(s, "cancel", "unlisten")
  /\ CancelAll(s)
  /\ UNCHANGED <<pathVars, clientVars, monitors, askVars, userVars, crossed>> /\ NoNet

\* Closing a Unix listener unlinks its path, and Close removes the path again.
CloseListener(s) ==
  /\ Go(s, "unlisten", "unlink")
  /\ Unlisten(s)
  /\ Close(Unaccepted(s))
  /\ UNCHANGED <<lock, peer, clientVars, monitors, crossed>> /\ NoTraffic

RemoveSocket(s) ==
  /\ Go(s, "unlink", "closed")
  /\ sock' = None
  /\ UNCHANGED <<lock, listening, clientVars, monitors, crossed>> /\ NoNet /\ NoTraffic

\* Client mode: nothing pending is cancelled.
HangUp(s) ==
  /\ Go(s, "hangUp", "closed")
  /\ Close(IF conn[s] = None THEN {} ELSE {<<conn[s], "dial">>})
  /\ UNCHANGED <<pathVars, peer, link, clientVars, monitors, crossed>> /\ NoTraffic

\* The kernel closes a dead process's descriptors; its socket file stays.
Gone(p) ==
  /\ pc' = [pc EXCEPT ![p] = "dead"]
  /\ lock' = IF lock = p THEN None ELSE lock
  /\ listening' = listening \ {p}
  /\ Close(EndsOf(p))
  /\ link' = [c \in Conn |-> IF peer[c] = p THEN "gone" ELSE link[c]]
  /\ UNCHANGED <<peer, clientVars, monitors, crossed>> /\ NoTraffic

Exit(s) == pc[s] = "closed" /\ Gone(s) /\ UNCHANGED sock

Crash(p) ==
  /\ p \in Mortal /\ pc[p] \notin {"start", "dead"}
  /\ Gone(p)
  /\ UNCHANGED sock

CloseServer(s) ==
  CloseMonitors(s) \/ CancelOnClose(s) \/ CloseListener(s) \/ RemoveSocket(s)
  \/ HangUp(s) \/ Exit(s)

-----------------------------------------------------------------------------
(* The monitor *)

\* A monitor that listens serves one connection at a time.
Accept(m, c) ==
  /\ pc[m] = "server" /\ conn[m] = None
  /\ c \in Backlog(m)
  /\ link' = [link EXCEPT ![c] = "reading"]
  /\ conn' = [conn EXCEPT ![m] = c]
  /\ UNCHANGED <<netVars, enc, reader, monitors, crossed>> /\ NoPath /\ NoTraffic

Show(m) ==
  LET e == OwnEnd(m, conn[m])
  IN  /\ pc[m] \in Serving /\ conn[m] # None /\ asked[m] = None
      /\ e \in open /\ inbox[e] # <<>>
      /\ asked' = [asked EXCEPT ![m] = Head(inbox[e]).of]
      /\ inbox' = [inbox EXCEPT ![e] = Tail(@)]
      /\ UNCHANGED <<peer, open, link, clientVars, monitors, replyVars, askVars,
                     answers, crossed>>
      /\ NoPath

\* The end of a connection a listening monitor served.
Drop(m) ==
  /\ Close({OwnEnd(m, conn[m])})
  /\ link' = [link EXCEPT ![conn[m]] = "gone"]
  /\ conn' = [conn EXCEPT ![m] = None]
  /\ UNCHANGED <<peer, enc, reader>>

AutoReject == <<"block", FALSE>>

\* A key, or the auto-reject when the prompt times out.
Answer(m, key) ==
  LET e == OwnEnd(m, conn[m])
      a == [of |-> asked[m], action |-> key[1], remember |-> key[2]]
  IN  /\ pc[m] \in Serving \cup {"quitting"} /\ asked[m] # None
      /\ asked' = [asked EXCEPT ![m] = None]
      /\ answers' = answers \cup {a}
      /\ \/ Write(e, a) /\ UNCHANGED <<peer, open, link, clientVars>>
         \/ ~Up(e) /\ pc[m] = "server" /\ Drop(m)
         \/ ~Up(e) /\ pc[m] # "server" /\ UNCHANGED <<netVars, link, clientVars>>
      /\ UNCHANGED <<monitors, replyVars, askVars, crossed>>
      /\ NoPath

\* The session at the other end is gone: a client monitor exits.
ConnectionClosed(m) ==
  /\ pc[m] \in Serving /\ conn[m] # None /\ asked[m] = None
  /\ Drained(OwnEnd(m, conn[m]))
  /\ \/ /\ pc[m] = "server" /\ Drop(m)
        /\ UNCHANGED <<monitors, crossed>> /\ NoPath /\ NoTraffic
     \/ pc[m] = "client" /\ Gone(m) /\ UNCHANGED sock

\* Ctrl+C or a signal closes the listener and the connection; a prompt on
\* display runs to its end.
Interrupt(m) ==
  /\ Close((IF conn[m] = None THEN {} ELSE {OwnEnd(m, conn[m])}) \cup Unaccepted(m))
  /\ \/ Go(m, "client", "quitting") /\ UNCHANGED <<sock, listening, link>>
     \/ Go(m, "server", "quitting") /\ Unlisten(m)
  /\ UNCHANGED <<lock, peer, clientVars, monitors, crossed>> /\ NoTraffic

\* The deferred calls: the path is removed, if this monitor listened.
Quit(m) ==
  /\ pc[m] = "quitting" /\ asked[m] = None
  /\ Gone(m)
  /\ sock' = IF lock = m THEN None ELSE sock

Reply(m) == \E key \in Key \cup {AutoReject} : Answer(m, key)
Watch(m) ==
  \/ \E c \in Conn : Accept(m, c)
  \/ Show(m) \/ Reply(m) \/ ConnectionClosed(m) \/ Quit(m)

-----------------------------------------------------------------------------
Next ==
  \/ \E p \in Party : Start(p) \/ Crash(p)
  \/ \E r \in Request : Ask(r) \/ \E h \in Host : Begin(r, h)
  \/ \E s \in Session : Respond(s) \/ Redial(s) \/ Stop(s) \/ CloseServer(s)
  \/ \E m \in Monitor : TryFileLock(m) \/ Watch(m) \/ Interrupt(m)

\* Goroutines run, a process that began to close goes on, and the timers of
\* ask_timeout and of the prompt fire.  Nothing makes a user quit, a process
\* die, a sandbox send a request or a dial succeed.
Fairness ==
  /\ \A r \in Request : WF_vars(Look(r)) /\ WF_vars(Register(r))
                        /\ WF_vars(Send(r)) /\ WF_vars(Receive(r) \/ Timeout(r))
  /\ \A s \in Session : WF_vars(Disconnected(s) \/ CancelPending(s) \/ Swap(s))
                        /\ WF_vars(CloseServer(s))
  /\ \A s \in Session, c \in Conn :
       /\ WF_vars(LoseMonitor(s, c) \/ RemoveMonitor(s, c))
       /\ WF_vars(AcceptConnections(s, c))
  /\ \A s \in Session, e \in End : WF_vars(Decode(s, e) \/ Deliver(s, e))
  /\ \A m \in Monitor : WF_vars(Watch(m))

Spec == Init /\ [][Next]_vars /\ Fairness

-----------------------------------------------------------------------------
(* Properties *)

\* Readers that have taken r out of s.pending and not yet closed its channel.
Takers(r) == {e \in End : hold[e] # None /\ hold[e].of = r}

\* A channel is closed once: the map entry is the right to close it, and at
\* most one reader, Close or the reconnect loop ever has it, so that none
\* sends on, or closes, a channel another has closed (a panic of the proxy).
OneCloser ==
  \A r \in Request :
    /\ r \in pending => Takers(r) = {}
    /\ \A d, e \in Takers(r) : d = e
    /\ r \in pending \/ Takers(r) # {} => chan[r] = "open"

Approved(r) == \E a \in answers : a.of = r /\ a.action = "allow"

\* docs/proxy.md: "A request nobody answers within ask_timeout, or that
\* arrives with no monitor connected, is blocked".
AllowedOnlyByAnswer == \A r \in Request : outcome[r] = "allow" => Approved(r)

\* The same while no session has dialed another: an answer to one request,
\* or to another session's of the same id, never lets a request pass.
AllowedByAnswer == ~crossed => AllowedOnlyByAnswer

\* Answer a is why session s remembers what it does about h.
Remembers(s, h, a) ==
  /\ a.remember /\ a.action = cache[s][h]
  /\ a.of \in Of(s) /\ host[a.of] = h
  /\ rpc[a.of] = "done" /\ outcome[a.of] = a.action

\* A remembered decision is one a user asked to remember at a prompt for a
\* request of that session to that host, whose answer came in time.
RememberedByAnswer ==
  ~crossed => \A s \in Session, h \in Host :
    cache[s][h] # None => \E a \in answers : Remembers(s, h, a)

\* What RequestApproval decides and the filter then caches is what a user
\* answered: the two together.
DecidedByAnswer == AllowedByAnswer /\ RememberedByAnswer

\* Encode to a monitor that has not accepted the connection ignores ask_timeout.
Queued(r) == rpc[r] = "send" /\ ~IsServer(r[1]) /\ link[enc[r[1]]] = "backlog"

\* Every request gets its outcome, though writes block on full buffers, unless
\* its process ends or it waits for a monitor that serves another connection.
AskReturns ==
  \A r \in Request :
    rpc[r] = "look" ~> rpc[r] = "done" \/ pc[r[1]] = "dead" \/ Queued(r)

\* A monitor that is gone leaves s.monitors: with no other connected, the next
\* request is refused at once and not held until ask_timeout.
GoneMonitorsLeave ==
  \A s \in Session, c \in Conn :
    c \in monitors[s] /\ <<c, "dial">> \notin open
      ~> c \notin monitors[s] \/ pc[s] = "dead"

=============================================================================
