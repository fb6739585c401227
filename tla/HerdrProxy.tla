------------------------------ MODULE HerdrProxy ------------------------------
(***************************************************************************)
(* The herdr proxy (internal/herdrproxy and sandbox/tools/herdr.go): each  *)
(* session lets its sandbox open tabs in the host's terminal workspace and *)
(* start a declared script in the panes it opened, and nothing else.  A    *)
(* connection is bridged by two pumps that share a correlation table; what *)
(* the sandbox owns is learned from replies; a launch script is read once, *)
(* checked and copied to a directory of the host, and the copy is run.     *)
(*                                                                         *)
(* The sessions are those of one project: they share its sandbox home.     *)
(* herdr is external: it answers the requests of a connection in any order *)
(* and never gives an id out twice; one id stands for a tab and its pane.  *)
(***************************************************************************)
EXTENDS Naturals, FiniteSets

CONSTANTS
  Sessions,      \* devsandbox processes of one project, inside herdr panes
  Conns,         \* connections from sandboxes to the proxy
  SessionOf,     \* the session each belongs to
  Ids,           \* request ids
  SendChoices,   \* the requests the client on each connection may send
  Panes,         \* panes of the host
  UserPanes,     \* those the user has open
  MaxInFlight,   \* requests tracked on a connection at once
  NoPane, NoReq, NoBody

ASSUME HerdrAssumption ==
  /\ SessionOf \in [Conns -> Sessions]
  /\ UserPanes \subseteq Panes
  /\ NoPane \notin Panes
  /\ MaxInFlight \in Nat
  /\ NoBody \notin {"declared", "other"}

VARIABLES
  sends,         \* what clients may send, one of SendChoices
  sessionAt,     \* where each session is
  scriptsDir,    \* whether the directory of relocated scripts exists
  script,        \* what the file a sandbox writes its script to holds
  copies,        \* relocated scripts, by the request they came with
  connAt,        \* whether a connection is open
  pump,          \* where its request pump is
  line,          \* the line that pump is at
  inFlight,      \* its correlation table: the method of each tracked id
  atHerdr,       \* requests herdr has not answered
  reply,         \* the line its response pump is at
  relaying,      \* whether that pump is past captureOwnership
  ownedPanes,    \* panes each session's filter accepts
  created,       \* history: panes herdr created for each session
  shown,         \* history: panes each sandbox was told of
  typed          \* scripts herdr typed into a pane and no shell has opened yet

herdrVars == <<sends, sessionAt, scriptsDir, script, copies, connAt, pump, line,
               inFlight, atHerdr, reply, relaying, ownedPanes, created, shown,
               typed>>
sessionVars == <<sessionAt, scriptsDir, script, copies>>
hostVars == <<created, typed, sends>>

Bodies == {"declared", "other"}
Methods == {"ping", "tab.create", "pane.send_input", "tab.close"}
Requests ==
  [method : {"ping", "tab.create"}, id : Ids, pane : {NoPane}] \cup
  [method : {"pane.send_input", "tab.close"}, id : Ids, pane : Panes]
Replies == [id : Ids, method : Methods, pane : Panes \cup {NoPane}]

ASSUME SendAssumption == SendChoices \subseteq [Conns -> SUBSET Requests]

\* No request and no method is the mark for none.
ASSUME NoReqAssumption == NoReq \notin Methods \cup Requests \cup Replies

HerdrTypeOK ==
  /\ sends \in SendChoices
  /\ sessionAt \in [Sessions -> {"off", "on", "stopped", "over"}]
  /\ scriptsDir \in BOOLEAN
  /\ script \in [Sessions -> Bodies]
  /\ copies \in [Conns \X Ids -> Bodies \cup {NoBody}]
  /\ connAt \in [Conns -> {"new", "open", "closed"}]
  /\ pump \in [Conns -> {"read", "decided", "tracked"}]
  /\ line \in [Conns -> Requests \cup {NoReq}]
  /\ inFlight \in [Conns -> [Ids -> Methods \cup {NoReq}]]
  /\ atHerdr \in [Conns -> SUBSET Requests]
  /\ reply \in [Conns -> Replies \cup {NoReq}]
  /\ relaying \subseteq Conns
  /\ ownedPanes \in [Sessions -> SUBSET Panes]
  /\ created \in [Sessions -> SUBSET Panes]
  /\ shown \in [Sessions -> SUBSET Panes]
  /\ typed \subseteq Conns \X Ids

HerdrInit ==
  /\ sends \in SendChoices
  /\ sessionAt = [s \in Sessions |-> "off"]
  /\ scriptsDir = FALSE
  /\ script = [s \in Sessions |-> "declared"]
  /\ copies = [n \in Conns \X Ids |-> NoBody]
  /\ connAt = [c \in Conns |-> "new"]
  /\ pump = [c \in Conns |-> "read"]
  /\ line = [c \in Conns |-> NoReq]
  /\ inFlight = [c \in Conns |-> [i \in Ids |-> NoReq]]
  /\ atHerdr = [c \in Conns |-> {}]
  /\ reply = [c \in Conns |-> NoReq]
  /\ relaying = {}
  /\ ownedPanes = [s \in Sessions |-> {}]
  /\ created = [s \in Sessions |-> {}]
  /\ shown = [s \in Sessions |-> {}]
  /\ typed = {}

-----------------------------------------------------------------------------
(* A session *)

\* Both pumps of these connections end, and their tables with them.
Closed(conns) ==
  /\ connAt' = [c \in Conns |-> IF c \in conns THEN "closed" ELSE connAt[c]]
  /\ pump' = [c \in Conns |-> IF c \in conns THEN "read" ELSE pump[c]]
  /\ line' = [c \in Conns |-> IF c \in conns THEN NoReq ELSE line[c]]
  /\ inFlight' = [c \in Conns |-> IF c \in conns THEN [i \in Ids |-> NoReq]
                                  ELSE inFlight[c]]
  /\ reply' = [c \in Conns |-> IF c \in conns THEN NoReq ELSE reply[c]]
  /\ relaying' = relaying \ conns
ConnsOf(s) == {c \in Conns : SessionOf[c] = s}

\* Herdr.Start: the relocator makes its directory, the socket is opened.
ProxyStarts(s) ==
  /\ sessionAt[s] = "off"
  /\ sessionAt' = [sessionAt EXCEPT ![s] = "on"]
  /\ scriptsDir' = TRUE
  /\ UNCHANGED <<script, copies, connAt, pump, line, inFlight, atHerdr, reply,
                 relaying, ownedPanes, shown>>
  /\ UNCHANGED hostVars

\* Herdr.Stop: first the proxy, with every connection it has ...
ProxyStops(s) ==
  /\ sessionAt[s] = "on"
  /\ sessionAt' = [sessionAt EXCEPT ![s] = "stopped"]
  /\ Closed(ConnsOf(s))
  /\ UNCHANGED <<scriptsDir, script, copies, atHerdr, ownedPanes, shown>>
  /\ UNCHANGED hostVars

\* ... then the relocator: its own scripts, and the directory with whatever else
\* is in it.
CleanupScripts(s) ==
  /\ sessionAt[s] = "stopped"
  /\ sessionAt' = [sessionAt EXCEPT ![s] = "over"]
  /\ scriptsDir' = FALSE
  /\ copies' = [n \in Conns \X Ids |-> NoBody]
  /\ UNCHANGED <<script, connAt, pump, line, inFlight, atHerdr, reply, relaying,
                 ownedPanes, shown>>
  /\ UNCHANGED hostVars

SessionKilled(s) ==
  /\ sessionAt[s] \in {"on", "stopped"}
  /\ sessionAt' = [sessionAt EXCEPT ![s] = "over"]
  /\ Closed(ConnsOf(s))
  /\ UNCHANGED <<scriptsDir, script, copies, atHerdr, ownedPanes, shown>>
  /\ UNCHANGED hostVars

\* The script lies where the sandbox can write, also while a request is decided.
SandboxWrites(s) ==
  /\ sessionAt[s] = "on"
  /\ \E body \in Bodies : script' = [script EXCEPT ![s] = body]
  /\ UNCHANGED <<sessionAt, scriptsDir, copies, connAt, pump, line, inFlight,
                 atHerdr, reply, relaying, ownedPanes, shown>>
  /\ UNCHANGED hostVars

-----------------------------------------------------------------------------
(* The request pump of a connection *)

Connect(c) ==
  /\ connAt[c] = "new" /\ sends[c] # {}
  /\ sessionAt[SessionOf[c]] = "on"
  /\ connAt' = [connAt EXCEPT ![c] = "open"]
  /\ UNCHANGED <<pump, line, inFlight, atHerdr, reply, relaying, ownedPanes,
                 shown>>
  /\ UNCHANGED sessionVars /\ UNCHANGED hostVars

PumpGo(c, place, request) ==
  /\ pump' = [pump EXCEPT ![c] = place]
  /\ line' = [line EXCEPT ![c] = request]

\* Relocate: read once, matched in memory, written where only the host writes.
\* The directory is made by Start and not again.
Relocated(c, r) ==
  /\ script[SessionOf[c]] = "declared"
  /\ scriptsDir
  /\ copies' = [copies EXCEPT ![<<c, r.id>>] = script[SessionOf[c]]]

OwnsTarget(c, r) == r.pane \in ownedPanes[SessionOf[c]]

\* Filter.Decide.  What it refuses is answered with a denial; its checks of
\* parameters may refuse anything.
Decide(c) ==
  /\ connAt[c] = "open"
  /\ pump[c] = "read"
  /\ \E r \in sends[c] :
        \/ /\ r.method \in {"ping", "tab.create"}
           /\ PumpGo(c, "decided", r)
           /\ UNCHANGED copies
        \/ /\ r.method = "tab.close"
           /\ OwnsTarget(c, r)
           /\ PumpGo(c, "decided", r)
           /\ UNCHANGED copies
        \/ /\ r.method = "pane.send_input"
           /\ OwnsTarget(c, r)
           /\ Relocated(c, r)
           /\ PumpGo(c, "decided", r)
  /\ UNCHANGED <<sessionAt, scriptsDir, script, connAt, inFlight, atHerdr,
                 reply, relaying, ownedPanes, shown>>
  /\ UNCHANGED hostVars

Tracked(c) == {i \in Ids : inFlight[c][i] # NoReq}
Trackable(c, i) == i \notin Tracked(c) /\ Cardinality(Tracked(c)) < MaxInFlight

\* correlator.Track; a refusal is answered with a denial.
Track(c) ==
  /\ connAt[c] = "open"
  /\ pump[c] = "decided"
  /\ IF Trackable(c, line[c].id)
     THEN /\ inFlight' = [inFlight EXCEPT ![c][line[c].id] = line[c].method]
          /\ PumpGo(c, "tracked", line[c])
     ELSE PumpGo(c, "read", NoReq) /\ UNCHANGED inFlight
  /\ UNCHANGED <<connAt, atHerdr, reply, relaying, ownedPanes, shown>>
  /\ UNCHANGED sessionVars /\ UNCHANGED hostVars

ForwardLine(c) ==
  /\ connAt[c] = "open"
  /\ pump[c] = "tracked"
  /\ atHerdr' = [atHerdr EXCEPT ![c] = @ \cup {line[c]}]
  /\ PumpGo(c, "read", NoReq)
  /\ UNCHANGED <<connAt, inFlight, reply, relaying, ownedPanes, shown>>
  /\ UNCHANGED sessionVars /\ UNCHANGED hostVars

-----------------------------------------------------------------------------
(* herdr, external *)

AllCreated == UserPanes \cup UNION {created[s] : s \in Sessions}

\* What a request does, and its answer; a tab may not be created.  A connection
\* that is closed gets no answer, but the request was received.
Answer(c, r) ==
  /\ r \in atHerdr[c]
  /\ reply[c] = NoReq
  /\ atHerdr' = [atHerdr EXCEPT ![c] = @ \ {r}]
  /\ \E p \in Panes \cup {NoPane} :
       /\ p # NoPane => r.method = "tab.create" /\ p \notin AllCreated
       /\ created' = IF p = NoPane THEN created
                     ELSE [created EXCEPT ![SessionOf[c]] = @ \cup {p}]
       /\ reply' = IF connAt[c] = "open"
                   THEN [reply EXCEPT ![c] =
                           [id |-> r.id, method |-> r.method, pane |-> p]]
                   ELSE reply
  /\ typed' = IF r.method = "pane.send_input" THEN typed \cup {<<c, r.id>>}
              ELSE typed
  /\ UNCHANGED <<connAt, pump, line, inFlight, relaying, ownedPanes, shown, sends>>
  /\ UNCHANGED sessionVars

\* Mutant: the command names the file that was checked, not a copy.
Named_InPlace(n) == script[SessionOf[n[1]]]

\* The command herdr was given names the copy.
Named(n) == copies[n]

\* The pane's shell opens the script, or finds that it is gone.
ShellRuns(n) ==
  /\ n \in typed
  /\ typed' = typed \ {n}
  /\ UNCHANGED <<connAt, pump, line, inFlight, atHerdr, reply, relaying,
                 ownedPanes, created, shown, sends>>
  /\ UNCHANGED sessionVars

-----------------------------------------------------------------------------
(* The response pump *)

\* Resolve: the method of the request the reply is to, which is then forgotten.
\* A tab.create that produced ids makes them owned.
CaptureOwnership(c) ==
  /\ connAt[c] = "open"
  /\ reply[c] # NoReq
  /\ c \notin relaying
  /\ relaying' = relaying \cup {c}
  /\ inFlight' = [inFlight EXCEPT ![c][reply[c].id] = NoReq]
  /\ ownedPanes' =
       IF inFlight[c][reply[c].id] = "tab.create" /\ reply[c].pane # NoPane
       THEN [ownedPanes EXCEPT ![SessionOf[c]] = @ \cup {reply[c].pane}]
       ELSE ownedPanes
  /\ UNCHANGED <<connAt, pump, line, atHerdr, reply, shown>>
  /\ UNCHANGED sessionVars /\ UNCHANGED hostVars

Relay(c) ==
  /\ connAt[c] = "open"
  /\ c \in relaying
  /\ relaying' = relaying \ {c}
  /\ reply' = [reply EXCEPT ![c] = NoReq]
  /\ shown' = [shown EXCEPT ![SessionOf[c]] = @ \cup ({reply[c].pane} \ {NoPane})]
  /\ UNCHANGED <<connAt, pump, line, inFlight, atHerdr, ownedPanes>>
  /\ UNCHANGED sessionVars /\ UNCHANGED hostVars

\* Either end goes away, or a write fails.
Disconnect(c) ==
  /\ connAt[c] = "open"
  /\ Closed({c})
  /\ UNCHANGED <<atHerdr, ownedPanes, shown>>
  /\ UNCHANGED sessionVars /\ UNCHANGED hostVars

-----------------------------------------------------------------------------

SessionSteps(s) ==
  \/ ProxyStarts(s) \/ ProxyStops(s) \/ CleanupScripts(s) \/ SessionKilled(s)
  \/ SandboxWrites(s)

ConnSteps(c) ==
  \/ Connect(c) \/ Decide(c) \/ Track(c) \/ ForwardLine(c) \/ CaptureOwnership(c)
  \/ Relay(c) \/ Disconnect(c)
  \/ \E r \in atHerdr[c] : Answer(c, r)
  \/ \E i \in Ids : ShellRuns(<<c, i>>)

HerdrNext ==
  \/ \E s \in Sessions : SessionSteps(s)
  \/ \E c \in Conns : ConnSteps(c)

HerdrSpec == HerdrInit /\ [][HerdrNext]_herdrVars

-----------------------------------------------------------------------------
(* Properties *)

\* What reaches herdr is about panes it created for this sandbox: whatever pane a
\* client names, on whichever of its connections, in whatever order replies come.
OwnPanesOnly ==
  \A c \in Conns : \A r \in atHerdr[c] :
    r.pane # NoPane => r.pane \in created[SessionOf[c]]

\* A pane a sandbox has been told of is accepted from then on: the launcher that
\* sends its command on another connection the moment it sees the reply is not
\* denied for it.
OwnedBeforeShown == \A s \in Sessions : shown[s] \subseteq ownedPanes[s]

\* A reply is attributed to the request it answers, with ids that clients choose
\* and use again and requests that are answered out of order.
RightlyAttributed ==
  \A c \in Conns : connAt[c] = "open" =>
    /\ \A r \in atHerdr[c] : inFlight[c][r.id] = r.method
    /\ reply[c] # NoReq /\ c \notin relaying =>
         inFlight[c][reply[c].id] = reply[c].method

\* What a host shell finds when it opens the script is the script as it was
\* checked, or none, however often the sandbox rewrites its own file meanwhile.
RunsAsChecked == \A n \in typed : Named(n) \in {"declared", NoBody}

\* What is typed on the host was checked, and goes to a pane made for the sandbox;
\* and no such pane is refused.
InputAsChecked == OwnPanesOnly /\ RunsAsChecked /\ OwnedBeforeShown
=============================================================================
