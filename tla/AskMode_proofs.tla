--------------------------- MODULE AskMode_proofs ---------------------------
(***************************************************************************)
(* Ask mode, for any number of sessions, monitors, requests and             *)
(* connections: type correctness, that a reply channel is closed once, and  *)
(* that what passes or is remembered is what a user answered for that very  *)
(* request, as long as no session has dialed another.                       *)
(***************************************************************************)
EXTENDS AskMode, TLAPS

USE DEF netVars, pathVars, clientVars, replyVars, askVars, userVars,
        NoTraffic, NoNet, NoPath

-----------------------------------------------------------------------------
(* Types *)

Inboxes ==
  /\ inbox \in [End -> Seq(Message)]
  /\ \A e \in End : Len(inbox[e]) <= Capacity

\* The other end of an end is an end, and has the same connection.
LEMMA OtherEnd == \A e \in End : Other(e) \in End /\ Other(e)[1] = e[1] /\ Other(e) # e
  BY DEF End, Other

LEMMA OwnEndType == \A p, c : c \in Conn => OwnEnd(p, c) \in End /\ OwnEnd(p, c)[1] = c
  BY DEF End, OwnEnd

\* An end that is up is an end.
LEMMA UpEnd == ASSUME open \subseteq End, NEW e, Up(e) PROVE e \in End /\ Other(e) \in End
  BY DEF Up

\* Closing ends empties inboxes and fills none.
LEMMA CloseInboxes ==
  ASSUME Inboxes, open \subseteq End, NEW E, Close(E)
  PROVE  Inboxes' /\ open' \subseteq End
<1>1. <<>> \in Seq(Message) /\ Len(<<>>) <= Capacity
  BY AskAssumption
<1> QED
  BY <1>1 DEF Close, Inboxes

\* A write adds its message where there is room for it.
LEMMA WriteInboxes ==
  ASSUME Inboxes, open \subseteq End, NEW e, NEW m \in Message, Write(e, m)
  PROVE  Inboxes'
<1>1. Other(e) \in End
  BY UpEnd DEF Write
<1>2. /\ Append(inbox[Other(e)], m) \in Seq(Message)
      /\ Len(Append(inbox[Other(e)], m)) = Len(inbox[Other(e)]) + 1
  BY <1>1 DEF Inboxes
<1>3. Len(inbox[Other(e)]) < Capacity /\ Len(inbox[Other(e)]) \in Nat
  BY <1>1 DEF Write, Room, Inboxes
<1> QED
  BY <1>1, <1>2, <1>3, AskAssumption DEF Write, Inboxes

\* Reading takes the first message and keeps the others.
LEMMA ReadInboxes ==
  ASSUME Inboxes, NEW e \in End, inbox[e] # <<>>,
         inbox' = [inbox EXCEPT ![e] = Tail(@)]
  PROVE  Inboxes' /\ Head(inbox[e]) \in Message
<1>1. /\ Head(inbox[e]) \in Message
      /\ Tail(inbox[e]) \in Seq(Message)
      /\ Len(Tail(inbox[e])) = Len(inbox[e]) - 1
      /\ Len(inbox[e]) \in Nat
  BY DEF Inboxes
<1> QED
  BY <1>1, AskAssumption DEF Inboxes

LEMMA Typed == TypeOK => Inboxes /\ open \subseteq End
  BY DEF TypeOK, Inboxes

LEMMA GoType ==
  ASSUME TypeOK, NEW p \in Party, NEW a, NEW b \in PC, Go(p, a, b)
  PROVE  pc' \in [Party -> PC]
  BY DEF Go, TypeOK

LEMMA ConnectType ==
  ASSUME TypeOK, NEW p, NEW c \in Conn, Connect(p, c)
  PROVE  /\ peer' \in [Conn -> Party \cup {None}]
         /\ open' \subseteq End
         /\ link' \in [Conn -> {"none", "backlog", "reading", "leaving", "gone"}]
         /\ conn' \in [Party -> Conn \cup {None}]
         /\ crossed' \in BOOLEAN
<1>1. {<<c, "dial">>, <<c, "listen">>} \subseteq End
  BY DEF End
<1>2. crossed' \in BOOLEAN
  BY Zenon DEF Connect, TypeOK
<1> QED
  BY <1>1, <1>2 DEF Connect, TypeOK

\* What a party's life is made of.
LEMMA PCs ==
  /\ StartPC \subseteq PC /\ Serving \subseteq PC /\ ClosingPC \subseteq PC
  /\ {"start", "dial", "remove", "listen", "lock", "clean"} \subseteq PC
  /\ {"server", "client", "quitting", "closed", "dead"} \subseteq PC
  /\ {"closeMonitors", "cancel", "unlisten", "unlink", "hangUp"} \subseteq PC
  BY DEF PC, StartPC, Serving, ClosingPC

LEMMA InitTypeOK == Init => TypeOK
<1>1. <<>> \in Seq(Message) /\ Len(<<>>) <= Capacity
  BY AskAssumption
<1>2. Init => Inboxes
  BY <1>1 DEF Init, Inboxes
<1>3. Init => pc \in [Party -> PC]
  BY PCs DEF Init
<1>4. Init => cache \in [Session -> [Host -> Action \cup {None}]]
  BY DEF Init
<1>5. Init => crossed \in BOOLEAN /\ answers \subseteq Response /\ pending \subseteq Request
  BY DEF Init
<1>6. Init => /\ peer \in [Conn -> Party \cup {None}]
              /\ link \in [Conn -> {"none", "backlog", "reading", "leaving", "gone"}]
              /\ conn \in [Party -> Conn \cup {None}]
              /\ enc \in [Session -> Conn \cup {None}]
              /\ hold \in [End -> Message \cup {None}]
              /\ asked \in [Monitor -> Request \cup {None}]
              /\ monitors \in [Session -> SUBSET Conn]
  BY DEF Init
<1>7. Init => /\ rpc \in [Request -> {"idle", "look", "register", "send", "wait", "done"}]
              /\ host \in [Request -> Host \cup {None}]
              /\ targets \in [Request -> SUBSET Conn]
              /\ chan \in [Request -> {"none", "open", "closed"}]
              /\ reply \in [Request -> Message \cup {None}]
              /\ outcome \in [Request -> Action \cup {None}]
  BY DEF Init
<1> QED
  BY <1>2, <1>3, <1>4, <1>5, <1>6, <1>7 DEF Init, TypeOK, Inboxes

\* Every step keeps the types.
LEMMA NextTypeOK == TypeOK /\ [Next]_vars => TypeOK'
<1> SUFFICES ASSUME TypeOK, [Next]_vars PROVE TypeOK'
  OBVIOUS
<1>0. Inboxes /\ open \subseteq End
  BY Typed
<1> USE DEF Party
<1>1. ASSUME NEW p \in Party, Start(p) PROVE TypeOK'
  <2>1. CASE Stat(p)
    BY <2>1, GoType, PCs DEF Stat, TypeOK
  <2>2. CASE Dial(p)
    <3>0. pc' \in [Party -> PC]
      BY <2>2, GoType, PCs DEF Dial
    <3>1. CASE UNCHANGED <<netVars, link, clientVars, crossed>>
      BY <2>2, <3>0, <3>1 DEF Dial, TypeOK
    <3>2. ASSUME NEW c \in Conn, Connect(p, c), UNCHANGED inbox,
                 IF p \in Session
                 THEN /\ enc' = [enc EXCEPT ![p] = c]
                      /\ reader' = [reader EXCEPT ![p] = "reading"]
                 ELSE UNCHANGED <<enc, reader>>
          PROVE TypeOK'
      <4>1. /\ enc' \in [Session -> Conn \cup {None}]
            /\ reader' \in [Session -> {"none", "reading", "cancel", "redial", "swap"}]
        BY <3>2 DEF TypeOK
      <4>2. /\ peer' \in [Conn -> Party \cup {None}] /\ open' \subseteq End
            /\ link' \in [Conn -> {"none", "backlog", "reading", "leaving", "gone"}]
            /\ conn' \in [Party -> Conn \cup {None}] /\ crossed' \in BOOLEAN
        BY <3>2, ConnectType
      <4>3. UNCHANGED <<pathVars, monitors, inbox>> /\ NoTraffic
        BY <2>2, <3>2 DEF Dial
      <4> QED BY <3>0, <4>1, <4>2, <4>3 DEF TypeOK
    <3> QED BY <2>2, <3>1, <3>2 DEF Dial
  <2>3. CASE RemoveStale(p)
    BY <2>3, GoType, PCs DEF RemoveStale, TypeOK
  <2>4. CASE Listen(p)
    BY <2>4, GoType, PCs DEF Listen, TypeOK
  <2> QED BY <1>1, <2>1, <2>2, <2>3, <2>4 DEF Start
<1>2. ASSUME NEW p \in Party, Crash(p) PROVE TypeOK'
  BY <1>0, <1>2, CloseInboxes, PCs DEF Crash, Gone, TypeOK, Inboxes
<1>3. ASSUME NEW r \in Request, Ask(r) PROVE TypeOK'
  <2>0. r[1] \in Session
    BY DEF Request
  <2>1. CASE Look(r)
    <3> DEFINE copy == IF IsServer(r[1]) THEN monitors[r[1]] ELSE {}
    <3>1. copy \in SUBSET Conn
      BY <2>0 DEF TypeOK
    <3>2. CASE At(r, "look", "register") /\ targets' = [targets EXCEPT ![r] = copy]
               /\ UNCHANGED outcome
      <4> HIDE DEF copy
      <4> QED BY <2>1, <3>1, <3>2 DEF Look, At, TypeOK
    <3>3. CASE Reject(r, "look") /\ UNCHANGED targets
      BY <2>1, <3>3 DEF Look, Reject, At, TypeOK, Action
    <3> QED BY <2>1, <3>2, <3>3, Zenon DEF Look
  <2>2. CASE Register(r)
    BY <2>2 DEF Register, At, TypeOK
  <2>3. CASE SendAsClient(r)
    <3>1. Question(r) \in Message
      BY DEF Question, Message, Response
    <3>2. Inboxes'
      BY <1>0, <2>3, <3>1, WriteInboxes DEF SendAsClient, Inboxes
    <3> QED BY <2>3, <3>2 DEF SendAsClient, Write, At, Reject, TypeOK, Action, Inboxes
  <2>4. ASSUME NEW c \in Conn, SendToMonitor(r, c) PROVE TypeOK'
    <3>1. Question(r) \in Message
      BY DEF Question, Message, Response
    <3>2. Inboxes'
      BY <1>0, <2>4, <3>1, WriteInboxes DEF SendToMonitor, Inboxes
    <3> QED BY <2>4, <3>2 DEF SendToMonitor, Write, At, TypeOK, Inboxes
  <2>5. CASE Receive(r)
    <3>1. Remembered(reply[r]) => reply[r].action \in Action
      BY DEF Remembered, TypeOK, Message, Response
    <3> QED BY <2>0, <2>5, <3>1 DEF Receive, Verdict, At, TypeOK, Action
  <2>6. CASE Timeout(r)
    BY <2>6 DEF Timeout, At, Reject, TypeOK, Action
  <2> QED BY <1>3, <2>1, <2>2, <2>3, <2>4, <2>5, <2>6 DEF Ask, Send
<1>4. ASSUME NEW r \in Request, NEW h \in Host, Begin(r, h) PROVE TypeOK'
  BY <1>4 DEF Begin, At, TypeOK
<1>5. ASSUME NEW s \in Session, Respond(s) PROVE TypeOK'
  <2>1. ASSUME NEW e \in End, Decode(s, e) PROVE TypeOK'
    <3>1. Inboxes' /\ Head(inbox[e]) \in Message
      BY <1>0, <2>1, ReadInboxes DEF Decode
    <3>2. ASSUME NEW r \in Request
          PROVE  [Head(inbox[e]) EXCEPT !.of = r] \in Message
      BY <3>1 DEF Message, Response
    <3> DEFINE r == <<s, Head(inbox[e]).of[2]>>
    <3>3. pending' \subseteq Request /\ hold' \in [End -> Message \cup {None}]
      <4>1. CASE r \in pending
        <5>1. [Head(inbox[e]) EXCEPT !.of = r] \in Message
          BY <3>2, <4>1 DEF TypeOK
        <5>2. /\ pending' = pending \ {r}
              /\ hold' = [hold EXCEPT ![e] = [Head(inbox[e]) EXCEPT !.of = r]]
          BY <2>1, <4>1 DEF Decode
        <5> HIDE DEF r
        <5> QED BY <5>1, <5>2 DEF TypeOK
      <4>2. CASE r \notin pending
        BY <2>1, <4>2 DEF Decode, TypeOK
      <4> QED BY <4>1, <4>2
    <3> QED BY <2>1, <3>1, <3>3 DEF Decode, TypeOK, Inboxes
  <2>2. ASSUME NEW e \in End, Deliver(s, e) PROVE TypeOK'
    BY <2>2 DEF Deliver, TypeOK
  <2>3. ASSUME NEW c \in Conn, LoseMonitor(s, c) PROVE TypeOK'
    BY <1>0, <2>3, CloseInboxes DEF LoseMonitor, TypeOK, Inboxes
  <2>4. ASSUME NEW c \in Conn, RemoveMonitor(s, c) PROVE TypeOK'
    BY <2>4 DEF RemoveMonitor, TypeOK
  <2>5. ASSUME NEW c \in Conn, AcceptConnections(s, c) PROVE TypeOK'
    BY <2>5 DEF AcceptConnections, TypeOK
  <2>6. CASE Disconnected(s)
    BY <2>6 DEF Disconnected, TypeOK
  <2>7. CASE CancelPending(s)
    BY <2>7 DEF CancelPending, CancelAll, TypeOK
  <2>8. CASE Swap(s)
    BY <2>8 DEF Swap, TypeOK
  <2> QED BY <1>5, <2>1, <2>2, <2>3, <2>4, <2>5, <2>6, <2>7, <2>8 DEF Respond
<1>6. ASSUME NEW s \in Session, Redial(s) PROVE TypeOK'
  BY <1>6, ConnectType DEF Redial, TypeOK
<1>7. ASSUME NEW s \in Session, Stop(s) PROVE TypeOK'
  BY <1>7, GoType, PCs DEF Stop, TypeOK
<1>8. ASSUME NEW s \in Session, CloseServer(s) PROVE TypeOK'
  <2>1. CASE CloseMonitors(s)
    BY <1>0, <2>1, CloseInboxes, GoType, PCs DEF CloseMonitors, TypeOK, Inboxes
  <2>2. CASE CancelOnClose(s)
    BY <2>2, GoType, PCs DEF CancelOnClose, CancelAll, TypeOK
  <2>3. CASE CloseListener(s)
    BY <1>0, <2>3, CloseInboxes, GoType, PCs DEF CloseListener, Unlisten, TypeOK, Inboxes
  <2>4. CASE RemoveSocket(s)
    BY <2>4, GoType, PCs DEF RemoveSocket, TypeOK
  <2>5. CASE HangUp(s)
    BY <1>0, <2>5, CloseInboxes, GoType, PCs DEF HangUp, TypeOK, Inboxes
  <2>6. CASE Exit(s)
    BY <1>0, <2>6, CloseInboxes, PCs DEF Exit, Gone, TypeOK, Inboxes
  <2> QED BY <1>8, <2>1, <2>2, <2>3, <2>4, <2>5, <2>6 DEF CloseServer
<1>9. ASSUME NEW m \in Monitor, TryFileLock(m) PROVE TypeOK'
  BY <1>9, GoType, PCs DEF TryFileLock, TypeOK
<1>10. ASSUME NEW m \in Monitor, Watch(m) PROVE TypeOK'
  <2>1. ASSUME NEW c \in Conn, Accept(m, c) PROVE TypeOK'
    BY <2>1 DEF Accept, TypeOK
  <2>2. CASE Show(m)
    <3> DEFINE e == OwnEnd(m, conn[m])
    <3>1. e \in End
      BY <1>0, <2>2 DEF Show
    <3>2. Inboxes' /\ Head(inbox[e]) \in Message
      BY <1>0, <2>2, <3>1, ReadInboxes DEF Show
    <3>3. Head(inbox[e]).of \in Request
      BY <3>2 DEF Message, Response
    <3> QED BY <2>2, <3>2, <3>3 DEF Show, TypeOK, Inboxes
  <2>3. ASSUME NEW key \in Key \cup {AutoReject}, Answer(m, key) PROVE TypeOK'
    <3> DEFINE a == [of |-> asked[m], action |-> key[1], remember |-> key[2]]
    <3>0. key[1] \in Action /\ key[2] \in BOOLEAN
      <4>1. CASE key \in Key
        BY <4>1, AskAssumption
      <4>2. CASE key = AutoReject
        BY <4>2 DEF AutoReject, Action
      <4> QED BY <4>1, <4>2
    <3>1. a \in Response /\ a \in Message
      BY <2>3, <3>0 DEF Answer, Response, Message, TypeOK
    <3>2. Inboxes' /\ open' \subseteq End
      BY <1>0, <2>3, <3>1, WriteInboxes, CloseInboxes DEF Answer, Drop, Inboxes
    <3> QED BY <2>3, <3>1, <3>2 DEF Answer, Write, Drop, TypeOK, Inboxes
  <2>4. CASE ConnectionClosed(m)
    <3>1. CASE Drop(m) /\ NoPath /\ NoTraffic /\ UNCHANGED <<monitors, crossed>>
      BY <1>0, <3>1, CloseInboxes DEF Drop, TypeOK, Inboxes
    <3>2. CASE Gone(m) /\ UNCHANGED sock
      BY <1>0, <3>2, CloseInboxes, PCs DEF Gone, TypeOK, Inboxes
    <3> QED BY <2>4, <3>1, <3>2 DEF ConnectionClosed
  <2>5. CASE Quit(m)
    BY <1>0, <2>5, CloseInboxes, PCs DEF Quit, Gone, TypeOK, Inboxes
  <2> QED BY <1>10, <2>1, <2>2, <2>3, <2>4, <2>5 DEF Watch, Reply
<1>11. ASSUME NEW m \in Monitor, Interrupt(m) PROVE TypeOK'
  <2>1. Inboxes' /\ open' \subseteq End
    BY <1>0, <1>11, CloseInboxes DEF Interrupt
  <2>2. pc' \in [Party -> PC]
    BY <1>11, GoType, PCs DEF Interrupt
  <2> QED BY <1>11, <2>1, <2>2 DEF Interrupt, Unlisten, TypeOK, Inboxes
<1>12. CASE UNCHANGED vars
  BY <1>12 DEF vars, TypeOK
<1> QED
  BY <1>1, <1>2, <1>3, <1>4, <1>5, <1>6, <1>7, <1>8, <1>9, <1>10, <1>11, <1>12 DEF Next

\* Every reachable state has its declared types, no socket buffer above its
\* capacity.
THEOREM TypeCorrect == Spec => []TypeOK
  BY InitTypeOK, NextTypeOK, PTL DEF Spec

-----------------------------------------------------------------------------
(* The invariant *)

Early == {"idle", "look", "register"}

\* A request has no channel before it registers.
Fresh == \A r \in Request : rpc[r] \in Early => r \notin pending /\ Takers(r) = {}

\* Whose connections a party's variables name.
Linked ==
  /\ \A e \in open : peer[e[1]] # None
  /\ \A s \in Session : \A c \in monitors[s] : peer[c] = s
  /\ \A r \in Request : \A c \in targets[r] : peer[c] = r[1]
  /\ \A s \in Session : enc[s] # None => enc[s][1] = s
  /\ \A s \in Session : conn[s] # None => conn[s][1] = s
  /\ \A m \in Monitor : conn[m] # None => conn[m][1] = m \/ peer[conn[m]] = m
  /\ \A p \in Party : conn[p] # None => peer[conn[p]] # None
  /\ \A m \in Monitor : pc[m] \in StartPC => conn[m] = None
  /\ ~crossed => \A c \in Conn : ~({c[1], peer[c]} \subseteq Session)

\* What may be on its way to an end: to a monitor a question of the session at
\* the other end, and to a session, unless sessions talk to each other, an
\* answer to a request of its own.
Proper(e, m) ==
  /\ Owner(e) \in Monitor => m.action = "ask" /\ m.of[1] = Owner(Other(e))
  /\ Owner(e) \in Session /\ ~crossed => m \in answers /\ m.of[1] = Owner(e)

Traffic ==
  /\ \A e \in End : \A i \in 1..Len(inbox[e]) : Proper(e, inbox[e][i])
  /\ \A e \in End : peer[e[1]] = None => inbox[e] = <<>>
  /\ \A m \in Monitor : asked[m] # None =>
       conn[m] # None /\ asked[m][1] = Owner(Other(OwnEnd(m, conn[m])))

\* What a request can receive is an answer to it.
Answered ==
  ~crossed =>
    /\ \A e \in End : hold[e] # None => hold[e] \in answers
    /\ \A r \in Request : reply[r] # None => reply[r] \in answers /\ reply[r].of = r

IInv == /\ TypeOK /\ Fresh /\ OneCloser /\ Linked /\ Traffic /\ Answered
        /\ AllowedByAnswer /\ RememberedByAnswer

-----------------------------------------------------------------------------
(* Steps that leave a part of the invariant alone *)

QuietLinks ==
  /\ open' \subseteq open /\ peer' = peer /\ crossed' = crossed /\ enc' = enc
  /\ \A s \in Session : monitors'[s] \subseteq monitors[s]
  /\ \A r \in Request : targets'[r] \subseteq targets[r]
  /\ \A p \in Party : conn'[p] \in {conn[p], None}
  /\ \A m \in Monitor : pc'[m] \in StartPC => pc[m] \in StartPC

QuietChannels ==
  /\ hold' = hold /\ chan' = chan /\ reply' = reply /\ pending' \subseteq pending
  /\ \A r \in Request : rpc'[r] \in Early => rpc[r] \in Early

QuietTraffic ==
  /\ peer' = peer /\ crossed' = crossed /\ answers' = answers
  /\ \A e \in End : inbox'[e] \in {inbox[e], <<>>}
  /\ \A m \in Monitor : asked'[m] # None => asked'[m] = asked[m] /\ conn'[m] = conn[m]

Monotone == answers \subseteq answers' /\ (crossed => crossed')

QuietVerdicts ==
  /\ Monotone
  /\ \A r \in Request : outcome'[r] \in {outcome[r], "block"}
  /\ cache' = cache
  /\ \A r \in Request : rpc[r] = "done" =>
       rpc'[r] = "done" /\ host'[r] = host[r] /\ outcome'[r] = outcome[r]

LEMMA LinksKept == ASSUME TypeOK, Linked, QuietLinks PROVE Linked'
<1>1. \A s \in Session : s \in Party
  BY DEF Party
<1>2. \A m \in Monitor : m \in Party
  BY DEF Party
<1> QED
  BY <1>1, <1>2 DEF Linked, QuietLinks

LEMMA ChannelsKept ==
  ASSUME Fresh, OneCloser, QuietChannels PROVE Fresh' /\ OneCloser'
<1>1. \A r : Takers(r)' = Takers(r)
  BY DEF QuietChannels, Takers
<1> QED
  BY <1>1 DEF Fresh, OneCloser, QuietChannels

LEMMA OwnersKept ==
  ASSUME peer' = peer
  PROVE  \A e : Owner(e)' = Owner(e) /\ Owner(Other(e))' = Owner(Other(e))
  BY DEF Owner, Other

LEMMA TrafficKept == ASSUME Traffic, QuietTraffic PROVE Traffic'
<1>1. \A e \in End : \A i : i \in 1..Len(inbox'[e]) =>
        i \in 1..Len(inbox[e]) /\ inbox'[e][i] = inbox[e][i]
  BY DEF QuietTraffic
<1>2. \A e, m : Proper(e, m) => Proper(e, m)'
  BY OwnersKept DEF QuietTraffic, Proper
<1> QED
  BY <1>1, <1>2, OwnersKept DEF Traffic, QuietTraffic, OwnEnd

LEMMA AnsweredKept ==
  ASSUME Answered, hold' = hold, reply' = reply, Monotone PROVE Answered'
  BY DEF Answered, Monotone

LEMMA VerdictsKept ==
  ASSUME TypeOK, AllowedByAnswer, RememberedByAnswer, QuietVerdicts
  PROVE  AllowedByAnswer' /\ RememberedByAnswer'
<1>1. AllowedByAnswer'
  BY DEF AllowedByAnswer, AllowedOnlyByAnswer, Approved, QuietVerdicts, Monotone
<1>2. RememberedByAnswer'
  <2>1. ASSUME NEW s \in Session, NEW h \in Host, NEW a \in answers, Remembers(s, h, a)
        PROVE  Remembers(s, h, a)'
    <3>1. a.of \in Request /\ a.of \in Of(s)'
      BY <2>1 DEF Remembers, Of
    <3> QED BY <2>1, <3>1 DEF Remembers, QuietVerdicts
  <2> QED BY <2>1 DEF RememberedByAnswer, QuietVerdicts, Monotone
<1> QED BY <1>1, <1>2

-----------------------------------------------------------------------------
(* The steps that leave everything alone *)

Quiet == QuietLinks /\ QuietChannels /\ QuietTraffic /\ QuietVerdicts

\* The others.
Loud ==
  \/ \E p \in Party : Dial(p)
  \/ \E r \in Request : Look(r) \/ Register(r) \/ Send(r) \/ Receive(r)
  \/ \E s \in Session, e \in End : Decode(s, e) \/ Deliver(s, e)
  \/ \E s \in Session, c \in Conn : AcceptConnections(s, c)
  \/ \E s \in Session : CancelPending(s) \/ Swap(s) \/ Redial(s) \/ CancelOnClose(s)
  \/ \E m \in Monitor, c \in Conn : Accept(m, c)
  \/ \E m \in Monitor : Show(m) \/ Reply(m)

LEMMA QuietStep == ASSUME TypeOK, [Next]_vars PROVE Quiet \/ Loud
<1> USE DEF Quiet, QuietLinks, QuietChannels, QuietTraffic, QuietVerdicts, Monotone
<1>1. ASSUME NEW p \in Party, Start(p) PROVE Quiet \/ Dial(p)
  <2>1. CASE Stat(p)
    BY <2>1 DEF Stat, Go, StartPC, TypeOK, Party
  <2>2. CASE RemoveStale(p)
    BY <2>2 DEF RemoveStale, Go, StartPC, TypeOK, Party
  <2>3. CASE Listen(p)
    BY <2>3 DEF Listen, Go, StartPC, TypeOK, Party
  <2> QED BY <1>1, <2>1, <2>2, <2>3 DEF Start
<1>2. ASSUME NEW p \in Party, Gone(p) PROVE Quiet
  BY <1>2 DEF Gone, Close, StartPC, TypeOK, Party
<1>3. ASSUME NEW r \in Request, Timeout(r) PROVE Quiet
  BY <1>3 DEF Timeout, Reject, At, Early, TypeOK
<1>4. ASSUME NEW r \in Request, NEW h \in Host, Begin(r, h) PROVE Quiet
  BY <1>4 DEF Begin, At, Early, TypeOK
<1>5. ASSUME NEW s \in Session, NEW c \in Conn, LoseMonitor(s, c) PROVE Quiet
  BY <1>5 DEF LoseMonitor, Close
<1>6. ASSUME NEW s \in Session, NEW c \in Conn, RemoveMonitor(s, c) PROVE Quiet
  BY <1>6 DEF RemoveMonitor, TypeOK
<1>7. ASSUME NEW s \in Session, Disconnected(s) PROVE Quiet
  BY <1>7, AskAssumption DEF Disconnected, TypeOK, Party
<1>8. ASSUME NEW s \in Session, Stop(s) PROVE Quiet
  BY <1>8, AskAssumption DEF Stop, Go, StartPC, TypeOK, Party
<1>9. ASSUME NEW s \in Session, CloseMonitors(s) PROVE Quiet
  BY <1>9 DEF CloseMonitors, Close, Go, StartPC, TypeOK, Party
<1>10. ASSUME NEW s \in Session, CloseListener(s) PROVE Quiet
  BY <1>10 DEF CloseListener, Close, Go, StartPC, TypeOK, Party
<1>11. ASSUME NEW s \in Session, RemoveSocket(s) PROVE Quiet
  BY <1>11 DEF RemoveSocket, Go, StartPC, TypeOK, Party
<1>12. ASSUME NEW s \in Session, HangUp(s) PROVE Quiet
  BY <1>12 DEF HangUp, Close, Go, StartPC, TypeOK, Party
<1>13. ASSUME NEW m \in Monitor, TryFileLock(m) PROVE Quiet
  BY <1>13 DEF TryFileLock, Go, StartPC, TypeOK, Party
<1>14. ASSUME NEW m \in Monitor, ConnectionClosed(m) PROVE Quiet
  <2>1. CASE Gone(m)
    BY <1>2, <2>1 DEF Party
  <2>2. CASE Drop(m) /\ UNCHANGED <<monitors, crossed>> /\ NoPath /\ NoTraffic
    BY <1>14, <2>2 DEF ConnectionClosed, Drop, Close, TypeOK, Party
  <2> QED BY <1>14, <2>1, <2>2 DEF ConnectionClosed
<1>15. ASSUME NEW m \in Monitor, Interrupt(m) PROVE Quiet
  BY <1>15 DEF Interrupt, Close, Go, StartPC, TypeOK, Party
<1>16. CASE UNCHANGED vars
  BY <1>16 DEF vars
<1> QED
  BY <1>1, <1>2, <1>3, <1>4, <1>5, <1>6, <1>7, <1>8, <1>9, <1>10, <1>11, <1>12,
     <1>13, <1>14, <1>15, <1>16
  DEF Next, Ask, Respond, CloseServer, Watch, Exit, Crash, Quit, Loud, Party

-----------------------------------------------------------------------------
(* The steps that do not, part by part *)

\* What a new connection does to the links.
LEMMA ConnectLinks ==
  ASSUME TypeOK, Linked, NEW p \in Party, NEW c \in Conn, Connect(p, c),
         UNCHANGED <<monitors, targets>>,
         p \in Session => enc' \in {enc, [enc EXCEPT ![p] = c]},
         p \in Monitor => enc' = enc,
         \A m \in Monitor : pc'[m] \in StartPC => pc[m] \in StartPC /\ m # p
  PROVE  Linked'
<1>0. None \notin Party
  BY AskAssumption
<1>1. /\ c[1] = p /\ peer[c] = None /\ sock \in Party /\ sock # None
      /\ peer' = [peer EXCEPT ![c] = sock]
      /\ conn' = [conn EXCEPT ![p] = c]
      /\ open' = open \cup {<<c, "dial">>, <<c, "listen">>}
  BY <1>0 DEF Connect, TypeOK
<1>2. \A d \in Conn : peer'[d] = IF d = c THEN sock ELSE peer[d]
  BY <1>1 DEF TypeOK
<1>3. \A e \in open' : peer'[e[1]] # None
  BY <1>1, <1>2 DEF Linked, TypeOK, End
<1>4. /\ \A s \in Session : \A d \in monitors'[s] : peer'[d] = s
      /\ \A r \in Request : \A d \in targets'[r] : peer'[d] = r[1]
  <2>1. \A s \in Session : s # None
    BY AskAssumption DEF Party
  <2>2. \A r \in Request : r[1] \in Session
    BY DEF Request
  <2> QED BY <1>1, <1>2, <2>1, <2>2 DEF Linked, TypeOK
<1>5. \A s \in Session : enc'[s] # None => enc'[s][1] = s
  <2>1. CASE enc' = enc
    BY <2>1 DEF Linked
  <2>2. CASE p \in Session /\ enc' = [enc EXCEPT ![p] = c]
    BY <1>1, <2>2 DEF Linked, TypeOK
  <2> QED BY <2>1, <2>2 DEF Party
<1>6. /\ \A s \in Session : conn'[s] # None => conn'[s][1] = s
      /\ \A m \in Monitor : conn'[m] # None => conn'[m][1] = m \/ peer'[conn'[m]] = m
      /\ \A q \in Party : conn'[q] # None => peer'[conn'[q]] # None
  <2>1. \A q \in Party : conn'[q] = IF q = p THEN c ELSE conn[q]
    BY <1>1 DEF TypeOK
  <2>2. \A q \in Party : conn[q] # None => conn[q] # c /\ conn[q] \in Conn
    BY <1>1 DEF TypeOK, Linked
  <2>3. \A q \in Session \cup Monitor : q \in Party
    BY DEF Party
  <2> QED BY <1>1, <1>2, <2>1, <2>2, <2>3 DEF Linked
<1>7. \A m \in Monitor : pc'[m] \in StartPC => conn'[m] = None
  BY <1>1 DEF Linked, TypeOK, Party
<1>8. ~crossed' => \A d \in Conn : ~({d[1], peer'[d]} \subseteq Session)
  <2>1. ~crossed' => ~crossed /\ ~({p, sock} \subseteq Session)
    BY Zenon DEF Connect
  <2> QED BY <1>1, <1>2, <2>1 DEF Linked
<1> QED
  BY <1>3, <1>4, <1>5, <1>6, <1>7, <1>8 DEF Linked

LEMMA LoudLinks == ASSUME TypeOK, Linked, Loud PROVE Linked'
<1>1. ASSUME NEW p \in Party, Dial(p) PROVE Linked'
  <2>1. CASE UNCHANGED <<netVars, link, clientVars, crossed>>
    BY <1>1, <2>1, LinksKept DEF Dial, Go, StartPC, QuietLinks, TypeOK, Party
  <2>2. ASSUME NEW c \in Conn, Connect(p, c), Go(p, "dial", "client"),
               IF p \in Session
               THEN /\ enc' = [enc EXCEPT ![p] = c]
                    /\ reader' = [reader EXCEPT ![p] = "reading"]
               ELSE UNCHANGED <<enc, reader>>
        PROVE  Linked'
    BY <1>1, <2>2, ConnectLinks, AskAssumption DEF Dial, Go, StartPC, TypeOK, Party
  <2> QED BY <1>1, <2>1, <2>2 DEF Dial
<1>2. ASSUME NEW s \in Session, Redial(s) PROVE Linked'
  BY <1>2, ConnectLinks, AskAssumption DEF Redial, StartPC, TypeOK, Party
<1>3. ASSUME NEW s \in Session, NEW c \in Conn, AcceptConnections(s, c) PROVE Linked'
  BY <1>3 DEF AcceptConnections, Backlog, Linked, TypeOK
<1>4. ASSUME NEW m \in Monitor, NEW c \in Conn, Accept(m, c) PROVE Linked'
  <2>0. m \in Party /\ m \notin Session /\ None \notin Party
    BY AskAssumption DEF Party
  <2>1. /\ conn' = [conn EXCEPT ![m] = c] /\ peer[c] = m /\ pc[m] = "server"
        /\ UNCHANGED <<open, peer, monitors, targets, enc, pc, crossed>>
    BY <1>4 DEF Accept, Backlog
  <2>2. \A q \in Party : conn'[q] = IF q = m THEN c ELSE conn[q]
    BY <2>1 DEF TypeOK
  <2>3. \A q \in Session \cup Monitor : q \in Party
    BY DEF Party
  <2>4. "server" \notin StartPC
    BY DEF StartPC
  <2> QED BY <2>0, <2>1, <2>2, <2>3, <2>4 DEF Linked
<1>5. ASSUME NEW r \in Request, Look(r) PROVE Linked'
  <2> DEFINE copy == IF IsServer(r[1]) THEN monitors[r[1]] ELSE {}
  <2>1. r[1] \in Session /\ \A d \in copy : peer[d] = r[1]
    BY DEF Request, Linked
  <2>2. targets' = targets \/ targets' = [targets EXCEPT ![r] = copy]
    BY <1>5, Zenon DEF Look
  <2>3. UNCHANGED <<open, peer, monitors, enc, conn, pc, crossed>>
    BY <1>5, Zenon DEF Look
  <2> HIDE DEF copy
  <2>4. \A q \in Request : \A d \in targets'[q] : peer[d] = q[1]
    BY <2>1, <2>2 DEF Linked, TypeOK
  <2> QED BY <2>3, <2>4 DEF Linked
<1>6. ASSUME NEW s \in Session, Swap(s) PROVE Linked'
  <2>1. conn[s] # None => conn[s][1] = s
    BY DEF Linked
  <2> QED BY <1>6, <2>1 DEF Swap, Linked, TypeOK
<1>7. ASSUME NEW r \in Request, Register(r) \/ Receive(r) PROVE QuietLinks
  BY <1>7 DEF Register, Receive, QuietLinks
<1>8. ASSUME NEW r \in Request, Send(r) PROVE QuietLinks
  <2>1. CASE SendAsClient(r)
    BY <2>1 DEF SendAsClient, Write, QuietLinks
  <2>2. ASSUME NEW c \in Conn, SendToMonitor(r, c) PROVE QuietLinks
    BY <2>2 DEF SendToMonitor, Write, QuietLinks, TypeOK
  <2> QED BY <1>8, <2>1, <2>2 DEF Send
<1>9. ASSUME NEW s \in Session, NEW e \in End, Decode(s, e) \/ Deliver(s, e)
      PROVE  QuietLinks
  BY <1>9 DEF Decode, Deliver, QuietLinks
<1>10. ASSUME NEW s \in Session, CancelPending(s) \/ CancelOnClose(s) PROVE QuietLinks
  BY <1>10 DEF CancelPending, CancelOnClose, Go, StartPC, QuietLinks, TypeOK, Party
<1>11. ASSUME NEW m \in Monitor, Show(m) \/ Reply(m) PROVE QuietLinks
  BY <1>11 DEF Show, Reply, Answer, Write, Drop, Close, QuietLinks, TypeOK, Party
<1> QED
  BY <1>1, <1>2, <1>3, <1>4, <1>5, <1>6, <1>7, <1>8, <1>9, <1>10, <1>11, LinksKept
  DEF Loud

\* Closing everything in s.pending takes all of it out of the map.
LEMMA CancelChannels ==
  ASSUME TypeOK, Fresh, OneCloser, NEW s, CancelAll(s), rpc' = rpc
  PROVE  Fresh' /\ OneCloser'
<1>1. \A r : Takers(r)' = Takers(r)
  BY DEF CancelAll, Takers
<1>2. \A r \in Request : /\ r \in pending' => r \in pending /\ r[1] # s
                         /\ chan'[r] = IF r \in pending /\ r[1] = s THEN "closed" ELSE chan[r]
  BY DEF CancelAll, Of
<1> QED
  BY <1>1, <1>2 DEF Fresh, OneCloser

LEMMA LoudChannels ==
  ASSUME TypeOK, Fresh, OneCloser, Loud PROVE Fresh' /\ OneCloser'
<1>1. ASSUME NEW p \in Party, Dial(p) PROVE QuietChannels
  BY <1>1 DEF Dial, QuietChannels
<1>2. ASSUME NEW r \in Request, Look(r) PROVE QuietChannels
  BY <1>2 DEF Look, Reject, At, Early, QuietChannels, TypeOK
<1>3. ASSUME NEW r \in Request, Register(r) PROVE Fresh' /\ OneCloser'
  <2>1. r \notin pending /\ Takers(r) = {}
    BY <1>3 DEF Register, At, Fresh, Early
  <2>2. \A q : Takers(q)' = Takers(q)
    BY <1>3 DEF Register, Takers
  <2>3. \A q \in Request : /\ q \in pending' <=> q \in pending \/ q = r
                           /\ chan'[q] = IF q = r THEN "open" ELSE chan[q]
                           /\ rpc'[q] = IF q = r THEN "send" ELSE rpc[q]
    BY <1>3 DEF Register, At, TypeOK
  <2>4. "send" \notin Early
    BY DEF Early
  <2> QED BY <2>1, <2>2, <2>3, <2>4 DEF Fresh, OneCloser
<1>4. ASSUME NEW r \in Request, Send(r) PROVE QuietChannels
  <2>1. CASE SendAsClient(r)
    BY <2>1 DEF SendAsClient, Reject, At, Early, QuietChannels, TypeOK
  <2>2. ASSUME NEW c \in Conn, SendToMonitor(r, c) PROVE QuietChannels
    BY <2>2 DEF SendToMonitor, At, Early, QuietChannels, TypeOK
  <2> QED BY <1>4, <2>1, <2>2 DEF Send
<1>5. ASSUME NEW r \in Request, Receive(r) PROVE QuietChannels
  BY <1>5 DEF Receive, At, Early, QuietChannels, TypeOK
<1>6. ASSUME NEW s \in Session, NEW e \in End, Decode(s, e) PROVE Fresh' /\ OneCloser'
  <2> DEFINE r == <<s, Head(inbox[e]).of[2]>>
             m == [Head(inbox[e]) EXCEPT !.of = r]
  <2>0. hold[e] = None /\ chan' = chan /\ rpc' = rpc
    BY <1>6 DEF Decode
  <2>1. CASE r \in pending
    <3>1. pending' = pending \ {r} /\ hold' = [hold EXCEPT ![e] = m]
      BY <1>6, <2>1 DEF Decode
    <3>2. Head(inbox[e]) \in Message
      BY <1>6, Typed, ReadInboxes DEF Decode
    <3>3. m # None /\ m.of = r /\ r \in Request
      <4>1. r \in Request
        BY <2>1 DEF TypeOK
      <4>2. m \in Message /\ m.of = r
        BY <3>2, <4>1 DEF Message, Response
      <4> QED BY <4>1, <4>2, AskAssumption
    <3> HIDE DEF r, m
    <3>4. \A d \in End : hold'[d] = IF d = e THEN m ELSE hold[d]
      BY <3>1 DEF TypeOK
    <3>5. \A q : Takers(q)' = IF q = r THEN Takers(q) \cup {e} ELSE Takers(q)
      BY <2>0, <3>3, <3>4 DEF Takers
    <3>6. Takers(r) = {} /\ chan[r] = "open" /\ rpc[r] \notin Early
      BY <2>1, <3>3 DEF OneCloser, Fresh
    <3> QED BY <2>0, <3>1, <3>3, <3>5, <3>6 DEF OneCloser, Fresh
  <2>2. CASE r \notin pending
    BY <1>6, <2>0, <2>2, ChannelsKept DEF Decode, QuietChannels
  <2> QED BY <2>1, <2>2
<1>7. ASSUME NEW s \in Session, NEW e \in End, Deliver(s, e) PROVE Fresh' /\ OneCloser'
  <2> DEFINE r == hold[e].of
  <2>1. /\ hold[e] # None /\ pending' = pending /\ rpc' = rpc
        /\ chan' = [chan EXCEPT ![r] = "closed"]
        /\ hold' = [hold EXCEPT ![e] = None]
    BY <1>7 DEF Deliver
  <2>2. r \in Request /\ e \in Takers(r)
    BY <2>1 DEF Takers, TypeOK, Message, Response
  <2>3. r \notin pending /\ Takers(r) = {e}
    BY <2>2 DEF OneCloser
  <2>4. \A q : Takers(q)' = Takers(q) \ {e}
    BY <2>1 DEF Takers, TypeOK
  <2>5. \A q \in Request \ {r} : chan'[q] = chan[q]
    BY <2>1 DEF TypeOK
  <2> HIDE DEF r
  <2> QED BY <2>1, <2>2, <2>3, <2>4, <2>5 DEF OneCloser, Fresh
<1>8. ASSUME NEW s \in Session, NEW c \in Conn, AcceptConnections(s, c) PROVE QuietChannels
  BY <1>8 DEF AcceptConnections, QuietChannels
<1>9. ASSUME NEW s \in Session, CancelPending(s) \/ CancelOnClose(s)
      PROVE  Fresh' /\ OneCloser'
  BY <1>9, CancelChannels DEF CancelPending, CancelOnClose
<1>10. ASSUME NEW s \in Session, Swap(s) \/ Redial(s) PROVE QuietChannels
  BY <1>10 DEF Swap, Redial, QuietChannels
<1>11. ASSUME NEW m \in Monitor, NEW c \in Conn, Accept(m, c) PROVE QuietChannels
  BY <1>11 DEF Accept, QuietChannels
<1>12. ASSUME NEW m \in Monitor, Show(m) \/ Reply(m) PROVE QuietChannels
  BY <1>12 DEF Show, Reply, Answer, QuietChannels
<1> QED
  BY <1>1, <1>2, <1>3, <1>4, <1>5, <1>6, <1>7, <1>8, <1>9, <1>10, <1>11, <1>12,
     ChannelsKept DEF Loud

\* The prompts of monitors, and what they show, stay as they are, or end.
PromptsKept ==
  \A m \in Monitor : asked'[m] # None => asked'[m] = asked[m] /\ conn'[m] = conn[m]

\* What was proper to send stays so.
LEMMA ProperKept ==
  ASSUME peer' = peer, crossed' = crossed, answers \subseteq answers',
         NEW e, NEW m, Proper(e, m)
  PROVE  Proper(e, m)'
  BY OwnersKept DEF Proper

LEMMA PromptTraffic ==
  ASSUME Traffic, peer' = peer, PromptsKept
  PROVE  \A m \in Monitor : asked'[m] # None =>
           conn'[m] # None /\ asked'[m][1] = Owner(Other(OwnEnd(m, conn[m])))'
<1> SUFFICES ASSUME NEW m \in Monitor, asked'[m] # None
             PROVE  conn'[m] # None /\ asked'[m][1] = Owner(Other(OwnEnd(m, conn[m])))'
  OBVIOUS
<1>1. conn[m] # None /\ asked[m][1] = Owner(Other(OwnEnd(m, conn[m])))
  BY DEF PromptsKept, Traffic
<1>2. conn'[m] = conn[m] /\ asked'[m] = asked[m]
  BY DEF PromptsKept
<1> QED BY <1>1, <1>2 DEF Owner, Other, OwnEnd

\* Inboxes emptied, and answers added, keep what is on its way proper.
LEMMA EmptiedTraffic ==
  ASSUME Traffic, peer' = peer, crossed' = crossed, answers \subseteq answers',
         PromptsKept, \A e \in End : inbox'[e] \in {inbox[e], <<>>}
  PROVE  Traffic'
<1>1. ASSUME NEW e \in End, NEW i \in 1..Len(inbox'[e]) PROVE Proper(e, inbox[e][i])'
  <2>1. PICK x : x = inbox'[e][i]
    OBVIOUS
  <2>2. i \in 1..Len(inbox[e]) /\ x = inbox[e][i]
    BY <2>1
  <2>3. Proper(e, x)'
    BY <2>2, ProperKept DEF Traffic
  <2> QED BY <2>1, <2>3 DEF Proper
<1> QED BY <1>1, PromptTraffic DEF Traffic

LEMMA WriteTraffic ==
  ASSUME TypeOK, Linked, Traffic, NEW e, NEW m \in Message, Write(e, m),
         peer' = peer, crossed' = crossed, answers \subseteq answers',
         Proper(Other(e), m)', PromptsKept
  PROVE  Traffic'
<1>1. e \in End /\ Other(e) \in End
  BY Typed, UpEnd DEF Write
<1>2. \A d \in End : inbox'[d] = IF d = Other(e) THEN Append(inbox[d], m) ELSE inbox[d]
  BY <1>1, Typed DEF Write, Inboxes
<1>3. ASSUME NEW d \in End, NEW i \in 1..Len(inbox'[d]) PROVE Proper(d, inbox[d][i])'
  <2>1. PICK x : x = inbox'[d][i]
    OBVIOUS
  <2>2. inbox[d] \in Seq(Message)
    BY Typed DEF Inboxes
  <2>3. \/ i \in 1..Len(inbox[d]) /\ inbox[d][i] = x
        \/ d = Other(e) /\ x = m
    <3>1. CASE d = Other(e)
      <4>1. inbox'[d] = Append(inbox[d], m)
        BY <1>2, <3>1
      <4> QED BY <2>1, <2>2, <3>1, <4>1
    <3>2. CASE d # Other(e)
      BY <1>2, <2>1, <3>2
    <3> QED BY <3>1, <3>2
  <2>4. d = Other(e) /\ x = m => Proper(d, x)'
    OBVIOUS
  <2>5. i \in 1..Len(inbox[d]) /\ inbox[d][i] = x => Proper(d, x)'
    BY ProperKept DEF Traffic
  <2>6. Proper(d, x)'
    BY <2>3, <2>4, <2>5
  <2> QED BY <2>1, <2>6 DEF Proper
<1>4. peer[Other(e)[1]] # None
  BY DEF Write, Up, Linked
<1>5. \A d \in End : peer'[d[1]] = None => inbox'[d] = <<>>
  BY <1>2, <1>4 DEF Traffic
<1> QED
  BY <1>3, <1>5, PromptTraffic DEF Traffic, PromptsKept

LEMMA ReadTraffic ==
  ASSUME TypeOK, Traffic, NEW e \in End, inbox[e] # <<>>,
         inbox' = [inbox EXCEPT ![e] = Tail(@)],
         peer' = peer, crossed' = crossed, answers' = answers
  PROVE  /\ \A d \in End : \A i \in 1..Len(inbox'[d]) : Proper(d, inbox[d][i])'
         /\ \A d \in End : peer'[d[1]] = None => inbox'[d] = <<>>
         /\ Proper(e, Head(inbox[e]))
<1>1. \A d \in End : inbox'[d] = IF d = e THEN Tail(inbox[d]) ELSE inbox[d]
  BY Typed DEF Inboxes
<1>2. inbox[e] \in Seq(Message)
  BY Typed DEF Inboxes
<1>3. Head(inbox[e]) = inbox[e][1] /\ 1 \in 1..Len(inbox[e])
  BY <1>2
<1>4. ASSUME NEW d \in End, NEW i \in 1..Len(inbox'[d]) PROVE Proper(d, inbox[d][i])'
  <2>1. PICK x : x = inbox'[d][i]
    OBVIOUS
  <2>2. \E j \in 1..Len(inbox[d]) : inbox[d][j] = x
    <3>1. CASE d = e
      BY <1>1, <1>2, <2>1, <3>1
    <3>2. CASE d # e
      BY <1>1, <2>1, <3>2
    <3> QED BY <3>1, <3>2
  <2>3. Proper(d, x)'
    BY <2>2, ProperKept DEF Traffic
  <2> QED BY <2>1, <2>3 DEF Proper
<1>5. \A d \in End : peer'[d[1]] = None => inbox'[d] = <<>>
  BY <1>1 DEF Traffic
<1> QED BY <1>3, <1>4, <1>5 DEF Traffic

\* The ends of a new connection are empty, and no prompt is about it.
LEMMA ConnectTraffic ==
  ASSUME TypeOK, Linked, Traffic, NEW p \in Party, NEW c \in Conn, Connect(p, c),
         UNCHANGED <<inbox, asked, answers>>, p \in Monitor => asked[p] = None
  PROVE  Traffic'
<1>1. /\ peer[c] = None /\ sock # None
      /\ peer' = [peer EXCEPT ![c] = sock]
      /\ conn' = [conn EXCEPT ![p] = c]
  <2>1. None \notin Party
    BY AskAssumption
  <2> QED BY <2>1 DEF Connect, TypeOK
<1>2. \A d \in Conn : peer'[d] = IF d = c THEN sock ELSE peer[d]
  BY <1>1 DEF TypeOK
<1>3. crossed => crossed'
  BY Zenon DEF Connect
<1>4. ASSUME NEW e \in End, e[1] # c
      PROVE  /\ Owner(e)' = Owner(e) /\ Owner(Other(e))' = Owner(Other(e))
             /\ \A m : Proper(e, m) => Proper(e, m)'
  <2>1. e[1] \in Conn
    BY DEF End
  <2>2. Owner(e)' = Owner(e) /\ Owner(Other(e))' = Owner(Other(e))
    BY <1>2, <1>4, <2>1 DEF Owner, Other
  <2> QED BY <1>3, <2>2 DEF Proper
<1>5. \A e \in End : e[1] = c => inbox[e] = <<>>
  BY <1>1 DEF Traffic
<1>6. ASSUME NEW e \in End, NEW i \in 1..Len(inbox'[e]) PROVE Proper(e, inbox[e][i])'
  <2>1. PICK x : x = inbox'[e][i]
    OBVIOUS
  <2>2. e[1] # c /\ x = inbox[e][i]
    BY <1>5, <2>1
  <2>3. Proper(e, x)'
    BY <1>4, <2>2 DEF Traffic
  <2> QED BY <2>1, <2>3 DEF Proper
<1>7. \A e \in End : peer'[e[1]] = None => inbox'[e] = <<>>
  BY <1>1, <1>2 DEF Traffic, End
<1>8. ASSUME NEW m \in Monitor, asked'[m] # None
      PROVE  conn'[m] # None /\ asked'[m][1] = Owner(Other(OwnEnd(m, conn[m])))'
  <2>1. m # p /\ conn'[m] = conn[m]
    BY <1>1, <1>8 DEF TypeOK, Party
  <2>2. conn[m] # None /\ asked[m][1] = Owner(Other(OwnEnd(m, conn[m])))
    BY <1>8 DEF Traffic
  <2>3. conn[m] \in Conn /\ conn[m] # c
    BY <1>1, <2>2 DEF TypeOK, Linked, Party
  <2>4. OwnEnd(m, conn[m]) \in End /\ OwnEnd(m, conn[m])[1] # c
    BY <2>3, OwnEndType
  <2> QED BY <1>4, <2>1, <2>2, <2>4 DEF OwnEnd
<1> QED BY <1>6, <1>7, <1>8 DEF Traffic

\* The end a monitor reads at is its own, and the session is at the other.
LEMMA MonitorEnd ==
  ASSUME TypeOK, Linked, NEW m \in Monitor, conn[m] # None
  PROVE  Owner(OwnEnd(m, conn[m])) = m
  BY DEF Linked, Owner, OwnEnd

LEMMA LoudTraffic == ASSUME TypeOK, Linked, Traffic, Loud PROVE Traffic'
<1> USE DEF QuietTraffic
<1>1. ASSUME NEW p \in Party, Dial(p) PROVE Traffic'
  <2>1. CASE UNCHANGED <<netVars, link, clientVars, crossed>>
    BY <1>1, <2>1, TrafficKept DEF Dial
  <2>2. ASSUME NEW c \in Conn, Connect(p, c), pc[p] = "dial" PROVE Traffic'
    <3>1. p \in Monitor => asked[p] = None
      BY <2>2 DEF Linked, Traffic, StartPC
    <3> QED BY <1>1, <2>2, <3>1, ConnectTraffic DEF Dial, Connect
  <2> QED BY <1>1, <2>1, <2>2 DEF Dial, Go
<1>2. ASSUME NEW s \in Session, Redial(s) PROVE Traffic'
  <2>1. s \in Party /\ s \notin Monitor
    BY AskAssumption DEF Party
  <2> QED BY <1>2, <2>1, ConnectTraffic DEF Redial
<1>3. ASSUME NEW s \in Session, NEW c \in Conn, AcceptConnections(s, c) PROVE QuietTraffic
  BY <1>3 DEF AcceptConnections
<1>4. ASSUME NEW m \in Monitor, NEW c \in Conn, Accept(m, c) PROVE QuietTraffic
  BY <1>4 DEF Accept, Traffic, TypeOK, Party
<1>5. ASSUME NEW r \in Request, Look(r) \/ Register(r) \/ Receive(r) PROVE QuietTraffic
  BY <1>5 DEF Look, Register, Receive
<1>6. ASSUME NEW s \in Session, Swap(s) \/ CancelPending(s) \/ CancelOnClose(s)
      PROVE  QuietTraffic
  BY <1>6 DEF Swap, CancelPending, CancelOnClose
<1>7. ASSUME NEW r \in Request, Send(r) PROVE Traffic'
  <2>0. Question(r) \in Message /\ r[1] \in Session /\ r[1] \notin Monitor
    BY AskAssumption DEF Question, Message, Response, Request
  <2>1. CASE SendAsClient(r)
    <3> DEFINE e == <<enc[r[1]], "dial">>
    <3>1. CASE Write(e, Question(r)) /\ UNCHANGED <<peer, open>>
      <4>1. e \in End
        BY <3>1, Typed, UpEnd DEF Write
      <4>2. enc[r[1]] # None => Owner(e) = r[1]
        BY <2>0 DEF Owner, Linked
      <4>3. enc[r[1]] # None
        BY <4>1, AskAssumption DEF End
      <4>4. Owner(e) = r[1] /\ Other(Other(e)) = e /\ Other(e) = <<e[1], "listen">>
        BY <4>2, <4>3 DEF Other
      <4>5. ~crossed => Owner(Other(e)) \notin Session
        BY <2>0, <4>1, <4>4 DEF Linked, Owner, End
      <4>6. Proper(Other(e), Question(r))
        BY <4>4, <4>5 DEF Proper, Question
      <4>7. Proper(Other(e), Question(r))'
        BY <2>1, <3>1, <4>6 DEF SendAsClient, Proper, Owner, Other
      <4> QED
        BY <2>0, <2>1, <3>1, <4>7, WriteTraffic DEF SendAsClient, PromptsKept
    <3>2. CASE UNCHANGED netVars
      BY <2>1, <3>2, TrafficKept DEF SendAsClient
    <3> QED BY <2>1, <3>1, <3>2 DEF SendAsClient
  <2>2. ASSUME NEW c \in Conn, SendToMonitor(r, c) PROVE Traffic'
    <3> DEFINE e == <<c, "listen">>
    <3>1. CASE Write(e, Question(r)) /\ UNCHANGED <<peer, open>>
      <4>1. peer[c] = r[1]
        BY <2>2 DEF SendToMonitor, Linked
      <4>2. Other(e) = <<c, "dial">> /\ Owner(Other(e)) = c[1] /\ Owner(Other(Other(e))) = r[1]
        BY <4>1 DEF Other, Owner
      <4>3. ~crossed => c[1] \notin Session
        BY <2>0, <4>1 DEF Linked
      <4>4. Proper(Other(e), Question(r))
        BY <4>2, <4>3 DEF Proper, Question
      <4>5. Proper(Other(e), Question(r))'
        BY <2>2, <3>1, <4>4 DEF SendToMonitor, Proper, Owner, Other
      <4> QED
        BY <2>0, <2>2, <3>1, <4>5, WriteTraffic DEF SendToMonitor, PromptsKept
    <3>2. CASE UNCHANGED netVars
      BY <2>2, <3>2, TrafficKept DEF SendToMonitor
    <3> QED BY <2>2, <3>1, <3>2 DEF SendToMonitor
  <2> QED BY <1>7, <2>1, <2>2 DEF Send
<1>8. ASSUME NEW s \in Session, NEW e \in End, Decode(s, e) PROVE Traffic'
  <2>1. /\ inbox[e] # <<>> /\ inbox' = [inbox EXCEPT ![e] = Tail(@)]
        /\ UNCHANGED <<peer, crossed, answers, asked, conn>>
    BY <1>8 DEF Decode
  <2>2. PromptsKept
    BY <2>1 DEF PromptsKept
  <2> QED BY <2>1, <2>2, ReadTraffic, PromptTraffic DEF Traffic
<1>9. ASSUME NEW s \in Session, NEW e \in End, Deliver(s, e) PROVE QuietTraffic
  BY <1>9 DEF Deliver
<1>10. ASSUME NEW m \in Monitor, Show(m) PROVE Traffic'
  <2> DEFINE e == OwnEnd(m, conn[m])
  <2>1. /\ inbox[e] # <<>> /\ inbox' = [inbox EXCEPT ![e] = Tail(@)]
        /\ asked' = [asked EXCEPT ![m] = Head(inbox[e]).of]
        /\ conn[m] # None /\ e \in End
        /\ UNCHANGED <<peer, crossed, answers, conn>>
    BY <1>10, Typed DEF Show
  <2>2. Owner(e) = m
    BY <2>1, MonitorEnd
  <2>3. Proper(e, Head(inbox[e]))
    BY <2>1, ReadTraffic
  <2>4. asked'[m][1] = Owner(Other(e))
    BY <2>1, <2>2, <2>3 DEF Proper, TypeOK
  <2>5. ASSUME NEW n \in Monitor, asked'[n] # None
        PROVE  conn'[n] # None /\ asked'[n][1] = Owner(Other(OwnEnd(n, conn[n])))'
    <3>1. conn'[n] # None /\ asked'[n][1] = Owner(Other(OwnEnd(n, conn[n])))
      BY <2>1, <2>4, <2>5 DEF Traffic, TypeOK
    <3> QED BY <2>1, <3>1 DEF Owner, Other, OwnEnd
  <2> QED BY <2>1, <2>5, ReadTraffic DEF Traffic
<1>11. ASSUME NEW m \in Monitor, NEW key \in Key \cup {AutoReject}, Answer(m, key)
       PROVE  Traffic'
  <2> DEFINE e == OwnEnd(m, conn[m])
             a == [of |-> asked[m], action |-> key[1], remember |-> key[2]]
  <2>0. /\ asked[m] # None /\ asked' = [asked EXCEPT ![m] = None]
        /\ answers' = answers \cup {a} /\ crossed' = crossed
    BY <1>11 DEF Answer
  <2>1. CASE Write(e, a) /\ UNCHANGED <<peer, open, link, clientVars>>
    <3>1. conn[m] # None /\ asked[m][1] = Owner(Other(e)) /\ asked[m] \in Request
      BY <2>0 DEF Traffic, TypeOK
    <3>2. Owner(Other(e)) \in Session /\ Owner(Other(e)) \notin Monitor
      BY <3>1, AskAssumption DEF Request
    <3>3. a \in Message
      <4>1. key[1] \in Action /\ key[2] \in BOOLEAN
        <5>1. CASE key \in Key
          BY <5>1, AskAssumption
        <5>2. CASE key = AutoReject
          BY <5>2 DEF AutoReject, Action
        <5> QED BY <5>1, <5>2
      <4> QED BY <3>1, <4>1 DEF Message, Response
    <3>4. PICK x : x = a
      OBVIOUS
    <3>5. PICK d : d = e
      OBVIOUS
    <3>6. Owner(Other(d))' = Owner(Other(d))
      BY <2>1, OwnersKept
    <3>7. Proper(Other(d), x)'
      BY <2>0, <3>1, <3>2, <3>4, <3>5, <3>6 DEF Proper
    <3>8. PromptsKept
      BY <2>0, <2>1 DEF PromptsKept, TypeOK
    <3> QED
      BY <2>0, <2>1, <3>3, <3>4, <3>5, <3>7, <3>8, WriteTraffic
  <2>2. CASE Drop(m)
    <3>1. /\ peer' = peer /\ crossed' = crossed /\ answers \subseteq answers'
          /\ \A d \in End : inbox'[d] \in {inbox[d], <<>>}
      BY <2>0, <2>2 DEF Drop, Close
    <3>2. PromptsKept
      BY <2>0, <2>2 DEF PromptsKept, Drop, TypeOK, Party
    <3> QED BY <3>1, <3>2, EmptiedTraffic
  <2>3. CASE UNCHANGED <<netVars, link, clientVars>>
    <3>1. PromptsKept
      BY <2>0, <2>3 DEF PromptsKept, TypeOK
    <3> QED BY <2>0, <2>3, <3>1, EmptiedTraffic
  <2> QED BY <1>11, <2>1, <2>2, <2>3 DEF Answer
<1> QED
  BY <1>1, <1>2, <1>3, <1>4, <1>5, <1>6, <1>7, <1>8, <1>9, <1>10, <1>11, TrafficKept
  DEF Loud, Reply

\* The history only grows.
LEMMA Monotonicity == ASSUME TypeOK, [Next]_vars PROVE Monotone
<1>1. CASE Quiet
  BY <1>1 DEF Quiet, QuietVerdicts
<1>2. CASE Loud
  <2>1. ASSUME NEW p \in Party, Dial(p) PROVE Monotone
    <3>1. ASSUME NEW c \in Conn, Connect(p, c), UNCHANGED userVars PROVE Monotone
      BY <3>1 DEF Connect, Monotone
    <3>2. CASE UNCHANGED <<userVars, crossed>>
      BY <3>2 DEF Monotone
    <3> QED BY <2>1, <3>1, <3>2, Zenon DEF Dial, NoTraffic
  <2>2. ASSUME NEW s \in Session, Redial(s) PROVE Monotone
    BY <2>2, Zenon DEF Redial, Connect, Monotone
  <2>3. ASSUME NEW m \in Monitor, Reply(m) PROVE Monotone
    BY <2>3 DEF Reply, Answer, Monotone
  <2>4. ASSUME NEW r \in Request, Look(r) \/ Register(r) \/ Send(r) \/ Receive(r)
        PROVE  Monotone
    <3>1. CASE UNCHANGED <<userVars, crossed>>
      BY <3>1 DEF Monotone
    <3>2. Look(r) \/ Register(r) \/ Receive(r) => UNCHANGED <<userVars, crossed>>
      BY DEF Look, Register, Receive
    <3>3. SendAsClient(r) => UNCHANGED <<userVars, crossed>>
      BY DEF SendAsClient
    <3>4. ASSUME NEW c \in Conn, SendToMonitor(r, c) PROVE UNCHANGED <<userVars, crossed>>
      BY <3>4 DEF SendToMonitor
    <3> QED BY <2>4, <3>1, <3>2, <3>3, <3>4 DEF Send
  <2>5. CASE UNCHANGED <<answers, crossed>>
    BY <2>5 DEF Monotone
  <2> QED
    BY <1>2, <2>1, <2>2, <2>3, <2>4, <2>5
    DEF Loud, Decode, Deliver, AcceptConnections, CancelPending, Swap, CancelOnClose,
        Accept, Show
<1> QED BY <1>1, <1>2, QuietStep

\* Only Decode and Deliver move a reply, and it is an answer all the way.
LEMMA LoudAnswered ==
  ASSUME TypeOK, Linked, Traffic, Answered, Monotone, Loud PROVE Answered'
<1>1. ASSUME NEW s \in Session, NEW e \in End, Decode(s, e) PROVE Answered'
  <2> DEFINE first == Head(inbox[e])
             r == <<s, first.of[2]>>
             m == [first EXCEPT !.of = r]
  <2>1. CASE r \notin pending
    BY <1>1, <2>1, AnsweredKept DEF Decode
  <2>2. CASE r \in pending /\ ~crossed'
    <3>1. ~crossed /\ answers' = answers /\ reply' = reply /\ hold' = [hold EXCEPT ![e] = m]
      BY <1>1, <2>2 DEF Decode
    <3>2. Owner(e) = s
      <4>1. CASE e[2] = "listen"
        BY <1>1, <4>1 DEF Decode, ReadAt, Owner
      <4>2. CASE e[2] = "dial"
        <5>1. enc[s] = e[1] /\ e[1] \in Conn
          BY <1>1, <4>2 DEF Decode, ReadAt, End
        <5> QED BY <4>2, <5>1, AskAssumption DEF Owner, Linked
      <4> QED BY <1>1, <4>1, <4>2 DEF Decode, ReadAt
    <3>3. inbox[e] \in Seq(Message) /\ inbox[e] # <<>>
      BY <1>1, Typed DEF Decode, Inboxes
    <3>4. first = inbox[e][1] /\ 1 \in 1..Len(inbox[e]) /\ first \in Message
      BY <3>3
    <3>5. first \in answers /\ first.of[1] = s
      BY <3>1, <3>2, <3>4 DEF Traffic, Proper
    <3>6. first.of \in Request
      BY <3>4 DEF Message, Response
    <3>7. first.of = r
      BY <3>5, <3>6 DEF Request
    <3>8. m = first
      BY <3>5, <3>7 DEF TypeOK, Response
    <3> QED BY <3>1, <3>5, <3>8 DEF Answered, TypeOK
  <2>3. CASE crossed'
    BY <2>3 DEF Answered
  <2> QED BY <2>1, <2>2, <2>3
<1>2. ASSUME NEW s \in Session, NEW e \in End, Deliver(s, e) PROVE Answered'
  BY <1>2 DEF Deliver, Answered, TypeOK
<1>3. CASE UNCHANGED <<hold, reply>>
  BY <1>3, AnsweredKept
<1> QED
  BY <1>1, <1>2, <1>3
  DEF Loud, Dial, Look, Register, Send, SendAsClient, SendToMonitor, Receive,
      AcceptConnections, CancelPending, CancelOnClose, CancelAll, Swap, Redial, Accept,
      Show, Reply, Answer

\* A request passes, or a decision is remembered, in Receive alone.
LEMMA LoudVerdicts ==
  ASSUME TypeOK, Answered, AllowedByAnswer, RememberedByAnswer, Monotone, Loud
  PROVE  AllowedByAnswer' /\ RememberedByAnswer'
<1> USE DEF QuietVerdicts
<1>1. ASSUME NEW r \in Request, Receive(r)
      PROVE  AllowedByAnswer' /\ RememberedByAnswer'
  <2>0. /\ rpc[r] = "wait" /\ rpc' = [rpc EXCEPT ![r] = "done"]
        /\ outcome' = [outcome EXCEPT ![r] = Verdict(reply[r])]
        /\ UNCHANGED <<answers, crossed, host, reply>>
    BY <1>1 DEF Receive, At
  <2>1. CASE crossed
    BY <2>0, <2>1 DEF AllowedByAnswer, RememberedByAnswer
  <2>2. CASE ~crossed
    <3>1. reply[r] # None => /\ reply[r] \in answers /\ reply[r].of = r
                             /\ reply[r].action \in Action
      BY <2>2 DEF Answered, TypeOK, Response
    <3>2. Verdict(reply[r]) = "allow" => reply[r] # None /\ reply[r].action = "allow"
      BY <3>1 DEF Verdict, Action
    <3>3. AllowedByAnswer'
      BY <2>0, <2>2, <3>1, <3>2 DEF AllowedByAnswer, AllowedOnlyByAnswer, Approved, TypeOK
    <3>4. ASSUME NEW s \in Session, NEW h \in Host, cache'[s][h] # None
          PROVE  \E a \in answers : Remembers(s, h, a)'
      <4>1. CASE cache'[s][h] = cache[s][h]
        <5>1. PICK a \in answers : Remembers(s, h, a)
          BY <2>2, <3>4, <4>1 DEF RememberedByAnswer
        <5>2. a.of \in Request /\ a.of # r
          BY <2>0, <5>1 DEF Remembers, Of
        <5> QED BY <2>0, <4>1, <5>1, <5>2 DEF Remembers, Of, TypeOK
      <4>2. CASE cache'[s][h] # cache[s][h]
        <5>1. /\ Remembered(reply[r])
              /\ cache' = [cache EXCEPT ![r[1]][host[r]] = reply[r].action]
          BY <1>1, <4>2, Zenon DEF Receive
        <5>2. s = r[1] /\ h = host[r] /\ cache'[s][h] = reply[r].action
          BY <4>2, <5>1 DEF TypeOK, Request
        <5>3. reply[r] # None /\ reply[r].remember
          BY <5>1, Zenon DEF Remembered
        <5>4. Verdict(reply[r]) = reply[r].action
          BY <3>1, <5>3 DEF Verdict, Action
        <5>5. Remembers(s, h, reply[r])'
          BY <2>0, <3>1, <5>2, <5>3, <5>4 DEF Remembers, Of, TypeOK
        <5> QED BY <2>0, <3>1, <5>3, <5>5
      <4> QED BY <4>1, <4>2
    <3> QED BY <2>0, <3>3, <3>4 DEF RememberedByAnswer
  <2> QED BY <2>1, <2>2
<1>2. ASSUME NEW r \in Request, Look(r) PROVE QuietVerdicts
  BY <1>2 DEF Look, Reject, At, TypeOK
<1>3. ASSUME NEW r \in Request, Register(r) PROVE QuietVerdicts
  BY <1>3 DEF Register, At, TypeOK
<1>4. ASSUME NEW r \in Request, Send(r) PROVE QuietVerdicts
  <2>1. CASE SendAsClient(r)
    BY <2>1 DEF SendAsClient, Reject, At, TypeOK
  <2>2. ASSUME NEW c \in Conn, SendToMonitor(r, c) PROVE QuietVerdicts
    BY <2>2 DEF SendToMonitor, At, TypeOK
  <2> QED BY <1>4, <2>1, <2>2 DEF Send
<1>5. UNCHANGED askVars => QuietVerdicts
  OBVIOUS
<1> QED
  BY <1>1, <1>2, <1>3, <1>4, <1>5, VerdictsKept
  DEF Loud, Dial, Decode, Deliver, AcceptConnections, CancelPending, CancelOnClose, Swap,
      Redial, Accept, Show, Reply, Answer

-----------------------------------------------------------------------------
(* The theorems *)

LEMMA InitIInv == Init => IInv
<1> SUFFICES ASSUME Init PROVE IInv
  OBVIOUS
<1>1. Fresh /\ OneCloser
  BY DEF Init, Fresh, OneCloser, Takers
<1>2. Linked
  <2>1. None \notin Party
    BY AskAssumption
  <2> QED BY <2>1 DEF Init, Linked, Party
<1>3. Traffic
  BY DEF Init, Traffic
<1>4. Answered /\ AllowedByAnswer /\ RememberedByAnswer
  <2>1. None # "allow"
    BY AskAssumption DEF Action
  <2> QED BY <2>1 DEF Init, Answered, AllowedByAnswer, AllowedOnlyByAnswer, RememberedByAnswer
<1> QED BY <1>1, <1>2, <1>3, <1>4, InitTypeOK DEF IInv

LEMMA NextIInv == IInv /\ [Next]_vars => IInv'
<1> SUFFICES ASSUME IInv, [Next]_vars PROVE IInv'
  OBVIOUS
<1> USE DEF IInv
<1>1. TypeOK' /\ Monotone
  BY NextTypeOK, Monotonicity
<1>2. CASE Quiet
  BY <1>1, <1>2, LinksKept, ChannelsKept, TrafficKept, AnsweredKept, VerdictsKept
  DEF Quiet, QuietChannels
<1>3. CASE Loud
  BY <1>1, <1>3, LoudLinks, LoudChannels, LoudTraffic, LoudAnswered, LoudVerdicts
<1> QED BY <1>2, <1>3, QuietStep

\* Every reachable state satisfies the inductive invariant.
THEOREM Invariance == Spec => []IInv
  BY InitIInv, NextIInv, PTL DEF Spec

\* Whatever answers, timeouts, disconnections and closes race, every reply
\* channel has at most one party left that will close it.
THEOREM ClosedOnce == Spec => []OneCloser
<1>1. IInv => OneCloser
  BY DEF IInv
<1> QED BY Invariance, <1>1, PTL

\* As long as no session has dialed another, for any number of sessions,
\* monitors and requests: a request passes only if a user allowed it.
THEOREM PassesIfAllowed == Spec => []AllowedByAnswer
<1>1. IInv => AllowedByAnswer
  BY DEF IInv
<1> QED BY Invariance, <1>1, PTL

\* And a decision is remembered only if a user asked for it, about a request
\* to that host, in time.
THEOREM RemembersAsked == Spec => []RememberedByAnswer
<1>1. IInv => RememberedByAnswer
  BY DEF IInv
<1> QED BY Invariance, <1>1, PTL

\* The two together, as the run checks them: what decides a request, now or by
\* the cache, is what a user answered.
THEOREM DecidesByAnswer == Spec => []DecidedByAnswer
<1>1. AllowedByAnswer /\ RememberedByAnswer => DecidedByAnswer
  BY DEF DecidedByAnswer
<1> QED BY PassesIfAllowed, RemembersAsked, <1>1, PTL
=============================================================================
