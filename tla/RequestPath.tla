------------------------------ MODULE RequestPath ------------------------------
(***************************************************************************)
(* The path of a request through the proxy (internal/proxy: server.go,     *)
(* filter.go, redaction.go, reqlog.go): the filter decides, a prompt       *)
(* settles what the filter cannot, the redaction scan looks for secrets,   *)
(* the request is forwarded, and one entry of the request log tells what   *)
(* became of it.  Requests run concurrently and share the remembered       *)
(* answers and the log.                                                    *)
(*                                                                         *)
(* A prompt is one step here; AskMode models what happens inside it.  A    *)
(* host or path is its canonical form (canonicalizeHost, canonicalizeURL). *)
(* The injected credential adds a header no property is about.  goproxy,   *)
(* which calls the hooks, is external.                                     *)
(***************************************************************************)
EXTENDS Naturals, Sequences

CONSTANTS
  Reqs,        \* requests
  Hosts,       \* the hosts they may be sent to
  Kinds,       \* the requests a sandbox may send
  Secrets,     \* what the redaction rules look for
  Configs,     \* configurations of the proxy
  NoKind, NoRule, NoAnswer

Actions == {"allow", "block", "ask"}
Severities == {"log", "redact", "block"}
Parts == {"url", "header", "prefix", "rest"}   \* "rest" of a body: not captured
Rules == [scope : {"host", "path"}, on : SUBSET (Hosts \cup {"p", "q"}),
          action : Actions]
UserAnswers == [action : {"allow", "block"}, remember : BOOLEAN]

\* A CONNECT states a host alone.  A body is readable, or the scan gives up.
ASSUME RequestAssumption ==
  /\ \A k \in Kinds :
       /\ k.via \in {"connect", "http"} /\ k.hasURL \in BOOLEAN
       /\ k.host \in Hosts /\ k.path \in {"p", "q"}
       /\ k.holds \subseteq Secrets \X Parts /\ k.readable \in BOOLEAN
       /\ k.via = "connect" => k.hasURL /\ k.holds = {}
  /\ \A c \in Configs :
       /\ c.mitm \in BOOLEAN /\ c.remember \in BOOLEAN
       /\ c.default \in Actions \cup {"off"}
       /\ \A i \in 1..Len(c.rules) : c.rules[i] \in Rules
       /\ c.redact \in [Secrets -> Severities \cup {"off"}]
       /\ c.skipped \subseteq Hosts
  /\ NoKind \notin Kinds /\ NoRule \notin Actions
  /\ NoAnswer \notin {"allow", "block"} \cup UserAnswers

VARIABLES
  cfg,         \* the configuration, fixed by NewServer
  proxyUp,     \* FALSE once Stop has closed the listener and the log
  remembered,  \* decisionCache
  at,          \* where each request is
  kind,        \* what it is
  answer,      \* what the user said of it
  attached,    \* requests whose entry hangs on the goproxy context
  entryHolds,  \* secrets the entry of each request shows
  sent,        \* requests that went upstream
  sentHolds,   \* secrets they took there
  finalized,   \* requests whose captured body has been finalized
  hookless,    \* requests goproxy gave up on without the response hook
  written      \* entries of each request in the log

requestVars == <<cfg, proxyUp, remembered, at, kind, answer, attached,
                 entryHolds, sent, sentHolds, finalized, hookless, written>>

RequestTypeOK ==
  /\ cfg \in Configs /\ proxyUp \in BOOLEAN
  /\ remembered \in [Hosts -> {"allow", "block", NoAnswer}]
  /\ at \in [Reqs -> {"new", "filter", "asking", "answered", "scan", "upstream",
                      "response", "stream", "ended", "done"}]
  /\ kind \in [Reqs -> Kinds \cup {NoKind}]
  /\ answer \in [Reqs -> UserAnswers \cup {NoAnswer}]
  /\ attached \subseteq Reqs /\ sent \subseteq Reqs
  /\ finalized \subseteq Reqs /\ hookless \subseteq Reqs
  /\ entryHolds \in [Reqs -> SUBSET Secrets]
  /\ sentHolds \in [Reqs -> SUBSET Secrets]
  /\ written \in [Reqs -> 0..2]

-----------------------------------------------------------------------------
(* The filter engine *)

FilterOn == cfg.default # "off"
\* validateFilterScopes: without MITM only host rules can be honoured.
Enforceable(c) ==
  c.mitm \/ c.default = "off" \/ \A i \in 1..Len(c.rules) : c.rules[i].scope = "host"

Matches(r, k) == (IF r.scope = "host" THEN k.host ELSE k.path) \in r.on
\* The action of the first rule that matches; MatchHost skips path rules.
FirstMatch(k) ==
  LET hits == {i \in 1..Len(cfg.rules) :
                 /\ Matches(cfg.rules[i], k)
                 /\ k.via = "connect" => cfg.rules[i].scope = "host"}
  IN IF hits = {} THEN NoRule
     ELSE cfg.rules[CHOOSE i \in hits : \A j \in hits : i <= j].action

\* Mutant: a remembered answer is looked at before the rules.
Decision_CacheFirst(k) ==
  LET rule == FirstMatch(k)
  IN IF cfg.remember /\ remembered[k.host] # NoAnswer THEN remembered[k.host]
     ELSE IF rule # NoRule THEN rule ELSE cfg.default

\* Match, MatchHost and decisionFor.
Decision(k) ==
  LET rule == FirstMatch(k)
  IN IF ~FilterOn THEN "allow"
     ELSE IF rule \in {"allow", "block"} THEN rule
     ELSE IF cfg.remember /\ remembered[k.host] # NoAnswer THEN remembered[k.host]
     ELSE IF rule # NoRule THEN rule ELSE cfg.default

-----------------------------------------------------------------------------
(* The request log *)

\* RequestLogger.Log: nothing for a skipped host, or once the log is closed.
Logged(q) ==
  written' = IF proxyUp /\ kind[q].host \notin cfg.skipped
             THEN [written EXCEPT ![q] = @ + 1] ELSE written

\* The secrets an entry can show: a body beyond the captured prefix is not in it.
Visible(k) == {s \in Secrets : \E p \in Parts \ {"rest"} : <<s, p>> \in k.holds}
Carried(k) == {s \in Secrets : \E p \in Parts : <<s, p>> \in k.holds}

\* The request hook answers itself: it writes the entry and takes it off the
\* context (finalizeEntry), for goproxy calls the response hook all the same.
\* A refused CONNECT never gets there.
Refused(q) ==
  /\ Logged(q)
  /\ at' = [at EXCEPT ![q] = IF kind[q].via = "connect" THEN "done" ELSE "response"]
  /\ attached' = attached \ {q}

-----------------------------------------------------------------------------
(* The request hooks *)

\* LogRequest; a request whose URL goproxy could not parse is refused.
Arrive(q, k) ==
  /\ at[q] = "new"
  /\ k.via = "connect" => ~cfg.mitm
  /\ kind' = [kind EXCEPT ![q] = k]
  /\ at' = [at EXCEPT ![q] = "filter"]
  /\ attached' = IF k.via = "http" THEN attached \cup {q} ELSE attached
  /\ entryHolds' = [entryHolds EXCEPT ![q] = Visible(k)]
  /\ UNCHANGED <<cfg, proxyUp, remembered, answer, sent, sentHolds, finalized,
                 hookless, written>>

RefuseMalformed(q) ==
  /\ at[q] = "filter" /\ ~kind[q].hasURL
  /\ Refused(q)
  /\ UNCHANGED <<cfg, proxyUp, remembered, kind, answer, entryHolds, sent,
                 sentHolds, finalized, hookless>>

\* What follows an allowed decision: the tunnel opens and its entry is written,
\* or the scan begins.
Allowed(q) ==
  IF kind[q].via = "connect"
  THEN /\ Logged(q) /\ at' = [at EXCEPT ![q] = "done"] /\ sent' = sent \cup {q}
       /\ UNCHANGED attached
  ELSE /\ at' = [at EXCEPT ![q] = "scan"]
       /\ UNCHANGED <<attached, sent, written>>

\* applyFilterDecision, with the decision of this moment's remembered answers.
Filter(q) ==
  /\ at[q] = "filter" /\ kind[q].hasURL
  /\ \/ Decision(kind[q]) = "allow" /\ Allowed(q)
     \/ Decision(kind[q]) = "block" /\ Refused(q) /\ UNCHANGED sent
     \/ /\ Decision(kind[q]) = "ask" /\ at' = [at EXCEPT ![q] = "asking"]
        /\ UNCHANGED <<attached, sent, written>>
  /\ UNCHANGED <<cfg, proxyUp, remembered, kind, answer, entryHolds, sentHolds,
                 finalized, hookless>>

\* The user answers the prompt ...
AnswerPrompt(q, a) ==
  /\ at[q] = "asking"
  /\ answer' = [answer EXCEPT ![q] = a]
  /\ at' = [at EXCEPT ![q] = "answered"]
  /\ UNCHANGED <<cfg, proxyUp, remembered, kind, attached, entryHolds, sent,
                 sentHolds, finalized, hookless, written>>

\* ... and the request's own goroutine stores the answer and acts on it.
Obey(q) ==
  /\ at[q] = "answered"
  /\ remembered' = IF answer[q].remember /\ cfg.remember
                   THEN [remembered EXCEPT ![kind[q].host] = answer[q].action]
                   ELSE remembered
  /\ IF answer[q].action = "allow" THEN Allowed(q)
     ELSE Refused(q) /\ UNCHANGED sent
  /\ UNCHANGED <<cfg, proxyUp, kind, answer, entryHolds, sentHolds, finalized,
                 hookless>>

\* No monitor, no answer in time, or the ask server closed: handleAskMode blocks.
Unanswered(q) ==
  /\ at[q] = "asking"
  /\ Refused(q)
  /\ UNCHANGED <<cfg, proxyUp, remembered, kind, answer, entryHolds, sent,
                 sentHolds, finalized, hookless>>

-----------------------------------------------------------------------------
(* The redaction scan *)

ScanOn == \E s \in Secrets : cfg.redact[s] # "off"
Found(k) == {s \in Carried(k) : cfg.redact[s] # "off"}
SeverityOf(k) ==
  IF \E s \in Found(k) : cfg.redact[s] = "block" THEN "block"
  ELSE IF \E s \in Found(k) : cfg.redact[s] = "redact" THEN "redact" ELSE "log"

SendUpstream(q, secrets) ==
  /\ at' = [at EXCEPT ![q] = "upstream"]
  /\ sent' = sent \cup {q}
  /\ sentHolds' = [sentHolds EXCEPT ![q] = secrets]
  /\ UNCHANGED <<attached, written>>
\* The entry takes its URL, headers and body from the redacted request.
Rewritten(q) == entryHolds' = [entryHolds EXCEPT ![q] = @ \ Found(kind[q])]

Scan(q) ==
  /\ at[q] = "scan"
  /\ LET k == kind[q]
     IN \/ /\ ~ScanOn \/ (k.readable /\ SeverityOf(k) = "log")
           /\ SendUpstream(q, Carried(k)) /\ UNCHANGED entryHolds
        \/ \* ReadScanBody took no whole body: too large, too slow, gone
           /\ ScanOn /\ ~k.readable
           /\ Refused(q) /\ UNCHANGED <<sent, sentHolds, entryHolds>>
        \/ /\ ScanOn /\ k.readable /\ SeverityOf(k) = "block"
           /\ Refused(q) /\ Rewritten(q) /\ UNCHANGED <<sent, sentHolds>>
        \/ /\ ScanOn /\ k.readable /\ SeverityOf(k) = "redact"
           /\ Rewritten(q)
           /\ \/ SendUpstream(q, Carried(k) \ Found(k))
              \/ \* the placeholder made the URL unparseable
                 /\ \E s \in Found(k) : <<s, "url">> \in k.holds
                 /\ Refused(q) /\ UNCHANGED <<sent, sentHolds>>
  /\ UNCHANGED <<cfg, proxyUp, remembered, kind, answer, finalized, hookless>>

-----------------------------------------------------------------------------
(* The response hook *)

\* The round trip ends.  When it fails goproxy may drop the connection of an
\* intercepted request without running the hook.
Answered(q) ==
  /\ at[q] = "upstream"
  /\ \/ at' = [at EXCEPT ![q] = "response"] /\ UNCHANGED hookless
     \/ /\ cfg.mitm /\ at' = [at EXCEPT ![q] = "done"]
        /\ hookless' = hookless \cup {q}
  /\ UNCHANGED <<cfg, proxyUp, remembered, kind, answer, attached, entryHolds, sent,
                 sentHolds, finalized, written>>

\* LogResponseStreaming: the entry waits for the end of the body, if there is one.
\* The context of a request the request hook refused holds no entry.
RespondBody(q) ==
  /\ at[q] = "response"
  /\ at' = [at EXCEPT ![q] = IF q \in attached THEN "stream" ELSE "done"]
  /\ UNCHANGED <<cfg, proxyUp, remembered, kind, answer, attached, entryHolds, sent,
                 sentHolds, finalized, hookless, written>>

RespondBare(q) ==
  /\ at[q] = "response" /\ q \in attached /\ q \in sent
  /\ Logged(q) /\ at' = [at EXCEPT ![q] = "done"]
  /\ UNCHANGED <<cfg, proxyUp, remembered, kind, answer, attached, entryHolds, sent,
                 sentHolds, finalized, hookless>>

\* captureBody.finalize: once, at EOF or at Close.
Finalized(q) ==
  IF q \in finalized THEN UNCHANGED <<finalized, written>>
  ELSE Logged(q) /\ finalized' = finalized \cup {q}

BodyEOF(q) ==
  /\ at[q] = "stream" /\ at' = [at EXCEPT ![q] = "ended"] /\ Finalized(q)
  /\ UNCHANGED <<cfg, proxyUp, remembered, kind, answer, attached, entryHolds, sent,
                 sentHolds, hookless>>
BodyClose(q) ==
  /\ at[q] \in {"stream", "ended"} /\ at' = [at EXCEPT ![q] = "done"] /\ Finalized(q)
  /\ UNCHANGED <<cfg, proxyUp, remembered, kind, answer, attached, entryHolds, sent,
                 sentHolds, hookless>>

\* Server.Stop closes the listener and the log; it does not wait for the
\* requests in flight, and a connection that is open may carry another.
StopProxy ==
  /\ proxyUp /\ proxyUp' = FALSE
  /\ UNCHANGED <<cfg, remembered, at, kind, answer, attached, entryHolds, sent,
                 sentHolds, finalized, hookless, written>>

-----------------------------------------------------------------------------
RequestInit ==
  /\ cfg \in {c \in Configs : Enforceable(c)}
  /\ proxyUp = TRUE
  /\ remembered = [h \in Hosts |-> NoAnswer]
  /\ at = [q \in Reqs |-> "new"]
  /\ kind = [q \in Reqs |-> NoKind]
  /\ answer = [q \in Reqs |-> NoAnswer]
  /\ attached = {} /\ sent = {} /\ finalized = {} /\ hookless = {}
  /\ entryHolds = [q \in Reqs |-> {}]
  /\ sentHolds = [q \in Reqs |-> {}]
  /\ written = [q \in Reqs |-> 0]

RequestNext ==
  \/ \E q \in Reqs :
       \/ \E k \in Kinds : Arrive(q, k)
       \/ RefuseMalformed(q) \/ Filter(q) \/ Obey(q) \/ Unanswered(q)
       \/ \E a \in UserAnswers : AnswerPrompt(q, a)
       \/ Scan(q) \/ Answered(q) \/ RespondBody(q) \/ RespondBare(q)
       \/ BodyEOF(q) \/ BodyClose(q)
  \/ StopProxy

RequestSpec == RequestInit /\ [][RequestNext]_requestVars

-----------------------------------------------------------------------------
(* The log has one entry for every request: never two, whether the request *)
(* hook or the response hook wrote it and whether the body ended, was cut  *)
(* off or both; and none is missing while the proxy runs, but those of     *)
(* hosts the configuration skips and of round trips that failed before the *)
(* hook (RequestCount counts on it: session.end reports it).               *)
LoggedOnce ==
  \A q \in Reqs :
    /\ written[q] <= 1
    /\ (/\ proxyUp /\ at[q] = "done"
        /\ q \notin hookless /\ kind[q].host \notin cfg.skipped) => written[q] = 1

\* The user let this request through, or told to remember it of its host.
Approved(q) ==
  \/ answer[q] # NoAnswer /\ answer[q].action = "allow"
  \/ \E o \in Reqs : /\ answer[o] = [action |-> "allow", remember |-> TRUE]
                     /\ kind[o].host = kind[q].host

(* Nothing goes upstream that the filter forbids: what a rule blocks never *)
(* does, whatever was answered about the host, and what a rule or the      *)
(* default leaves to the user does only after somebody approved it (a      *)
(* default that blocks included: see RememberedOnlyForPrompts).            *)
FilterObeyed ==
  \A q \in sent : FilterOn =>
    LET rule == FirstMatch(kind[q])
    IN \/ rule = "allow"
       \/ rule = NoRule /\ cfg.default = "allow"
       \/ rule # "block" /\ Approved(q)

(* A secret that a rule blocks or redacts goes nowhere: not upstream,      *)
(* wherever in the request it is, and not into the log with the entry of a *)
(* request that was scanned.                                               *)
SecretsStay ==
  \A q \in Reqs : \A s \in Secrets : cfg.redact[s] \in {"redact", "block"} =>
    /\ s \notin sentHolds[q]
    /\ q \in sent => s \notin entryHolds[q]

ForwardedAsConfigured == FilterObeyed /\ SecretsStay

(* What a request meets on its way -- log, filter, prompt, redaction -- does *)
(* its part in whatever order the hooks of two requests run.               *)
HandledAsConfigured == LoggedOnce /\ ForwardedAsConfigured

(* A remembered answer stands in for a prompt only: where no rule matches  *)
(* and the default blocks, nothing would be asked, so nothing goes through *)
(* (the comments on Match and decisionFor).  The code asks the cache       *)
(* whenever no rule matches.                                               *)
RememberedOnlyForPrompts ==
  \A q \in sent : cfg.default = "block" => FirstMatch(kind[q]) # NoRule
=============================================================================
