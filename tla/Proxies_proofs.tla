--------------------------- MODULE Proxies_proofs ----------------------------
(***************************************************************************)
(* The proxies between the workload and what lies outside, for any number  *)
(* of requests, rules, connections and panes: the HTTP proxy handles each  *)
(* request as it is configured, and the herdr proxy each message as it was *)
(* checked.                                                                *)
(***************************************************************************)
EXTENDS RequestPath, HerdrProxy, TLAPS

-----------------------------------------------------------------------------
(* What holds between the hooks *)

\* A request the sandbox has sent is one of Kinds; a CONNECT ends with its decision.
Known(q) ==
  at[q] # "new" => /\ kind[q] \in Kinds
                   /\ kind[q].via = "connect" => at[q] \in {"filter", "asking", "answered", "done"}

\* The log need not have an entry of this request.
Excused(q) == ~proxyUp \/ kind[q].host \in cfg.skipped
HasEntry(q) == written[q] <= 1 /\ (Excused(q) \/ written[q] = 1)

\* The entry of a request is on the context until somebody writes it.
Pending == {"new", "filter", "asking", "answered", "scan", "upstream", "stream"}
Placed(q) ==
  /\ at[q] \in Pending => written[q] = 0 /\ q \notin finalized
  /\ at[q] \in {"filter", "asking", "answered"} /\ kind[q].via = "http" => q \in attached
  /\ at[q] \in {"scan", "upstream"} => q \in attached
  /\ at[q] = "response" => /\ q \notin finalized
                           /\ q \in attached => written[q] = 0
                           /\ q \notin attached => HasEntry(q)
  /\ at[q] = "ended" => q \in finalized
  /\ at[q] = "ended" \/ (at[q] = "done" /\ q \notin hookless) => HasEntry(q)
  /\ at[q] = "done" => written[q] <= 1

\* What a rule decides never gets as far as a prompt, and nothing is sent before.
Asked(q) ==
  /\ FilterOn /\ at[q] \in {"asking", "answered"} =>
       FirstMatch(kind[q]) \notin {"allow", "block"}
  /\ at[q] \in {"new", "filter", "asking", "answered", "scan"} => q \notin sent
  /\ at[q] \in {"new", "filter", "asking"} => answer[q] = NoAnswer
  /\ at[q] = "answered" => answer[q] \in UserAnswers

\* An answer that is remembered was given, for a request to that host.
RememberedWasSaid ==
  \A h \in Hosts : remembered[h] = "allow" =>
    \E o \in Reqs : answer[o] = [action |-> "allow", remember |-> TRUE] /\ kind[o].host = h

\* What the filter, or the user, let pass.
LetPass(q) ==
  FilterOn =>
    \/ FirstMatch(kind[q]) = "allow"
    \/ FirstMatch(kind[q]) = NoRule /\ cfg.default = "allow"
    \/ FirstMatch(kind[q]) # "block" /\ Approved(q)
Passed(q) == at[q] = "scan" \/ q \in sent => LetPass(q)

\* What an entry shows was in the request, and what the redaction rules look for
\* is neither in what went upstream nor in the entry of what did.
Clean(q) ==
  /\ at[q] # "new" => entryHolds[q] \subseteq Visible(kind[q])
  /\ \A s \in Secrets : cfg.redact[s] \in {"redact", "block"} =>
       s \notin sentHolds[q] /\ (q \in sent => s \notin entryHolds[q])

RequestInv ==
  /\ RequestTypeOK /\ RememberedWasSaid
  /\ \A q \in Reqs : Known(q) /\ Placed(q) /\ Asked(q) /\ Passed(q) /\ Clean(q)

USE RequestAssumption

-----------------------------------------------------------------------------
(* What a step may change *)

StepOf(q) ==
  \/ \E k \in Kinds : Arrive(q, k)
  \/ RefuseMalformed(q) \/ Filter(q) \/ Obey(q) \/ Unanswered(q)
  \/ \E a \in UserAnswers : AnswerPrompt(q, a)
  \/ Scan(q) \/ Answered(q) \/ RespondBody(q) \/ RespondBare(q)
  \/ BodyEOF(q) \/ BodyClose(q)

\* A step of one request leaves every other alone.
Apart(o) ==
  /\ at'[o] = at[o] /\ kind'[o] = kind[o] /\ answer'[o] = answer[o]
  /\ entryHolds'[o] = entryHolds[o] /\ sentHolds'[o] = sentHolds[o]
  /\ written'[o] = written[o]
  /\ o \in attached' <=> o \in attached
  /\ o \in sent' <=> o \in sent
  /\ o \in finalized' <=> o \in finalized
  /\ o \in hookless' <=> o \in hookless

LEMMA RequestSteps ==
  ASSUME RequestTypeOK, RequestNext
  PROVE  \/ StopProxy
         \/ \E q \in Reqs : /\ StepOf(q) /\ UNCHANGED <<cfg, proxyUp>>
                            /\ \A o \in Reqs : o # q => Apart(o)
<1> SUFFICES ASSUME NEW q \in Reqs, StepOf(q)
             PROVE  /\ UNCHANGED <<cfg, proxyUp>>
                    /\ \A o \in Reqs : o # q => Apart(o)
  BY DEF RequestNext, StepOf
<1> USE DEF RequestTypeOK, Apart
<1>1. ASSUME NEW k \in Kinds, Arrive(q, k)
      PROVE UNCHANGED <<cfg, proxyUp>> /\ \A o \in Reqs : o # q => Apart(o)
  BY <1>1 DEF Arrive
<1>2. CASE RefuseMalformed(q)
  BY <1>2 DEF RefuseMalformed, Refused, Logged
<1>3. CASE Filter(q)
  BY <1>3 DEF Filter, Allowed, Refused, Logged
<1>4. CASE Obey(q) \/ Unanswered(q)
  BY <1>4 DEF Obey, Unanswered, Allowed, Refused, Logged
<1>5. ASSUME NEW a \in UserAnswers, AnswerPrompt(q, a)
      PROVE UNCHANGED <<cfg, proxyUp>> /\ \A o \in Reqs : o # q => Apart(o)
  BY <1>5 DEF AnswerPrompt
<1>6. CASE Scan(q)
  BY <1>6 DEF Scan, SendUpstream, Rewritten, Refused, Logged
<1>7. CASE Answered(q) \/ RespondBody(q) \/ RespondBare(q)
  BY <1>7 DEF Answered, RespondBody, RespondBare, Logged
<1>8. CASE BodyEOF(q) \/ BodyClose(q)
  BY <1>8 DEF BodyEOF, BodyClose, Finalized, Logged
<1> QED BY <1>1, <1>2, <1>3, <1>4, <1>5, <1>6, <1>7, <1>8 DEF StepOf

LEMMA RulesFixed ==
  ASSUME cfg' = cfg, NEW k
  PROVE  FirstMatch(k)' = FirstMatch(k)
BY DEF FirstMatch

LEMMA RuleKept ==
  ASSUME cfg' = cfg, NEW q \in Reqs, kind'[q] = kind[q]
  PROVE  FirstMatch(kind[q])' = FirstMatch(kind[q])
BY RulesFixed

-----------------------------------------------------------------------------
(* The log *)

\* One entry is written, or the log is closed or skips the host.
LEMMA LoggedIs ==
  ASSUME RequestTypeOK, NEW q \in Reqs, Logged(q), written[q] = 0
  PROVE  /\ written' \in [Reqs -> 0..2] /\ written'[q] <= 1
         /\ ~proxyUp \/ kind[q].host \in cfg.skipped \/ written'[q] = 1
BY DEF RequestTypeOK, Logged

LEMMA TypeStep == RequestInv /\ RequestNext => RequestTypeOK'
<1> SUFFICES ASSUME RequestInv, RequestNext PROVE RequestTypeOK'
  OBVIOUS
<1>1. CASE StopProxy
  BY <1>1 DEF StopProxy, RequestInv, RequestTypeOK
<1>2. ASSUME NEW q \in Reqs, StepOf(q) PROVE RequestTypeOK'
  <2>0. RequestTypeOK /\ Known(q) /\ Placed(q) /\ Asked(q)
    BY DEF RequestInv
  <2> USE <2>0 DEF RequestTypeOK
  <2>1. ASSUME NEW k \in Kinds, Arrive(q, k) PROVE RequestTypeOK'
    <3>1. Visible(k) \subseteq Secrets
      BY DEF Visible
    <3> QED BY <2>1, <3>1 DEF Arrive
  <2>2. CASE RefuseMalformed(q)
    <3>1. Logged(q) /\ written[q] = 0
      BY <2>2 DEF RefuseMalformed, Refused, Placed, Pending
    <3> QED BY <2>2, <3>1, LoggedIs DEF RefuseMalformed, Refused
  <2>3. CASE Filter(q)
    <3>1. written[q] = 0
      BY <2>3 DEF Filter, Placed, Pending
    <3> QED BY <2>3, <3>1, LoggedIs DEF Filter, Allowed, Refused
  <2>4. CASE Obey(q)
    <3>1. written[q] = 0 /\ answer[q] \in UserAnswers /\ kind[q] \in Kinds
      BY <2>4 DEF Obey, Placed, Pending, Asked, Known
    <3>2. remembered' \in [Hosts -> {"allow", "block", NoAnswer}]
      BY <2>4, <3>1 DEF Obey, UserAnswers
    <3> QED BY <2>4, <3>1, <3>2, LoggedIs DEF Obey, Allowed, Refused
  <2>5. CASE Unanswered(q)
    <3>1. written[q] = 0
      BY <2>5 DEF Unanswered, Placed, Pending
    <3> QED BY <2>5, <3>1, LoggedIs DEF Unanswered, Refused
  <2>6. ASSUME NEW a \in UserAnswers, AnswerPrompt(q, a) PROVE RequestTypeOK'
    BY <2>6 DEF AnswerPrompt
  <2>7. CASE Scan(q)
    <3>1. written[q] = 0 /\ Carried(kind[q]) \subseteq Secrets
      BY <2>7 DEF Scan, Placed, Pending, Carried
    <3> QED BY <2>7, <3>1, LoggedIs DEF Scan, SendUpstream, Rewritten, Refused
  <2>8. CASE Answered(q) \/ RespondBody(q)
    BY <2>8 DEF Answered, RespondBody
  <2>9. CASE RespondBare(q)
    <3>1. written[q] = 0
      BY <2>9 DEF RespondBare, Placed
    <3> QED BY <2>9, <3>1, LoggedIs DEF RespondBare
  <2>10. CASE BodyEOF(q) \/ BodyClose(q)
    <3>1. q \in finalized \/ written[q] = 0
      BY <2>10 DEF BodyEOF, BodyClose, Placed, Pending
    <3> QED BY <2>10, <3>1, LoggedIs DEF BodyEOF, BodyClose, Finalized
  <2> QED BY <1>2, <2>1, <2>2, <2>3, <2>4, <2>5, <2>6, <2>7, <2>8, <2>9, <2>10 DEF StepOf
<1> QED BY <1>1, <1>2, RequestSteps DEF RequestInv

LEMMA KnownStep ==
  ASSUME RequestTypeOK, NEW q \in Reqs, Known(q), StepOf(q)
  PROVE  Known(q)'
<1> USE DEF RequestTypeOK, Known
<1>1. ASSUME NEW k \in Kinds, Arrive(q, k) PROVE Known(q)'
  BY <1>1 DEF Arrive
<1>2. CASE RefuseMalformed(q) \/ Unanswered(q)
  BY <1>2 DEF RefuseMalformed, Unanswered, Refused
<1>3. CASE Filter(q) \/ Obey(q)
  BY <1>3 DEF Filter, Obey, Allowed, Refused
<1>4. ASSUME NEW a \in UserAnswers, AnswerPrompt(q, a) PROVE Known(q)'
  BY <1>4 DEF AnswerPrompt
<1>5. CASE Scan(q) \/ Answered(q) \/ RespondBody(q) \/ RespondBare(q)
  BY <1>5 DEF Scan, SendUpstream, Refused, Answered, RespondBody, RespondBare
<1>6. CASE BodyEOF(q) \/ BodyClose(q)
  BY <1>6 DEF BodyEOF, BodyClose
<1> QED BY <1>1, <1>2, <1>3, <1>4, <1>5, <1>6 DEF StepOf

LEMMA PlacedStep ==
  ASSUME RequestTypeOK, NEW q \in Reqs, Known(q), Placed(q), StepOf(q), UNCHANGED <<cfg, proxyUp>>
  PROVE  Placed(q)'
<1> USE DEF RequestTypeOK, Placed, Pending, HasEntry, Excused
<1>1. ASSUME NEW k \in Kinds, Arrive(q, k) PROVE Placed(q)'
  BY <1>1 DEF Arrive
<1>2. CASE RefuseMalformed(q) \/ Unanswered(q)
  BY <1>2, LoggedIs DEF RefuseMalformed, Unanswered, Refused
<1>3. CASE Filter(q)
  BY <1>3, LoggedIs DEF Filter, Allowed, Refused, Known
<1>4. CASE Obey(q)
  BY <1>4, LoggedIs DEF Obey, Allowed, Refused, Known
<1>5. ASSUME NEW a \in UserAnswers, AnswerPrompt(q, a) PROVE Placed(q)'
  BY <1>5 DEF AnswerPrompt
<1>6. CASE Scan(q)
  BY <1>6, LoggedIs DEF Scan, SendUpstream, Refused
<1>7. CASE Answered(q) \/ RespondBody(q)
  BY <1>7 DEF Answered, RespondBody
<1>8. CASE RespondBare(q)
  BY <1>8, LoggedIs DEF RespondBare
<1>9. CASE BodyEOF(q) \/ BodyClose(q)
  BY <1>9, LoggedIs DEF BodyEOF, BodyClose, Finalized
<1> QED BY <1>1, <1>2, <1>3, <1>4, <1>5, <1>6, <1>7, <1>8, <1>9 DEF StepOf

-----------------------------------------------------------------------------
(* The filter *)

\* A request and its answer stay what they are once they are given.
LEMMA SaidKept ==
  ASSUME RequestTypeOK, NEW q \in Reqs, Asked(q), StepOf(q), answer[q] # NoAnswer
  PROVE  answer'[q] = answer[q] /\ kind'[q] = kind[q]
<1> USE DEF RequestTypeOK, Asked
<1>1. at[q] \notin {"new", "filter", "asking"}
  OBVIOUS
<1> QED
  BY <1>1 DEF StepOf, Arrive, RefuseMalformed, Filter, Obey, Unanswered, AnswerPrompt, Scan,
         Answered, RespondBody, RespondBare, BodyEOF, BodyClose

LEMMA KindKept ==
  ASSUME RequestTypeOK, NEW q \in Reqs, StepOf(q), at[q] # "new"
  PROVE  kind' = kind
BY DEF StepOf, Arrive, RefuseMalformed, Filter, Obey, Unanswered, AnswerPrompt, Scan, Answered,
       RespondBody, RespondBare, BodyEOF, BodyClose

LEMMA AskedStep ==
  ASSUME RequestTypeOK, NEW q \in Reqs, Asked(q), StepOf(q), UNCHANGED <<cfg, proxyUp>>
  PROVE  Asked(q)'
<1> USE DEF RequestTypeOK, Asked, FilterOn
<1>1. ASSUME NEW k \in Kinds, Arrive(q, k) PROVE Asked(q)'
  BY <1>1 DEF Arrive
<1>2. CASE RefuseMalformed(q) \/ Unanswered(q)
  BY <1>2 DEF RefuseMalformed, Unanswered, Refused
<1>3. CASE Filter(q)
  <2>1. at'[q] = "asking" /\ FilterOn => FirstMatch(kind[q]) \notin {"allow", "block"}
    BY <1>3 DEF Filter, Allowed, Refused, Decision
  <2>2. FirstMatch(kind[q])' = FirstMatch(kind[q])
    BY <1>3, RuleKept DEF Filter
  <2> QED BY <1>3, <2>1, <2>2 DEF Filter, Allowed, Refused
<1>4. CASE Obey(q)
  BY <1>4 DEF Obey, Allowed, Refused
<1>5. ASSUME NEW a \in UserAnswers, AnswerPrompt(q, a) PROVE Asked(q)'
  <2>1. FirstMatch(kind[q])' = FirstMatch(kind[q])
    BY <1>5, RuleKept DEF AnswerPrompt
  <2> QED BY <1>5, <2>1 DEF AnswerPrompt
<1>6. CASE Scan(q) \/ Answered(q) \/ RespondBody(q) \/ RespondBare(q)
  BY <1>6 DEF Scan, SendUpstream, Refused, Answered, RespondBody, RespondBare
<1>7. CASE BodyEOF(q) \/ BodyClose(q)
  BY <1>7 DEF BodyEOF, BodyClose
<1> QED BY <1>1, <1>2, <1>3, <1>4, <1>5, <1>6, <1>7 DEF StepOf

LEMMA LastingYes ==
  /\ [action |-> "allow", remember |-> TRUE] \in UserAnswers
  /\ [action |-> "allow", remember |-> TRUE] # NoAnswer
<1>1. [action |-> "allow", remember |-> TRUE] \in UserAnswers
  BY DEF UserAnswers
<1> QED BY <1>1

LEMMA RememberedStep == RequestInv /\ RequestNext => RememberedWasSaid'
<1> SUFFICES ASSUME RequestInv, RequestNext PROVE RememberedWasSaid'
  OBVIOUS
<1>1. CASE StopProxy
  BY <1>1 DEF StopProxy, RequestInv, RememberedWasSaid
<1>2. ASSUME NEW q \in Reqs, StepOf(q), \A o \in Reqs : o # q => Apart(o)
      PROVE  RememberedWasSaid'
  <2>0. RequestTypeOK /\ Asked(q) /\ Known(q)
    BY DEF RequestInv
  <2>1. \A o \in Reqs : answer[o] # NoAnswer => answer'[o] = answer[o] /\ kind'[o] = kind[o]
    BY <1>2, <2>0, SaidKept DEF Apart
  <2>3. CASE remembered' = remembered
    BY <2>1, LastingYes, <2>3 DEF RequestInv, RememberedWasSaid
  <2>4. CASE remembered' # remembered
    <3>1. Obey(q)
      BY <1>2, <2>4 DEF StepOf, Arrive, RefuseMalformed, Filter, Unanswered, AnswerPrompt,
            Scan, Answered, RespondBody, RespondBare, BodyEOF, BodyClose
    <3>2. /\ answer[q] \in UserAnswers /\ answer[q].remember /\ kind[q] \in Kinds
          /\ remembered' = [remembered EXCEPT ![kind[q].host] = answer[q].action]
      BY <2>0, <2>4, <3>1 DEF Obey, Asked, Known
    <3>3. answer[q].action = "allow" => answer[q] = [action |-> "allow", remember |-> TRUE]
      BY <3>2 DEF UserAnswers
    <3>4. answer'[q] = answer[q] /\ kind'[q] = kind[q]
      BY <3>1 DEF Obey
    <3> SUFFICES ASSUME NEW h \in Hosts, remembered'[h] = "allow"
                 PROVE  \E o \in Reqs : /\ answer'[o] = [action |-> "allow", remember |-> TRUE]
                                        /\ kind'[o].host = h
      BY DEF RememberedWasSaid
    <3>5. CASE h = kind[q].host
      BY <2>0, <3>2, <3>3, <3>4, <3>5 DEF RequestTypeOK
    <3>6. CASE h # kind[q].host
      <4>1. remembered[h] = "allow"
        BY <2>0, <3>2, <3>6
      <4> QED BY <4>1, <2>1, LastingYes DEF RequestInv, RememberedWasSaid
    <3> QED BY <3>5, <3>6
  <2> QED BY <2>3, <2>4
<1> QED BY <1>1, <1>2, RequestSteps DEF RequestInv

\* What was approved remains so.
LEMMA ApprovedKept ==
  ASSUME RequestInv, NEW q \in Reqs, StepOf(q), \A o \in Reqs : o # q => Apart(o),
         NEW r \in Reqs, kind'[r] = kind[r], Approved(r)
  PROVE  Approved(r)'
<1>1. \A o \in Reqs : answer[o] # NoAnswer => answer'[o] = answer[o] /\ kind'[o] = kind[o]
  BY SaidKept DEF Apart, RequestInv
<1> QED BY <1>1, LastingYes DEF Approved

\* An allowed decision is one the rules, the default or an approval account for.
LEMMA DecisionLetsPass ==
  ASSUME RequestInv, NEW q \in Reqs, at[q] # "new", Decision(kind[q]) = "allow"
  PROVE  LetPass(q)
<1>1. kind[q].host \in Hosts
  BY DEF RequestInv, Known
<1>2. remembered[kind[q].host] = "allow" => Approved(q)
  BY <1>1 DEF RequestInv, RememberedWasSaid, Approved
<1> QED BY <1>2 DEF Decision, LetPass

LEMMA LetPassKept ==
  ASSUME RequestInv, NEW q \in Reqs, StepOf(q), cfg' = cfg,
         \A o \in Reqs : o # q => Apart(o),
         NEW r \in Reqs, kind'[r] = kind[r], LetPass(r)
  PROVE  LetPass(r)'
<1>1. FirstMatch(kind[r])' = FirstMatch(kind[r])
  BY RuleKept
<1> QED BY <1>1, ApprovedKept DEF LetPass, FilterOn

LEMMA PassedStep ==
  ASSUME RequestInv, NEW q \in Reqs, StepOf(q), UNCHANGED <<cfg, proxyUp>>,
         \A o \in Reqs : o # q => Apart(o), NEW r \in Reqs
  PROVE  Passed(r)'
<1>1. CASE at[r] = "scan" \/ r \in sent
  <2>1. kind'[r] = kind[r]
    BY <1>1, KindKept DEF RequestInv, Asked, Apart
  <2> QED BY <1>1, <2>1, LetPassKept DEF RequestInv, Passed
<1>2. CASE r # q
  BY <1>1, <1>2 DEF Apart, Passed
<1>3. CASE r = q /\ ~(at[q] = "scan" \/ q \in sent)
  <2>1. CASE Filter(q)
    <3>1. CASE Decision(kind[q]) = "allow"
      BY <2>1, <3>1, DecisionLetsPass, LetPassKept, <1>3 DEF Filter, Passed
    <3>2. CASE Decision(kind[q]) # "allow"
      BY <1>3, <2>1, <3>2 DEF Filter, Refused, Passed, RequestInv, RequestTypeOK
    <3> QED BY <3>1, <3>2
  <2>2. CASE Obey(q)
    <3>1. answer[q].action = "allow" => LetPass(q)
      BY <2>2 DEF Obey, LetPass, Approved, RequestInv, Asked
    <3>2. answer[q].action = "allow" => LetPass(q)'
      BY <2>2, <3>1, LetPassKept DEF Obey
    <3> QED BY <1>3, <2>2, <3>2 DEF Obey, Refused, Passed, RequestInv, RequestTypeOK
  <2>3. CASE ~Filter(q) /\ ~Obey(q)
    BY <1>3, <2>3 DEF StepOf, Arrive, RefuseMalformed, Unanswered, AnswerPrompt, Scan,
       Answered, RespondBody, RespondBare, BodyEOF, BodyClose, Refused, Passed, RequestInv,
       RequestTypeOK
  <2> QED BY <2>1, <2>2, <2>3
<1> QED BY <1>1, <1>2, <1>3

-----------------------------------------------------------------------------
(* The redaction scan *)

LEMMA Shown ==
  ASSUME NEW k \in Kinds
  PROVE  /\ Visible(k) \subseteq Carried(k) /\ Carried(k) \subseteq Secrets
         /\ k.via = "connect" => Carried(k) = {}
BY DEF Visible, Carried

\* What the scan sends on has nothing left of what a rule blocks or redacts.
LEMMA ScanSends ==
  ASSUME RequestTypeOK, NEW q \in Reqs, Known(q), Clean(q), Scan(q)
  PROVE  Clean(q)'
<1> DEFINE Held == {s \in Secrets : cfg.redact[s] \in {"redact", "block"}}
<1>1. kind[q] \in Kinds /\ at[q] = "scan" /\ cfg' = cfg /\ kind' = kind
  BY DEF Scan, Known
<1>2. Visible(kind[q]) \subseteq Carried(kind[q]) /\ Carried(kind[q]) \subseteq Secrets
  BY <1>1, Shown
<1>3. Held \cap Carried(kind[q]) \subseteq Found(kind[q])
  BY DEF Found
<1>4. entryHolds[q] \subseteq Visible(kind[q])
  BY <1>1 DEF Clean
<1>5. SeverityOf(kind[q]) = "log" => Held \cap Carried(kind[q]) = {}
  BY <1>3 DEF SeverityOf
<1>6. ~ScanOn => Held = {}
  BY DEF ScanOn
<1>7. Visible(kind[q])' = Visible(kind[q])
  BY <1>1
<1>8. entryHolds'[q] \subseteq entryHolds[q]
  BY DEF Scan, Rewritten, RequestTypeOK
<1>9. sentHolds'[q] = sentHolds[q] \/ sentHolds'[q] \cap Held = {}
  <2>1. CASE ~ScanOn \/ SeverityOf(kind[q]) = "log"
    BY <1>5, <1>6, <2>1 DEF Scan, SendUpstream, RequestTypeOK
  <2>2. CASE ScanOn /\ SeverityOf(kind[q]) # "log"
    BY <1>3, <2>2 DEF Scan, SendUpstream, RequestTypeOK
  <2> QED BY <2>1, <2>2
<1>10. q \in sent' => q \in sent \/ entryHolds'[q] \cap Held = {}
  <2>1. CASE ~ScanOn \/ SeverityOf(kind[q]) = "log"
    BY <1>2, <1>4, <1>5, <1>6, <1>8, <2>1
  <2>2. CASE ScanOn /\ SeverityOf(kind[q]) # "log"
    BY <1>2, <1>3, <1>4, <2>2 DEF Scan, SendUpstream, Rewritten, RequestTypeOK
  <2> QED BY <2>1, <2>2
<1> QED BY <1>1, <1>4, <1>7, <1>8, <1>9, <1>10 DEF Clean

LEMMA CleanStep ==
  ASSUME RequestTypeOK, NEW q \in Reqs, Known(q), Asked(q), Clean(q), StepOf(q),
         UNCHANGED <<cfg, proxyUp>>
  PROVE  Clean(q)'
<1>1. ASSUME NEW k \in Kinds, Arrive(q, k) PROVE Clean(q)'
  <2>1. q \notin sent' /\ kind'[q] = k /\ entryHolds'[q] = Visible(k) /\ sentHolds' = sentHolds
    BY <1>1 DEF Arrive, Asked, RequestTypeOK
  <2>2. Visible(kind[q])' = Visible(k)
    BY <2>1
  <2> QED BY <2>1, <2>2 DEF Clean
<1>2. CASE Scan(q)
  BY <1>2, ScanSends
<1>3. ASSUME ~Scan(q), \A k \in Kinds : ~Arrive(q, k) PROVE Clean(q)'
  <2>1. /\ kind' = kind /\ entryHolds' = entryHolds /\ sentHolds' = sentHolds /\ at[q] # "new"
        /\ \/ q \in sent' <=> q \in sent
           \/ kind[q].via = "connect"
    BY <1>3 DEF StepOf, RefuseMalformed, Filter, Obey, Unanswered, AnswerPrompt, Answered,
       RespondBody, RespondBare, BodyEOF, BodyClose, Allowed
  <2>2. Visible(kind[q])' = Visible(kind[q])
    BY <2>1
  <2>3. kind[q].via = "connect" => entryHolds[q] = {}
    BY <2>1, Shown DEF Clean, Known
  <2> QED BY <2>1, <2>2, <2>3 DEF Clean
<1> QED BY <1>1, <1>2, <1>3

-----------------------------------------------------------------------------
(* The theorems *)

LEMMA OtherKept ==
  ASSUME NEW o \in Reqs, Apart(o), UNCHANGED <<cfg, proxyUp>>,
         Known(o), Placed(o), Asked(o), Clean(o)
  PROVE  Known(o)' /\ Placed(o)' /\ Asked(o)' /\ Clean(o)'
<1> USE DEF Apart
<1>1. Known(o)'
  BY DEF Known
<1>2. Placed(o)'
  BY DEF Placed, Pending, HasEntry, Excused
<1>3. FirstMatch(kind[o])' = FirstMatch(kind[o])
  BY RuleKept
<1>4. Asked(o)'
  BY <1>3 DEF Asked, FilterOn
<1>5. Visible(kind[o])' = Visible(kind[o])
  BY DEF Visible
<1>6. Clean(o)'
  BY <1>5 DEF Clean
<1> QED BY <1>1, <1>2, <1>4, <1>6

\* Nothing of a request changes but what the proxy owes the log.
LEMMA StillKept ==
  ASSUME RequestInv,
         UNCHANGED <<cfg, remembered, at, kind, answer, attached, entryHolds, sent, sentHolds,
                     finalized, hookless, written>>,
         proxyUp' = proxyUp \/ StopProxy
  PROVE  RequestInv'
<1>1. proxyUp' \in BOOLEAN /\ (~proxyUp => ~proxyUp')
  <2>1. CASE proxyUp' = proxyUp
    BY <2>1 DEF RequestInv, RequestTypeOK
  <2>2. CASE StopProxy
    BY <2>2 DEF StopProxy
  <2> QED BY <2>1, <2>2
<1>2. RequestTypeOK' /\ RememberedWasSaid'
  BY <1>1 DEF RequestInv, RequestTypeOK, RememberedWasSaid
<1>3. ASSUME NEW q \in Reqs PROVE (Known(q) /\ Placed(q) /\ Asked(q) /\ Passed(q) /\ Clean(q))'
  <2> USE DEF RequestInv
  <2>1. FirstMatch(kind[q])' = FirstMatch(kind[q])
    BY RuleKept
  <2>2. Known(q)' /\ Placed(q)'
    BY <1>1 DEF Known, Placed, Pending, HasEntry, Excused
  <2>3. Asked(q)' /\ Passed(q)'
    BY <2>1 DEF Asked, FilterOn, Passed, LetPass, Approved
  <2>4. Visible(kind[q])' = Visible(kind[q])
    BY DEF Visible
  <2>5. Clean(q)'
    BY <2>4 DEF Clean
  <2> QED BY <2>2, <2>3, <2>5
<1> QED BY <1>2, <1>3 DEF RequestInv

LEMMA RequestInvariance == RequestSpec => []RequestInv
<1>1. RequestInit => RequestInv
  BY DEF RequestInit, RequestInv, RequestTypeOK, RememberedWasSaid, Known, Placed, Pending,
         Asked, Passed, Clean
<1>2. RequestInv /\ UNCHANGED requestVars => RequestInv'
  BY StillKept DEF requestVars
<1>3. RequestInv /\ RequestNext => RequestInv'
  <2> SUFFICES ASSUME RequestInv, RequestNext PROVE RequestInv'
    OBVIOUS
  <2>1. CASE StopProxy
    BY <2>1, StillKept DEF StopProxy
  <2>2. ASSUME NEW q \in Reqs, StepOf(q), UNCHANGED <<cfg, proxyUp>>,
               \A o \in Reqs : o # q => Apart(o)
        PROVE  RequestInv'
    <3>1. RequestTypeOK' /\ RememberedWasSaid'
      BY TypeStep, RememberedStep
    <3>2. ASSUME NEW r \in Reqs PROVE (Known(r) /\ Placed(r) /\ Asked(r) /\ Clean(r))'
      <4>1. RequestTypeOK /\ Known(r) /\ Placed(r) /\ Asked(r) /\ Clean(r)
        BY DEF RequestInv
      <4>2. CASE r = q
        BY <2>2, <4>1, <4>2, KnownStep, PlacedStep, AskedStep, CleanStep
      <4>3. CASE r # q
        BY <2>2, <4>1, <4>3, OtherKept
      <4> QED BY <4>2, <4>3
    <3>3. \A r \in Reqs : Passed(r)'
      BY <2>2, PassedStep
    <3> QED BY <3>1, <3>2, <3>3 DEF RequestInv
  <2> QED BY <2>1, <2>2, RequestSteps DEF RequestInv
<1> QED BY <1>1, <1>2, <1>3, PTL DEF RequestSpec

\* The values of the proxy's variables, at most two entries of a request among them.
THEOREM RequestTyped == RequestSpec => []RequestTypeOK
<1>1. RequestInv => RequestTypeOK
  BY DEF RequestInv
<1> QED BY <1>1, RequestInvariance, PTL

\* However the hooks of concurrent requests interleave, each request has at most one entry
\* in the log and, while the proxy runs, the one it must have; nothing the filter forbids
\* goes upstream, and no secret the redaction rules look for goes there or into the entry.
THEOREM HandledRight == RequestSpec => []HandledAsConfigured
<1>1. RequestInv => LoggedOnce
  <2> SUFFICES ASSUME RequestInv, NEW q \in Reqs
               PROVE  /\ written[q] <= 1
                      /\ proxyUp /\ at[q] = "done" /\ q \notin hookless
                           /\ kind[q].host \notin cfg.skipped => written[q] = 1
    BY DEF LoggedOnce
  <2> QED BY DEF RequestInv, RequestTypeOK, Placed, Pending, HasEntry, Excused
<1>2. RequestInv => FilterObeyed
  BY DEF RequestInv, RequestTypeOK, Passed, LetPass, FilterObeyed
<1>3. RequestInv => SecretsStay
  BY DEF RequestInv, Clean, SecretsStay
<1>4. RequestInv => HandledAsConfigured
  BY <1>1, <1>2, <1>3 DEF HandledAsConfigured, ForwardedAsConfigured
<1> QED BY <1>4, RequestInvariance, PTL

-----------------------------------------------------------------------------
(* herdr: what its proxy lets through is about the sandbox's own panes, and a
   reply goes to the request it answers.                                      *)

-----------------------------------------------------------------------------
(* Herdr: what reaches the host *)

\* The ids a connection's table must hold: of a line that was tracked and is not
\* forwarded yet, of requests herdr has, and of a reply that is not resolved.
AtPump(c) == pump[c] = "tracked"
Unresolved(c) == reply[c] # NoReq /\ c \notin relaying

Made(c, p) == p # NoPane => p \in created[SessionOf[c]]
Accepted(c, p) == p # NoPane => p \in ownedPanes[SessionOf[c]]

CopiesChecked == \A n \in Conns \X Ids : copies[n] \in {"declared", NoBody}

OwnedWereMade ==
  \A s \in Sessions : shown[s] \subseteq ownedPanes[s] /\ ownedPanes[s] \subseteq created[s]

LinesAccepted ==
  \A c \in Conns :
    /\ line[c] # NoReq => Accepted(c, line[c].pane)
    /\ \A r \in atHerdr[c] : Accepted(c, r.pane)

RepliesMade ==
  \A c \in Conns :
    /\ reply[c] # NoReq => Made(c, reply[c].pane)
                           /\ (reply[c].pane # NoPane => reply[c].method = "tab.create")
    /\ c \in relaying => reply[c] # NoReq /\ Accepted(c, reply[c].pane)

PumpAtLine ==
  \A c \in Conns :
    /\ pump[c] # "read" => line[c] # NoReq /\ connAt[c] = "open"
    /\ connAt[c] = "new" => atHerdr[c] = {}
    /\ connAt[c] # "open" => reply[c] = NoReq /\ c \notin relaying

\* An id of the table is of one request only.
OneHolder ==
  \A c \in Conns : connAt[c] = "open" =>
    /\ AtPump(c) => inFlight[c][line[c].id] = line[c].method
    /\ \A r \in atHerdr[c] : inFlight[c][r.id] = r.method
    /\ Unresolved(c) => inFlight[c][reply[c].id] = reply[c].method
    /\ \A q, r \in atHerdr[c] : q.id = r.id => q = r
    /\ \A r \in atHerdr[c] : /\ AtPump(c) => r.id # line[c].id
                             /\ Unresolved(c) => r.id # reply[c].id
    /\ AtPump(c) /\ Unresolved(c) => line[c].id # reply[c].id

HerdrInv ==
  /\ HerdrTypeOK /\ CopiesChecked /\ OwnedWereMade /\ LinesAccepted /\ RepliesMade
  /\ PumpAtLine /\ OneHolder

-----------------------------------------------------------------------------
(* What a step may change *)

\* Connections end, for whichever reason.
HangsUp(conns) ==
  Closed(conns) /\ UNCHANGED <<copies, atHerdr, ownedPanes, shown, created>>

\* A session, its sandbox or a shell of the host does something; no connection moves.
Beside == UNCHANGED <<connAt, pump, line, inFlight, atHerdr, reply, relaying, ownedPanes,
                      shown, created>>

LEMMA RequestFields ==
  ASSUME NEW r \in Requests
  PROVE  r.id \in Ids /\ r.method \in Methods /\ r.pane \in Panes \cup {NoPane}
BY DEF Requests, Methods

LEMMA ReplyFields ==
  ASSUME NEW r \in Replies
  PROVE  r.id \in Ids /\ r.method \in Methods /\ r.pane \in Panes \cup {NoPane}
BY DEF Replies

LEMMA NoReqApart ==
  NoReq \notin Methods /\ NoReq \notin Requests /\ NoReq \notin Replies
BY NoReqAssumption

LEMMA SentRequests ==
  ASSUME HerdrTypeOK, NEW c \in Conns
  PROVE  sends[c] \subseteq Requests
BY SendAssumption DEF HerdrTypeOK

LEMMA HerdrSteps ==
  HerdrNext =>
    \/ Beside
    \/ \E conns \in SUBSET Conns : HangsUp(conns)
    \/ \E c \in Conns :
         \/ Connect(c) \/ Decide(c) \/ Track(c) \/ ForwardLine(c) \/ CaptureOwnership(c)
         \/ Relay(c)
         \/ \E r \in atHerdr[c] : Answer(c, r)
<1> SUFFICES ASSUME HerdrNext
             PROVE  \/ Beside
                    \/ \E conns \in SUBSET Conns : HangsUp(conns)
                    \/ \E c \in Conns :
                         \/ Connect(c) \/ Decide(c) \/ Track(c) \/ ForwardLine(c)
                         \/ CaptureOwnership(c) \/ Relay(c)
                         \/ \E r \in atHerdr[c] : Answer(c, r)
  OBVIOUS
<1>1. ASSUME NEW s \in Sessions, SessionSteps(s)
      PROVE  Beside \/ HangsUp(ConnsOf(s))
  BY <1>1 DEF SessionSteps, ProxyStarts, ProxyStops, CleanupScripts, SessionKilled,
              SandboxWrites, hostVars, HangsUp, Beside
<1>2. ASSUME NEW c \in Conns, NEW i \in Ids, ShellRuns(<<c, i>>) PROVE Beside
  BY <1>2 DEF ShellRuns, Beside
<1>3. ASSUME NEW c \in Conns, Disconnect(c) PROVE HangsUp({c})
  BY <1>3 DEF Disconnect, sessionVars, hostVars, HangsUp
<1> QED BY <1>1, <1>2, <1>3 DEF HerdrNext, ConnSteps, ConnsOf

-----------------------------------------------------------------------------

USE HerdrAssumption

LEMMA OwnedStep == HerdrInv /\ HerdrNext => OwnedWereMade'
<1> SUFFICES ASSUME HerdrInv, HerdrNext PROVE OwnedWereMade'
  OBVIOUS
<1> USE DEF HerdrInv
<1>1. CASE Beside
  BY <1>1 DEF Beside, OwnedWereMade
<1>2. ASSUME NEW conns \in SUBSET Conns, HangsUp(conns) PROVE OwnedWereMade'
  BY <1>2 DEF HangsUp, OwnedWereMade
<1>3. ASSUME NEW c \in Conns, Connect(c) PROVE OwnedWereMade'
  BY <1>3 DEF Connect, sessionVars, hostVars, OwnedWereMade
<1>4. ASSUME NEW c \in Conns, Decide(c) PROVE OwnedWereMade'
  BY <1>4 DEF Decide, sessionVars, hostVars, PumpGo, Relocated, OwnedWereMade
<1>5. ASSUME NEW c \in Conns, Track(c) PROVE OwnedWereMade'
  BY <1>5 DEF Track, sessionVars, hostVars, OwnedWereMade
<1>6. ASSUME NEW c \in Conns, ForwardLine(c) PROVE OwnedWereMade'
  BY <1>6 DEF ForwardLine, sessionVars, hostVars, OwnedWereMade
<1>7. ASSUME NEW c \in Conns, CaptureOwnership(c) PROVE OwnedWereMade'
  <2>1. reply[c].pane # NoPane => reply[c].pane \in created[SessionOf[c]]
    BY <1>7 DEF CaptureOwnership, RepliesMade, Made
  <2>2. UNCHANGED <<created, shown>>
    BY <1>7 DEF CaptureOwnership, hostVars
  <2>3. \A s \in Sessions : /\ ownedPanes[s] \subseteq ownedPanes'[s]
                           /\ ownedPanes'[s] \subseteq created[s]
    BY <1>7, <2>1 DEF CaptureOwnership, OwnedWereMade
  <2> QED BY <2>2, <2>3 DEF OwnedWereMade
<1>8. ASSUME NEW c \in Conns, Relay(c) PROVE OwnedWereMade'
  BY <1>8 DEF Relay, hostVars, OwnedWereMade, RepliesMade, Accepted
<1>9. ASSUME NEW c \in Conns, NEW r \in atHerdr[c], Answer(c, r) PROVE OwnedWereMade'
  BY <1>9 DEF Answer, OwnedWereMade
<1> QED BY <1>1, <1>2, <1>3, <1>4, <1>5, <1>6, <1>7, <1>8, <1>9, HerdrSteps

LEMMA LinesStep == HerdrInv /\ HerdrNext => LinesAccepted'
<1> SUFFICES ASSUME HerdrInv, HerdrNext PROVE LinesAccepted'
  OBVIOUS
<1> USE DEF HerdrInv
<1>1. CASE Beside
  BY <1>1 DEF Beside, LinesAccepted, Accepted
<1>2. ASSUME NEW conns \in SUBSET Conns, HangsUp(conns) PROVE LinesAccepted'
  BY <1>2 DEF HangsUp, Closed, LinesAccepted, Accepted
<1>3. ASSUME NEW c \in Conns, Connect(c) PROVE LinesAccepted'
  BY <1>3 DEF Connect, sessionVars, hostVars, LinesAccepted, Accepted
<1>4. ASSUME NEW c \in Conns, Decide(c) PROVE LinesAccepted'
  <2>1. PICK r \in Requests : PumpGo(c, "decided", r) /\ Accepted(c, r.pane)
    BY <1>4, SentRequests DEF Decide, OwnsTarget, Accepted, Requests
  <2>2. UNCHANGED <<atHerdr, ownedPanes>>
    BY <1>4 DEF Decide
  <2>3. line' = [line EXCEPT ![c] = r] /\ line \in [Conns -> Requests \cup {NoReq}]
    BY <2>1 DEF PumpGo, HerdrTypeOK
  <2> QED BY <2>1, <2>2, <2>3 DEF LinesAccepted, Accepted
<1>5. ASSUME NEW c \in Conns, Track(c) PROVE LinesAccepted'
  <2>1. UNCHANGED <<atHerdr, ownedPanes>>
    BY <1>5 DEF Track
  <2>2. \A d \in Conns : line'[d] \in {line[d], NoReq}
    BY <1>5 DEF Track, PumpGo, HerdrTypeOK
  <2> QED BY <2>1, <2>2 DEF LinesAccepted, Accepted
<1>6. ASSUME NEW c \in Conns, ForwardLine(c) PROVE LinesAccepted'
  BY <1>6 DEF ForwardLine, sessionVars, hostVars, PumpGo, LinesAccepted, PumpAtLine,
         Accepted
<1>7. ASSUME NEW c \in Conns, CaptureOwnership(c) PROVE LinesAccepted'
  BY <1>7 DEF CaptureOwnership, sessionVars, hostVars, LinesAccepted, Accepted
<1>8. ASSUME NEW c \in Conns, Relay(c) PROVE LinesAccepted'
  BY <1>8 DEF Relay, sessionVars, hostVars, LinesAccepted, Accepted
<1>9. ASSUME NEW c \in Conns, NEW r \in atHerdr[c], Answer(c, r) PROVE LinesAccepted'
  BY <1>9 DEF Answer, LinesAccepted, Accepted
<1> QED BY <1>1, <1>2, <1>3, <1>4, <1>5, <1>6, <1>7, <1>8, <1>9, HerdrSteps

LEMMA RepliesStep == HerdrInv /\ HerdrNext => RepliesMade'
<1> SUFFICES ASSUME HerdrInv, HerdrNext PROVE RepliesMade'
  OBVIOUS
<1> USE DEF HerdrInv
<1>1. CASE Beside
  BY <1>1 DEF Beside, RepliesMade, OneHolder, PumpAtLine, Made, Accepted
<1>2. ASSUME NEW conns \in SUBSET Conns, HangsUp(conns) PROVE RepliesMade'
  BY <1>2 DEF HangsUp, Closed, RepliesMade, OneHolder, PumpAtLine, Made, Accepted
<1>3. ASSUME NEW c \in Conns, Connect(c) PROVE RepliesMade'
  BY <1>3 DEF Connect, sessionVars, hostVars, RepliesMade, OneHolder, PumpAtLine,
         OwnedWereMade, Made, Accepted
<1>4. ASSUME NEW c \in Conns, Decide(c) PROVE RepliesMade'
  BY <1>4 DEF Decide, sessionVars, hostVars, PumpGo, Relocated, OwnsTarget, RepliesMade,
         OneHolder, PumpAtLine, OwnedWereMade, Made, Accepted
<1>5. ASSUME NEW c \in Conns, Track(c) PROVE RepliesMade'
  BY <1>5 DEF Track, sessionVars, hostVars, PumpGo, RepliesMade, OneHolder, PumpAtLine,
         OwnedWereMade, Made, Accepted
<1>6. ASSUME NEW c \in Conns, ForwardLine(c) PROVE RepliesMade'
  BY <1>6 DEF ForwardLine, sessionVars, hostVars, PumpGo, RepliesMade, OneHolder,
         PumpAtLine, OwnedWereMade, Made, Accepted
<1>7. ASSUME NEW c \in Conns, CaptureOwnership(c) PROVE RepliesMade'
  BY <1>7 DEF CaptureOwnership, sessionVars, hostVars, RepliesMade, OneHolder, PumpAtLine,
         OwnedWereMade, Made, Accepted, Unresolved, HerdrTypeOK
<1>8. ASSUME NEW c \in Conns, Relay(c) PROVE RepliesMade'
  BY <1>8 DEF Relay, sessionVars, hostVars, RepliesMade, OneHolder, PumpAtLine,
         OwnedWereMade, Made, Accepted
<1>9. ASSUME NEW c \in Conns, NEW r \in atHerdr[c], Answer(c, r) PROVE RepliesMade'
  BY <1>9 DEF Answer, RepliesMade, OneHolder, PumpAtLine, OwnedWereMade, Made, Accepted,
         HerdrTypeOK
<1> QED BY <1>1, <1>2, <1>3, <1>4, <1>5, <1>6, <1>7, <1>8, <1>9, HerdrSteps

LEMMA PumpStep == HerdrInv /\ HerdrNext => PumpAtLine'
<1> SUFFICES ASSUME HerdrInv, HerdrNext PROVE PumpAtLine'
  OBVIOUS
<1> USE DEF HerdrInv
<1>1. CASE Beside
  BY <1>1 DEF Beside, PumpAtLine
<1>2. ASSUME NEW conns \in SUBSET Conns, HangsUp(conns) PROVE PumpAtLine'
  BY <1>2 DEF HangsUp, Closed, PumpAtLine
<1>3. ASSUME NEW c \in Conns, Connect(c) PROVE PumpAtLine'
  BY <1>3 DEF Connect, sessionVars, hostVars, PumpAtLine
<1>4. ASSUME NEW c \in Conns, Decide(c) PROVE PumpAtLine'
  BY <1>4, SentRequests, NoReqApart
     DEF Decide, sessionVars, hostVars, PumpGo, Relocated, OwnsTarget,
         PumpAtLine, HerdrTypeOK
<1>5. ASSUME NEW c \in Conns, Track(c) PROVE PumpAtLine'
  BY <1>5 DEF Track, sessionVars, hostVars, PumpGo, PumpAtLine, HerdrTypeOK
<1>6. ASSUME NEW c \in Conns, ForwardLine(c) PROVE PumpAtLine'
  BY <1>6 DEF ForwardLine, sessionVars, hostVars, PumpGo, PumpAtLine, HerdrTypeOK
<1>7. ASSUME NEW c \in Conns, CaptureOwnership(c) PROVE PumpAtLine'
  BY <1>7 DEF CaptureOwnership, sessionVars, hostVars, PumpAtLine
<1>8. ASSUME NEW c \in Conns, Relay(c) PROVE PumpAtLine'
  BY <1>8 DEF Relay, sessionVars, hostVars, PumpAtLine
<1>9. ASSUME NEW c \in Conns, NEW r \in atHerdr[c], Answer(c, r) PROVE PumpAtLine'
  BY <1>9 DEF Answer, PumpAtLine
<1> QED BY <1>1, <1>2, <1>3, <1>4, <1>5, <1>6, <1>7, <1>8, <1>9, HerdrSteps

LEMMA HolderStep == HerdrInv /\ HerdrNext => OneHolder'
<1> SUFFICES ASSUME HerdrInv, HerdrNext PROVE OneHolder'
  OBVIOUS
<1> USE DEF HerdrInv
<1>1. CASE Beside
  BY <1>1 DEF Beside, OneHolder, AtPump, Unresolved
<1>2. ASSUME NEW conns \in SUBSET Conns, HangsUp(conns) PROVE OneHolder'
  BY <1>2 DEF HangsUp, Closed, OneHolder, AtPump, Unresolved
<1>3. ASSUME NEW c \in Conns, Connect(c) PROVE OneHolder'
  BY <1>3 DEF Connect, sessionVars, hostVars, OneHolder, PumpAtLine, AtPump, Unresolved
<1>4. ASSUME NEW c \in Conns, Decide(c) PROVE OneHolder'
  <2>1. pump[c] = "read" /\ pump' = [pump EXCEPT ![c] = "decided"]
        /\ \A d \in Conns : d # c => line'[d] = line[d]
    BY <1>4 DEF Decide, PumpGo, HerdrTypeOK
  <2>2. pump \in [Conns -> {"read", "decided", "tracked"}]
        /\ UNCHANGED <<connAt, inFlight, atHerdr, reply, relaying>>
    BY <1>4 DEF Decide, HerdrTypeOK
  <2> QED BY <2>1, <2>2 DEF OneHolder, AtPump, Unresolved
<1>5. ASSUME NEW c \in Conns, Track(c) PROVE OneHolder'
  <2> DEFINE i == line[c].id
  <2>1. /\ UNCHANGED <<connAt, atHerdr, reply, relaying>>
        /\ pump \in [Conns -> {"read", "decided", "tracked"}]
        /\ inFlight \in [Conns -> [Ids -> Methods \cup {NoReq}]]
        /\ \A d \in Conns : reply[d] # NoReq => reply[d] \in Replies
        /\ \A d \in Conns : line[d] # NoReq => line[d] \in Requests
        /\ line \in [Conns -> Requests \cup {NoReq}]
        /\ \A d \in Conns : \A r \in atHerdr[d] : r \in Requests
    BY <1>5 DEF Track, HerdrTypeOK
  <2>2. line[c] # NoReq /\ pump[c] = "decided"
    BY <1>5 DEF Track, PumpAtLine
  <2>3. CASE Trackable(c, i)
    <3>1. /\ inFlight' = [inFlight EXCEPT ![c][i] = line[c].method]
          /\ pump' = [pump EXCEPT ![c] = "tracked"] /\ line' = line
          /\ inFlight[c][i] = NoReq /\ i \in Ids
      BY <1>5, <2>1, <2>2, <2>3, RequestFields DEF Track, PumpGo, Trackable, Tracked
    <3>2. \A r \in atHerdr[c] : connAt[c] = "open" => r.id # i
      BY <2>1, <3>1, RequestFields, NoReqApart DEF OneHolder
    <3>3. connAt[c] = "open" /\ Unresolved(c) => reply[c].id # i
      BY <2>1, <3>1, ReplyFields, NoReqApart DEF OneHolder, Unresolved
    <3> QED BY <2>1, <3>1, <3>2, <3>3 DEF OneHolder, AtPump, Unresolved
  <2>4. CASE ~Trackable(c, i)
    BY <1>5, <2>1, <2>2, <2>4 DEF Track, PumpGo, OneHolder, AtPump, Unresolved
  <2> QED BY <2>3, <2>4
<1>6. ASSUME NEW c \in Conns, ForwardLine(c) PROVE OneHolder'
  BY <1>6 DEF ForwardLine, sessionVars, hostVars, PumpGo, OneHolder, PumpAtLine, AtPump,
         Unresolved, HerdrTypeOK
<1>7. ASSUME NEW c \in Conns, CaptureOwnership(c) PROVE OneHolder'
  BY <1>7 DEF CaptureOwnership, sessionVars, hostVars, OneHolder, PumpAtLine, AtPump,
         Unresolved
<1>8. ASSUME NEW c \in Conns, Relay(c) PROVE OneHolder'
  BY <1>8 DEF Relay, sessionVars, hostVars, OneHolder, PumpAtLine, AtPump, Unresolved,
         HerdrTypeOK
<1>9. ASSUME NEW c \in Conns, NEW r \in atHerdr[c], Answer(c, r) PROVE OneHolder'
  BY <1>9 DEF Answer, OneHolder, PumpAtLine, AtPump, Unresolved, HerdrTypeOK
<1> QED BY <1>1, <1>2, <1>3, <1>4, <1>5, <1>6, <1>7, <1>8, <1>9, HerdrSteps

LEMMA HerdrTypeStep == HerdrTypeOK /\ PumpAtLine /\ RepliesMade /\ HerdrNext => HerdrTypeOK'
<1> SUFFICES ASSUME HerdrTypeOK, PumpAtLine, RepliesMade, HerdrNext PROVE HerdrTypeOK'
  OBVIOUS
<1>1. ASSUME NEW s \in Sessions, SessionSteps(s) PROVE HerdrTypeOK'
  <2>1. CASE ProxyStarts(s)
    BY <2>1 DEF ProxyStarts, hostVars, HerdrTypeOK
  <2>5. CASE CleanupScripts(s)
    BY <2>5 DEF CleanupScripts, hostVars, HerdrTypeOK
  <2>2. CASE SandboxWrites(s)
    BY <2>2 DEF SandboxWrites, hostVars, HerdrTypeOK
  <2>3. CASE ProxyStops(s)
    BY <2>3 DEF ProxyStops, Closed, hostVars, HerdrTypeOK
  <2>4. CASE SessionKilled(s)
    BY <2>4 DEF SessionKilled, Closed, hostVars, HerdrTypeOK
  <2> QED BY <1>1, <2>1, <2>2, <2>3, <2>4, <2>5 DEF SessionSteps
<1>2. ASSUME NEW c \in Conns, ConnSteps(c) PROVE HerdrTypeOK'
  <2>1. CASE Connect(c)
    <3>1. connAt' \in [Conns -> {"new", "open", "closed"}]
      BY <2>1 DEF Connect, HerdrTypeOK
    <3> QED BY <2>1, <3>1 DEF Connect, sessionVars, hostVars, HerdrTypeOK
  <2>2. CASE Decide(c)
    <3>1. PICK r \in Requests : PumpGo(c, "decided", r) /\ (copies' = copies \/ Relocated(c, r))
      BY <2>2, SentRequests DEF Decide
    <3>2. copies' \in [Conns \X Ids -> Bodies \cup {NoBody}]
      BY <3>1 DEF Relocated, Bodies, HerdrTypeOK
    <3> QED BY <2>2, <3>1, <3>2 DEF Decide, PumpGo, hostVars, HerdrTypeOK
  <2>3. CASE Track(c)
    <3>0. line[c] \in Requests
      BY <2>3 DEF Track, HerdrTypeOK, PumpAtLine
    <3>1. line[c].id \in Ids /\ line[c].method \in Methods
      BY <3>0, RequestFields
    <3>2. inFlight' \in [Conns -> [Ids -> Methods \cup {NoReq}]]
      <4>1. inFlight \in [Conns -> [Ids -> Methods \cup {NoReq}]]
        BY DEF HerdrTypeOK
      <4> QED BY <2>3, <3>1, <4>1 DEF Track
    <3> QED BY <2>3, <3>0, <3>1, <3>2 DEF Track, PumpGo, sessionVars, hostVars, HerdrTypeOK
  <2>4. CASE ForwardLine(c)
    <3>1. line[c] \in Requests
      BY <2>4 DEF ForwardLine, HerdrTypeOK, PumpAtLine
    <3> QED BY <2>4, <3>1 DEF ForwardLine, PumpGo, sessionVars, hostVars, HerdrTypeOK
  <2>5. CASE CaptureOwnership(c)
    <3>1. reply[c] \in Replies /\ reply[c].id \in Ids
      BY <2>5, ReplyFields DEF CaptureOwnership, HerdrTypeOK
    <3>2. inFlight' \in [Conns -> [Ids -> Methods \cup {NoReq}]]
      BY <2>5, <3>1 DEF CaptureOwnership, HerdrTypeOK
    <3>3. ownedPanes' \in [Sessions -> SUBSET Panes]
      BY <2>5, <3>1, ReplyFields DEF CaptureOwnership, HerdrTypeOK
    <3> QED BY <2>5, <3>2, <3>3 DEF CaptureOwnership, sessionVars, hostVars, HerdrTypeOK
  <2>8. CASE Relay(c)
    <3>1. {reply[c].pane} \ {NoPane} \subseteq Panes
      BY <2>8, ReplyFields DEF Relay, HerdrTypeOK, RepliesMade
    <3> QED BY <2>8, <3>1 DEF Relay, sessionVars, hostVars, HerdrTypeOK
  <2>9. CASE Disconnect(c)
    BY <2>9 DEF Disconnect, Closed, sessionVars, hostVars, HerdrTypeOK
  <2>6. ASSUME NEW r \in atHerdr[c], Answer(c, r) PROVE HerdrTypeOK'
    <3>1. r.id \in Ids /\ r.method \in Methods
      BY RequestFields DEF HerdrTypeOK
    <3> QED BY <2>6, <3>1 DEF Answer, sessionVars, Replies, HerdrTypeOK
  <2>7. ASSUME NEW i \in Ids, ShellRuns(<<c, i>>) PROVE HerdrTypeOK'
    BY <2>7 DEF ShellRuns, sessionVars, HerdrTypeOK
  <2> QED BY <1>2, <2>1, <2>2, <2>3, <2>4, <2>5, <2>6, <2>7, <2>8, <2>9 DEF ConnSteps
<1> QED BY <1>1, <1>2 DEF HerdrNext

LEMMA CopiesStep == HerdrTypeOK /\ CopiesChecked /\ HerdrNext => CopiesChecked'
<1> SUFFICES ASSUME HerdrTypeOK, CopiesChecked, HerdrNext PROVE CopiesChecked'
  OBVIOUS
<1>1. ASSUME NEW s \in Sessions, SessionSteps(s) PROVE CopiesChecked'
  BY <1>1 DEF SessionSteps, ProxyStarts, ProxyStops, CleanupScripts, SessionKilled,
              SandboxWrites, CopiesChecked
<1>2. ASSUME NEW c \in Conns, Decide(c) PROVE CopiesChecked'
  BY <1>2 DEF Decide, Relocated, CopiesChecked, HerdrTypeOK
<1>3. ASSUME NEW c \in Conns, ConnSteps(c), ~Decide(c) PROVE copies' = copies
  BY <1>3 DEF ConnSteps, Connect, Track, ForwardLine, CaptureOwnership, Relay, Disconnect,
              Answer, ShellRuns, sessionVars
<1> QED BY <1>1, <1>2, <1>3 DEF HerdrNext, CopiesChecked

LEMMA HerdrInvariance == HerdrSpec => []HerdrInv
<1>1. HerdrInit => HerdrInv
  <2> SUFFICES ASSUME HerdrInit PROVE HerdrInv
    OBVIOUS
  <2> USE DEF HerdrInit
  <2>1. HerdrTypeOK
    BY DEF HerdrTypeOK, Bodies
  <2>2. CopiesChecked /\ OwnedWereMade
    BY DEF CopiesChecked, OwnedWereMade
  <2>3. LinesAccepted /\ RepliesMade /\ PumpAtLine
    BY DEF LinesAccepted, RepliesMade, PumpAtLine
  <2>4. OneHolder
    BY DEF OneHolder
  <2> QED BY <2>1, <2>2, <2>3, <2>4 DEF HerdrInv
<1>2. HerdrInv /\ UNCHANGED herdrVars => HerdrInv'
  <2> SUFFICES ASSUME HerdrInv, UNCHANGED herdrVars PROVE HerdrInv'
    OBVIOUS
  <2> USE DEF herdrVars, HerdrInv
  <2>1. HerdrTypeOK' /\ CopiesChecked' /\ OwnedWereMade'
    BY DEF HerdrTypeOK, CopiesChecked, OwnedWereMade
  <2>2. LinesAccepted' /\ RepliesMade' /\ PumpAtLine'
    BY DEF LinesAccepted, RepliesMade, PumpAtLine, Accepted, Made
  <2>3. OneHolder'
    BY DEF OneHolder, AtPump, Unresolved
  <2> QED BY <2>1, <2>2, <2>3
<1>3. HerdrInv /\ HerdrNext => HerdrInv'
  BY HerdrTypeStep, CopiesStep, OwnedStep, LinesStep, RepliesStep, PumpStep, HolderStep
     DEF HerdrInv
<1> QED BY <1>1, <1>2, <1>3, PTL DEF HerdrSpec

\* The herdr proxy keeps to the values of its variables.
THEOREM HerdrTyped == HerdrSpec => []HerdrTypeOK
<1>1. HerdrInv => HerdrTypeOK
  BY DEF HerdrInv
<1> QED BY <1>1, HerdrInvariance, PTL

\* The correlator gives each reply the method of its own request, although clients
\* choose the ids and use them again, and herdr answers in any order.
THEOREM RepliesAttributed == HerdrSpec => []RightlyAttributed
<1>1. HerdrInv => RightlyAttributed
  BY DEF HerdrInv, OneHolder, Unresolved, RightlyAttributed
<1> QED BY <1>1, HerdrInvariance, PTL

\* What Filter.Decide lets through is about panes made for this sandbox, a host shell
\* runs a launch script as it was checked, and a pane the sandbox was told of is accepted.
THEOREM InputChecked == HerdrSpec => []InputAsChecked
<1>1. HerdrInv => OwnPanesOnly
  BY DEF HerdrInv, HerdrTypeOK, LinesAccepted, Accepted, OwnedWereMade, OwnPanesOnly
<1>2. HerdrInv => RunsAsChecked
  BY DEF HerdrInv, HerdrTypeOK, CopiesChecked, RunsAsChecked, Named
<1>3. HerdrInv => OwnedBeforeShown
  BY DEF HerdrInv, OwnedWereMade, OwnedBeforeShown
<1> QED BY <1>1, <1>2, <1>3, HerdrInvariance, PTL DEF InputAsChecked
==============================================================================
