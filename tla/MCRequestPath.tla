---------------------------- MODULE MCRequestPath ----------------------------
(***************************************************************************)
(* Instances of RequestPath.                                               *)
(***************************************************************************)
EXTENDS RequestPath, TLC

CONSTANTS q1, q2, h1, h2

Connects == [via |-> "connect", hasURL |-> TRUE, host |-> h1, path |-> "p",
             holds |-> {}, readable |-> TRUE]
Sends(h, p, holds) == [via |-> "http", hasURL |-> TRUE, host |-> h, path |-> p,
                       holds |-> holds, readable |-> TRUE]
\* Plain requests to what the rules below tell apart, a malformed one, and ones
\* that carry secrets at each place or cannot be scanned.
MCKinds ==
  {Connects, [Sends(h1, "p", {}) EXCEPT !.hasURL = FALSE],
   Sends(h1, "p", {}), Sends(h1, "q", {}), Sends(h2, "p", {}),
   Sends(h1, "q", {<<"k1", "rest">>, <<"k2", "url">>}),
   [Sends(h1, "q", {<<"k1", "prefix">>}) EXCEPT !.readable = FALSE],
   Sends(h1, "q", {<<"k3", "header">>, <<"k2", "url">>})}
MCSecrets == {"k1", "k2", "k3"}
Rule(scope, on, action) == [scope |-> scope, on |-> on, action |-> action]
Redact(a, b, c) == ("k1" :> a) @@ ("k2" :> b) @@ ("k3" :> c)
\* A default that blocks with a rule that asks; one that allows with a block
\* behind a rule that asks; transparent mode; no filter.
MCConfigs ==
  {[mitm |-> TRUE, remember |-> TRUE, default |-> "block", skipped |-> {},
    rules |-> <<Rule("path", {"p"}, "ask"), Rule("host", {h2}, "allow")>>,
    redact |-> Redact("block", "redact", "log")],
   [mitm |-> TRUE, remember |-> TRUE, default |-> "allow", skipped |-> {h2},
    rules |-> <<Rule("path", {"p"}, "ask"), Rule("host", {h1}, "block")>>,
    redact |-> Redact("off", "redact", "log")],
   [mitm |-> FALSE, remember |-> TRUE, default |-> "ask", skipped |-> {},
    rules |-> <<Rule("host", {h2}, "block")>>,
    redact |-> Redact("off", "off", "off")],
   [mitm |-> TRUE, remember |-> FALSE, default |-> "off", skipped |-> {},
    rules |-> <<>>, redact |-> Redact("off", "redact", "log")]}
=============================================================================
