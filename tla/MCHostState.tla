----------------------------- MODULE MCHostState -----------------------------
(***************************************************************************)
(* The parts of devsandbox that share no state with each other: each works *)
(* on files, a container or a connection of its own.  A behaviour picks    *)
(* one part and lets it run while the others rest in one initial state, so *)
(* the states of the run are the sum of theirs, not the product.           *)
(***************************************************************************)
EXTENDS SessionStore, ContainerLaunch, Worktree, OverlayMigrate, HerdrProxy,
        MCRequestPath, MCMountPlan

CONSTANTS
  l1, l2, client,                      \* SessionStore
  u1, u2, e1, e2, envFile,             \* ContainerLaunch
  m1, m2, ba, bb, sweeper,             \* Worktree
  s1, c1, c2, i1, i2, userPane, pane   \* HerdrProxy

VARIABLE part    \* the part that runs

hostStateVars == <<storeVars, ctrVars, treeVars, migrateVars, herdrVars,
                   requestVars, planVars, part>>

-----------------------------------------------------------------------------
(* Instances *)

MCNames == 1..2
MCAskedNames == {1}

\* Two launches that ask for the same, or for another environment and ports.
Base == [proxy |-> TRUE, hashed |-> 1, env |-> e1, files |-> {envFile}, hide |-> TRUE]
MCSettings == {Base, [Base EXCEPT !.hashed = 2, !.env = e2]}

\* A directory, one in it, and a file or a directory in that.
MCRels == {<<"d">>, <<"d", "a">>, <<"d", "a", "x">>}
MCWalkOrder == << <<"d">>, <<"d", "a">>, <<"d", "a", "x">> >>

\* Two connections of one session.  One is alone and sends anything with either id, or
\* a launcher's, which makes tabs, has beside it the one that types into them and closes
\* them, with the same id.
MCSessionOf == (c1 :> s1) @@ (c2 :> s1)
Sent(methods, ids) == {r \in Requests : r.method \in methods /\ r.id \in ids}
MCSendChoices ==
  {(c1 :> Requests) @@ (c2 :> {}),
   (c1 :> Sent({"tab.create", "pane.send_input"}, {i1}))
     @@ (c2 :> Sent({"pane.send_input", "tab.close"}, {i1}))}

-----------------------------------------------------------------------------
(* The sum *)

HostParts == {"store", "container", "tree", "overlay", "herdr", "request", "plan"}

\* Opaque directories and special files come in the upper merged last.
PlainPrimary == \A p \in Rels : uppers[1][p] \notin {"opaque", "special"}
NothingToMigrate ==
  /\ uppers = [i \in 1..2 |-> [p \in Rels |-> "none"]]
  /\ host = [p \in Rels |-> None] /\ before = host
  /\ plan = <<>> /\ phase = "start" /\ runs = 0 /\ wasKilled = FALSE

NothingPlanned ==
  /\ project = MCProject /\ rules = <<>> /\ tools = {} /\ option = PlainOption
  /\ stage = "base" /\ mounts = <<>> /\ env = << >>
  /\ panicked = FALSE /\ setupError = FALSE /\ agentWrapper = FALSE

HostStateInit ==
  /\ part \in HostParts
  /\ StoreInit
  /\ ContainerInit
  /\ part # "container" =>
       net = NoNet /\ ctr = NoCtr /\ \A u \in Users : want[u] = Base
  /\ WorktreeInit
  /\ part # "tree" =>
       refs = {} /\ rmFlag = {} /\ \A m \in Makers : branchOf[m] = ba
  /\ IF part = "overlay" THEN MigrateInit /\ PlainPrimary ELSE NothingToMigrate
  /\ HerdrInit
  /\ part # "herdr" => sends[c2] = {}
  /\ RequestInit
  /\ part # "request" => cfg.default = "off"
  /\ IF part = "plan" THEN PlanInit /\ (option \notin RuledOptions => rules = <<>>)
     ELSE NothingPlanned

HostStateNext ==
  \/ /\ part = "store" /\ StoreNext
     /\ UNCHANGED <<part, ctrVars, treeVars, migrateVars, herdrVars, requestVars,
                    planVars>>
  \/ /\ part = "container" /\ ContainerNext
     /\ UNCHANGED <<part, storeVars, treeVars, migrateVars, herdrVars, requestVars,
                    planVars>>
  \/ /\ part = "tree" /\ WorktreeNext
     /\ UNCHANGED <<part, storeVars, ctrVars, migrateVars, herdrVars, requestVars,
                    planVars>>
  \/ /\ part = "overlay" /\ MigrateNext
     /\ UNCHANGED <<part, storeVars, ctrVars, treeVars, herdrVars, requestVars,
                    planVars>>
  \/ /\ part = "herdr" /\ HerdrNext
     /\ UNCHANGED <<part, storeVars, ctrVars, treeVars, migrateVars, requestVars,
                    planVars>>
  \/ /\ part = "request" /\ RequestNext
     /\ UNCHANGED <<part, storeVars, ctrVars, treeVars, migrateVars, herdrVars,
                    planVars>>
  \/ /\ part = "plan" /\ PlanNext
     /\ UNCHANGED <<part, storeVars, ctrVars, treeVars, migrateVars, herdrVars,
                    requestVars>>

HostStateSpec == HostStateInit /\ [][HostStateNext]_hostStateVars

\* The type invariants of the parts, of the one that runs.
HostStateTypeOK ==
  /\ part \in HostParts
  /\ part = "store" => StoreTypeOK
  /\ part = "container" => ContainerTypeOK
  /\ part = "tree" => WorktreeTypeOK
  /\ part = "overlay" => MigrateTypeOK
  /\ part = "herdr" => HerdrTypeOK
  /\ part = "request" => RequestTypeOK
  /\ part = "plan" => PlanTypeOK
=============================================================================
