---------------------------- MODULE MCHostRecords ----------------------------
(***************************************************************************)
(* The parts that write what the next launch, or the user, will read: log  *)
(* files and what reads them, the metadata's OOM record, the report of a   *)
(* failed lockdown, the approvals of project files, the sandbox home a     *)
(* container's shim fills, and what a removal leaves of a sandbox.  As in  *)
(* MCHostState one part runs in a behaviour, and the others rest in one    *)
(* initial state.                                                          *)
(***************************************************************************)
EXTENDS LogView, OOMWatch, EgressLaunch, ConfigTrust, ShimSetup,
        SandboxRemoval, TLC

CONSTANTS
  s1, s2,          \* RotatingLog, LogView
  w1, w2,          \* OOMWatch
  t1, t2, d1, d2,  \* ConfigTrust
  v1, v2           \* ShimSetup

VARIABLE part    \* the part that runs

recordsVars == <<vars, readerVars, oomVars, egressVars, trustVars, shimVars,
                 removalVars, part>>
RecordParts == {"log", "view", "oom", "egress", "trust", "shim", "removal"}

-----------------------------------------------------------------------------
(* Instances *)

MCQuota == s1 :> 2 @@ s2 :> 1
MCViewQuota == s1 :> 2 @@ s2 :> 1
MCMatching == {<<s1, 1>>, <<s2, 1>>}

\* A watched session, and another of its sandbox that only writes the metadata.
MCKillLimit == w1 :> 2 @@ w2 :> 0

MCOutboundLists == {<<>>, <<"db">>, <<"db", "web">>}

\* A user who set redaction and one who set limits; a file that loosens, one that
\* tightens, one that does not validate; an include for one project, and one whose
\* file is missing.
Sets(redact, action, scan, body, isolation, rule, forward, ports) ==
  [redact |-> redact, action |-> action, scan |-> scan, body |-> body,
   isolation |-> isolation, rules |-> rule, forward |-> forward, ports |-> ports]
MCGlobals ==
  {Sets("on", "redact", 0, Unset, "unset", <<"g">>, "on", <<3000>>),
   Sets("unset", "unset", 2, 2, "bwrap", <<>>, "unset", <<>>)}
MCLocalFiles ==
  {Sets("off", "log", 2, 0, "unset", <<"l">>, "unset", <<3000>>),
   Sets("on", "block", 0, 1, "docker", <<>>, "on", <<4000>>),
   Sets("on", "block", 0, 2, "docker", <<>>, "on", <<3000, 3000>>)}
MCIncludes ==
  << [projects |-> {d2}, file |-> Sets("on", "unset", 2, 2, "unset", <<"i">>, "unset", <<>>)],
     [projects |-> {d1, d2}, file |-> NoFile] >>

\* A copied directory with a file, a link, and a directory that may hold a
\* mount.
MCHomePaths ==
  {<<"c">>, <<"c", "t">>, <<"c", "t", "f">>, <<"c", "t", "s">>, <<"c", "t", "s", "m">>,
   <<"c", "t", "s", "y">>}
MCXdgDirs == {<<"c">>}
MCOverlays == << <<"c", "t">> >>
MCShared ==
  [p \in MCHomePaths |-> CASE p = <<"c", "t", "f">> -> "host"
                           [] p = <<"c", "t", "s", "y">> -> "link"
                           [] OTHER -> "dir"]
MCMountSets == {{}, {<<"c", "t", "s", "m">>}}
\* A version both ship, and one the host alone does, with a link into the host's home.
MCShips ==
  [baked |-> v1 :> {"bin", "lib"} @@ v2 :> {}, host |-> v1 :> {"bin"} @@ v2 :> {"bin", "old"}]
MCDangling == [baked |-> {}, host |-> {"old"}]

\* A sandbox of each kind, both of scratchpads; the container was made before the
\* sandbox was last used.
MCUsed == <<"boxed", "disk">> :> 2 @@ <<"boxed", "docker">> :> 1 @@ <<"pad", "disk">> :> 3
PruneOption(all, orphaned, keep, older, volumes) ==
  [all |-> all, orphaned |-> orphaned, keep |-> keep, older |-> older, volumes |-> volumes]
MCPruneOptions ==
  {PruneOption(FALSE, FALSE, 0, FALSE, FALSE), PruneOption(TRUE, FALSE, 0, FALSE, TRUE),
   PruneOption(FALSE, FALSE, 1, FALSE, FALSE), PruneOption(FALSE, TRUE, 0, TRUE, FALSE),
   PruneOption(FALSE, FALSE, 1, TRUE, FALSE)}

-----------------------------------------------------------------------------
(* The sum *)

\* The actors of ConfigTrust are alike: of two mirrored starts one is kept.
\* In ShimSetup what is mounted never meets the installs of mise: an old install is
\* tried without a mount.
RecordsInit ==
  /\ part \in RecordParts
  /\ Init
  /\ ReaderInit
  /\ part # "view" => does = "follow"
  /\ OOMInit
  /\ part # "oom" =>
       \A s \in Watched : ~limited[s] /\ ~reused[s] /\ tallyBefore[s] = 0
  /\ EgressInit
  /\ part # "egress" =>
       forwards = <<>> /\ hostTools = [ip |-> TRUE, backend |-> "nft", maps |-> TRUE]
  /\ TrustInit
  /\ part # "trust" =>
       /\ global.redact = "on"
       /\ \A a \in Loaders : task[a] = "launch" /\ where[a] = d1
       /\ \A d \in Projects : localFile[d].redact = "off"
  /\ ShimInit
  /\ part # "shim" =>
       mounts = {} /\ hostMise = "m1" /\ \A v \in ToolVersions : installs[v] = Nothing
  /\ part = "shim" => mounts = {} \/ \A v \in ToolVersions : installs[v] = Nothing
  /\ part = "trust" => task[t1] \in {"launch", task[t2]} \/ task[t2] = "remove"
  /\ RemovalInit
  /\ part # "removal" =>
       asked.cmd = "rm" /\ asked.with.keepState /\ \A b \in Boxes : tree[b] = "none"

RecordsNext ==
  \/ /\ part = "log" /\ Next
     /\ UNCHANGED <<part, readerVars, oomVars, egressVars, trustVars, shimVars, removalVars>>
  \/ /\ part = "view" /\ ReaderNext
     /\ UNCHANGED <<part, oomVars, egressVars, trustVars, shimVars, removalVars>>
  \/ /\ part = "oom" /\ OOMNext
     /\ UNCHANGED <<part, vars, readerVars, egressVars, trustVars, shimVars, removalVars>>
  \/ /\ part = "egress" /\ EgressNext
     /\ UNCHANGED <<part, vars, readerVars, oomVars, trustVars, shimVars, removalVars>>
  \/ /\ part = "trust" /\ TrustNext
     /\ UNCHANGED <<part, vars, readerVars, oomVars, egressVars, shimVars, removalVars>>
  \/ /\ part = "shim" /\ ShimNext
     /\ UNCHANGED <<part, vars, readerVars, oomVars, egressVars, trustVars, removalVars>>
  \/ /\ part = "removal" /\ RemovalNext
     /\ UNCHANGED <<part, vars, readerVars, oomVars, egressVars, trustVars, shimVars>>

RecordsSpec == RecordsInit /\ [][RecordsNext]_recordsVars

\* The type invariants of the parts.
RecordsTypeOK ==
  /\ part \in RecordParts
  /\ part \in {"log", "view"} => TypeOK
  /\ part = "view" => ReaderTypeOK
  /\ part = "oom" => OOMTypeOK
  /\ part = "egress" => EgressTypeOK
  /\ part = "trust" => TrustTypeOK
  /\ part = "shim" => ShimTypeOK
  /\ part = "removal" => RemovalTypeOK
=============================================================================
