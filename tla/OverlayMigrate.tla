--------------------------- MODULE OverlayMigrate ---------------------------
(***************************************************************************)
(* `devsandbox overlay migrate --apply': what a sandbox wrote into the     *)
(* upper directories of an overlay -- the primary one and those of         *)
(* concurrent sessions -- is merged into a plan and promoted to the host   *)
(* directory (internal/overlay, cmd/devsandbox/overlay.go).                *)
(*                                                                         *)
(* The files of one directory are modelled: where each lies and whether it *)
(* is a directory, something with content (a regular file or a symlink, by *)
(* its origin), or one of the marks overlayfs leaves.  A run may fail or   *)
(* be killed in any step and be started again; the uppers and the host     *)
(* directory change by nothing else meanwhile.                             *)
(***************************************************************************)
EXTENDS Naturals, Sequences, SequencesExt

CONSTANTS
  Rels,         \* relative paths, as sequences of names, closed under parents
  WalkOrder,    \* the same in lexical order: a parent precedes its children
  Layers,       \* how many uppers there are
  MaxRuns       \* bound on how often the command is run

ASSUME MigrateAssumption ==
  /\ Layers \in Nat /\ MaxRuns \in Nat
  /\ \A p \in Rels : /\ p \in Seq({p[i] : i \in DOMAIN p}) \ {<<>>}
                     /\ Len(p) > 1 => Front(p) \in Rels
  /\ WalkOrder \in Seq(Rels) /\ {WalkOrder[i] : i \in DOMAIN WalkOrder} = Rels
  /\ \A i, j \in DOMAIN WalkOrder : WalkOrder[i] = WalkOrder[j] => i = j
  /\ \A i, j \in DOMAIN WalkOrder :
       IsStrictPrefix(WalkOrder[i], WalkOrder[j]) => i < j

VARIABLES
  uppers,       \* the upper directories in merge order: primary, then sessions
  host,         \* the host directory
  before,       \* history: the host directory the first run found
  plan,         \* operations still to be applied
  phase,        \* what the run is doing
  runs,         \* how often the command has been started
  wasKilled     \* history: whether a run was killed

migrateVars == <<uppers, host, before, plan, phase, runs, wasKilled>>

\* In an upper.  "special" is a FIFO, a socket or a device; files and symlinks
\* are both "file", staged and renamed alike.
UpperKinds == {"none", "file", "dir", "opaque", "whiteout", "special"}
HostKinds == {"none", "file", "link", "dir"}
\* from is the upper something came from, 0 for the host.
None == [k |-> "none", from |-> 0]
Dir == [k |-> "dir", from |-> 0]
HostEntries == [k : HostKinds, from : 0..Layers]
Ops == [rel : Rels, k : {"delete", "file", "dir"}, from : 1..Layers]

Below(p) == {q \in Rels : IsStrictPrefix(p, q)}
Above(p) == {q \in Rels : IsStrictPrefix(q, p)}

\* Only a directory has anything beneath it.
Uppers == {u \in [Rels -> UpperKinds] :
             \A p \in Rels : u[p] # "none" =>
               \A q \in Above(p) : u[q] \in {"dir", "opaque"}}
HostDirs == {h \in [Rels -> [k : HostKinds, from : {0}]] :
               \A p \in Rels : h[p].k # "none" =>
                 \A q \in Above(p) : h[q].k = "dir"}

MigrateTypeOK ==
  /\ host \in [Rels -> HostEntries]
  /\ before \in HostDirs
  /\ plan \in Seq(Ops)
  /\ phase \in {"start", "apply", "staged", "cleared", "failed", "killed",
                "refused", "done"}
  /\ runs \in 0..MaxRuns
  /\ wasKilled \in BOOLEAN

MigrateInit ==
  /\ uppers \in [1..Layers -> Uppers]
  /\ host \in HostDirs
  /\ before = host
  /\ plan = <<>>
  /\ phase = "start"
  /\ runs = 0
  /\ wasKilled = FALSE

-----------------------------------------------------------------------------
(* BuildPlan: the walk of each upper in turn *)

\* layerMerge.add.  A whiteout, an opaque directory and anything that is not a
\* directory drop what lower layers recorded beneath; what cannot be promoted
\* leaves nothing in its place either.
Merge(m, i, p) ==
  LET kind == uppers[i][p]
      pruned == [q \in Rels |-> IF q \in Below(p) THEN None ELSE m[q]]
  IN CASE kind = "none"    -> m
       [] kind = "dir"     -> [m EXCEPT ![p] = [k |-> "dir", from |-> i]]
       [] kind = "opaque"  -> [pruned EXCEPT ![p] = [k |-> "dir", from |-> i]]
       [] kind = "special" -> [pruned EXCEPT ![p] = None]
       [] OTHER            -> [pruned EXCEPT ![p] = [k |-> kind, from |-> i]]

WalkUpper(m, i) ==
  LET seen[n \in 0..Len(WalkOrder)] ==
        IF n = 0 THEN m ELSE Merge(seen[n - 1], i, WalkOrder[n])
  IN seen[Len(WalkOrder)]

Merged ==
  LET upTo[i \in 0..Layers] ==
        IF i = 0 THEN [p \in Rels |-> None] ELSE WalkUpper(upTo[i - 1], i)
  IN upTo[Layers]

\* Mutant: a whiteout is planned as what it is, not as a deletion.
Planned_NoDelete(m, p) ==
  IF m[p].k = "none" THEN <<>>
  ELSE <<[rel |-> p, k |-> m[p].k, from |-> m[p].from]>>

\* The operation for one path of the merge m; a deletion is planned only of what
\* the host has.
Planned(m, p) ==
  CASE m[p].k = "none" -> <<>>
    [] m[p].k = "whiteout" /\ host[p].k = "none" -> <<>>
    [] m[p].k = "whiteout" /\ host[p].k # "none" ->
         <<[rel |-> p, k |-> "delete", from |-> m[p].from]>>
    [] OTHER -> <<[rel |-> p, k |-> m[p].k, from |-> m[p].from]>>

BuildPlan ==
  LET m == Merged
      upTo[n \in 0..Len(WalkOrder)] ==
        IF n = 0 THEN <<>> ELSE upTo[n - 1] \o Planned(m, WalkOrder[n])
  IN upTo[Len(WalkOrder)]

StartRun ==
  /\ phase = "start"
  /\ runs < MaxRuns
  /\ plan' = BuildPlan
  /\ phase' = "apply"
  /\ runs' = runs + 1
  /\ UNCHANGED <<uppers, host, before, wasKilled>>

-----------------------------------------------------------------------------
(* Apply *)

Op == Head(plan)
HasOp == plan # <<>>

\* checkDestination and MkdirAll: every component above is a directory or absent.
Reachable == \A q \in Above(Op.rel) : host[q].k \in {"dir", "none"}
WithParents(h, p) == [q \in Rels |-> IF q \in Above(p) THEN Dir ELSE h[q]]
Without(h, p) == [q \in Rels |-> IF q = p \/ q \in Below(p) THEN None ELSE h[q]]

Refuse ==
  /\ phase = "apply" /\ HasOp
  /\ ~Reachable
  /\ phase' = "refused"
  /\ UNCHANGED <<uppers, host, before, plan, runs, wasKilled>>

ApplyDelete ==
  /\ phase = "apply" /\ HasOp /\ Op.k = "delete"
  /\ Reachable
  /\ host' = Without(host, Op.rel)
  /\ plan' = Tail(plan)
  /\ UNCHANGED <<uppers, before, phase, runs, wasKilled>>

\* A host directory is kept with what is in it; anything else there goes first.
ApplyDir ==
  /\ phase = "apply" /\ HasOp /\ Op.k = "dir"
  /\ Reachable
  /\ host' = [WithParents(host, Op.rel) EXCEPT ![Op.rel] = Dir]
  /\ plan' = Tail(plan)
  /\ UNCHANGED <<uppers, before, phase, runs, wasKilled>>

\* Mutant: the destination is removed before the file is made.
Stage_RemovesFirst ==
  /\ phase = "apply" /\ HasOp /\ Op.k = "file"
  /\ Reachable
  /\ host' = Without(WithParents(host, Op.rel), Op.rel)
  /\ phase' = "staged"
  /\ UNCHANGED <<uppers, before, plan, runs, wasKilled>>

\* A file or a symlink is made beside its destination first ...
Stage ==
  /\ phase = "apply" /\ HasOp /\ Op.k = "file"
  /\ Reachable
  /\ host' = WithParents(host, Op.rel)
  /\ phase' = "staged"
  /\ UNCHANGED <<uppers, before, plan, runs, wasKilled>>

\* ... then reconcileDestination removes a directory that is in the way ...
Reconcile ==
  /\ phase = "staged"
  /\ host' = IF host[Op.rel].k = "dir" THEN Without(host, Op.rel) ELSE host
  /\ phase' = "cleared"
  /\ UNCHANGED <<uppers, before, plan, runs, wasKilled>>

\* ... and it is renamed into place.
Rename ==
  /\ phase = "cleared"
  /\ host' = [host EXCEPT ![Op.rel] = [k |-> "file", from |-> Op.from]]
  /\ plan' = Tail(plan)
  /\ phase' = "apply"
  /\ UNCHANGED <<uppers, before, runs, wasKilled>>

Finish ==
  /\ phase = "apply" /\ ~HasOp
  /\ phase' = "done"
  /\ UNCHANGED <<uppers, host, before, plan, runs, wasKilled>>

-----------------------------------------------------------------------------
(* Failures, and another run *)

\* The source cannot be read, or the disk is full: what was staged is removed.
StageFails ==
  /\ phase = "apply" /\ HasOp /\ Op.k = "file"
  /\ Reachable
  /\ host' \in {host, WithParents(host, Op.rel)}
  /\ phase' = "failed"
  /\ UNCHANGED <<uppers, before, plan, runs, wasKilled>>

\* Killed, within a removal as well: part of what is beneath is gone then.
Killed ==
  /\ phase \in {"apply", "staged", "cleared"}
  /\ phase' = "killed"
  /\ wasKilled' = TRUE
  /\ \/ UNCHANGED host
     \/ /\ HasOp /\ Reachable
        /\ Op.k = "delete" \/ phase = "staged"
        /\ host[Op.rel].k = "dir"
        /\ \E q \in Below(Op.rel) : host' = Without(host, q)
     \/ /\ HasOp /\ Reachable
        /\ Op.k = "dir"
        /\ host[Op.rel].k # "dir"
        /\ host' = Without(host, Op.rel)
  /\ UNCHANGED <<uppers, before, plan, runs>>

RunAgain ==
  /\ phase \in {"failed", "killed", "refused", "done"}
  /\ phase' = "start"
  /\ plan' = <<>>
  /\ UNCHANGED <<uppers, host, before, runs, wasKilled>>

MigrateNext ==
  \/ StartRun \/ Refuse \/ ApplyDelete \/ ApplyDir \/ Stage \/ Reconcile
  \/ Rename \/ Finish \/ StageFails \/ Killed \/ RunAgain

MigrateSpec == MigrateInit /\ [][MigrateNext]_migrateVars

-----------------------------------------------------------------------------
(* What overlayfs shows, stated layer by layer rather than as a walk *)

Masks(kind) == kind \in {"file", "opaque", "whiteout", "special"}

\* The upper that decides a path: the last that has it, if no later one hides it
\* by what it has there or above; 0 if none does.
Decides(i, p) ==
  /\ uppers[i][p] # "none"
  /\ \A j \in i + 1..Layers :
       uppers[j][p] = "none" /\ \A q \in Above(p) : ~Masks(uppers[j][q])
Decider(p) == IF \E i \in 1..Layers : Decides(i, p)
              THEN CHOOSE i \in 1..Layers : Decides(i, p) ELSE 0

\* What the host should hold in the end.  Opaque directories and what cannot be
\* promoted leave the host's own entries alone.
Promoted(p) ==
  LET i == Decider(p)
      kind == IF i = 0 THEN "none" ELSE uppers[i][p]
      replaced == \E q \in Above(p) :
                    Decider(q) # 0 /\ uppers[Decider(q)][q] \in {"file", "whiteout"}
  IN CASE kind \in {"dir", "opaque"} -> Dir
       [] kind = "file" -> [k |-> "file", from |-> i]
       [] kind = "whiteout" \/ replaced -> None
       [] OTHER -> before[p]

-----------------------------------------------------------------------------
(* Properties *)

\* A run that ends well leaves the host as the merged overlay was -- the first
\* as well as one that follows runs that failed, were killed in the middle of
\* an operation, or had already succeeded.
AppliedIsView == phase = "done" => \A p \in Rels : host[p] = Promoted(p)

\* No plan the merge produces stops at an operation whose parent is a file or a
\* symlink, on the first run or on a retry: it would stop there for ever.
NeverRefused == phase # "refused"

\* Whatever fails, every path is as it was or as it will be: what has to give way
\* to a file is not removed before the file is there to replace it.  Only a kill
\* can leave a path with neither, and only one that changes its kind.
OldOrNew ==
  \A p \in Rels :
    \/ host[p] = before[p]
    \/ host[p] = Promoted(p)
    \/ /\ host[p] = None
       /\ phase = "cleared" \/ wasKilled
       /\ before[p].k # Promoted(p).k

\* The command gets to what the mount showed, or fails for a reason outside it and
\* can be repeated, and no file is missing meanwhile.
MigratesToView == AppliedIsView /\ NeverRefused /\ OldOrNew
=============================================================================
