-------------------------- MODULE MCSandboxSession --------------------------
(* SandboxSession for TLC: a few launches of one project, and a prune. *)
EXTENDS SandboxSession, TLC

CONSTANTS l1, l2, l3, pr, t1, t2, t3, t4

TwoLaunches == {l1, l2}
ThreeLaunches == {l1, l2, l3}
NoPruner == {}
OneRm == {l1}
OnePruner == {pr}
FourTrees == {t1, t2, t3, t4}
ThreeTrees == {t1, t2, t3}

\* Trees are handed out and compared, never told apart otherwise.
TreeSymmetry == Permutations(Tree)
RoleSymmetry == TreeSymmetry \cup Permutations({l1, l2, l3})
=============================================================================
