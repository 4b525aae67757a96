-------------------------- MODULE MCKillGateCluster --------------------------
(***************************************************************************)
(* KillGateCluster for TLC: three nodes, one of which can be resumed and can  *)
(* roll back, so that the two votes of the smallest quorum, or a rollback, can *)
(* open its gate while the other two stay closed.                            *)
(***************************************************************************)
EXTENDS KillGateCluster

CONSTANTS n1, n2, n3

Nodes == {n1, n2, n3}
ResumableNodes == {n1}
FailingNodes == {n1}
VotingNodes == {n1, n2}
==============================================================================
