----------------------------- MODULE MCCluster -----------------------------
(* Model values for model checking Cluster.                                 *)
EXTENDS Cluster

CONSTANTS a1

OneAddress == {a1}
OnePoll == {1}
=============================================================================
