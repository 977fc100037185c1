----------------------------- MODULE MCCluster -----------------------------
(* Instances of Cluster for TLC.                                            *)
EXTENDS Cluster

\* The clocks agree.
InTime == [h \in Nodes |-> 0]

=============================================================================
