------------------------------ MODULE MCCluster ------------------------------
(* Instance of Cluster for TLC.                                              *)
EXTENDS Cluster
=============================================================================
