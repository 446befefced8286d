----------------------------- MODULE MCCluster -----------------------------
(* Small instances of Cluster for TLC: node ids are numbers. *)
EXTENDS Cluster

ThreeNodes == 1..3
=============================================================================
