------------------------- MODULE MCClusterShards -------------------------
(* The instance of ClusterShards for TLC: MaxFaults is its only constant. *)
EXTENDS ClusterShards
==========================================================================
