---------------------------- MODULE MCMembership ----------------------------
(* Instances of Membership for TLC: four peers numbered 1..4, so that a    *)
(* full member map (3 peers) is above FANOUT 2 and heartbeats gossip once. *)
EXTENDS Membership

MCNode == 1..4

(* Every node connected to every other.                                   *)
MCMesh == [n \in MCNode |-> MCNode \ {n}]

(* A client sends CLUSTER FORGET 1 to node 4.                                *)
MCForgets == {<<4, 1>>}
=============================================================================
