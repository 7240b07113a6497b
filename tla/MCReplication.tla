---------------------------- MODULE MCReplication ----------------------------
(* Model-checking instance of Replication: peers and sessions are model   *)
(* values.                                                                  *)
EXTENDS Replication, TLC

CONSTANTS n1, n2, n3, n4, n5, s1, s2

MCNode1 == {n1}
MCNode3 == {n1, n2, n3}
MCNode4 == {n1, n2, n3, n4}
MCNode5 == {n1, n2, n3, n4, n5}
MCSession1 == {s1}
MCSession2 == {s1, s2}

(* With n1 the initial leader, the other peers are interchangeable.       *)
FollowerSymmetry == Permutations({n2, n3})
FollowerSymmetry5 == Permutations({n2, n3, n4, n5})
(* With no initial leader every peer is interchangeable.                  *)
PeerSymmetry3 == Permutations(MCNode3)
PeerSymmetry4 == Permutations(MCNode4)
=============================================================================
