----------------------------- MODULE MCRebalance -----------------------------
(* Instances of Rebalance for TLC: two shard groups A and B, three keys.   *)
(* A starts holding k1 and k3, B holds k2; each group's ring covers only   *)
(* itself.  CLUSTER MEET B eager at A makes B the coordinator.             *)
EXTENDS Rebalance

CONSTANTS A, B, k1, k2, k3, w1, w2

MCGrp == {A, B}
MCKey == {k1, k2, k3}
MCWrite == {w1, w2}

(* Each group holds some keys the new ring gives to the other.              *)
MCHeld == (A :> {k1, k3}) @@ (B :> {k2})
MCNewRing == (k1 :> B) @@ (k2 :> A) @@ (k3 :> A)

(* B holds nothing: the coordinator has no migration to run.                *)
MCHeldCoordEmpty == (A :> {k1, k2, k3}) @@ (B :> {})

(* Keys clients write: k1 (moves A to B) and k3 (stays at A); k2 (moves   *)
(* B to A); k3 alone; none.                                                 *)
MCWriteKeyStay == {k1, k3}
MCWriteKeyMoving == {k2}
MCWriteKeyK3 == {k3}
MCWriteKeyNone == {}

(* Two keys move from A to B.                                               *)
MCNewRingTwo == (k1 :> B) @@ (k2 :> A) @@ (k3 :> B)

MCEntryA == {A}
MCEntryB == {B}
MCEntryNone == {}
====
