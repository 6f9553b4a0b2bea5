-------------------------- MODULE MCLeaderElection --------------------------
(* Small instances of LeaderElection for TLC. *)
EXTENDS LeaderElection, TLC

CONSTANTS r1, r2, r3

TwoReplicas   == {r1, r2}
ThreeReplicas == {r1, r2, r3}
ThreeSymmetry == Permutations(ThreeReplicas)
=============================================================================
