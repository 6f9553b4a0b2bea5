-------------------------- MODULE MCQueueController --------------------------
(* Small instances of QueueController for TLC. *)
EXTENDS StartInvariant

CONSTANTS r1, r2, p1, p2, p3

TwoReplicas == {r1, r2}
TwoRuns     == {p1, p2}
ThreeRuns   == {p1, p2, p3}

\* All names are alike, and so are the replicas.
RunSymmetry  == Permutations(TwoRuns)
FullSymmetry == Permutations(TwoRuns) \cup Permutations(TwoReplicas)

\* Everything the environment may do.
AnyEnv == EnvKinds
=============================================================================
