------------------------------- MODULE LoadPlan -------------------------------
(***************************************************************************)
(* The plan of a load (src/experiments/common/pr_create.py 65-109): which  *)
(* environments its requests carry. Everything random comes from one       *)
(* generator, which the seed decides: Stream is what it yields, numbers    *)
(* below Grain for the fractions below 1.                                  *)
(***************************************************************************)
EXTENDS Integers, Sequences, FiniteSets

CONSTANTS
  Stream, \* per seed
  Grain,
  Dist,   \* --env-dist: a sequence of [env, weight]
  Gap     \* expovariate: the gap a number stands for

\* The weights of the first k environments together.
Weight(dist, k) ==
  LET sum[j \in 0..k] == IF j = 0 THEN 0 ELSE sum[j - 1] + dist[j].weight
  IN  sum[k]

\* choices(): the first environment whose cumulative share exceeds the number.
\* Weights that do not add up to 1 are divided by their sum.
Pick(dist, x) ==
  LET k == CHOOSE k \in DOMAIN dist :
             /\ Weight(dist, k) * Grain > x * Weight(dist, Len(dist))
             /\ \A j \in 1..(k - 1) : Weight(dist, j) * Grain <= x * Weight(dist, Len(dist))
  IN  dist[k].env

\* Gaps and environments are drawn in turn, until the horizon is reached.
Poisson(seed, horizon) ==
  LET draw  == Stream[seed]
      at[i \in 0..(Len(draw) \div 2)] ==
        IF i = 0 THEN 0 ELSE at[i - 1] + Gap[draw[2 * i - 1]]
  IN  [i \in 1..Cardinality({j \in 1..(Len(draw) \div 2) : at[j] < horizon}) |->
         Pick(Dist, draw[2 * i])]

Periodic(seed, count) == [i \in 1..count |-> Pick(Dist, Stream[seed][i])]

Burst(count, env) == [i \in 1..count |-> env]

=============================================================================
