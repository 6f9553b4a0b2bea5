---------------------------- MODULE MCSurroundings ----------------------------
(* A small instance of Surroundings for TLC. *)
EXTENDS Surroundings, MCAdmission, MCCampaign

CONSTANTS n1, n2

Below0 == -1

WaitsOfTiers == {Below0, 2, 6}

SheetSize == [runs |-> 3, traffic |-> 7, tiers |-> 3, pair |-> 3, arrivals |-> 3]

\* Per metric: what can be sampled, how many moments of how many rounds.
SamplesOf == [pods  |-> [node: {n1}, v: {Below0, 0, 1, 2}],
              ready |-> [node: {n1, n2}, v: {0, 1}],
              mem   |-> [node: {n1}, v: {0, 1, 4}],
              curve |-> [node: {n1}, v: {1}]]
Moments == [pods |-> 2, ready |-> 3, mem |-> 6, curve |-> 5]
Queries == [pods |-> 3, ready |-> 2, mem |-> 1, curve |-> 2]

\* No run, and one below and one at the ratio of survival.
TrialLoads == {[total |-> 0, started |-> 0], [total |-> 5, started |-> 3],
               [total |-> 5, started |-> 4]}

TrialOutcomes == {{}, {"other-sa"}, {"pre", "same-sa"}}
=============================================================================
