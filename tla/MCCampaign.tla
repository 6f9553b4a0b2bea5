------------------------------ MODULE MCCampaign ------------------------------
(* Small instances of Campaign for TLC. *)
EXTENDS Campaign, TLC

\* One thread, or a pool of two.
OneOrTwo == {{1}, {1, 2}}

\* Two seeds: one request for seed 1 and two for seed 2 within the horizon.
Streams == <<<<1, 0, 3, 1>>, <<0, 3, 1, 1, 3, 0>>>>
Shares  == <<[env |-> "prod", weight |-> 1], [env |-> "dev", weight |-> 3]>>
GapOf   == [x \in 0..3 |-> x + 1]

SeedPlans == {Poisson(1, 4), Poisson(2, 4), Periodic(2, 3), <<>>, Burst(3, "dev")}

Kinds == {"csv", "res", "json"}

\* Nothing; the one file a collector names; a series and its summary; all the
\* files of the slot.
FewAsides == {{}, {<<"csv", 4>>}, {<<"res", 4>>, <<"json", 4>>}, Kinds \X {4}}

\* Later rounds in no folder, or in that of s1.
OneLater == {[c \in {"s1", "a2"} |-> 0], [c \in {"s1", "a2"} |-> IF c = "s1" THEN 1 ELSE 0]}

TwoConds == <<"s1", "a2">>

AllFaults == {"5xx", "4xx", "lost", "late", "kill", "chunk"}
=============================================================================
