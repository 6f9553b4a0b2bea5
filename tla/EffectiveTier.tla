---------------------------- MODULE EffectiveTier ----------------------------
(***************************************************************************)
(* The ageing rule of src/src/config.py (effective_tier): the longer a run *)
(* waits in the queue, the smaller (the more urgent) its effective tier.   *)
(***************************************************************************)
EXTENDS Integers

Lesser(a, b)  == IF a <= b THEN a ELSE b
Greater(a, b) == IF a >= b THEN a ELSE b

(***************************************************************************)
(* Tiers gained by waiting. An interval that is not positive switches      *)
(* ageing off. Both // of Python and \div round towards minus infinity,    *)
(* so a creation time in the future gives a negative bonus.                *)
(***************************************************************************)
AgingBonus(wait, interval) == IF interval > 0 THEN wait \div interval ELSE 0

(***************************************************************************)
(* Ageing stops at floor (agingMinTier); a run whose own tier is already   *)
(* below the floor keeps it.                                               *)
(***************************************************************************)
EffTier(tier, wait, interval, floor) ==
  Lesser(tier, Greater(floor, tier - AgingBonus(wait, interval)))

=============================================================================
