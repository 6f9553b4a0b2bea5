---------------------------- MODULE MCPromotionLog ----------------------------
(* Small instances of PromotionLog for TLC. *)
EXTENDS PromotionLog

CONSTANTS r1, p1, p2

TwoRuns     == {p1, p2}
RunSymmetry == Permutations(TwoRuns)

\* Faults that can delay or repeat a start, but not refuse one.
OrderEnv == {"lag", "lost_reply", "expire", "restart", "unready"}
=============================================================================
