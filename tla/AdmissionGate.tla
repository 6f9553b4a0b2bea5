---------------------------- MODULE AdmissionGate ----------------------------
(***************************************************************************)
(* What the controller promises of the runs of the target namespaces,      *)
(* whatever caches, watches, leases and restarts are behind it: a gate     *)
(* that one cycle at a time opens, with the limit as it then is, and that  *)
(* lets a run through only if it was in the queue and if, with it, no more *)
(* runs are under way than that limit.                                     *)
(***************************************************************************)
EXTENDS Integers, FiniteSets

CONSTANTS
  Run,
  Limits,
  Fallback  \* limits of cycles that cannot read the present one

VARIABLES
  limit,  \* maxPipelines
  gate,   \* the limit of the cycle that has the gate open, if there is one
  life    \* of each run:
          \*   "new"        not created yet
          \*   "held"       foreign: paused, and not in the queue
          \*   "waiting"    in the queue
          \*   "cancelled"  by a user, after it was queued
          \*   "running"    started by the controller
          \*   "over"       finished, deleted, or cancelled while it was held

gvars == <<limit, gate, life>>

Init ==
  /\ limit \in Limits
  /\ gate = {}
  /\ life = [k \in Run |-> "new"]

SetLimit ==
  /\ limit' \in Limits
  /\ UNCHANGED <<gate, life>>

Open ==
  /\ gate = {}
  /\ \E n \in {limit} \cup Fallback : gate' = {n}
  /\ UNCHANGED <<limit, life>>

Close == gate' = {} /\ UNCHANGED <<limit, life>>

Becomes(k, s) == life' = [life EXCEPT ![k] = s] /\ UNCHANGED <<limit, gate>>

Arrive(k) == life[k] = "new" /\ (Becomes(k, "held") \/ Becomes(k, "waiting"))

UnderWay == {k \in Run : life[k] = "running"}

\* A cycle that has planned a run does not see that it is cancelled meanwhile.
Admit(k) ==
  /\ life[k] \in {"waiting", "cancelled"}
  /\ \E n \in gate : Cardinality(UnderWay) < n
  /\ Becomes(k, "running")

Cancel(k) == \/ life[k] \in {"waiting", "running"} /\ Becomes(k, "cancelled")
             \/ life[k] = "held" /\ Becomes(k, "over")

End(k) == life[k] # "new" /\ Becomes(k, "over")

Next == \/ SetLimit \/ Open \/ Close
        \/ \E k \in Run : Arrive(k) \/ Admit(k) \/ Cancel(k) \/ End(k)

Spec == Init /\ [][Next]_gvars

=============================================================================
