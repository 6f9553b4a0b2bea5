----------------------------- MODULE Leadership -----------------------------
(***************************************************************************)
(* What the manager needs of leader election, whatever the mechanism: a    *)
(* replica leads, and its manager works off a cycle, only while no other   *)
(* replica does either. A cycle that has begun may outlive the leadership. *)
(***************************************************************************)
CONSTANT Replica

VARIABLES
  isLeader, \* state.is_leader of each replica
  busy      \* its manager is between the look at is_leader and the sleep

lvars == <<isLeader, busy>>

Idle == [r \in Replica |-> FALSE]

Init == isLeader = Idle /\ busy = Idle

Lead(r) ==
  /\ \A s \in Replica \ {r} : ~isLeader[s] /\ ~busy[s]
  /\ isLeader' = [isLeader EXCEPT ![r] = TRUE]
  /\ UNCHANGED busy

StepDown(r) ==
  /\ isLeader' = [isLeader EXCEPT ![r] = FALSE]
  /\ UNCHANGED busy

BeginCycle(r) ==
  /\ isLeader[r]
  /\ busy' = [busy EXCEPT ![r] = TRUE]
  /\ UNCHANGED isLeader

EndCycle(r) ==
  /\ busy' = [busy EXCEPT ![r] = FALSE]
  /\ UNCHANGED isLeader

Die(r) ==
  /\ isLeader' = [isLeader EXCEPT ![r] = FALSE]
  /\ busy' = [busy EXCEPT ![r] = FALSE]

Next == \E r \in Replica :
          Lead(r) \/ StepDown(r) \/ BeginCycle(r) \/ EndCycle(r) \/ Die(r)

Spec == Init /\ [][Next]_lvars

=============================================================================
