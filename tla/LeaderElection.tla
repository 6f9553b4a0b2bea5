--------------------------- MODULE LeaderElection ---------------------------
(***************************************************************************)
(* Leader election through a Lease object (src/src/workers/leader.py).     *)
(* Each replica's thread goes round: look at its clock, read the lease,    *)
(* create, renew or take it over, and set state.is_leader by the outcome.  *)
(* Writes carry the resourceVersion that was read; the API server answers  *)
(* 409 to a write that is based on an older one.                           *)
(*                                                                         *)
(* Env names what the environment may do:                                  *)
(*   "slow"      an iteration may take any time, and so may the pause      *)
(*               between two renewals; without it see InTime               *)
(*   "api_error" a request ends in an error other than 409, applied or not *)
(*   "delete"    somebody deletes the lease (docs/runbook.md 2-3)          *)
(*   "crash"     a process dies, and may be started again                  *)
(***************************************************************************)
EXTENDS Integers

CONSTANTS
  Replica, NoLease,
  LeaseDuration, \* LEASE_DURATION_SEC
  Skews,         \* how far a replica's clock may be ahead
  Patience,      \* see InTime
  Env,
  MaxClock       \* bound of the model

ASSUME LeaseAssumption ==
  /\ LeaseDuration \in Nat /\ Patience \in Nat /\ MaxClock \in Nat
  /\ Skews \subseteq Int
  /\ NoLease \notin [holder: Replica, renew: Int]
  /\ Env \subseteq {"slow", "api_error", "delete", "crash"}

VARIABLES
  clock,    \* real time
  skew,     \* what each replica's clock adds to it
  lease,    \* the Lease object: holderIdentity and renewTime
  phase,    \* where each thread is
  now,      \* its variable now
  got,      \* its variable lease
  fresh,    \* the lease has not been written since it was read
  isLeader, \* state.is_leader
  busy      \* the manager thread is in a cycle it began as leader

threadVars == <<phase, now, got>>
vars == <<clock, skew, lease, threadVars, fresh, isLeader, busy>>

Lease == [holder: Replica, renew: Int]
Phase == {"down", "sleep", "read", "create", "decide", "won", "refused"}

TypeOK ==
  /\ clock \in 0..MaxClock
  /\ skew \in [Replica -> Skews]
  /\ lease \in Lease \cup {NoLease}
  /\ phase \in [Replica -> Phase]
  /\ now \in [Replica -> Int]
  /\ got \in [Replica -> Lease \cup {NoLease}]
  /\ fresh \in [Replica -> BOOLEAN]
  /\ isLeader \in [Replica -> BOOLEAN]
  /\ busy \in [Replica -> BOOLEAN]

Init ==
  /\ clock = 0
  /\ skew \in [Replica -> Skews]
  /\ lease = NoLease
  /\ phase = [r \in Replica |-> "sleep"]
  /\ now = [r \in Replica |-> 0]
  /\ got = [r \in Replica |-> NoLease]
  /\ fresh = [r \in Replica |-> FALSE]
  /\ isLeader = [r \in Replica |-> FALSE]
  /\ busy = [r \in Replica |-> FALSE]

(***************************************************************************)
(* One iteration of leader_election_loop                                   *)
(***************************************************************************)

\* The clock is read before any request is sent.
Wake(r) ==
  /\ phase[r] = "sleep"
  /\ phase' = [phase EXCEPT ![r] = "read"]
  /\ now' = [now EXCEPT ![r] = clock + skew[r]]
  /\ UNCHANGED <<clock, skew, lease, got, fresh, isLeader, busy>>

Read(r) ==
  /\ phase[r] = "read"
  /\ got' = [got EXCEPT ![r] = lease]
  /\ fresh' = [fresh EXCEPT ![r] = TRUE]
  /\ phase' = [phase EXCEPT ![r] = IF lease = NoLease THEN "create" ELSE "decide"]
  /\ UNCHANGED <<clock, skew, lease, now, isLeader, busy>>

\* Write the lease in r's name: what the others have read is out of date.
Write(r) ==
  /\ lease' = [holder |-> r, renew |-> now[r]]
  /\ fresh' = [s \in Replica |-> FALSE]
  /\ phase' = [phase EXCEPT ![r] = "won"]

Refuse(r) == phase' = [phase EXCEPT ![r] = "refused"] /\ UNCHANGED <<lease, fresh>>

\* Sleep until the next iteration. (Its local variables are dead then: the
\* model clears them.)
Sleep(r) ==
  /\ phase' = [phase EXCEPT ![r] = "sleep"]
  /\ now' = [now EXCEPT ![r] = 0]
  /\ got' = [got EXCEPT ![r] = NoLease]

Create(r) ==
  /\ phase[r] = "create"
  /\ IF lease = NoLease THEN Write(r) ELSE Refuse(r)
  /\ UNCHANGED <<clock, skew, now, got, isLeader, busy>>

\* Mutant: expired as soon as the duration is reached.
ExpiredEarly(r) == now[r] - got[r].renew >= LeaseDuration
\* Mutant: the lease is compared the wrong way round.
ExpiredReversed(r) == got[r].renew - now[r] > LeaseDuration

\* The lease as read has run out, by this replica's clock and the holder's.
Expired(r) == now[r] - got[r].renew > LeaseDuration
Candidate(r) == phase[r] = "decide" /\ (got[r].holder = r \/ Expired(r))

\* Mutant: the replacement is sent without the resourceVersion that was read.
ReplaceBlindly(r) ==
  /\ Candidate(r)
  /\ lease # NoLease
  /\ Write(r)
  /\ UNCHANGED <<clock, skew, now, got, isLeader, busy>>

\* Renewal and takeover.
Replace(r) ==
  /\ Candidate(r)
  /\ lease # NoLease
  /\ IF fresh[r] THEN Write(r) ELSE Refuse(r)
  /\ UNCHANGED <<clock, skew, now, got, isLeader, busy>>

\* Mutant: a replica that sees another holder leaves is_leader as it is.
YieldSilently(r) ==
  /\ phase[r] = "decide" /\ ~Candidate(r)
  /\ Sleep(r)
  /\ UNCHANGED <<clock, skew, lease, fresh, isLeader, busy>>

\* Another replica holds the lease.
Yield(r) ==
  /\ phase[r] = "decide" /\ ~Candidate(r)
  /\ isLeader' = [isLeader EXCEPT ![r] = FALSE]
  /\ Sleep(r)
  /\ UNCHANGED <<clock, skew, lease, fresh, busy>>

\* The reply to a write that was applied.
Lead(r) ==
  /\ phase[r] = "won"
  /\ isLeader' = [isLeader EXCEPT ![r] = TRUE]
  /\ Sleep(r)
  /\ UNCHANGED <<clock, skew, lease, fresh, busy>>

\* 409: somebody else has written the lease.
Conflict(r) ==
  /\ phase[r] = "refused"
  /\ isLeader' = [isLeader EXCEPT ![r] = FALSE]
  /\ Sleep(r)
  /\ UNCHANGED <<clock, skew, lease, fresh, busy>>

\* The lease has been deleted since it was read: 404.
NotFound(r) ==
  /\ Candidate(r)
  /\ lease = NoLease
  /\ Sleep(r)
  /\ UNCHANGED <<clock, skew, lease, fresh, isLeader, busy>>

\* Any other error of any request, also of one that was applied: is_leader
\* stays as it is.
Fail(r) ==
  /\ "api_error" \in Env
  /\ phase[r] \in {"read", "create", "won", "refused"} \/ Candidate(r)
  /\ Sleep(r)
  /\ UNCHANGED <<clock, skew, lease, fresh, isLeader, busy>>

(***************************************************************************)
(* The manager thread, processes, the lease's other clients, and time      *)
(***************************************************************************)

\* manager_loop looks at is_leader once, at the beginning of a cycle.
BeginCycle(r) ==
  /\ isLeader[r] /\ ~busy[r]
  /\ busy' = [busy EXCEPT ![r] = TRUE]
  /\ UNCHANGED <<clock, skew, lease, threadVars, fresh, isLeader>>

EndCycle(r) ==
  /\ busy[r]
  /\ busy' = [busy EXCEPT ![r] = FALSE]
  /\ UNCHANGED <<clock, skew, lease, threadVars, fresh, isLeader>>

\* The lease stays behind, in the name of the dead process's pod.
Crash(r) ==
  /\ "crash" \in Env /\ phase[r] # "down"
  /\ phase' = [phase EXCEPT ![r] = "down"]
  /\ now' = [now EXCEPT ![r] = 0]
  /\ got' = [got EXCEPT ![r] = NoLease]
  /\ isLeader' = [isLeader EXCEPT ![r] = FALSE]
  /\ busy' = [busy EXCEPT ![r] = FALSE]
  /\ UNCHANGED <<clock, skew, lease, fresh>>

\* The pod's process is started again, under the same POD_NAME.
Boot(r) ==
  /\ phase[r] = "down"
  /\ phase' = [phase EXCEPT ![r] = "sleep"]
  /\ UNCHANGED <<clock, skew, lease, now, got, fresh, isLeader, busy>>

Delete ==
  /\ "delete" \in Env /\ lease # NoLease
  /\ lease' = NoLease
  /\ fresh' = [r \in Replica |-> FALSE]
  /\ UNCHANGED <<clock, skew, threadVars, isLeader, busy>>

Holds(r)  == lease # NoLease /\ lease.holder = r
Active(r) == isLeader[r] \/ busy[r]

\* The timing assumption, on real time: no iteration takes longer than
\* Patience, and a replica that leads, or whose manager is in a cycle, renews
\* its lease before the clock it wrote last is that old. The code retries
\* every 2 s for a lease of 15 s, but does not enforce this.
InTime ==
  \A r \in Replica :
    /\ phase[r] \notin {"down", "sleep"} => clock - (now[r] - skew[r]) < Patience
    /\ Active(r) /\ Holds(r) => clock - (lease.renew - skew[r]) < Patience

Tick ==
  /\ clock < MaxClock
  /\ "slow" \in Env \/ InTime
  /\ clock' = clock + 1
  /\ UNCHANGED <<skew, lease, threadVars, fresh, isLeader, busy>>

-----------------------------------------------------------------------------
Thread(r) == \/ Wake(r) \/ Read(r) \/ Create(r) \/ Replace(r) \/ Yield(r)
             \/ Lead(r) \/ Conflict(r) \/ NotFound(r) \/ Fail(r)

Election == \/ \E r \in Replica : Thread(r) \/ Crash(r) \/ Boot(r)
            \/ Delete
            \/ Tick

Next == Election \/ \E r \in Replica : BeginCycle(r) \/ EndCycle(r)

Spec == Init /\ [][Next]_vars

(***************************************************************************)
(* Fairness: a living thread goes round (WF), and neither its reads, nor   *)
(* its writes, nor their replies fail for ever (SF). Nothing makes a dead  *)
(* process come back. The election takes no notice of the managers'        *)
(* cycles, which are left out here.                                        *)
(***************************************************************************)
FairSpec ==
  /\ Init /\ [][Election]_vars
  /\ \A r \in Replica : /\ WF_vars(Wake(r) \/ Yield(r) \/ NotFound(r))
                        /\ SF_vars(Read(r))
                        /\ SF_vars(Create(r) \/ Replace(r))
                        /\ SF_vars(Lead(r) \/ Conflict(r))

(***************************************************************************)
(* Exclusive leadership: what the proofs assume of the environment, and    *)
(* the inductive invariant. Whoever leads, or is about to, holds the lease, *)
(* and there is one lease; nobody can take it over, because it is too      *)
(* young, and because an older copy of it no longer counts.                *)
(***************************************************************************)
Timely == /\ Env \cap {"slow", "delete"} = {}
          /\ \A a, b \in Skews : Patience + a - b <= LeaseDuration

LeaderHolds == \A r \in Replica : Active(r) \/ phase[r] = "won" => Holds(r)

\* In any environment, what a thread decides on is the lease as it stands, or
\* is known to the API server to be out of date.
CopyCurrent == \A r \in Replica :
  /\ phase[r] = "decide" => got[r] # NoLease
  /\ phase[r] = "decide" /\ fresh[r] => got[r] = lease

CopyInv == TypeOK /\ CopyCurrent

FreshCopy == CopyCurrent /\ \A r \in Replica : phase[r] = "won" => lease.renew = now[r]

Young == \A r \in Replica :
  /\ phase[r] \notin {"down", "sleep"} => clock - (now[r] - skew[r]) \in 0..Patience
  /\ Active(r) => clock - (lease.renew - skew[r]) <= Patience

LeaseInv == TypeOK /\ LeaderHolds /\ FreshCopy /\ Young

(***************************************************************************)
(* Properties                                                              *)
(***************************************************************************)

\* The lease gives the manager loops what they need: a replica begins to lead
\* only when no other leads or is still in a cycle (leader.py 28-96 for
\* manager.py 112-113).
Leads == INSTANCE Leadership WITH Replica <- Replica, isLeader <- isLeader, busy <- busy
Exclusive == Leads!Spec

\* A live lease is never stolen: it passes to another replica only if, as it
\* then stands, it has run out by the clock the taker started from, however
\* long the taker's requests took and whoever wrote in between (leader.py
\* 64-69 with the resourceVersion of line 30).
NoTheft ==
  [][\A r \in Replica :
       lease # NoLease /\ lease.holder # r /\ Holds(r)' =>
         now[r] - lease.renew > LeaseDuration]_vars

\* A replica that leads without holding the lease finds out (leader.py 75-96;
\* docs/architecture.md 88): it yields, is refused, or gets the lease again,
\* whatever errors, deletions and delays occur, unless it dies.
SplitEnds == \A r \in Replica : isLeader[r] /\ ~Holds(r) ~> ~isLeader[r] \/ Holds(r)

Vacant == \/ lease = NoLease
          \/ \A r \in Replica : clock + skew[r] - lease.renew > LeaseDuration

\* A dead leader is replaced (README 2.3, failover): while one replica stays
\* up, a lease that is missing or has run out does not remain so with nobody
\* leading.
Failover ==
  (\E r \in Replica : <>[](phase[r] # "down")) =>
    (Vacant ~> ~Vacant \/ \E r \in Replica : isLeader[r])

=============================================================================
