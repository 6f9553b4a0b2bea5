------------------------ MODULE LeaderElectionProofs ------------------------
(***************************************************************************)
(* Leadership through the lease is exclusive, for any number of replicas   *)
(* and any durations, if the leader renews in time (Timely, InTime); and a *)
(* lease that has not run out passes to nobody, whatever the environment.  *)
(***************************************************************************)
EXTENDS LeaderElection, TLAPS

USE LeaseAssumption DEF LeaseAssumption

LEMMA ClockTypes ==
  ASSUME TypeOK, NEW r \in Replica
  PROVE  clock \in Int /\ skew[r] \in Int /\ clock + skew[r] \in Int
<1>1. clock \in Int
  BY DEF TypeOK
<1>2. skew[r] \in Skews
  BY DEF TypeOK
<1>3. skew[r] \in Int
  BY <1>2
<1> QED
  BY <1>1, <1>3

\* Types hold in every environment.
LEMMA TypeStep == TypeOK /\ [Next]_vars => TypeOK'
<1> SUFFICES ASSUME TypeOK, [Next]_vars PROVE TypeOK'
  OBVIOUS
<1> USE DEF TypeOK, Lease, Phase, threadVars, vars
<1>0. \A r \in Replica : skew[r] \in Int /\ clock + skew[r] \in Int
  BY ClockTypes
<1>1. ASSUME NEW r \in Replica, Wake(r) PROVE TypeOK'
  BY <1>0, <1>1 DEF Wake
<1>2. ASSUME NEW r \in Replica, Read(r) PROVE TypeOK'
  BY <1>2 DEF Read
<1>w. ASSUME NEW r \in Replica, Write(r),
             UNCHANGED <<clock, skew, now, got, isLeader, busy>>
      PROVE  TypeOK'
  BY <1>w DEF Write
<1>f. ASSUME NEW r \in Replica, Refuse(r),
             UNCHANGED <<clock, skew, now, got, isLeader, busy>>
      PROVE  TypeOK'
  BY <1>f DEF Refuse
<1>3. ASSUME NEW r \in Replica, Create(r) PROVE TypeOK'
  BY <1>3, <1>w, <1>f DEF Create
<1>4. ASSUME NEW r \in Replica, Replace(r) PROVE TypeOK'
  BY <1>4, <1>w, <1>f DEF Replace
<1>5. ASSUME NEW r \in Replica, Yield(r) PROVE TypeOK'
  BY <1>5 DEF Yield, Sleep
<1>6. ASSUME NEW r \in Replica, Lead(r) PROVE TypeOK'
  BY <1>6 DEF Lead, Sleep
<1>7. ASSUME NEW r \in Replica, Conflict(r) PROVE TypeOK'
  BY <1>7 DEF Conflict, Sleep
<1>8. ASSUME NEW r \in Replica, NotFound(r) \/ Fail(r) PROVE TypeOK'
  BY <1>8 DEF NotFound, Fail, Sleep
<1>9. ASSUME NEW r \in Replica, BeginCycle(r) \/ EndCycle(r) PROVE TypeOK'
  BY <1>9 DEF BeginCycle, EndCycle
<1>10. ASSUME NEW r \in Replica, Crash(r) PROVE TypeOK'
  BY <1>10 DEF Crash
<1>14. ASSUME NEW r \in Replica, Boot(r) PROVE TypeOK'
  BY <1>14 DEF Boot
<1>11. CASE Delete
  BY <1>11 DEF Delete
<1>12. CASE Tick
  BY <1>12 DEF Tick
<1>13. CASE UNCHANGED vars
  BY <1>13
<1> QED
  BY <1>1, <1>2, <1>3, <1>4, <1>5, <1>6, <1>7, <1>8, <1>9, <1>10, <1>11, <1>12, <1>13,
     <1>14
  DEF Next, Election, Thread

\* What must be shown of a step: the parts of the invariant about one replica.
Good(s) ==
  /\ Active(s) \/ phase[s] = "won" => Holds(s)
  /\ phase[s] = "decide" => got[s] # NoLease
  /\ phase[s] = "decide" /\ fresh[s] => got[s] = lease
  /\ phase[s] = "won" => lease.renew = now[s]
  /\ phase[s] \notin {"down", "sleep"} => clock - (now[s] - skew[s]) \in 0..Patience
  /\ Active(s) => clock - (lease.renew - skew[s]) <= Patience

LEMMA InvIsGood == LeaseInv <=> TypeOK /\ \A s \in Replica : Good(s)
BY DEF LeaseInv, LeaderHolds, FreshCopy, CopyCurrent, Young, Good

\* Nobody else holds a lease that a candidate's write will replace.
LEMMA WriteIsSafe ==
  ASSUME Timely, LeaseInv, NEW r \in Replica, NEW s \in Replica, s # r,
         \/ phase[r] = "create" /\ lease = NoLease
         \/ Candidate(r) /\ fresh[r] /\ lease # NoLease
  PROVE  ~Active(s) /\ phase[s] # "won"
<1> SUFFICES ASSUME Active(s) \/ phase[s] = "won" PROVE FALSE
  OBVIOUS
<1>1. Good(s) /\ Good(r) /\ TypeOK
  BY InvIsGood
<1>2. lease # NoLease /\ lease.holder = s
  BY <1>1 DEF Good, Holds
<1>3. Candidate(r) /\ fresh[r]
  BY <1>2
<1>4. got[r] = lease /\ phase[r] = "decide"
  BY <1>1, <1>3 DEF Good, Candidate
<1>5. now[r] - lease.renew > LeaseDuration
  BY <1>2, <1>3, <1>4 DEF Candidate, Expired
<1>6. lease.renew \in Int /\ now[r] \in Int /\ now[s] \in Int /\ clock \in Int
  BY <1>1, <1>2 DEF TypeOK, Lease
<1>7. skew[r] \in Skews /\ skew[s] \in Skews /\ skew[r] \in Int /\ skew[s] \in Int
  BY <1>1 DEF TypeOK
<1>8. clock - (lease.renew - skew[s]) <= Patience
  <2>1. CASE Active(s)
    BY <2>1, <1>1 DEF Good
  <2>2. CASE phase[s] = "won"
    BY <2>2, <1>1, <1>6, <1>7 DEF Good
  <2> QED
    BY <2>1, <2>2
<1>9. now[r] - skew[r] <= clock
  BY <1>1, <1>4, <1>6, <1>7 DEF Good
<1>10. Patience + skew[r] - skew[s] <= LeaseDuration
  BY <1>7 DEF Timely
<1> QED
  BY <1>5, <1>6, <1>7, <1>8, <1>9, <1>10

\* A write that is applied.
LEMMA WriteStep ==
  ASSUME Timely, LeaseInv, TypeOK', NEW r \in Replica, Write(r),
         \/ phase[r] = "create" /\ lease = NoLease
         \/ Candidate(r) /\ fresh[r] /\ lease # NoLease,
         UNCHANGED <<clock, skew, now, got, isLeader, busy>>,
         NEW s \in Replica
  PROVE  Good(s)'
<1>1. TypeOK /\ Good(s) /\ Good(r)
  BY InvIsGood
<1>2. lease' = [holder |-> r, renew |-> now[r]] /\ fresh'[s] = FALSE
      /\ phase' = [phase EXCEPT ![r] = "won"]
  BY DEF Write
<1>3. lease' # NoLease /\ lease'.holder = r /\ lease'.renew = now[r]
  BY <1>2, <1>1 DEF TypeOK
<1>4. CASE s = r
  <2>1. clock - (now[r] - skew[r]) \in 0..Patience
    BY <1>1 DEF Good, Candidate
  <2>2. phase'[r] = "won"
    BY <1>1, <1>2 DEF TypeOK
  <2> QED
    BY <1>3, <1>4, <2>1, <2>2 DEF Good, Active, Holds, TypeOK
<1>5. CASE s # r
  <2>1. ~Active(s) /\ phase[s] # "won"
    BY <1>5, WriteIsSafe
  <2>2. phase'[s] = phase[s]
    BY <1>1, <1>2, <1>5 DEF TypeOK
  <2> QED
    BY <1>1, <1>2, <2>1, <2>2 DEF Good, Active
<1> QED
  BY <1>4, <1>5

\* A refusal leaves the lease and everybody's copy alone.
LEMMA RefuseStep ==
  ASSUME LeaseInv, NEW r \in Replica, Refuse(r),
         phase[r] \in {"create", "decide"},
         UNCHANGED <<clock, skew, now, got, isLeader, busy>>,
         NEW s \in Replica
  PROVE  Good(s)'
<1>1. TypeOK /\ Good(s)
  BY InvIsGood
<1>2. phase' = [phase EXCEPT ![r] = "refused"] /\ UNCHANGED <<lease, fresh>>
  BY DEF Refuse
<1>3. s # r => phase'[s] = phase[s]
  BY <1>1, <1>2 DEF TypeOK
<1>4. s = r => phase'[s] = "refused"
  BY <1>1, <1>2 DEF TypeOK
<1> QED
  BY <1>1, <1>2, <1>3, <1>4 DEF Good, Active, Holds

\* Going to sleep needs no more than that a new leader holds a young lease.
LEMMA SleepStep ==
  ASSUME LeaseInv, NEW r \in Replica, Sleep(r),
         UNCHANGED <<clock, skew, lease, fresh, busy>>,
         NEW b \in BOOLEAN, isLeader' = [isLeader EXCEPT ![r] = b],
         b => isLeader[r] \/ phase[r] = "won",
         NEW s \in Replica
  PROVE  Good(s)'
<1>1. TypeOK /\ Good(s)
  BY InvIsGood
<1>2. CASE s # r
  <2>1. phase'[s] = phase[s] /\ now'[s] = now[s] /\ got'[s] = got[s]
        /\ isLeader'[s] = isLeader[s]
    BY <1>1, <1>2 DEF TypeOK, Sleep
  <2> QED
    BY <1>1, <2>1 DEF Good, Active, Holds
<1>3. CASE s = r
  <2>1. phase'[r] = "sleep" /\ isLeader'[r] = b
    BY <1>1 DEF TypeOK, Sleep
  <2>2. Active(r)' => Active(r) \/ phase[r] = "won"
    BY <2>1 DEF Active
  <2>3. phase[r] = "won" => clock - (lease.renew - skew[r]) <= Patience
    <3> SUFFICES ASSUME phase[r] = "won"
                 PROVE  clock - (lease.renew - skew[r]) <= Patience
      OBVIOUS
    <3>1. lease.renew = now[r] /\ clock - (now[r] - skew[r]) \in 0..Patience
      BY <1>1, <1>3 DEF Good
    <3> QED
      BY <3>1
  <2> QED
    BY <1>1, <1>3, <2>1, <2>2, <2>3 DEF Good, Holds
<1> QED
  BY <1>2, <1>3

LEMMA LeaseInit == Init => LeaseInv
BY DEF Init, LeaseInv, TypeOK, LeaderHolds, FreshCopy, CopyCurrent, Young, Active, Phase, Lease

LEMMA LeaseStep ==
  ASSUME Timely, LeaseInv, [Next]_vars
  PROVE  LeaseInv'
<1>1. TypeOK /\ TypeOK'
  BY TypeStep, InvIsGood
<1> SUFFICES ASSUME NEW s \in Replica PROVE Good(s)'
  BY <1>1 DEF LeaseInv, LeaderHolds, FreshCopy, CopyCurrent, Young, Good
<1>2. Good(s)
  BY InvIsGood
<1>3. ASSUME NEW r \in Replica, Wake(r) PROVE Good(s)'
  <2>1. CASE s = r
    <3>1. phase'[r] = "read" /\ now'[r] = clock + skew[r]
          /\ UNCHANGED <<clock, skew, lease, isLeader, busy>>
      BY <1>1, <1>3 DEF Wake, TypeOK
    <3>2. clock \in Int /\ skew[r] \in Int
      BY <1>1, ClockTypes
    <3>3. clock - (now'[r] - skew[r]) \in 0..Patience
      BY <3>1, <3>2
    <3> QED
      BY <1>2, <2>1, <3>1, <3>3 DEF Good, Active, Holds
  <2>2. CASE s # r
    BY <1>1, <1>2, <1>3, <2>2 DEF Wake, Good, Active, Holds, TypeOK
  <2> QED
    BY <2>1, <2>2
<1>4. ASSUME NEW r \in Replica, Read(r) PROVE Good(s)'
  <2>1. CASE s = r
    BY <1>1, <1>2, <1>4, <2>1 DEF Read, Good, Active, Holds, TypeOK
  <2>2. CASE s # r
    BY <1>1, <1>2, <1>4, <2>2 DEF Read, Good, Active, Holds, TypeOK
  <2> QED
    BY <2>1, <2>2
<1>5. ASSUME NEW r \in Replica, Create(r) PROVE Good(s)'
  <2>1. CASE lease = NoLease
    BY <1>1, <1>5, <2>1, WriteStep DEF Create
  <2>2. CASE lease # NoLease
    BY <1>5, <2>2, RefuseStep DEF Create
  <2> QED
    BY <2>1, <2>2
<1>6. ASSUME NEW r \in Replica, Replace(r) PROVE Good(s)'
  <2>1. CASE fresh[r]
    BY <1>1, <1>6, <2>1, WriteStep DEF Replace
  <2>2. CASE ~fresh[r]
    BY <1>6, <2>2, RefuseStep DEF Replace, Candidate
  <2> QED
    BY <2>1, <2>2
<1>7. ASSUME NEW r \in Replica, Yield(r) PROVE Good(s)'
  BY <1>7, SleepStep DEF Yield
<1>8. ASSUME NEW r \in Replica, Lead(r) PROVE Good(s)'
  BY <1>8, SleepStep DEF Lead
<1>9. ASSUME NEW r \in Replica, Conflict(r) PROVE Good(s)'
  BY <1>9, SleepStep DEF Conflict
<1>10. ASSUME NEW r \in Replica, NotFound(r) \/ Fail(r) PROVE Good(s)'
  <2>1. isLeader[r] \in BOOLEAN /\ isLeader' = [isLeader EXCEPT ![r] = isLeader[r]]
    BY <1>1, <1>10 DEF NotFound, Fail, TypeOK
  <2>2. Sleep(r) /\ UNCHANGED <<clock, skew, lease, fresh, busy>>
    BY <1>10 DEF NotFound, Fail
  <2> QED
    BY <2>1, <2>2, SleepStep
<1>11. ASSUME NEW r \in Replica, BeginCycle(r) \/ EndCycle(r) PROVE Good(s)'
  BY <1>1, <1>2, <1>11
  DEF BeginCycle, EndCycle, threadVars, Good, Active, Holds, TypeOK
<1>12. ASSUME NEW r \in Replica, Crash(r) PROVE Good(s)'
  BY <1>1, <1>2, <1>12 DEF Crash, Good, Active, Holds, TypeOK
<1>13. ASSUME NEW r \in Replica, Boot(r) PROVE Good(s)'
  BY <1>1, <1>2, <1>13 DEF Boot, Good, Active, Holds, TypeOK
<1>14. CASE Delete
  BY <1>14 DEF Delete, Timely
<1>15. CASE Tick
  <2>1. InTime /\ clock' = clock + 1
        /\ UNCHANGED <<skew, lease, phase, now, got, fresh, isLeader, busy>>
    BY <1>15 DEF Tick, Timely, threadVars
  <2>2. clock \in Int /\ now[s] \in Int /\ skew[s] \in Int
    BY <1>1, ClockTypes DEF TypeOK
  <2>3. phase[s] \notin {"down", "sleep"} => clock' - (now[s] - skew[s]) \in 0..Patience
    BY <1>2, <2>1, <2>2 DEF InTime, Good
  <2>4. Active(s) => clock' - (lease.renew - skew[s]) <= Patience
    <3> SUFFICES ASSUME Active(s) PROVE clock' - (lease.renew - skew[s]) <= Patience
      OBVIOUS
    <3>1. Holds(s) /\ lease.renew \in Int
      BY <1>1, <1>2 DEF Good, Holds, TypeOK, Lease
    <3> QED
      BY <2>1, <2>2, <3>1 DEF InTime
  <2> QED
    BY <1>2, <2>1, <2>3, <2>4 DEF Good, Active, Holds
<1>16. CASE UNCHANGED vars
  BY <1>2, <1>16 DEF vars, threadVars, Good, Active, Holds
<1> QED
  BY <1>3, <1>4, <1>5, <1>6, <1>7, <1>8, <1>9, <1>10, <1>11, <1>12, <1>13, <1>14,
     <1>15, <1>16
  DEF Next, Election, Thread

\* In a timely environment whoever leads, is about to lead, or is in a cycle
\* holds the lease, and its renewal is too young to be taken over.
THEOREM LeaseInvariant == ASSUME Timely PROVE Spec => []LeaseInv
<1>1. Init => LeaseInv
  BY LeaseInit
<1>2. LeaseInv /\ [Next]_vars => LeaseInv'
  BY LeaseStep
<1> QED
  BY <1>1, <1>2, PTL DEF Spec

-----------------------------------------------------------------------------
\* A step of the election is a step of the abstract specification, or none.
LEMMA LeadsStep ==
  ASSUME Timely, LeaseInv, [Next]_vars
  PROVE  [Leads!Next]_(Leads!lvars)
<1>1. TypeOK /\ LeaderHolds
  BY DEF LeaseInv
<1> USE DEF Leads!Next, Leads!lvars
<1>2. ASSUME NEW r \in Replica, Lead(r) PROVE Leads!Lead(r)
  <2>1. Holds(r)
    BY <1>1, <1>2 DEF Lead, LeaderHolds
  <2>2. \A s \in Replica \ {r} : ~isLeader[s] /\ ~busy[s]
    BY <1>1, <2>1 DEF LeaderHolds, Holds, Active
  <2> QED
    BY <1>2, <2>2 DEF Lead, Leads!Lead
<1>3. ASSUME NEW r \in Replica, Yield(r) \/ Conflict(r) PROVE Leads!StepDown(r)
  BY <1>3 DEF Yield, Conflict, Leads!StepDown
<1>4. ASSUME NEW r \in Replica, BeginCycle(r) PROVE Leads!BeginCycle(r)
  BY <1>4 DEF BeginCycle, Leads!BeginCycle
<1>5. ASSUME NEW r \in Replica, EndCycle(r) PROVE Leads!EndCycle(r)
  BY <1>5 DEF EndCycle, Leads!EndCycle
<1>6. ASSUME NEW r \in Replica, Crash(r) PROVE Leads!Die(r)
  BY <1>6 DEF Crash, Leads!Die
<1>7. ASSUME NEW r \in Replica,
             \/ Wake(r) \/ Read(r) \/ Create(r) \/ Replace(r)
             \/ NotFound(r) \/ Fail(r) \/ Boot(r)
      PROVE  UNCHANGED <<isLeader, busy>>
  BY <1>7 DEF Wake, Read, Create, Replace, NotFound, Fail, Boot
<1>8. Delete \/ Tick \/ UNCHANGED vars => UNCHANGED <<isLeader, busy>>
  BY DEF Delete, Tick, vars
<1> QED
  BY <1>2, <1>3, <1>4, <1>5, <1>6, <1>7, <1>8 DEF Next, Election, Thread

\* In a timely environment the lease implements what the managers need: a
\* replica begins to lead only when no other leads or is still in a cycle.
THEOREM LeaseIsExclusive == ASSUME Timely PROVE Spec => Exclusive
<1>1. Init => Leads!Init
  BY DEF Init, Leads!Init, Leads!Idle
<1>2. LeaseInv /\ [Next]_vars => [Leads!Next]_(Leads!lvars)
  BY LeadsStep
<1>3. Spec => []LeaseInv
  BY LeaseInvariant
<1> QED
  BY <1>1, <1>2, <1>3, PTL DEF Spec, Exclusive, Leads!Spec

-----------------------------------------------------------------------------
\* Only a write puts the lease into a replica's name, and only a candidate
\* writes over one that is there.
LEMMA TakerIsCandidate ==
  ASSUME TypeOK, [Next]_vars, NEW r \in Replica,
         lease # NoLease, lease.holder # r, Holds(r)'
  PROVE  Candidate(r) /\ fresh[r]
<1>0. lease' # NoLease /\ lease'.holder = r
  BY DEF Holds
<1>1. lease' # lease
  BY <1>0
<1>2. ASSUME NEW s \in Replica, Write(s) PROVE s = r
  <2>1. lease' = [holder |-> s, renew |-> now[s]]
    BY <1>2 DEF Write
  <2> QED
    BY <1>0, <2>1
<1>3. ASSUME NEW s \in Replica, Create(s) PROVE FALSE
  BY <1>1, <1>3 DEF Create, Refuse
<1>4. ASSUME NEW s \in Replica, Replace(s) PROVE Candidate(r) /\ fresh[r]
  BY <1>1, <1>2, <1>4 DEF Replace, Refuse
<1>5. ASSUME NEW s \in Replica,
             \/ Wake(s) \/ Read(s) \/ Yield(s) \/ Lead(s) \/ Conflict(s)
             \/ NotFound(s) \/ Fail(s) \/ Crash(s) \/ Boot(s)
             \/ BeginCycle(s) \/ EndCycle(s)
      PROVE  FALSE
  BY <1>1, <1>5 DEF Wake, Read, Yield, Lead, Conflict, NotFound, Fail, Crash, Boot,
                    BeginCycle, EndCycle
<1>6. ~Delete
  BY <1>0 DEF Delete
<1>7. ~Tick /\ ~UNCHANGED vars
  BY <1>1 DEF Tick, vars
<1> QED
  BY <1>3, <1>4, <1>5, <1>6, <1>7 DEF Next, Election, Thread

LEMMA CopyStep == CopyInv /\ [Next]_vars => CopyInv'
<1> SUFFICES ASSUME CopyInv, [Next]_vars PROVE CopyInv'
  OBVIOUS
<1>0. TypeOK /\ TypeOK'
  BY TypeStep DEF CopyInv
<1> DEFINE Current(s) == /\ phase[s] = "decide" => got[s] # NoLease
                         /\ phase[s] = "decide" /\ fresh[s] => got[s] = lease
<1> SUFFICES ASSUME NEW s \in Replica PROVE Current(s)'
  BY <1>0 DEF CopyInv, CopyCurrent
<1>1. Current(s)
  BY DEF CopyInv, CopyCurrent
<1> USE DEF TypeOK
<1>2. ASSUME NEW r \in Replica, Read(r) PROVE Current(s)'
  BY <1>0, <1>1, <1>2 DEF Read
<1>w. ASSUME NEW r \in Replica, Write(r), got' = got PROVE Current(s)'
  <2>1. fresh'[s] = FALSE
    BY <1>w DEF Write
  <2>2. phase'[s] = "decide" => phase[s] = "decide"
    BY <1>0, <1>w DEF Write
  <2> QED
    BY <1>1, <1>w, <2>1, <2>2
<1>f. ASSUME NEW r \in Replica, Refuse(r), got' = got PROVE Current(s)'
  BY <1>0, <1>1, <1>f DEF Refuse
<1>3. ASSUME NEW r \in Replica, Create(r) \/ Replace(r) PROVE Current(s)'
  BY <1>3, <1>w, <1>f DEF Create, Replace
<1>4. ASSUME NEW r \in Replica, Sleep(r), UNCHANGED <<lease, fresh>> PROVE Current(s)'
  BY <1>0, <1>1, <1>4 DEF Sleep
<1>5. ASSUME NEW r \in Replica,
             Yield(r) \/ Lead(r) \/ Conflict(r) \/ NotFound(r) \/ Fail(r)
      PROVE  Current(s)'
  BY <1>4, <1>5 DEF Yield, Lead, Conflict, NotFound, Fail
<1>6. ASSUME NEW r \in Replica, Wake(r) \/ Crash(r) \/ Boot(r) PROVE Current(s)'
  BY <1>0, <1>1, <1>6 DEF Wake, Crash, Boot
<1>7. ASSUME NEW r \in Replica, BeginCycle(r) \/ EndCycle(r) PROVE Current(s)'
  BY <1>1, <1>7 DEF BeginCycle, EndCycle, threadVars
<1>8. CASE Delete
  BY <1>1, <1>8 DEF Delete, threadVars
<1>9. CASE Tick \/ UNCHANGED vars
  BY <1>1, <1>9 DEF Tick, vars, threadVars
<1> QED
  BY <1>2, <1>3, <1>5, <1>6, <1>7, <1>8, <1>9 DEF Next, Election, Thread

\* In every environment, with slow requests, errors, deletions and deaths: a
\* live lease is never stolen (leader.py 64-69 with the resourceVersion of
\* line 30). The API server accepts the taker's write only if what the taker
\* judged expired is the lease it writes over.
THEOREM NoTheftTheorem == Spec => NoTheft
<1>1. Init => CopyInv
  BY LeaseInit DEF LeaseInv, FreshCopy, CopyInv
<1>2. CopyInv /\ [Next]_vars => CopyInv'
  BY CopyStep
<1>3. ASSUME CopyInv, [Next]_vars, NEW r \in Replica,
             lease # NoLease, lease.holder # r, Holds(r)'
      PROVE  now[r] - lease.renew > LeaseDuration
  <2>1. Candidate(r) /\ fresh[r]
    BY <1>3, TakerIsCandidate DEF CopyInv
  <2>2. got[r] = lease
    BY <1>3, <2>1 DEF CopyInv, CopyCurrent, Candidate
  <2> QED
    BY <1>3, <2>1, <2>2 DEF Candidate, Expired
<1>4. CopyInv /\ [Next]_vars =>
        [\A r \in Replica : lease # NoLease /\ lease.holder # r /\ Holds(r)' =>
           now[r] - lease.renew > LeaseDuration]_vars
  BY <1>3
<1> QED
  BY <1>1, <1>2, <1>4, PTL DEF Spec, NoTheft

=============================================================================
