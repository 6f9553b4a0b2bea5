------------------------------ MODULE GateProofs ------------------------------
(***************************************************************************)
(* The controller implements the gate of module AdmissionGate: initial     *)
(* states map to initial states, and every step to a step or a stutter.    *)
(* And what has been proved of the managers on the assumption that the     *)
(* environment contains no second leader holds for any election whose      *)
(* steps are those of module Leadership.                                   *)
(***************************************************************************)
EXTENDS StartOrderProofs

GateInv == VersionInv /\ OnceInv

\* A run that holds a slot is a run under way.
LEMMA UnderWayRuns ==
  /\ \A k \in Target : LifeOf(k) = "running" <=> Occupies(pr[k])
  /\ Gate!UnderWay = Running(pr)
<1>1. ASSUME NEW k \in Target PROVE LifeOf(k) = "running" <=> Occupies(pr[k])
  BY DEF LifeOf, Occupies, Queued
<1> QED
  BY <1>1 DEF Gate!UnderWay, Running

\* The gate counts as the controller does.
LEMMA GateCardinality == \A S : Gate!Cardinality(S) = Cardinality(S)
  BY DEF Gate!Cardinality, Cardinality

\* A run that exists is not new.
LEMMA LifeOfRun ==
  ASSUME NEW k \in Target, pr[k] # Absent
  PROVE  /\ LifeOf(k) # "new"
         /\ pr[k].done => LifeOf(k) = "over"
         /\ ~pr[k].done /\ Queued(pr[k]) => LifeOf(k) = "waiting"
         /\ ~pr[k].done /\ ~Queued(pr[k]) /\ ~Occupies(pr[k]) =>
              LifeOf(k) = IF pr[k].managed THEN "cancelled"
                          ELSE IF pr[k].status = "Pending" THEN "held" ELSE "over"
  BY DEF LifeOf, Occupies, Queued

\* A step that touches neither the runs nor the cycles is a stutter of the gate.
LEMMA GateStutter ==
  ASSUME UNCHANGED <<pr, creates, limit>>,
         {lim[r] : r \in Cycling}' = {lim[r] : r \in Cycling}
  PROVE  UNCHANGED Gate!gvars
<1>1. \A k \in Target : LifeOf(k)' = LifeOf(k)
  BY DEF LifeOf
<1> QED
  BY <1>1 DEF Gate!gvars

\* A step that touches one run.
LEMMA OneLife ==
  ASSUME TypeOK, NEW p \in PR, \A k \in PR \ {p} : pr'[k] = pr[k],
         \A k \in PR \ {p} : creates'[k] = creates[k],
         UNCHANGED limit, {lim[r] : r \in Cycling}' = {lim[r] : r \in Cycling}
  PROVE  /\ p \in Target => Gate!Becomes(p, LifeOf(p)')
         /\ p \notin Target \/ LifeOf(p)' = LifeOf(p) => UNCHANGED Gate!gvars
<1>1. \A k \in Target : k # p => LifeOf(k)' = LifeOf(k)
  BY TargetInPR DEF LifeOf
<1>2. p \in Target => Gate!Becomes(p, LifeOf(p)')
  BY <1>1 DEF Gate!Becomes
<1>3. p \notin Target \/ LifeOf(p)' = LifeOf(p) => UNCHANGED Gate!gvars
  BY <1>1 DEF Gate!gvars
<1> QED
  BY <1>2, <1>3

(***************************************************************************)
(* The cycles                                                              *)
(***************************************************************************)

LEMMA GateOpens ==
  ASSUME GateInv, NEW m \in Replica, StartCycle(m)
  PROVE  Gate!Open
<1> USE DEF envVars
<1>1. \A s \in Replica : pc[s] = "idle"
  BY OthersIdle DEF StartCycle, Active, GateInv, OnceInv, LimitInv
<1>2. PICK n \in LoadLimit : lim' = [lim EXCEPT ![m] = n]
  BY DEF StartCycle
<1>3. pc'[m] = "read" /\ \A s \in Replica \ {m} : pc'[s] = "idle"
  BY <1>1 DEF StartCycle, GateInv, VersionInv, TypeOK
<1>4. Cycling = {} /\ Cycling' = {m}
  BY <1>1, <1>3 DEF Cycling
<1>5. {lim[r] : r \in Cycling} = {} /\ {lim[r] : r \in Cycling}' = {n}
  BY <1>2, <1>4 DEF GateInv, VersionInv, TypeOK
<1>6. \A k \in Target : LifeOf(k)' = LifeOf(k)
  BY DEF LifeOf, StartCycle
<1>7. n \in {limit} \cup (IF "crd_error" \in Env THEN {DefaultLimit} ELSE {})
  BY DEF LoadLimit
<1> QED
  BY <1>5, <1>6, <1>7 DEF Gate!Open, StartCycle

LEMMA GateCloses ==
  ASSUME GateInv, NEW m \in Replica, EndCycle(m)
  PROVE  Gate!Close
<1> USE DEF envVars
<1>1. \A s \in Replica \ {m} : pc[s] = "idle"
  BY OthersIdle DEF EndCycle, Active, GateInv, OnceInv, LimitInv
<1>2. Cycling' = {}
  BY <1>1 DEF Cycling, EndCycle, GateInv, VersionInv, TypeOK
<1>3. \A k \in Target : LifeOf(k)' = LifeOf(k)
  BY DEF LifeOf, EndCycle
<1> QED
  BY <1>2, <1>3 DEF Gate!Close, EndCycle

\* A replica that dies shuts the gate if its own cycle had it open.
LEMMA GateRestart ==
  ASSUME GateInv, NEW m \in Replica, Restart(m)
  PROVE  Gate!Close \/ UNCHANGED Gate!gvars
<1> USE DEF envVars
<1>1. \A k \in Target : LifeOf(k)' = LifeOf(k)
  BY DEF LifeOf, Restart
<1>2. CASE pc[m] # "idle"
  <2>1. \A s \in Replica \ {m} : pc[s] = "idle"
    BY <1>2, OthersIdle DEF Active, GateInv, OnceInv, LimitInv
  <2>2. Cycling' = {}
    BY <2>1 DEF Cycling, Restart, GateInv, VersionInv, TypeOK
  <2> QED
    BY <1>1, <2>2 DEF Gate!Close, Restart
<1>3. CASE pc[m] = "idle"
  <2>1. Cycling' = Cycling /\ m \notin Cycling
    BY <1>3 DEF Cycling, Restart, GateInv, VersionInv, TypeOK
  <2>2. \A r \in Replica \ {m} : lim'[r] = lim[r]
    BY DEF Restart, GateInv, VersionInv, TypeOK
  <2>3. {lim[r] : r \in Cycling}' = {lim[r] : r \in Cycling}
    BY <2>1, <2>2 DEF Cycling
  <2> QED
    BY <2>3, GateStutter DEF Restart
<1> QED
  BY <1>2, <1>3

LEMMA GateQuiet ==
  ASSUME TypeOK, NEW m \in Replica, ReadQueue(m) \/ Ack(m) \/ PatchFailed(m)
  PROVE  UNCHANGED Gate!gvars
<1>1. UNCHANGED <<pr, creates, limit, lim>>
  BY DEF ReadQueue, Ack, AckDone, PatchFailed, envVars
<1>2. Cycling' = Cycling
  BY DEF ReadQueue, Ack, AckDone, PatchFailed, NextTarget, Cycling, TypeOK
<1>3. {lim[r] : r \in Cycling}' = {lim[r] : r \in Cycling}
  BY <1>1, <1>2
<1> QED
  BY <1>1, <1>3, GateStutter

\* A patch admits a run out of the queue, or finds one that is over.
LEMMA GateAdmits ==
  ASSUME Reliable, GateInv, NEW m \in Replica, PatchApplied(m)
  PROVE  (\E k \in Target : Gate!Admit(k)) \/ UNCHANGED Gate!gvars
<1> USE DEF envVars, cycleVars
<1>0. TypeOK
  BY DEF GateInv, VersionInv
<1>1. PICK p \in Target : /\ p = Head(todo[m]) /\ Start(p) /\ pr[p] # Absent
                          /\ pr[p].managed
  BY PatchStarts DEF GateInv
<1>2. p \in PR /\ pr[p] \in Object
  BY <1>0, <1>1, TargetInPR DEF TypeOK, Store
<1>3. Cycling' = Cycling /\ m \in Cycling /\ UNCHANGED <<creates, limit, lim>>
  BY <1>0 DEF PatchApplied, NextTarget, Cycling, TypeOK
<1>4. {lim[r] : r \in Cycling}' = {lim[r] : r \in Cycling}
  BY <1>3
<1>5. \A k \in PR \ {p} : pr'[k] = pr[k]
  BY <1>0, <1>1, <1>2, StartKeeps
<1>6. /\ Gate!Becomes(p, LifeOf(p)')
      /\ LifeOf(p)' = LifeOf(p) => UNCHANGED Gate!gvars
  BY <1>0, <1>2, <1>3, <1>4, <1>5, OneLife
<1>7. pc[m] = "loop" /\ pc'[m] = "ack"
  BY <1>0 DEF PatchApplied, NextTarget, TypeOK
<1>8. pr[p].status # "none"
  BY <1>1, <1>7, FirstStart DEF GateInv, Next, Manager
<1>9. pr'[p] = [pr[p] EXCEPT !.status = "none"] /\ pr'[p] # Absent
  BY <1>0, <1>1, <1>2, <1>8, StartKeeps DEF Start, Write, TypeOK, Store
<1>10. CASE pr[p].done
  <2>1. pr'[p].done
    BY <1>2, <1>9, <1>10 DEF Object
  <2>2. LifeOf(p)' = "over" /\ LifeOf(p) = "over"
    BY <1>1, <1>9, <1>10, <2>1 DEF LifeOf, Occupies, Queued
  <2> QED
    BY <1>6, <2>2
<1>11. CASE ~pr[p].done
  <2>1. LifeOf(p) \in {"waiting", "cancelled"} /\ ~Occupies(pr[p])
    BY <1>1, <1>8, <1>11 DEF LifeOf, Occupies, Queued
  <2>2. Occupies(pr'[p])
    BY <1>2, <1>9, <1>11 DEF Occupies, Object
  <2>3. LifeOf(p)' = "running"
    BY <2>2 DEF LifeOf, Occupies, Queued
  <2>4. Cardinality(Running(pr)) + slots[m] <= lim[m] /\ slots[m] > 0
    BY DEF PatchApplied, NextTarget, GateInv, OnceInv, LimitInv, SlotsBound
  <2>5. Cardinality(Running(pr)) < lim[m]
    <3>1. Cardinality(Running(pr)) \in Nat /\ slots[m] \in Int /\ lim[m] \in Int
      BY <1>0, RunningFinite DEF TypeOK
    <3> QED
      BY <2>4, <3>1
  <2>6. \E n \in {lim[r] : r \in Cycling} : Gate!Cardinality(Gate!UnderWay) < n
    BY <1>3, <2>5, UnderWayRuns, GateCardinality
  <2>7. Gate!Becomes(p, "running")
    BY <1>6, <2>3
  <2>8. Gate!Admit(p)
    BY <2>1, <2>6, <2>7 DEF Gate!Admit
  <2> QED
    BY <2>8
<1> QED
  BY <1>10, <1>11

(***************************************************************************)
(* The users                                                               *)
(***************************************************************************)

\* What a user writes leaves the cycles alone and reaches one run.
LEMMA GateWrite ==
  ASSUME TypeOK, NEW p \in PR, NEW o \in Object \cup {Absent}, Write(p, o),
         UNCHANGED <<limit, localVars>>, \A k \in PR \ {p} : creates'[k] = creates[k]
  PROVE  /\ p \in Target => Gate!Becomes(p, LifeOf(p)')
         /\ p \notin Target \/ LifeOf(p)' = LifeOf(p) => UNCHANGED Gate!gvars
         /\ pr'[p] = o
<1>1. pr'[p] = o /\ \A k \in PR \ {p} : pr'[k] = pr[k]
  BY WriteEffect
<1>2. {lim[r] : r \in Cycling}' = {lim[r] : r \in Cycling}
  BY DEF localVars, cycleVars, Cycling
<1> QED
  BY <1>1, <1>2, OneLife

LEMMA GateArrives ==
  ASSUME Reliable, NamesOnce, GateInv, NEW p \in PR, NEW src \in Sources,
         NEW tier \in Tiers, NEW r \in Replica, Create(p, src, tier, r)
  PROVE  (\E k \in Target : Gate!Arrive(k)) \/ UNCHANGED Gate!gvars
<1> DEFINE o == Mutate(p, src, tier, synced[r], clock)
<1>0. TypeOK /\ Created
  BY DEF GateInv, VersionInv, Versions
<1>1. synced[r] = TRUE
  BY <1>0 DEF Create, Reliable, TypeOK
<1>2. o \in Object
  <2>1. synced[r] \in BOOLEAN /\ clock \in Nat
    BY <1>0, ControllerAssumption DEF ControllerAssumption, TypeOK
  <2> QED
    BY <2>1, MutateType
<1>3. pr[p] = Absent /\ ~Used(p)
  BY <1>0, CreateUnused
<1>4. creates[p] = 0
  BY <1>0, <1>3, ControllerAssumption DEF ControllerAssumption, Used, TypeOK
<1>5. p \in Target => /\ o.status = "Pending" /\ ~o.done
                      /\ o.managed = (src = "dashboard")
  BY <1>1 DEF Mutate
<1>6. /\ Write(p, o) /\ UNCHANGED <<limit, localVars>>
      /\ \A k \in PR \ {p} : creates'[k] = creates[k]
  BY <1>0 DEF Create, TypeOK
<1>7. o # Absent
  BY <1>2, PipelineRunAssumption DEF PipelineRunAssumption
<1> HIDE DEF o
<1>8. /\ p \in Target => Gate!Becomes(p, LifeOf(p)')
      /\ p \notin Target => UNCHANGED Gate!gvars
      /\ pr'[p] = o
  BY <1>0, <1>2, <1>6, GateWrite
<1>9. ASSUME p \in Target PROVE Gate!Arrive(p)
  <2>1. LifeOf(p) = "new"
    BY <1>3, <1>4 DEF LifeOf, Occupies, Queued
  <2>2. LifeOf(p)' \in {"held", "waiting"}
    BY <1>5, <1>7, <1>8, <1>9 DEF LifeOf, Occupies, Queued
  <2> QED
    BY <1>8, <1>9, <2>1, <2>2 DEF Gate!Arrive
<1> QED
  BY <1>8, <1>9

LEMMA GateUpdate ==
  ASSUME GateInv, NEW p \in PR, Complete(p) \/ Touch(p) \/ Cancel(p) \/ Delete(p)
  PROVE  (\E k \in Target : Gate!End(k) \/ Gate!Cancel(k)) \/ UNCHANGED Gate!gvars
<1>0. TypeOK
  BY DEF GateInv, VersionInv
<1>1. pr[p] # Absent
  BY DEF Complete, Touch, Cancel, Delete, Live
<1>2. pr[p] \in Object
  BY <1>0, <1>1 DEF TypeOK, Store
<1>3. ASSUME NEW o \in Object \cup {Absent}, Update(p, o)
      PROVE  /\ p \in Target => Gate!Becomes(p, LifeOf(p)')
             /\ p \notin Target \/ LifeOf(p)' = LifeOf(p) => UNCHANGED Gate!gvars
             /\ pr'[p] = o /\ creates' = creates
  BY <1>0, <1>3, GateWrite DEF Update
<1>4. ASSUME p \in Target, LifeOf(p)' = "over", Gate!Becomes(p, LifeOf(p)')
      PROVE  Gate!End(p)
  <2>1. LifeOf(p) # "new"
    BY <1>1, <1>4, LifeOfRun
  <2> QED
    BY <1>4, <2>1 DEF Gate!End
<1>5. ASSUME Complete(p) PROVE (\E k \in Target : Gate!End(k)) \/ UNCHANGED Gate!gvars
  <2> DEFINE o == [pr[p] EXCEPT !.done = TRUE]
  <2>1. o \in Object /\ Update(p, o) /\ o.done /\ o # Absent
    BY <1>2, <1>5, ObjectUpdate, PipelineRunAssumption
       DEF Complete, Object, PipelineRunAssumption
  <2> HIDE DEF o
  <2>2. p \in Target => LifeOf(p)' = "over"
    BY <1>3, <2>1 DEF LifeOf, Occupies, Queued
  <2> QED
    BY <1>3, <1>4, <2>1, <2>2
<1>6. ASSUME Touch(p) PROVE UNCHANGED Gate!gvars
  <2>1. pr'[p] = pr[p] /\ creates' = creates
    BY <1>2, <1>3, <1>6 DEF Touch
  <2>2. p \in Target => LifeOf(p)' = LifeOf(p)
    BY <2>1 DEF LifeOf
  <2> QED
    BY <1>2, <1>3, <1>6, <2>2 DEF Touch
<1>7. ASSUME Cancel(p)
      PROVE  (\E k \in Target : Gate!End(k) \/ Gate!Cancel(k)) \/ UNCHANGED Gate!gvars
  <2> DEFINE o == [pr[p] EXCEPT !.status = "Cancelled"]
  <2>1. /\ o \in Object /\ Update(p, o) /\ o.status = "Cancelled" /\ o # Absent
        /\ o.managed = pr[p].managed /\ o.done = pr[p].done
    BY <1>2, <1>7, ObjectUpdate, PipelineRunAssumption
       DEF Cancel, Object, Status, PipelineRunAssumption
  <2>2. ~pr[p].done /\ pr[p].status \in {"none", "Pending"}
    BY <1>2, <1>7 DEF Cancel, Live, Object, Status
  <2> HIDE DEF o
  <2>3. /\ p \in Target => Gate!Becomes(p, LifeOf(p)')
        /\ p \notin Target => UNCHANGED Gate!gvars
        /\ pr'[p] = o
    BY <1>3, <2>1
  <2>4. CASE p \in Target /\ pr[p].managed
    <3>1. LifeOf(p) \in {"waiting", "running"}
      BY <1>1, <2>2, <2>4 DEF LifeOf, Occupies, Queued
    <3>2. LifeOf(p)' = "cancelled"
      BY <2>1, <2>2, <2>3, <2>4 DEF LifeOf, Occupies, Queued
    <3> QED
      BY <2>3, <2>4, <3>1, <3>2 DEF Gate!Cancel
  <2>5. CASE p \in Target /\ ~pr[p].managed
    <3>1. LifeOf(p)' = "over"
      BY <2>1, <2>2, <2>3, <2>5 DEF LifeOf, Occupies, Queued
    <3> QED
      BY <1>4, <2>3, <2>5, <3>1
  <2> QED
    BY <2>3, <2>4, <2>5
<1>8. ASSUME Delete(p) PROVE (\E k \in Target : Gate!End(k)) \/ UNCHANGED Gate!gvars
  <2>1. pr'[p] = Absent /\ creates' = creates /\ Update(p, Absent)
    BY <1>3, <1>8 DEF Delete
  <2>2. creates[p] # 0
    BY <1>0, <1>1 DEF GateInv, VersionInv, Versions, Created, Used, TypeOK
  <2>3. p \in Target => LifeOf(p)' = "over"
    BY <2>1, <2>2 DEF LifeOf, Occupies, Queued
  <2> QED
    BY <1>3, <1>4, <2>1, <2>3
<1> QED
  BY <1>5, <1>6, <1>7, <1>8

-----------------------------------------------------------------------------
LEMMA GateStep ==
  ASSUME Reliable, NamesOnce, GateInv, [Next]_vars
  PROVE  [Gate!Next]_(Gate!gvars)
<1>0. TypeOK
  BY DEF GateInv, VersionInv
<1>1. ASSUME NEW r \in Replica, Manager(r) PROVE [Gate!Next]_(Gate!gvars)
  <2>1. ~PatchReplyLost(r)
    BY DEF PatchReplyLost, Reliable
  <2> QED
    BY <1>0, <1>1, <2>1, GateOpens, GateCloses, GateQuiet, GateAdmits DEF Manager, Gate!Next
<1>2. ASSUME NEW r \in Replica, Restart(r) PROVE [Gate!Next]_(Gate!gvars)
  BY <1>2, GateRestart DEF Gate!Next
<1>3. ASSUME NEW p \in PR, User(p) PROVE [Gate!Next]_(Gate!gvars)
  <2>1. ~Release(p)
    BY DEF Release, Reliable
  <2> QED
    BY <1>3, <2>1, GateArrives, GateUpdate DEF User, Gate!Next
<1>4. ASSUME NEW n \in Limits, SetLimit(n) PROVE Gate!SetLimit
  <2>1. limit' = n /\ UNCHANGED <<pr, creates, pc, lim>>
    BY <1>4 DEF SetLimit, cycleVars
  <2>2. \A k \in Target : LifeOf(k)' = LifeOf(k)
    BY <2>1 DEF LifeOf
  <2> QED
    BY <2>1, <2>2 DEF Gate!SetLimit, Cycling
<1>5. ASSUME \/ \E r \in Replica : BecomeLeader(r) \/ StepDown(r) \/ Watcher(r)
             \/ Tick \/ UNCHANGED vars
      PROVE  UNCHANGED Gate!gvars
  <2>1. UNCHANGED <<pr, creates, limit, pc, lim>>
    BY <1>5 DEF BecomeLeader, StepDown, Watcher, WatchList, ReplaceCache, Deliver, Expire,
                Tick, vars, envVars, cycleVars
  <2>2. {lim[r] : r \in Cycling}' = {lim[r] : r \in Cycling}
    BY <2>1 DEF Cycling
  <2> QED
    BY <2>1, <2>2, GateStutter
<1>6. ASSUME Gate!SetLimit PROVE Gate!Next
  BY <1>6 DEF Gate!Next
<1> QED
  BY <1>1, <1>2, <1>3, <1>4, <1>5, <1>6 DEF Next

LEMMA GateInit == Init => Gate!Init
<1> SUFFICES ASSUME Init PROVE Gate!Init
  OBVIOUS
<1>1. Cycling = {}
  BY DEF Init, Cycling
<1>2. \A k \in Target : LifeOf(k) = "new"
  BY TargetInPR DEF Init, Nothing, LifeOf, Occupies, Queued
<1> QED
  BY <1>1, <1>2 DEF Init, Gate!Init

\* In a reliable environment, whichever election the replicas hold, as long as it
\* steps like module Leadership (leader.py 28-96): seen from the runs the
\* replicas are one gate, no start goes over the limit of its cycle, and no run is
\* started twice (manager.py 112-183; cache.py 67-109; webhook.py 94-101).
THEOREM UnderLease ==
  ASSUME Reliable, NamesOnce
  PROVE  Spec /\ LeaseKept => Gated /\ AdmitWithinLimit /\ NoRedundantStart
<1>1. Spec => []VersionInv
  BY VersionInvariant
<1>2. Spec /\ LeaseKept => []OnceInv
  BY OnceUnderLease
<1>3. VersionInv /\ OnceInv /\ [Next]_vars => [Gate!Next]_(Gate!gvars)
  BY GateStep DEF GateInv
<1>4. Spec /\ LeaseKept => Gated
  BY <1>1, <1>2, <1>3, GateInit, PTL DEF Spec, Gated, Gate!Spec
<1>5. OnceInv /\ [Next]_vars =>
        [\A k \in Target : ~Occupies(pr[k]) /\ Occupies(pr[k]') =>
           \E r \in Replica : /\ pc[r] = "loop" /\ pc'[r] = "ack"
                              /\ Cardinality(Running(pr')) <= lim[r]]_vars
  BY AdmitStep DEF OnceInv
<1>6. Spec /\ LeaseKept => AdmitWithinLimit
  BY <1>2, <1>5, PTL DEF Spec, AdmitWithinLimit
<1>7. OnceInv /\ [Next]_vars =>
        [\A r \in Replica : pc[r] = "loop" /\ pc'[r] = "ack" =>
           pr[Head(todo[r])].status # "none"]_vars
  BY FirstStart
<1>8. Spec /\ LeaseKept => NoRedundantStart
  BY <1>2, <1>7, PTL DEF Spec, NoRedundantStart
<1> QED
  BY <1>4, <1>6, <1>8

\* The controller implements the gate in every orderly environment: with any
\* number of replicas and runs, restarts, failovers, expired watches, refused
\* patches, unreadable and changing limits, cancelled and deleted runs.
THEOREM GateRefinement ==
  ASSUME Orderly, NamesOnce
  PROVE  Spec => Gated
<1>1. Spec => LeaseKept
  BY LeadershipTaken DEF Orderly
<1>2. Spec /\ LeaseKept => Gated
  BY UnderLease DEF Orderly
<1> QED
  BY <1>1, <1>2

-----------------------------------------------------------------------------
(***************************************************************************)
(* The replicas with their lease: module LeaderElection says how the       *)
(* threads of leader.py set isLeader, and looks at the manager threads     *)
(* only for whether they are in a cycle; QueueController says the rest.    *)
(* The two run on clocks of their own: the creation times come from the    *)
(* API server's, the lease counts with the replicas'.                      *)
(***************************************************************************)
CONSTANTS NoLease, LeaseDuration, Skews, Patience, LeaseEnv, MaxTime

VARIABLES time, skew, lease, phase, now, got, fresh

Election == INSTANCE LeaderElectionProofs WITH
              clock <- time, MaxClock <- MaxTime, Env <- LeaseEnv,
              busy  <- [r \in Replica |-> pc[r] # "idle"]

\* The managers' cycles are what the election takes for busy.
LEMMA ElectionLeads == Election!Exclusive => LeaseKept
<1>1. Election!Leads!Init => Leads!Init
  BY DEF Election!Leads!Init, Leads!Init, Election!Leads!Idle, Leads!Idle
<1>2. [Election!Leads!Next]_(Election!Leads!lvars) => [Leads!Next]_(Leads!lvars)
  BY DEF Election!Leads!Next, Leads!Next, Election!Leads!lvars, Leads!lvars,
         Election!Leads!Lead, Leads!Lead, Election!Leads!StepDown, Leads!StepDown,
         Election!Leads!BeginCycle, Leads!BeginCycle, Election!Leads!EndCycle,
         Leads!EndCycle, Election!Leads!Die, Leads!Die
<1> QED
  BY <1>1, <1>2, PTL DEF Election!Exclusive, LeaseKept, Election!Leads!Spec, Leads!Spec

\* High availability (README 2.3): replicas that lead by the lease alone (Env may
\* contain "two_leaders": QueueController then leaves it all to the election), with
\* clocks that differ, processes that die and requests that fail, are one gate, as
\* long as nobody deletes the lease and renewals are in time (leader.py 28-96 with
\* manager.py 112-183).
THEOREM HighAvailability ==
  ASSUME Reliable, NamesOnce, Election!LeaseAssumption, Election!Timely
  PROVE  Spec /\ Election!Spec => Gated /\ AdmitWithinLimit /\ NoRedundantStart
<1>1. Election!Spec => Election!Exclusive
  BY Election!LeaseIsExclusive
<1> QED
  BY <1>1, ElectionLeads, UnderLease

=============================================================================
