------------------------ MODULE QueueControllerProofs ------------------------
(***************************************************************************)
(* Proofs about QueueController, for every value of its constants.         *)
(***************************************************************************)
EXTENDS QueueInvariant, FiniteSetTheorems, TLAPS

(***************************************************************************)
(* Type correctness                                                        *)
(***************************************************************************)

\* A change of spec.status, or of done, leaves an object an object.
LEMMA ObjectUpdate ==
  ASSUME NEW o \in Object, NEW s \in Status
  PROVE  /\ [o EXCEPT !.status = s] \in Object
         /\ [o EXCEPT !.done = TRUE] \in Object
  BY DEF Object

LEMMA MutateType ==
  ASSUME NEW k \in PR, NEW src \in Sources, NEW tier \in Tiers,
         NEW synch \in BOOLEAN, NEW now \in Nat
  PROVE  Mutate(k, src, tier, synch, now) \in Object
  BY DEF Mutate, Object, Status

\* A queue order is a sequence of names.
LEMMA QueueOrdersType ==
  ASSUME NEW store, NEW ahd, NEW now, NEW q \in QueueOrders(store, ahd, now)
  PROVE  q \in Seq(PR)
<1>1. IsFiniteSet(Waiting(store))
  BY FS_Subset, PipelineRunAssumption DEF PipelineRunAssumption, Waiting
<1>2. Cardinality(Waiting(store)) \in Nat
  BY <1>1, FS_CardinalityType
<1>3. q \in [1..Cardinality(Waiting(store)) -> Waiting(store)]
  BY DEF QueueOrders, SetToSeqs
<1>4. Waiting(store) \subseteq PR
  BY PipelineRunAssumption DEF PipelineRunAssumption, Waiting
<1> QED
  BY <1>2, <1>3, <1>4

\* So is the order of a list a set of pairs of names.
LEMMA ListOrdersType ==
  ASSUME NEW store, NEW order \in ListOrders(store)
  PROVE  order \in SUBSET (PR \X PR)
<1>1. PICK q \in SetToSeqs(Placed(store)) :
        order = {<<q[p[1]], q[p[2]]>> : p \in {x \in (DOMAIN q) \X (DOMAIN q) : x[1] < x[2]}}
  BY DEF ListOrders
<1>2. q \in [1..Cardinality(Placed(store)) -> Placed(store)] /\ Placed(store) \subseteq PR
  BY <1>1 DEF SetToSeqs, Placed
<1>3. \A i \in DOMAIN q : q[i] \in PR
  BY <1>2
<1> QED
  BY <1>1, <1>3

\* A write of the API server keeps the types of the store and the streams.
LEMMA WriteType ==
  ASSUME TypeOK, NEW k \in PR, NEW o \in Object \cup {Absent}, Write(k, o)
  PROVE  pr' \in Store /\ stream' \in [Replica -> Seq(Event)]
<1>1. [key |-> k, obj |-> o] \in Event
  BY DEF Event
<1>2. ASSUME NEW r \in Replica
      PROVE  Append(stream[r], [key |-> k, obj |-> o]) \in Seq(Event)
  BY <1>1, <1>2 DEF TypeOK
<1> QED
  BY <1>2 DEF Write, TypeOK, Store

LEMMA StartType ==
  ASSUME TypeOK, NEW k \in PR, Start(k)
  PROVE  pr' \in Store /\ stream' \in [Replica -> Seq(Event)]
<1>1. pr[k] \in Object
  BY DEF Start, TypeOK, Store
<1>2. [pr[k] EXCEPT !.status = "none"] \in Object
  BY <1>1, ObjectUpdate DEF Status
<1>3. CASE pr[k].status = "none"
  BY <1>3 DEF Start, TypeOK
<1>4. CASE pr[k].status # "none"
  BY <1>2, <1>4, WriteType DEF Start
<1> QED
  BY <1>3, <1>4

LEMMA UpdateType ==
  ASSUME TypeOK, NEW k \in PR, NEW o \in Object \cup {Absent}, Update(k, o)
  PROVE  TypeOK'
<1>1. pr' \in Store /\ stream' \in [Replica -> Seq(Event)]
  BY WriteType DEF Update
<1> QED
  BY <1>1 DEF Update, localVars, cycleVars, TypeOK

LEMMA TodoType ==
  ASSUME TypeOK, NEW r \in Replica, todo[r] # <<>>
  PROVE  /\ Head(todo[r]) \in PR
         /\ [todo EXCEPT ![r] = Tail(@)] \in [Replica -> Seq(PR)]
  BY DEF TypeOK

LEMMA TypeInit == Init => TypeOK /\ AckHasTarget
  BY ControllerAssumption
  DEF ControllerAssumption, Init, TypeOK, Nothing, Store, AckHasTarget

LEMMA TypeStep == TypeOK /\ AckHasTarget /\ [Next]_vars => TypeOK' /\ AckHasTarget'
<1>2. TypeOK /\ AckHasTarget /\ [Next]_vars => TypeOK'
  <2> SUFFICES ASSUME TypeOK, AckHasTarget, [Next]_vars PROVE TypeOK'
    OBVIOUS
  <2> USE DEF envVars, watchVars, cycleVars
  <2>1. ASSUME NEW r \in Replica, BecomeLeader(r) PROVE TypeOK'
    BY <2>1 DEF BecomeLeader, TypeOK
  <2>2. ASSUME NEW r \in Replica, StepDown(r) PROVE TypeOK'
    BY <2>2 DEF StepDown, TypeOK
  <2>3. ASSUME NEW r \in Replica, Restart(r) PROVE TypeOK'
    <3>1. Nothing \in Store
      BY DEF Nothing, Store
    <3>2. stream' \in [Replica -> Seq(Event)]
      BY <2>3 DEF Restart, TypeOK
    <3>3. overdue' \in [Replica -> Nat]
      BY <2>3, <3>2 DEF Restart, TimePasses
    <3> QED
      BY <2>3, <3>1, <3>2, <3>3 DEF Restart, TypeOK
  <2>4. ASSUME NEW r \in Replica, WatchList(r) PROVE TypeOK'
    BY <2>4 DEF WatchList, TypeOK
  <2>5. ASSUME NEW r \in Replica, ReplaceCache(r) PROVE TypeOK'
    <3>1. Nothing \in Store
      BY DEF Nothing, Store
    <3>2. ahead' \in [Replica -> SUBSET (PR \X PR)]
      BY <2>5, ListOrdersType DEF ReplaceCache, TypeOK
    <3> QED
      BY <2>5, <3>1, <3>2 DEF ReplaceCache, TypeOK
  <2>6. ASSUME NEW r \in Replica, Deliver(r) PROVE TypeOK'
    <3>1. Head(stream[r]) \in Event /\ Tail(stream[r]) \in Seq(Event)
      BY <2>6 DEF Deliver, TypeOK
    <3>2. cache' \in [Replica -> Store]
      BY <2>6, <3>1 DEF Deliver, UpdateCache, TypeOK, Store, Event
    <3>3. overdue' \in [Replica -> Nat]
      BY <2>6 DEF Deliver, TypeOK
    <3>4. PICK k \in PR : k = Head(stream[r]).key
      BY <3>1 DEF Event
    <3>5. /\ {p \in ahead[r] : k \notin {p[1], p[2]}} \in SUBSET (PR \X PR)
          /\ ahead[r] \cup (Placed(cache[r]) \X {k}) \in SUBSET (PR \X PR)
      BY DEF TypeOK, Placed
    <3>6. ahead' \in [Replica -> SUBSET (PR \X PR)]
      BY <2>6, <3>4, <3>5 DEF Deliver, UpdateCache, TypeOK
    <3> QED
      BY <2>6, <3>1, <3>2, <3>3, <3>6 DEF Deliver, TypeOK
  <2>7. ASSUME NEW r \in Replica, Expire(r) PROVE TypeOK'
    BY <2>7 DEF Expire, TypeOK
  <2>8. ASSUME NEW r \in Replica, StartCycle(r) PROVE TypeOK'
    <3>1. LoadLimit \subseteq Int
      BY ControllerAssumption DEF ControllerAssumption, LoadLimit, TypeOK
    <3> QED
      BY <2>8, <3>1 DEF StartCycle, TypeOK
  <2>9. ASSUME NEW r \in Replica, ReadQueue(r) PROVE TypeOK'
    <3>1. IsFiniteSet(Running(cache[r]))
      BY FS_Subset, PipelineRunAssumption DEF PipelineRunAssumption, Running
    <3>2. Cardinality(Running(cache[r])) \in Nat
      BY <3>1, FS_CardinalityType
    <3>3. slots' \in [Replica -> Int]
      BY <2>9, <3>2 DEF ReadQueue, TypeOK
    <3>4. todo' \in [Replica -> Seq(PR)]
      BY <2>9, QueueOrdersType DEF ReadQueue, TypeOK
    <3> QED
      BY <2>9, <3>3, <3>4 DEF ReadQueue, TypeOK
  <2>10. ASSUME NEW r \in Replica, PatchApplied(r) PROVE TypeOK'
    <3>1. Head(todo[r]) \in PR
      BY <2>10, TodoType DEF PatchApplied, NextTarget
    <3>2. pr' \in Store /\ stream' \in [Replica -> Seq(Event)]
      BY <2>10, <3>1, StartType DEF PatchApplied
    <3> QED
      BY <2>10, <3>2 DEF PatchApplied, TypeOK
  <2>11. ASSUME NEW r \in Replica, Ack(r) PROVE TypeOK'
    <3>0. todo[r] # <<>>
      BY <2>11 DEF Ack, AckDone, AckHasTarget
    <3>1. Head(todo[r]) \in PR /\ todo' \in [Replica -> Seq(PR)]
      BY <2>11, <3>0, TodoType DEF Ack, AckDone, DropTarget
    <3>2. cache' \in [Replica -> Store]
      <4> DEFINE k == Head(todo[r])
      <4>1. CASE cache[r][k] = Absent
        BY <2>11, <4>1 DEF Ack, WriteThrough, TypeOK
      <4>2. CASE cache[r][k] # Absent
        <5>1. cache[r][k] \in Object /\ "none" \in Status
          BY <3>1, <4>2 DEF TypeOK, Store, Status
        <5>2. [cache[r][k] EXCEPT !.status = "none"] \in Object
          BY <5>1, ObjectUpdate
        <5> QED
          BY <2>11, <3>1, <4>2, <5>2 DEF Ack, WriteThrough, TypeOK, Store
      <4> QED
        BY <4>1, <4>2
    <3>3. slots' \in [Replica -> Int] /\ pc' \in [Replica -> {"idle", "read", "loop", "ack"}]
      BY <2>11 DEF Ack, AckDone, TypeOK
    <3> QED
      BY <2>11, <3>1, <3>2, <3>3 DEF Ack, AckDone, TypeOK
  <2>12. ASSUME NEW r \in Replica, PatchFailed(r) PROVE TypeOK'
    <3>1. todo' \in [Replica -> Seq(PR)]
      BY <2>12, TodoType DEF PatchFailed, NextTarget, DropTarget
    <3> QED
      BY <2>12, <3>1 DEF PatchFailed, TypeOK
  <2>13. ASSUME NEW r \in Replica, PatchReplyLost(r) PROVE TypeOK'
    <3>1. Head(todo[r]) \in PR /\ todo' \in [Replica -> Seq(PR)]
      BY <2>13, TodoType DEF PatchReplyLost, NextTarget, DropTarget
    <3>2. pr' \in Store /\ stream' \in [Replica -> Seq(Event)]
      BY <2>13, <3>1, StartType DEF PatchReplyLost
    <3> QED
      BY <2>13, <3>1, <3>2 DEF PatchReplyLost, TypeOK
  <2>14. ASSUME NEW r \in Replica, EndCycle(r) PROVE TypeOK'
    <3>1. overdue' \in [Replica -> Nat]
      BY <2>14 DEF EndCycle, TimePasses, TypeOK
    <3>2. todo' \in [Replica -> Seq(PR)]
      BY <2>14 DEF EndCycle, TypeOK
    <3>3. lim' \in [Replica -> Int] /\ slots' \in [Replica -> Int]
      BY <2>14 DEF EndCycle, TypeOK
    <3> QED
      BY <2>14, <3>1, <3>2, <3>3 DEF EndCycle, TypeOK
  <2>15. ASSUME NEW k \in PR, Complete(k) \/ Touch(k) \/ Cancel(k) \/ Delete(k) \/ Release(k)
         PROVE  TypeOK'
    <3>1. pr[k] # Absent => pr[k] \in Object
      BY DEF TypeOK, Store
    <3>2. \E o \in Object \cup {Absent} : Update(k, o)
      BY <2>15, <3>1, ObjectUpdate
      DEF Complete, Touch, Cancel, Delete, Release, Live, Status
    <3> QED
      BY <3>2, UpdateType
  <2>16. ASSUME NEW k \in PR, NEW src \in Sources, NEW tier \in Tiers, NEW r \in Replica,
                Create(k, src, tier, r)
         PROVE  TypeOK'
    <3>1. Mutate(k, src, tier, synced[r], clock) \in Object
      BY ControllerAssumption, MutateType DEF ControllerAssumption, TypeOK
    <3>2. pr' \in Store /\ stream' \in [Replica -> Seq(Event)]
      BY <2>16, <3>1, WriteType DEF Create
    <3>3. creates' \in [PR -> 0..MaxCreates]
      BY <2>16, ControllerAssumption DEF ControllerAssumption, Create, TypeOK
    <3> QED
      BY <2>16, <3>2, <3>3 DEF Create, localVars, TypeOK
  <2>17. ASSUME NEW n \in Limits, SetLimit(n) PROVE TypeOK'
    BY <2>17 DEF SetLimit, TypeOK
  <2>18. ASSUME Tick PROVE TypeOK'
    BY <2>18, ControllerAssumption DEF ControllerAssumption, Tick, TypeOK
  <2>19. CASE UNCHANGED vars
    BY <2>19 DEF vars, TypeOK
  <2> QED
    BY <2>1, <2>2, <2>3, <2>4, <2>5, <2>6, <2>7, <2>8, <2>9, <2>10, <2>11, <2>12,
       <2>13, <2>14, <2>15, <2>16, <2>17, <2>18, <2>19
    DEF Next, Watcher, Manager, User
<1>3. TypeOK /\ AckHasTarget /\ [Next]_vars => AckHasTarget'
  <2> SUFFICES ASSUME TypeOK, AckHasTarget, [Next]_vars,
                      NEW r \in Replica, pc'[r] = "ack"
               PROVE  todo'[r] # <<>>
    BY DEF AckHasTarget
  <2> USE DEF envVars, watchVars, cycleVars
  <2>1. CASE UNCHANGED vars
    BY <2>1 DEF vars, AckHasTarget
  <2>2. ASSUME NEW s \in Replica,
               BecomeLeader(s) \/ StepDown(s) \/ Restart(s) \/ Watcher(s)
        PROVE  todo'[r] # <<>>
    BY <2>2 DEF BecomeLeader, StepDown, Restart, Watcher, WatchList, ReplaceCache,
                Deliver, Expire, AckHasTarget, TypeOK
  <2>3. ASSUME NEW s \in Replica, Manager(s) PROVE todo'[r] # <<>>
    BY <2>3 DEF Manager, StartCycle, ReadQueue, PatchApplied, Ack, AckDone, PatchFailed,
                PatchReplyLost, EndCycle, NextTarget, DropTarget, AckHasTarget, TypeOK
  <2>4. ASSUME NEW k \in PR, User(k) PROVE todo'[r] # <<>>
    BY <2>4 DEF User, Complete, Touch, Cancel, Delete, Release, Create, Update,
                localVars, AckHasTarget
  <2>5. ASSUME Tick \/ \E n \in Limits : SetLimit(n) PROVE todo'[r] # <<>>
    BY <2>5 DEF Tick, SetLimit, AckHasTarget
  <2> QED
    BY <2>1, <2>2, <2>3, <2>4, <2>5 DEF Next
<1> QED
  BY <1>2, <1>3

\* Type correctness: nothing the threads, the users or a fault can do, in any
\* order, puts a value of another kind into the store, a cache or a stream.
THEOREM TypeCorrect == Spec => []TypeOK
  BY TypeInit, TypeStep, PTL DEF Spec

(***************************************************************************)
(* Lemmas about Anchored                                                   *)
(***************************************************************************)

LEMMA AnchoredEmpty ==
  ASSUME NEW o, NEW k, Occupies(o)
  PROVE  Anchored(o, <<>>, k, 0)
  BY DEF Anchored

LEMMA AnchoredMono ==
  ASSUME NEW o, NEW s, NEW k, NEW b \in Nat, NEW c \in Nat, b <= c, Anchored(o, s, k, b)
  PROVE  Anchored(o, s, k, c)
  BY DEF Anchored

\* An ack can only make more of the cache look running.
LEMMA AnchoredBase ==
  ASSUME NEW o, NEW p, NEW s, NEW k, NEW b \in Nat, Anchored(o, s, k, b),
         Occupies(o) => Occupies(p)
  PROVE  Anchored(p, s, k, b)
  BY DEF Anchored

\* An event that does not show k as stopped does no harm.
LEMMA AnchoredAppend ==
  ASSUME NEW o, NEW s \in Seq(Event), NEW k, NEW b \in 0..Len(s), NEW e \in Event,
         e.key = k => Occupies(e.obj), Anchored(o, s, k, b)
  PROVE  Anchored(o, Append(s, e), k, b)
<1> DEFINE t == Append(s, e)
<1>1. Len(t) = Len(s) + 1 /\ t[Len(s) + 1] = e /\ \A i \in 1..Len(s) : t[i] = s[i]
  OBVIOUS
<1>2. PICK i \in 0..b :
        /\ IF i = 0 THEN Occupies(o) ELSE s[i].key = k /\ Occupies(s[i].obj)
        /\ \A j \in (i + 1)..Len(s) : s[j].key = k => Occupies(s[j].obj)
  BY DEF Anchored
<1>3. IF i = 0 THEN Occupies(o) ELSE t[i].key = k /\ Occupies(t[i].obj)
  BY <1>1, <1>2
<1>4. ASSUME NEW j \in (i + 1)..Len(t), t[j].key = k PROVE Occupies(t[j].obj)
  BY <1>1, <1>2, <1>4
<1> HIDE DEF t
<1> QED
  BY <1>3, <1>4 DEF Anchored, t

\* The event of a start anchors k at the end of the stream.
LEMMA AnchoredLast ==
  ASSUME NEW o, NEW s \in Seq(Event), NEW k, NEW e \in Event, e.key = k, Occupies(e.obj)
  PROVE  Anchored(o, Append(s, e), k, Len(Append(s, e)))
<1> DEFINE t == Append(s, e)
<1>1. Len(t) = Len(s) + 1 /\ t[Len(s) + 1] = e /\ Len(s) \in Nat
  OBVIOUS
<1> HIDE DEF t
<1>2. Anchored(o, t, k, Len(t))
  BY <1>1 DEF Anchored
<1> QED
  BY <1>2 DEF t

\* A delivery moves the head of the stream into the base.
LEMMA AnchoredTail ==
  ASSUME NEW o, NEW s \in Seq(Event), s # <<>>, NEW k, NEW b \in 0..Len(s),
         Anchored(o, s, k, b)
  PROVE  Anchored(IF Head(s).key = k THEN Head(s).obj ELSE o, Tail(s), k,
                  IF b = 0 THEN 0 ELSE b - 1)
<1> DEFINE t == Tail(s)
           p == IF Head(s).key = k THEN Head(s).obj ELSE o
           c == IF b = 0 THEN 0 ELSE b - 1
<1>1. /\ Len(s) \in Nat \ {0} /\ Len(t) = Len(s) - 1 /\ Head(s) = s[1]
      /\ \A i \in 1..Len(t) : t[i] = s[i + 1]
  OBVIOUS
<1>2. PICK i \in 0..b :
        /\ IF i = 0 THEN Occupies(o) ELSE s[i].key = k /\ Occupies(s[i].obj)
        /\ \A j \in (i + 1)..Len(s) : s[j].key = k => Occupies(s[j].obj)
  BY DEF Anchored
<1> DEFINE i1 == IF i = 0 THEN 0 ELSE i - 1
<1>3. i1 \in 0..c
  BY <1>2
<1>4. IF i1 = 0 THEN Occupies(p) ELSE t[i1].key = k /\ Occupies(t[i1].obj)
  BY <1>1, <1>2
<1>5. ASSUME NEW j \in (i1 + 1)..Len(t), t[j].key = k PROVE Occupies(t[j].obj)
  BY <1>1, <1>2, <1>5
<1> HIDE DEF t, p, c, i1
<1>6. Anchored(p, t, k, c)
  BY <1>3, <1>4, <1>5 DEF Anchored
<1> QED
  BY <1>6 DEF t, p, c

(***************************************************************************)
(* Lemmas about the parts of LimitInv                                      *)
(***************************************************************************)

LEMMA RunningFinite ==
  ASSUME NEW store
  PROVE  IsFiniteSet(Running(store)) /\ Cardinality(Running(store)) \in Nat
<1>1. IsFiniteSet(Running(store))
  BY FS_Subset, PipelineRunAssumption DEF PipelineRunAssumption, Running
<1> QED
  BY <1>1, FS_CardinalityType

LEMMA RunningMono ==
  ASSUME NEW s, NEW t, \A k \in Target : Occupies(s[k]) => Occupies(t[k])
  PROVE  Cardinality(Running(s)) <= Cardinality(Running(t))
<1>1. Running(s) \subseteq Running(t)
  BY DEF Running
<1> QED
  BY <1>1, RunningFinite, FS_Subset

LEMMA RunningPlusOne ==
  ASSUME NEW s, NEW t, NEW p,
         \A k \in Target : Occupies(s[k]) => k = p \/ Occupies(t[k])
  PROVE  Cardinality(Running(s)) <= Cardinality(Running(t)) + 1
<1>1. Running(s) \subseteq Running(t) \cup {p}
  BY DEF Running
<1>2. /\ IsFiniteSet(Running(t) \cup {p})
      /\ Cardinality(Running(t) \cup {p}) <= Cardinality(Running(t)) + 1
  <2>1. IsFiniteSet(Running(t)) /\ Cardinality(Running(t)) \in Nat
    BY RunningFinite
  <2>2. /\ IsFiniteSet(Running(t) \cup {p})
        /\ \/ Cardinality(Running(t) \cup {p}) = Cardinality(Running(t))
           \/ Cardinality(Running(t) \cup {p}) = Cardinality(Running(t)) + 1
    BY <2>1, FS_AddElement
  <2> QED
    BY <2>1, <2>2
<1>3. Cardinality(Running(s)) <= Cardinality(Running(t) \cup {p})
  BY <1>1, <1>2, FS_Subset
<1>4. Cardinality(Running(t) \cup {p}) \in Nat
  BY <1>2, FS_CardinalityType
<1> QED
  BY <1>2, <1>3, <1>4, RunningFinite

\* A write that does not stop k keeps k in sight.
LEMMA WriteSeen ==
  ASSUME TypeOK, WatchStates, NEW p \in PR, NEW o \in Object \cup {Absent}, Write(p, o),
         UNCHANGED <<watch, listed, cache>>,
         NEW r \in Replica, NEW k \in Target, NEW b \in 0..Len(stream[r]),
         k = p => Occupies(o), Seen(r, k, b)
  PROVE  watch'[r] = "list" \/ Anchored(Base(r)'[k], stream'[r], k, b)
<1>1. CASE watch[r] = "list"
  BY <1>1
<1>2. CASE watch[r] # "list"
  <2> DEFINE e == [key |-> p, obj |-> o]
  <2>1. e \in Event /\ stream[r] \in Seq(Event)
    BY DEF Event, TypeOK
  <2>2. stream'[r] = Append(stream[r], e)
    BY <1>2 DEF Write
  <2>3. Base(r)'[k] = Base(r)[k]
    BY DEF Base
  <2>4. Anchored(Base(r)[k], stream[r], k, b)
    BY <1>2 DEF Seen
  <2>5. Anchored(Base(r)[k], Append(stream[r], e), k, b)
    <3> HIDE DEF e
    <3>1. e.key = k => Occupies(e.obj)
      BY DEF e
    <3> QED
      BY <2>1, <2>4, <3>1, AnchoredAppend
  <2> QED
    BY <2>2, <2>3, <2>5
<1> QED
  BY <1>1, <1>2

\* After a write, whatever holds a slot is in sight at the end of the stream.
LEMMA WriteTracks ==
  ASSUME TypeOK, WatchStates, Tracks, NEW p \in PR, NEW o \in Object \cup {Absent},
         Write(p, o), UNCHANGED <<watch, listed, cache>>
  PROVE  Tracks'
<1> SUFFICES ASSUME NEW r \in Replica, NEW k \in Target, Occupies(pr'[k]), watch'[r] # "list"
             PROVE  Anchored(Base(r)'[k], stream'[r], k, Len(stream'[r]))
  BY DEF Tracks, Seen
<1> DEFINE e == [key |-> p, obj |-> o]
<1>1. e \in Event /\ stream[r] \in Seq(Event)
  BY DEF Event, TypeOK
<1>2. stream'[r] = Append(stream[r], e)
  BY DEF Write
<1>3. k \in PR
  BY PipelineRunAssumption DEF PipelineRunAssumption
<1>4. CASE k = p
  <2>1. Occupies(o)
    BY <1>4, <1>3 DEF Write, TypeOK, Store
  <2> QED
    BY <1>1, <1>2, <1>4, <2>1, AnchoredLast
<1>5. CASE k # p
  <2>1. Occupies(pr[k])
    BY <1>3, <1>5 DEF Write, TypeOK, Store
  <2>2. Seen(r, k, Len(stream[r]))
    BY <2>1 DEF Tracks
  <2>3. Len(stream[r]) \in 0..Len(stream[r])
    BY <1>1
  <2>4. Anchored(Base(r)'[k], stream'[r], k, Len(stream[r]))
    BY <1>5, <2>2, <2>3, WriteSeen
  <2>5. Len(stream[r]) \in Nat /\ Len(stream'[r]) \in Nat /\ Len(stream[r]) <= Len(stream'[r])
    BY <1>1, <1>2
  <2> QED
    BY <2>4, <2>5, AnchoredMono
<1> QED
  BY <1>4, <1>5

\* The same of what is overdue, between cycles, if the write starts nothing.
LEMMA WriteSettled ==
  ASSUME TypeOK, WatchStates, Settled, NEW p \in PR, NEW o \in Object \cup {Absent},
         Write(p, o), UNCHANGED <<watch, listed, cache, overdue, pc>>,
         p \in Target /\ Occupies(o) => Occupies(pr[p])
  PROVE  Settled'
<1> SUFFICES ASSUME \A s \in Replica : pc[s] = "idle",
                    NEW r \in Replica, NEW k \in Target, Occupies(pr'[k])
             PROVE  watch'[r] = "list" \/ Anchored(Base(r)'[k], stream'[r], k, overdue'[r])
  BY DEF Settled, Seen
<1>1. k \in PR
  BY PipelineRunAssumption DEF PipelineRunAssumption
<1>2. (k = p => Occupies(o)) /\ Occupies(pr[k])
  BY <1>1 DEF Write, TypeOK, Store
<1>3. Seen(r, k, overdue[r])
  BY <1>2 DEF Settled
<1>4. overdue[r] \in 0..Len(stream[r])
  BY DEF WatchStates, TypeOK
<1> QED
  BY <1>2, <1>3, <1>4, WriteSeen

\* And of the cache a cycle is about to read.
LEMMA WriteCountsAll ==
  ASSUME TypeOK, WatchStates, CountsAll, NEW p \in PR, NEW o \in Object \cup {Absent},
         Write(p, o), UNCHANGED <<watch, listed, cache, synced, pc>>,
         p \in Target /\ Occupies(o) => Occupies(pr[p])
  PROVE  CountsAll'
<1> SUFFICES ASSUME NEW r \in Replica, NEW k \in Target, pc[r] = "read", Occupies(pr'[k])
             PROVE  /\ watch'[r] = "list" \/ Anchored(Base(r)'[k], stream'[r], k, 0)
                    /\ synced[r] => Occupies(cache[r][k])
  BY DEF CountsAll, Seen
<1>1. k \in PR
  BY PipelineRunAssumption DEF PipelineRunAssumption
<1>2. (k = p => Occupies(o)) /\ Occupies(pr[k])
  BY <1>1 DEF Write, TypeOK, Store
<1>3. Seen(r, k, 0) /\ (synced[r] => Occupies(cache[r][k]))
  BY <1>2 DEF CountsAll
<1>4. 0 \in 0..Len(stream[r])
  BY DEF TypeOK
<1> QED
  BY <1>2, <1>3, <1>4, WriteSeen

\* A write that starts nothing leaves the slots as they are.
LEMMA WriteSlots ==
  ASSUME TypeOK, SlotsBound, NEW p \in PR, NEW o \in Object \cup {Absent}, Write(p, o),
         UNCHANGED <<pc, lim, slots, todo>>,
         p \in Target /\ Occupies(o) => Occupies(pr[p])
  PROVE  SlotsBound'
<1>1. \A k \in Target : Occupies(pr'[k]) => Occupies(pr[k])
  BY PipelineRunAssumption DEF PipelineRunAssumption, Write, TypeOK, Store
<1>2. Cardinality(Running(pr')) <= Cardinality(Running(pr))
  BY <1>1, RunningMono
<1>3. Cardinality(Running(pr')) \in Nat /\ Cardinality(Running(pr)) \in Nat
  BY RunningFinite
<1>4. Cardinality(Running(pr))' = Cardinality(Running(pr'))
  BY DEF Running
<1> QED
  BY <1>2, <1>3, <1>4 DEF SlotsBound, TypeOK

LEMMA WriteStates ==
  ASSUME TypeOK, WatchStates, NEW p \in PR, NEW o \in Object \cup {Absent}, Write(p, o),
         UNCHANGED <<synced, watch, cache, overdue>>
  PROVE  WatchStates'
<1> SUFFICES ASSUME NEW r \in Replica
             PROVE  /\ watch[r] = "list" => stream'[r] = <<>>
                    /\ overdue[r] <= Len(stream'[r])
  BY DEF WatchStates
<1> DEFINE e == [key |-> p, obj |-> o]
<1>1. e \in Event /\ stream[r] \in Seq(Event) /\ overdue[r] \in Nat
  BY DEF Event, TypeOK
<1>2. \/ stream'[r] = stream[r]
      \/ watch[r] # "list" /\ stream'[r] = Append(stream[r], e)
  BY DEF Write
<1>3. Len(Append(stream[r], e)) = Len(stream[r]) + 1 /\ Len(stream[r]) \in Nat
  BY <1>1
<1> HIDE DEF e
<1> QED
  BY <1>1, <1>2, <1>3 DEF WatchStates, Write

LEMMA AnchoredZero ==
  ASSUME NEW o, NEW s, NEW k, Anchored(o, s, k, 0)
  PROVE  Occupies(o)
  BY DEF Anchored

(***************************************************************************)
(* Every step keeps LimitInv                                               *)
(***************************************************************************)

\* The parts of LimitInv that speak of runs, streams and cycles.
LimitParts == WatchStates /\ OneActive /\ Tracks /\ Settled /\ CountsAll /\ SlotsBound

\* Leadership, the configured limit and the clock are in none of them but
\* OneActive.
LEMMA UnchangedParts ==
  ASSUME WatchStates, Tracks, Settled, CountsAll, SlotsBound,
         UNCHANGED <<pr, watchVars, pc, cycleVars>>
  PROVE  WatchStates' /\ Tracks' /\ Settled' /\ CountsAll' /\ SlotsBound'
<1> USE DEF watchVars, cycleVars
<1>1. WatchStates'
  BY DEF WatchStates
<1>2. Tracks' /\ Settled' /\ CountsAll'
  BY DEF Tracks, Settled, CountsAll, Seen, Base
<1>3. SlotsBound'
  BY DEF SlotsBound, Running
<1> QED
  BY <1>1, <1>2, <1>3

LEMMA LeaderStep ==
  ASSUME LimitInv, NEW r \in Replica, (BecomeLeader(r) /\ Alone(r)) \/ StepDown(r)
  PROVE  LimitParts'
<1>1. WatchStates' /\ Tracks' /\ Settled' /\ CountsAll' /\ SlotsBound'
  BY UnchangedParts DEF BecomeLeader, StepDown, LimitInv, envVars
<1>2. OneActive'
  <2>1. CASE BecomeLeader(r) /\ Alone(r)
    BY <2>1 DEF BecomeLeader, Alone, LimitInv, TypeOK, OneActive, Active
  <2>2. CASE StepDown(r)
    BY <2>2 DEF StepDown, LimitInv, TypeOK, OneActive, Active
  <2> QED
    BY <2>1, <2>2
<1> QED
  BY <1>1, <1>2 DEF LimitParts

LEMMA WatchListStep ==
  ASSUME LimitInv, NEW w \in Replica, WatchList(w)
  PROVE  LimitParts'
<1> USE DEF envVars, cycleVars
<1>1. WatchStates' /\ OneActive' /\ SlotsBound'
  BY DEF WatchList, LimitInv, TypeOK, WatchStates, OneActive, Active, SlotsBound, Running
<1>2. stream[w] = <<>> /\ overdue[w] = 0
  BY DEF WatchList, LimitInv, TypeOK, WatchStates
<1>3. ASSUME NEW k \in Target, Occupies(pr[k])
      PROVE  Anchored(Base(w)'[k], stream'[w], k, 0)
  <2>1. Base(w)' = pr
    BY DEF Base, WatchList, LimitInv, TypeOK
  <2> QED
    BY <1>2, <1>3, <2>1, AnchoredEmpty DEF WatchList
<1>4. ASSUME NEW r \in Replica, r # w
      PROVE  watch'[r] = watch[r] /\ Base(r)' = Base(r)
  BY <1>4 DEF WatchList, LimitInv, TypeOK, Base
<1>5. Tracks'
  BY <1>2, <1>3, <1>4 DEF WatchList, LimitInv, Tracks, Seen
<1>6. Settled'
  BY <1>2, <1>3, <1>4 DEF WatchList, LimitInv, Settled, Seen
<1>7. CountsAll'
  BY <1>2, <1>3, <1>4 DEF WatchList, LimitInv, CountsAll, Seen
<1> QED
  BY <1>1, <1>5, <1>6, <1>7 DEF LimitParts

LEMMA ReplaceCacheStep ==
  ASSUME LimitInv, NEW w \in Replica, ReplaceCache(w)
  PROVE  LimitParts'
<1> USE DEF envVars, cycleVars
<1>1. WatchStates' /\ OneActive' /\ SlotsBound'
  BY DEF ReplaceCache, LimitInv, TypeOK, WatchStates, OneActive, Active, SlotsBound, Running
<1>2. ASSUME NEW r \in Replica
      PROVE  /\ Base(r)' = Base(r)
             /\ watch'[r] = "list" <=> watch[r] = "list"
  BY DEF ReplaceCache, LimitInv, TypeOK, Base
<1>3. Tracks' /\ Settled'
  BY <1>2 DEF ReplaceCache, LimitInv, Tracks, Settled, Seen
<1>4. CountsAll'
  <2> SUFFICES ASSUME NEW r \in Replica, NEW k \in Target, pc[r] = "read", Occupies(pr[k])
               PROVE  Seen(r, k, 0)' /\ (synced'[r] => Occupies(cache'[r][k]))
    BY DEF CountsAll, ReplaceCache
  <2>1. Seen(r, k, 0) /\ (synced[r] => Occupies(cache[r][k]))
    BY DEF LimitInv, CountsAll
  <2>2. Seen(r, k, 0)'
    BY <1>2, <2>1 DEF Seen, ReplaceCache
  <2>3. CASE r = w
    <3>1. Occupies(listed[w][k])
      BY <2>1, <2>3, AnchoredZero DEF Seen, Base, ReplaceCache
    <3> QED
      BY <2>2, <2>3, <3>1 DEF ReplaceCache, LimitInv, TypeOK
  <2>4. CASE r # w
    BY <2>1, <2>2, <2>4 DEF ReplaceCache, LimitInv, TypeOK
  <2> QED
    BY <2>3, <2>4
<1> QED
  BY <1>1, <1>3, <1>4 DEF LimitParts

LEMMA DeliverStep ==
  ASSUME LimitInv, NEW w \in Replica, Deliver(w)
  PROVE  LimitParts'
<1> USE DEF envVars, cycleVars
<1>0. stream[w] \in Seq(Event) /\ stream[w] # <<>> /\ Head(stream[w]) \in Event
  BY DEF Deliver, LimitInv, TypeOK
<1>1. WatchStates'
  <2>1. Len(stream[w]) \in Nat \ {0} /\ Len(Tail(stream[w])) = Len(stream[w]) - 1
    BY <1>0
  <2> QED
    BY <2>1 DEF Deliver, UpdateCache, LimitInv, TypeOK, WatchStates
<1>2. OneActive' /\ SlotsBound'
  BY DEF Deliver, LimitInv, OneActive, Active, SlotsBound, Running
<1>3. ASSUME NEW k \in Target, NEW b \in 0..Len(stream[w]), Seen(w, k, b)
      PROVE  Anchored(Base(w)'[k], stream'[w], k, IF b = 0 THEN 0 ELSE b - 1)
  <2>1. k \in PR
    BY PipelineRunAssumption DEF PipelineRunAssumption
  <2>2. Anchored(cache[w][k], stream[w], k, b)
    BY <1>3 DEF Seen, Base, Deliver
  <2>3. Base(w)'[k] = IF Head(stream[w]).key = k THEN Head(stream[w]).obj ELSE cache[w][k]
    BY <1>0, <2>1 DEF Base, Deliver, UpdateCache, LimitInv, TypeOK, Store
  <2>4. stream'[w] = Tail(stream[w])
    BY DEF Deliver, LimitInv, TypeOK
  <2> QED
    BY <1>0, <2>2, <2>3, <2>4, AnchoredTail
<1>4. ASSUME NEW r \in Replica, r # w
      PROVE  Base(r)' = Base(r) /\ cache'[r] = cache[r] /\ stream'[r] = stream[r]
             /\ overdue'[r] = overdue[r]
  BY <1>4 DEF Deliver, UpdateCache, LimitInv, TypeOK, Base
<1>5. Tracks'
  <2> SUFFICES ASSUME NEW r \in Replica, NEW k \in Target, Occupies(pr[k])
               PROVE  watch[r] = "list" \/ Anchored(Base(r)'[k], stream'[r], k, Len(stream'[r]))
    BY DEF Tracks, Seen, Deliver
  <2>1. Seen(r, k, Len(stream[r]))
    BY DEF LimitInv, Tracks
  <2>2. CASE r = w
    <3>1. Len(stream[w]) \in Nat \ {0} /\ Len(stream'[w]) = Len(stream[w]) - 1
      BY <1>0 DEF Deliver, LimitInv, TypeOK
    <3> QED
      BY <1>3, <2>1, <2>2, <3>1
  <2>3. CASE r # w
    BY <1>4, <2>1, <2>3 DEF Seen
  <2> QED
    BY <2>2, <2>3
<1>6. Settled'
  <2> SUFFICES ASSUME \A s \in Replica : pc[s] = "idle",
                      NEW r \in Replica, NEW k \in Target, Occupies(pr[k])
               PROVE  watch[r] = "list" \/ Anchored(Base(r)'[k], stream'[r], k, overdue'[r])
    BY DEF Settled, Seen, Deliver
  <2>1. Seen(r, k, overdue[r])
    BY DEF LimitInv, Settled
  <2>2. CASE r = w
    <3>1. overdue[w] \in 0..Len(stream[w])
      BY DEF LimitInv, TypeOK, WatchStates
    <3>2. overdue'[w] = IF overdue[w] = 0 THEN 0 ELSE overdue[w] - 1
      BY DEF Deliver, LimitInv, TypeOK
    <3> QED
      BY <1>3, <2>1, <2>2, <3>1, <3>2
  <2>3. CASE r # w
    BY <1>4, <2>1, <2>3 DEF Seen
  <2> QED
    BY <2>2, <2>3
<1>7. CountsAll'
  <2> SUFFICES ASSUME NEW r \in Replica, NEW k \in Target, pc[r] = "read", Occupies(pr[k])
               PROVE  /\ watch[r] = "list" \/ Anchored(Base(r)'[k], stream'[r], k, 0)
                      /\ synced[r] => Occupies(cache'[r][k])
    BY DEF CountsAll, Seen, Deliver
  <2>1. Seen(r, k, 0) /\ (synced[r] => Occupies(cache[r][k]))
    BY DEF LimitInv, CountsAll
  <2>2. CASE r = w
    <3>1. Anchored(Base(w)'[k], stream'[w], k, 0)
      BY <1>0, <1>3, <2>1, <2>2
    <3>2. Occupies(Base(w)'[k])
      BY <3>1, AnchoredZero
    <3> QED
      BY <2>2, <3>1, <3>2 DEF Base, Deliver
  <2>3. CASE r # w
    BY <1>4, <2>1, <2>3 DEF Seen
  <2> QED
    BY <2>2, <2>3
<1> QED
  BY <1>1, <1>2, <1>5, <1>6, <1>7 DEF LimitParts

LEMMA ExpireStep ==
  ASSUME LimitInv, NEW w \in Replica, Expire(w)
  PROVE  LimitParts'
<1> USE DEF envVars, cycleVars
<1>1. WatchStates' /\ OneActive' /\ SlotsBound'
  BY DEF Expire, LimitInv, TypeOK, WatchStates, OneActive, Active, SlotsBound, Running
<1>2. /\ watch'[w] = "list"
      /\ \A r \in Replica \ {w} : /\ Base(r)' = Base(r) /\ stream'[r] = stream[r]
                                  /\ overdue'[r] = overdue[r] /\ watch'[r] = watch[r]
  BY DEF Expire, LimitInv, TypeOK, Base
<1>3. Tracks' /\ Settled'
  BY <1>2 DEF Expire, LimitInv, Tracks, Settled, Seen
<1>4. CountsAll'
  BY <1>2 DEF Expire, LimitInv, CountsAll, Seen
<1> QED
  BY <1>1, <1>3, <1>4 DEF LimitParts

\* Whoever works off a cycle is alone.
LEMMA OthersIdle ==
  ASSUME OneActive, NEW r \in Replica, Active(r), NEW s \in Replica, s # r
  PROVE  ~isLeader[s] /\ pc[s] = "idle"
  BY DEF OneActive, Active

LEMMA StartCycleStep ==
  ASSUME Reliable, LimitInv, NEW m \in Replica, StartCycle(m)
  PROVE  LimitParts'
<1> USE DEF envVars, watchVars
<1>1. \A s \in Replica : pc[s] = "idle"
  BY OthersIdle DEF StartCycle, Active, LimitInv
<1>2. pc'[m] = "read" /\ \A r \in Replica \ {m} : pc'[r] = "idle"
  BY <1>1 DEF StartCycle, LimitInv, TypeOK
<1>3. WatchStates' /\ Tracks' /\ Settled' /\ SlotsBound'
  BY <1>2 DEF StartCycle, LimitInv, WatchStates, Tracks, Settled, SlotsBound, Seen, Base
<1>4. OneActive'
  BY <1>1, <1>2 DEF StartCycle, LimitInv, OneActive, Active
<1>5. CountsAll'
  <2> SUFFICES ASSUME NEW k \in Target, Occupies(pr[k])
               PROVE  Seen(m, k, 0) /\ (synced[m] => Occupies(cache[m][k]))
    BY <1>2 DEF CountsAll, Seen, Base, StartCycle
  <2>1. WatchKeptUp(m)
    BY DEF StartCycle, Reliable
  <2>2. Seen(m, k, 0)
    BY <1>1, <2>1 DEF LimitInv, Settled, WatchKeptUp
  <2>3. ASSUME synced[m] PROVE Occupies(cache[m][k])
    BY <2>1, <2>2, <2>3, AnchoredZero DEF WatchKeptUp, Seen, Base
  <2> QED
    BY <2>2, <2>3
<1> QED
  BY <1>3, <1>4, <1>5 DEF LimitParts

LEMMA ReadQueueStep ==
  ASSUME LimitInv, NEW m \in Replica, ReadQueue(m)
  PROVE  LimitParts'
<1> USE DEF envVars, watchVars
<1>1. \A r \in Replica \ {m} : pc[r] = "idle"
  BY OthersIdle DEF ReadQueue, Active, LimitInv
<1>2. pc'[m] = "loop" /\ \A r \in Replica \ {m} : pc'[r] = "idle"
  BY <1>1 DEF ReadQueue, LimitInv, TypeOK
<1>3. WatchStates' /\ Tracks' /\ Settled' /\ CountsAll'
  BY <1>2 DEF ReadQueue, LimitInv, WatchStates, Tracks, Settled, CountsAll, Seen, Base
<1>4. OneActive'
  BY <1>1, <1>2 DEF ReadQueue, LimitInv, OneActive, Active
<1>5. SlotsBound'
  <2> SUFFICES ASSUME todo'[m] # <<>>
               PROVE  Cardinality(Running(pr)) + slots'[m] <= lim[m]
    BY <1>2 DEF SlotsBound, Running, ReadQueue
  <2>1. synced[m]
    <3> SUFFICES ASSUME ~synced[m] PROVE FALSE
      OBVIOUS
    <3>1. Waiting(cache[m]) = {}
      BY PipelineRunAssumption
      DEF PipelineRunAssumption, LimitInv, WatchStates, Nothing, Waiting, Queued
    <3>2. Cardinality(Waiting(cache[m])) = 0
      BY <3>1, FS_EmptySet
    <3>3. todo'[m] \in QueueOrders(cache[m], ahead[m], clock)
      BY DEF ReadQueue, LimitInv, TypeOK
    <3>4. todo'[m] \in [1..0 -> Waiting(cache[m])] /\ todo'[m] \in Seq(PR)
      BY <3>2, <3>3, QueueOrdersType DEF QueueOrders, SetToSeqs
    <3> QED
      BY <3>4
  <2>2. \A k \in Target : Occupies(pr[k]) => Occupies(cache[m][k])
    BY <2>1 DEF LimitInv, CountsAll, ReadQueue
  <2>3. Cardinality(Running(pr)) <= Cardinality(Running(cache[m]))
    BY <2>2, RunningMono
  <2>4. /\ Cardinality(Running(pr)) \in Nat /\ Cardinality(Running(cache[m])) \in Nat
        /\ lim[m] \in Int
    BY RunningFinite DEF LimitInv, TypeOK
  <2>5. slots'[m] = lim[m] - Cardinality(Running(cache[m]))
    BY DEF ReadQueue, LimitInv, TypeOK
  <2> QED
    BY <2>3, <2>4, <2>5
<1> QED
  BY <1>3, <1>4, <1>5 DEF LimitParts

\* A start adds at most one run to those that hold a slot.
LEMMA StartEffect ==
  ASSUME TypeOK, NEW p \in PR, Start(p)
  PROVE  /\ \/ UNCHANGED <<pr, stream>>
            \/ \E o \in Object : Write(p, o)
         /\ Cardinality(Running(pr')) <= Cardinality(Running(pr)) + 1
<1>1. pr[p] \in Object /\ "none" \in Status
  BY DEF Start, TypeOK, Store, Status
<1>2. [pr[p] EXCEPT !.status = "none"] \in Object
  BY <1>1, ObjectUpdate
<1>3. \A k \in Target : Occupies(pr'[k]) => k = p \/ Occupies(pr[k])
  BY PipelineRunAssumption DEF PipelineRunAssumption, Start, Write, TypeOK, Store
<1>4. Cardinality(Running(pr')) <= Cardinality(Running(pr)) + 1
  BY <1>3, RunningPlusOne
<1> QED
  BY <1>2, <1>4 DEF Start

LEMMA PatchAppliedStep ==
  ASSUME LimitInv, NEW m \in Replica, PatchApplied(m)
  PROVE  LimitParts'
<1> USE DEF cycleVars
<1>1. \A r \in Replica \ {m} : pc[r] = "idle"
  BY OthersIdle DEF PatchApplied, NextTarget, Active, LimitInv
<1>2. pc'[m] = "ack" /\ \A r \in Replica \ {m} : pc'[r] = "idle"
  BY <1>1 DEF PatchApplied, LimitInv, TypeOK
<1> DEFINE p == Head(todo[m])
<1>3. p \in PR
  BY TodoType DEF PatchApplied, NextTarget, LimitInv
<1>4. Start(p)
  BY DEF PatchApplied
<1>6. WatchStates' /\ Tracks'
  <2>1. CASE UNCHANGED <<pr, stream>>
    BY <2>1 DEF PatchApplied, LimitInv, WatchStates, Tracks, Seen, Base
  <2>2. ASSUME NEW o \in Object, Write(p, o) PROVE WatchStates' /\ Tracks'
    <3>1. WatchStates'
      BY <1>3, <2>2, WriteStates DEF PatchApplied, LimitInv
    <3>2. Tracks'
      BY <1>3, <2>2, WriteTracks DEF PatchApplied, LimitInv
    <3> QED
      BY <3>1, <3>2
  <2> QED
    BY <1>3, <1>4, <2>1, <2>2, StartEffect DEF LimitInv
<1>7. Settled' /\ CountsAll'
  BY <1>2 DEF Settled, CountsAll
<1>8. OneActive'
  BY <1>1, <1>2 DEF PatchApplied, NextTarget, LimitInv, OneActive, Active
<1>9. SlotsBound'
  <2>1. Cardinality(Running(pr)) + slots[m] <= lim[m]
    BY DEF PatchApplied, NextTarget, LimitInv, SlotsBound
  <2>2. Cardinality(Running(pr')) <= Cardinality(Running(pr)) + 1
    BY <1>3, <1>4, StartEffect DEF LimitInv
  <2>3. /\ Cardinality(Running(pr)) \in Nat /\ Cardinality(Running(pr')) \in Nat
        /\ lim[m] \in Int /\ slots[m] \in Int
    BY RunningFinite DEF LimitInv, TypeOK
  <2>4. Cardinality(Running(pr')) + slots[m] <= lim[m] + 1
    BY <2>1, <2>2, <2>3
  <2>5. Running(pr)' = Running(pr')
    BY DEF Running
  <2> QED
    BY <1>2, <2>4, <2>5 DEF SlotsBound, PatchApplied
<1> QED
  BY <1>6, <1>7, <1>8, <1>9 DEF LimitParts

LEMMA AckStep ==
  ASSUME LimitInv, NEW m \in Replica, Ack(m)
  PROVE  LimitParts'
<1> USE DEF envVars, AckDone
<1> DEFINE p == Head(todo[m])
<1>1. \A r \in Replica \ {m} : pc[r] = "idle"
  BY OthersIdle DEF Ack, Active, LimitInv
<1>2. pc'[m] = "loop" /\ \A r \in Replica \ {m} : pc'[r] = "idle"
  BY <1>1 DEF Ack, LimitInv, TypeOK
<1>3. p \in PR
  BY TodoType DEF Ack, LimitInv, AckHasTarget
<1>4. ASSUME NEW r \in Replica, NEW k \in Target
      PROVE  Occupies(cache[r][k]) => Occupies(cache'[r][k])
  <2> SUFFICES ASSUME Occupies(cache[r][k]) PROVE Occupies(cache'[r][k])
    OBVIOUS
  <2> DEFINE o == cache[r][k]
  <2>1. k \in PR
    BY PipelineRunAssumption DEF PipelineRunAssumption
  <2>2. o \in Object
    BY <2>1 DEF LimitInv, TypeOK, Store, Occupies
  <2>3. \/ cache'[r][k] = o
        \/ cache'[r][k] = [o EXCEPT !.status = "none"]
    BY <1>3, <2>1 DEF Ack, WriteThrough, LimitInv, TypeOK, Store
  <2> HIDE DEF o
  <2>4. [o EXCEPT !.status = "none"] \in Object
    BY <2>2 DEF Object, Status
  <2>5. [o EXCEPT !.status = "none"].status = "none" /\ [o EXCEPT !.status = "none"].done = o.done
    BY <2>2 DEF Object
  <2>6. Occupies([o EXCEPT !.status = "none"])
    BY <2>4, <2>5, PipelineRunAssumption DEF PipelineRunAssumption, Occupies, o
  <2> QED
    BY <2>3, <2>6 DEF o
<1>5. WatchStates'
  <2>1. \A r \in Replica : cache[r] = Nothing => cache'[r] = Nothing
    BY <1>3 DEF Ack, WriteThrough, LimitInv, TypeOK, Nothing
  <2> QED
    BY <2>1 DEF Ack, LimitInv, WatchStates
<1>6. Tracks'
  <2> SUFFICES ASSUME NEW r \in Replica, NEW k \in Target, Occupies(pr[k]), watch[r] # "list"
               PROVE  Anchored(Base(r)'[k], stream[r], k, Len(stream[r]))
    BY DEF Tracks, Seen, Ack
  <2>1. Anchored(Base(r)[k], stream[r], k, Len(stream[r]))
    BY DEF LimitInv, Tracks, Seen
  <2>2. Occupies(Base(r)[k]) => Occupies(Base(r)'[k])
    BY <1>4 DEF Base, Ack
  <2>3. Len(stream[r]) \in Nat
    BY DEF LimitInv, TypeOK
  <2> QED
    BY <2>1, <2>2, <2>3, AnchoredBase
<1>7. Settled' /\ CountsAll'
  BY <1>2 DEF Settled, CountsAll
<1>8. OneActive'
  BY <1>1, <1>2 DEF Ack, LimitInv, OneActive, Active
<1>9. SlotsBound'
  <2>1. Cardinality(Running(pr)) + slots[m] <= lim[m] + 1
    BY DEF Ack, LimitInv, SlotsBound
  <2>2. /\ Cardinality(Running(pr)) \in Nat
        /\ lim[m] \in Int /\ slots[m] \in Int /\ slots'[m] = slots[m] - 1
    BY RunningFinite DEF Ack, LimitInv, TypeOK
  <2>3. Cardinality(Running(pr)) + slots'[m] <= lim[m]
    BY <2>1, <2>2
  <2>4. Running(pr)' = Running(pr) /\ lim' = lim
    BY DEF Running, Ack
  <2> QED
    BY <1>2, <2>3, <2>4 DEF SlotsBound
<1> QED
  BY <1>5, <1>6, <1>7, <1>8, <1>9 DEF LimitParts

LEMMA PatchFailedStep ==
  ASSUME LimitInv, NEW m \in Replica, PatchFailed(m)
  PROVE  LimitParts'
<1> USE DEF envVars, watchVars
<1>1. WatchStates' /\ Tracks' /\ Settled' /\ CountsAll' /\ OneActive'
  BY DEF PatchFailed, LimitInv, WatchStates, Tracks, Settled, CountsAll, OneActive, Active,
         Seen, Base
<1>2. SlotsBound'
  <2>1. pc[m] = "loop" /\ todo[m] # <<>> /\ \A r \in Replica \ {m} : todo'[r] = todo[r]
    BY DEF PatchFailed, NextTarget, DropTarget, LimitInv, TypeOK
  <2> QED
    BY <2>1 DEF PatchFailed, LimitInv, SlotsBound, Running
<1> QED
  BY <1>1, <1>2 DEF LimitParts

LEMMA EndCycleStep ==
  ASSUME Reliable, LimitInv, NEW m \in Replica, EndCycle(m)
  PROVE  LimitParts'
<1> USE DEF envVars
<1>1. \A r \in Replica \ {m} : pc[r] = "idle"
  BY OthersIdle DEF EndCycle, Active, LimitInv
<1>2. \A r \in Replica : pc'[r] = "idle"
  BY <1>1 DEF EndCycle, LimitInv, TypeOK
<1>3. \A r \in Replica : overdue'[r] = Len(stream[r])
  BY DEF EndCycle, TimePasses, Reliable
<1>4. WatchStates'
  BY <1>3 DEF EndCycle, LimitInv, TypeOK, WatchStates
<1>5. Tracks' /\ CountsAll' /\ SlotsBound'
  BY <1>2 DEF EndCycle, LimitInv, Tracks, CountsAll, SlotsBound, Seen, Base
<1>6. Settled'
  BY <1>3 DEF EndCycle, LimitInv, Tracks, Settled, Seen, Base
<1>7. OneActive'
  BY <1>2 DEF EndCycle, LimitInv, OneActive, Active
<1> QED
  BY <1>4, <1>5, <1>6, <1>7 DEF LimitParts

LEMMA RestartStep ==
  ASSUME Reliable, LimitInv, NEW m \in Replica, Restart(m)
  PROVE  LimitParts'
<1> USE DEF envVars
<1>1. ASSUME NEW r \in Replica, r # m
      PROVE  /\ Base(r)' = Base(r) /\ watch'[r] = watch[r] /\ stream'[r] = stream[r]
             /\ cache'[r] = cache[r] /\ synced'[r] = synced[r] /\ pc'[r] = pc[r]
             /\ isLeader'[r] = isLeader[r] /\ todo'[r] = todo[r] /\ lim'[r] = lim[r]
             /\ slots'[r] = slots[r]
  BY <1>1 DEF Restart, LimitInv, TypeOK, Base
<1>2. /\ watch'[m] = "list" /\ stream'[m] = <<>> /\ ~synced'[m] /\ cache'[m] = Nothing
      /\ pc'[m] = "idle" /\ ~isLeader'[m]
  BY DEF Restart, LimitInv, TypeOK
<1>3. \A r \in Replica : overdue'[r] = Len(stream'[r])
  BY DEF Restart, TimePasses, Reliable
<1>4. WatchStates'
  <2>1. ASSUME NEW r \in Replica PROVE overdue'[r] <= Len(stream'[r])
    <3>1. stream'[r] \in Seq(Event)
      <4>1. CASE r = m
        <5>1. <<>> \in Seq(Event)
          OBVIOUS
        <5>2. stream'[r] = <<>>
          BY <1>2, <4>1
        <5> QED
          BY <5>1, <5>2
      <4>2. CASE r # m
        BY <1>1, <4>2 DEF LimitInv, TypeOK
      <4> QED
        BY <4>1, <4>2
    <3>2. Len(stream'[r]) \in Nat
      BY <3>1
    <3> QED
      BY <1>3, <3>2
  <2> QED
    BY <1>1, <1>2, <2>1 DEF LimitInv, WatchStates
<1>5. Tracks'
  BY <1>1, <1>2 DEF Restart, LimitInv, Tracks, Seen
<1>6. Settled'
  <2> SUFFICES ASSUME NEW r \in Replica, NEW k \in Target, Occupies(pr[k])
               PROVE  watch'[r] = "list" \/ Anchored(Base(r)'[k], stream'[r], k, overdue'[r])
    BY DEF Settled, Seen, Restart
  <2>1. CASE r = m
    BY <1>2, <2>1
  <2>2. CASE r # m
    BY <1>1, <1>3, <2>2 DEF LimitInv, Tracks, Seen
  <2> QED
    BY <2>1, <2>2
<1>7. CountsAll'
  BY <1>1, <1>2 DEF Restart, LimitInv, CountsAll, Seen
<1>8. SlotsBound'
  BY <1>1, <1>2 DEF Restart, LimitInv, SlotsBound, Running
<1>9. OneActive'
  BY <1>1, <1>2 DEF LimitInv, OneActive, Active
<1> QED
  BY <1>4, <1>5, <1>6, <1>7, <1>8, <1>9 DEF LimitParts

\* Nobody but the manager starts a target run: every other write leaves a slot
\* as it is or frees it.
LEMMA WriteStep ==
  ASSUME LimitInv, NEW p \in PR, NEW o \in Object \cup {Absent}, Write(p, o),
         UNCHANGED localVars, p \in Target /\ Occupies(o) => Occupies(pr[p])
  PROVE  LimitParts'
<1> USE DEF localVars, cycleVars
<1>1. WatchStates' /\ Tracks'
  BY WriteStates, WriteTracks DEF LimitInv
<1>2. Settled'
  BY WriteSettled DEF LimitInv
<1>3. CountsAll'
  BY WriteCountsAll DEF LimitInv
<1>4. SlotsBound'
  BY WriteSlots DEF LimitInv
<1>5. OneActive'
  BY DEF LimitInv, OneActive, Active
<1> QED
  BY <1>1, <1>2, <1>3, <1>4, <1>5 DEF LimitParts

LEMMA UserStep ==
  ASSUME Reliable, LimitInv, NEW p \in PR, User(p)
  PROVE  LimitParts'
<1>1. pr[p] # Absent => pr[p] \in Object
  BY DEF LimitInv, TypeOK, Store
<1>2. ASSUME Complete(p) PROVE LimitParts'
  <2>1. [pr[p] EXCEPT !.done = TRUE] \in Object /\ ~Occupies([pr[p] EXCEPT !.done = TRUE])
    BY <1>1, <1>2 DEF Complete, Live, Object, Occupies
  <2> QED
    BY <1>2, <2>1, WriteStep DEF Complete, Update
<1>3. ASSUME Touch(p) PROVE LimitParts'
  BY <1>1, <1>3, WriteStep DEF Touch, Live, Update
<1>4. ASSUME Cancel(p) PROVE LimitParts'
  <2>1. /\ [pr[p] EXCEPT !.status = "Cancelled"] \in Object
        /\ ~Occupies([pr[p] EXCEPT !.status = "Cancelled"])
    BY <1>1, <1>4 DEF Cancel, Live, Object, Status, Occupies
  <2> QED
    BY <1>4, <2>1, WriteStep DEF Cancel, Update
<1>5. ASSUME Delete(p) PROVE LimitParts'
  <2>1. ~Occupies(Absent)
    BY DEF Occupies
  <2> QED
    BY <1>5, <2>1, WriteStep DEF Delete, Update
<1>6. ASSUME NEW src \in Sources, NEW tier \in Tiers, NEW r \in Replica, Create(p, src, tier, r)
      PROVE  LimitParts'
  <2> DEFINE o == Mutate(p, src, tier, synced[r], clock)
  <2>1. synced[r] = TRUE
    BY <1>6 DEF Create, Reliable, LimitInv, TypeOK
  <2>2. o \in Object
    <3>1. synced[r] \in BOOLEAN /\ clock \in Nat
      BY ControllerAssumption DEF ControllerAssumption, LimitInv, TypeOK
    <3> QED
      BY <3>1, MutateType
  <2>3. p \in Target => ~Occupies(o)
    BY <2>1 DEF Mutate, Occupies
  <2> HIDE DEF o
  <2>4. Write(p, o) /\ UNCHANGED localVars
    BY <1>6 DEF Create, o
  <2> QED
    BY <2>2, <2>3, <2>4, WriteStep
<1>7. ~Release(p)
  BY DEF Release, Reliable
<1> QED
  BY <1>2, <1>3, <1>4, <1>5, <1>6, <1>7 DEF User

LEMMA LimitInit == Init => LimitInv
<1> SUFFICES ASSUME Init PROVE LimitInv
  OBVIOUS
<1>1. TypeOK /\ AckHasTarget
  BY TypeInit
<1>2. WatchStates /\ OneActive /\ CountsAll /\ SlotsBound
  BY DEF Init, WatchStates, OneActive, Active, CountsAll, SlotsBound
<1>3. Tracks /\ Settled
  BY DEF Init, Tracks, Settled, Seen
<1> QED
  BY <1>1, <1>2, <1>3 DEF LimitInv

\* Whoever begins to lead does so alone.
Exclusively == \A r \in Replica : BecomeLeader(r) => Alone(r)

LEMMA LimitStep ==
  ASSUME Reliable, LimitInv, [Next]_vars, Exclusively
  PROVE  LimitInv'
<1>1. TypeOK' /\ AckHasTarget'
  BY TypeStep DEF LimitInv
<1>2. ASSUME NEW r \in Replica, Watcher(r) PROVE LimitParts'
  BY <1>2, WatchListStep, ReplaceCacheStep, DeliverStep, ExpireStep DEF Watcher
<1>3. ASSUME NEW r \in Replica, Manager(r) PROVE LimitParts'
  <2>1. ~PatchReplyLost(r)
    BY DEF PatchReplyLost, Reliable
  <2> QED
    BY <1>3, <2>1, StartCycleStep, ReadQueueStep, PatchAppliedStep, AckStep,
       PatchFailedStep, EndCycleStep DEF Manager
<1>4. ASSUME NEW r \in Replica, BecomeLeader(r) \/ StepDown(r) \/ Restart(r)
      PROVE  LimitParts'
  BY <1>4, LeaderStep, RestartStep DEF Exclusively
<1>5. ASSUME NEW k \in PR, User(k) PROVE LimitParts'
  BY <1>5, UserStep
<1>6. ASSUME Tick \/ (\E n \in Limits : SetLimit(n)) \/ UNCHANGED vars PROVE LimitParts'
  <2>1. UNCHANGED <<pr, watchVars, isLeader, pc, cycleVars>>
    BY <1>6 DEF Tick, SetLimit, vars, envVars
  <2>2. OneActive'
    BY <2>1 DEF LimitInv, OneActive, Active
  <2> QED
    BY <2>1, <2>2, UnchangedParts DEF LimitInv, LimitParts
<1>7. LimitParts'
  BY <1>2, <1>3, <1>4, <1>5, <1>6 DEF Next
<1> QED
  BY <1>1, <1>7 DEF LimitInv, LimitParts

-----------------------------------------------------------------------------
\* The election's steps, seen from the queue, keep the leader alone.
LEMMA LeaseExcludes == TypeOK /\ [Leads!Next]_(Leads!lvars) => Exclusively
<1> SUFFICES ASSUME TypeOK, [Leads!Next]_(Leads!lvars), NEW r \in Replica, BecomeLeader(r)
             PROVE  Alone(r)
  BY DEF Exclusively
<1>1. isLeader[r] = FALSE /\ isLeader'[r] = TRUE /\ pc' = pc
  BY DEF BecomeLeader, TypeOK
<1>2. Leads!Next
  BY <1>1 DEF Leads!lvars
<1>3. ASSUME NEW s \in Replica, Leads!Lead(s) PROVE Alone(r)
  <2>1. s = r
    BY <1>1, <1>3 DEF Leads!Lead, TypeOK
  <2> QED
    BY <1>3, <2>1 DEF Leads!Lead, Alone
<1>4. ASSUME NEW s \in Replica, Leads!StepDown(s) \/ Leads!Die(s) PROVE FALSE
  BY <1>1, <1>4 DEF Leads!StepDown, Leads!Die, TypeOK
<1>5. ASSUME NEW s \in Replica, Leads!BeginCycle(s) \/ Leads!EndCycle(s) PROVE FALSE
  BY <1>1, <1>5 DEF Leads!BeginCycle, Leads!EndCycle
<1> QED
  BY <1>2, <1>3, <1>4, <1>5 DEF Leads!Next

\* The inductive invariant holds, for any number of replicas and of runs, any
\* limits and any bounds, as long as the environment is reliable and the
\* election is what the managers need.
LEMMA LimitUnderLease ==
  ASSUME Reliable
  PROVE  Spec /\ LeaseKept => []LimitInv
<1>1. LimitInv /\ [Next]_vars /\ [Leads!Next]_(Leads!lvars) => LimitInv'
  BY LimitStep, LeaseExcludes DEF LimitInv
<1> QED
  BY <1>1, LimitInit, PTL DEF Spec, LeaseKept, Leads!Spec

\* What QueueController takes for granted of the leadership, unless there are
\* two leaders, is what module Leadership says of it (leader.py 28-96; manager.py
\* 112-113), no more.
LEMMA LeadershipTaken ==
  ASSUME "two_leaders" \notin Env
  PROVE  Spec => LeaseKept
<1>1. Init => Leads!Init
  BY DEF Init, Leads!Init, Leads!Idle
<1>2. TypeOK /\ [Next]_vars => [Leads!Next]_(Leads!lvars)
  <2> SUFFICES ASSUME TypeOK, [Next]_vars PROVE [Leads!Next]_(Leads!lvars)
    OBVIOUS
  <2> USE DEF Leads!Next, Leads!lvars, TypeOK
  <2>1. ASSUME NEW r \in Replica, BecomeLeader(r) PROVE Leads!Lead(r)
    BY <2>1 DEF BecomeLeader, Alone, Leads!Lead
  <2>2. ASSUME NEW r \in Replica, StepDown(r) PROVE Leads!StepDown(r)
    BY <2>2 DEF StepDown, Leads!StepDown
  <2>3. ASSUME NEW r \in Replica, Restart(r) PROVE Leads!Die(r)
    BY <2>3 DEF Restart, Leads!Die
  <2>4. ASSUME NEW r \in Replica, StartCycle(r) PROVE Leads!BeginCycle(r)
    BY <2>4 DEF StartCycle, Leads!BeginCycle
  <2>5. ASSUME NEW r \in Replica, EndCycle(r) PROVE Leads!EndCycle(r)
    BY <2>5 DEF EndCycle, Leads!EndCycle
  <2> DEFINE busy == [r \in Replica |-> pc[r] # "idle"]
  <2>6. ASSUME NEW r \in Replica,
               \/ Watcher(r) \/ ReadQueue(r) \/ PatchApplied(r) \/ Ack(r)
               \/ PatchFailed(r) \/ PatchReplyLost(r)
        PROVE  UNCHANGED <<isLeader, busy>>
    BY <2>6 DEF Watcher, WatchList, ReplaceCache, Deliver, Expire, ReadQueue, PatchApplied,
                NextTarget, Ack, AckDone, PatchFailed, PatchReplyLost
  <2>7. ASSUME \/ \E k \in PR : User(k)
               \/ Tick \/ (\E n \in Limits : SetLimit(n)) \/ UNCHANGED vars
        PROVE  UNCHANGED <<isLeader, pc>>
    BY <2>7 DEF User, Complete, Touch, Cancel, Delete, Release, Create, Update, localVars,
                Tick, SetLimit, vars
  <2> QED
    BY <2>1, <2>2, <2>3, <2>4, <2>5, <2>6, <2>7 DEF Next, Manager
<1>3. Spec => []TypeOK
  BY TypeCorrect
<1> QED
  BY <1>1, <1>2, <1>3, PTL DEF Spec, LeaseKept, Leads!Spec

\* So it holds in orderly environments.
THEOREM LimitInvariant ==
  ASSUME Orderly
  PROVE  Spec => []LimitInv
<1>1. Spec => LeaseKept
  BY LeadershipTaken DEF Orderly
<1>2. Spec /\ LeaseKept => []LimitInv
  BY LimitUnderLease DEF Orderly
<1> QED
  BY <1>1, <1>2

\* Every start is a patch, and after it no more runs hold slots than its cycle's
\* limit.
LEMMA AdmitStep ==
  ASSUME Reliable, LimitInv, Next, NEW k \in Target, ~Occupies(pr[k]), Occupies(pr[k]')
  PROVE  \E r \in Replica : /\ pc[r] = "loop" /\ pc'[r] = "ack"
                            /\ Cardinality(Running(pr')) <= lim[r]
<1>1. k \in PR
  BY PipelineRunAssumption DEF PipelineRunAssumption
<1>2. ASSUME NEW r \in Replica, PatchApplied(r)
      PROVE  pc[r] = "loop" /\ pc'[r] = "ack" /\ Cardinality(Running(pr')) <= lim[r]
  <2>1. /\ Cardinality(Running(pr)) + slots[r] <= lim[r]
        /\ slots[r] > 0
    BY <1>2 DEF PatchApplied, NextTarget, LimitInv, SlotsBound
  <2>2. Head(todo[r]) \in PR
    BY <1>2, TodoType DEF PatchApplied, NextTarget, LimitInv
  <2>3. Cardinality(Running(pr')) <= Cardinality(Running(pr)) + 1
    BY <1>2, <2>2, StartEffect DEF PatchApplied, LimitInv
  <2>4. /\ Cardinality(Running(pr)) \in Nat /\ Cardinality(Running(pr')) \in Nat
        /\ lim[r] \in Int /\ slots[r] \in Int
    BY RunningFinite DEF LimitInv, TypeOK
  <2>5. Cardinality(Running(pr')) <= lim[r]
    BY <2>1, <2>3, <2>4
  <2> QED
    BY <1>2, <2>5 DEF PatchApplied, NextTarget, LimitInv, TypeOK
<1>3. ASSUME NEW r \in Replica, Manager(r) PROVE PatchApplied(r)
  BY <1>3 DEF Manager, StartCycle, ReadQueue, Ack, AckDone, PatchFailed, PatchReplyLost,
              EndCycle, envVars, Reliable
<1>4. ~(\E r \in Replica : BecomeLeader(r) \/ StepDown(r) \/ Restart(r) \/ Watcher(r))
  BY DEF BecomeLeader, StepDown, Restart, Watcher, WatchList, ReplaceCache, Deliver,
         Expire, envVars
<1>5. ~(Tick \/ \E n \in Limits : SetLimit(n))
  BY DEF Tick, SetLimit
<1>6. ASSUME NEW p \in PR, User(p) PROVE FALSE
  <2>1. ASSUME NEW o, Write(p, o), p = k PROVE Occupies(o)
    BY <1>1, <2>1 DEF Write, LimitInv, TypeOK, Store
  <2>2. ASSUME NEW o, Write(p, o) PROVE p = k
    BY <1>1, <2>2 DEF Write, LimitInv, TypeOK, Store
  <2>3. pr[p] # Absent => pr[p] \in Object
    BY DEF LimitInv, TypeOK, Store
  <2>4. ~Complete(p)
    BY <2>1, <2>2, <2>3 DEF Complete, Live, Update, Object, Occupies
  <2>5. ~Touch(p)
    BY <2>1, <2>2 DEF Touch, Update
  <2>6. ~Cancel(p)
    BY <2>1, <2>2, <2>3 DEF Cancel, Live, Update, Object, Occupies
  <2>7. ~Delete(p)
    BY <2>1, <2>2 DEF Delete, Update, Occupies
  <2>8. ~Release(p)
    BY DEF Release, Reliable
  <2>9. ASSUME NEW src \in Sources, NEW tier \in Tiers, NEW r \in Replica,
               Create(p, src, tier, r)
        PROVE  FALSE
    <3>1. synced[r]
      BY <2>9 DEF Create, Reliable
    <3>2. Occupies(Mutate(p, src, tier, synced[r], clock)) /\ p \in Target
      BY <2>1, <2>2, <2>9 DEF Create
    <3> QED
      BY <3>1, <3>2 DEF Mutate, Occupies
  <2> QED
    BY <1>6, <2>4, <2>5, <2>6, <2>7, <2>8, <2>9 DEF User
<1> QED
  BY <1>2, <1>3, <1>4, <1>5, <1>6 DEF Next

\* No start goes over the limit (README 1 and 12.1; manager.py 142-169): in an
\* orderly environment every step that lets a target run take a slot is a
\* manager's patch, and after it no more runs hold slots than the limit that
\* manager read at the beginning of its cycle.
THEOREM AdmitWithinLimitTheorem ==
  ASSUME Orderly
  PROVE  Spec => AdmitWithinLimit
<1>1. LimitInv /\ [Next]_vars =>
        [\A k \in Target : ~Occupies(pr[k]) /\ Occupies(pr[k]') =>
           \E r \in Replica : /\ pc[r] = "loop" /\ pc'[r] = "ack"
                              /\ Cardinality(Running(pr')) <= lim[r]]_vars
  BY AdmitStep DEF Orderly
<1>2. Spec => []LimitInv
  BY LimitInvariant
<1> QED
  BY <1>1, <1>2, PTL DEF Spec, AdmitWithinLimit

=============================================================================
