--------------------------- MODULE StartOrderProofs ---------------------------
(***************************************************************************)
(* Proofs about which runs a manager starts, and in which order, and about *)
(* the cache it decides by: for every value of the constants of            *)
(* QueueController, along the invariants of StartInvariant.                *)
(***************************************************************************)
EXTENDS StartInvariant, QueueControllerProofs

(***************************************************************************)
(* What ageing guarantees, whatever the tiers, waits and settings are      *)
(***************************************************************************)
\* The bonus is an integer, and with ageing off it is 0.
LEMMA BonusType ==
  ASSUME NEW wait \in Int, NEW interval \in Int
  PROVE  AgingBonus(wait, interval) \in Int
<1>1. CASE interval > 0
  <2>1. wait \div interval \in Int
    BY <1>1
  <2> QED
    BY <1>1, <2>1 DEF AgingBonus
<1>2. CASE ~(interval > 0)
  BY <1>2 DEF AgingBonus
<1> QED
  BY <1>1, <1>2

\* Who waits longer never gets the smaller bonus.
LEMMA BonusMonotone ==
  ASSUME NEW w1 \in Int, NEW w2 \in Int, NEW interval \in Int, w1 <= w2
  PROVE  AgingBonus(w1, interval) <= AgingBonus(w2, interval)
<1>1. CASE interval > 0
  <2>1. w1 \div interval <= w2 \div interval
    BY <1>1
  <2> QED
    BY <1>1, <2>1 DEF AgingBonus
<1>2. CASE ~(interval > 0)
  BY <1>2 DEF AgingBonus
<1> QED
  BY <1>1, <1>2

\* Ageing only ever promotes (config.py 144: the outer min), and it stops at
\* agingMinTier, or at the run's own tier where that is smaller.
THEOREM EffTierBounds ==
  ASSUME NEW tier \in Int, NEW wait \in Int, NEW interval \in Int, NEW floor \in Int
  PROVE  /\ EffTier(tier, wait, interval, floor) \in Int
         /\ EffTier(tier, wait, interval, floor) <= tier
         /\ EffTier(tier, wait, interval, floor) >= Lesser(tier, floor)
<1>1. AgingBonus(wait, interval) \in Int
  BY BonusType
<1> QED
  BY <1>1 DEF EffTier, Lesser, Greater

\* A tier below agingMinTier (tier 0, with the default floor 1) is out of
\* reach of every larger tier, however long that one has waited.
THEOREM UrgentStaysAhead ==
  ASSUME NEW t1 \in Int, NEW w1 \in Int, NEW t2 \in Int, NEW w2 \in Int,
         NEW interval \in Int, NEW floor \in Int,
         t1 < floor, t1 < t2
  PROVE  EffTier(t1, w1, interval, floor) < EffTier(t2, w2, interval, floor)
<1>1. EffTier(t1, w1, interval, floor) \in Int /\ EffTier(t1, w1, interval, floor) <= t1
  BY EffTierBounds
<1>2. /\ EffTier(t2, w2, interval, floor) \in Int
      /\ EffTier(t2, w2, interval, floor) >= Lesser(t2, floor)
  BY EffTierBounds
<1> QED
  BY <1>1, <1>2 DEF Lesser

\* A run of the same or of a more urgent tier that has waited at least as long
\* is at least as urgent: ageing never reorders such a pair.
THEOREM OlderStaysAhead ==
  ASSUME NEW t1 \in Int, NEW w1 \in Int, NEW t2 \in Int, NEW w2 \in Int,
         NEW interval \in Int, NEW floor \in Int,
         t1 <= t2, w1 >= w2
  PROVE  EffTier(t1, w1, interval, floor) <= EffTier(t2, w2, interval, floor)
<1>1. AgingBonus(w1, interval) \in Int /\ AgingBonus(w2, interval) \in Int
  BY BonusType
<1>2. AgingBonus(w2, interval) <= AgingBonus(w1, interval)
  BY BonusMonotone
<1> QED
  BY <1>1, <1>2 DEF EffTier, Lesser, Greater

\* Who has waited long enough to have reached the floor is at least as urgent as
\* anybody who is not below it, whatever the tiers.
THEOREM AgedStaysAhead ==
  ASSUME NEW t1 \in Int, NEW w1 \in Int, NEW t2 \in Int, NEW w2 \in Int,
         NEW interval \in Int, NEW floor \in Int,
         interval > 0, t2 >= floor, w1 >= (t1 - floor) * interval
  PROVE  EffTier(t1, w1, interval, floor) <= EffTier(t2, w2, interval, floor)
<1>1. AgingBonus(w1, interval) \in Int /\ AgingBonus(w1, interval) >= t1 - floor
  <2> DEFINE d == t1 - floor
             b == w1 \div interval
  <2>1. d \in Int /\ b \in Int /\ w1 < (b + 1) * interval /\ w1 >= d * interval
    OBVIOUS
  <2> HIDE DEF d, b
  <2>2. ~(b + 1 <= d)
    <3>1. b + 1 <= d => (b + 1) * interval <= d * interval
      BY <2>1
    <3>2. (b + 1) * interval \in Int /\ d * interval \in Int
      BY <2>1
    <3> QED
      BY <2>1, <3>1, <3>2
  <2> QED
    BY <2>1, <2>2 DEF AgingBonus, d, b
<1>2. /\ EffTier(t2, w2, interval, floor) \in Int
      /\ EffTier(t2, w2, interval, floor) >= Lesser(t2, floor)
  BY EffTierBounds
<1> QED
  BY <1>1, <1>2 DEF EffTier, Lesser, Greater

(***************************************************************************)
(* What the writes of the API server are                                   *)
(***************************************************************************)

LEMMA TargetInPR == Target \subseteq PR
  BY PipelineRunAssumption DEF PipelineRunAssumption

LEMMA ObjectNumbers ==
  ASSUME NEW o \in Object
  PROVE  o.tier \in Int /\ o.born \in Nat /\ o.born \in Int
<1>1. o.tier \in Int
  <2>1. o.tier \in Tiers
    BY DEF Object
  <2>2. Tiers \subseteq Int
    BY PipelineRunAssumption DEF PipelineRunAssumption
  <2> QED
    BY <2>1, <2>2, Zenon
<1>2. o.born \in Nat /\ o.born \in Int
  BY DEF Object
<1> QED
  BY <1>1, <1>2, Zenon

\* A write reaches every open watch, and nobody else.
LEMMA WriteEffect ==
  ASSUME TypeOK, NEW p \in PR, NEW o \in Object \cup {Absent}, Write(p, o)
  PROVE  /\ pr'[p] = o /\ \A k \in PR : k # p => pr'[k] = pr[k]
         /\ \A r \in Replica : watch[r] = "list" => stream'[r] = stream[r]
         /\ \A r \in Replica : watch[r] # "list" =>
              stream'[r] = Append(stream[r], [key |-> p, obj |-> o])
  BY DEF Write, TypeOK, Store

\* What is appended to a sequence is its last element.
LEMMA AppendOne ==
  ASSUME NEW S, NEW s \in Seq(S), NEW e \in S
  PROVE  /\ Len(Append(s, e)) = Len(s) + 1 /\ Len(s) \in Nat
         /\ Append(s, e)[Len(s) + 1] = e
         /\ \A i \in 1..Len(s) : Append(s, e)[i] = s[i]
         /\ DOMAIN s = 1..Len(s) /\ DOMAIN Append(s, e) = 1..(Len(s) + 1)
  OBVIOUS

\* The tail of a sequence is the sequence, moved by one.
LEMMA TailShift ==
  ASSUME NEW S, NEW s \in Seq(S), s # <<>>
  PROVE  /\ Len(s) \in Nat /\ Len(s) >= 1 /\ Len(Tail(s)) = Len(s) - 1
         /\ Tail(s) \in Seq(S) /\ Head(s) = s[1] /\ s[1] \in S
         /\ DOMAIN s = 1..Len(s) /\ DOMAIN Tail(s) = 1..(Len(s) - 1)
         /\ \A i \in 1..(Len(s) - 1) : Tail(s)[i] = s[i + 1]
  OBVIOUS

\* A start changes the status of a run and nothing else.
LEMMA StartWrites ==
  ASSUME TypeOK, NEW p \in PR, Start(p)
  PROVE  /\ pr[p] \in Object /\ pr'[p] # Absent /\ ~Queued(pr'[p])
         /\ \/ UNCHANGED <<pr, stream>>
            \/ \E o \in Object : /\ Write(p, o) /\ Evolves(p, o)
                                 /\ o = [pr[p] EXCEPT !.status = "none"]
<1>1. pr[p] \in Object
  BY DEF Start, TypeOK, Store
<1>2. CASE pr[p].status = "none"
  BY <1>1, <1>2 DEF Start, Queued
<1>3. CASE pr[p].status # "none"
  <2> DEFINE o == [pr[p] EXCEPT !.status = "none"]
  <2>1. o \in Object /\ o # Absent
    BY <1>1, ObjectUpdate, PipelineRunAssumption DEF Status, PipelineRunAssumption
  <2>2. SameRun(o, pr[p]) /\ ~Queued(o)
    BY <1>1 DEF Object, SameRun, Queued
  <2>3. Write(p, o)
    BY <1>3 DEF Start
  <2>4. Evolves(p, o)
    BY <2>1, <2>2 DEF Evolves, Start
  <2>5. pr'[p] = o
    BY <2>1, <2>3, WriteEffect
  <2> QED
    BY <1>1, <2>1, <2>2, <2>3, <2>4, <2>5
<1> QED
  BY <1>2, <1>3

\* After it the run is the same run, and no other has changed.
LEMMA StartKeeps ==
  ASSUME TypeOK, NEW p \in PR, Start(p)
  PROVE  /\ pr'[p] # Absent /\ SameRun(pr'[p], pr[p])
         /\ \A k \in PR : k # p => pr'[k] = pr[k]
<1>1. CASE UNCHANGED <<pr, stream>>
  BY <1>1, StartWrites DEF SameRun
<1>2. CASE \E o \in Object : Write(p, o) /\ Evolves(p, o)
  <2>1. PICK o \in Object : Write(p, o) /\ Evolves(p, o)
    BY <1>2
  <2>2. /\ pr'[p] = o /\ o # Absent /\ \A k \in PR : k # p => pr'[k] = pr[k]
    BY <2>1, WriteEffect, PipelineRunAssumption DEF PipelineRunAssumption
  <2> QED
    BY <2>1, <2>2 DEF Evolves
<1> QED
  BY <1>1, <1>2, StartWrites

\* A user creates a run, or changes one without putting it into the queue;
\* only a release makes the status "none".
LEMMA UserWrites ==
  ASSUME TypeOK, NEW p \in PR, User(p)
  PROVE  \/ \E src \in Sources, tier \in Tiers, r \in Replica : Create(p, src, tier, r)
         \/ \E o \in Object \cup {Absent} :
              /\ Update(p, o) /\ Evolves(p, o)
              /\ "release" \notin Env /\ o # Absent /\ o.status = "none" =>
                   pr[p].status = "none"
<1> DEFINE Good(o) == /\ o \in Object \cup {Absent} /\ Update(p, o) /\ Evolves(p, o)
                      /\ "release" \notin Env /\ o # Absent /\ o.status = "none" =>
                           pr[p].status = "none"
<1>1. ASSUME pr[p] # Absent, NEW o \in Object, SameRun(o, pr[p]), ~Queued(o) \/ o = pr[p]
      PROVE  Evolves(p, o)
  BY <1>1, PipelineRunAssumption DEF Evolves, PipelineRunAssumption
<1>2. pr[p] # Absent => pr[p] \in Object
  BY DEF TypeOK, Store
<1>3. ASSUME Complete(p) PROVE \E o : Good(o)
  <2> DEFINE o == [pr[p] EXCEPT !.done = TRUE]
  <2>1. pr[p] # Absent /\ Update(p, o)
    BY <1>3 DEF Complete, Live
  <2>2. o \in Object /\ SameRun(o, pr[p]) /\ ~Queued(o) /\ o.status = pr[p].status
    BY <2>1, <1>2, ObjectUpdate DEF Object, SameRun, Queued
  <2>3. Evolves(p, o)
    BY <2>1, <2>2, <1>1
  <2> QED
    BY <2>1, <2>2, <2>3
<1>4. ASSUME Touch(p) PROVE \E o : Good(o)
  <2>1. pr[p] # Absent /\ Update(p, pr[p])
    BY <1>4 DEF Touch, Live
  <2>2. Evolves(p, pr[p])
    BY <2>1, <1>1, <1>2 DEF SameRun
  <2> QED
    BY <2>1, <2>2, <1>2
<1>5. ASSUME Cancel(p) PROVE \E o : Good(o)
  <2> DEFINE o == [pr[p] EXCEPT !.status = "Cancelled"]
  <2>1. pr[p] # Absent /\ Update(p, o)
    BY <1>5 DEF Cancel, Live
  <2>2. o \in Object /\ SameRun(o, pr[p]) /\ ~Queued(o) /\ o.status # "none"
    BY <2>1, <1>2, ObjectUpdate DEF Object, SameRun, Queued, Status
  <2>3. Evolves(p, o)
    BY <2>1, <2>2, <1>1
  <2> QED
    BY <2>1, <2>2, <2>3
<1>6. ASSUME Delete(p) PROVE \E o : Good(o)
  <2>1. Good(Absent)
    BY <1>6 DEF Delete, Evolves
  <2> QED
    BY <2>1
<1>7. ASSUME Release(p) PROVE \E o : Good(o)
  <2> DEFINE o == [pr[p] EXCEPT !.status = "none"]
  <2>1. pr[p] # Absent /\ Update(p, o) /\ "release" \in Env
    BY <1>7 DEF Release, Live
  <2>2. o \in Object /\ SameRun(o, pr[p]) /\ ~Queued(o)
    BY <2>1, <1>2, ObjectUpdate DEF Object, SameRun, Queued, Status
  <2>3. Evolves(p, o)
    BY <2>1, <2>2, <1>1
  <2> QED
    BY <2>1, <2>2, <2>3
<1> QED
  BY <1>3, <1>4, <1>5, <1>6, <1>7 DEF User

(***************************************************************************)
(* Versions: what anybody knows of a run                                          *)
(***************************************************************************)

\* A name that is used is not given again.
LEMMA CreateUnused ==
  ASSUME NamesOnce, TypeOK, Created, NEW p \in PR, NEW src, NEW tier, NEW s,
         Create(p, src, tier, s)
  PROVE  pr[p] = Absent /\ ~Used(p)
<1>1. pr[p] = Absent /\ creates[p] < MaxCreates /\ creates[p] \in Nat /\ MaxCreates \in Nat
  BY ControllerAssumption DEF ControllerAssumption, TypeOK, Create
<1>2. CASE "delete" \notin Env
  BY <1>1, <1>2 DEF Created
<1>3. CASE MaxCreates <= 1
  BY <1>1, <1>3 DEF Used
<1> QED
  BY <1>2, <1>3, <1>1 DEF NamesOnce

\* An update of a run leaves its copies copies of it.
LEMMA VersionStays ==
  ASSUME NamesOnce, TypeOK, Created, NEW p \in PR, NEW o \in Object \cup {Absent},
         Write(p, o), Evolves(p, o), creates' = creates, NEW k \in PR, NEW x, Version(k, x)
  PROVE  Version(k, x)'
<1> SUFFICES ASSUME x # Absent
             PROVE  Used(k)' /\ (pr'[k] # Absent =>
                                   SameRun(x, pr'[k]) /\ (Queued(pr'[k]) => x = pr'[k]))
  BY DEF Version, SameRun
<1>1. Used(k)'
  BY DEF Version, Used
<1>2. CASE k = p
  BY <1>1, <1>2, WriteEffect DEF Version, Evolves, SameRun
<1>3. CASE k # p
  BY <1>1, <1>3, WriteEffect DEF Version
<1> QED
  BY <1>2, <1>3

\* Of an unused name there is no copy and no event, and no cycle plans it.
LEMMA UnusedUnknown ==
  ASSUME Known, Planned, NEW k \in PR, ~Used(k), NEW r \in Replica
  PROVE  /\ cache[r][k] = Absent /\ listed[r][k] = Absent
         /\ \A i \in DOMAIN stream[r] : stream[r][i].key # k
         /\ \A i \in DOMAIN todo[r] : todo[r][i] # k
  BY DEF Known, Planned, Version

\* Events after an update.
LEMMA EventsStay ==
  ASSUME NamesOnce, TypeOK, Created, Known, NEW p \in PR, NEW o \in Object \cup {Absent},
         Write(p, o), Evolves(p, o), creates' = creates,
         NEW r \in Replica, NEW k \in PR, NEW i \in DOMAIN stream'[r], stream'[r][i].key = k
  PROVE  /\ Version(k, stream[r][i].obj)' 
         /\ stream'[r][i].obj = Absent => Used(k)' /\ pr'[k] = Absent
<1> DEFINE e == [key |-> p, obj |-> o]
<1>1. stream[r] \in Seq(Event) /\ e \in Event
  BY DEF TypeOK, Event
<1>2. ASSUME i \in DOMAIN stream[r], stream'[r][i] = stream[r][i]
      PROVE  /\ Version(k, stream[r][i].obj)'
             /\ stream'[r][i].obj = Absent => Used(k)' /\ pr'[k] = Absent
  <2> DEFINE x == stream[r][i].obj
  <2>1. Version(k, x) /\ (x = Absent => Used(k) /\ pr[k] = Absent)
    BY <1>2 DEF Known
  <2>2. stream'[r][i].obj = x
    BY <1>2
  <2> HIDE DEF x
  <2>3. x = Absent => Used(k)' /\ pr'[k] = Absent
    BY <2>1, WriteEffect DEF Evolves, Used
  <2>4. x # Absent => Used(k)' /\ (pr'[k] # Absent =>
                        SameRun(x, pr'[k]) /\ (Queued(pr'[k]) => x = pr'[k]))
    BY <2>1, VersionStays DEF Version, SameRun
  <2> QED
    BY <2>2, <2>3, <2>4 DEF Version, SameRun
<1>3. CASE watch[r] = "list"
  BY <1>2, <1>3, WriteEffect
<1>4. CASE watch[r] # "list"
  <2>1. stream'[r] = Append(stream[r], e)
    BY <1>4, WriteEffect
  <2>2. CASE i \in 1..Len(stream[r])
    BY <1>1, <1>2, <2>1, <2>2, AppendOne
  <2>3. CASE i = Len(stream[r]) + 1
    <3>1. stream'[r][i].obj = o /\ k = p /\ pr'[k] = o /\ Used(p)
      BY <1>1, <2>1, <2>3, AppendOne, WriteEffect DEF Created, Evolves
    <3>2. Used(k)'
      BY <3>1 DEF Used
    <3> QED
      BY <3>1, <3>2 DEF Version, SameRun
  <2> QED
    BY <1>1, <2>1, <2>2, <2>3, AppendOne
<1> QED
  BY <1>3, <1>4

\* The targets left to a cycle are targets it had.
LEMMA TailPlanned ==
  ASSUME TypeOK, NEW r \in Replica, todo[r] # <<>>, NEW S,
         \A i \in DOMAIN todo[r] : todo[r][i] \in S
  PROVE  \A i \in DOMAIN Tail(todo[r]) : Tail(todo[r])[i] \in S
  BY TailShift DEF TypeOK

\* Every write that is not a creation, whatever it leaves of the cycles' queues.
LEMMA EvolveStep ==
  ASSUME NamesOnce, TypeOK, Versions, NEW p \in PR, NEW o \in Object \cup {Absent},
         Write(p, o), Evolves(p, o), UNCHANGED <<creates, clock, watch, listed, cache>>,
         \A r \in Replica : todo'[r] = todo[r] \/ (todo[r] # <<>> /\ todo'[r] = Tail(todo[r]))
  PROVE  Versions'
<1>1. Created'
  <2> SUFFICES ASSUME NEW k \in PR
               PROVE  /\ pr'[k] # Absent => /\ Used(k) /\ pr'[k].born <= clock
                                            /\ pr'[k].managed => pr'[k].src = "dashboard"
                      /\ Used(k) /\ "delete" \notin Env => pr'[k] # Absent
    BY DEF Created, Used
  <2>1. pr'[k] # Absent => pr[k] # Absent /\ SameRun(pr'[k], pr[k])
    BY WriteEffect DEF Evolves, SameRun
  <2>2. "delete" \notin Env /\ pr[k] # Absent => pr'[k] # Absent
    BY WriteEffect DEF Evolves
  <2> QED
    BY <2>1, <2>2 DEF Versions, Created, SameRun
<1>2. Known'
  <2> SUFFICES ASSUME NEW r \in Replica, NEW k \in PR
               PROVE  /\ Version(k, cache[r][k])' /\ Version(k, listed[r][k])'
                      /\ \A i \in DOMAIN stream'[r] : stream'[r][i].key = k =>
                           /\ Version(k, stream[r][i].obj)'
                           /\ stream'[r][i].obj = Absent => Used(k)' /\ pr'[k] = Absent
    BY DEF Known
  <2>1. \A x : Version(k, x) => (x # Absent => Used(k)' /\ (pr'[k] # Absent =>
                 SameRun(x, pr'[k]) /\ (Queued(pr'[k]) => x = pr'[k])))
    BY VersionStays DEF Version, SameRun, Versions
  <2>2. Version(k, cache[r][k]) /\ Version(k, listed[r][k])
    BY DEF Versions, Known
  <2>3. Version(k, cache[r][k])' /\ Version(k, listed[r][k])'
    BY <2>1, <2>2 DEF Version, SameRun
  <2> QED
    BY <2>3, EventsStay DEF Versions
<1>3. Planned'
  <2> SUFFICES ASSUME NEW r \in Replica, NEW i \in DOMAIN todo'[r]
               PROVE  /\ todo'[r][i] \in Target /\ Used(todo[r][i])'
                      /\ pr'[todo'[r][i]] # Absent => pr'[todo'[r][i]].managed
    BY DEF Planned
  <2> DEFINE S == {k \in Target : Used(k) /\ (pr[k] # Absent => pr[k].managed)}
  <2>1. \A h \in DOMAIN todo[r] : todo[r][h] \in S
    BY DEF Versions, Planned
  <2> HIDE DEF S
  <2>2. PICK x \in S : x = todo'[r][i]
    BY <2>1, TailPlanned
  <2>3. x \in Target /\ x \in PR /\ Used(x) /\ (pr[x] # Absent => pr[x].managed)
    BY TargetInPR DEF S
  <2>4. Used(x)'
    BY <2>3 DEF Used
  <2>5. pr'[x] # Absent => pr'[x].managed
    BY <2>3, WriteEffect DEF Evolves, SameRun
  <2> QED
    BY <2>2, <2>3, <2>4, <2>5 DEF Used
<1> QED
  BY <1>1, <1>2, <1>3 DEF Versions

\* A new run: nobody can have a copy of it, or have planned to start it.
LEMMA CreateStep ==
  ASSUME NamesOnce, TypeOK, Versions, NEW p \in PR, NEW src \in Sources, NEW tier \in Tiers,
         NEW s \in Replica, Create(p, src, tier, s)
  PROVE  Versions'
<1> DEFINE o == Mutate(p, src, tier, synced[s], clock)
<1> USE DEF localVars, cycleVars
<1>1. synced[s] \in BOOLEAN /\ clock \in Nat
  BY ControllerAssumption DEF ControllerAssumption, TypeOK
<1>2. o \in Object /\ o # Absent
  BY <1>1, MutateType, PipelineRunAssumption DEF PipelineRunAssumption
<1>3. o.born = clock /\ (o.managed => o.src = "dashboard")
  BY DEF Mutate
<1>4. ~Used(p)
  BY CreateUnused DEF Versions
<1>5. /\ Write(p, o) /\ UNCHANGED <<clock, watch, listed, cache, todo>>
      /\ creates' = [creates EXCEPT ![p] = @ + 1]
  BY DEF Create
<1> HIDE DEF o
<1>6. /\ pr'[p] = o /\ \A k \in PR : k # p => pr'[k] = pr[k]
  BY <1>2, <1>5, WriteEffect
<1>7. creates'[p] >= 1 /\ \A k \in PR : k # p => creates'[k] = creates[k]
  BY <1>5 DEF TypeOK
<1>8. Created'
  <2> SUFFICES ASSUME NEW k \in PR
               PROVE  /\ pr'[k] # Absent =>
                           /\ creates'[k] >= 1 /\ pr'[k].born <= clock
                           /\ pr'[k].managed => pr'[k].src = "dashboard"
                      /\ creates'[k] >= 1 /\ "delete" \notin Env => pr'[k] # Absent
    BY <1>5 DEF Created, Used
  <2>1. CASE k = p
    BY <1>1, <1>2, <1>3, <1>6, <1>7, <2>1
  <2>2. CASE k # p
    BY <1>6, <1>7, <2>2 DEF Versions, Created, Used
  <2> QED
    BY <2>1, <2>2
<1>9. \A r \in Replica : /\ cache[r][p] = Absent /\ listed[r][p] = Absent
                         /\ \A i \in DOMAIN stream[r] : stream[r][i].key # p
                         /\ \A i \in DOMAIN todo[r] : todo[r][i] # p
  BY <1>4, UnusedUnknown DEF Versions
<1>10. \A k \in PR : k # p => Used(k)' = Used(k)
  BY <1>6, <1>7 DEF Used
<1>11. Known'
  <2> SUFFICES ASSUME NEW r \in Replica, NEW k \in PR
               PROVE  /\ Version(k, cache[r][k])' /\ Version(k, listed[r][k])'
                      /\ \A i \in DOMAIN stream'[r] : stream'[r][i].key = k =>
                           /\ Version(k, stream[r][i].obj)'
                           /\ stream'[r][i].obj = Absent => Used(k)' /\ pr'[k] = Absent
    BY DEF Known
  <2> DEFINE e == [key |-> p, obj |-> o]
  <2>1. stream[r] \in Seq(Event) /\ e \in Event
    BY <1>2 DEF TypeOK, Event
  <2>2. Version(k, cache[r][k])' /\ Version(k, listed[r][k])'
    BY <1>5, <1>6, <1>9, <1>10 DEF Versions, Known, Version, SameRun
  <2>3. ASSUME NEW i \in DOMAIN stream'[r], stream'[r][i].key = k
        PROVE  /\ Version(k, stream[r][i].obj)'
               /\ stream'[r][i].obj = Absent => Used(k)' /\ pr'[k] = Absent
    <3>1. CASE i \in DOMAIN stream[r] /\ stream'[r][i] = stream[r][i]
      BY <1>6, <1>9, <1>10, <2>3, <3>1 DEF Versions, Known, Version, SameRun
    <3>2. CASE watch[r] = "list"
      BY <3>1, <3>2, <1>2, <1>5, WriteEffect
    <3>3. CASE watch[r] # "list"
      <4>1. stream'[r] = Append(stream[r], e)
        BY <3>3, <1>2, <1>5, WriteEffect
      <4>2. CASE i \in 1..Len(stream[r])
        BY <2>1, <3>1, <4>1, <4>2, AppendOne
      <4>3. CASE i = Len(stream[r]) + 1
        <5>1. stream'[r][i].obj = o /\ k = p
          BY <2>1, <2>3, <4>1, <4>3, AppendOne
        <5> QED
          BY <5>1, <1>2, <1>6, <1>7 DEF Version, SameRun, Used
      <4> QED
        BY <2>1, <4>1, <4>2, <4>3, AppendOne
    <3> QED
      BY <3>2, <3>3
  <2> QED
    BY <2>2, <2>3
<1>12. Planned'
  <2> SUFFICES ASSUME NEW r \in Replica, NEW i \in DOMAIN todo[r]
               PROVE  /\ todo[r][i] \in Target /\ Used(todo[r][i])'
                      /\ pr'[todo[r][i]] # Absent => pr'[todo[r][i]].managed
    BY <1>5 DEF Planned
  <2>1. /\ todo[r][i] \in Target /\ Used(todo[r][i]) /\ todo[r][i] # p
        /\ pr[todo[r][i]] # Absent => pr[todo[r][i]].managed
    BY <1>9 DEF Versions, Planned
  <2> QED
    BY <1>5, <1>6, <1>10, <2>1, TargetInPR DEF Used
<1> QED
  BY <1>8, <1>11, <1>12 DEF Versions

\* No update puts a run into the queue.
LEMMA EvolveQueued ==
  ASSUME TypeOK, NEW p \in PR, NEW o \in Object \cup {Absent}, Write(p, o), Evolves(p, o),
         NEW j \in PR, Queued(pr'[j])
  PROVE  pr'[j] = pr[j]
<1>1. CASE j = p
  <2>1. pr'[j] = o /\ o # Absent
    BY <1>1, WriteEffect DEF Queued
  <2> QED
    BY <1>1, <2>1 DEF Evolves
<1>2. CASE j # p
  BY <1>2, WriteEffect
<1> QED
  BY <1>1, <1>2

LEMMA AwaitedUpdate ==
  ASSUME VersionInv, NEW p \in PR, NEW o \in Object \cup {Absent}, Write(p, o),
         Evolves(p, o), UNCHANGED <<pc, todo>>
  PROVE  Awaited'
<1> SUFFICES ASSUME NEW r \in Replica, pc[r] = "ack" PROVE ~Queued(pr'[Head(todo[r])])
  BY DEF Awaited
<1>1. ~Queued(pr[Head(todo[r])]) /\ Head(todo[r]) \in PR
  BY TodoType DEF VersionInv, Awaited, AckHasTarget
<1> QED
  BY <1>1, EvolveQueued DEF VersionInv

\* A created run is nobody's target yet.
LEMMA AwaitedCreate ==
  ASSUME NamesOnce, VersionInv, NEW p \in PR, NEW src \in Sources, NEW tier \in Tiers,
         NEW s \in Replica, Create(p, src, tier, s)
  PROVE  Awaited'
<1> SUFFICES ASSUME NEW r \in Replica, pc[r] = "ack" PROVE ~Queued(pr'[Head(todo[r])])
  BY DEF Awaited, Create, localVars, cycleVars
<1>1. ~Queued(pr[Head(todo[r])]) /\ todo[r] # <<>> /\ Head(todo[r]) = todo[r][1]
      /\ 1 \in DOMAIN todo[r]
  BY TailShift DEF VersionInv, Awaited, AckHasTarget, TypeOK
<1>2. Used(todo[r][1]) /\ ~Used(p)
  BY <1>1, CreateUnused DEF VersionInv, Versions, Planned
<1>3. pr' = [pr EXCEPT ![p] = Mutate(p, src, tier, synced[s], clock)]
  BY DEF Create, Write
<1>4. pr'[todo[r][1]] = pr[todo[r][1]]
  BY <1>2, <1>3 DEF VersionInv, TypeOK, Store
<1> QED
  BY <1>1, <1>4

\* A version whose status an ack has set is a version still, of a run that does
\* not wait any longer.
LEMMA AckVersion ==
  ASSUME TypeOK, NEW k \in PR, NEW x \in Object, Version(k, x), ~Queued(pr[k])
  PROVE  Version(k, [x EXCEPT !.status = "none"])
<1>1. x # Absent
  BY PipelineRunAssumption DEF PipelineRunAssumption
<1>2. Used(k) /\ (pr[k] # Absent => SameRun(x, pr[k]))
  BY <1>1 DEF Version
<1>3. SameRun([x EXCEPT !.status = "none"], x)
  BY DEF SameRun, Object
<1> QED
  BY <1>2, <1>3 DEF Version, SameRun

LEMMA VersionWatcher ==
  ASSUME VersionInv, NEW m \in Replica, Watcher(m)
  PROVE  Versions' /\ Awaited'
<1> USE DEF envVars, cycleVars
<1>0. TypeOK /\ Created /\ Known /\ Planned /\ Awaited
  BY DEF VersionInv, Versions
<1>1. UNCHANGED <<pr, creates, clock, pc, todo>>
  BY DEF Watcher, WatchList, ReplaceCache, Deliver, Expire
<1>2. Created' /\ Planned' /\ Awaited'
  BY <1>0, <1>1 DEF Created, Planned, Awaited, Used
<1>3. \A k \in PR : Version(k, Absent) /\ Version(k, pr[k])
  BY <1>0 DEF Version, Created, SameRun
<1>4. Known'
  <2> SUFFICES ASSUME NEW r \in Replica, NEW k \in PR
               PROVE  /\ Version(k, cache'[r][k]) /\ Version(k, listed'[r][k])
                      /\ \A i \in DOMAIN stream'[r] : stream'[r][i].key = k =>
                           /\ Version(k, stream'[r][i].obj)
                           /\ stream'[r][i].obj = Absent => Used(k) /\ pr[k] = Absent
    BY <1>1 DEF Known, Version, Used, SameRun
  <2>1. /\ Version(k, cache[r][k]) /\ Version(k, listed[r][k])
        /\ \A i \in DOMAIN stream[r] : stream[r][i].key = k =>
             /\ Version(k, stream[r][i].obj)
             /\ stream[r][i].obj = Absent => Used(k) /\ pr[k] = Absent
    BY <1>0 DEF Known
  <2>2. CASE WatchList(m)
    BY <1>0, <1>3, <2>1, <2>2 DEF WatchList, TypeOK
  <2>3. CASE ReplaceCache(m)
    BY <1>0, <1>3, <2>1, <2>3 DEF ReplaceCache, TypeOK, Nothing
  <2>4. CASE Expire(m)
    BY <1>0, <2>1, <2>4 DEF Expire, TypeOK
  <2>5. CASE Deliver(m) /\ r = m
    <3> DEFINE e == Head(stream[m])
    <3>1. stream[m] \in Seq(Event) /\ stream[m] # <<>> /\ stream'[m] = Tail(stream[m])
          /\ listed' = listed
      BY <1>0, <2>5 DEF Deliver, TypeOK
    <3>2. e = stream[m][1] /\ 1 \in DOMAIN stream[m] /\ e \in Event
      BY <3>1, TailShift
    <3>3. cache'[m] = [cache[m] EXCEPT ![e.key] = e.obj] /\ cache[m] \in Store
      BY <1>0, <2>5 DEF Deliver, UpdateCache, TypeOK
    <3>4. Version(k, cache'[m][k])
      <4>1. CASE e.key = k
        <5>1. cache'[m][k] = e.obj
          BY <3>3, <4>1 DEF Store
        <5> QED
          BY <2>1, <2>5, <3>2, <4>1, <5>1
      <4>2. CASE e.key # k
        BY <2>1, <2>5, <3>3, <4>2 DEF Store
      <4> QED
        BY <4>1, <4>2
    <3>5. \A i \in DOMAIN stream'[m] : i + 1 \in DOMAIN stream[m]
                                        /\ stream'[m][i] = stream[m][i + 1]
      BY <3>1, TailShift
    <3> QED
      BY <2>1, <2>5, <3>1, <3>4, <3>5
  <2>6. CASE Deliver(m) /\ r # m
    BY <1>0, <2>1, <2>6 DEF Deliver, UpdateCache, TypeOK
  <2> QED
    BY <2>2, <2>3, <2>4, <2>5, <2>6 DEF Watcher
<1> QED
  BY <1>2, <1>4 DEF Versions

\* A cycle's targets, once it has read the queue, are queued runs.
LEMMA ReadQueuePlanned ==
  ASSUME TypeOK, Versions, NEW m \in Replica, ReadQueue(m)
  PROVE  Planned'
<1> USE DEF envVars
<1>1. PICK q \in QueueOrders(cache[m], ahead[m], clock) : todo' = [todo EXCEPT ![m] = q]
  BY DEF ReadQueue
<1>2. \A i \in DOMAIN q : q[i] \in Waiting(cache[m])
  <2>1. IsFiniteSet(Waiting(cache[m]))
    BY FS_Subset, PipelineRunAssumption DEF PipelineRunAssumption, Waiting
  <2>2. q \in [1..Cardinality(Waiting(cache[m])) -> Waiting(cache[m])]
    BY DEF QueueOrders, SetToSeqs
  <2> QED
    BY <2>2
<1>3. ASSUME NEW k \in Waiting(cache[m])
      PROVE  k \in Target /\ Used(k) /\ (pr[k] # Absent => pr[k].managed)
  <2>1. k \in Target /\ k \in PR /\ cache[m][k] # Absent /\ cache[m][k].managed
    BY TargetInPR DEF Waiting, Queued
  <2> QED
    BY <2>1 DEF Versions, Known, Version, SameRun
<1>4. UNCHANGED <<pr, creates>>
  BY DEF ReadQueue
<1>5. ASSUME NEW r \in Replica, NEW i \in DOMAIN todo'[r]
      PROVE  /\ todo'[r][i] \in Target /\ Used(todo'[r][i])
             /\ pr[todo'[r][i]] # Absent => pr[todo'[r][i]].managed
  <2>1. CASE r = m
    BY <1>1, <1>2, <1>3, <1>5, <2>1 DEF TypeOK
  <2>2. CASE r # m
    BY <1>1, <1>5, <2>2 DEF TypeOK, Versions, Planned
  <2> QED
    BY <2>1, <2>2
<1> QED
  BY <1>4, <1>5 DEF Planned, Used

LEMMA VersionAck ==
  ASSUME VersionInv, NEW m \in Replica, Ack(m)
  PROVE  Versions' /\ Awaited'
<1> USE DEF envVars
<1> DEFINE h == Head(todo[m])
<1>0. TypeOK /\ AckHasTarget /\ Created /\ Known /\ Planned /\ Awaited
  BY DEF VersionInv, Versions
<1>1. todo[m] # <<>> /\ ~Queued(pr[h]) /\ h \in PR
  BY <1>0, TodoType DEF Ack, AckDone, AckHasTarget, Awaited
<1>2. /\ UNCHANGED <<pr, creates, clock, listed, stream>>
      /\ todo' = [todo EXCEPT ![m] = Tail(@)] /\ pc' = [pc EXCEPT ![m] = "loop"]
  BY DEF Ack, AckDone, DropTarget
<1>3. Created'
  BY <1>0, <1>2 DEF Created, Used
<1>4. Awaited'
  BY <1>0, <1>2 DEF Awaited, TypeOK
<1>5. Planned'
  <2> SUFFICES ASSUME NEW r \in Replica, NEW i \in DOMAIN todo'[r]
               PROVE  /\ todo'[r][i] \in Target /\ Used(todo'[r][i])
                      /\ pr[todo'[r][i]] # Absent => pr[todo'[r][i]].managed
    BY <1>2 DEF Planned, Used
  <2>1. CASE r = m
    <3>1. todo'[r] = Tail(todo[m]) /\ todo[m] \in Seq(PR)
      BY <1>0, <1>2, <2>1 DEF TypeOK
    <3>2. i + 1 \in DOMAIN todo[m] /\ todo'[r][i] = todo[m][i + 1]
      BY <1>1, <3>1, TailShift
    <3> QED
      BY <1>0, <3>2 DEF Planned
  <2>2. CASE r # m
    BY <1>0, <1>2, <2>2 DEF Planned, TypeOK
  <2> QED
    BY <2>1, <2>2
<1>6. Known'
  <2> SUFFICES ASSUME NEW r \in Replica, NEW k \in PR PROVE Version(k, cache'[r][k])
    BY <1>0, <1>2 DEF Known, Version, Used, SameRun
  <2>1. Version(k, cache[r][k])
    BY <1>0 DEF Known
  <2>2. CASE cache'[r][k] = cache[r][k]
    BY <2>1, <2>2
  <2>3. CASE cache'[r][k] # cache[r][k]
    <3>1. /\ r = m /\ k = h /\ cache[m][h] # Absent
          /\ cache'[r][k] = [cache[m][h] EXCEPT !.status = "none"]
      BY <1>0, <2>3 DEF Ack, WriteThrough, TypeOK, Store
    <3>2. cache[m][h] \in Object
      BY <1>0, <1>1, <3>1 DEF TypeOK, Store
    <3> HIDE DEF h
    <3>3. PICK x \in Object : x = cache[m][h]
      BY <3>2
    <3>4. Version(k, [x EXCEPT !.status = "none"])
      BY <1>0, <1>1, <2>1, <3>1, <3>3, AckVersion
    <3> QED
      BY <3>1, <3>3, <3>4
  <2> QED
    BY <2>2, <2>3
<1> QED
  BY <1>3, <1>4, <1>5, <1>6 DEF Versions

\* A start, of which the manager has or has not the reply.
LEMMA VersionPatch ==
  ASSUME NamesOnce, VersionInv, NEW m \in Replica, PatchApplied(m) \/ PatchReplyLost(m)
  PROVE  Versions' /\ Awaited'
<1> DEFINE h == Head(todo[m])
<1> USE DEF cycleVars
<1>0. TypeOK /\ Versions /\ AckHasTarget /\ Awaited
  BY DEF VersionInv
<1>1. h \in PR /\ todo[m] # <<>> /\ Start(h)
  BY <1>0, TodoType DEF PatchApplied, PatchReplyLost, NextTarget
<1>2. /\ UNCHANGED <<creates, clock, watch, listed, cache>>
      /\ \/ todo' = todo /\ pc' = [pc EXCEPT ![m] = "ack"]
         \/ todo' = [todo EXCEPT ![m] = Tail(@)] /\ pc' = pc /\ pc[m] = "loop"
  BY DEF PatchApplied, PatchReplyLost, DropTarget, NextTarget
<1>3. \A r \in Replica : todo'[r] = todo[r] \/ (todo[r] # <<>> /\ todo'[r] = Tail(todo[r]))
  BY <1>0, <1>1, <1>2 DEF TypeOK
<1> HIDE DEF h
<1>4. PICK k \in PR : k = h
  BY <1>1
<1>5. Start(k)
  BY <1>1, <1>4
<1>6. Versions'
  <2>1. CASE \E o \in Object : Write(k, o) /\ Evolves(k, o)
    BY <1>0, <1>2, <1>3, <2>1, EvolveStep
  <2>2. CASE UNCHANGED <<pr, stream>>
    <3>1. Created' /\ Known'
      BY <1>0, <1>2, <2>2 DEF Versions, Created, Known, Version, Used, SameRun
    <3>2. Planned'
      <4> SUFFICES ASSUME NEW r \in Replica, NEW i \in DOMAIN todo'[r]
                   PROVE  /\ todo'[r][i] \in Target /\ Used(todo'[r][i])
                          /\ pr[todo'[r][i]] # Absent => pr[todo'[r][i]].managed
        BY <1>2, <2>2 DEF Planned, Used
      <4>1. \E g \in DOMAIN todo[r] : todo'[r][i] = todo[r][g]
        <5>1. CASE todo'[r] = todo[r]
          BY <5>1
        <5>2. CASE todo[r] # <<>> /\ todo'[r] = Tail(todo[r])
          <6>1. todo[r] \in Seq(PR)
            BY <1>0 DEF TypeOK
          <6>2. i + 1 \in DOMAIN todo[r] /\ todo'[r][i] = todo[r][i + 1]
            BY <5>2, <6>1, TailShift
          <6> QED
            BY <6>2
        <5> QED
          BY <1>3, <5>1, <5>2
      <4> QED
        BY <1>0, <4>1 DEF Versions, Planned
    <3> QED
      BY <3>1, <3>2 DEF Versions
  <2> QED
    BY <1>0, <1>5, <2>1, <2>2, StartWrites
<1>7. \A j \in PR : Queued(pr'[j]) => pr'[j] = pr[j] /\ j # k
  <2>1. ~Queued(pr'[k])
    BY <1>0, <1>5, StartWrites
  <2>2. ASSUME NEW j \in PR, Queued(pr'[j]) PROVE pr'[j] = pr[j]
    BY <1>0, <1>5, <2>2, StartWrites, EvolveQueued
  <2> QED
    BY <2>1, <2>2
<1>8. Awaited'
  <2> SUFFICES ASSUME NEW r \in Replica, pc'[r] = "ack" PROVE ~Queued(pr'[Head(todo'[r])])
    BY DEF Awaited
  <2>1. todo'[r] = todo[r] /\ (r = m \/ pc[r] = "ack")
    BY <1>0, <1>2 DEF TypeOK
  <2>2. CASE r = m
    BY <1>4, <1>7, <2>1, <2>2 DEF h
  <2>3. CASE pc[r] = "ack"
    <3>1. ~Queued(pr[Head(todo[r])]) /\ Head(todo[r]) \in PR
      BY <1>0, <2>3, TodoType DEF Awaited, AckHasTarget
    <3> QED
      BY <1>7, <2>1, <3>1
  <2> QED
    BY <2>1, <2>2, <2>3
<1> QED
  BY <1>6, <1>8

LEMMA VersionRestart ==
  ASSUME VersionInv, NEW m \in Replica, Restart(m)
  PROVE  Versions' /\ Awaited'
<1> USE DEF envVars
<1>0. TypeOK /\ Created /\ Known /\ Planned /\ Awaited
  BY DEF VersionInv, Versions
<1>1. UNCHANGED <<pr, creates, clock>>
  BY DEF Restart
<1>2. \A r \in Replica :
        \/ /\ cache'[r] = cache[r] /\ listed'[r] = listed[r] /\ stream'[r] = stream[r]
           /\ todo'[r] = todo[r] /\ pc'[r] = pc[r]
        \/ /\ cache'[r] = Nothing /\ listed'[r] = Nothing /\ stream'[r] = <<>>
           /\ todo'[r] = <<>> /\ pc'[r] = "idle"
  BY <1>0 DEF Restart, TypeOK
<1>3. Created' /\ Awaited'
  BY <1>0, <1>1, <1>2 DEF Created, Awaited, Used
<1>4. Planned'
  BY <1>0, <1>1, <1>2 DEF Planned, Used
<1>5. Known'
  <2> SUFFICES ASSUME NEW r \in Replica, NEW k \in PR
               PROVE  /\ Version(k, cache'[r][k]) /\ Version(k, listed'[r][k])
                      /\ \A i \in DOMAIN stream'[r] : stream'[r][i].key = k =>
                           /\ Version(k, stream'[r][i].obj)
                           /\ stream'[r][i].obj = Absent => Used(k) /\ pr[k] = Absent
    BY <1>1 DEF Known, Version, Used, SameRun
  <2>1. Version(k, Absent)
    BY DEF Version
  <2> QED
    BY <1>0, <1>2, <2>1 DEF Known, Nothing
<1> QED
  BY <1>3, <1>4, <1>5 DEF Versions

LEMMA VersionStep ==
  ASSUME NamesOnce
  PROVE  VersionInv /\ [Next]_vars => VersionInv'
<1> SUFFICES ASSUME VersionInv, [Next]_vars PROVE Versions' /\ Awaited'
  BY TypeStep DEF VersionInv
<1> USE DEF envVars, watchVars, cycleVars
<1>0. TypeOK /\ Versions /\ AckHasTarget /\ Awaited
  BY DEF VersionInv
<1>1. ASSUME NEW r \in Replica, BecomeLeader(r) \/ StepDown(r) \/ StartCycle(r)
      PROVE  UNCHANGED <<pr, creates, clock, cache, listed, stream, todo>>
             /\ \A s \in Replica : pc'[s] = "ack" => pc[s] = "ack"
  BY <1>0, <1>1 DEF BecomeLeader, StepDown, StartCycle, TypeOK
<1>2. ASSUME UNCHANGED vars \/ \E n \in Limits : SetLimit(n)
      PROVE  UNCHANGED <<pr, creates, clock, cache, listed, stream, todo>>
             /\ \A s \in Replica : pc'[s] = "ack" => pc[s] = "ack"
  BY <1>2 DEF vars, SetLimit
<1>3. ASSUME UNCHANGED <<pr, creates, clock, cache, listed, stream, todo>>,
             \A s \in Replica : pc'[s] = "ack" => pc[s] = "ack"
      PROVE  Versions' /\ Awaited'
  BY <1>0, <1>3 DEF Versions, Created, Known, Planned, Awaited, Version, Used, SameRun
<1>4. ASSUME Tick PROVE Versions' /\ Awaited'
  <2>1. UNCHANGED <<pr, creates, cache, listed, stream, todo, pc>> /\ clock' = clock + 1
    BY <1>4 DEF Tick
  <2>2. Known' /\ Planned' /\ Awaited'
    BY <1>0, <2>1 DEF Versions, Known, Planned, Awaited, Version, Used, SameRun
  <2>3. Created'
    <3>1. ASSUME NEW k \in PR, pr[k] # Absent PROVE pr[k].born <= clock'
      <4>1. pr[k].born <= clock /\ clock \in Int /\ pr[k].born \in Int
        BY <1>0, <3>1 DEF TypeOK, Store, Object, Versions, Created
      <4> QED
        BY <2>1, <4>1
    <3> QED
      BY <1>0, <2>1, <3>1 DEF Versions, Created, Used
  <2> QED
    BY <2>2, <2>3 DEF Versions
<1>5. ASSUME NEW r \in Replica, Watcher(r) \/ Restart(r) PROVE Versions' /\ Awaited'
  BY <1>5, VersionWatcher, VersionRestart
<1>6. ASSUME NEW r \in Replica, Ack(r) \/ PatchApplied(r) \/ PatchReplyLost(r)
      PROVE  Versions' /\ Awaited'
  BY <1>6, VersionAck, VersionPatch
<1>7. ASSUME NEW r \in Replica, ReadQueue(r) PROVE Versions' /\ Awaited'
  <2>1. UNCHANGED <<pr, creates, clock, cache, listed, stream>>
    BY <1>7 DEF ReadQueue
  <2>2. Created' /\ Known'
    BY <1>0, <2>1 DEF Versions, Created, Known, Version, Used, SameRun
  <2>3. Awaited'
    BY <1>0, <1>7, <2>1 DEF ReadQueue, Awaited, TypeOK
  <2> QED
    BY <1>0, <1>7, <2>2, <2>3, ReadQueuePlanned DEF Versions
<1>8. ASSUME NEW r \in Replica, PatchFailed(r) \/ EndCycle(r) PROVE Versions' /\ Awaited'
  <2>1. UNCHANGED <<pr, creates, clock, cache, listed, stream>>
    BY <1>8 DEF PatchFailed, EndCycle
  <2>2. Created' /\ Known'
    BY <1>0, <2>1 DEF Versions, Created, Known, Version, Used, SameRun
  <2>3. Awaited'
    BY <1>0, <1>8, <2>1
    DEF PatchFailed, EndCycle, DropTarget, NextTarget, Awaited, TypeOK
  <2>4. \A s \in Replica : \/ todo'[s] = todo[s] \/ todo'[s] = <<>>
                           \/ todo[s] # <<>> /\ todo'[s] = Tail(todo[s])
    BY <1>0, <1>8 DEF PatchFailed, EndCycle, DropTarget, NextTarget, TypeOK
  <2>5. Planned'
    <3> SUFFICES ASSUME NEW s \in Replica, NEW i \in DOMAIN todo'[s]
                 PROVE  \E g \in DOMAIN todo[s] : todo'[s][i] = todo[s][g]
      BY <1>0, <2>1 DEF Versions, Planned, Used
    <3>1. CASE todo[s] # <<>> /\ todo'[s] = Tail(todo[s])
      <4>1. todo[s] \in Seq(PR)
        BY <1>0 DEF TypeOK
      <4>2. i + 1 \in DOMAIN todo[s] /\ todo'[s][i] = todo[s][i + 1]
        BY <3>1, <4>1, TailShift
      <4> QED
        BY <4>2
    <3> QED
      BY <2>4, <3>1
  <2> QED
    BY <2>2, <2>3, <2>5 DEF Versions
<1>9. ASSUME NEW k \in PR, User(k) PROVE Versions' /\ Awaited'
  <2>1. CASE \E src \in Sources, tier \in Tiers, r \in Replica : Create(k, src, tier, r)
    BY <1>0, <2>1, CreateStep, AwaitedCreate
  <2>2. CASE \E o \in Object \cup {Absent} : Update(k, o) /\ Evolves(k, o)
    <3>1. PICK o \in Object \cup {Absent} : Update(k, o) /\ Evolves(k, o)
      BY <2>2
    <3>2. Write(k, o) /\ UNCHANGED <<creates, clock, watch, listed, cache, pc, todo>>
      BY <3>1 DEF Update, localVars
    <3>3. Versions'
      BY <1>0, <3>1, <3>2, EvolveStep
    <3> QED
      BY <3>1, <3>2, <3>3, AwaitedUpdate
  <2> QED
    BY <1>0, <1>9, <2>1, <2>2, UserWrites
<1> QED
  BY <1>1, <1>2, <1>3, <1>4, <1>5, <1>6, <1>7, <1>8, <1>9 DEF Next, Manager

LEMMA VersionInit == Init => VersionInv
<1> SUFFICES ASSUME Init PROVE VersionInv
  OBVIOUS
<1>1. TypeOK /\ AckHasTarget
  BY TypeInit
<1>2. Created /\ Known /\ Planned /\ Awaited
  BY DEF Init, Nothing, Created, Used, Known, Version, Planned, Awaited
<1> QED
  BY <1>1, <1>2 DEF VersionInv, Versions

\* Whatever is late, lost, repeated, refused or restarted, and however many
\* replicas lead: what a cache, a list response or an event says of a run is
\* the run as it is or as it was after its start, and what a cycle is about to
\* start was queued (watcher.py 25-68, cache.py 50-62, manager.py 149-180).
THEOREM VersionInvariant ==
  ASSUME NamesOnce
  PROVE  Spec => []VersionInv
<1>1. VersionInv /\ [Next]_vars => VersionInv'
  BY VersionStep
<1> QED
  BY <1>1, VersionInit, PTL DEF Spec

\* Who changes the store: a manager's patch, or a user.
LEMMA StoreChange ==
  ASSUME [Next]_vars, pr' # pr
  PROVE  \/ \E r \in Replica : PatchApplied(r) \/ PatchReplyLost(r)
         \/ \E k \in PR : User(k)
<1> USE DEF envVars
<1>1. ASSUME NEW r \in Replica, BecomeLeader(r) \/ StepDown(r) \/ Restart(r) \/ Watcher(r)
      PROVE  pr' = pr
  BY <1>1 DEF BecomeLeader, StepDown, Restart, Watcher, WatchList, ReplaceCache, Deliver,
              Expire
<1>2. ASSUME NEW r \in Replica,
             StartCycle(r) \/ ReadQueue(r) \/ Ack(r) \/ PatchFailed(r) \/ EndCycle(r)
      PROVE  pr' = pr
  BY <1>2 DEF StartCycle, ReadQueue, Ack, AckDone, PatchFailed, EndCycle
<1>3. ASSUME Tick \/ (\E n \in Limits : SetLimit(n)) \/ UNCHANGED vars PROVE pr' = pr
  BY <1>3 DEF Tick, SetLimit, vars
<1> QED
  BY <1>1, <1>2, <1>3 DEF Next, Manager

\* A manager's patch starts the head of its queue, a run with the label.
LEMMA PatchStarts ==
  ASSUME VersionInv, NEW r \in Replica, PatchApplied(r) \/ PatchReplyLost(r)
  PROVE  \E k \in Target :
           /\ k = Head(todo[r]) /\ k = todo[r][1] /\ 1 \in DOMAIN todo[r]
           /\ Start(k) /\ pr[k] # Absent /\ pr[k].managed /\ pr[k].src = "dashboard"
<1>1. todo[r] \in Seq(PR) /\ todo[r] # <<>> /\ Start(Head(todo[r]))
  BY DEF PatchApplied, PatchReplyLost, NextTarget, VersionInv, TypeOK
<1>2. Head(todo[r]) = todo[r][1] /\ 1 \in DOMAIN todo[r]
  BY <1>1, TailShift
<1>3. PICK k \in Target : k = todo[r][1] /\ (pr[k] # Absent => pr[k].managed)
  BY <1>2 DEF VersionInv, Versions, Planned
<1> QED
  BY <1>1, <1>2, <1>3, TargetInPR DEF Start, VersionInv, Versions, Created

LEMMA HeldStep ==
  ASSUME "release" \notin Env, VersionInv, HeldStaysHeld, [Next]_vars
  PROVE  HeldStaysHeld'
<1> SUFFICES ASSUME NEW k \in Target, pr'[k] # Absent, pr'[k].src = "other"
             PROVE  pr'[k].status # "none"
  BY DEF HeldStaysHeld
<1>0. k \in PR /\ TypeOK
  BY TargetInPR DEF VersionInv
<1>1. CASE pr' = pr
  BY <1>1 DEF HeldStaysHeld
<1>2. ASSUME NEW r \in Replica, PatchApplied(r) \/ PatchReplyLost(r)
      PROVE  pr'[k].status # "none"
  <2>1. PICK h \in Target : Start(h) /\ pr[h] # Absent /\ pr[h].src = "dashboard"
    BY <1>2, PatchStarts
  <2>2. h \in PR /\ pr[h] \in Object
    BY <1>0, <2>1, TargetInPR DEF TypeOK, Store
  <2>3. CASE h = k
    <3>1. pr'[h].src = pr[h].src
      BY <1>0, <2>1, <2>2, StartKeeps DEF SameRun
    <3> QED
      BY <2>1, <2>3, <3>1
  <2>4. CASE h # k
    <3>1. pr'[k] = pr[k]
      BY <1>0, <2>1, <2>2, <2>4, StartKeeps
    <3> QED
      BY <3>1 DEF HeldStaysHeld
  <2> QED
    BY <2>3, <2>4
<1>3. ASSUME NEW p \in PR, User(p) PROVE pr'[k].status # "none"
  <2>1. ASSUME NEW src \in Sources, NEW tier \in Tiers, NEW r \in Replica,
               Create(p, src, tier, r)
        PROVE  pr'[k].status # "none"
    <3>1. pr' = [pr EXCEPT ![p] = Mutate(p, src, tier, synced[r], clock)]
      BY <2>1 DEF Create, Write
    <3>2. CASE k = p
      <4>1. pr'[k] = Mutate(k, src, tier, synced[r], clock)
        BY <1>0, <3>1, <3>2 DEF TypeOK, Store
      <4> QED
        BY <4>1 DEF Mutate
    <3>3. CASE k # p
      BY <1>0, <3>1, <3>3 DEF HeldStaysHeld, TypeOK, Store
    <3> QED
      BY <3>2, <3>3
  <2>2. ASSUME NEW o \in Object \cup {Absent}, Update(p, o), Evolves(p, o),
               o # Absent /\ o.status = "none" => pr[p].status = "none"
        PROVE  pr'[k].status # "none"
    <3>1. /\ pr'[p] = o /\ \A j \in PR : j # p => pr'[j] = pr[j]
      BY <1>0, <2>2, WriteEffect DEF Update
    <3> QED
      BY <1>0, <2>2, <3>1 DEF HeldStaysHeld, Evolves, SameRun
  <2> QED
    BY <1>0, <1>3, <2>1, <2>2, UserWrites
<1> QED
  BY <1>1, <1>2, <1>3, StoreChange

\* A held run stays held (webhook.py 94-101; README 2.1): unless a user releases
\* it, a run of a foreign creator in a target namespace is never started, by no
\* replica, on no stale copy and after no fault, as long as its name is not
\* used again while a cycle of before is under way (HeldRecreated).
THEOREM HeldStaysHeldTheorem ==
  ASSUME NamesOnce, "release" \notin Env
  PROVE  Spec => []HeldStaysHeld
<1>1. Init => HeldStaysHeld
  BY TargetInPR DEF Init, Nothing, HeldStaysHeld
<1>2. VersionInv /\ HeldStaysHeld /\ [Next]_vars => HeldStaysHeld'
  BY HeldStep
<1>3. Spec => []VersionInv
  BY VersionInvariant
<1> QED
  BY <1>1, <1>2, <1>3, PTL DEF Spec

(***************************************************************************)
(* Who knows a run knows the older ones: Told and Causal                   *)
(***************************************************************************)

LEMMA HasEventAppend ==
  ASSUME TypeOK, NEW r \in Replica, NEW e \in Event, stream'[r] = Append(stream[r], e),
         NEW j \in PR, NEW n \in 0..Len(stream[r])
  PROVE  HasEvent(r, j, n)' = HasEvent(r, j, n)
<1>1. stream[r] \in Seq(Event)
  BY DEF TypeOK
<1> QED
  BY <1>1, AppendOne DEF HasEvent

\* Each open watch is told of a write after all that it was told before.
LEMMA WriteOrder ==
  ASSUME TypeOK, Versions, ListDrained, Told, Causal,
         NEW p \in PR, NEW o \in Object \cup {Absent}, Write(p, o),
         UNCHANGED <<watch, listed, cache>>,
         \A j \in PR : Queued(pr'[j]) => j = p \/ Queued(pr[j]),
         \A j, k \in PR : Older(j, k)' =>
           Queued(pr[j]) /\ (Older(j, k) \/ (k = p /\ ~Used(p)))
  PROVE  ListDrained' /\ Told' /\ Causal'
<1> DEFINE e == [key |-> p, obj |-> o]
<1>1. e \in Event /\ e.key = p /\ \A r \in Replica : stream[r] \in Seq(Event)
  BY DEF Event, TypeOK
<1>2. \A r \in Replica : Base(r)' = Base(r)
  BY DEF Base
<1>3. \A r \in Replica : watch[r] = "list" => stream'[r] = stream[r]
  BY WriteEffect
<1>4. \A r \in Replica : watch[r] # "list" => stream'[r] = Append(stream[r], e)
  BY WriteEffect
<1> HIDE DEF e
<1>5. ListDrained'
  BY <1>3 DEF ListDrained
<1>6. Told'
  <2> SUFFICES ASSUME NEW r \in Replica, NEW j \in PR, watch[r] # "list", Queued(pr'[j])
               PROVE  Base(r)[j] # Absent \/ HasEvent(r, j, Len(stream[r]))'
    BY <1>2 DEF Told
  <2>1. /\ Len(stream'[r]) = Len(stream[r]) + 1 /\ Len(stream[r]) \in Nat
        /\ stream'[r][Len(stream[r]) + 1] = e
        /\ \A i \in 1..Len(stream[r]) : stream'[r][i] = stream[r][i]
    BY <1>1, <1>4, AppendOne
  <2>2. CASE j = p
    BY <1>1, <2>1, <2>2 DEF HasEvent
  <2>3. CASE Queued(pr[j])
    BY <2>1, <2>3 DEF Told, HasEvent
  <2> QED
    BY <2>2, <2>3
<1>7. Causal'
  <2> SUFFICES ASSUME NEW r \in Replica, NEW j \in PR, NEW k \in PR, Older(j, k)'
               PROVE  /\ cache[r][k] # Absent => cache[r][j] # Absent
                      /\ Base(r)[k] # Absent => Base(r)[j] # Absent
                      /\ \A i \in DOMAIN stream'[r] : stream'[r][i].key = k =>
                           Base(r)[j] # Absent \/ HasEvent(r, j, i - 1)'
    BY <1>2 DEF Causal
  <2>1. Queued(pr[j]) /\ (Older(j, k) \/ (k = p /\ ~Used(p)))
    OBVIOUS
  <2>2. /\ cache[r][k] # Absent => cache[r][j] # Absent
        /\ Base(r)[k] # Absent => Base(r)[j] # Absent
        /\ \A i \in DOMAIN stream[r] : stream[r][i].key = k =>
             Base(r)[j] # Absent \/ HasEvent(r, j, i - 1)
    <3>1. CASE Older(j, k)
      BY <3>1 DEF Causal
    <3>2. CASE k = p /\ ~Used(p)
      BY <3>2, UnusedUnknown DEF Base, Versions
    <3> QED
      BY <2>1, <3>1, <3>2
  <2>3. ASSUME NEW i \in DOMAIN stream'[r], stream'[r][i].key = k
        PROVE  Base(r)[j] # Absent \/ HasEvent(r, j, i - 1)'
    <3>1. CASE watch[r] = "list"
      BY <1>3, <2>2, <2>3, <3>1 DEF HasEvent
    <3>2. CASE watch[r] # "list"
      <4>1. /\ Len(stream[r]) \in Nat /\ DOMAIN stream[r] = 1..Len(stream[r])
            /\ DOMAIN stream'[r] = 1..(Len(stream[r]) + 1)
            /\ \A h \in 1..Len(stream[r]) : stream'[r][h] = stream[r][h]
        BY <1>1, <1>4, <3>2, AppendOne
      <4>2. i - 1 \in 0..Len(stream[r]) /\ HasEvent(r, j, i - 1)' = HasEvent(r, j, i - 1)
        BY <1>1, <1>4, <3>2, <4>1, HasEventAppend
      <4>3. CASE i \in 1..Len(stream[r])
        BY <2>2, <2>3, <4>1, <4>2, <4>3
      <4>4. CASE i = Len(stream[r]) + 1
        <5>1. Base(r)[j] # Absent \/ HasEvent(r, j, Len(stream[r]))
          BY <2>1, <3>2 DEF Told
        <5>2. i - 1 = Len(stream[r])
          BY <4>1, <4>4
        <5> QED
          BY <4>2, <5>1, <5>2
      <4> QED
        BY <4>1, <4>3, <4>4
    <3> QED
      BY <3>1, <3>2
  <2> QED
    BY <2>2, <2>3
<1> QED
  BY <1>5, <1>6, <1>7

\* An event moves what it shows from the stream to the cache.
LEMMA DeliverOrder ==
  ASSUME TypeOK, Versions, ListDrained, Told, Causal, NEW m \in Replica, Deliver(m)
  PROVE  ListDrained' /\ Told' /\ Causal'
<1> USE DEF envVars
<1> DEFINE e == Head(stream[m])
<1>1. /\ UNCHANGED <<pr, watch, listed>> /\ watch[m] = "stream"
      /\ stream[m] \in Seq(Event) /\ stream[m] # <<>> /\ stream'[m] = Tail(stream[m])
      /\ \A r \in Replica : r # m => stream'[r] = stream[r] /\ cache'[r] = cache[r]
  BY DEF Deliver, UpdateCache, TypeOK
<1>2. /\ e = stream[m][1] /\ 1 \in DOMAIN stream[m] /\ e \in Event
      /\ Len(stream[m]) \in Nat /\ Len(stream[m]) >= 1 /\ Len(stream'[m]) = Len(stream[m]) - 1
      /\ DOMAIN stream[m] = 1..Len(stream[m]) /\ DOMAIN stream'[m] = 1..(Len(stream[m]) - 1)
      /\ \A i \in 1..(Len(stream[m]) - 1) : stream'[m][i] = stream[m][i + 1]
  BY <1>1, TailShift
<1>3. /\ e.key \in PR /\ cache'[m][e.key] = e.obj
      /\ \A k \in PR : k # e.key => cache'[m][k] = cache[m][k]
  BY <1>2 DEF Deliver, UpdateCache, TypeOK, Store, Event
<1>4. Base(m) = cache[m] /\ Base(m)' = cache'[m]
  BY <1>1 DEF Base
<1>5. \A j \in PR : Queued(pr[j]) /\ e.key = j => e.obj # Absent
  BY <1>2 DEF Versions, Known, Queued
<1> HIDE DEF e
<1>6. ListDrained'
  BY <1>1 DEF ListDrained
<1>7. ASSUME NEW j \in PR, Queued(pr[j]), NEW n \in 1..Len(stream[m]),
             cache[m][j] # Absent \/ HasEvent(m, j, n)
      PROVE  cache'[m][j] # Absent \/ HasEvent(m, j, n - 1)'
  <2>1. CASE e.key = j
    BY <1>3, <1>5, <1>7, <2>1
  <2>2. CASE e.key # j /\ cache[m][j] # Absent
    BY <1>3, <2>2
  <2>3. CASE e.key # j /\ HasEvent(m, j, n)
    <3>1. PICK i \in 1..n : stream[m][i].key = j
      BY <2>3 DEF HasEvent
    <3>2. i # 1
      BY <1>2, <2>3, <3>1
    <3>3. PICK g \in 1..(n - 1) : i = g + 1 /\ g \in 1..(Len(stream[m]) - 1)
      <4>1. i - 1 \in 1..(n - 1) /\ i = (i - 1) + 1 /\ i - 1 \in 1..(Len(stream[m]) - 1)
        BY <1>2, <3>2
      <4> QED
        BY <4>1
    <3>4. stream'[m][g].key = j
      BY <1>2, <3>1, <3>3
    <3> QED
      BY <3>4 DEF HasEvent
  <2> QED
    BY <1>7, <2>1, <2>2, <2>3
<1>8. Told'
  <2> SUFFICES ASSUME NEW r \in Replica, NEW j \in PR, watch[r] # "list", Queued(pr[j])
               PROVE  Base(r)'[j] # Absent \/ HasEvent(r, j, Len(stream[r]))'
    BY <1>1 DEF Told
  <2>1. Base(r)[j] # Absent \/ HasEvent(r, j, Len(stream[r]))
    BY DEF Told
  <2>2. CASE r = m
    <3>1. PICK n \in 1..Len(stream[m]) : n = Len(stream[m])
      BY <1>2
    <3>2. cache'[m][j] # Absent \/ HasEvent(m, j, n - 1)'
      BY <1>4, <1>7, <2>1, <2>2, <3>1
    <3>3. Len(stream'[m]) = n - 1
      BY <1>2, <3>1
    <3> QED
      BY <1>4, <2>2, <3>2, <3>3 DEF HasEvent
  <2>3. CASE r # m
    BY <1>1, <2>1, <2>3 DEF Base, HasEvent
  <2> QED
    BY <2>2, <2>3
<1>9. Causal'
  <2> SUFFICES ASSUME NEW r \in Replica, NEW j \in PR, NEW k \in PR, Older(j, k)
               PROVE  /\ cache'[r][k] # Absent => cache'[r][j] # Absent
                      /\ Base(r)'[k] # Absent => Base(r)'[j] # Absent
                      /\ \A i \in DOMAIN stream'[r] : stream'[r][i].key = k =>
                           Base(r)'[j] # Absent \/ HasEvent(r, j, i - 1)'
    BY <1>1 DEF Causal, Older
  <2>1. /\ cache[r][k] # Absent => cache[r][j] # Absent
        /\ Base(r)[k] # Absent => Base(r)[j] # Absent
        /\ \A i \in DOMAIN stream[r] : stream[r][i].key = k =>
             Base(r)[j] # Absent \/ HasEvent(r, j, i - 1)
    BY DEF Causal
  <2>2. j # k /\ Queued(pr[j])
    BY DEF Older, TypeOK, Store, Object
  <2>3. CASE r = m
    <3>1. cache'[m][k] # Absent => cache'[m][j] # Absent
      <4>1. CASE e.key = k
        <5>1. Base(m)[j] # Absent \/ HasEvent(m, j, 0)
          BY <1>2, <2>1, <2>3, <4>1
        <5>2. cache[m][j] # Absent
          BY <1>4, <5>1 DEF HasEvent
        <5> QED
          BY <1>3, <2>2, <4>1, <5>2
      <4>2. CASE e.key # k
        BY <1>3, <1>5, <2>1, <2>2, <2>3, <4>2
      <4> QED
        BY <4>1, <4>2
    <3>2. ASSUME NEW i \in DOMAIN stream'[m], stream'[m][i].key = k
          PROVE  cache'[m][j] # Absent \/ HasEvent(m, j, i - 1)'
      <4>1. /\ i \in Int /\ i \in 1..Len(stream[m]) /\ i + 1 \in DOMAIN stream[m]
            /\ stream[m][i + 1].key = k
        BY <1>2, <3>2
      <4>2. Base(m)[j] # Absent \/ HasEvent(m, j, (i + 1) - 1)
        BY <2>1, <2>3, <4>1
      <4>3. (i + 1) - 1 = i
        BY <4>1
      <4>4. cache[m][j] # Absent \/ HasEvent(m, j, i)
        BY <1>4, <4>2, <4>3
      <4> QED
        BY <1>7, <2>2, <4>1, <4>4
    <3> QED
      BY <1>4, <2>3, <3>1, <3>2
  <2>4. CASE r # m
    BY <1>1, <2>1, <2>4 DEF Base, HasEvent
  <2> QED
    BY <2>3, <2>4
<1> QED
  BY <1>6, <1>8, <1>9

\* The other steps of a watcher take over a list or lose a stream.
LEMMA WatcherOrder ==
  ASSUME TypeOK, Versions, ListDrained, Told, Causal, NEW m \in Replica, Watcher(m)
  PROVE  ListDrained' /\ Told' /\ Causal'
<1> USE DEF envVars
<1>1. CASE Deliver(m)
  BY <1>1, DeliverOrder
<1>2. CASE WatchList(m) \/ ReplaceCache(m) \/ Expire(m)
  <2>1. /\ pr' = pr /\ \A r \in Replica : r # m => /\ watch'[r] = watch[r]
                                                   /\ listed'[r] = listed[r]
                                                   /\ cache'[r] = cache[r]
                                                   /\ stream'[r] = stream[r]
    BY <1>2 DEF WatchList, ReplaceCache, Expire, TypeOK
  <2>2. \/ watch'[m] = "list" /\ stream'[m] = <<>> /\ cache'[m] = cache[m]
           /\ Base(m)' = cache[m]
        \/ watch'[m] = "replace" /\ stream'[m] = <<>> /\ cache'[m] = cache[m]
           /\ Base(m)' = pr
        \/ watch'[m] = "stream" /\ watch[m] = "replace" /\ stream'[m] = stream[m]
           /\ cache'[m] = Base(m) /\ Base(m)' = Base(m)
    BY <1>2 DEF WatchList, ReplaceCache, Expire, TypeOK, ListDrained, Base
  <2>3. ListDrained'
    BY <2>1, <2>2 DEF ListDrained
  <2>4. Told'
    <3> SUFFICES ASSUME NEW r \in Replica, NEW j \in PR, watch'[r] # "list", Queued(pr[j])
                 PROVE  Base(r)'[j] # Absent \/ HasEvent(r, j, Len(stream[r]))'
      BY <2>1 DEF Told
    <3>1. CASE r = m
      BY <2>2, <3>1 DEF Told, HasEvent, Queued
    <3>2. CASE r # m
      BY <2>1, <3>2 DEF Told, Base, HasEvent
    <3> QED
      BY <3>1, <3>2
  <2>5. Causal'
    <3> SUFFICES ASSUME NEW r \in Replica, NEW j \in PR, NEW k \in PR, Older(j, k)
                 PROVE  /\ cache'[r][k] # Absent => cache'[r][j] # Absent
                        /\ Base(r)'[k] # Absent => Base(r)'[j] # Absent
                        /\ \A i \in DOMAIN stream'[r] : stream'[r][i].key = k =>
                             Base(r)'[j] # Absent \/ HasEvent(r, j, i - 1)'
      BY <2>1 DEF Causal, Older
    <3>1. /\ cache[r][k] # Absent => cache[r][j] # Absent
          /\ Base(r)[k] # Absent => Base(r)[j] # Absent
          /\ \A i \in DOMAIN stream[r] : stream[r][i].key = k =>
               Base(r)[j] # Absent \/ HasEvent(r, j, i - 1)
          /\ pr[j] # Absent
      BY DEF Causal, Older, Queued
    <3>2. CASE r = m
      BY <2>2, <3>1, <3>2 DEF HasEvent
    <3>3. CASE r # m
      BY <2>1, <3>1, <3>3 DEF Base, HasEvent
    <3> QED
      BY <3>2, <3>3
  <2> QED
    BY <2>3, <2>4, <2>5
<1> QED
  BY <1>1, <1>2 DEF Watcher

\* An ack neither adds a run to the cache nor removes one; a restart forgets all.
LEMMA AckOrder ==
  ASSUME TypeOK, ListDrained, Told, Causal, NEW m \in Replica, Ack(m) \/ Restart(m)
  PROVE  ListDrained' /\ Told' /\ Causal'
<1> USE DEF envVars
<1>1. CASE Ack(m)
  <2>1. UNCHANGED <<pr, watch, listed, stream>>
    BY <1>1 DEF Ack, AckDone
  <2>2. \A r \in Replica, k \in PR : (cache'[r][k] = Absent) <=> (cache[r][k] = Absent)
    <3> SUFFICES ASSUME NEW r \in Replica, NEW k \in PR, cache'[r][k] # cache[r][k]
                 PROVE  cache'[r][k] # Absent /\ cache[r][k] # Absent
      OBVIOUS
    <3>1. cache[r][k] # Absent /\ cache'[r][k] = [cache[r][k] EXCEPT !.status = "none"]
      BY <1>1 DEF Ack, WriteThrough, TypeOK, Store
    <3>2. cache[r][k] \in Object
      BY <3>1 DEF TypeOK, Store
    <3> QED
      BY <3>1, <3>2, ObjectUpdate, PipelineRunAssumption DEF PipelineRunAssumption, Status
  <2>3. \A r \in Replica, k \in PR : (Base(r)'[k] = Absent) <=> (Base(r)[k] = Absent)
    BY <2>1, <2>2 DEF Base
  <2> QED
    BY <2>1, <2>2, <2>3 DEF ListDrained, Told, Causal, HasEvent, Older
<1>2. CASE Restart(m)
  <2>1. /\ pr' = pr /\ \A r \in Replica : r # m => /\ watch'[r] = watch[r]
                                                   /\ listed'[r] = listed[r]
                                                   /\ cache'[r] = cache[r]
                                                   /\ stream'[r] = stream[r]
    BY <1>2 DEF Restart, TypeOK
  <2>2. watch'[m] = "list" /\ stream'[m] = <<>> /\ cache'[m] = Nothing /\ Base(m)' = Nothing
    BY <1>2 DEF Restart, TypeOK, Base
  <2>3. ListDrained' /\ Told'
    BY <2>1, <2>2 DEF ListDrained, Told, Base, HasEvent
  <2>4. Causal'
    BY <2>1, <2>2 DEF Causal, Older, Base, HasEvent, Nothing
  <2> QED
    BY <2>3, <2>4
<1> QED
  BY <1>1, <1>2

(***************************************************************************)
(* The order of a cycle's targets: InOrder                                 *)
(***************************************************************************)

\* A queue order lists every waiting run, and nobody before one it comes after.
LEMMA QueueOrdersComplete ==
  ASSUME NEW store, NEW ahd, NEW now, NEW q \in QueueOrders(store, ahd, now)
  PROVE  /\ \A i \in DOMAIN q : q[i] \in Waiting(store)
         /\ \A k \in Waiting(store) : \E i \in DOMAIN q : q[i] = k
         /\ \A i, j \in DOMAIN q : i < j => ~Before(store[q[j]], store[q[i]], now)
         /\ \E n \in Nat : DOMAIN q = 1..n
<1> DEFINE W == Waiting(store)
           n == Cardinality(W)
<1>1. IsFiniteSet(W) /\ n \in Nat
  BY FS_Subset, FS_CardinalityType, PipelineRunAssumption DEF PipelineRunAssumption, Waiting
<1>2. /\ q \in [1..n -> W] /\ \A i, j \in 1..n : i # j => q[i] # q[j]
      /\ \A i, j \in DOMAIN q : i < j => ~Before(store[q[j]], store[q[i]], now)
  BY DEF QueueOrders, SetToSeqs
<1> HIDE DEF W
<1>3. Cardinality(1..n) = n
  BY <1>1, FS_Interval
<1>4. q \in Injection(1..n, W)
  BY <1>2 DEF Injection, IsInjective
<1>5. q \in Surjection(1..n, W)
  BY <1>1, <1>3, <1>4, FS_Injection
<1>6. \A k \in W : \E i \in 1..n : q[i] = k
  BY <1>5 DEF Surjection
<1> QED
  BY <1>1, <1>2, <1>6 DEF W

\* A queue order has an older run before a younger one that may not pass it.
LEMMA NoPassing ==
  ASSUME NEW a \in Object, NEW b \in Object, NEW now \in Int,
         a.born < b.born, b.born <= now, ~MayPass(b, a)
  PROVE  Before(a, b, now)
<1> DEFINE Eff(o) == EffTier(o.tier, now - o.born, AgingInterval, AgingMinTier)
<1>1. /\ a.tier \in Int /\ b.tier \in Int /\ a.born \in Int /\ b.born \in Int
      /\ AgingInterval \in Int /\ AgingMinTier \in Int
  <2>1. AgingInterval \in Int /\ AgingMinTier \in Int
    BY PipelineRunAssumption DEF PipelineRunAssumption
  <2> QED
    BY <2>1, ObjectNumbers
<1>2. now - a.born \in Int /\ now - b.born \in Int /\ now - a.born >= now - b.born
  BY <1>1
<1>3. Eff(a) <= Eff(b)
  <2>1. CASE a.tier <= b.tier
    BY <1>1, <1>2, <2>1, OlderStaysAhead
  <2>2. CASE ~(a.tier <= b.tier)
    <3> DEFINE full == (a.tier - AgingMinTier) * AgingInterval
    <3>1. full \in Int
      BY <1>1
    <3>2. AgingInterval > 0 /\ b.tier >= AgingMinTier /\ ~(b.born - a.born < full)
      BY <1>1, <2>2 DEF MayPass
    <3>3. now - a.born >= full
      <4> HIDE DEF full
      <4> QED
        BY <1>1, <3>1, <3>2
    <3> QED
      BY <1>1, <1>2, <3>2, <3>3, AgedStaysAhead
  <2> QED
    BY <2>1, <2>2
<1>4. Eff(a) \in Int /\ Eff(b) \in Int
  BY <1>1, <1>2, EffTierBounds
<1>5. Eff(a) < Eff(b) \/ (Eff(a) = Eff(b) /\ a.born < b.born)
  BY <1>3, <1>4
<1> QED
  BY <1>5 DEF Before

\* What a cycle reads: a cached run that waits is as it is cached, and the order
\* keeps the older ones in front that may not be passed.
LEMMA ReadInOrder ==
  ASSUME OrderInv, NEW m \in Replica, ReadQueue(m)
  PROVE  InOrder'
<1> USE DEF envVars
<1>0. TypeOK /\ Created /\ Known /\ Causal /\ InOrder
  BY DEF OrderInv, VersionInv, Versions
<1>1. PICK q \in QueueOrders(cache[m], ahead[m], clock) : todo' = [todo EXCEPT ![m] = q]
  BY DEF ReadQueue
<1>2. pr' = pr
  BY DEF ReadQueue
<1>3. ASSUME NEW i \in DOMAIN q, NEW j \in Target, Older(j, q[i]), ~MayPass(pr[q[i]], pr[j])
      PROVE  \E h \in 1..(i - 1) : q[h] = j
  <2>1. q[i] \in Waiting(cache[m])
    BY QueueOrdersComplete
  <2>2. PICK k \in Target : k = q[i] /\ Queued(cache[m][k])
    BY <2>1 DEF Waiting
  <2>3. j \in PR /\ k \in PR
    BY TargetInPR
  <2>4. cache[m][k] # Absent /\ Older(j, k)
    BY <1>3, <2>2 DEF Queued
  <2>5. pr[k] # Absent /\ SameRun(cache[m][k], pr[k])
    BY <1>0, <2>3, <2>4 DEF Known, Version, Older
  <2>6. cache[m][j] # Absent
    BY <1>0, <2>3, <2>4 DEF Causal
  <2>7. Queued(pr[j]) /\ cache[m][j] = pr[j]
    BY <1>0, <2>3, <2>4, <2>6 DEF Known, Version, Older, Queued
  <2>8. PICK h \in DOMAIN q : q[h] = j
    BY <2>7, QueueOrdersComplete DEF Waiting
  <2>9. /\ cache[m][j] \in Object /\ cache[m][k] \in Object
        /\ cache[m][j].born < cache[m][k].born /\ cache[m][k].born <= clock
        /\ ~MayPass(cache[m][k], cache[m][j])
    <3>1. cache[m][j] \in Object /\ cache[m][k] \in Object
      BY <1>0, <2>3, <2>4, <2>6 DEF TypeOK, Store
    <3>2. pr[j].born < pr[k].born /\ ~MayPass(pr[k], pr[j]) /\ pr[k].born <= clock
      BY <1>0, <1>3, <2>2, <2>3, <2>4, <2>5 DEF Older, Created
    <3> QED
      BY <2>5, <2>7, <3>1, <3>2 DEF SameRun, MayPass
  <2>10. Before(cache[m][j], cache[m][k], clock)
    <3>1. clock \in Int
      BY <1>0 DEF TypeOK
    <3> QED
      BY <2>9, <3>1, NoPassing
  <2>11. h # i /\ ~(i < h)
    BY <2>2, <2>8, <2>9, <2>10, QueueOrdersComplete DEF Object
  <2>12. h \in Nat /\ i \in Nat /\ h >= 1
    BY QueueOrdersComplete
  <2> QED
    BY <2>8, <2>11, <2>12
<1> QED
  <2> SUFFICES ASSUME NEW r \in Replica, NEW i \in DOMAIN todo'[r], NEW j \in Target,
                      Older(j, todo'[r][i]), ~MayPass(pr[todo'[r][i]], pr[j])
               PROVE  \E h \in 1..(i - 1) : todo'[r][h] = j
    BY <1>2 DEF InOrder, Older, MayPass
  <2>1. CASE r = m
    <3>1. todo'[r] = q
      BY <1>0, <1>1, <2>1 DEF TypeOK
    <3> QED
      BY <1>3, <3>1
  <2>2. CASE r # m
    <3>1. todo'[r] = todo[r]
      BY <1>0, <1>1, <2>2 DEF TypeOK
    <3> QED
      BY <1>0, <3>1 DEF InOrder
  <2> QED
    BY <2>1, <2>2

\* Every other step leaves the targets, or drops one that does not wait.
LEMMA DropInOrder ==
  ASSUME TypeOK, Planned, InOrder,
         \A j, k \in PR : Older(j, k)' /\ Used(k) =>
           Older(j, k) /\ SameRun(pr'[j], pr[j]) /\ SameRun(pr'[k], pr[k]),
         \A r \in Replica :
           \/ todo'[r] = todo[r] \/ todo'[r] = <<>>
           \/ /\ todo[r] # <<>> /\ todo'[r] = Tail(todo[r])
              /\ ~Queued(pr'[Head(todo[r])])
  PROVE  InOrder'
<1> SUFFICES ASSUME NEW r \in Replica, NEW i \in DOMAIN todo'[r], NEW j \in Target,
                    NEW k \in PR, k = todo'[r][i], Older(j, k)', ~MayPass(pr'[k], pr'[j])
             PROVE  \E h \in 1..(i - 1) : todo'[r][h] = j
  <2>1. ASSUME NEW r \in Replica, NEW i \in DOMAIN todo'[r] PROVE todo'[r][i] \in PR
    <3>1. todo[r] \in Seq(PR)
      BY DEF TypeOK
    <3>2. CASE todo[r] # <<>> /\ todo'[r] = Tail(todo[r])
      <4>1. Tail(todo[r]) \in Seq(PR)
        BY <3>1, <3>2, TailShift
      <4> QED
        BY <2>1, <3>2, <4>1
    <3> QED
      BY <2>1, <3>1, <3>2
  <2> QED
    BY <2>1 DEF InOrder, Older, MayPass
<1>0. todo[r] \in Seq(PR) /\ j \in PR
  BY TargetInPR DEF TypeOK
<1>1. CASE todo'[r] = todo[r]
  <2>1. Used(k)
    BY <1>1 DEF Planned
  <2>2. Older(j, k) /\ ~MayPass(pr[k], pr[j])
    BY <1>0, <2>1 DEF SameRun, MayPass
  <2> QED
    BY <1>1, <2>2 DEF InOrder
<1>2. CASE todo[r] # <<>> /\ todo'[r] = Tail(todo[r]) /\ ~Queued(pr'[Head(todo[r])])
  <2>1. /\ i \in Nat /\ i + 1 \in DOMAIN todo[r] /\ k = todo[r][i + 1]
        /\ Head(todo[r]) = todo[r][1] /\ i <= Len(todo[r]) - 1 /\ Len(todo[r]) \in Nat
    BY <1>0, <1>2, TailShift
  <2>2. Used(k)
    BY <2>1 DEF Planned
  <2>3. Older(j, k) /\ ~MayPass(pr[k], pr[j])
    BY <1>0, <2>2 DEF SameRun, MayPass
  <2>4. PICK h \in 1..((i + 1) - 1) : todo[r][h] = j
    BY <2>1, <2>3 DEF InOrder
  <2>5. h # 1
    BY <1>2, <2>1, <2>4 DEF Older
  <2>6. PICK g \in 1..(i - 1) : h = g + 1
    <3>1. h - 1 \in 1..(i - 1) /\ h = (h - 1) + 1
      BY <2>1, <2>4, <2>5
    <3> QED
      BY <3>1
  <2>7. g \in 1..(Len(todo[r]) - 1)
    BY <2>1, <2>6
  <2>8. todo'[r][g] = j
    BY <1>0, <1>2, <2>4, <2>6, <2>7, TailShift
  <2> QED
    BY <2>6, <2>8
<1> QED
  BY <1>1, <1>2

\* What an update of a run, or a new run, can make of Older.
LEMMA OlderWrite ==
  ASSUME TypeOK, NEW p \in PR, NEW o \in Object \cup {Absent}, Write(p, o), Evolves(p, o),
         NEW j \in PR, NEW k \in PR, Older(j, k)'
  PROVE  Older(j, k) /\ SameRun(pr'[j], pr[j]) /\ SameRun(pr'[k], pr[k])
<1>1. pr'[j] = pr[j]
  BY EvolveQueued DEF Older
<1>2. pr[k] # Absent /\ SameRun(pr'[k], pr[k])
  BY WriteEffect DEF Evolves, Older, SameRun
<1> QED
  BY <1>1, <1>2 DEF Older, SameRun

LEMMA OlderCreate ==
  ASSUME TypeOK, Versions, NEW p \in PR, NEW o \in Object, Write(p, o), pr[p] = Absent,
         o.born = clock, NEW j \in PR, NEW k \in PR, Older(j, k)'
  PROVE  /\ j # p /\ pr'[j] = pr[j]
         /\ k # p => Older(j, k) /\ pr'[k] = pr[k]
<1>1. /\ pr'[p] = o /\ \A i \in PR : i # p => pr'[i] = pr[i]
  BY WriteEffect
<1>2. pr'[j] \in Object /\ pr'[k] \in Object /\ clock \in Int
  <2>1. pr'[j] # Absent /\ pr'[k] # Absent
    BY DEF Older, Queued
  <2>2. \A i \in PR : pr[i] \in Object \cup {Absent}
    BY DEF TypeOK, Store
  <2>3. clock \in Int
    BY DEF TypeOK
  <2> QED
    BY <1>1, <2>1, <2>2, <2>3
<1>3. pr'[k].born <= clock
  <2>1. CASE k = p
    BY <1>1, <1>2, <2>1
  <2>2. CASE k # p
    BY <1>1, <2>2 DEF Versions, Created, Older
  <2> QED
    BY <2>1, <2>2
<1>4. pr'[j].born \in Int /\ pr'[k].born \in Int
  BY <1>2, ObjectNumbers
<1>5. pr'[j].born < clock
  BY <1>2, <1>3, <1>4 DEF Older
<1>6. j # p
  BY <1>1, <1>2, <1>5
<1> QED
  BY <1>1, <1>6 DEF Older

OrderParts == ListDrained /\ Told /\ Causal /\ InOrder

LEMMA UpdateOrder ==
  ASSUME OrderInv, NEW p \in PR, NEW o \in Object \cup {Absent}, Write(p, o), Evolves(p, o),
         UNCHANGED <<watch, listed, cache>>,
         \A r \in Replica :
           \/ todo'[r] = todo[r]
           \/ /\ todo[r] # <<>> /\ todo'[r] = Tail(todo[r])
              /\ ~Queued(pr'[Head(todo[r])])
  PROVE  OrderParts'
<1>0. TypeOK /\ Versions /\ Planned /\ ListDrained /\ Told /\ Causal /\ InOrder
  BY DEF OrderInv, VersionInv, Versions
<1>1. \A j, k \in PR : Older(j, k)' =>
        Older(j, k) /\ SameRun(pr'[j], pr[j]) /\ SameRun(pr'[k], pr[k])
  BY <1>0, OlderWrite
<1>2. \A j \in PR : Queued(pr'[j]) => Queued(pr[j])
  BY <1>0, EvolveQueued
<1>3. ListDrained' /\ Told' /\ Causal'
  <2>1. \A j, k \in PR : Older(j, k)' => Queued(pr[j]) /\ Older(j, k)
    BY <1>1 DEF Older
  <2> QED
    BY <1>0, <1>2, <2>1, WriteOrder
<1>4. InOrder'
  BY <1>0, <1>1, DropInOrder
<1> QED
  BY <1>3, <1>4 DEF OrderParts

LEMMA CreateOrder ==
  ASSUME NamesOnce, OrderInv, NEW p \in PR, NEW src \in Sources, NEW tier \in Tiers,
         NEW s \in Replica, Create(p, src, tier, s)
  PROVE  OrderParts'
<1> DEFINE o == Mutate(p, src, tier, synced[s], clock)
<1> USE DEF localVars, cycleVars
<1>0. TypeOK /\ Versions /\ Planned /\ ListDrained /\ Told /\ Causal /\ InOrder
  BY DEF OrderInv, VersionInv, Versions
<1>1. synced[s] \in BOOLEAN /\ clock \in Nat
  BY <1>0, ControllerAssumption DEF ControllerAssumption, TypeOK
<1>2. o \in Object
  BY <1>1, MutateType
<1>3. o.born = clock
  BY DEF Mutate
<1>4. pr[p] = Absent /\ ~Used(p)
  BY <1>0, CreateUnused DEF Versions
<1>5. Write(p, o) /\ UNCHANGED <<watch, listed, cache, todo>>
  BY DEF Create
<1> HIDE DEF o
<1>6. \A j, k \in PR : Older(j, k)' =>
        j # p /\ pr'[j] = pr[j] /\ (k # p => Older(j, k) /\ pr'[k] = pr[k])
  BY <1>0, <1>2, <1>3, <1>4, <1>5, OlderCreate
<1>7. ListDrained' /\ Told' /\ Causal'
  <2>1. \A j \in PR : Queued(pr'[j]) => j = p \/ Queued(pr[j])
    BY <1>0, <1>2, <1>5, WriteEffect
  <2>2. \A j, k \in PR : Older(j, k)' =>
          Queued(pr[j]) /\ (Older(j, k) \/ (k = p /\ ~Used(p)))
    BY <1>4, <1>6 DEF Older
  <2> QED
    BY <1>0, <1>2, <1>5, <2>1, <2>2, WriteOrder
<1>8. InOrder'
  <2>1. \A j, k \in PR : Older(j, k)' /\ Used(k) =>
          Older(j, k) /\ SameRun(pr'[j], pr[j]) /\ SameRun(pr'[k], pr[k])
    BY <1>4, <1>6 DEF SameRun
  <2> QED
    BY <1>0, <1>5, <2>1, DropInOrder
<1> QED
  BY <1>7, <1>8 DEF OrderParts

LEMMA PatchOrder ==
  ASSUME OrderInv, NEW m \in Replica, PatchApplied(m) \/ PatchReplyLost(m)
  PROVE  OrderParts'
<1> USE DEF cycleVars
<1>0. TypeOK /\ Versions /\ Planned /\ ListDrained /\ Told /\ Causal /\ InOrder /\ VersionInv
  BY DEF OrderInv, VersionInv, Versions
<1>1. PICK k \in PR : k = Head(todo[m]) /\ Start(k)
  BY <1>0, PatchStarts, TargetInPR
<1>2. ~Queued(pr'[k])
  BY <1>0, <1>1, StartWrites
<1>3. UNCHANGED <<watch, listed, cache>>
  BY DEF PatchApplied, PatchReplyLost
<1>4. \A r \in Replica :
        \/ todo'[r] = todo[r]
        \/ todo[r] # <<>> /\ todo'[r] = Tail(todo[r]) /\ ~Queued(pr'[Head(todo[r])])
  BY <1>0, <1>1, <1>2 DEF PatchApplied, PatchReplyLost, NextTarget, DropTarget, TypeOK
<1>5. CASE UNCHANGED <<pr, stream>>
  <2>1. ListDrained' /\ Told' /\ Causal'
    BY <1>0, <1>3, <1>5 DEF ListDrained, Told, Causal, Base, HasEvent, Older
  <2>2. InOrder'
    <3>1. \A j, k1 \in PR : Older(j, k1)' => Older(j, k1)
      BY <1>5 DEF Older
    <3> QED
      BY <1>0, <1>4, <1>5, <3>1, DropInOrder DEF SameRun
  <2> QED
    BY <2>1, <2>2 DEF OrderParts
<1>6. CASE \E o \in Object : Write(k, o) /\ Evolves(k, o)
  BY <1>3, <1>4, <1>6, UpdateOrder
<1> QED
  BY <1>0, <1>1, <1>5, <1>6, StartWrites

\* Steps that touch neither the store, nor the caches, nor the streams.
LEMMA QuietOrder ==
  ASSUME OrderInv, UNCHANGED <<pr, watch, listed, cache, stream>>,
         \A r \in Replica :
           \/ todo'[r] = todo[r] \/ todo'[r] = <<>>
           \/ /\ todo[r] # <<>> /\ todo'[r] = Tail(todo[r])
              /\ ~Queued(pr[Head(todo[r])])
  PROVE  OrderParts'
<1>0. TypeOK /\ Planned /\ ListDrained /\ Told /\ Causal /\ InOrder
  BY DEF OrderInv, VersionInv, Versions
<1>1. ListDrained' /\ Told' /\ Causal'
  BY <1>0 DEF ListDrained, Told, Causal, Base, HasEvent, Older
<1>2. \A j, k \in PR : Older(j, k)' => Older(j, k)
  BY DEF Older
<1>3. InOrder'
  BY <1>0, <1>2, DropInOrder DEF SameRun
<1> QED
  BY <1>1, <1>3 DEF OrderParts

LEMMA OrderStep ==
  ASSUME NamesOnce, "api_error" \notin Env
  PROVE  OrderInv /\ [Next]_vars => OrderInv'
<1> SUFFICES ASSUME OrderInv, [Next]_vars PROVE OrderParts'
  BY VersionStep DEF OrderInv, OrderParts
<1> USE DEF envVars, watchVars, cycleVars
<1>0. /\ TypeOK /\ AckHasTarget /\ Versions /\ Awaited
      /\ ListDrained /\ Told /\ Causal /\ InOrder /\ Planned
  BY DEF OrderInv, VersionInv, Versions
<1>1. ASSUME NEW r \in Replica, BecomeLeader(r) \/ StepDown(r) \/ StartCycle(r)
      PROVE  OrderParts'
  BY <1>1, QuietOrder DEF BecomeLeader, StepDown, StartCycle
<1>2. ASSUME Tick \/ (\E n \in Limits : SetLimit(n)) \/ UNCHANGED vars PROVE OrderParts'
  BY <1>2, QuietOrder DEF Tick, SetLimit, vars
<1>3. ASSUME NEW r \in Replica, Watcher(r) PROVE OrderParts'
  <2>1. ListDrained' /\ Told' /\ Causal'
    BY <1>0, <1>3, WatcherOrder
  <2>2. UNCHANGED <<pr, todo>>
    BY <1>3 DEF Watcher, WatchList, ReplaceCache, Deliver, Expire
  <2>3. InOrder'
    BY <1>0, <2>2 DEF InOrder, Older
  <2> QED
    BY <2>1, <2>3 DEF OrderParts
<1>4. ASSUME NEW r \in Replica, Ack(r) \/ Restart(r) PROVE OrderParts'
  <2>1. ListDrained' /\ Told' /\ Causal'
    BY <1>0, <1>4, AckOrder
  <2>2. pr' = pr
    BY <1>4 DEF Ack, AckDone, Restart
  <2>3. \A s \in Replica :
          \/ todo'[s] = todo[s] \/ todo'[s] = <<>>
          \/ todo[s] # <<>> /\ todo'[s] = Tail(todo[s]) /\ ~Queued(pr[Head(todo[s])])
    BY <1>0, <1>4
    DEF Ack, AckDone, DropTarget, Restart, Awaited, AckHasTarget, TypeOK
  <2>4. \A j, k \in PR : Older(j, k)' => Older(j, k)
    BY <2>2 DEF Older
  <2>5. InOrder'
    BY <1>0, <2>2, <2>3, <2>4, DropInOrder DEF SameRun
  <2> QED
    BY <2>1, <2>5 DEF OrderParts
<1>5. ASSUME NEW r \in Replica, ReadQueue(r) PROVE OrderParts'
  <2>1. UNCHANGED <<pr, watch, listed, cache, stream>>
    BY <1>5 DEF ReadQueue
  <2>2. ListDrained' /\ Told' /\ Causal'
    BY <1>0, <2>1 DEF ListDrained, Told, Causal, Base, HasEvent, Older
  <2> QED
    BY <1>5, <2>2, ReadInOrder DEF OrderParts
<1>6. ASSUME NEW r \in Replica, PatchApplied(r) \/ PatchReplyLost(r) PROVE OrderParts'
  BY <1>6, PatchOrder
<1>7. ASSUME NEW r \in Replica, PatchFailed(r) PROVE OrderParts'
  <2>1. UNCHANGED <<pr, watch, listed, cache, stream>>
    BY <1>7 DEF PatchFailed
  <2>2. pr[Head(todo[r])] = Absent /\ todo[r] # <<>>
    BY <1>7 DEF PatchFailed, NextTarget
  <2>3. ~Queued(pr[Head(todo[r])])
    BY <2>2 DEF Queued
  <2>4. \A s \in Replica :
          \/ todo'[s] = todo[s]
          \/ todo[s] # <<>> /\ todo'[s] = Tail(todo[s]) /\ ~Queued(pr[Head(todo[s])])
    BY <1>0, <1>7, <2>2, <2>3 DEF PatchFailed, DropTarget, TypeOK
  <2> QED
    BY <2>1, <2>4, QuietOrder
<1>8. ASSUME NEW r \in Replica, EndCycle(r) PROVE OrderParts'
  <2>1. UNCHANGED <<pr, watch, listed, cache, stream>>
    BY <1>8 DEF EndCycle
  <2>2. \A s \in Replica : todo'[s] = todo[s] \/ todo'[s] = <<>>
    BY <1>0, <1>8 DEF EndCycle, TypeOK
  <2> QED
    BY <2>1, <2>2, QuietOrder
<1>9. ASSUME NEW k \in PR, User(k) PROVE OrderParts'
  <2>1. CASE \E src \in Sources, tier \in Tiers, r \in Replica : Create(k, src, tier, r)
    BY <2>1, CreateOrder
  <2>2. CASE \E o \in Object \cup {Absent} : Update(k, o) /\ Evolves(k, o)
    <3>1. PICK o \in Object \cup {Absent} : Update(k, o) /\ Evolves(k, o)
      BY <2>2
    <3>2. Write(k, o) /\ UNCHANGED <<watch, listed, cache, todo>>
      BY <3>1 DEF Update, localVars
    <3> QED
      BY <3>1, <3>2, UpdateOrder
  <2> QED
    BY <1>0, <1>9, <2>1, <2>2, UserWrites
<1> QED
  BY <1>1, <1>2, <1>3, <1>4, <1>5, <1>6, <1>7, <1>8, <1>9 DEF Next, Manager

\* Who knows a run knows those that have waited longer, and plans them first.
THEOREM OrderInvariant ==
  ASSUME NamesOnce, "api_error" \notin Env
  PROVE  Spec => []OrderInv
<1>1. Init => OrderInv
  <2> SUFFICES ASSUME Init PROVE OrderInv
    OBVIOUS
  <2>1. VersionInv
    BY VersionInit
  <2>2. ListDrained /\ Told /\ Causal /\ InOrder
    BY TargetInPR DEF Init, Nothing, ListDrained, Told, Causal, InOrder, Older, Queued
  <2> QED
    BY <2>1, <2>2 DEF OrderInv
<1>2. OrderInv /\ [Next]_vars => OrderInv'
  BY OrderStep
<1> QED
  BY <1>1, <1>2, PTL DEF Spec

\* A user starts no waiting run but by a release.
LEMMA UserStarts ==
  ASSUME "release" \notin Env, VersionInv, NEW p \in PR, User(p), NEW k \in PR, Queued(pr[k])
  PROVE  ~Occupies(pr'[k])
<1>0. TypeOK /\ pr[k] # Absent /\ pr[k].status = "Pending"
  BY DEF VersionInv, Queued
<1>1. ASSUME NEW src \in Sources, NEW tier \in Tiers, NEW r \in Replica, Create(p, src, tier, r)
      PROVE  pr'[k] = pr[k]
  <2>1. pr[p] = Absent /\ pr' = [pr EXCEPT ![p] = Mutate(p, src, tier, synced[r], clock)]
    BY <1>1 DEF Create, Write
  <2> QED
    BY <1>0, <2>1 DEF TypeOK, Store
<1>2. ASSUME NEW o \in Object \cup {Absent}, Update(p, o),
             o # Absent /\ o.status = "none" => pr[p].status = "none"
      PROVE  pr'[k] = Absent \/ pr'[k].status # "none"
  <2>1. /\ pr'[p] = o /\ \A j \in PR : j # p => pr'[j] = pr[j]
    BY <1>0, <1>2, WriteEffect DEF Update
  <2> QED
    BY <1>0, <1>2, <2>1
<1> QED
  BY <1>0, <1>1, <1>2, UserWrites DEF Occupies

\* A run is never overtaken (cache.py 94-108, config.py 140-144; README 2.2): no
\* step starts a run while an older one of the same or of a more urgent tier
\* waits; whatever events are late, lost with an expired watch, seen again after
\* a restart or not yet seen by this replica, and even with two leaders. What it
\* takes is that no patch is refused, since the loop goes on after a refusal, and
\* that no name is used twice.
THEOREM NoOvertakingTheorem ==
  ASSUME NamesOnce, Env \cap {"release", "api_error"} = {}
  PROVE  Spec => NoOvertaking
<1>1. OrderInv /\ [Next]_vars =>
        [\A j, k \in Target :
           /\ Queued(pr[k]) /\ Occupies(pr[k]')
           /\ Queued(pr[j]) /\ pr[j].born < pr[k].born
           => MayPass(pr[k], pr[j])]_vars
  <2> SUFFICES ASSUME OrderInv, [Next]_vars, NEW j \in Target, NEW k \in Target,
                      Queued(pr[k]), Occupies(pr'[k]), Queued(pr[j]),
                      pr[j].born < pr[k].born, ~MayPass(pr[k], pr[j])
               PROVE  FALSE
    OBVIOUS
  <2>0. TypeOK /\ VersionInv /\ InOrder /\ j \in PR /\ k \in PR
    BY TargetInPR DEF OrderInv, VersionInv
  <2>1. Older(j, k)
    BY DEF Older, Queued
  <2>2. pr' # pr
    BY DEF Queued, Occupies
  <2>3. ASSUME NEW r \in Replica, PatchApplied(r) \/ PatchReplyLost(r) PROVE FALSE
    <3>1. PICK h \in Target : h = todo[r][1] /\ 1 \in DOMAIN todo[r] /\ Start(h)
      BY <2>0, <2>3, PatchStarts
    <3>2. h = k
      <4>1. h # k => pr'[k] = pr[k]
        BY <2>0, <3>1, TargetInPR, StartKeeps
      <4> QED
        BY <4>1 DEF Queued, Occupies
    <3>3. Older(j, todo[r][1]) /\ ~MayPass(pr[todo[r][1]], pr[j])
      BY <2>1, <3>1, <3>2
    <3>4. PICK i \in DOMAIN todo[r] : i = 1
      BY <3>1
    <3>5. \E g \in 1..(i - 1) : todo[r][g] = j
      BY <2>0, <3>3, <3>4 DEF InOrder
    <3> QED
      BY <3>4, <3>5
  <2>4. ASSUME NEW p \in PR, User(p) PROVE FALSE
    BY <2>0, <2>4, UserStarts
  <2> QED
    BY <2>2, <2>3, <2>4, StoreChange
<1>2. Spec => []OrderInv
  BY OrderInvariant
<1> QED
  BY <1>1, <1>2, PTL DEF Spec, NoOvertaking

(***************************************************************************)
(* A drained cache is the store: SyncInv                                   *)
(***************************************************************************)

\* Whoever writes, the event of the write is the last one of its run.
LEMMA WriteConverges ==
  ASSUME SyncInv, NEW p \in PR, NEW o \in Object \cup {Absent}, Write(p, o),
         UNCHANGED <<watch, listed, cache>>
  PROVE  ListDrained' /\ \A r \in Replica, k \in PR : watch'[r] # "list" => Converges(r, k)'
<1> DEFINE e == [key |-> p, obj |-> o]
<1>0. TypeOK /\ ListDrained
  BY DEF SyncInv
<1>1. e \in Event /\ e.key = p /\ e.obj = o /\ \A r \in Replica : stream[r] \in Seq(Event)
  BY <1>0 DEF Event, TypeOK
<1>2. /\ pr'[p] = o /\ \A k \in PR : k # p => pr'[k] = pr[k]
      /\ \A r \in Replica : watch[r] = "list" => stream'[r] = stream[r]
      /\ \A r \in Replica : watch[r] # "list" => stream'[r] = Append(stream[r], e)
  BY <1>0, WriteEffect
<1> HIDE DEF e
<1>3. ListDrained'
  BY <1>0, <1>2 DEF ListDrained
<1>4. ASSUME NEW r \in Replica, NEW k \in PR, watch[r] # "list"
      PROVE  Converges(r, k)'
  <2> DEFINE n == Len(stream[r])
  <2>1. /\ Len(stream'[r]) = n + 1 /\ n \in Nat /\ stream'[r][n + 1] = e
        /\ \A i \in 1..n : stream'[r][i] = stream[r][i]
        /\ DOMAIN stream[r] = 1..n /\ DOMAIN stream'[r] = 1..(n + 1)
    BY <1>1, <1>2, <1>4, AppendOne
  <2> HIDE DEF n
  <2>2. CASE k = p
    <3>1. /\ n + 1 \in DOMAIN stream'[r] /\ stream'[r][n + 1].key = k
          /\ stream'[r][n + 1].obj = pr'[k]
          /\ \A h \in ((n + 1) + 1)..Len(stream'[r]) : stream'[r][h].key # k
      BY <1>1, <1>2, <2>1, <2>2
    <3> QED
      BY <3>1 DEF Converges
  <2>3. CASE k # p
    <3>1. Converges(r, k)
      BY <1>4 DEF SyncInv
    <3>2. CASE ~HasEvent(r, k, Len(stream[r])) /\ Mirrors(Base(r)[k], pr[k])
      <4>1. \A i \in 1..(n + 1) : stream'[r][i].key # k
        BY <1>1, <2>1, <2>3, <3>2 DEF HasEvent, n
      <4>2. Mirrors(Base(r)[k], pr[k])'
        BY <1>2, <2>3, <3>2 DEF Mirrors, Base
      <4> QED
        BY <2>1, <4>1, <4>2 DEF Converges, HasEvent
    <3>3. ASSUME NEW i \in DOMAIN stream[r], stream[r][i].key = k, stream[r][i].obj = pr[k],
                 \A h \in (i + 1)..Len(stream[r]) : stream[r][h].key # k
          PROVE  Converges(r, k)'
      <4>1. i \in DOMAIN stream'[r] /\ stream'[r][i].key = k /\ stream'[r][i].obj = pr'[k]
        BY <1>2, <2>1, <2>3, <3>3
      <4>2. ASSUME NEW h \in (i + 1)..Len(stream'[r]) PROVE stream'[r][h].key # k
        <5>1. CASE h = n + 1
          BY <1>1, <2>1, <2>3, <5>1
        <5>2. CASE h # n + 1
          <6>1. h \in 1..n /\ h \in (i + 1)..n
            BY <2>1, <3>3, <5>2
          <6> QED
            BY <2>1, <3>3, <6>1 DEF n
        <5> QED
          BY <5>1, <5>2
      <4> QED
        BY <4>1, <4>2 DEF Converges
    <3> QED
      BY <3>1, <3>2, <3>3 DEF Converges
  <2> QED
    BY <2>2, <2>3
<1> QED
  BY <1>3, <1>4

\* A delivered event takes the cache one event nearer.
LEMMA DeliverConverges ==
  ASSUME SyncInv, NEW m \in Replica, Deliver(m), NEW k \in PR
  PROVE  Converges(m, k)'
<1> USE DEF envVars
<1> DEFINE e == Head(stream[m])
<1>0. TypeOK /\ Converges(m, k)
  BY DEF SyncInv, Deliver
<1>1. /\ UNCHANGED <<pr, watch, listed>> /\ watch[m] = "stream"
      /\ stream[m] \in Seq(Event) /\ stream[m] # <<>> /\ stream'[m] = Tail(stream[m])
  BY <1>0 DEF Deliver, TypeOK
<1>2. /\ e = stream[m][1] /\ e \in Event
      /\ Len(stream[m]) \in Nat /\ Len(stream[m]) >= 1 /\ Len(stream'[m]) = Len(stream[m]) - 1
      /\ DOMAIN stream[m] = 1..Len(stream[m]) /\ DOMAIN stream'[m] = 1..(Len(stream[m]) - 1)
      /\ \A i \in 1..(Len(stream[m]) - 1) : stream'[m][i] = stream[m][i + 1]
  BY <1>1, TailShift
<1>3. /\ e.key \in PR /\ cache'[m][e.key] = e.obj
      /\ \A j \in PR : j # e.key => cache'[m][j] = cache[m][j]
      /\ Base(m) = cache[m] /\ Base(m)' = cache'[m]
  BY <1>0, <1>1, <1>2 DEF Deliver, UpdateCache, TypeOK, Store, Event, Base
<1> HIDE DEF e
<1>4. CASE ~HasEvent(m, k, Len(stream[m])) /\ Mirrors(Base(m)[k], pr[k])
  <2>1. \A i \in 1..Len(stream[m]) : stream[m][i].key # k
    BY <1>4 DEF HasEvent
  <2>2. e.key # k /\ \A i \in 1..Len(stream'[m]) : stream'[m][i].key # k
    BY <1>2, <2>1
  <2>3. Mirrors(Base(m)[k], pr[k])'
    BY <1>1, <1>3, <1>4, <2>2 DEF Mirrors
  <2> QED
    BY <2>2, <2>3 DEF Converges, HasEvent
<1>5. ASSUME NEW i \in DOMAIN stream[m], stream[m][i].key = k, stream[m][i].obj = pr[k],
             \A h \in (i + 1)..Len(stream[m]) : stream[m][h].key # k
      PROVE  Converges(m, k)'
  <2>1. CASE i = 1
    <3>1. ASSUME NEW h \in 1..Len(stream'[m]) PROVE stream'[m][h].key # k
      <4>1. h \in 1..(Len(stream[m]) - 1) /\ h + 1 \in (i + 1)..Len(stream[m])
        BY <1>2, <2>1
      <4> QED
        BY <1>2, <1>5, <4>1
    <3>2. Base(m)'[k] = pr'[k]
      BY <1>1, <1>2, <1>3, <1>5, <2>1
    <3>3. Mirrors(Base(m)[k], pr[k])'
      BY <3>2 DEF Mirrors
    <3> QED
      BY <3>1, <3>3 DEF Converges, HasEvent
  <2>2. CASE i # 1
    <3>1. PICK g \in 1..(Len(stream[m]) - 1) : i = g + 1
      <4>1. i - 1 \in 1..(Len(stream[m]) - 1) /\ i = (i - 1) + 1
        BY <1>2, <1>5, <2>2
      <4> QED
        BY <4>1
    <3>2. /\ g \in DOMAIN stream'[m] /\ stream'[m][g].key = k /\ stream'[m][g].obj = pr'[k]
      BY <1>1, <1>2, <1>5, <3>1
    <3>3. ASSUME NEW h \in (g + 1)..Len(stream'[m]) PROVE stream'[m][h].key # k
      <4>1. h \in 1..(Len(stream[m]) - 1) /\ h + 1 \in (i + 1)..Len(stream[m])
        BY <1>2, <3>1
      <4> QED
        BY <1>2, <1>5, <4>1
    <3> QED
      BY <3>2, <3>3 DEF Converges
  <2> QED
    BY <2>1, <2>2
<1> QED
  BY <1>0, <1>4, <1>5 DEF Converges

\* An ack can only set the status of what it finds in the cache.
LEMMA AckConverges ==
  ASSUME SyncInv, NEW m \in Replica, Ack(m), NEW r \in Replica, NEW k \in PR,
         watch'[r] # "list"
  PROVE  Converges(r, k)'
<1> USE DEF envVars
<1>0. TypeOK
  BY DEF SyncInv
<1>1. UNCHANGED <<pr, watch, listed, stream>>
  BY DEF Ack, AckDone
<1>2. Converges(r, k)
  BY <1>1 DEF SyncInv
<1>3. Mirrors(Base(r)[k], pr[k]) => Mirrors(Base(r)[k], pr[k])'
  <2>1. CASE Base(r)'[k] = Base(r)[k]
    BY <1>1, <2>1 DEF Mirrors
  <2>2. CASE Base(r)'[k] # Base(r)[k]
    <3>1. /\ Base(r)[k] = cache[r][k] /\ Base(r)'[k] = cache'[r][k]
          /\ cache[r][k] # Absent /\ cache'[r][k] = [cache[r][k] EXCEPT !.status = "none"]
      BY <1>0, <1>1, <2>2 DEF Ack, WriteThrough, Base, TypeOK, Store
    <3>2. cache[r][k] \in Object
      BY <1>0, <3>1 DEF TypeOK, Store
    <3>3. ASSUME Mirrors(cache[r][k], pr[k])
          PROVE  pr[k] # Absent /\ cache'[r][k] = [pr[k] EXCEPT !.status = "none"]
      <4>1. CASE cache[r][k] = pr[k]
        BY <3>1, <4>1
      <4>2. CASE pr[k] # Absent /\ cache[r][k] = [pr[k] EXCEPT !.status = "none"]
        <5>1. pr[k] \in Object
          BY <1>0, <4>2 DEF TypeOK, Store
        <5>2. [[pr[k] EXCEPT !.status = "none"] EXCEPT !.status = "none"]
                = [pr[k] EXCEPT !.status = "none"]
          BY <5>1 DEF Object
        <5> QED
          BY <3>1, <4>2, <5>2
      <4> QED
        BY <3>3, <4>1, <4>2 DEF Mirrors
    <3> QED
      BY <1>1, <3>1, <3>3 DEF Mirrors
  <2> QED
    BY <2>1, <2>2
<1> QED
  BY <1>1, <1>2, <1>3 DEF Converges, HasEvent

LEMMA ConvergesSame ==
  ASSUME NEW r \in Replica, NEW k \in PR, Converges(r, k),
         pr' = pr, stream'[r] = stream[r], Base(r)'[k] = Base(r)[k]
  PROVE  Converges(r, k)'
<1>1. Mirrors(Base(r)[k], pr[k])' <=> Mirrors(Base(r)[k], pr[k])
  BY DEF Mirrors
<1>2. HasEvent(r, k, Len(stream[r]))' <=> HasEvent(r, k, Len(stream[r]))
  BY DEF HasEvent
<1> QED
  BY <1>1, <1>2 DEF Converges

LEMMA SyncStep == SyncInv /\ [Next]_vars => SyncInv'
<1> DEFINE Parts == ListDrained /\ \A r \in Replica, k \in PR : watch[r] # "list" => Converges(r, k)
<1> SUFFICES ASSUME SyncInv, [Next]_vars PROVE Parts'
  BY TypeStep DEF SyncInv
<1> USE DEF envVars, watchVars, cycleVars
<1>0. TypeOK /\ AckHasTarget /\ ListDrained
  BY DEF SyncInv
<1>1. ASSUME UNCHANGED <<pr, cache, watch, listed, stream>> PROVE Parts'
  BY <1>1 DEF SyncInv, ListDrained, Converges, HasEvent, Base, Mirrors
<1>2. ASSUME NEW p \in PR, NEW o \in Object \cup {Absent}, Write(p, o),
             UNCHANGED <<watch, listed, cache>>
      PROVE  Parts'
  BY <1>2, WriteConverges
<1>3. ASSUME NEW r \in Replica, BecomeLeader(r) \/ StepDown(r) \/ StartCycle(r) \/ ReadQueue(r)
                                \/ PatchFailed(r) \/ EndCycle(r)
      PROVE  Parts'
  <2>1. UNCHANGED <<pr, cache, watch, listed, stream>>
    BY <1>3 DEF BecomeLeader, StepDown, StartCycle, ReadQueue, PatchFailed, EndCycle
  <2> QED
    BY <1>1, <2>1
<1>4. ASSUME Tick \/ (\E n \in Limits : SetLimit(n)) \/ UNCHANGED vars PROVE Parts'
  <2>1. UNCHANGED <<pr, cache, watch, listed, stream>>
    BY <1>4 DEF Tick, SetLimit, vars
  <2> QED
    BY <1>1, <2>1
<1>5. ASSUME NEW m \in Replica, PatchApplied(m) \/ PatchReplyLost(m) PROVE Parts'
  <2>1. PICK p \in PR : Start(p)
    BY <1>0, <1>5, TodoType DEF PatchApplied, PatchReplyLost, NextTarget
  <2>2. UNCHANGED <<cache, watch, listed>>
    BY <1>5 DEF PatchApplied, PatchReplyLost
  <2>3. CASE UNCHANGED <<pr, stream>>
    BY <1>1, <2>2, <2>3
  <2>4. CASE \E o \in Object : Write(p, o)
    BY <1>2, <2>2, <2>4
  <2> QED
    BY <1>0, <2>1, <2>3, <2>4, StartWrites
<1>6. ASSUME NEW m \in Replica, Ack(m) PROVE Parts'
  <2>1. UNCHANGED <<watch, stream>>
    BY <1>6 DEF Ack, AckDone
  <2>2. ListDrained'
    BY <1>0, <2>1 DEF ListDrained
  <2> QED
    BY <1>6, <2>2, AckConverges
<1>7. ASSUME NEW m \in Replica, Deliver(m) PROVE Parts'
  <2>1. /\ UNCHANGED <<pr, watch, listed>> /\ watch[m] = "stream"
        /\ \A r \in Replica : r # m => stream'[r] = stream[r] /\ cache'[r] = cache[r]
    BY <1>0, <1>7 DEF Deliver, UpdateCache, TypeOK
  <2>2. ListDrained'
    BY <1>0, <2>1 DEF ListDrained
  <2>3. ASSUME NEW r \in Replica, NEW k \in PR, watch'[r] # "list" PROVE Converges(r, k)'
    <3>1. CASE r = m
      BY <1>7, <3>1, DeliverConverges
    <3>2. CASE r # m
      <4>1. Converges(r, k) /\ Base(r)'[k] = Base(r)[k]
        BY <2>1, <2>3, <3>2 DEF SyncInv, Base
      <4> QED
        BY <2>1, <3>2, <4>1, ConvergesSame
    <3> QED
      BY <3>1, <3>2
  <2> QED
    BY <2>2, <2>3
<1>8. ASSUME NEW m \in Replica, WatchList(m) \/ ReplaceCache(m) \/ Expire(m) \/ Restart(m)
      PROVE  Parts'
  <2>1. /\ pr' = pr /\ \A r \in Replica : r # m => /\ watch'[r] = watch[r]
                                                   /\ listed'[r] = listed[r]
                                                   /\ cache'[r] = cache[r]
                                                   /\ stream'[r] = stream[r]
    BY <1>0, <1>8 DEF WatchList, ReplaceCache, Expire, Restart, TypeOK
  <2>2. \/ watch'[m] = "list" /\ stream'[m] = <<>>
        \/ watch'[m] = "replace" /\ stream'[m] = <<>> /\ Base(m)' = pr
        \/ watch'[m] = "stream" /\ watch[m] = "replace" /\ stream'[m] = stream[m]
           /\ Base(m)' = Base(m)
    BY <1>0, <1>8 DEF WatchList, ReplaceCache, Expire, Restart, TypeOK, ListDrained, Base
  <2>3. ListDrained'
    BY <1>0, <2>1, <2>2 DEF ListDrained
  <2>4. ASSUME NEW r \in Replica, NEW k \in PR, watch'[r] # "list" PROVE Converges(r, k)'
    <3>1. CASE r = m /\ watch'[m] = "replace"
      BY <2>1, <2>2, <3>1 DEF Converges, HasEvent, Mirrors
    <3>2. CASE r = m /\ watch'[m] = "stream"
      <4>1. Converges(r, k) /\ Base(r)'[k] = Base(r)[k]
        BY <2>2, <3>2 DEF SyncInv
      <4> QED
        BY <2>1, <2>2, <3>2, <4>1, ConvergesSame
    <3>3. CASE r # m
      <4>1. Converges(r, k) /\ Base(r)'[k] = Base(r)[k]
        BY <2>1, <2>4, <3>3 DEF SyncInv, Base
      <4> QED
        BY <2>1, <3>3, <4>1, ConvergesSame
    <3> QED
      BY <2>2, <2>4, <3>1, <3>2, <3>3
  <2> QED
    BY <2>3, <2>4
<1>9. ASSUME NEW k \in PR, User(k) PROVE Parts'
  <2>1. ASSUME NEW src \in Sources, NEW tier \in Tiers, NEW r \in Replica, Create(k, src, tier, r)
        PROVE  Parts'
    <3>1. Mutate(k, src, tier, synced[r], clock) \in Object
      BY <1>0, MutateType, ControllerAssumption DEF ControllerAssumption, TypeOK
    <3>2. /\ Write(k, Mutate(k, src, tier, synced[r], clock))
          /\ UNCHANGED <<watch, listed, cache>>
      BY <2>1 DEF Create, localVars
    <3> QED
      BY <1>2, <3>1, <3>2
  <2>2. ASSUME NEW o \in Object \cup {Absent}, Update(k, o) PROVE Parts'
    BY <1>2, <2>2 DEF Update, localVars
  <2> QED
    BY <1>0, <1>9, <2>1, <2>2, UserWrites
<1> QED
  BY <1>3, <1>4, <1>5, <1>6, <1>7, <1>8, <1>9 DEF Next, Watcher, Manager

\* Once a watcher has listed, the last event of each run it has yet to deliver is
\* the run's present state, or its cache (list response) has that already, in every
\* environment (watcher.py 25-68; cache.py 50-62; manager.py 170-173).
THEOREM SyncInvariant == Spec => []SyncInv
<1>1. Init => SyncInv
  <2> SUFFICES ASSUME Init PROVE SyncInv
    OBVIOUS
  <2>1. TypeOK /\ AckHasTarget
    BY TypeInit
  <2> QED
    BY <2>1 DEF Init, SyncInv, ListDrained
<1> QED
  BY <1>1, SyncStep, PTL DEF Spec

\* The cache errs on the safe side (watcher.py 25-68; cache.py 50-62; manager.py 170-173):
\* in every environment, whatever was lost, repeated, refused or restarted, a
\* cache whose stream is drained is the store, but for a status "none" an ack may
\* have left in it; so it never misses a run that holds a slot.
THEOREM CacheErrsSafelyTheorem == Spec => []CacheErrsSafely
<1>1. SyncInv => CacheErrsSafely
  <2> SUFFICES ASSUME SyncInv, NEW r \in Replica, watch[r] = "stream", stream[r] = <<>>,
                      NEW k \in PR
               PROVE  \/ cache[r][k] = pr[k]
                      \/ pr[k] # Absent /\ cache[r][k] = [pr[k] EXCEPT !.status = "none"]
    BY DEF CacheErrsSafely
  <2>1. Converges(r, k)
    BY DEF SyncInv
  <2> QED
    BY <2>1 DEF Converges, HasEvent, Base, Mirrors
<1> QED
  BY <1>1, SyncInvariant, PTL

(***************************************************************************)
(* Who was started is not started again                                    *)
(***************************************************************************)
LEMMA LeftMono ==
  ASSUME NEW o, NEW s, NEW k, NEW b \in Nat, NEW c \in Nat, b <= c, Left(o, s, k, b)
  PROVE  Left(o, s, k, c)
  BY DEF Left

LEMMA LeftBase ==
  ASSUME NEW o, NEW p, NEW s, NEW k, NEW b \in Nat, Left(o, s, k, b),
         ~Queued(o) => ~Queued(p)
  PROVE  Left(p, s, k, b)
  BY DEF Left

LEMMA LeftZero ==
  ASSUME NEW o, NEW s, NEW k, Left(o, s, k, 0)
  PROVE  ~Queued(o)
  BY DEF Left

\* An event that does not show k as waiting does no harm, and is the last there is.
LEMMA LeftAppend ==
  ASSUME NEW o, NEW s \in Seq(Event), NEW k, NEW b \in 0..Len(s), NEW e \in Event,
         e.key = k => ~Queued(e.obj)
  PROVE  /\ Left(o, s, k, b) => Left(o, Append(s, e), k, b)
         /\ e.key = k => Left(o, Append(s, e), k, Len(Append(s, e)))
<1> DEFINE t == Append(s, e)
<1>1. /\ Len(t) = Len(s) + 1 /\ Len(s) \in Nat /\ t[Len(s) + 1] = e
      /\ \A i \in 1..Len(s) : t[i] = s[i]
  BY AppendOne
<1> HIDE DEF t
<1>2. ASSUME Left(o, s, k, b) PROVE Left(o, t, k, b)
  <2>1. PICK i \in 0..b :
          /\ IF i = 0 THEN ~Queued(o) ELSE s[i].key = k /\ ~Queued(s[i].obj)
          /\ \A j \in (i + 1)..Len(s) : s[j].key = k => ~Queued(s[j].obj)
    BY <1>2 DEF Left
  <2>2. IF i = 0 THEN ~Queued(o) ELSE t[i].key = k /\ ~Queued(t[i].obj)
    BY <1>1, <2>1
  <2>3. ASSUME NEW j \in (i + 1)..Len(t), t[j].key = k PROVE ~Queued(t[j].obj)
    BY <1>1, <2>1, <2>3
  <2> QED
    BY <2>2, <2>3 DEF Left
<1>3. ASSUME e.key = k PROVE Left(o, t, k, Len(t))
  BY <1>1, <1>3 DEF Left
<1> QED
  BY <1>2, <1>3 DEF t

\* A delivery moves the head of the stream into the base.
LEMMA LeftTail ==
  ASSUME NEW o, NEW s \in Seq(Event), s # <<>>, NEW k, NEW b \in 0..Len(s),
         Left(o, s, k, b)
  PROVE  Left(IF Head(s).key = k THEN Head(s).obj ELSE o, Tail(s), k,
              IF b = 0 THEN 0 ELSE b - 1)
<1> DEFINE t == Tail(s)
           p == IF Head(s).key = k THEN Head(s).obj ELSE o
           c == IF b = 0 THEN 0 ELSE b - 1
<1>1. /\ Len(s) \in Nat \ {0} /\ Len(t) = Len(s) - 1 /\ Head(s) = s[1]
      /\ \A i \in 1..Len(t) : t[i] = s[i + 1]
  BY TailShift
<1>2. PICK i \in 0..b :
        /\ IF i = 0 THEN ~Queued(o) ELSE s[i].key = k /\ ~Queued(s[i].obj)
        /\ \A j \in (i + 1)..Len(s) : s[j].key = k => ~Queued(s[j].obj)
  BY DEF Left
<1> DEFINE i1 == IF i = 0 THEN 0 ELSE i - 1
<1>3. i1 \in 0..c
  BY <1>2
<1>4. IF i1 = 0 THEN ~Queued(p) ELSE t[i1].key = k /\ ~Queued(t[i1].obj)
  BY <1>1, <1>2
<1>5. ASSUME NEW j \in (i1 + 1)..Len(t), t[j].key = k PROVE ~Queued(t[j].obj)
  BY <1>1, <1>2, <1>5
<1> HIDE DEF t, p, c, i1
<1>6. Left(p, t, k, c)
  BY <1>3, <1>4, <1>5 DEF Left
<1> QED
  BY <1>6 DEF t, p, c

\* What is told of k stays told when k, if anything, is written as not waiting.
LEMMA WriteLeft ==
  ASSUME TypeOK, NEW p \in PR, NEW o \in Object \cup {Absent}, Write(p, o),
         UNCHANGED <<watch, listed, cache>>,
         NEW r \in Replica, NEW k \in Target, NEW b \in 0..Len(stream[r]),
         k = p => ~Queued(o), SeenLeft(r, k, b)
  PROVE  watch'[r] = "list" \/ Left(Base(r)'[k], stream'[r], k, b)
<1>1. CASE watch[r] = "list"
  BY <1>1
<1>2. CASE watch[r] # "list"
  <2> DEFINE e == [key |-> p, obj |-> o]
  <2>1. e \in Event /\ stream[r] \in Seq(Event) /\ (e.key = k => ~Queued(e.obj))
    BY DEF Event, TypeOK
  <2>2. stream'[r] = Append(stream[r], e)
    BY <1>2 DEF Write
  <2>3. Base(r)'[k] = Base(r)[k]
    BY DEF Base
  <2>4. Left(Base(r)[k], stream[r], k, b)
    BY <1>2 DEF SeenLeft
  <2>5. Left(Base(r)[k], Append(stream[r], e), k, b)
    <3> HIDE DEF e
    <3> QED
      BY <2>1, <2>4, LeftAppend
  <2> QED
    BY <2>2, <2>3, <2>5
<1> QED
  BY <1>1, <1>2

\* After a write, every start is told at the end of the stream at the latest.
LEMMA WriteTold ==
  ASSUME TypeOK, StartsTold, NEW p \in PR, NEW o \in Object \cup {Absent},
         Write(p, o), UNCHANGED <<watch, listed, cache>>
  PROVE  StartsTold'
<1> SUFFICES ASSUME NEW r \in Replica, NEW k \in Target, Started(k)', watch'[r] # "list"
             PROVE  Left(Base(r)'[k], stream'[r], k, Len(stream'[r]))
  BY DEF StartsTold, SeenLeft
<1> DEFINE e == [key |-> p, obj |-> o]
<1>1. e \in Event /\ stream[r] \in Seq(Event) /\ Len(stream[r]) \in Nat
  <2>1. e \in Event /\ stream[r] \in Seq(Event)
    BY DEF Event, TypeOK
  <2> QED
    BY <2>1
<1>2. stream'[r] = Append(stream[r], e)
  BY DEF Write
<1>3. k \in PR
  BY TargetInPR
<1>4. CASE k = p
  <2>1. ~Queued(o)
    BY <1>4, <1>3, WriteEffect DEF Started, Queued
  <2>2. e.key = k /\ ~Queued(e.obj)
    BY <1>4, <2>1
  <2>3. 0 \in 0..Len(stream[r])
    BY <1>1
  <2> HIDE DEF e
  <2> QED
    BY <1>1, <1>2, <2>2, <2>3, LeftAppend
<1>5. CASE k # p
  <2>1. Started(k)
    BY <1>3, <1>5, WriteEffect DEF Started
  <2>2. SeenLeft(r, k, Len(stream[r])) /\ Len(stream[r]) \in 0..Len(stream[r])
    BY <1>1, <2>1 DEF StartsTold
  <2>3. Left(Base(r)'[k], stream'[r], k, Len(stream[r]))
    BY <1>5, <2>2, WriteLeft
  <2>4. Len(stream'[r]) \in Nat /\ Len(stream[r]) <= Len(stream'[r])
    BY <1>1, <1>2
  <2> QED
    BY <1>1, <2>3, <2>4, LeftMono
<1> QED
  BY <1>4, <1>5

\* Nobody but the manager starts a target run: every other write leaves all as
\* it is.
LEMMA WriteOnce ==
  ASSUME OnceInv, NEW p \in PR, NEW o \in Object \cup {Absent}, Write(p, o),
         UNCHANGED localVars,
         p \in Target /\ o # Absent /\ o.status = "none" => Started(p)
  PROVE  OnceParts'
<1> USE DEF localVars, cycleVars
<1>1. TypeOK /\ WatchStates
  BY DEF OnceInv, LimitInv
<1>2. StartsTold'
  BY <1>1, WriteTold DEF OnceInv, OnceParts
<1>3. ASSUME NEW k \in Target, Started(k)' PROVE Started(k) /\ (k = p => ~Queued(o))
  <2>1. k \in PR
    BY TargetInPR
  <2> QED
    BY <1>1, <1>3, <2>1, WriteEffect DEF Started, Queued
<1>4. StartsSettled'
  <2> SUFFICES ASSUME \A s \in Replica : pc[s] = "idle",
                      NEW r \in Replica, NEW k \in Target, Started(k)'
               PROVE  watch'[r] = "list" \/ Left(Base(r)'[k], stream'[r], k, overdue'[r])
    BY DEF StartsSettled, SeenLeft
  <2>1. SeenLeft(r, k, overdue[r])
    BY <1>3 DEF OnceInv, OnceParts, StartsSettled
  <2>2. overdue[r] \in 0..Len(stream[r])
    BY <1>1 DEF WatchStates, TypeOK
  <2> QED
    BY <1>1, <1>3, <2>1, <2>2, WriteLeft
<1>5. StartsRead'
  <2> SUFFICES ASSUME NEW r \in Replica, NEW k \in Target, pc[r] = "read", Started(k)'
               PROVE  /\ watch'[r] = "list" \/ Left(Base(r)'[k], stream'[r], k, 0)
                      /\ ~Queued(cache[r][k])
    BY DEF StartsRead, SeenLeft
  <2>1. SeenLeft(r, k, 0) /\ ~Queued(cache[r][k])
    BY <1>3 DEF OnceInv, OnceParts, StartsRead
  <2>2. 0 \in 0..Len(stream[r])
    BY <1>1 DEF TypeOK
  <2> QED
    BY <1>1, <1>3, <2>1, <2>2, WriteLeft
<1>6. TodoUnstarted'
  <2> SUFFICES ASSUME NEW r \in Replica
               PROVE  /\ pc[r] \in {"idle", "read"} => todo[r] = <<>>
                      /\ \A i \in DOMAIN todo[r] :
                           /\ todo[r][i] \in Target
                           /\ pc[r] = "loop" \/ i > 1 => ~Started(todo[r][i])'
                           /\ \A j \in DOMAIN todo[r] : todo[r][j] = todo[r][i] => j = i
    BY DEF TodoUnstarted, Started
  <2> QED
    BY <1>3 DEF OnceInv, OnceParts, TodoUnstarted
<1> QED
  BY <1>2, <1>4, <1>5, <1>6 DEF OnceParts

LEMMA OnceSame ==
  ASSUME OnceParts, UNCHANGED <<pr, watch, cache, listed, stream, overdue, pc, todo>>
  PROVE  OnceParts'
<1>1. StartsTold' /\ StartsSettled' /\ StartsRead'
  BY DEF OnceParts, StartsTold, StartsSettled, StartsRead, SeenLeft, Base, Started
<1>2. TodoUnstarted'
  BY DEF OnceParts, TodoUnstarted, Started
<1> QED
  BY <1>1, <1>2 DEF OnceParts

LEMMA TodoSame ==
  ASSUME TodoUnstarted, UNCHANGED <<pr, pc, todo>>
  PROVE  TodoUnstarted'
  BY DEF TodoUnstarted, Started

LEMMA OnceWatchList ==
  ASSUME OnceInv, NEW w \in Replica, WatchList(w)
  PROVE  OnceParts'
<1> USE DEF envVars, cycleVars
<1>1. stream[w] = <<>> /\ overdue[w] = 0
  BY DEF WatchList, OnceInv, LimitInv, TypeOK, WatchStates
<1>2. UNCHANGED <<pr, pc, todo, cache, stream, overdue>>
  BY DEF WatchList
<1>3. ASSUME NEW k \in Target, Started(k)
      PROVE  Left(Base(w)'[k], stream'[w], k, 0)
  <2>1. Base(w)' = pr /\ stream'[w] = <<>>
    BY <1>1, <1>2 DEF Base, WatchList, OnceInv, LimitInv, TypeOK
  <2>2. ~Queued(pr[k])
    BY <1>3 DEF Started, Queued
  <2>3. Left(pr[k], <<>>, k, 0)
    BY <2>2 DEF Left
  <2> QED
    BY <2>1, <2>3
<1>4. ASSUME NEW r \in Replica, r # w
      PROVE  watch'[r] = watch[r] /\ Base(r)' = Base(r)
  BY <1>4 DEF WatchList, OnceInv, LimitInv, TypeOK, Base
<1>5. StartsTold'
  BY <1>1, <1>2, <1>3, <1>4 DEF OnceInv, OnceParts, StartsTold, SeenLeft, Started
<1>6. StartsSettled'
  BY <1>1, <1>2, <1>3, <1>4 DEF OnceInv, OnceParts, StartsSettled, SeenLeft, Started
<1>7. StartsRead'
  BY <1>1, <1>2, <1>3, <1>4 DEF OnceInv, OnceParts, StartsRead, SeenLeft, Started
<1> QED
  BY <1>2, <1>5, <1>6, <1>7, TodoSame DEF OnceInv, OnceParts

LEMMA OnceReplaceCache ==
  ASSUME OnceInv, NEW w \in Replica, ReplaceCache(w)
  PROVE  OnceParts'
<1> USE DEF envVars, cycleVars
<1>1. UNCHANGED <<pr, pc, todo, stream, overdue>> /\ watch[w] = "replace"
  BY DEF ReplaceCache
<1>2. ASSUME NEW r \in Replica
      PROVE  Base(r)' = Base(r) /\ (watch'[r] = "list" <=> watch[r] = "list")
  BY DEF ReplaceCache, OnceInv, LimitInv, TypeOK, Base
<1>3. cache'[w] = listed[w] /\ \A r \in Replica : r # w => cache'[r] = cache[r]
  BY DEF ReplaceCache, OnceInv, LimitInv, TypeOK
<1>4. StartsTold' /\ StartsSettled'
  BY <1>1, <1>2 DEF OnceInv, OnceParts, StartsTold, StartsSettled, SeenLeft, Started
<1>5. StartsRead'
  <2> SUFFICES ASSUME NEW r \in Replica, NEW k \in Target, pc[r] = "read", Started(k)
               PROVE  SeenLeft(r, k, 0)' /\ ~Queued(cache'[r][k])
    BY <1>1 DEF StartsRead, Started
  <2>1. SeenLeft(r, k, 0) /\ ~Queued(cache[r][k])
    BY DEF OnceInv, OnceParts, StartsRead
  <2>2. SeenLeft(r, k, 0)'
    BY <1>1, <1>2, <2>1 DEF SeenLeft
  <2>3. CASE r = w
    <3>1. ~Queued(listed[w][k])
      BY <1>1, <2>1, <2>3, LeftZero DEF SeenLeft, Base
    <3> QED
      BY <1>3, <2>2, <2>3, <3>1
  <2> QED
    BY <1>3, <2>1, <2>2, <2>3
<1> QED
  BY <1>1, <1>4, <1>5, TodoSame DEF OnceInv, OnceParts

LEMMA OnceDeliver ==
  ASSUME OnceInv, NEW w \in Replica, Deliver(w)
  PROVE  OnceParts'
<1> USE DEF envVars, cycleVars
<1>0. stream[w] \in Seq(Event) /\ stream[w] # <<>> /\ Head(stream[w]) \in Event
  BY DEF Deliver, OnceInv, LimitInv, TypeOK
<1>1. /\ UNCHANGED <<pr, pc, todo, watch, listed>> /\ watch[w] = "stream"
      /\ stream'[w] = Tail(stream[w])
      /\ overdue'[w] = IF overdue[w] = 0 THEN 0 ELSE overdue[w] - 1
  BY DEF Deliver, OnceInv, LimitInv, TypeOK
<1>2. ASSUME NEW k \in Target, NEW b \in 0..Len(stream[w]), SeenLeft(w, k, b)
      PROVE  Left(Base(w)'[k], stream'[w], k, IF b = 0 THEN 0 ELSE b - 1)
  <2>1. k \in PR
    BY TargetInPR
  <2>2. Left(cache[w][k], stream[w], k, b)
    BY <1>1, <1>2 DEF SeenLeft, Base
  <2>3. Base(w)'[k] = IF Head(stream[w]).key = k THEN Head(stream[w]).obj ELSE cache[w][k]
    BY <1>0, <2>1 DEF Base, Deliver, UpdateCache, OnceInv, LimitInv, TypeOK, Store
  <2> QED
    BY <1>0, <1>1, <2>2, <2>3, LeftTail
<1>3. ASSUME NEW r \in Replica, r # w
      PROVE  Base(r)' = Base(r) /\ cache'[r] = cache[r] /\ stream'[r] = stream[r]
             /\ overdue'[r] = overdue[r]
  BY <1>3 DEF Deliver, UpdateCache, OnceInv, LimitInv, TypeOK, Base
<1>4. Len(stream[w]) \in Nat \ {0} /\ Len(stream'[w]) = Len(stream[w]) - 1
  BY <1>0, <1>1
<1>5. StartsTold'
  <2> SUFFICES ASSUME NEW r \in Replica, NEW k \in Target, Started(k)
               PROVE  watch[r] = "list" \/ Left(Base(r)'[k], stream'[r], k, Len(stream'[r]))
    BY <1>1 DEF StartsTold, SeenLeft, Started
  <2>1. SeenLeft(r, k, Len(stream[r]))
    BY DEF OnceInv, OnceParts, StartsTold
  <2>2. CASE r = w
    BY <1>2, <1>4, <2>1, <2>2
  <2>3. CASE r # w
    BY <1>3, <2>1, <2>3 DEF SeenLeft
  <2> QED
    BY <2>2, <2>3
<1>6. StartsSettled'
  <2> SUFFICES ASSUME \A s \in Replica : pc[s] = "idle",
                      NEW r \in Replica, NEW k \in Target, Started(k)
               PROVE  watch[r] = "list" \/ Left(Base(r)'[k], stream'[r], k, overdue'[r])
    BY <1>1 DEF StartsSettled, SeenLeft, Started
  <2>1. SeenLeft(r, k, overdue[r])
    BY DEF OnceInv, OnceParts, StartsSettled
  <2>2. CASE r = w
    <3>1. overdue[w] \in 0..Len(stream[w])
      BY DEF OnceInv, LimitInv, TypeOK, WatchStates
    <3> QED
      BY <1>1, <1>2, <2>1, <2>2, <3>1
  <2>3. CASE r # w
    BY <1>3, <2>1, <2>3 DEF SeenLeft
  <2> QED
    BY <2>2, <2>3
<1>7. StartsRead'
  <2> SUFFICES ASSUME NEW r \in Replica, NEW k \in Target, pc[r] = "read", Started(k)
               PROVE  /\ watch[r] = "list" \/ Left(Base(r)'[k], stream'[r], k, 0)
                      /\ ~Queued(cache'[r][k])
    BY <1>1 DEF StartsRead, SeenLeft, Started
  <2>1. SeenLeft(r, k, 0) /\ ~Queued(cache[r][k])
    BY DEF OnceInv, OnceParts, StartsRead
  <2>2. CASE r = w
    <3>1. Left(Base(w)'[k], stream'[w], k, 0)
      BY <1>4, <1>2, <2>1, <2>2
    <3>2. ~Queued(Base(w)'[k])
      BY <3>1, LeftZero
    <3> QED
      BY <1>1, <2>2, <3>1, <3>2 DEF Base
  <2>3. CASE r # w
    BY <1>3, <2>1, <2>3 DEF SeenLeft
  <2> QED
    BY <2>2, <2>3
<1> QED
  BY <1>1, <1>5, <1>6, <1>7, TodoSame DEF OnceInv, OnceParts

LEMMA OnceExpire ==
  ASSUME OnceInv, NEW w \in Replica, Expire(w)
  PROVE  OnceParts'
<1> USE DEF envVars, cycleVars
<1>1. UNCHANGED <<pr, pc, todo, cache, listed>> /\ watch'[w] = "list" /\ watch[w] = "stream"
  BY DEF Expire, OnceInv, LimitInv, TypeOK
<1>2. \A r \in Replica \ {w} : /\ Base(r)' = Base(r) /\ stream'[r] = stream[r]
                               /\ overdue'[r] = overdue[r] /\ watch'[r] = watch[r]
  BY DEF Expire, OnceInv, LimitInv, TypeOK, Base
<1>3. StartsTold' /\ StartsSettled'
  BY <1>1, <1>2 DEF OnceInv, OnceParts, StartsTold, StartsSettled, SeenLeft, Started
<1>4. StartsRead'
  BY <1>1, <1>2 DEF OnceInv, OnceParts, StartsRead, SeenLeft, Started
<1> QED
  BY <1>1, <1>3, <1>4, TodoSame DEF OnceInv, OnceParts

LEMMA OnceRestart ==
  ASSUME Reliable, OnceInv, NEW m \in Replica, Restart(m)
  PROVE  OnceParts'
<1> USE DEF envVars
<1>1. ASSUME NEW r \in Replica, r # m
      PROVE  /\ Base(r)' = Base(r) /\ watch'[r] = watch[r] /\ stream'[r] = stream[r]
             /\ cache'[r] = cache[r] /\ pc'[r] = pc[r] /\ todo'[r] = todo[r]
  BY <1>1 DEF Restart, OnceInv, LimitInv, TypeOK, Base
<1>2. /\ watch'[m] = "list" /\ pc'[m] = "idle" /\ todo'[m] = <<>> /\ UNCHANGED pr
  BY DEF Restart, OnceInv, LimitInv, TypeOK
<1>3. \A r \in Replica : overdue'[r] = Len(stream'[r])
  BY DEF Restart, TimePasses, Reliable
<1>4. StartsTold'
  BY <1>1, <1>2 DEF OnceInv, OnceParts, StartsTold, SeenLeft, Started
<1>5. StartsSettled'
  BY <1>3, <1>4 DEF StartsTold, StartsSettled
<1>6. StartsRead'
  BY <1>1, <1>2 DEF OnceInv, OnceParts, StartsRead, SeenLeft, Started
<1>7. TodoUnstarted'
  BY <1>1, <1>2 DEF OnceInv, OnceParts, TodoUnstarted, Started
<1> QED
  BY <1>4, <1>5, <1>6, <1>7 DEF OnceParts

LEMMA OnceStartCycle ==
  ASSUME Reliable, OnceInv, NEW m \in Replica, StartCycle(m)
  PROVE  OnceParts'
<1> USE DEF envVars, watchVars
<1>1. \A s \in Replica : pc[s] = "idle"
  BY OthersIdle DEF StartCycle, Active, OnceInv, LimitInv
<1>2. /\ pc'[m] = "read" /\ \A r \in Replica \ {m} : pc'[r] = "idle"
      /\ UNCHANGED <<pr, cache, stream, watch, listed, overdue, todo>> /\ WatchKeptUp(m)
  BY <1>1 DEF StartCycle, Reliable, OnceInv, LimitInv, TypeOK
<1>3. StartsTold' /\ StartsSettled'
  BY <1>2 DEF OnceInv, OnceParts, StartsTold, StartsSettled, SeenLeft, Base, Started
<1>4. StartsRead'
  <2> SUFFICES ASSUME NEW k \in Target, Started(k)
               PROVE  SeenLeft(m, k, 0) /\ ~Queued(cache[m][k])
    BY <1>2 DEF StartsRead, SeenLeft, Base, Started
  <2>1. SeenLeft(m, k, 0)
    BY <1>1, <1>2 DEF OnceInv, OnceParts, StartsSettled, WatchKeptUp
  <2>2. CASE synced[m]
    BY <1>2, <2>1, <2>2, LeftZero DEF WatchKeptUp, SeenLeft, Base
  <2>3. CASE ~synced[m]
    <3>1. cache[m][k] = Absent
      BY <2>3, TargetInPR DEF OnceInv, LimitInv, WatchStates, Nothing
    <3> QED
      BY <2>1, <3>1 DEF Queued
  <2> QED
    BY <2>1, <2>2, <2>3
<1>5. TodoUnstarted'
  BY <1>1, <1>2 DEF OnceInv, OnceParts, TodoUnstarted, Started
<1> QED
  BY <1>3, <1>4, <1>5 DEF OnceParts

LEMMA OnceReadQueue ==
  ASSUME OnceInv, NEW m \in Replica, ReadQueue(m)
  PROVE  OnceParts'
<1> USE DEF envVars, watchVars
<1>1. \A r \in Replica \ {m} : pc[r] = "idle"
  BY OthersIdle DEF ReadQueue, Active, OnceInv, LimitInv
<1>2. PICK q \in QueueOrders(cache[m], ahead[m], clock) : todo' = [todo EXCEPT ![m] = q]
  BY DEF ReadQueue
<1>3. /\ pc[m] = "read" /\ pc'[m] = "loop" /\ todo'[m] = q
      /\ \A r \in Replica \ {m} : pc'[r] = "idle" /\ todo'[r] = todo[r]
      /\ UNCHANGED <<pr, cache, stream, watch, listed, overdue>>
  BY <1>1, <1>2 DEF ReadQueue, OnceInv, LimitInv, TypeOK
<1>4. StartsTold' /\ StartsSettled' /\ StartsRead'
  BY <1>3 DEF OnceInv, OnceParts, StartsTold, StartsSettled, StartsRead, SeenLeft, Base, Started
<1>5. ASSUME NEW i \in DOMAIN q PROVE q[i] \in Target /\ ~Started(q[i])
  <2>1. q[i] \in Waiting(cache[m])
    BY QueueOrdersComplete
  <2> QED
    BY <1>3, <2>1 DEF Waiting, OnceInv, OnceParts, StartsRead
<1>6. \A i, j \in DOMAIN q : q[j] = q[i] => j = i
  <2>1. q \in SetToSeqs(Waiting(cache[m]))
    BY DEF QueueOrders
  <2>2. PICK n : /\ n = Cardinality(Waiting(cache[m])) /\ q \in [1..n -> Waiting(cache[m])]
                 /\ \A i, j \in 1..n : i # j => q[i] # q[j]
    BY <2>1 DEF SetToSeqs
  <2> QED
    BY <2>2
<1>7. TodoUnstarted'
  <2> SUFFICES ASSUME NEW r \in Replica
               PROVE  /\ pc'[r] \in {"idle", "read"} => todo'[r] = <<>>
                      /\ \A i \in DOMAIN todo'[r] :
                           /\ todo'[r][i] \in Target
                           /\ pc'[r] = "loop" \/ i > 1 => ~Started(todo'[r][i])
                           /\ \A j \in DOMAIN todo'[r] : todo'[r][j] = todo'[r][i] => j = i
    BY <1>3 DEF TodoUnstarted, Started
  <2>1. CASE r = m
    BY <1>3, <1>5, <1>6, <2>1
  <2>2. CASE r # m
    BY <1>1, <1>3, <2>2 DEF OnceInv, OnceParts, TodoUnstarted
  <2> QED
    BY <2>1, <2>2
<1> QED
  BY <1>4, <1>7 DEF OnceParts

LEMMA OncePatch ==
  ASSUME OnceInv, NEW m \in Replica, PatchApplied(m)
  PROVE  OnceParts'
<1> USE DEF cycleVars
<1>1. \A r \in Replica \ {m} : pc[r] = "idle"
  BY OthersIdle DEF PatchApplied, NextTarget, Active, OnceInv, LimitInv
<1>2. /\ pc[m] = "loop" /\ todo[m] # <<>> /\ Start(Head(todo[m]))
      /\ pc'[m] = "ack" /\ \A r \in Replica \ {m} : pc'[r] = "idle"
      /\ UNCHANGED <<todo, cache, watch, listed>>
  BY <1>1 DEF PatchApplied, NextTarget, OnceInv, LimitInv, TypeOK
<1>3. PICK p \in PR : p = Head(todo[m]) /\ p = todo[m][1] /\ 1 \in DOMAIN todo[m]
  BY <1>2 DEF OnceInv, LimitInv, TypeOK
<1>4. \A k \in PR : k # p => pr'[k] = pr[k]
  BY <1>2, <1>3, StartKeeps DEF OnceInv, LimitInv
<1>5. StartsTold'
  <2>1. CASE UNCHANGED <<pr, stream>>
    BY <1>2, <2>1 DEF OnceInv, OnceParts, StartsTold, SeenLeft, Base, Started
  <2>2. CASE \E o \in Object : Write(p, o)
    BY <1>2, <2>2, WriteTold DEF OnceInv, LimitInv, OnceParts
  <2> QED
    BY <1>2, <1>3, <2>1, <2>2, StartWrites DEF OnceInv, LimitInv
<1>6. StartsSettled' /\ StartsRead'
  BY <1>2 DEF StartsSettled, StartsRead
<1>7. TodoUnstarted'
  <2> SUFFICES ASSUME NEW r \in Replica
               PROVE  /\ pc'[r] \in {"idle", "read"} => todo[r] = <<>>
                      /\ \A i \in DOMAIN todo[r] :
                           /\ todo[r][i] \in Target
                           /\ pc'[r] = "loop" \/ i > 1 => ~Started(todo[r][i])'
                           /\ \A j \in DOMAIN todo[r] : todo[r][j] = todo[r][i] => j = i
    BY <1>2 DEF TodoUnstarted, Started
  <2>1. CASE r = m
    <3>1. ASSUME NEW i \in DOMAIN todo[m], i > 1 PROVE ~Started(todo[m][i])'
      <4>1. todo[m][i] \in Target /\ ~Started(todo[m][i]) /\ todo[m][i] # p
        BY <1>2, <1>3, <3>1 DEF OnceInv, OnceParts, TodoUnstarted
      <4> QED
        BY <1>2, <1>4, <4>1, TargetInPR DEF Started
    <3> QED
      BY <1>2, <2>1, <3>1 DEF OnceInv, OnceParts, TodoUnstarted
  <2>2. CASE r # m
    BY <1>1, <1>2, <2>2 DEF OnceInv, OnceParts, TodoUnstarted
  <2> QED
    BY <2>1, <2>2
<1> QED
  BY <1>5, <1>6, <1>7 DEF OnceParts

\* What is left of a cycle after its first run.
LEMMA TodoTail ==
  ASSUME TypeOK, TodoUnstarted, NEW m \in Replica, todo[m] # <<>>,
         todo' = [todo EXCEPT ![m] = Tail(@)], pc[m] \in {"loop", "ack"}, pc'[m] = "loop",
         \A r \in Replica \ {m} : pc'[r] = pc[r], UNCHANGED pr
  PROVE  TodoUnstarted'
<1>1. todo[m] \in Seq(PR) /\ todo'[m] = Tail(todo[m])
      /\ \A r \in Replica \ {m} : todo'[r] = todo[r]
  BY DEF TypeOK
<1>2. /\ Len(todo[m]) \in Nat /\ DOMAIN todo[m] = 1..Len(todo[m])
      /\ DOMAIN todo'[m] = 1..(Len(todo[m]) - 1)
      /\ \A i \in 1..(Len(todo[m]) - 1) : todo'[m][i] = todo[m][i + 1]
  <2>1. PICK s \in Seq(PR) : s = todo[m]
    BY <1>1
  <2>2. PICK t : t = todo'[m]
    OBVIOUS
  <2>3. s # <<>> /\ t = Tail(s)
    BY <1>1, <2>1, <2>2
  <2>4. /\ Len(s) \in Nat /\ DOMAIN s = 1..Len(s) /\ DOMAIN t = 1..(Len(s) - 1)
        /\ \A i \in 1..(Len(s) - 1) : t[i] = s[i + 1]
    BY <2>3, TailShift
  <2> QED
    BY <2>1, <2>2, <2>4
<1> SUFFICES ASSUME NEW r \in Replica
             PROVE  /\ pc'[r] \in {"idle", "read"} => todo'[r] = <<>>
                    /\ \A i \in DOMAIN todo'[r] :
                         /\ todo'[r][i] \in Target
                         /\ pc'[r] = "loop" \/ i > 1 => ~Started(todo'[r][i])
                         /\ \A j \in DOMAIN todo'[r] : todo'[r][j] = todo'[r][i] => j = i
  BY DEF TodoUnstarted, Started
<1>3. CASE r = m
  <2>1. ASSUME NEW i \in DOMAIN todo'[m]
        PROVE  /\ i + 1 \in DOMAIN todo[m] /\ i + 1 > 1 /\ i \in Int
               /\ todo'[m][i] = todo[m][i + 1]
    BY <1>2
  <2>2. ASSUME NEW i \in DOMAIN todo'[m]
        PROVE  todo'[m][i] \in Target /\ ~Started(todo'[m][i])
    BY <2>1 DEF TodoUnstarted
  <2>3. ASSUME NEW i \in DOMAIN todo'[m], NEW j \in DOMAIN todo'[m], todo'[m][j] = todo'[m][i]
        PROVE  j = i
    <3>1. j + 1 = i + 1
      BY <2>1, <2>3 DEF TodoUnstarted
    <3> QED
      BY <2>1, <3>1
  <2> QED
    BY <1>3, <2>2, <2>3
<1>4. CASE r # m
  BY <1>1, <1>4 DEF TodoUnstarted
<1> QED
  BY <1>3, <1>4

LEMMA OnceAck ==
  ASSUME OnceInv, NEW m \in Replica, Ack(m)
  PROVE  OnceParts'
<1> USE DEF envVars, AckDone
<1>1. \A r \in Replica \ {m} : pc[r] = "idle"
  BY OthersIdle DEF Ack, Active, OnceInv, LimitInv
<1>2. /\ pc[m] = "ack" /\ pc'[m] = "loop" /\ \A r \in Replica \ {m} : pc'[r] = "idle"
      /\ todo[m] # <<>> /\ todo' = [todo EXCEPT ![m] = Tail(@)]
      /\ UNCHANGED <<pr, watch, listed, stream, overdue>>
  BY <1>1 DEF Ack, DropTarget, OnceInv, LimitInv, TypeOK, AckHasTarget
<1>3. ASSUME NEW r \in Replica, NEW k \in Target, ~Queued(cache[r][k])
      PROVE  ~Queued(cache'[r][k])
  <2>1. PICK p \in PR : p = Head(todo[m])
    BY <1>2, TodoType DEF OnceInv, LimitInv
  <2>2. k \in PR /\ cache \in [Replica -> Store] /\ WriteThrough(m, p)
    BY <2>1, TargetInPR DEF Ack, OnceInv, LimitInv, TypeOK
  <2>3. \/ cache'[r][k] = cache[r][k]
        \/ cache[r][k] \in Object /\ cache'[r][k] = [cache[r][k] EXCEPT !.status = "none"]
    BY <2>2 DEF WriteThrough, Store
  <2>4. ASSUME NEW o \in Object PROVE ~Queued([o EXCEPT !.status = "none"])
    BY DEF Object, Queued
  <2> QED
    BY <1>3, <2>3, <2>4
<1>4. StartsTold'
  <2> SUFFICES ASSUME NEW r \in Replica, NEW k \in Target, Started(k), watch[r] # "list"
               PROVE  Left(Base(r)'[k], stream[r], k, Len(stream[r]))
    BY <1>2 DEF StartsTold, SeenLeft, Started
  <2>1. Left(Base(r)[k], stream[r], k, Len(stream[r]))
    BY DEF OnceInv, OnceParts, StartsTold, SeenLeft
  <2>2. ~Queued(Base(r)[k]) => ~Queued(Base(r)'[k])
    BY <1>2, <1>3 DEF Base
  <2>3. Len(stream[r]) \in Nat
    BY DEF OnceInv, LimitInv, TypeOK
  <2> QED
    BY <2>1, <2>2, <2>3, LeftBase
<1>5. StartsSettled' /\ StartsRead'
  BY <1>2 DEF StartsSettled, StartsRead
<1>6. TodoUnstarted'
  BY <1>1, <1>2, TodoTail DEF OnceInv, LimitInv, OnceParts
<1> QED
  BY <1>4, <1>5, <1>6 DEF OnceParts

LEMMA OncePatchFailed ==
  ASSUME OnceInv, NEW m \in Replica, PatchFailed(m)
  PROVE  OnceParts'
<1>1. /\ pc[m] = "loop" /\ todo[m] # <<>> /\ todo' = [todo EXCEPT ![m] = Tail(@)]
      /\ UNCHANGED <<pr, cache, watch, listed, stream, overdue, pc>>
  BY DEF PatchFailed, NextTarget, DropTarget, envVars, watchVars
<1>2. StartsTold' /\ StartsSettled' /\ StartsRead'
  BY <1>1 DEF OnceInv, OnceParts, StartsTold, StartsSettled, StartsRead, SeenLeft, Base, Started
<1>3. TodoUnstarted'
  BY <1>1, TodoTail DEF OnceInv, LimitInv, OnceParts
<1> QED
  BY <1>2, <1>3 DEF OnceParts

LEMMA OnceEndCycle ==
  ASSUME Reliable, OnceInv, NEW m \in Replica, EndCycle(m)
  PROVE  OnceParts'
<1> USE DEF envVars
<1>1. /\ todo'[m] = <<>> /\ \A r \in Replica \ {m} : todo'[r] = todo[r] /\ pc'[r] = pc[r]
      /\ pc'[m] = "idle" /\ UNCHANGED <<pr, cache, watch, listed, stream>>
  BY DEF EndCycle, OnceInv, LimitInv, TypeOK
<1>2. \A r \in Replica : overdue'[r] = Len(stream[r])
  BY DEF EndCycle, TimePasses, Reliable
<1>3. StartsTold' /\ StartsRead'
  BY <1>1 DEF OnceInv, OnceParts, StartsTold, StartsRead, SeenLeft, Base, Started
<1>4. StartsSettled'
  BY <1>1, <1>2 DEF OnceInv, OnceParts, StartsTold, StartsSettled, SeenLeft, Base, Started
<1>5. TodoUnstarted'
  BY <1>1 DEF OnceInv, OnceParts, TodoUnstarted, Started
<1> QED
  BY <1>3, <1>4, <1>5 DEF OnceParts

LEMMA OnceUser ==
  ASSUME Reliable, OnceInv, NEW p \in PR, User(p)
  PROVE  OnceParts'
<1>0. TypeOK
  BY DEF OnceInv, LimitInv
<1>1. ASSUME NEW src \in Sources, NEW tier \in Tiers, NEW r \in Replica, Create(p, src, tier, r)
      PROVE  OnceParts'
  <2> DEFINE o == Mutate(p, src, tier, synced[r], clock)
  <2>1. synced[r] = TRUE
    BY <1>0, <1>1 DEF Create, Reliable, TypeOK
  <2>2. o \in Object
    <3>1. synced[r] \in BOOLEAN /\ clock \in Nat
      BY <1>0, ControllerAssumption DEF ControllerAssumption, TypeOK
    <3> QED
      BY <3>1, MutateType
  <2>3. p \in Target => o.status = "Pending"
    BY <2>1 DEF Mutate
  <2> HIDE DEF o
  <2>4. Write(p, o) /\ UNCHANGED localVars
    BY <1>1 DEF Create, o
  <2> QED
    BY <2>2, <2>3, <2>4, WriteOnce
<1>2. ASSUME NEW o \in Object \cup {Absent}, Update(p, o), Evolves(p, o),
             o # Absent /\ o.status = "none" => pr[p].status = "none"
      PROVE  OnceParts'
  <2>1. Write(p, o) /\ UNCHANGED localVars
    BY <1>2 DEF Update
  <2>2. o # Absent /\ o.status = "none" => Started(p)
    BY <1>2 DEF Evolves, Started
  <2> QED
    BY <2>1, <2>2, WriteOnce
<1>3. "release" \notin Env
  BY DEF Reliable
<1> QED
  BY <1>0, <1>1, <1>2, <1>3, UserWrites

LEMMA OnceStep ==
  ASSUME Reliable, OnceInv, [Next]_vars, Exclusively
  PROVE  OnceInv'
<1>1. LimitInv'
  BY LimitStep DEF OnceInv
<1>2. ASSUME NEW r \in Replica, Watcher(r) PROVE OnceParts'
  BY <1>2, OnceWatchList, OnceReplaceCache, OnceDeliver, OnceExpire DEF Watcher
<1>3. ASSUME NEW r \in Replica, Manager(r) PROVE OnceParts'
  <2>1. ~PatchReplyLost(r)
    BY DEF PatchReplyLost, Reliable
  <2> QED
    BY <1>3, <2>1, OnceStartCycle, OnceReadQueue, OncePatch, OnceAck, OncePatchFailed,
       OnceEndCycle DEF Manager
<1>4. ASSUME NEW r \in Replica, Restart(r) PROVE OnceParts'
  BY <1>4, OnceRestart
<1>5. ASSUME NEW k \in PR, User(k) PROVE OnceParts'
  BY <1>5, OnceUser
<1>6. ASSUME \/ Tick \/ (\E n \in Limits : SetLimit(n)) \/ UNCHANGED vars
             \/ \E r \in Replica : BecomeLeader(r) \/ StepDown(r)
      PROVE  OnceParts'
  <2>1. UNCHANGED <<pr, watch, cache, listed, stream, overdue, pc, todo>>
    BY <1>6 DEF Tick, SetLimit, BecomeLeader, StepDown, vars, envVars, watchVars, cycleVars
  <2> QED
    BY <2>1, OnceSame DEF OnceInv
<1>7. OnceParts'
  BY <1>2, <1>3, <1>4, <1>5, <1>6 DEF Next
<1> QED
  BY <1>1, <1>7 DEF OnceInv

\* In a reliable environment the invariant needs of the election what module
\* Leadership says of it.
LEMMA OnceUnderLease ==
  ASSUME Reliable
  PROVE  Spec /\ LeaseKept => []OnceInv
<1>1. Init => OnceInv
  <2> SUFFICES ASSUME Init PROVE OnceInv
    OBVIOUS
  <2>1. LimitInv
    BY LimitInit
  <2>2. OnceParts
    BY DEF Init, OnceParts, StartsTold, StartsSettled, StartsRead, TodoUnstarted, SeenLeft
  <2> QED
    BY <2>1, <2>2 DEF OnceInv
<1>2. OnceInv /\ [Next]_vars /\ [Leads!Next]_(Leads!lvars) => OnceInv'
  BY OnceStep, LeaseExcludes DEF OnceInv, LimitInv
<1> QED
  BY <1>1, <1>2, PTL DEF Spec, LeaseKept, Leads!Spec

\* A copy, however old, that is used to choose runs to start shows no started run
\* waiting, and a cycle names each run once (cache.py 67-109; manager.py 142-183).
THEOREM OnceInvariant ==
  ASSUME Orderly
  PROVE  Spec => []OnceInv
<1>1. Spec => LeaseKept
  BY LeadershipTaken DEF Orderly
<1>2. Spec /\ LeaseKept => []OnceInv
  BY OnceUnderLease DEF Orderly
<1> QED
  BY <1>1, <1>2

\* A patch goes to a run that waits, or was cancelled while it did.
LEMMA FirstStart ==
  ASSUME OnceInv, Next, NEW r \in Replica, pc[r] = "loop", pc'[r] = "ack"
  PROVE  pr[Head(todo[r])].status # "none"
<1>1. PatchApplied(r)
  BY DEF Next, BecomeLeader, StepDown, Restart, Watcher, WatchList, ReplaceCache, Deliver,
         Expire, Manager, StartCycle, ReadQueue, PatchApplied, NextTarget, Ack, AckDone,
         PatchFailed, PatchReplyLost, EndCycle, User, Complete, Touch, Cancel, Delete,
         Release, Create, Update, localVars, SetLimit, Tick, OnceInv, LimitInv, TypeOK
<1>2. todo[r] # <<>> /\ pr[Head(todo[r])] # Absent
  BY <1>1 DEF PatchApplied, NextTarget, Start
<1>3. Head(todo[r]) = todo[r][1] /\ 1 \in DOMAIN todo[r]
  BY <1>2 DEF OnceInv, LimitInv, TypeOK
<1>4. ~Started(todo[r][1])
  BY <1>3 DEF OnceInv, OnceParts, TodoUnstarted
<1> QED
  BY <1>2, <1>3, <1>4 DEF Started

\* No patch goes to a run that has been started, by this cycle, an earlier one or
\* another replica's (manager.py 161; cache.py 84-92): in an orderly environment,
\* with restarts, expired watches and refused patches, and for names that are
\* deleted and used again.
THEOREM NoRedundantStartTheorem ==
  ASSUME Orderly
  PROVE  Spec => NoRedundantStart
<1>1. OnceInv /\ [Next]_vars =>
        [\A r \in Replica : pc[r] = "loop" /\ pc'[r] = "ack" =>
           pr[Head(todo[r])].status # "none"]_vars
  BY FirstStart
<1> QED
  BY <1>1, OnceInvariant, PTL DEF Spec, NoRedundantStart

=============================================================================
