--------------------------- MODULE PromotionProofs ---------------------------
(***************************************************************************)
(* Proof that the promotion log is a chain: for every value of the         *)
(* constants, one replica and names whose runs nobody deletes.             *)
(***************************************************************************)
EXTENDS PromotionLog, StartOrderProofs

\* A tier the run of k has had since its creation.
PastEff(k, x) ==
  \E t \in pr[k].born..clock :
    x = EffTier(pr[k].tier, t - pr[k].born, AgingInterval, AgingMinTier)

\* What a table or the log remembers of k is a past tier of its run; and what
\* the table remembers is no higher than where the log ends.
Remembers(r, k) ==
  /\ lastEff[r][k] # NoTier => pr[k] # Absent /\ PastEff(k, lastEff[r][k])
  /\ promo[k].to # NoTier => pr[k] # Absent /\ PastEff(k, promo[k].to)
  /\ lastEff[r][k] # NoTier /\ promo[k].to # NoTier => lastEff[r][k] <= promo[k].to

PromotionInv ==
  /\ VersionInv
  /\ lastEff \in [Replica -> [PR -> Int]]
  /\ promo \in [PR -> [from: Int, to: Int]]
  /\ \A r \in Replica, k \in PR : Remembers(r, k)

-----------------------------------------------------------------------------
\* The log only watches: its steps are steps of the controller.
LEMMA LogSteps == [PNext]_pvars => [Next]_vars
<1>1. PNext => Next
  BY DEF PNext, Next, ReadQueueLogged, RestartLog, ManagerElse, Manager
<1> QED
  BY <1>1 DEF pvars

\* With time a run becomes only more urgent.
LEMMA EffFalls ==
  ASSUME NEW tier \in Int, NEW born \in Int, NEW t \in Int, NEW u \in Int, t <= u
  PROVE  /\ EffTier(tier, u - born, AgingInterval, AgingMinTier) \in Int
         /\ EffTier(tier, t - born, AgingInterval, AgingMinTier) \in Int
         /\ EffTier(tier, u - born, AgingInterval, AgingMinTier)
              <= EffTier(tier, t - born, AgingInterval, AgingMinTier)
<1>1. u - born \in Int /\ t - born \in Int /\ u - born >= t - born
  OBVIOUS
<1>2. AgingInterval \in Int /\ AgingMinTier \in Int
  BY PipelineRunAssumption DEF PipelineRunAssumption
<1> QED
  BY <1>1, <1>2, OlderStaysAhead, EffTierBounds

\* The tier of now is a past tier, and no past tier is more urgent.
LEMMA EffNowLast ==
  ASSUME TypeOK, Created, NEW k \in PR, pr[k] # Absent
  PROVE  /\ EffNow(pr[k]) \in Int /\ PastEff(k, EffNow(pr[k]))
         /\ \A x : PastEff(k, x) => EffNow(pr[k]) <= x
<1>1. pr[k].tier \in Int /\ pr[k].born \in Int /\ clock \in Int /\ pr[k].born <= clock
  <2>1. pr[k] \in Object
    BY DEF TypeOK, Store
  <2>2. clock \in Int /\ pr[k].born <= clock
    BY DEF TypeOK, Created
  <2> QED
    BY <2>1, <2>2, ObjectNumbers
<1>2. clock \in pr[k].born..clock
  BY <1>1
<1>3. EffNow(pr[k]) \in Int
  BY <1>1, EffFalls DEF EffNow
<1>4. ASSUME NEW x, PastEff(k, x) PROVE EffNow(pr[k]) <= x
  <2>1. PICK t \in pr[k].born..clock :
          x = EffTier(pr[k].tier, t - pr[k].born, AgingInterval, AgingMinTier)
    BY <1>4 DEF PastEff
  <2> QED
    BY <1>1, <2>1, EffFalls DEF EffNow
<1> QED
  BY <1>2, <1>3, <1>4 DEF PastEff, EffNow

\* A run that nobody deletes remains the run it is, and time does not run back.
LEMMA RunsLast ==
  ASSUME "delete" \notin Env, VersionInv, [Next]_vars, NEW k \in PR, pr[k] # Absent
  PROVE  pr'[k] # Absent /\ SameRun(pr'[k], pr[k])
<1>0. TypeOK
  BY DEF VersionInv
<1>1. CASE pr' = pr
  BY <1>1 DEF SameRun
<1>2. ASSUME NEW r \in Replica, PatchApplied(r) \/ PatchReplyLost(r)
      PROVE  pr'[k] # Absent /\ SameRun(pr'[k], pr[k])
  <2>1. PICK h \in PR : Start(h)
    BY <1>2, PatchStarts, TargetInPR
  <2> QED
    BY <1>0, <2>1, StartKeeps DEF SameRun
<1>3. ASSUME NEW p \in PR, User(p) PROVE pr'[k] # Absent /\ SameRun(pr'[k], pr[k])
  <2>1. ASSUME NEW src \in Sources, NEW tier \in Tiers, NEW r \in Replica,
               Create(p, src, tier, r)
        PROVE  pr'[k] = pr[k]
    <3>1. pr[p] = Absent /\ pr' = [pr EXCEPT ![p] = Mutate(p, src, tier, synced[r], clock)]
      BY <2>1 DEF Create, Write
    <3> QED
      BY <1>0, <3>1 DEF TypeOK, Store
  <2>2. ASSUME NEW o \in Object \cup {Absent}, Update(p, o), Evolves(p, o)
        PROVE  pr'[k] # Absent /\ SameRun(pr'[k], pr[k])
    <3>1. /\ pr'[p] = o /\ \A j \in PR : j # p => pr'[j] = pr[j]
      BY <1>0, <2>2, WriteEffect DEF Update
    <3> QED
      BY <2>2, <3>1 DEF Evolves, SameRun
  <2> QED
    BY <1>0, <1>3, <2>1, <2>2, UserWrites DEF SameRun
<1> QED
  BY <1>1, <1>2, <1>3, StoreChange

LEMMA ClockRises ==
  ASSUME TypeOK, [Next]_vars
  PROVE  clock' = clock \/ clock' = clock + 1
<1> USE DEF envVars, watchVars, cycleVars
<1>1. ASSUME NEW r \in Replica, BecomeLeader(r) \/ StepDown(r) \/ Restart(r) \/ Watcher(r)
      PROVE  clock' = clock
  BY <1>1 DEF BecomeLeader, StepDown, Restart, Watcher, WatchList, ReplaceCache, Deliver,
              Expire
<1>2. ASSUME NEW r \in Replica, Manager(r) PROVE clock' = clock
  BY <1>2 DEF Manager, StartCycle, ReadQueue, PatchApplied, Ack, AckDone, PatchFailed,
              PatchReplyLost, EndCycle
<1>3. ASSUME NEW k \in PR, User(k) PROVE clock' = clock
  BY <1>3 DEF User, Complete, Touch, Cancel, Delete, Release, Create, Update
<1>4. ASSUME Tick \/ (\E n \in Limits : SetLimit(n)) \/ UNCHANGED vars
      PROVE  clock' = clock \/ clock' = clock + 1
  BY <1>4 DEF Tick, SetLimit, vars
<1> QED
  BY <1>1, <1>2, <1>3, <1>4 DEF Next

\* A past tier of a run stays one.
LEMMA PastStays ==
  ASSUME "delete" \notin Env, VersionInv, [Next]_vars, NEW k \in PR, pr[k] # Absent,
         NEW x, PastEff(k, x)
  PROVE  pr'[k] # Absent /\ PastEff(k, x)'
<1>1. pr'[k] # Absent /\ pr'[k].tier = pr[k].tier /\ pr'[k].born = pr[k].born
  BY RunsLast DEF SameRun
<1>2. pr[k].born \in Int /\ clock \in Int /\ clock' \in Int /\ clock' >= clock
  <2>1. TypeOK /\ pr[k] \in Object
    BY DEF VersionInv, TypeOK, Store
  <2>2. clock \in Int
    BY <2>1 DEF TypeOK
  <2> QED
    BY <2>1, <2>2, ClockRises, ObjectNumbers
<1>3. PICK t \in pr[k].born..clock :
        x = EffTier(pr[k].tier, t - pr[k].born, AgingInterval, AgingMinTier)
  BY DEF PastEff
<1>4. t \in pr'[k].born..clock'
  BY <1>1, <1>2, <1>3
<1>5. x = EffTier(pr'[k].tier, t - pr'[k].born, AgingInterval, AgingMinTier)
  BY <1>1, <1>3
<1> QED
  BY <1>1, <1>4, <1>5 DEF PastEff

\* A cached run that waits has the tier of the run itself.
LEMMA CachedTier ==
  ASSUME "delete" \notin Env, VersionInv, NEW r \in Replica, NEW k \in PR,
         k \in Waiting(cache[r])
  PROVE  pr[k] # Absent /\ EffNow(cache[r][k]) = EffNow(pr[k])
<1>1. cache[r][k] # Absent
  BY DEF Waiting, Queued
<1>2. pr[k] # Absent /\ SameRun(cache[r][k], pr[k])
  BY <1>1 DEF VersionInv, Versions, Known, Version, Created
<1> QED
  BY <1>2 DEF SameRun, EffNow

\* What the detection does for one key.
LEMMA DetectKey ==
  ASSUME "delete" \notin Env, PromotionInv, NEW r \in Replica, Detect(r), NEW k \in PR
  PROVE  \/ lastEff'[r][k] = NoTier /\ promo'[k] = promo[k]
         \/ /\ pr[k] # Absent /\ lastEff[r][k] = NoTier
            /\ lastEff'[r][k] = EffNow(pr[k]) /\ promo'[k] = promo[k]
         \/ lastEff'[r][k] = lastEff[r][k] /\ promo'[k] = promo[k]
         \/ /\ pr[k] # Absent /\ lastEff[r][k] # NoTier
            /\ EffNow(pr[k]) < lastEff[r][k] /\ lastEff'[r][k] = EffNow(pr[k])
            /\ promo'[k] = [from |-> lastEff[r][k], to |-> EffNow(pr[k])]
<1>1. lastEff'[r] = [i \in PR |-> IF i \notin Waiting(cache[r]) THEN NoTier
                                 ELSE IF lastEff[r][i] = NoTier \/ Promoted(r, i)
                                      THEN EffNow(cache[r][i]) ELSE lastEff[r][i]]
  BY DEF Detect, PromotionInv
<1>2. promo'[k] = IF Promoted(r, k)
                  THEN [from |-> lastEff[r][k], to |-> EffNow(cache[r][k])] ELSE promo[k]
  BY DEF Detect
<1>3. CASE k \notin Waiting(cache[r])
  <2>1. ~Promoted(r, k)
    BY <1>3 DEF Promoted
  <2> QED
    BY <1>1, <1>2, <1>3, <2>1
<1>4. CASE k \in Waiting(cache[r])
  <2>1. pr[k] # Absent /\ EffNow(cache[r][k]) = EffNow(pr[k])
    BY <1>4, CachedTier DEF PromotionInv
  <2>2. lastEff'[r][k] = IF lastEff[r][k] = NoTier \/ Promoted(r, k)
                         THEN EffNow(pr[k]) ELSE lastEff[r][k]
    BY <1>1, <1>4, <2>1
  <2>3. CASE Promoted(r, k)
    <3>1. lastEff[r][k] # NoTier /\ EffNow(pr[k]) < lastEff[r][k]
      BY <2>1, <2>3 DEF Promoted
    <3> QED
      BY <1>2, <2>1, <2>2, <2>3, <3>1
  <2>4. CASE ~Promoted(r, k)
    BY <1>2, <2>1, <2>2, <2>4
  <2> QED
    BY <2>3, <2>4
<1> QED
  BY <1>3, <1>4

LEMMA DetectTypes ==
  ASSUME "delete" \notin Env, PromotionInv, NEW r \in Replica, Detect(r)
  PROVE  /\ lastEff' \in [Replica -> [PR -> Int]]
         /\ promo' \in [PR -> [from: Int, to: Int]]
<1>0. TypeOK /\ Created /\ NoTier \in Int
  BY DEF PromotionInv, VersionInv, Versions, NoTier
<1>1. \A k \in PR : lastEff[r][k] \in Int /\ promo[k] \in [from: Int, to: Int]
  BY DEF PromotionInv
<1>2. \A k \in PR : pr[k] # Absent => EffNow(pr[k]) \in Int
  BY <1>0, EffNowLast
<1>3. \A k \in PR : lastEff'[r][k] \in Int
  BY <1>0, <1>1, <1>2, DetectKey
<1>4. \A k \in PR : promo'[k] \in [from: Int, to: Int]
  <2> SUFFICES ASSUME NEW k \in PR PROVE promo'[k] \in [from: Int, to: Int]
    OBVIOUS
  <2>1. CASE promo'[k] = promo[k]
    BY <1>1, <2>1
  <2>2. CASE promo'[k] # promo[k]
    <3>1. /\ pr[k] # Absent
          /\ promo'[k] = [from |-> lastEff[r][k], to |-> EffNow(pr[k])]
      BY <2>2, DetectKey
    <3> QED
      BY <1>1, <1>2, <3>1
  <2> QED
    BY <2>1, <2>2
<1>5. lastEff'[r] \in [PR -> Int]
  <2>1. \E f : lastEff'[r] = [i \in PR |-> f[i]]
    <3> DEFINE f == [i \in PR |-> IF i \notin Waiting(cache[r]) THEN NoTier
                                 ELSE IF lastEff[r][i] = NoTier \/ Promoted(r, i)
                                      THEN EffNow(cache[r][i]) ELSE lastEff[r][i]]
    <3>1. lastEff'[r] = f
      BY DEF Detect, PromotionInv
    <3>2. f = [i \in PR |-> f[i]]
      OBVIOUS
    <3> HIDE DEF f
    <3> QED
      BY <3>1, <3>2
  <2> QED
    BY <1>3, <2>1
<1>6. lastEff' \in [Replica -> [PR -> Int]]
  BY <1>5 DEF Detect, PromotionInv
<1>7. promo' \in [PR -> [from: Int, to: Int]]
  <2>1. \E f : promo' = [k \in PR |-> f[k]]
    <3> DEFINE f == [k \in PR |-> IF Promoted(r, k)
                                 THEN [from |-> lastEff[r][k], to |-> EffNow(cache[r][k])]
                                 ELSE promo[k]]
    <3>1. promo' = f
      BY DEF Detect
    <3>2. f = [k \in PR |-> f[k]]
      OBVIOUS
    <3> HIDE DEF f
    <3> QED
      BY <3>1, <3>2
  <2> QED
    BY <1>4, <2>1
<1> QED
  BY <1>6, <1>7

LEMMA DetectRemembers ==
  ASSUME "delete" \notin Env, NEW only, Replica = {only}, PromotionInv,
         NEW r \in Replica, Detect(r), UNCHANGED <<pr, clock>>
  PROVE  \A s \in Replica, k \in PR : Remembers(s, k)'
<1> SUFFICES ASSUME NEW k \in PR PROVE Remembers(r, k)'
  OBVIOUS
<1>0. TypeOK /\ Created /\ Remembers(r, k)
  BY DEF PromotionInv, VersionInv, Versions
<1>1. \A x : PastEff(k, x) => PastEff(k, x)'
  BY DEF PastEff
<1>2. pr[k] # Absent => /\ EffNow(pr[k]) \in Int /\ PastEff(k, EffNow(pr[k]))
                        /\ \A x : PastEff(k, x) => EffNow(pr[k]) <= x
  BY <1>0, EffNowLast
<1>3. PICK a, b : a = lastEff'[r][k] /\ b = promo'[k].to
  OBVIOUS
<1>4. /\ a # NoTier => pr[k] # Absent /\ PastEff(k, a)
      /\ b # NoTier => pr[k] # Absent /\ PastEff(k, b)
      /\ a # NoTier /\ b # NoTier => a <= b
  <2>1. CASE lastEff'[r][k] = NoTier /\ promo'[k] = promo[k]
    BY <1>0, <1>3, <2>1 DEF Remembers
  <2>2. CASE lastEff'[r][k] = lastEff[r][k] /\ promo'[k] = promo[k]
    BY <1>0, <1>3, <2>2 DEF Remembers
  <2>3. CASE /\ pr[k] # Absent /\ lastEff[r][k] = NoTier
             /\ lastEff'[r][k] = EffNow(pr[k]) /\ promo'[k] = promo[k]
    BY <1>0, <1>2, <1>3, <2>3 DEF Remembers
  <2>4. CASE /\ pr[k] # Absent /\ lastEff'[r][k] = EffNow(pr[k])
             /\ promo'[k] = [from |-> lastEff[r][k], to |-> EffNow(pr[k])]
    BY <1>2, <1>3, <2>4
  <2> QED
    BY DetectKey, <2>1, <2>2, <2>3, <2>4
<1>5. /\ a # NoTier => pr'[k] # Absent /\ PastEff(k, a)'
      /\ b # NoTier => pr'[k] # Absent /\ PastEff(k, b)'
  BY <1>1, <1>4
<1> QED
  BY <1>3, <1>4, <1>5 DEF Remembers, PastEff

\* What is remembered stays true while the runs and the time go on.
LEMMA RemembersStays ==
  ASSUME "delete" \notin Env, PromotionInv, [Next]_vars, promo' = promo,
         NEW r \in Replica, NEW k \in PR,
         lastEff'[r][k] = lastEff[r][k] \/ lastEff'[r][k] = NoTier
  PROVE  Remembers(r, k)'
<1>0. VersionInv /\ Remembers(r, k)
  BY DEF PromotionInv
<1>1. \A x : pr[k] # Absent /\ PastEff(k, x) => pr'[k] # Absent /\ PastEff(k, x)'
  BY <1>0, PastStays
<1>2. PICK a, b : a = lastEff'[r][k] /\ b = promo'[k].to
  OBVIOUS
<1>3. /\ a # NoTier => pr[k] # Absent /\ PastEff(k, a)
      /\ b # NoTier => pr[k] # Absent /\ PastEff(k, b)
      /\ a # NoTier /\ b # NoTier => a <= b
  BY <1>0, <1>2 DEF Remembers
<1>4. /\ a # NoTier => pr'[k] # Absent /\ PastEff(k, a)'
      /\ b # NoTier => pr'[k] # Absent /\ PastEff(k, b)'
  BY <1>1, <1>3
<1> QED
  BY <1>2, <1>3, <1>4 DEF Remembers, PastEff

LEMMA PromotionStep ==
  ASSUME "delete" \notin Env, NEW only, Replica = {only}
  PROVE  PromotionInv /\ [PNext]_pvars => PromotionInv'
<1> SUFFICES ASSUME PromotionInv, [PNext]_pvars PROVE PromotionInv'
  OBVIOUS
<1>0. NamesOnce /\ VersionInv /\ [Next]_vars
  BY LogSteps DEF NamesOnce, PromotionInv
<1>1. VersionInv'
  BY <1>0, VersionStep
<1>2. ASSUME NEW r \in Replica, ReadQueueLogged(r) PROVE PromotionInv'
  <2>1. Detect(r) /\ UNCHANGED <<pr, clock>>
    BY <1>2 DEF ReadQueueLogged, ReadQueue, envVars
  <2>2. /\ lastEff' \in [Replica -> [PR -> Int]] /\ promo' \in [PR -> [from: Int, to: Int]]
    BY <2>1, DetectTypes
  <2>3. \A s \in Replica, k \in PR : Remembers(s, k)'
    BY <2>1, DetectRemembers
  <2> QED
    BY <1>1, <2>2, <2>3 DEF PromotionInv
<1>3. ASSUME NEW r \in Replica, RestartLog(r) PROVE PromotionInv'
  <2>1. promo' = promo /\ lastEff' = [lastEff EXCEPT ![r] = [k \in PR |-> NoTier]]
    BY <1>3 DEF RestartLog
  <2>2. NoTier \in Int
    BY DEF NoTier
  <2>3. lastEff' \in [Replica -> [PR -> Int]]
    BY <2>1, <2>2 DEF PromotionInv
  <2>4. \A s \in Replica, k \in PR :
          lastEff'[s][k] = lastEff[s][k] \/ lastEff'[s][k] = NoTier
    BY <2>1 DEF PromotionInv
  <2>5. \A s \in Replica, k \in PR : Remembers(s, k)'
    BY <1>0, <2>1, <2>4, RemembersStays
  <2> QED
    BY <1>1, <2>1, <2>3, <2>5 DEF PromotionInv
<1>4. CASE UNCHANGED promoVars
  <2>1. lastEff' = lastEff /\ promo' = promo
    BY <1>4 DEF promoVars
  <2>2. \A s \in Replica, k \in PR : Remembers(s, k)'
    BY <1>0, <2>1, RemembersStays
  <2> QED
    BY <1>1, <2>1, <2>2 DEF PromotionInv
<1> QED
  BY <1>2, <1>3, <1>4 DEF PNext, pvars

\* The promotion log is a chain (manager.py 62-101): what is logged of a run is a
\* tier it had and the smaller one it has now, and it goes on where the last
\* entry of the run ended, or below; over restarts, lost and late events, refused
\* patches and runs that leave the queue and come back. It takes one replica,
\* since each has a table of its own, and that the logged run still exists.
THEOREM PromotionsChainTheorem ==
  ASSUME "delete" \notin Env, NEW only, Replica = {only}
  PROVE  PSpec => PromotionsChain
<1>1. PInit => PromotionInv
  <2> SUFFICES ASSUME PInit PROVE PromotionInv
    OBVIOUS
  <2>1. VersionInv
    BY VersionInit DEF PInit
  <2>2. NoTier \in Int
    BY DEF NoTier
  <2> QED
    BY <2>1, <2>2 DEF PInit, PromotionInv, Remembers
<1>2. PromotionInv /\ [PNext]_pvars => PromotionInv'
  BY PromotionStep
<1>3. PromotionInv /\ [PNext]_pvars =>
        [\A k \in PR : promo'[k] # promo[k] =>
           /\ promo'[k].to = EffNow(pr[k]) /\ promo'[k].to < promo'[k].from
           /\ \E t \in pr[k].born..clock :
                promo'[k].from
                  = EffTier(pr[k].tier, t - pr[k].born, AgingInterval, AgingMinTier)
           /\ promo[k].to # NoTier => promo'[k].from <= promo[k].to]_pvars
  <2> SUFFICES ASSUME PromotionInv, PNext, NEW k \in PR, promo'[k] # promo[k]
               PROVE  /\ promo'[k].to = EffNow(pr[k]) /\ promo'[k].to < promo'[k].from
                      /\ \E t \in pr[k].born..clock :
                           promo'[k].from = EffTier(pr[k].tier, t - pr[k].born,
                                                    AgingInterval, AgingMinTier)
                      /\ promo[k].to # NoTier => promo'[k].from <= promo[k].to
    OBVIOUS
  <2>1. PICK r \in Replica : Detect(r)
    BY DEF PNext, ReadQueueLogged, RestartLog, promoVars
  <2>2. /\ lastEff[r][k] # NoTier /\ EffNow(pr[k]) < lastEff[r][k]
        /\ promo'[k] = [from |-> lastEff[r][k], to |-> EffNow(pr[k])]
    BY <2>1, DetectKey
  <2>3. Remembers(r, k)
    BY DEF PromotionInv
  <2> QED
    BY <2>2, <2>3 DEF Remembers, PastEff
<1> QED
  BY <1>1, <1>2, <1>3, PTL DEF PSpec, PromotionsChain

=============================================================================
