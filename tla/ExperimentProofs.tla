---------------------------- MODULE ExperimentProofs ----------------------------
(***************************************************************************)
(* The results of the experiments, for any records, samples and trials:    *)
(* what a count, a window, a median, a test or a figure shows, and what    *)
(* the template trial concludes.                                           *)
(***************************************************************************)
EXTENDS Samples, TemplateTrial, CampaignProofs, WellFoundedInduction

(***************************************************************************)
(* The least and the greatest of a finite set                              *)
(***************************************************************************)
LEMMA NatLeast ==
  ASSUME NEW S \in SUBSET Nat, S # {}
  PROVE  \E x \in S : \A y \in S : x <= y
<1>1. PICK x \in S : \A y \in S : <<y, x>> \notin OpToRel(<, Nat)
  BY NatLessThanWellFounded, WFMin
<1>2. ASSUME NEW y \in S PROVE x <= y
  <2>1. x \in Nat /\ y \in Nat
    OBVIOUS
  <2>2. ~(y < x)
    BY <1>1, <2>1 DEF OpToRel
  <2> QED
    BY <2>1, <2>2
<1> QED
  BY <1>2

\* In a finite set that R orders there is one with nothing above it: one with
\* the fewest above it.
LEMMA FiniteTop ==
  ASSUME NEW S, IsFiniteSet(S), S # {}, NEW R,
         \A x \in S : <<x, x>> \notin R,
         \A x, y, z \in S : <<x, y>> \in R /\ <<y, z>> \in R => <<x, z>> \in R
  PROVE  \E x \in S : \A y \in S : <<x, y>> \notin R
<1> DEFINE Above(x) == {y \in S : <<x, y>> \in R}
           count    == [x \in S |-> Cardinality(Above(x))]
           counts   == {count[x] : x \in S}
<1>1. ASSUME NEW x \in S
      PROVE  /\ Above(x) \in SUBSET S /\ IsFiniteSet(Above(x))
             /\ count[x] = Cardinality(Above(x)) /\ count[x] \in Nat
  <2>1. Above(x) \in SUBSET S
    OBVIOUS
  <2>2. IsFiniteSet(Above(x))
    BY <2>1, FS_Subset
  <2>3. count[x] = Cardinality(Above(x))
    OBVIOUS
  <2> HIDE DEF Above, count
  <2> QED
    BY <2>1, <2>2, <2>3, FS_CardinalityType
<1>2. ASSUME NEW x \in S, NEW y \in S, <<x, y>> \in R
      PROVE  Above(y) \in SUBSET Above(x) /\ y \in Above(x) /\ y \notin Above(y)
  BY <1>2
<1> HIDE DEF Above, count
<1>3. counts \in SUBSET Nat /\ counts # {} /\ \A x \in S : count[x] \in counts
  BY <1>1
<1>4. PICK n \in counts : \A m \in counts : n <= m
  <2> HIDE DEF counts
  <2> QED
    BY <1>3, NatLeast
<1>5. PICK x \in S : n = count[x]
  BY <1>4
<1>6. ASSUME NEW y \in S, <<x, y>> \in R PROVE FALSE
  <2>1. Above(y) \in SUBSET Above(x) /\ y \in Above(x) /\ y \notin Above(y)
    BY <1>2, <1>6
  <2>2. Cardinality(Above(y)) <= Cardinality(Above(x))
        /\ (Cardinality(Above(x)) = Cardinality(Above(y)) => Above(x) = Above(y))
    BY <1>1, <2>1, FS_Subset
  <2>3. count[x] <= count[y]
    BY <1>3, <1>4, <1>5
  <2>4. Cardinality(Above(x)) = Cardinality(Above(y))
    BY <1>1, <2>2, <2>3
  <2> QED
    BY <2>1, <2>2, <2>4
<1> QED
  BY <1>6

LEMMA FiniteGreatest ==
  ASSUME NEW S \in SUBSET Int, IsFiniteSet(S), S # {}
  PROVE  \E x \in S : \A y \in S : x >= y
<1> DEFINE R == {p \in S \X S : p[1] < p[2]}
<1>1. ASSUME NEW x \in S, NEW y \in S PROVE <<x, y>> \in R <=> x < y
  OBVIOUS
<1>2. ASSUME NEW x \in S PROVE x \in Int
  OBVIOUS
<1> HIDE DEF R
<1>3. \A x \in S : <<x, x>> \notin R
  BY <1>1, <1>2
<1>4. ASSUME NEW x \in S, NEW y \in S, NEW z \in S, <<x, y>> \in R, <<y, z>> \in R
      PROVE  <<x, z>> \in R
  <2>1. x < y /\ y < z /\ x \in Int /\ y \in Int /\ z \in Int
    BY <1>1, <1>2, <1>4
  <2>2. x < z
    BY <2>1
  <2> QED
    BY <1>1, <2>2
<1>5. PICK x \in S : \A y \in S : <<x, y>> \notin R
  BY <1>3, <1>4, FiniteTop
<1>6. ASSUME NEW y \in S PROVE x >= y
  <2>1. x \in Int /\ y \in Int
    BY <1>2
  <2>2. ~(x < y)
    BY <1>1, <1>5
  <2> QED
    BY <2>1, <2>2
<1> QED
  BY <1>6

LEMMA FiniteLeast ==
  ASSUME NEW S \in SUBSET Int, IsFiniteSet(S), S # {}
  PROVE  \E x \in S : \A y \in S : x <= y
<1> DEFINE R == {p \in S \X S : p[1] > p[2]}
<1>1. ASSUME NEW x \in S, NEW y \in S PROVE <<x, y>> \in R <=> x > y
  OBVIOUS
<1>2. ASSUME NEW x \in S PROVE x \in Int
  OBVIOUS
<1> HIDE DEF R
<1>3. \A x \in S : <<x, x>> \notin R
  BY <1>1, <1>2
<1>4. ASSUME NEW x \in S, NEW y \in S, NEW z \in S, <<x, y>> \in R, <<y, z>> \in R
      PROVE  <<x, z>> \in R
  <2>1. x > y /\ y > z /\ x \in Int /\ y \in Int /\ z \in Int
    BY <1>1, <1>2, <1>4
  <2>2. x > z
    BY <2>1
  <2> QED
    BY <1>1, <2>2
<1>5. PICK x \in S : \A y \in S : <<x, y>> \notin R
  BY <1>3, <1>4, FiniteTop
<1>6. ASSUME NEW y \in S PROVE x <= y
  <2>1. x \in Int /\ y \in Int
    BY <1>2
  <2>2. ~(x > y)
    BY <1>1, <1>5
  <2> QED
    BY <2>1, <2>2
<1> QED
  BY <1>6

\* Min and Max are what they are called.
LEMMA MinMax ==
  ASSUME NEW S \in SUBSET Int, IsFiniteSet(S), S # {}
  PROVE  /\ Min(S) \in S /\ \A y \in S : Min(S) <= y
         /\ Max(S) \in S /\ \A y \in S : y <= Max(S)
<1>1. \E x \in S : \A y \in S : x <= y
  BY FiniteLeast
<1>2. \E x \in S : \A y \in S : x >= y
  BY FiniteGreatest
<1>3. Min(S) \in S /\ \A y \in S : Min(S) <= y
  BY <1>1 DEF Min
<1>4. Max(S) \in S /\ \A y \in S : Max(S) >= y
  BY <1>2 DEF Max
<1>5. ASSUME NEW y \in S PROVE y <= Max(S)
  <2>1. y \in Int /\ Max(S) \in Int /\ Max(S) >= y
    BY <1>4
  <2> QED
    BY <2>1
<1> QED
  BY <1>3, <1>4, <1>5

LEMMA MinIs ==
  ASSUME NEW S \in SUBSET Int, NEW x \in S, \A y \in S : x <= y
  PROVE  Min(S) = x
<1>1. \E m \in S : \A y \in S : m <= y
  OBVIOUS
<1>2. Min(S) \in S /\ \A y \in S : Min(S) <= y
  BY <1>1 DEF Min
<1>3. x \in Int /\ Min(S) \in Int /\ Min(S) <= x /\ x <= Min(S)
  BY <1>2
<1> QED
  BY <1>3

LEMMA MaxIs ==
  ASSUME NEW S \in SUBSET Int, NEW x \in S, \A y \in S : x >= y
  PROVE  Max(S) = x
<1>1. \E m \in S : \A y \in S : m >= y
  OBVIOUS
<1>2. Max(S) \in S /\ \A y \in S : Max(S) >= y
  BY <1>1 DEF Max
<1>3. x \in Int /\ Max(S) \in Int /\ Max(S) >= x /\ x >= Max(S)
  BY <1>2
<1> QED
  BY <1>3

(***************************************************************************)
(* The template trial: the watcher                                         *)
(***************************************************************************)
LEMMA SeenAreNumbers ==
  ASSUME WatchInv
  PROVE  /\ Answered \in SUBSET (1..Len(shots)) /\ IsFiniteSet(Answered)
         /\ Len(shots) \in Nat
         /\ \A r \in Role : SeenIn(r) \in SUBSET Answered /\ IsFiniteSet(SeenIn(r))
<1>1. Len(shots) \in Nat /\ DOMAIN shots = 1..Len(shots)
  BY DEF WatchInv
<1>2. IsFiniteSet(1..Len(shots))
  BY <1>1, FS_Interval
<1>3. Answered \in SUBSET (1..Len(shots)) /\ IsFiniteSet(Answered)
  BY <1>1, <1>2, FS_Subset DEF Answered
<1>4. ASSUME NEW r \in Role PROVE SeenIn(r) \in SUBSET Answered /\ IsFiniteSet(SeenIn(r))
  BY <1>3, FS_Subset DEF SeenIn
<1> QED
  BY <1>1, <1>3, <1>4

\* A first time of 0 is that of a template nobody saw started.
LEMMA FirstSeen ==
  ASSUME WatchInv, NEW r \in Role
  PROVE  /\ firstSeen[r] = 0 <=> SeenIn(r) = {}
         /\ SeenIn(r) # {} => firstSeen[r] \in SeenIn(r) /\ \A t \in SeenIn(r) : firstSeen[r] <= t
<1>1. SeenIn(r) \in SUBSET (1..Len(shots)) /\ IsFiniteSet(SeenIn(r)) /\ Len(shots) \in Nat
  BY SeenAreNumbers
<1>2. SeenIn(r) \in SUBSET Int /\ 0 \notin SeenIn(r)
  BY <1>1
<1>3. ASSUME SeenIn(r) # {}
      PROVE  firstSeen[r] \in SeenIn(r) /\ \A t \in SeenIn(r) : firstSeen[r] <= t
  <2>1. firstSeen[r] = Min(SeenIn(r))
    BY <1>3 DEF WatchInv
  <2> QED
    BY <2>1, <1>1, <1>2, <1>3, MinMax
<1>4. SeenIn(r) = {} => firstSeen[r] = 0
  BY DEF WatchInv
<1> QED
  BY <1>2, <1>3, <1>4

LEMMA WatchInit == TrialInit => WatchInv
<1> SUFFICES ASSUME TrialInit PROVE WatchInv
  OBVIOUS
<1>1. there = Role /\ total = 0 /\ started = 0 /\ shots = <<>> /\ last = NoShot
      /\ firstSeen = [r \in Role |-> 0]
  BY DEF TrialInit
<1>2. Answered = {} /\ \A r \in Role : SeenIn(r) = {}
  BY <1>1 DEF Answered, SeenIn
<1> QED
  BY <1>1, <1>2 DEF WatchInv

\* Whatever leaves the watcher alone leaves what it has seen.
LEMMA WatchSame ==
  ASSUME WatchInv, UNCHANGED watcher, there' \in SUBSET Role, total' \in Nat, started' \in Nat
  PROVE  WatchInv'
<1>1. shots' = shots /\ firstSeen' = firstSeen /\ last' = last
  BY DEF watcher
<1>2. Answered' = Answered /\ \A r \in Role : SeenIn(r)' = SeenIn(r)
  BY <1>1 DEF Answered, SeenIn
<1> QED
  BY <1>1, <1>2 DEF WatchInv

LEMMA SnapshotIsShot ==
  ASSUME WatchInv
  PROVE  Snapshot \in Shot
<1>1. there \in SUBSET Role /\ total \in Nat /\ started \in Nat
  BY DEF WatchInv
<1>2. Snapshot.tmpl \in [there -> BOOLEAN] /\ Snapshot.load \in LoadCount
  BY <1>1 DEF Snapshot, LoadCount
<1>3. Snapshot.tmpl \in UNION {[T -> BOOLEAN] : T \in SUBSET Role}
  BY <1>1, <1>2
<1> QED
  BY <1>2, <1>3 DEF Snapshot, Shot

LEMMA PollAnswered ==
  ASSUME WatchInv, last' = Snapshot, shots' = Append(shots, Snapshot), UNCHANGED world,
         firstSeen' = [r \in Role |-> IF r \in Fresh(Snapshot) /\ firstSeen[r] = 0
                                      THEN Len(shots) + 1 ELSE firstSeen[r]]
  PROVE  WatchInv'
<1> DEFINE n == Len(shots) + 1
<1>0. PICK snap \in Shot : snap = Snapshot
  BY SnapshotIsShot
<1>1. /\ n \in Nat \ {0} /\ shots' \in Seq(Shot \cup {NoShot}) /\ snap # NoShot
      /\ DOMAIN shots = 1..Len(shots) /\ DOMAIN shots' = 1..n
      /\ shots'[n] = snap /\ \A t \in 1..Len(shots) : shots'[t] = shots[t]
  BY <1>0, TrialAssumption DEF WatchInv
<1>2. /\ Answered \in SUBSET (1..Len(shots)) /\ Len(shots) \in Nat
      /\ \A r \in Role : SeenIn(r) \in SUBSET Answered /\ IsFiniteSet(SeenIn(r))
  BY SeenAreNumbers
<1>3. \A t \in 1..Len(shots) : t \in Int /\ t <= n /\ t \in 1..n
  <2>1. PICK len \in Nat : len = Len(shots)
    BY <1>2
  <2>2. \A t \in 1..len : t \in Int /\ t <= len + 1 /\ t \in 1..(len + 1)
    OBVIOUS
  <2> QED
    BY <2>1, <2>2
<1>4. n \in 1..n /\ n \in Int /\ \A t \in 1..n : t \in Int /\ n >= t
  <2> HIDE DEF n
  <2> QED
    BY <1>1
<1>5. Answered' = Answered \cup {n}
  BY <1>1, <1>2 DEF Answered
<1>6. ASSUME NEW r \in Role
      PROVE  SeenIn(r)' = IF r \in StartedIn(snap) THEN SeenIn(r) \cup {n} ELSE SeenIn(r)
  BY <1>1, <1>2, <1>5 DEF SeenIn, Answered
<1>7. ASSUME NEW r \in Role
      PROVE  /\ firstSeen'[r] = IF SeenIn(r)' = {} THEN 0 ELSE Min(SeenIn(r)')
             /\ firstSeen'[r] \in Nat
  <2>1. firstSeen'[r] = IF r \in StartedIn(snap) /\ firstSeen[r] = 0 THEN n ELSE firstSeen[r]
    BY <1>0 DEF Fresh
  <2>2. firstSeen[r] \in Nat
    BY DEF WatchInv
  <2>3. CASE SeenIn(r) = {}
    <3>1. firstSeen[r] = 0
      BY <2>3, FirstSeen
    <3>2. Min({n}) = n
      BY <1>1, MinIs
    <3>3. CASE r \in StartedIn(snap)
      <4>1. SeenIn(r)' = {n} /\ firstSeen'[r] = n
        BY <1>6, <2>1, <2>3, <3>1, <3>3
      <4> HIDE DEF n
      <4> QED
        BY <1>1, <3>2, <4>1
    <3>4. CASE r \notin StartedIn(snap)
      BY <1>6, <2>1, <2>3, <3>1, <3>4
    <3> QED
      BY <3>3, <3>4
  <2>4. CASE SeenIn(r) # {}
    <3>1. /\ firstSeen[r] # 0 /\ firstSeen[r] \in SeenIn(r)
          /\ \A t \in SeenIn(r) : firstSeen[r] <= t
      BY <2>4, FirstSeen
    <3>2. firstSeen'[r] = firstSeen[r]
      BY <2>1, <3>1
    <3>3. PICK seen : seen = SeenIn(r)'
      OBVIOUS
    <3>4. /\ seen \in SUBSET Int /\ firstSeen[r] \in seen
          /\ \A t \in seen : firstSeen[r] <= t
      <4>1. seen \in SUBSET (SeenIn(r) \cup {n}) /\ SeenIn(r) \in SUBSET seen
        BY <1>6, <3>3
      <4>2. firstSeen[r] \in 1..Len(shots) /\ firstSeen[r] <= n
        BY <1>2, <1>3, <3>1
      <4>3. SeenIn(r) \cup {n} \in SUBSET Int
        BY <1>2, <1>3, <1>4
      <4> QED
        BY <3>1, <4>1, <4>2, <4>3
    <3>5. Min(seen) = firstSeen[r]
      BY <3>4, MinIs
    <3> QED
      BY <2>2, <3>2, <3>3, <3>4, <3>5
  <2> QED
    BY <2>3, <2>4
<1>8. last' = shots'[Max(Answered')] /\ Answered' # {}
  <2>1. PICK seen : seen = Answered'
    OBVIOUS
  <2>2. seen \in SUBSET Int /\ n \in seen /\ \A t \in seen : n >= t
    <3>1. seen \in SUBSET (1..n) /\ n \in seen
      BY <1>2, <1>5, <1>3, <1>4, <2>1
    <3> QED
      BY <1>4, <3>1
  <2>3. Max(seen) = n
    BY <2>2, MaxIs
  <2> QED
    BY <1>0, <1>1, <1>5, <2>1, <2>3
<1>9. firstSeen' \in [Role -> Nat]
  BY <1>7
<1>10. (there \subseteq Role /\ total \in Nat /\ started \in Nat)'
  BY DEF WatchInv, world
<1> QED
  BY <1>1, <1>7, <1>8, <1>9, <1>10 DEF WatchInv

LEMMA PollFailed ==
  ASSUME WatchInv, shots' = Append(shots, NoShot), UNCHANGED <<firstSeen, last, world>>
  PROVE  WatchInv'
<1>1. /\ shots' \in Seq(Shot \cup {NoShot}) /\ Len(shots) \in Nat
      /\ DOMAIN shots = 1..Len(shots) /\ DOMAIN shots' = 1..(Len(shots) + 1)
      /\ shots'[Len(shots) + 1] = NoShot /\ \A t \in 1..Len(shots) : shots'[t] = shots[t]
  BY DEF WatchInv
<1>2. /\ Answered \in SUBSET (1..Len(shots)) /\ IsFiniteSet(Answered)
      /\ \A r \in Role : SeenIn(r) \in SUBSET Answered
  BY SeenAreNumbers
<1>3. Answered' = Answered
  BY <1>1 DEF Answered
<1>4. ASSUME NEW r \in Role PROVE SeenIn(r)' = SeenIn(r)
  BY <1>1, <1>2, <1>3 DEF SeenIn
<1>5. Answered # {} => shots'[Max(Answered)] = shots[Max(Answered)]
  <2>1. Answered \in SUBSET Int
    BY <1>1, <1>2
  <2>2. Answered # {} => Max(Answered) \in Answered
    BY <1>2, <2>1, MinMax
  <2> QED
    BY <1>1, <1>2, <2>2
<1>6. firstSeen' = firstSeen /\ last' = last /\ there' = there /\ total' = total /\ started' = started
  BY DEF world
<1> QED
  BY <1>1, <1>3, <1>4, <1>5, <1>6 DEF WatchInv

LEMMA WatchStep == WatchInv /\ [TrialNext]_tvars => WatchInv'
<1> SUFFICES ASSUME WatchInv, [TrialNext]_tvars PROVE WatchInv'
  OBVIOUS
<1>1. there \in SUBSET Role /\ total \in Nat /\ started \in Nat
  BY DEF WatchInv
<1>2. CASE World
  <2>1. UNCHANGED watcher
    BY <1>2 DEF World
  <2>2. there' \in SUBSET Role /\ total' \in Nat /\ started' \in Nat
    BY <1>1, <1>2 DEF World
  <2> QED
    BY <2>1, <2>2, WatchSame
<1>3. CASE Poll
  <2>1. UNCHANGED world
    BY <1>3 DEF Poll
  <2>2. CASE shots' = Append(shots, NoShot) /\ UNCHANGED <<firstSeen, last>>
    BY <2>1, <2>2, PollFailed
  <2>3. CASE /\ last' = Snapshot /\ shots' = Append(shots, Snapshot)
             /\ firstSeen' = [r \in Role |-> IF r \in Fresh(Snapshot) /\ firstSeen[r] = 0
                                             THEN Len(shots) + 1 ELSE firstSeen[r]]
    BY <2>1, <2>3, PollAnswered
  <2> QED
    BY <1>3, <2>2, <2>3 DEF Poll
<1>4. CASE Round
  <2>1. UNCHANGED watcher /\ UNCHANGED world
    BY <1>4 DEF Round
  <2> QED
    BY <1>1, <2>1, WatchSame DEF world
<1>5. CASE UNCHANGED tvars
  <2>1. UNCHANGED watcher /\ UNCHANGED world
    BY <1>5 DEF tvars
  <2> QED
    BY <1>1, <2>1, WatchSame DEF world
<1> QED
  BY <1>2, <1>3, <1>4, <1>5 DEF TrialNext

\* What the watcher keeps is what its polls saw: the inductive invariant.
THEOREM WatchInvariant == TrialSpec => []WatchInv
<1> QED
  BY WatchInit, WatchStep, PTL DEF TrialSpec

\* What the watcher reports is what its polls saw, for any number of polls,
\* failed or not, and whatever the cluster does between them
\* (watch_templates.py 48-82, 115-149).
THEOREM ReportIsTrue == TrialSpec => []ReportIsWhatWasSeen
<1>1. ASSUME WatchInv PROVE ReportIsWhatWasSeen
  <2>1. \A r \in Role : firstSeen[r] = IF SeenIn(r) = {} THEN 0 ELSE Min(SeenIn(r))
    BY <1>1 DEF WatchInv
  <2>2. ASSUME Answered # {}
        PROVE  \E u \in Answered :
                 /\ shots[u].load = ReportLoad
                 /\ \A r \in ReportSeen \ ReportStarted :
                      r \in DOMAIN shots[u].tmpl \ StartedIn(shots[u])
                 /\ \A v \in DOMAIN shots : v > u => shots[v] = NoShot
    <3>1. /\ Answered \in SUBSET (1..Len(shots)) /\ IsFiniteSet(Answered)
          /\ Len(shots) \in Nat /\ Answered \in SUBSET Int
      BY <1>1, SeenAreNumbers
    <3>2. PICK u \in Answered : u = Max(Answered) /\ \A y \in Answered : y <= u
      BY <2>2, <3>1, MinMax
    <3>3. last = shots[u]
      BY <1>1, <2>2, <3>2 DEF WatchInv
    <3>4. shots[u] # NoShot /\ shots[u] \in Shot /\ u \in DOMAIN shots
      BY <1>1 DEF WatchInv, Answered
    <3>5. shots[u].load = ReportLoad
      BY <3>3, <3>4 DEF ReportLoad
    <3>6. ASSUME NEW r \in ReportSeen \ ReportStarted
          PROVE  r \in DOMAIN shots[u].tmpl \ StartedIn(shots[u])
      <4>1. r \in DOMAIN shots[u].tmpl
        BY <3>3, <3>4 DEF ReportSeen
      <4>2. shots[u].tmpl \in UNION {[T -> BOOLEAN] : T \in SUBSET Role}
        BY <3>4 DEF Shot
      <4>3. r \in Role
        BY <4>1, <4>2
      <4>4. SeenIn(r) = {}
        BY <1>1, <4>3, FirstSeen DEF ReportStarted
      <4> QED
        BY <4>1, <4>4 DEF SeenIn
    <3>7. ASSUME NEW v \in DOMAIN shots, v > u PROVE shots[v] = NoShot
      <4>1. v \in Int /\ u \in Int
        BY <1>1, <3>1 DEF WatchInv
      <4>2. v \notin Answered
        BY <3>2, <3>7, <4>1
      <4> QED
        BY <4>2 DEF Answered
    <3> QED
      BY <3>5, <3>6, <3>7
  <2> QED
    BY <2>1, <2>2 DEF ReportIsWhatWasSeen
<1> QED
  BY <1>1, WatchInvariant, PTL

(***************************************************************************)
(* The template trial: the verdict                                         *)
(***************************************************************************)
LEMMA Conditions == ToSet(CondOrder) = {"k", "p", "v"} /\ DOMAIN CondOrder = 1..3
<1>1. DOMAIN CondOrder = 1..3
      /\ CondOrder[1] = "k" /\ CondOrder[2] = "p" /\ CondOrder[3] = "v"
  BY DEF CondOrder
<1>2. 1..3 = {1, 2, 3}
  OBVIOUS
<1>3. ToSet(CondOrder) = {CondOrder[i] : i \in {1, 2, 3}}
  BY <1>1, <1>2 DEF ToSet
<1> QED
  BY <1>1, <1>3

LEMMA FilesStep == FilesTyped /\ [TrialNext]_tvars => FilesTyped'
<1> SUFFICES ASSUME FilesTyped, [TrialNext]_tvars PROVE FilesTyped'
  OBVIOUS
<1>1. CASE World \/ Poll \/ UNCHANGED tvars
  BY <1>1 DEF World, Poll, tvars, FilesTyped
<1>2. CASE Round
  <2>1. PICK c \in 1..3, o \in Outcomes, l \in Loads :
          files' = Append(files, Report(CondOrder[c], o, l))
    BY <1>2 DEF Round
  <2>2. CondOrder[c] \in {"k", "p", "v"}
    BY DEF CondOrder
  <2>3. o \in SUBSET Role /\ l \in LoadCount
    BY TrialAssumption
  <2>4. Report(CondOrder[c], o, l) \in [condition: {"k", "p", "v"}, started: SUBSET Role,
                                        load: LoadCount]
    BY <2>2, <2>3 DEF Report
  <2> HIDE DEF Report
  <2> QED
    BY <2>1, <2>4 DEF FilesTyped
<1> QED
  BY <1>1, <1>2 DEF TrialNext

THEOREM FilesInvariant == TrialSpec => []FilesTyped
<1>1. TrialInit => FilesTyped
  BY DEF TrialInit, FilesTyped
<1> QED
  BY <1>1, FilesStep, PTL DEF TrialSpec

\* The rounds of a condition are finitely many, and those in which a role was
\* started are some of them.
LEMMA RoundsFinite ==
  ASSUME FilesTyped, NEW c, NEW r
  PROVE  /\ IsFiniteSet(Live(c)) /\ Cardinality(Live(c)) \in Nat
         /\ IsFiniteSet(Ran(c, r)) /\ Cardinality(Ran(c, r)) \in Nat
         /\ Ran(c, r) \in SUBSET Live(c)
         /\ Cardinality(Ran(c, r)) = 0 <=> Ran(c, r) = {}
         /\ Cardinality(Live(c)) = 0 <=> Live(c) = {}
         /\ Cardinality(Ran(c, r)) = Cardinality(Live(c)) => Ran(c, r) = Live(c)
<1>1. IsFiniteSet(DOMAIN files)
  <2>1. Len(files) \in Nat /\ DOMAIN files = 1..Len(files)
    BY DEF FilesTyped
  <2> QED
    BY <2>1, FS_Interval
<1>2. Live(c) \in SUBSET DOMAIN files /\ Ran(c, r) \in SUBSET Live(c)
  BY DEF Live, Ran
<1>3. IsFiniteSet(Live(c)) /\ IsFiniteSet(Ran(c, r))
  BY <1>1, <1>2, FS_Subset
<1> QED
  BY <1>2, <1>3, FS_Subset, FS_CardinalityType, FS_EmptySet

\* What a round at odds with its expectation looks like.
LEMMA Odds ==
  ASSUME FilesTyped, NEW i \in DOMAIN files
  PROVE  LET f == files[i] IN
         /\ f.condition = "k" => Mismatch(f) = {"other-sa"} \ f.started
         /\ f.condition = "p" => Mismatch(f) = {"pre", "other-sa"} \cap f.started
         /\ f.condition = "v" => Mismatch(f) = {"pre", "other-sa"} \cap f.started
<1> DEFINE f == files[i]
<1>1. f.condition = "k" => Mismatch(f) = {"other-sa"} \ f.started
  <2>1. Expect["k"] = [r \in {"other-sa"} |-> TRUE]
    BY DEF Expect
  <2> QED
    BY <2>1 DEF Mismatch
<1>2. f.condition = "p" => Mismatch(f) = {"pre", "other-sa"} \cap f.started
  <2>1. Expect["p"] = [r \in {"pre", "other-sa"} |-> FALSE]
    BY DEF Expect
  <2>2. PICK want : want = Expect["p"]
    OBVIOUS
  <2>3. DOMAIN want = {"pre", "other-sa"} /\ \A r \in DOMAIN want : want[r] = FALSE
    BY <2>1, <2>2
  <2>4. \A r \in DOMAIN want : (r \in f.started) # want[r] <=> r \in f.started
    <3>1. ASSUME NEW r \in DOMAIN want, r \in f.started PROVE (r \in f.started) # want[r]
      <4>1. want[r] = FALSE /\ (r \in f.started) = TRUE
        BY <2>3, <3>1
      <4>2. TRUE # FALSE
        OBVIOUS
      <4> QED
        BY <4>1, <4>2
    <3>2. ASSUME NEW r \in DOMAIN want, r \notin f.started PROVE (r \in f.started) = want[r]
      <4>1. want[r] = FALSE /\ (r \in f.started) = FALSE
        BY <2>3, <3>2
      <4> QED
        BY <4>1
    <3> QED
      BY <3>1, <3>2
  <2>5. ASSUME f.condition = "p" PROVE Mismatch(f) = {r \in DOMAIN want : r \in f.started}
    <3>1. Mismatch(f) = {r \in DOMAIN want : (r \in f.started) # want[r]}
      BY <2>2, <2>5 DEF Mismatch
    <3> QED
      BY <2>4, <3>1
  <2> QED
    BY <2>3, <2>5
<1>3. f.condition = "v" => Mismatch(f) = {"pre", "other-sa"} \cap f.started
  <2>1. Expect["v"] = [r \in {"pre", "other-sa"} |-> FALSE]
    BY DEF Expect
  <2>2. PICK want : want = Expect["v"]
    OBVIOUS
  <2>3. DOMAIN want = {"pre", "other-sa"} /\ \A r \in DOMAIN want : want[r] = FALSE
    BY <2>1, <2>2
  <2>4. \A r \in DOMAIN want : (r \in f.started) # want[r] <=> r \in f.started
    <3>1. ASSUME NEW r \in DOMAIN want, r \in f.started PROVE (r \in f.started) # want[r]
      <4>1. want[r] = FALSE /\ (r \in f.started) = TRUE
        BY <2>3, <3>1
      <4>2. TRUE # FALSE
        OBVIOUS
      <4> QED
        BY <4>1, <4>2
    <3>2. ASSUME NEW r \in DOMAIN want, r \notin f.started PROVE (r \in f.started) = want[r]
      <4>1. want[r] = FALSE /\ (r \in f.started) = FALSE
        BY <2>3, <3>2
      <4> QED
        BY <4>1
    <3> QED
      BY <3>1, <3>2
  <2>5. ASSUME f.condition = "v" PROVE Mismatch(f) = {r \in DOMAIN want : r \in f.started}
    <3>1. Mismatch(f) = {r \in DOMAIN want : (r \in f.started) # want[r]}
      BY <2>2, <2>5 DEF Mismatch
    <3> QED
      BY <2>4, <3>1
  <2> QED
    BY <2>3, <2>5
<1> QED
  BY <1>1, <1>2, <1>3

\* In a live round new runs have been started.
LEMMA LiveHasRuns ==
  ASSUME FilesTyped, NEW c, NEW i \in Live(c)
  PROVE  files[i].load.started > 0 /\ files[i].condition = c /\ i \in DOMAIN files
<1>1. i \in DOMAIN files /\ files[i].condition = c /\ Alive(files[i])
  BY DEF Live
<1>2. files[i].load \in LoadCount
  <2> DEFINE File == [condition: {"k", "p", "v"}, started: SUBSET Role, load: LoadCount]
  <2>1. files \in Seq(File)
    BY DEF FilesTyped
  <2>2. files[i] \in File
    <3> HIDE DEF File
    <3> QED
      BY <1>1, <2>1
  <2> QED
    BY <2>2
<1>3. PICK total_ \in Nat, started_ \in Nat :
        files[i].load.total = total_ /\ files[i].load.started = started_
  BY <1>2 DEF LoadCount
<1>4. total_ # 0 /\ started_ * 10 >= total_ * 8
  BY <1>1, <1>3 DEF Alive
<1> QED
  BY <1>1, <1>3, <1>4

LEMMA VerdictCases ==
  ASSUME FilesTyped
  PROVE  /\ TrialVerdict = "refuted" <=> Ran("p", "other-sa") # {}
         /\ TrialVerdict = "complete" <=>
              /\ Ran("p", "other-sa") = {}
              /\ Cardinality(Live("k")) >= 3 /\ Ran("k", "other-sa") = Live("k")
              /\ Ran("v", "pre") \cup Ran("v", "other-sa") = {}
<1> DEFINE k_ok    == Cardinality(Ran("k", "other-sa"))
           p_leak  == Cardinality(Ran("p", "other-sa"))
           p_split == Cardinality(Live("p")) - p_leak
           v_none  == Live("v") \ (Ran("v", "pre") \cup Ran("v", "other-sa"))
           least   == k_ok >= 3 /\ k_ok = Cardinality(Live("k")) /\ v_none = Live("v")
<1>1. /\ p_leak \in Nat /\ k_ok \in Nat /\ Cardinality(Live("k")) \in Nat
      /\ p_leak = 0 <=> Ran("p", "other-sa") = {}
      /\ k_ok = Cardinality(Live("k")) <=> Ran("k", "other-sa") = Live("k")
  BY RoundsFinite
<1>2. v_none = Live("v") <=> Ran("v", "pre") \cup Ran("v", "other-sa") = {}
  BY DEF Ran
<1>3. TrialVerdict =
        CASE p_leak > 0                                -> "refuted"
          [] p_leak = 0 /\ k_ok = 0 /\ Live("k") # {}  -> "not reproduced"
          [] p_leak = 0 /\ k_ok >= 3 /\ k_ok = Cardinality(Live("k"))
               /\ v_none = Live("v")                   -> "complete"
          [] OTHER -> IF k_ok >= 2 /\ p_split >= 2 THEN "partial" ELSE "open"
  BY DEF TrialVerdict
<1> HIDE DEF k_ok, p_leak, p_split, v_none
<1>4. p_leak # 0 => TrialVerdict = "refuted"
  BY <1>1, <1>3
<1>5. p_leak = 0 /\ least => TrialVerdict = "complete"
  BY <1>1, <1>3
<1>6. p_leak = 0 /\ ~least => TrialVerdict \notin {"refuted", "complete"}
  <2> SUFFICES ASSUME p_leak = 0, ~least
               PROVE  TrialVerdict \notin {"refuted", "complete"}
    OBVIOUS
  <2>1. CASE k_ok = 0 /\ Live("k") # {}
    <3>0. ~(p_leak > 0) /\ ~(k_ok >= 3) /\ p_leak = 0
      BY <1>1, <2>1
    <3>1. TrialVerdict = "not reproduced"
      BY <1>3, <2>1, <3>0, Zenon
    <3> QED
      BY <3>1
  <2>2. CASE ~(k_ok = 0 /\ Live("k") # {})
    <3>0. ~(p_leak > 0)
      BY <1>1
    <3>1. TrialVerdict = IF k_ok >= 2 /\ p_split >= 2 THEN "partial" ELSE "open"
      BY <1>3, <2>2, <3>0, Zenon
    <3> QED
      BY <3>1
  <2> QED
    BY <2>1, <2>2
<1>7. least <=> /\ Cardinality(Live("k")) >= 3 /\ Ran("k", "other-sa") = Live("k")
                /\ Ran("v", "pre") \cup Ran("v", "other-sa") = {}
  BY <1>1, <1>2
<1> QED
  BY <1>1, <1>4, <1>5, <1>6, <1>7

\* The verdict agrees with what the rounds were expected to show, for any
\* number of rounds with any loads (judge.py 28-65, 97-137).
THEOREM VerdictIsOfRounds == TrialSpec => []VerdictFollowsRounds
<1>1. ASSUME FilesTyped PROVE VerdictFollowsRounds
  <2> DEFINE live == UNION {Live(c) : c \in ToSet(CondOrder)}
  <2> USE <1>1
  <2>1. live = Live("k") \cup Live("p") \cup Live("v")
    BY Conditions
  <2>2. \A c : \A i \in Live(c) : /\ i \in DOMAIN files /\ files[i].condition = c
                                  /\ files[i].load.started > 0
    BY LiveHasRuns
  <2>3. ASSUME TrialVerdict = "complete"
        PROVE  /\ Cardinality({i \in Live("k") : files[i].load.started > 0}) >= 3
               /\ \A i \in live : Mismatch(files[i]) \subseteq
                                    {r \in {"pre"} : files[i].condition = "p"}
    <3>1. /\ Ran("p", "other-sa") = {}
          /\ Cardinality(Live("k")) >= 3 /\ Ran("k", "other-sa") = Live("k")
          /\ Ran("v", "pre") \cup Ran("v", "other-sa") = {}
      BY <2>3, VerdictCases
    <3>2. {i \in Live("k") : files[i].load.started > 0} = Live("k")
      BY <2>2
    <3>3. ASSUME NEW i \in Live("k") PROVE Mismatch(files[i]) = {}
      BY <2>2, <3>1, Odds DEF Ran
    <3>4. ASSUME NEW i \in Live("p") PROVE Mismatch(files[i]) \subseteq {"pre"}
      BY <2>2, <3>1, Odds DEF Ran
    <3>5. ASSUME NEW i \in Live("v") PROVE Mismatch(files[i]) = {}
      BY <2>2, <3>1, Odds DEF Ran
    <3>6. ASSUME NEW i \in live
          PROVE  Mismatch(files[i]) \subseteq {r \in {"pre"} : files[i].condition = "p"}
      <4> HIDE DEF live
      <4> QED
        BY <2>1, <2>2, <3>3, <3>4, <3>5
    <3> QED
      BY <3>1, <3>2, <3>6
  <2>4. (\E i \in Live("p") : "other-sa" \in files[i].started) <=> TrialVerdict = "refuted"
    BY VerdictCases DEF Ran
  <2>5. ASSUME Cardinality(Live("k")) >= 3, \A i \in live : Mismatch(files[i]) = {}
        PROVE  TrialVerdict = "complete"
    <3>1. \A i \in Live("k") : "other-sa" \in files[i].started
      BY <2>1, <2>2, <2>5, Odds
    <3>2. \A i \in Live("p") : "other-sa" \notin files[i].started
      BY <2>1, <2>2, <2>5, Odds
    <3>3. \A i \in Live("v") : "pre" \notin files[i].started /\ "other-sa" \notin files[i].started
      BY <2>1, <2>2, <2>5, Odds
    <3> QED
      BY <2>5, <3>1, <3>2, <3>3, VerdictCases DEF Ran
  <2> HIDE DEF live
  <2>6. /\ TrialVerdict = "complete" =>
             /\ Cardinality({i \in Live("k") : files[i].load.started > 0}) >= 3
             /\ \A i \in live : Mismatch(files[i]) \subseteq
                                  {r \in {"pre"} : files[i].condition = "p"}
        /\ (\E i \in Live("p") : "other-sa" \in files[i].started) <=> TrialVerdict = "refuted"
        /\ Cardinality(Live("k")) >= 3 /\ (\A i \in live : Mismatch(files[i]) = {}) =>
             TrialVerdict = "complete"
    BY <2>3, <2>4, <2>5
  <2> QED
    BY <2>6 DEF live, VerdictFollowsRounds
<1> QED
  BY <1>1, FilesInvariant, PTL

(***************************************************************************)
(* The records of a sheet                                                  *)
(***************************************************************************)
THEOREM SheetInvariant == ResultsSpec => []SheetTyped
<1>1. ResultsInit => SheetTyped
  BY DEF ResultsInit, SheetTyped
<1>2. SheetTyped /\ [ResultsNext]_rvars => SheetTyped'
  <2> SUFFICES ASSUME SheetTyped, [ResultsNext]_rvars PROVE SheetTyped'
    OBVIOUS
  <2>1. CASE Record
    <3>1. PICK x \in Records[what] : data' = Append(data, x)
      BY <2>1 DEF Record
    <3>2. what' = what /\ other' = other
      BY <2>1 DEF Record
    <3> QED
      BY <3>1, <3>2 DEF SheetTyped
  <2>2. CASE RecordOther
    <3>1. PICK x \in Numbers : other' = Append(other, x)
      BY <2>2 DEF RecordOther
    <3>2. what' = what /\ data' = data
      BY <2>2 DEF RecordOther
    <3> QED
      BY <3>1, <3>2 DEF SheetTyped
  <2>3. CASE UNCHANGED rvars
    BY <2>3 DEF rvars, SheetTyped
  <2> QED
    BY <2>1, <2>2, <2>3 DEF ResultsNext
<1> QED
  BY <1>1, <1>2, PTL DEF ResultsSpec

LEMMA ImageFinite ==
  ASSUME NEW S, IsFiniteSet(S), NEW f
  PROVE  IsFiniteSet({f[x] : x \in S})
<1> DEFINE g == [x \in S |-> f[x]]
           T == {f[x] : x \in S}
<1>1. g \in Surjection(S, T)
  BY DEF Surjection
<1> HIDE DEF g, T
<1>2. IsFiniteSet(T)
  BY <1>1, FS_Surjection
<1> QED
  BY <1>2 DEF T

\* A window reaches back no further than it is wide, so with the warm-up left
\* out the peak is of the measurement alone, for any window, lead and record
\* (resource_collect.py 220-284, 137-138).
THEOREM PeakIsOwn == ResultsSpec => []PeaksAreOwn
<1>1. ASSUME SheetTyped, what = "traffic", Len(data) >= Begin + Window
      PROVE  Peak = "slow" <=> \E j \in (Begin + 1)..Len(data) : data[j] = "slow"
  <2> DEFINE moments == {i \in DOMAIN data : i >= Begin /\ i >= Begin + Window}
             seen(i) == {data[j] : j \in {j \in DOMAIN data : j > i - Window /\ j <= i}}
  <2>1. PICK len \in Nat : len = Len(data) /\ DOMAIN data = 1..len
    BY <1>1 DEF SheetTyped
  <2>2. Begin \in Nat \ {0} /\ Window \in Nat \ {0} /\ len >= Begin + Window
    BY <1>1, <2>1, ResultsAssumption DEF Begin
  <2>3. Peak = "slow" <=> "slow" \in {Sample(i) : i \in moments}
    BY DEF Peak, PeakOver
  <2>4. ASSUME NEW i PROVE Sample(i) = "slow" <=> "slow" \in seen(i)
    BY DEF Sample
  <2>5. ASSUME NEW i \in moments, "slow" \in seen(i)
        PROVE  \E j \in (Begin + 1)..len : data[j] = "slow"
    <3>1. PICK j \in 1..len : j > i - Window /\ j <= i /\ data[j] = "slow"
      BY <2>1, <2>5
    <3>2. i \in Int /\ i >= Begin + Window
      BY <2>1, <2>5
    <3>3. j \in (Begin + 1)..len
      BY <2>1, <2>2, <3>1, <3>2
    <3> QED
      BY <3>1, <3>3
  <2>6. ASSUME NEW j \in (Begin + 1)..len, data[j] = "slow"
        PROVE  \E i \in moments : "slow" \in seen(i)
    <3> DEFINE i == IF j >= Begin + Window THEN j ELSE Begin + Window
    <3>1. i \in 1..len /\ i >= Begin /\ i >= Begin + Window /\ j > i - Window /\ j <= i /\ j \in 1..len
      BY <2>1, <2>2, <2>6
    <3> HIDE DEF i
    <3>2. i \in moments /\ "slow" \in seen(i)
      BY <2>1, <2>6, <3>1
    <3> QED
      BY <3>2
  <2> HIDE DEF moments, seen
  <2> QED
    BY <2>1, <2>3, <2>4, <2>5, <2>6
<1>2. SheetTyped => PeaksAreOwn
  BY <1>1 DEF PeaksAreOwn
<1> QED
  BY <1>2, SheetInvariant, PTL

\* A row of a round's CSV, and what of it was there at time X.
LEMMA RowFacts ==
  ASSUME SheetTyped, what = "runs", NEW i \in DOMAIN data
  PROVE  /\ data[i].start \in Int /\ data[i].end \in Int
         /\ data[i].start = None \/ data[i].start >= 0
         /\ data[i].end = None \/ data[i].end >= 0
         /\ data[i].result = "True" =>
              data[i].start # None /\ data[i].end # None /\ data[i].start <= data[i].end
<1> DEFINE Fit == {r \in Row : Sensible(r)}
<1>1. Records["runs"] = Fit
  BY DEF Records
<1>2. data[i] \in Fit
  <2> HIDE DEF Fit
  <2> QED
    BY <1>1 DEF SheetTyped
<1>3. data[i] \in Row /\ Sensible(data[i])
  BY <1>2
<1>4. data[i].start \in Times \cup {None} /\ data[i].end \in Times \cup {None}
  BY <1>3 DEF Row
<1>5. data[i].result = "True" =>
        data[i].start # None /\ data[i].end # None /\ data[i].start <= data[i].end
  BY <1>3 DEF Sensible
<1>6. \A t \in Times \cup {None} : t \in Int /\ (t = None \/ t >= 0)
  BY ResultsAssumption
<1> HIDE DEF Fit
<1> QED
  BY <1>4, <1>5, <1>6

LEMMA CutFacts ==
  ASSUME SheetTyped, what = "runs", NEW X \in Times, NEW i \in DOMAIN data
  PROVE  LET early == Cut(data, X) IN
         /\ early[i].start = IF data[i].start <= X THEN data[i].start ELSE None
         /\ early[i].end = None \/ (early[i].end = data[i].end /\ early[i].end <= X)
         /\ early[i].result = "True" =>
              data[i].result = "True" /\ early[i].end = data[i].end
         /\ data[i].result = "True" /\ data[i].end <= X =>
              early[i].result = "True" /\ early[i].end = data[i].end
<1> DEFINE r == data[i]
           Kept == r.end <= X /\ r.start <= X
           early == Cut(data, X)
<1>1. X \in Nat /\ None \in Int /\ None < 0
  BY ResultsAssumption
<1>2. /\ r.start \in Int /\ r.end \in Int
      /\ r.result = "True" => r.start # None /\ r.end # None /\ r.start <= r.end
  BY RowFacts
<1>3. early[i] = IF Kept THEN r
                 ELSE [start |-> IF r.start <= X THEN r.start ELSE None,
                       end |-> None, result |-> "Unknown"]
  BY DEF Cut
<1>4. r.result = "True" /\ r.end <= X => Kept
  BY <1>1, <1>2
<1> HIDE DEF early, r
<1> SUFFICES /\ early[i].start = IF r.start <= X THEN r.start ELSE None
             /\ early[i].end = None \/ (early[i].end = r.end /\ early[i].end <= X)
             /\ early[i].result = "True" => r.result = "True" /\ early[i].end = r.end
             /\ r.result = "True" /\ r.end <= X =>
                  early[i].result = "True" /\ early[i].end = r.end
  BY DEF early, r
<1>5. CASE Kept
  <2>1. early[i] = r
    BY <1>3, <1>5
  <2> QED
    BY <1>5, <2>1
<1>6. CASE ~Kept
  <2>1. /\ early[i].start = IF r.start <= X THEN r.start ELSE None
        /\ early[i].end = None /\ early[i].result = "Unknown"
    BY <1>3, <1>6
  <2>2. "Unknown" # "True"
    OBVIOUS
  <2>3. ~(r.result = "True" /\ r.end <= X)
    BY <1>4, <1>6
  <2> QED
    BY <2>1, <2>2, <2>3
<1> QED
  BY <1>5, <1>6

LEMMA MinOfTwo ==
  ASSUME NEW a \in Int, NEW b \in Int
  PROVE  Min({a, b}) \in {a, b} /\ Min({a, b}) <= a /\ Min({a, b}) <= b
<1>1. CASE a <= b
  <2>1. Min({a, b}) = a
    BY <1>1, MinIs
  <2> QED
    BY <1>1, <2>1
<1>2. CASE ~(a <= b)
  <2>1. Min({a, b}) = b
    BY <1>2, MinIs
  <2> QED
    BY <1>2, <2>1
<1> QED
  BY <1>1, <1>2

LEMMA TimesFinite ==
  ASSUME NEW rows, IsFiniteSet(DOMAIN rows),
         \A i \in DOMAIN rows : rows[i].start \in Int /\ rows[i].end \in Int
  PROVE  /\ Starts(rows) \in SUBSET Int /\ IsFiniteSet(Starts(rows))
         /\ Ends(rows) \in SUBSET Int /\ IsFiniteSet(Ends(rows))
<1> DEFINE s == [i \in DOMAIN rows |-> rows[i].start]
           e == [i \in DOMAIN rows |-> rows[i].end]
<1>1. IsFiniteSet({s[i] : i \in DOMAIN rows}) /\ IsFiniteSet({e[i] : i \in DOMAIN rows})
  <2> HIDE DEF s, e
  <2> QED
    BY ImageFinite
<1>2. Starts(rows) \in SUBSET {s[i] : i \in DOMAIN rows}
      /\ Ends(rows) \in SUBSET {e[i] : i \in DOMAIN rows}
  BY DEF Starts, Ends
<1>3. IsFiniteSet(Starts(rows)) /\ IsFiniteSet(Ends(rows))
  BY <1>1, <1>2, FS_Subset
<1> QED
  BY <1>3 DEF Starts, Ends

\* The span both rounds were observed for ends no later than the shorter one.
LEMMA CommonSpanEnds ==
  ASSUME SheetTyped, what = "runs", NEW X \in Times, Starts(Cut(data, X)) # {}
  PROVE  LET early == Cut(data, X)
             m == Min(Starts(early))
         IN  /\ m \in Int /\ m = Min(Starts(data))
             /\ CommonSpan(early, data) \in Int
             /\ CommonSpan(early, data) <= X - m
<1> DEFINE early == Cut(data, X)
           m == Min(Starts(early))
<1>1. X \in Nat /\ None \in Int /\ None < 0
  BY ResultsAssumption
<1>2. DOMAIN early = DOMAIN data /\ IsFiniteSet(DOMAIN data)
  <2>1. Len(data) \in Nat /\ DOMAIN data = 1..Len(data)
    BY DEF SheetTyped
  <2> QED
    BY <2>1, FS_Interval DEF Cut
<1>3. ASSUME NEW i \in DOMAIN data
      PROVE  /\ data[i].start \in Int /\ data[i].end \in Int
             /\ early[i].start \in Int /\ early[i].end \in Int
             /\ early[i].start = IF data[i].start <= X THEN data[i].start ELSE None
             /\ early[i].end = None \/ early[i].end <= X
  BY <1>1, RowFacts, CutFacts
<1> HIDE DEF early
<1>4. /\ Starts(early) \in SUBSET Int /\ IsFiniteSet(Starts(early))
      /\ Ends(early) \in SUBSET Int /\ IsFiniteSet(Ends(early))
      /\ Starts(data) \in SUBSET Int /\ IsFiniteSet(Starts(data))
      /\ Ends(data) \in SUBSET Int /\ IsFiniteSet(Ends(data))
  BY <1>2, <1>3, TimesFinite
<1>5. /\ \A t \in Starts(early) : t \in Starts(data) /\ t <= X
      /\ \A t \in Starts(data) : t <= X => t \in Starts(early)
      /\ \A t \in Ends(early) : t <= X
  BY <1>2, <1>3 DEF Starts, Ends
<1>6. m \in Starts(early) /\ \A t \in Starts(early) : m <= t
  BY <1>4, MinMax DEF early
<1>7. \A t \in Starts(data) : m <= t
  <2> SUFFICES ASSUME NEW t \in Starts(data) PROVE m <= t
    OBVIOUS
  <2>1. t \in Int /\ m \in Int /\ m <= X
    BY <1>4, <1>5, <1>6
  <2>2. CASE t <= X
    BY <1>5, <1>6, <2>2
  <2>3. CASE ~(t <= X)
    BY <1>1, <2>1, <2>3
  <2> QED
    BY <2>2, <2>3
<1>8. m \in Int /\ m <= X /\ m = Min(Starts(data))
  BY <1>4, <1>5, <1>6, <1>7, MinIs
<1>9. ObsSpan(early) \in Int /\ ObsSpan(early) <= X - m
  <2>1. CASE Ends(early) = {}
    BY <1>1, <1>8, <2>1 DEF ObsSpan
  <2>2. CASE Ends(early) # {}
    <3>1. Max(Ends(early)) \in Ends(early)
      BY <1>4, <2>2, MinMax
    <3>2. Max(Ends(early)) \in Int /\ Max(Ends(early)) <= X
      BY <1>4, <1>5, <3>1
    <3>3. ObsSpan(early) = Max(Ends(early)) - m
      BY <1>6, <2>2 DEF ObsSpan
    <3> QED
      BY <1>1, <1>8, <3>2, <3>3
  <2> QED
    BY <2>1, <2>2
<1>10. ObsSpan(data) \in Int
  <2>1. CASE Starts(data) = {} \/ Ends(data) = {}
    BY <2>1 DEF ObsSpan
  <2>2. CASE Starts(data) # {} /\ Ends(data) # {}
    BY <1>4, <2>2, MinMax DEF ObsSpan
  <2> QED
    BY <2>1, <2>2
<1>11. CommonSpan(early, data) \in Int /\ CommonSpan(early, data) <= X - m
  <2>1. CommonSpan(early, data) \in {ObsSpan(early), ObsSpan(data)}
        /\ CommonSpan(early, data) <= ObsSpan(early)
    BY <1>9, <1>10, MinOfTwo DEF CommonSpan
  <2> QED
    BY <1>1, <1>8, <1>9, <1>10, <2>1
<1> QED
  BY <1>8, <1>11 DEF early

\* A round observed longer gains nothing by it, whatever its runs and whenever
\* it was collected (make_ch4_tables.py 645-670).
THEOREM CommonWindowIsFair == ResultsSpec => []CommonWindowFair
<1>1. ASSUME SheetTyped, what = "runs", NEW X \in Times, Starts(Cut(data, X)) # {}
      PROVE  LET early == Cut(data, X)
                 T     == CommonSpan(early, data)
             IN  SuccAt(early, T) = SuccAt(data, T)
  <2> DEFINE early == Cut(data, X)
             T == CommonSpan(early, data)
             m == Min(Starts(early))
  <2>1. /\ m \in Int /\ m = Min(Starts(data)) /\ T \in Int /\ T <= X - m /\ X \in Int
    BY <1>1, CommonSpanEnds, ResultsAssumption
  <2>2. DOMAIN early = DOMAIN data
    BY DEF Cut
  <2>3. ASSUME NEW i \in DOMAIN data
        PROVE  early[i].result = "True" /\ early[i].end - m <= T
               <=> data[i].result = "True" /\ data[i].end - m <= T
    <3>1. /\ early[i].result = "True" => data[i].result = "True" /\ early[i].end = data[i].end
          /\ data[i].result = "True" /\ data[i].end <= X =>
               early[i].result = "True" /\ early[i].end = data[i].end
          /\ data[i].end \in Int
      BY <1>1, CutFacts, RowFacts
    <3> HIDE DEF early, T, m
    <3>2. data[i].end - m <= T => data[i].end <= X
      BY <2>1, <3>1
    <3> QED
      BY <3>1, <3>2
  <2> HIDE DEF early, T, m
  <2>4. {i \in DOMAIN early : early[i].result = "True" /\ early[i].end - m <= T}
          = {i \in DOMAIN data : data[i].result = "True" /\ data[i].end - m <= T}
    BY <2>2, <2>3
  <2>5. SuccAt(early, T) = SuccAt(data, T)
    BY <2>1, <2>4 DEF SuccAt, m
  <2> QED
    BY <2>5 DEF early, T
<1>2. SheetTyped => CommonWindowFair
  BY <1>1 DEF CommonWindowFair
<1> QED
  BY <1>2, SheetInvariant, PTL

(***************************************************************************)
(* The samples of the rounds                                               *)
(***************************************************************************)
THEOREM SeriesInvariant == SamplesSpec => []SeriesTyped
<1>1. SamplesInit => SeriesTyped
  BY DEF SamplesInit, SeriesTyped
<1>2. SeriesTyped /\ [SamplesNext]_mvars => SeriesTyped'
  <2> SUFFICES ASSUME SeriesTyped, [SamplesNext]_mvars PROVE SeriesTyped'
    OBVIOUS
  <2> DEFINE Sampling == Readings[metric] \cup {Unsampled}
             Round_ == Seq(Sampling) \cup {Refused}
  <2>1. metric \in DOMAIN Readings /\ series \in Seq(Round_)
    BY DEF SeriesTyped
  <2>2. metric' = metric
    BY DEF SamplesNext, Query, Moment, mvars
  <2>3. series' \in Seq(Round_)
    <3>1. CASE Query
      <4>1. <<>> \in Round_ /\ Refused \in Round_
        OBVIOUS
      <4>2. series' = Append(series, <<>>) \/ series' = Append(series, Refused)
        BY <3>1 DEF Query
      <4> HIDE DEF Round_
      <4> QED
        BY <2>1, <4>1, <4>2
    <3>2. CASE Moment
      <4>1. PICK s \in Sampling : series' = [series EXCEPT ![Len(series)] = Append(@, s)]
        BY <3>2 DEF Moment
      <4>2. Len(series) \in DOMAIN series /\ series[Len(series)] # Refused
        BY <3>2 DEF Moment, Measured
      <4>3. series[Len(series)] \in Round_
        <5> HIDE DEF Round_
        <5> QED
          BY <2>1, <4>2
      <4>4. Append(series[Len(series)], s) \in Round_
        <5> HIDE DEF Sampling
        <5>1. series[Len(series)] \in Seq(Sampling)
          BY <4>2, <4>3
        <5> QED
          BY <5>1
      <4> HIDE DEF Round_
      <4> QED
        BY <2>1, <4>1, <4>2, <4>4
    <3>3. CASE UNCHANGED mvars
      BY <2>1, <3>3 DEF mvars
    <3> QED
      BY <3>1, <3>2, <3>3 DEF SamplesNext
  <2> QED
    BY <2>1, <2>2, <2>3 DEF SeriesTyped
<1> QED
  BY <1>1, <1>2, PTL DEF SamplesSpec

LEMMA NearestOne ==
  ASSUME NEW S \in SUBSET Int, S # {}, NEW g \in Int
  PROVE  \E x \in S : \A y \in S :
           Mag(x - g) < Mag(y - g) \/ (Mag(x - g) = Mag(y - g) /\ x <= y)
<1> DEFINE far(x) == Mag(x - g)
           away   == {far(x) : x \in S}
<1>1. \A x \in Int : far(x) \in Nat /\ (far(x) = x - g \/ far(x) = g - x)
  BY DEF Mag
<1> HIDE DEF far
<1>2. away \in SUBSET Nat /\ away # {}
  BY <1>1
<1>3. PICK d \in away : \A e \in away : d <= e
  <2> HIDE DEF away
  <2> QED
    BY <1>2, NatLeast
<1>4. PICK x0 \in S : far(x0) = d
  OBVIOUS
<1>5. \A y \in S : d <= far(y) /\ far(y) \in Nat /\ d \in Nat
  BY <1>1, <1>2, <1>3
<1>6. CASE g - d \in S /\ far(g - d) = d
  <2> DEFINE x == g - d
  <2>1. ASSUME NEW y \in S PROVE far(x) < far(y) \/ (far(x) = far(y) /\ x <= y)
    <3>1. CASE far(y) = d
      <4>1. y = g - d \/ y = g + d
        BY <1>1, <1>5, <3>1
      <4>2. g - d <= y
        BY <1>5, <4>1
      <4> QED
        BY <1>6, <3>1, <4>2
    <3>2. CASE far(y) # d
      BY <1>5, <1>6, <3>2
    <3> QED
      BY <3>1, <3>2
  <2> QED
    BY <1>6, <2>1 DEF far
<1>7. CASE ~(g - d \in S /\ far(g - d) = d)
  <2>1. ASSUME NEW y \in S PROVE far(x0) < far(y) \/ (far(x0) = far(y) /\ x0 <= y)
    <3>1. CASE far(y) = d
      <4>1. /\ y = g - d \/ y = g + d
            /\ x0 = g - d \/ x0 = g + d
        BY <1>1, <1>4, <1>5, <3>1
      <4>2. y = g + d /\ x0 = g + d
        BY <1>4, <1>7, <3>1, <4>1
      <4>3. x0 <= y
        BY <1>5, <4>2
      <4> QED
        BY <1>4, <3>1, <4>3
    <3>2. CASE far(y) # d
      BY <1>4, <1>5, <3>2
    <3> QED
      BY <3>1, <3>2
  <2> QED
    BY <2>1 DEF far
<1> QED
  BY <1>6, <1>7

\* The nearest time is a time of the curve, and none is nearer.
LEMMA NearestIs ==
  ASSUME NEW i, Curve(i) \in SUBSET Int, Curve(i) # {}, NEW g \in Int
  PROVE  /\ Nearest(i, g) \in Curve(i)
         /\ \A y \in Curve(i) : Mag(Nearest(i, g) - g) <= Mag(y - g)
<1> DEFINE Closest(x) == \A y \in Curve(i) :
             Mag(x - g) < Mag(y - g) \/ (Mag(x - g) = Mag(y - g) /\ x <= y)
<1>1. \E x \in Curve(i) : Closest(x)
  BY NearestOne
<1>2. Nearest(i, g) = CHOOSE x \in Curve(i) : Closest(x)
  BY DEF Nearest
<1>3. Nearest(i, g) \in Curve(i) /\ Closest(Nearest(i, g))
  <2> HIDE DEF Closest
  <2> QED
    BY <1>1, <1>2
<1>4. ASSUME NEW y \in Curve(i) PROVE Mag(Nearest(i, g) - g) <= Mag(y - g)
  <2>1. Nearest(i, g) \in Int /\ y \in Int
    BY <1>3
  <2>2. Mag(Nearest(i, g) - g) \in Int /\ Mag(y - g) \in Int
    BY <2>1 DEF Mag
  <2>3. Mag(Nearest(i, g) - g) < Mag(y - g) \/ Mag(Nearest(i, g) - g) = Mag(y - g)
    BY <1>3
  <2> HIDE DEF Closest
  <2> QED
    BY <2>2, <2>3
<1> QED
  BY <1>3, <1>4

\* A curve begins at 0 and is of finitely many moments.
LEMMA CurveFacts ==
  ASSUME SeriesTyped, NEW i \in Curves
  PROVE  /\ Curve(i) \in SUBSET Nat /\ IsFiniteSet(Curve(i)) /\ 0 \in Curve(i)
         /\ Max(Curve(i)) \in Curve(i)
<1>1. i \in DOMAIN series /\ Usable(i) # {}
  BY DEF Curves
<1>2. i \in Measured
  BY <1>1 DEF Usable, Sampled
<1>3. series[i] \in Seq(Readings[metric] \cup {Unsampled})
  <2> DEFINE Round_ == Seq(Readings[metric] \cup {Unsampled}) \cup {Refused}
  <2>1. series \in Seq(Round_) /\ series[i] # Refused
    BY <1>2 DEF SeriesTyped, Measured
  <2>2. series[i] \in Round_
    <3> HIDE DEF Round_
    <3> QED
      BY <1>1, <2>1
  <2> QED
    BY <2>1, <2>2
<1>4. Len(series[i]) \in Nat /\ DOMAIN series[i] = 1..Len(series[i])
  BY <1>3
<1>5. Usable(i) \in SUBSET (1..Len(series[i]))
  BY <1>2, <1>4 DEF Usable, Sampled
<1>6. Usable(i) \in SUBSET Int /\ IsFiniteSet(Usable(i))
  <2>1. IsFiniteSet(1..Len(series[i]))
    <3>1. PICK len \in Int : len = Len(series[i])
      BY <1>4
    <3> QED
      BY <3>1, FS_Interval
  <2> QED
    BY <1>4, <1>5, <2>1, FS_Subset
<1>7. PICK u \in Usable(i) : u = Min(Usable(i)) /\ \A j \in Usable(i) : u <= j
  BY <1>1, <1>6, MinMax
<1>8. Curve(i) = {j - u : j \in Usable(i)}
  BY <1>7 DEF Curve
<1>9. Curve(i) \in SUBSET Nat /\ 0 \in Curve(i)
  BY <1>6, <1>7, <1>8
<1>10. IsFiniteSet(Curve(i))
  <2> DEFINE f == [j \in Usable(i) |-> j - u]
  <2>1. Curve(i) = {f[j] : j \in Usable(i)}
    BY <1>8
  <2> HIDE DEF f
  <2> QED
    BY <1>6, <2>1, ImageFinite
<1>11. Max(Curve(i)) \in Curve(i)
  <2>1. Curve(i) \in SUBSET Int /\ Curve(i) # {}
    BY <1>9
  <2> QED
    BY <1>10, <2>1, MinMax
<1> QED
  BY <1>9, <1>10, <1>11

\* The time all curves have in common ends with the shortest of them.
LEMMA CommonEndIs ==
  ASSUME SeriesTyped, Curves # {}
  PROVE  CommonEnd \in Int /\ \A i \in Curves : CommonEnd <= Max(Curve(i))
<1> DEFINE f == [i \in Curves |-> Max(Curve(i))]
           ends == {f[i] : i \in Curves}
<1>1. \A i \in Curves : f[i] = Max(Curve(i)) /\ f[i] \in Int
  BY CurveFacts
<1>2. CommonEnd = Min(ends)
  BY DEF CommonEnd
<1>3. IsFiniteSet(Curves)
  <2>1. Len(series) \in Nat /\ DOMAIN series = 1..Len(series)
    BY DEF SeriesTyped
  <2>2. Curves \in SUBSET (1..Len(series)) /\ IsFiniteSet(1..Len(series))
    BY <2>1, FS_Interval DEF Curves
  <2> QED
    BY <2>2, FS_Subset
<1> HIDE DEF f
<1>4. ends \in SUBSET Int /\ IsFiniteSet(ends) /\ ends # {}
  BY <1>1, <1>3, ImageFinite
<1>5. ASSUME NEW i \in Curves PROVE f[i] \in ends
  OBVIOUS
<1> HIDE DEF ends
<1>6. Min(ends) \in ends /\ \A e \in ends : Min(ends) <= e
  BY <1>4, MinMax
<1> QED
  BY <1>1, <1>2, <1>4, <1>5, <1>6

\* The median curve covers the time all rounds have in common, however long
\* each was and wherever it has gaps (make_figures.py 56-76, 94-107).
THEOREM CurvesAreCommon == SamplesSpec => []CurveIsCommon
<1>1. ASSUME SeriesTyped, Curves # {}
      PROVE  NearBy(0) = Curves
  <2>1. ASSUME NEW i \in Curves PROVE Mag(Nearest(i, 0) - 0) <= Step
    <3>1. Curve(i) \in SUBSET Int /\ 0 \in Curve(i)
      BY <1>1, CurveFacts
    <3>2. Nearest(i, 0) \in Int /\ Mag(Nearest(i, 0) - 0) <= Mag(0 - 0)
      BY <3>1, NearestIs
    <3> QED
      BY <3>2, SamplesAssumption DEF Mag
  <2> QED
    BY <2>1 DEF NearBy
<1>2. ASSUME SeriesTyped, Curves # {}, NEW g \in GridPoints, NEW i \in Curves \ NearBy(g)
      PROVE  \E x, y \in Curve(i) : x < g - Step /\ y > g + Step
  <2>1. Curve(i) \in SUBSET Int /\ 0 \in Curve(i) /\ Max(Curve(i)) \in Curve(i)
    BY <1>2, CurveFacts
  <2>2. CommonEnd \in Int /\ CommonEnd <= Max(Curve(i))
    BY <1>2, CommonEndIs
  <2>3. g \in Int /\ 0 <= g /\ g <= CommonEnd
    BY <2>2 DEF GridPoints
  <2>4. \A y \in Curve(i) : Mag(y - g) > Step
    <3>1. /\ Nearest(i, g) \in Curve(i)
          /\ \A y \in Curve(i) : Mag(Nearest(i, g) - g) <= Mag(y - g)
      BY <2>1, <2>3, NearestIs
    <3>2. ~(Mag(Nearest(i, g) - g) <= Step)
      BY <1>2 DEF NearBy
    <3>3. \A y \in Curve(i) : Mag(y - g) \in Int
      BY <2>1, <2>3 DEF Mag
    <3> QED
      BY <3>1, <3>2, <3>3, SamplesAssumption
  <2>5. 0 < g - Step
    <3>1. Mag(0 - g) > Step
      BY <2>1, <2>4
    <3> QED
      BY <2>3, <3>1, SamplesAssumption DEF Mag
  <2>6. Max(Curve(i)) > g + Step
    <3>1. Mag(Max(Curve(i)) - g) > Step /\ Max(Curve(i)) \in Int
      BY <2>1, <2>4
    <3> QED
      BY <2>2, <2>3, <3>1, SamplesAssumption DEF Mag
  <2> QED
    BY <2>1, <2>5, <2>6
<1>3. SeriesTyped => CurveIsCommon
  BY <1>1, <1>2 DEF CurveIsCommon
<1> QED
  BY <1>3, SeriesInvariant, PTL

(***************************************************************************)
(* Induction over finite sets and numbers, as facts about sets             *)
(***************************************************************************)
\* A set that belongs to A whenever what is left of it without one element does.
LEMMA FiniteInduct ==
  ASSUME NEW S, IsFiniteSet(S), NEW A, {} \in A,
         \A T \in SUBSET S : T # {} /\ (\A x \in T : T \ {x} \in A) => T \in A
  PROVE  S \in A
<1> DEFINE bad == {T \in SUBSET S : T \notin A}
           sizes == {Cardinality(T) : T \in bad}
<1>1. ASSUME NEW T \in SUBSET S
      PROVE  IsFiniteSet(T) /\ Cardinality(T) \in Nat
  BY FS_Subset, FS_CardinalityType
<1>2. sizes \in SUBSET Nat
  BY <1>1
<1>3. CASE sizes = {}
  BY <1>3
<1>4. CASE sizes # {}
  <2>1. PICK n \in sizes : \A m \in sizes : n <= m
    <3> HIDE DEF sizes
    <3> QED
      BY <1>2, <1>4, NatLeast
  <2>2. PICK T \in bad : n = Cardinality(T)
    BY <2>1
  <2>3. ASSUME NEW x \in T PROVE T \ {x} \in A
    <3>1. /\ T \ {x} \in SUBSET S /\ Cardinality(T \ {x}) = Cardinality(T) - 1
      BY <1>1, FS_RemoveElement
    <3>2. Cardinality(T) \in Nat
      BY <1>1
    <3>3. ~(n <= Cardinality(T \ {x}))
      BY <2>2, <3>1, <3>2
    <3> QED
      BY <2>1, <3>1, <3>3
  <2> QED
    BY <2>2, <2>3
<1> QED
  BY <1>3, <1>4

LEMMA NatInduct ==
  ASSUME NEW A, 0 \in A, \A n \in Nat : n \in A => n + 1 \in A
  PROVE  \A n \in Nat : n \in A
<1> DEFINE bad == {n \in Nat : n \notin A}
<1>1. SUFFICES ASSUME bad # {} PROVE FALSE
  OBVIOUS
<1>2. PICK n \in bad : \A m \in bad : n <= m
  <2>1. bad \in SUBSET Nat
    OBVIOUS
  <2> HIDE DEF bad
  <2> QED
    BY <1>1, <2>1, NatLeast
<1>3. n # 0 /\ n - 1 \in Nat /\ ~(n <= n - 1)
  OBVIOUS
<1>4. n - 1 \in A
  BY <1>2, <1>3
<1> QED
  BY <1>3, <1>4

(***************************************************************************)
(* Sums                                                                    *)
(***************************************************************************)
First(T) == CHOOSE x \in T : TRUE

\* g adds up f over the subsets of S, one element after the other.
Adds(g, f, S) ==
  \A T \in SUBSET S : g[T] = IF T = {} THEN 0 ELSE f[First(T)] + g[T \ {First(T)}]

AddsUp(g, f, S) ==
  g = [T \in SUBSET S |-> IF T = {} THEN 0 ELSE f[First(T)] + g[T \ {First(T)}]]

LEMMA FirstIn == \A T : T # {} => First(T) \in T
  BY DEF First

LEMMA AddsExists ==
  ASSUME NEW S, IsFiniteSet(S), NEW f
  PROVE  \E g : AddsUp(g, f, S)
<1> DEFINE Part(g, n) == \A T \in SUBSET S : Cardinality(T) <= n =>
                           g[T] = IF T = {} THEN 0 ELSE f[First(T)] + g[T \ {First(T)}]
           A == {n \in Nat : \E g : Part(g, n)}
<1>1. ASSUME NEW T \in SUBSET S
      PROVE  /\ IsFiniteSet(T) /\ Cardinality(T) \in Nat
             /\ Cardinality(T) = 0 <=> T = {}
             /\ \A x \in T : Cardinality(T \ {x}) = Cardinality(T) - 1
  BY FS_Subset, FS_CardinalityType, FS_EmptySet, FS_RemoveElement
<1>2. 0 \in A
  <2> DEFINE z == [T \in SUBSET S |-> 0]
  <2>1. Part(z, 0)
    BY <1>1
  <2> QED
    BY <2>1
<1>3. ASSUME NEW n \in Nat, n \in A PROVE n + 1 \in A
  <2>1. PICK g : Part(g, n)
    BY <1>3
  <2> DEFINE h == [T \in SUBSET S |-> IF T = {} THEN 0 ELSE f[First(T)] + g[T \ {First(T)}]]
  <2>2. ASSUME NEW T \in SUBSET S, Cardinality(T) <= n PROVE h[T] = g[T]
    BY <2>1, <2>2
  <2>3. ASSUME NEW T \in SUBSET S, Cardinality(T) <= n + 1, T # {}
        PROVE  h[T] = f[First(T)] + h[T \ {First(T)}]
    <3>1. First(T) \in T
      BY <2>3, FirstIn
    <3>2. T \ {First(T)} \in SUBSET S /\ Cardinality(T \ {First(T)}) <= n
      BY <1>1, <2>3, <3>1
    <3>3. h[T \ {First(T)}] = g[T \ {First(T)}]
      BY <2>2, <3>2
    <3> QED
      BY <2>3, <3>3
  <2>4. h[{}] = 0
    OBVIOUS
  <2>5. Part(h, n + 1)
    <3> HIDE DEF h
    <3> QED
      BY <2>3, <2>4
  <2> HIDE DEF h, Part
  <2> QED
    BY <2>5
<1>4. Cardinality(S) \in A
  <2> HIDE DEF A
  <2> QED
    BY <1>1, <1>2, <1>3, NatInduct
<1>5. PICK g : Part(g, Cardinality(S))
  BY <1>4
<1> DEFINE h == [T \in SUBSET S |-> g[T]]
<1>6. ASSUME NEW T \in SUBSET S
      PROVE  g[T] = IF T = {} THEN 0 ELSE f[First(T)] + g[T \ {First(T)}]
  <2>1. Cardinality(T) <= Cardinality(S)
    BY FS_Subset
  <2> QED
    BY <1>5, <2>1
<1>7. h = [T \in SUBSET S |-> IF T = {} THEN 0 ELSE f[First(T)] + h[T \ {First(T)}]]
  BY <1>6
<1> QED
  BY <1>7 DEF AddsUp

LEMMA SumIsAdds ==
  ASSUME NEW S, IsFiniteSet(S), NEW f
  PROVE  \E g : Adds(g, f, S) /\ SumFunctionOnSet(f, S) = g[S]
<1> DEFINE iter == CHOOSE g : g = [T \in SUBSET S |->
                     IF T = {} THEN 0 ELSE f[First(T)] + g[T \ {First(T)}]]
<1>0. \E g : AddsUp(g, f, S)
  BY AddsExists
<1>1. iter = [T \in SUBSET S |-> IF T = {} THEN 0 ELSE f[First(T)] + iter[T \ {First(T)}]]
  BY <1>0, Zenon DEF AddsUp
<1>2. SumFunctionOnSet(f, S) = iter[S]
  BY DEF SumFunctionOnSet, FoldFunctionOnSet, MapThenFoldSet, First
<1> HIDE DEF iter
<1>3. Adds(iter, f, S)
  BY <1>1 DEF Adds
<1> QED
  BY <1>2, <1>3

LEMMA AddsSame ==
  ASSUME NEW S, NEW T \in SUBSET S, IsFiniteSet(T), NEW f, NEW g, NEW h,
         Adds(g, f, S), Adds(h, f, T)
  PROVE  g[T] = h[T]
<1> DEFINE A == {U \in SUBSET T : g[U] = h[U]}
<1>1. {} \in A
  BY DEF Adds
<1>2. ASSUME NEW U \in SUBSET T, U # {}, \A x \in U : U \ {x} \in A PROVE U \in A
  <2>1. First(U) \in U
    BY <1>2, FirstIn
  <2>2. g[U \ {First(U)}] = h[U \ {First(U)}]
    BY <1>2, <2>1
  <2> QED
    BY <1>2, <2>2 DEF Adds
<1>3. T \in A
  <2> HIDE DEF A
  <2> QED
    BY <1>1, <1>2, FiniteInduct
<1> QED
  BY <1>3

LEMMA AddsInt ==
  ASSUME NEW S, IsFiniteSet(S), NEW f, \A x \in S : f[x] \in Int, NEW g, Adds(g, f, S),
         NEW T \in SUBSET S
  PROVE  g[T] \in Int
<1> DEFINE A == {U \in SUBSET T : g[U] \in Int}
<1>1. {} \in A
  BY DEF Adds
<1>2. ASSUME NEW U \in SUBSET T, U # {}, \A x \in U : U \ {x} \in A PROVE U \in A
  <2>1. First(U) \in U
    BY <1>2, FirstIn
  <2>2. g[U \ {First(U)}] \in Int /\ f[First(U)] \in Int
    BY <1>2, <2>1
  <2>3. g[U] = f[First(U)] + g[U \ {First(U)}]
    BY <1>2 DEF Adds
  <2> QED
    BY <1>2, <2>2, <2>3
<1>3. T \in A
  <2>1. IsFiniteSet(T)
    BY FS_Subset
  <2> HIDE DEF A
  <2> QED
    BY <1>1, <1>2, <2>1, FiniteInduct
<1> QED
  BY <1>3

\* The order does not matter.
LEMMA AddsAny ==
  ASSUME NEW S, IsFiniteSet(S), NEW f, \A x \in S : f[x] \in Int, NEW g, Adds(g, f, S),
         NEW y \in S
  PROVE  g[S] = f[y] + g[S \ {y}]
<1> DEFINE A == {T \in SUBSET S : \A x \in T : g[T] = f[x] + g[T \ {x}]}
<1>1. {} \in A
  OBVIOUS
<1>2. ASSUME NEW T \in SUBSET S, T # {}, \A x \in T : T \ {x} \in A PROVE T \in A
  <2>1. PICK c \in T : c = First(T)
    BY <1>2, FirstIn
  <2>2. g[T] = f[c] + g[T \ {c}]
    BY <1>2, <2>1 DEF Adds
  <2>3. ASSUME NEW x \in T, x # c PROVE g[T] = f[x] + g[T \ {x}]
    <3>1. PICK R \in SUBSET S : R = (T \ {c}) \ {x} /\ R = (T \ {x}) \ {c}
      OBVIOUS
    <3>2. g[T \ {c}] = f[x] + g[R]
      BY <1>2, <2>3, <3>1
    <3>3. g[T \ {x}] = f[c] + g[R]
      BY <1>2, <2>3, <3>1
    <3>4. g[R] \in Int /\ f[x] \in Int /\ f[c] \in Int
      BY AddsInt
    <3> QED
      BY <2>2, <3>2, <3>3, <3>4
  <2>4. \A x \in T : g[T] = f[x] + g[T \ {x}]
    BY <2>2, <2>3
  <2> QED
    BY <2>4
<1>3. S \in A
  <2> HIDE DEF A
  <2> QED
    BY <1>1, <1>2, FiniteInduct
<1> QED
  BY <1>3

LEMMA SumEmpty == \A f : SumFunctionOnSet(f, {}) = 0
<1> SUFFICES ASSUME NEW f PROVE SumFunctionOnSet(f, {}) = 0
  OBVIOUS
<1>1. PICK g : Adds(g, f, {}) /\ SumFunctionOnSet(f, {}) = g[{}]
  BY FS_EmptySet, SumIsAdds
<1> QED
  BY <1>1 DEF Adds

\* A sum of integers is one of them and the sum of the rest.
LEMMA SumRest ==
  ASSUME NEW S, IsFiniteSet(S), NEW f, \A x \in S : f[x] \in Int
  PROVE  /\ SumFunctionOnSet(f, S) \in Int
         /\ \A x \in S : /\ SumFunctionOnSet(f, S \ {x}) \in Int
                         /\ SumFunctionOnSet(f, S) = f[x] + SumFunctionOnSet(f, S \ {x})
<1>1. PICK g : Adds(g, f, S) /\ SumFunctionOnSet(f, S) = g[S]
  BY SumIsAdds
<1>2. SumFunctionOnSet(f, S) \in Int
  BY <1>1, AddsInt
<1>3. ASSUME NEW x \in S
      PROVE  /\ SumFunctionOnSet(f, S \ {x}) \in Int
             /\ SumFunctionOnSet(f, S) = f[x] + SumFunctionOnSet(f, S \ {x})
  <2>1. IsFiniteSet(S \ {x})
    BY FS_Subset
  <2>2. PICK h : Adds(h, f, S \ {x}) /\ SumFunctionOnSet(f, S \ {x}) = h[S \ {x}]
    BY <2>1, SumIsAdds
  <2>3. g[S \ {x}] = h[S \ {x}]
    BY <1>1, <2>1, <2>2, AddsSame
  <2>4. g[S] = f[x] + g[S \ {x}]
    BY <1>1, AddsAny
  <2>5. g[S \ {x}] \in Int
    <3>1. S \ {x} \in SUBSET S
      OBVIOUS
    <3> QED
      BY <1>1, <3>1, AddsInt
  <2> QED
    BY <1>1, <2>2, <2>3, <2>4, <2>5
<1> QED
  BY <1>2, <1>3

LEMMA SumSame ==
  ASSUME NEW S, IsFiniteSet(S), NEW f, NEW g, \A x \in S : f[x] \in Int /\ f[x] = g[x]
  PROVE  SumFunctionOnSet(f, S) = SumFunctionOnSet(g, S)
<1> DEFINE A == {T \in SUBSET S : SumFunctionOnSet(f, T) = SumFunctionOnSet(g, T)}
<1>1. {} \in A
  BY SumEmpty
<1>2. ASSUME NEW T \in SUBSET S, T # {}, \A x \in T : T \ {x} \in A PROVE T \in A
  <2>1. PICK x \in T : TRUE
    BY <1>2
  <2>2. IsFiniteSet(T)
    BY FS_Subset
  <2>3. /\ SumFunctionOnSet(f, T) = f[x] + SumFunctionOnSet(f, T \ {x})
        /\ SumFunctionOnSet(g, T) = g[x] + SumFunctionOnSet(g, T \ {x})
    BY <2>2, SumRest
  <2> QED
    BY <1>2, <2>3
<1>3. S \in A
  <2> HIDE DEF A
  <2> QED
    BY <1>1, <1>2, FiniteInduct
<1> QED
  BY <1>3

(***************************************************************************)
(* Counting by kind                                                        *)
(***************************************************************************)
\* A sum over what is left and one more, from SumRest.
LEMMA SumMore ==
  ASSUME NEW S, IsFiniteSet(S), NEW f, \A x \in S : f[x] \in Int, NEW x \in S
  PROVE  /\ SumFunctionOnSet(f, S \ {x}) \in Int
         /\ SumFunctionOnSet(f, S) = f[x] + SumFunctionOnSet(f, S \ {x})
  BY SumRest

LEMMA DisjointUnion ==
  ASSUME NEW S, IsFiniteSet(S), NEW T, IsFiniteSet(T), S \cap T = {}
  PROVE  /\ IsFiniteSet(S \cup T) /\ Cardinality(S) \in Nat /\ Cardinality(T) \in Nat
         /\ Cardinality(S \cup T) = Cardinality(S) + Cardinality(T)
<1>1. Cardinality(S) \in Nat /\ Cardinality(T) \in Nat /\ Cardinality({}) = 0
  BY FS_CardinalityType, FS_EmptySet
<1>2. IsFiniteSet(S \cup T)
      /\ Cardinality(S \cup T) = Cardinality(S) + Cardinality(T) - Cardinality({})
  BY FS_Union
<1> QED
  BY <1>1, <1>2

\* What is counted kind by kind is counted once.
LEMMA CountByKind ==
  ASSUME NEW S, IsFiniteSet(S), NEW K, IsFiniteSet(K), NEW kind, \A x \in S : kind[x] \in K,
         NEW f, \A n \in K : f[n] = Cardinality({x \in S : kind[x] = n})
  PROVE  Cardinality(S) = SumFunctionOnSet(f, K)
<1> DEFINE Of(T) == {x \in S : kind[x] \in T}
           A == {T \in SUBSET K : Cardinality(Of(T)) = SumFunctionOnSet(f, T)}
<1>1. \A n \in K : f[n] \in Nat
  <2>1. ASSUME NEW n \in K PROVE Cardinality({x \in S : kind[x] = n}) \in Nat
    <3>1. IsFiniteSet({x \in S : kind[x] = n})
      BY FS_Subset
    <3> QED
      BY <3>1, FS_CardinalityType
  <2> QED
    BY <2>1
<1>2. {} \in A
  <2>1. Of({}) = {}
    OBVIOUS
  <2> QED
    BY <2>1, FS_EmptySet, SumEmpty
<1>3. ASSUME NEW T \in SUBSET K, T # {}, \A n \in T : T \ {n} \in A PROVE T \in A
  <2>1. PICK n \in T : TRUE
    BY <1>3
  <2>2. Cardinality(Of(T \ {n})) = SumFunctionOnSet(f, T \ {n})
    BY <1>3
  <2>3. SumFunctionOnSet(f, T) = f[n] + SumFunctionOnSet(f, T \ {n})
        /\ SumFunctionOnSet(f, T \ {n}) \in Int
    <3>1. IsFiniteSet(T)
      BY FS_Subset
    <3>2. \A m \in T : f[m] \in Int
      BY <1>1
    <3> QED
      BY <3>1, <3>2, SumMore
  <2> DEFINE rest == Of(T \ {n})
             one  == {x \in S : kind[x] = n}
  <2>4. Of(T) = rest \cup one /\ rest \cap one = {} /\ rest \in SUBSET S /\ one \in SUBSET S
    OBVIOUS
  <2>5. IsFiniteSet(rest) /\ IsFiniteSet(one)
    BY <2>4, FS_Subset
  <2>6. f[n] = Cardinality(one) /\ Cardinality(rest) = SumFunctionOnSet(f, T \ {n})
    BY <2>2
  <2>7. Cardinality(Of(T)) = Cardinality(rest) + Cardinality(one)
    <3> HIDE DEF rest, one, Of
    <3> QED
      BY <2>4, <2>5, DisjointUnion
  <2>8. Cardinality(Of(T)) = SumFunctionOnSet(f, T)
    <3> HIDE DEF rest, one, Of
    <3> QED
      BY <1>1, <2>3, <2>6, <2>7
  <2> QED
    BY <2>8
<1>4. K \in A
  <2> HIDE DEF A
  <2> QED
    BY <1>2, <1>3, FiniteInduct
<1>5. Of(K) = S
  OBVIOUS
<1> QED
  BY <1>4, <1>5

(***************************************************************************)
(* Samples                                                                 *)
(***************************************************************************)
LEMMA SampledFacts ==
  ASSUME SeriesTyped, NEW i \in DOMAIN series
  PROVE  /\ i \in Measured => /\ Len(series[i]) \in Nat
                              /\ DOMAIN series[i] = 1..Len(series[i])
         /\ Sampled(i) \in SUBSET (Nat \ {0}) /\ IsFiniteSet(Sampled(i))
         /\ i \in Measured => Sampled(i) \in SUBSET (DOMAIN series[i])
         /\ \A j \in Sampled(i) : series[i][j] \in [node: Nodes, v: Int]
<1>1. CASE i \notin Measured
  BY <1>1, FS_EmptySet DEF Sampled
<1>2. CASE i \in Measured
  <2>1. series[i] \in Seq(Readings[metric] \cup {Unsampled})
    <3> DEFINE Round_ == Seq(Readings[metric] \cup {Unsampled}) \cup {Refused}
    <3>1. series \in Seq(Round_) /\ series[i] # Refused
      BY <1>2 DEF SeriesTyped, Measured
    <3>2. series[i] \in Round_
      <4> HIDE DEF Round_
      <4> QED
        BY <3>1
    <3> QED
      BY <3>1, <3>2
  <2>2. Len(series[i]) \in Nat /\ DOMAIN series[i] = 1..Len(series[i])
    BY <2>1
  <2>3. Sampled(i) = {j \in 1..Len(series[i]) : series[i][j] # Unsampled}
    BY <1>2, <2>2 DEF Sampled
  <2>4. IsFiniteSet(1..Len(series[i])) /\ 1..Len(series[i]) \in SUBSET (Nat \ {0})
    <3>1. PICK len \in Nat : len = Len(series[i])
      BY <2>2
    <3>2. IsFiniteSet(1..len)
      BY FS_Interval
    <3> QED
      BY <3>1, <3>2
  <2>5. Sampled(i) \in SUBSET (Nat \ {0}) /\ IsFiniteSet(Sampled(i))
    BY <2>3, <2>4, FS_Subset
  <2>6. ASSUME NEW j \in Sampled(i) PROVE series[i][j] \in [node: Nodes, v: Int]
    <3>1. series[i][j] \in Readings[metric]
      BY <2>1, <2>2, <2>3, <2>6
    <3>2. metric \in DOMAIN Readings
      BY DEF SeriesTyped
    <3> QED
      BY <3>1, <3>2, SamplesAssumption
  <2> QED
    BY <2>2, <2>3, <2>5, <2>6
<1> QED
  BY <1>1, <1>2

LEMMA ValuesFacts ==
  ASSUME SeriesTyped, NEW i \in DOMAIN series
  PROVE  /\ Usable(i) \in SUBSET Sampled(i)
         /\ Values(i) \in SUBSET Int /\ IsFiniteSet(Values(i))
         /\ Values(i) # {} <=> Usable(i) # {}
         /\ Usable(i) # {} => Max(Values(i)) \in Values(i) /\ Max(Values(i)) \in Int
                              /\ Max(Values(i)) # NaN
                              /\ \E j \in Usable(i) : Max(Values(i)) = ValueAt(i, j)
<1> DEFINE f == [j \in Usable(i) |-> series[i][j].v]
<1>1. Usable(i) \in SUBSET Sampled(i) /\ IsFiniteSet(Usable(i))
  <2>1. Usable(i) \in SUBSET Sampled(i)
    BY DEF Usable
  <2> QED
    BY <2>1, SampledFacts, FS_Subset
<1>2. Values(i) = {f[j] : j \in Usable(i)}
  BY DEF Values, ValueAt
<1>3. \A j \in Usable(i) : f[j] \in Int /\ f[j] = ValueAt(i, j) /\ f[j] # NaN
  BY <1>1, SampledFacts DEF Usable, ValueAt
<1> HIDE DEF f
<1>4. Values(i) \in SUBSET Int /\ IsFiniteSet(Values(i)) /\ (Values(i) # {} <=> Usable(i) # {})
  BY <1>1, <1>2, <1>3, ImageFinite
<1>5. ASSUME Usable(i) # {} PROVE Max(Values(i)) \in Values(i)
  BY <1>4, <1>5, MinMax
<1> QED
  BY <1>1, <1>2, <1>3, <1>4, <1>5

\* Whatever was not ready, of whichever node, is in the audit's list and in the
\* table's count, for any nodes and samples (audit_campaign.py 174-201).
THEOREM NotReadyShows == SamplesSpec => []NotReadyIsShown
<1>1. ASSUME SeriesTyped PROVE NotReadyIsShown
  <2>1. ASSUME NEW i \in DOMAIN series
        PROVE  NotReady(i) = SumFunction([n \in Nodes |-> Low(i, n)])
    <3> DEFINE S == {j \in Sampled(i) : ValueAt(i, j) < 1}
               kind == [j \in S |-> series[i][j].node]
               f == [n \in Nodes |-> Low(i, n)]
    <3>1. IsFiniteSet(S) /\ IsFiniteSet(Nodes)
      BY <1>1, SampledFacts, FS_Subset, SamplesAssumption
    <3>2. \A j \in S : kind[j] \in Nodes
      BY <1>1, SampledFacts
    <3>3. ASSUME NEW n \in Nodes PROVE f[n] = Cardinality({j \in S : kind[j] = n})
      <4>1. {j \in Sampled(i) : series[i][j].node = n /\ ValueAt(i, j) < 1}
              = {j \in S : kind[j] = n}
        OBVIOUS
      <4> HIDE DEF S, kind
      <4> QED
        BY <4>1 DEF Low
    <3>4. DOMAIN f = Nodes
      OBVIOUS
    <3>5. NotReady(i) = Cardinality(S)
      BY DEF NotReady
    <3> HIDE DEF S, kind, f
    <3>6. Cardinality(S) = SumFunctionOnSet(f, Nodes)
      BY <3>1, <3>2, <3>3, CountByKind
    <3>7. SumFunction(f) = SumFunctionOnSet(f, Nodes)
      BY <3>4 DEF SumFunction
    <3> QED
      BY <3>5, <3>6, <3>7 DEF f
  <2>2. ASSUME NEW i \in DOMAIN series, NEW n \in Nodes,
               NEW j \in Sampled(i), series[i][j].node = n, ValueAt(i, j) < 1
        PROVE  Low(i, n) > 0 /\ NotReady(i) > 0 /\ <<i, n>> \in LowHits
    <3>1. Low(i, n) > 0
      <4> DEFINE L == {k \in Sampled(i) : series[i][k].node = n /\ ValueAt(i, k) < 1}
      <4>1. j \in L /\ IsFiniteSet(L)
        BY <1>1, <2>2, SampledFacts, FS_Subset
      <4> HIDE DEF L
      <4>2. Cardinality(L) \in Nat /\ Cardinality(L) # 0
        BY <4>1, FS_CardinalityType, FS_EmptySet
      <4> QED
        BY <4>2 DEF Low, L
    <3>2. NotReady(i) > 0
      <4> DEFINE L == {k \in Sampled(i) : ValueAt(i, k) < 1}
      <4>1. j \in L /\ IsFiniteSet(L)
        BY <1>1, <2>2, SampledFacts, FS_Subset
      <4> HIDE DEF L
      <4>2. Cardinality(L) \in Nat /\ Cardinality(L) # 0
        BY <4>1, FS_CardinalityType, FS_EmptySet
      <4> QED
        BY <4>2 DEF NotReady, L
    <3> QED
      BY <3>1, <3>2 DEF LowHits
  <2>3. {i \in DOMAIN series : NotReady(i) > 0} = {h[1] : h \in LowHits}
    <3>1. ASSUME NEW i \in DOMAIN series, NotReady(i) > 0 PROVE i \in {h[1] : h \in LowHits}
      <4>1. PICK j \in Sampled(i) : ValueAt(i, j) < 1
        <5>1. {k \in Sampled(i) : ValueAt(i, k) < 1} # {}
          BY <3>1, FS_EmptySet DEF NotReady
        <5> QED
          BY <5>1
      <4>2. PICK n \in Nodes : series[i][j].node = n
        BY <1>1, SampledFacts
      <4>3. <<i, n>> \in LowHits
        BY <2>2, <4>1, <4>2
      <4> QED
        BY <4>3
    <3>2. ASSUME NEW h \in LowHits PROVE h[1] \in DOMAIN series /\ NotReady(h[1]) > 0
      <4>1. PICK i \in DOMAIN series, n \in Nodes : h = <<i, n>> /\ Low(i, n) > 0
        BY <3>2 DEF LowHits
      <4>2. PICK j \in Sampled(i) : series[i][j].node = n /\ ValueAt(i, j) < 1
        <5>1. PICK L : L = {k \in Sampled(i) : series[i][k].node = n /\ ValueAt(i, k) < 1}
          OBVIOUS
        <5>2. L # {}
          BY <4>1, <5>1, FS_EmptySet DEF Low
        <5> QED
          BY <5>1, <5>2
      <4> QED
        BY <2>2, <4>1, <4>2
    <3> QED
      BY <3>1, <3>2
  <2>4. ASSUME NEW i \in DOMAIN series, SummaryPeak(i) = 0
        PROVE  \E n \in Nodes : <<i, n>> \in LowHits
    <3>1. Usable(i) # {} /\ SummaryPeak(i) = Max(Values(i))
      BY <2>4, SamplesAssumption DEF SummaryPeak
    <3>2. PICK j \in Usable(i) : ValueAt(i, j) = 0
      BY <1>1, <2>4, <3>1, ValuesFacts
    <3>3. j \in Sampled(i) /\ series[i][j].node \in Nodes
      BY <1>1, SampledFacts, ValuesFacts
    <3>4. <<i, series[i][j].node>> \in LowHits
      BY <2>2, <3>2, <3>3
    <3> QED
      BY <3>3, <3>4
  <2>5. Transitions = Cardinality({h[1] : h \in LowHits})
    BY <2>3 DEF Transitions
  <2> QED
    BY <2>1, <2>4, <2>5 DEF NotReadyIsShown
<1> QED
  BY <1>1, SeriesInvariant, PTL

LEMMA Quotient ==
  ASSUME NEW x \in Int, NEW w \in Nat \ {0}
  PROVE  (x * w) \div w = x
<1>1. PICK p \in Int : p = x * w
  OBVIOUS
<1>2. p \div w \in Int /\ p % w \in 0..(w - 1) /\ p = w * (p \div w) + (p % w)
  OBVIOUS
<1>3. PICK q \in Int, r \in Int : q = p \div w /\ r = p % w /\ 0 <= r /\ r < w
  BY <1>2
<1>4. x * w = w * q + r
  BY <1>1, <1>2, <1>3
<1>5. w * (x - q) = r
  BY <1>4
<1>6. PICK d \in Int : d = x - q /\ w * d = r
  BY <1>5
<1>7. CASE d >= 1
  <2>1. w * d >= w
    BY <1>7
  <2> QED
    BY <1>3, <1>6, <2>1
<1>8. CASE d <= -1
  <2>1. w * d <= -w
    BY <1>8
  <2> QED
    BY <1>3, <1>6, <2>1
<1>9. CASE d = 0
  BY <1>1, <1>3, <1>6, <1>9
<1> QED
  BY <1>6, <1>7, <1>8, <1>9

LEMMA SumAtInt ==
  ASSUME SeriesTyped, NEW i \in DOMAIN series, NEW js \in SUBSET Sampled(i)
  PROVE  SumAt(i, js) \in Int
<1> DEFINE f == [j \in js |-> ValueAt(i, j)]
<1>1. IsFiniteSet(js) /\ DOMAIN f = js
  BY SampledFacts, FS_Subset
<1>2. \A j \in js : f[j] \in Int
  BY SampledFacts DEF ValueAt
<1>3. SumAt(i, js) = SumFunctionOnSet(f, js)
  BY <1>1 DEF SumAt, SumFunction
<1> HIDE DEF f
<1> QED
  BY <1>1, <1>2, <1>3, SumRest

\* A window is full exactly when it is a stretch without a gap, begun after the
\* round's first run.
LEMMA FullWindow ==
  ASSUME SeriesTyped, NEW i \in Measured, NEW j \in Sampled(i)
  PROVE  LET s == j - Width + 1
         IN  /\ Cardinality(WindowAt(i, j)) >= Width =>
                  /\ s \in DOMAIN series[i] /\ s >= FirstRun /\ s..j \subseteq Sampled(i)
             /\ s >= FirstRun /\ s..j \subseteq Sampled(i) =>
                  WindowAt(i, j) = s..j /\ Cardinality(WindowAt(i, j)) = Width
             /\ Cardinality(WindowAt(i, j)) >= Width =>
                  WindowAt(i, j) = s..j /\ Cardinality(WindowAt(i, j)) = Width
<1>1. Width \in Nat \ {0} /\ FirstRun \in Int /\ i \in DOMAIN series
  BY SamplesAssumption DEF Measured
<1>2. Sampled(i) \in SUBSET (Nat \ {0}) /\ Sampled(i) \in SUBSET DOMAIN series[i]
  BY <1>1, SampledFacts
<1>3. PICK s \in Int : s = j - Width + 1
  BY <1>1, <1>2
<1>4. IsFiniteSet(s..j) /\ Cardinality(s..j) = Width
  <2>1. j \in Int /\ ~(s > j) /\ j - s + 1 = Width
    BY <1>1, <1>2, <1>3
  <2>2. IsFiniteSet(s..j) /\ Cardinality(s..j) = IF s > j THEN 0 ELSE j - s + 1
    BY <2>1, FS_Interval
  <2> QED
    BY <2>1, <2>2
<1>5. WindowAt(i, j) \in SUBSET (s..j)
  BY <1>1, <1>2, <1>3 DEF WindowAt
<1>6. Cardinality(WindowAt(i, j)) >= Width => WindowAt(i, j) = s..j
  <2>1. IsFiniteSet(WindowAt(i, j)) /\ Cardinality(WindowAt(i, j)) <= Width
        /\ (Width = Cardinality(WindowAt(i, j)) => s..j = WindowAt(i, j))
    BY <1>4, <1>5, FS_Subset
  <2>2. Cardinality(WindowAt(i, j)) \in Nat
    BY <2>1, FS_CardinalityType
  <2> QED
    BY <1>1, <2>1, <2>2
<1>7. s >= FirstRun /\ s..j \subseteq Sampled(i) => WindowAt(i, j) = s..j
  <2>1. ASSUME s >= FirstRun, s..j \subseteq Sampled(i), NEW k \in s..j PROVE k \in WindowAt(i, j)
    BY <1>1, <1>2, <1>3, <2>1 DEF WindowAt
  <2> QED
    BY <1>5, <2>1
<1>8. s \in s..j
  BY <1>1, <1>2, <1>3
<1>9. WindowAt(i, j) = s..j => s \in DOMAIN series[i] /\ s >= FirstRun /\ s..j \subseteq Sampled(i)
  BY <1>2, <1>8 DEF WindowAt
<1> QED
  BY <1>3, <1>4, <1>6, <1>7, <1>9

\* The table's memory is the highest average that lasted, for any width, first
\* run and gaps (make_ch4_tables.py 102-115).
THEOREM MemorySustained == SamplesSpec => []MemoryIsSustained
<1>1. ASSUME SeriesTyped, NEW i \in Measured
      PROVE  LET stretches == {j \in DOMAIN series[i] :
                                 j >= FirstRun /\ j..(j + Width - 1) \subseteq Sampled(i)}
             IN  MavgMax(i) = Max({0} \cup {SumAt(i, j..(j + Width - 1)) : j \in stretches})
  <2> DEFINE stretches == {j \in DOMAIN series[i] :
                             j >= FirstRun /\ j..(j + Width - 1) \subseteq Sampled(i)}
             full == {j \in Sampled(i) : Cardinality(WindowAt(i, j)) >= Width}
             mean(j) == (SumAt(i, WindowAt(i, j)) * Width) \div Cardinality(WindowAt(i, j))
             sum(j) == SumAt(i, j..(j + Width - 1))
  <2>1. /\ Width \in Nat \ {0} /\ FirstRun \in Int /\ i \in DOMAIN series
        /\ Sampled(i) \in SUBSET Int /\ DOMAIN series[i] \in SUBSET Int
    <3>1. i \in DOMAIN series
      BY DEF Measured
    <3>2. Sampled(i) \in SUBSET (Nat \ {0}) /\ Len(series[i]) \in Nat
          /\ DOMAIN series[i] = 1..Len(series[i])
      BY <1>1, <3>1, SampledFacts
    <3> QED
      BY <3>1, <3>2, SamplesAssumption
  <2>2. ASSUME NEW j \in full
        PROVE  j - Width + 1 \in stretches /\ mean(j) = sum(j - Width + 1)
    <3>1. PICK s \in Int : s = j - Width + 1 /\ s + Width - 1 = j
      BY <2>1
    <3>2. /\ s \in DOMAIN series[i] /\ s >= FirstRun /\ s..j \subseteq Sampled(i)
          /\ WindowAt(i, j) = s..j /\ Cardinality(WindowAt(i, j)) = Width
      BY <1>1, <3>1, FullWindow
    <3>3. SumAt(i, s..j) \in Int
      BY <1>1, <2>1, <3>2, SumAtInt
    <3>4. mean(j) = SumAt(i, s..j)
      BY <2>1, <3>2, <3>3, Quotient
    <3> QED
      BY <3>1, <3>2, <3>4
  <2>3. ASSUME NEW s \in stretches
        PROVE  s + Width - 1 \in full /\ mean(s + Width - 1) = sum(s)
    <3>1. PICK j \in Int : j = s + Width - 1 /\ s = j - Width + 1 /\ s \in Int
      BY <2>1
    <3>2. j \in s..j /\ s..j \subseteq Sampled(i) /\ s >= FirstRun
      BY <2>1, <3>1
    <3>3. j \in Sampled(i)
      BY <3>2
    <3>4. WindowAt(i, j) = s..j /\ Cardinality(WindowAt(i, j)) = Width
      BY <1>1, <3>1, <3>2, <3>3, FullWindow
    <3>5. j \in full
      BY <2>1, <3>3, <3>4
    <3> HIDE DEF full, mean, sum
    <3>6. mean(j) = sum(j - Width + 1)
      BY <2>2, <3>5
    <3> QED
      BY <3>1, <3>5, <3>6
  <2> HIDE DEF stretches, full, mean, sum
  <2>4. {mean(j) : j \in full} = {sum(s) : s \in stretches}
    <3>1. ASSUME NEW j \in full PROVE mean(j) \in {sum(s) : s \in stretches}
      BY <2>2
    <3>2. ASSUME NEW s \in stretches PROVE sum(s) \in {mean(j) : j \in full}
      BY <2>3
    <3> QED
      BY <3>1, <3>2
  <2> USE DEF stretches, full, mean, sum
  <2>5. MavgMax(i) = Max({0} \cup {mean(j) : j \in full})
    BY DEF MavgMax
  <2> QED
    BY <2>4, <2>5
<1>2. SeriesTyped => MemoryIsSustained
  BY <1>1 DEF MemoryIsSustained
<1> QED
  BY <1>2, SeriesInvariant, PTL

(***************************************************************************)
(* Arrivals                                                                *)
(***************************************************************************)
LEMMA QuotientBelow ==
  ASSUME NEW x \in Int, NEW w \in Nat \ {0}
  PROVE  (x * w - 1) \div w = x - 1
<1>1. PICK p \in Int : p = x * w
  OBVIOUS
<1>2. (p - 1) \div w \in Int /\ (p - 1) % w \in 0..(w - 1)
      /\ p - 1 = w * ((p - 1) \div w) + ((p - 1) % w)
  OBVIOUS
<1>3. PICK q \in Int, r \in Int : q = (p - 1) \div w /\ r = (p - 1) % w /\ 0 <= r /\ r < w
  BY <1>2
<1>4. x * w - 1 = w * q + r
  BY <1>1, <1>2, <1>3
<1>5. w * (x - q) = r + 1
  BY <1>4
<1>6. PICK d \in Int : d = x - q /\ w * d = r + 1
  BY <1>5
<1>7. CASE d >= 2
  <2>1. w * d >= w + w
    BY <1>7
  <2> QED
    BY <1>3, <1>6, <2>1
<1>8. CASE d <= 0
  <2>1. w * d <= 0
    BY <1>8
  <2> QED
    BY <1>3, <1>6, <2>1
<1>9. CASE d = 1
  BY <1>1, <1>3, <1>6, <1>9
<1> QED
  BY <1>6, <1>7, <1>8, <1>9

LEMMA ArrivalFacts ==
  ASSUME SheetTyped, what = "arrivals"
  PROVE  /\ Len(data) \in Nat /\ DOMAIN data = 1..Len(data)
         /\ \A i \in DOMAIN data : /\ data[i].gap \in Int /\ data[i].tier \in Int
                                   /\ data[i].gap > RoundGap => data[i].new
<1> DEFINE Fit == {a \in Arrival : a.gap > RoundGap => a.new}
<1>1. Records["arrivals"] = Fit
  BY DEF Records
<1>2. data \in Seq(Fit)
  BY <1>1 DEF SheetTyped
<1>3. Len(data) \in Nat /\ DOMAIN data = 1..Len(data) /\ \A i \in DOMAIN data : data[i] \in Fit
  <2> HIDE DEF Fit
  <2> QED
    BY <1>2
<1>4. \A a \in Fit : a.gap \in Gaps /\ a.tier \in TierSet /\ (a.gap > RoundGap => a.new)
  BY DEF Arrival
<1>5. Gaps \subseteq Int /\ TierSet \subseteq Int
  BY ResultsAssumption
<1> HIDE DEF Fit
<1> QED
  BY <1>3, <1>4, <1>5

\* An arrival lies its gap after the one before.
LEMMA AtStep ==
  ASSUME SheetTyped, what = "arrivals", NEW i \in DOMAIN data
  PROVE  /\ At(i) \in Int
         /\ i > 1 => /\ i - 1 \in DOMAIN data /\ At(i - 1) \in Int
                     /\ At(i) = data[i].gap + At(i - 1)
<1> DEFINE f(n) == [j \in 1..n |-> data[j].gap]
<1>1. PICK len \in Nat : len = Len(data) /\ DOMAIN data = 1..len
  BY ArrivalFacts
<1>2. \A j \in 1..len : data[j].gap \in Int
  BY <1>1, ArrivalFacts
<1>3. ASSUME NEW n \in 1..len
      PROVE  /\ IsFiniteSet(1..n) /\ \A j \in 1..n : f(n)[j] \in Int /\ f(n)[j] = data[j].gap
             /\ At(n) = SumFunctionOnSet(f(n), 1..n)
  <2>1. IsFiniteSet(1..n)
    BY FS_Interval
  <2>2. \A j \in 1..n : j \in 1..len
    OBVIOUS
  <2>3. DOMAIN f(n) = 1..n
    OBVIOUS
  <2>4. At(n) = SumFunctionOnSet(f(n), 1..n)
    BY <2>3 DEF At, SumFunction
  <2> QED
    BY <1>2, <2>1, <2>2, <2>4
<1> HIDE DEF f
<1>4. ASSUME NEW n \in 1..len PROVE At(n) \in Int
  BY <1>3, SumRest
<1>5. i \in 1..len /\ (i > 1 => i - 1 \in 1..len)
  BY <1>1
<1>6. ASSUME i > 1 PROVE At(i) = data[i].gap + At(i - 1)
  <2>1. i \in 1..i /\ (1..i) \ {i} = 1..(i - 1)
    BY <1>5
  <2>2. SumFunctionOnSet(f(i), 1..i) = f(i)[i] + SumFunctionOnSet(f(i), (1..i) \ {i})
    BY <1>3, <1>5, <2>1, SumMore
  <2>3. SumFunctionOnSet(f(i - 1), 1..(i - 1)) = SumFunctionOnSet(f(i), 1..(i - 1))
    <3>1. \A j \in 1..(i - 1) : j \in 1..i
      BY <1>5
    <3>2. \A j \in 1..(i - 1) : f(i - 1)[j] \in Int /\ f(i - 1)[j] = f(i)[j]
      BY <1>3, <1>5, <1>6, <3>1
    <3>3. IsFiniteSet(1..(i - 1))
      BY <1>3, <1>5, <1>6
    <3> QED
      BY <3>2, <3>3, SumSame
  <2>4. At(i) = SumFunctionOnSet(f(i), 1..i) /\ At(i - 1) = SumFunctionOnSet(f(i - 1), 1..(i - 1))
        /\ f(i)[i] = data[i].gap
    BY <1>3, <1>5, <1>6, <2>1
  <2> QED
    BY <2>1, <2>2, <2>3, <2>4
<1> QED
  BY <1>1, <1>4, <1>5, <1>6

\* Arrivals are counted from the first of a round, after which no round has
\* begun but closely after the one before.
LEMMA BaseIsOwn ==
  ASSUME SheetTyped, what = "arrivals", NEW i \in DOMAIN data
  PROVE  \E f \in 1..i : /\ Rebased(i) = At(i) - At(f)
                         /\ f = 1 \/ data[f].new
                         /\ \A j \in (f + 1)..i : data[j].new => data[j].gap <= RoundGap
<1>1. PICK len \in Nat : len = Len(data) /\ DOMAIN data = 1..len
  BY ArrivalFacts
<1>2. i \in 1..len
  BY <1>1
<1>3. ASSUME NEW j \in 2..i
      PROVE  /\ At(j) - At(j - 1) > RoundGap <=> data[j].gap > RoundGap
             /\ data[j].gap > RoundGap => data[j].new
             /\ data[j].gap \in Int
  <2>1. j \in DOMAIN data /\ j > 1
    BY <1>1, <1>2
  <2>2. At(j - 1) \in Int /\ At(j) = data[j].gap + At(j - 1) /\ data[j].gap \in Int
        /\ (data[j].gap > RoundGap => data[j].new)
    BY <2>1, AtStep, ArrivalFacts
  <2>3. At(j) - At(j - 1) = data[j].gap
    BY <2>2
  <2> QED
    BY <2>2, <2>3
<1> DEFINE S == {1} \cup {j \in 2..i : At(j) - At(j - 1) > RoundGap}
<1>4. S \in SUBSET (1..i) /\ IsFiniteSet(1..i) /\ S # {}
  <2>1. 1 \in 1..i /\ 2..i \in SUBSET (1..i)
    BY <1>2
  <2>2. IsFiniteSet(1..i)
    BY <1>2, FS_Interval
  <2> QED
    BY <2>1, <2>2
<1>5. \A j \in S : j = 1 \/ data[j].new
  BY <1>3
<1>6. \A j \in 2..i : data[j].gap > RoundGap => j \in S
  BY <1>3
<1>7. Base(i) = Max(S)
  BY DEF Base
<1> HIDE DEF S
<1>8. S \in SUBSET Int /\ IsFiniteSet(S)
  <2>1. IsFiniteSet(S)
    BY <1>4, FS_Subset
  <2> QED
    BY <1>4, <2>1
<1>9. PICK f \in S : f = Max(S) /\ \A y \in S : y <= f
  BY <1>4, <1>8, MinMax
<1>10. f \in 1..i
  BY <1>4
<1>11. ASSUME NEW j \in (f + 1)..i PROVE data[j].gap <= RoundGap
  <2>1. j \in 2..i /\ ~(j <= f)
    BY <1>2, <1>10
  <2>2. ~(data[j].gap > RoundGap) /\ data[j].gap \in Int
    BY <1>3, <1>6, <1>9, <2>1
  <2> QED
    BY <2>2, ResultsAssumption
<1> QED
  BY <1>5, <1>7, <1>9, <1>10, <1>11 DEF Rebased

LEMMA BonusAtLine ==
  ASSUME NEW k \in Int
  PROVE  /\ AgingBonus(k * AgingStep, AgingStep) = k
         /\ AgingBonus(k * AgingStep - 1, AgingStep) = k - 1
  BY ResultsAssumption, Quotient, QuotientBelow DEF AgingBonus

\* A line of the figure is where the lowest tier's runs become more urgent, for
\* any ageing step and tiers.
LEMMA LinesFit ==
  ASSUME SheetTyped, what = "arrivals", NEW i \in DOMAIN data
  PROVE  /\ \A k \in 1..Lines :
              /\ EffTier(TopTier, k * AgingStep, AgingStep, 1) = TopTier - k
              /\ EffTier(TopTier, k * AgingStep - 1, AgingStep, 1) = TopTier - k + 1
         /\ EffTier(data[i].tier, Lines * AgingStep, AgingStep, 1) <= 1
<1> DEFINE f == [j \in DOMAIN data |-> data[j].tier]
           S == {f[j] : j \in DOMAIN data}
<1>1. IsFiniteSet(DOMAIN data)
  <2>1. PICK len \in Nat : DOMAIN data = 1..len
    BY ArrivalFacts
  <2>2. IsFiniteSet(1..len)
    BY FS_Interval
  <2> QED
    BY <2>1, <2>2
<1>2. \A j \in DOMAIN data : f[j] = data[j].tier /\ f[j] \in Int
  BY ArrivalFacts
<1>3. TopTier = Max(S)
  BY DEF TopTier
<1> HIDE DEF f
<1>4. S \in SUBSET Int /\ IsFiniteSet(S) /\ S # {}
  BY <1>1, <1>2, ImageFinite
<1>5. data[i].tier \in S
  BY <1>2
<1> HIDE DEF S
<1>6. TopTier \in Int /\ data[i].tier \in Int /\ data[i].tier <= TopTier
  <2>1. Max(S) \in S /\ \A y \in S : y <= Max(S)
    BY <1>4, MinMax
  <2> QED
    BY <1>2, <1>3, <1>4, <1>5, <2>1
<1>7. Lines \in Int /\ Lines = IF TopTier - 1 < 0 THEN 0 ELSE TopTier - 1
  BY <1>6 DEF Lines, Bigger
<1>8. ASSUME NEW k \in 1..Lines
      PROVE  /\ EffTier(TopTier, k * AgingStep, AgingStep, 1) = TopTier - k
             /\ EffTier(TopTier, k * AgingStep - 1, AgingStep, 1) = TopTier - k + 1
  <2>1. k \in Int /\ 1 <= k /\ k <= TopTier - 1
    BY <1>6, <1>7
  <2>2. /\ AgingBonus(k * AgingStep, AgingStep) = k
        /\ AgingBonus(k * AgingStep - 1, AgingStep) = k - 1
    BY <2>1, BonusAtLine
  <2> QED
    BY <1>6, <2>1, <2>2 DEF EffTier, Lesser, Greater
<1>9. EffTier(data[i].tier, Lines * AgingStep, AgingStep, 1) <= 1
  <2>1. AgingBonus(Lines * AgingStep, AgingStep) = Lines
    BY <1>7, BonusAtLine
  <2> QED
    BY <1>6, <1>7, <2>1 DEF EffTier, Lesser, Greater
<1> QED
  BY <1>8, <1>9

\* The promotion figure agrees with the controller's ageing, whatever the
\* arrivals, tiers and the step are (make_figures.py 282-317, config.py 140-144).
THEOREM FigureAgrees == ResultsSpec => []FigureFits
<1>1. ASSUME SheetTyped, what = "arrivals", NEW i \in DOMAIN data
      PROVE  /\ \E f \in 1..i : /\ Rebased(i) = At(i) - At(f)
                                /\ f = 1 \/ data[f].new
                                /\ \A j \in (f + 1)..i : data[j].new => data[j].gap <= RoundGap
             /\ \A k \in 1..Lines :
                  /\ EffTier(TopTier, k * AgingStep, AgingStep, 1) = TopTier - k
                  /\ EffTier(TopTier, k * AgingStep - 1, AgingStep, 1) = TopTier - k + 1
             /\ EffTier(data[i].tier, Lines * AgingStep, AgingStep, 1) <= 1
  BY <1>1, BaseIsOwn, LinesFit
<1>2. SheetTyped => FigureFits
  BY <1>1 DEF FigureFits
<1> QED
  BY <1>2, SheetInvariant, PTL

(***************************************************************************)
(* Medians                                                                 *)
(***************************************************************************)
\* f is a function of finitely many numbers.
Figures(f) == IsFiniteSet(DOMAIN f) /\ \A i \in DOMAIN f : f[i] \in Int

LEMMA FiguresRange ==
  ASSUME NEW f, Figures(f)
  PROVE  /\ Range(f) \in SUBSET Int /\ IsFiniteSet(Range(f))
         /\ \A i \in DOMAIN f : f[i] \in Range(f)
         /\ \A x \in Range(f) : \E i \in DOMAIN f : x = f[i]
         /\ DOMAIN f # {} => Range(f) # {}
<1>1. Range(f) = {f[i] : i \in DOMAIN f}
  BY DEF Range
<1>2. IsFiniteSet(Range(f))
  BY <1>1, ImageFinite DEF Figures
<1> QED
  BY <1>1, <1>2 DEF Figures

LEMMA RankedIs ==
  ASSUME NEW f, Figures(f), NEW k \in 1..Cardinality(DOMAIN f)
  PROVE  /\ Ranked(f, k) \in Range(f) /\ Ranked(f, k) \in Int
         /\ Cardinality({i \in DOMAIN f : f[i] < Ranked(f, k)}) < k
         /\ Cardinality({i \in DOMAIN f : f[i] <= Ranked(f, k)}) >= k
<1> DEFINE Below(x) == {i \in DOMAIN f : f[i] < x}
           UpTo(x)  == {i \in DOMAIN f : f[i] <= x}
           Fits(x)  == Cardinality(Below(x)) < k /\ Cardinality(UpTo(x)) >= k
           enough   == {x \in Range(f) : Cardinality(UpTo(x)) >= k}
<1>1. /\ IsFiniteSet(DOMAIN f) /\ Cardinality(DOMAIN f) \in Nat /\ k \in Nat \ {0}
      /\ DOMAIN f # {}
  BY FS_CardinalityType, FS_EmptySet DEF Figures
<1>2. /\ Range(f) \in SUBSET Int /\ IsFiniteSet(Range(f)) /\ Range(f) # {}
      /\ \A i \in DOMAIN f : f[i] \in Range(f) /\ f[i] \in Int
  BY <1>1, FiguresRange DEF Figures
<1>3. ASSUME NEW x
      PROVE  /\ Below(x) \in SUBSET DOMAIN f /\ IsFiniteSet(Below(x))
             /\ Cardinality(Below(x)) \in Nat
             /\ UpTo(x) \in SUBSET DOMAIN f /\ IsFiniteSet(UpTo(x))
             /\ Cardinality(UpTo(x)) \in Nat
  <2>1. Below(x) \in SUBSET DOMAIN f /\ UpTo(x) \in SUBSET DOMAIN f
    OBVIOUS
  <2> HIDE DEF Below, UpTo
  <2>2. IsFiniteSet(Below(x)) /\ IsFiniteSet(UpTo(x))
    BY <1>1, <2>1, FS_Subset
  <2> QED
    BY <2>1, <2>2, FS_CardinalityType
<1>4. enough # {}
  <2>1. PICK m \in Range(f) : \A y \in Range(f) : m >= y
    BY <1>2, FiniteGreatest
  <2>2. UpTo(m) = DOMAIN f
    <3>1. \A i \in DOMAIN f : f[i] <= m
      BY <1>2, <2>1
    <3> QED
      BY <3>1
  <2> HIDE DEF UpTo
  <2>3. Cardinality(UpTo(m)) >= k
    BY <1>1, <2>2
  <2> QED
    BY <2>3
<1>5. enough \in SUBSET Int /\ IsFiniteSet(enough)
  <2>1. enough \in SUBSET Range(f)
    OBVIOUS
  <2>2. IsFiniteSet(enough)
    BY <1>2, <2>1, FS_Subset
  <2> QED
    BY <1>2, <2>1, <2>2
<1>6. PICK x \in enough : \A y \in enough : x <= y
  <2> HIDE DEF enough
  <2> QED
    BY <1>4, <1>5, FiniteLeast
<1>7. x \in Range(f) /\ x \in Int /\ Cardinality(UpTo(x)) >= k
  BY <1>5, <1>6
<1>8. Cardinality(Below(x)) < k
  <2>1. CASE Below(x) = {}
    <3> HIDE DEF Below
    <3> QED
      BY <1>1, <2>1, FS_EmptySet
  <2>2. CASE Below(x) # {}
    <3> DEFINE less == {f[i] : i \in Below(x)}
    <3>1. less \in SUBSET Int /\ less # {}
      BY <1>2, <2>2
    <3>2. IsFiniteSet(less)
      BY <1>3, ImageFinite
    <3>3. PICK y \in less : \A z \in less : y >= z
      <4> HIDE DEF less
      <4> QED
        BY <3>1, <3>2, FiniteGreatest
    <3>4. y \in Range(f) /\ y < x /\ y \in Int
      BY <1>2, <3>1, <3>3
    <3>5. Below(x) \in SUBSET UpTo(y)
      <4>1. ASSUME NEW i \in Below(x) PROVE f[i] <= y /\ i \in DOMAIN f
        BY <1>2, <3>1, <3>3, <3>4
      <4> QED
        BY <4>1
    <3>6. ~(x <= y)
      BY <1>7, <3>4
    <3>7. ~(Cardinality(UpTo(y)) >= k)
      BY <1>6, <3>4, <3>6
    <3> HIDE DEF Below, UpTo
    <3>8. Cardinality(Below(x)) <= Cardinality(UpTo(y))
      BY <1>3, <3>5, FS_Subset
    <3> QED
      BY <1>1, <1>3, <3>7, <3>8
  <2> QED
    BY <2>1, <2>2
<1>9. Fits(x)
  BY <1>7, <1>8
<1>10. Ranked(f, k) = CHOOSE z \in Range(f) : Fits(z)
  BY DEF Ranked
<1>11. Ranked(f, k) \in Range(f) /\ Fits(Ranked(f, k))
  <2> HIDE DEF Fits
  <2> QED
    BY <1>7, <1>9, <1>10
<1> QED
  BY <1>2, <1>11

\* What is nowhere larger has no larger value at any rank.
LEMMA RankedMonotone ==
  ASSUME NEW f, NEW g, Figures(f), Figures(g), DOMAIN f = DOMAIN g,
         \A i \in DOMAIN f : f[i] <= g[i], NEW k \in 1..Cardinality(DOMAIN f)
  PROVE  Ranked(f, k) <= Ranked(g, k)
<1>1. PICK x \in Int : x = Ranked(f, k) /\ Cardinality({i \in DOMAIN f : f[i] < x}) < k
  BY RankedIs
<1>2. PICK y \in Int : y = Ranked(g, k) /\ Cardinality({i \in DOMAIN g : g[i] <= y}) >= k
  BY RankedIs
<1>3. SUFFICES ASSUME y < x PROVE FALSE
  BY <1>1, <1>2
<1> DEFINE low  == {i \in DOMAIN g : g[i] <= y}
           less == {i \in DOMAIN f : f[i] < x}
<1>4. low \in SUBSET less
  <2>1. ASSUME NEW i \in DOMAIN f, g[i] <= y PROVE f[i] < x
    <3>1. f[i] \in Int /\ g[i] \in Int /\ f[i] <= g[i]
      BY DEF Figures
    <3> QED
      BY <1>3, <2>1, <3>1
  <2> QED
    BY <2>1
<1>5. IsFiniteSet(less) /\ IsFiniteSet(low)
  <2>1. less \in SUBSET DOMAIN f /\ low \in SUBSET DOMAIN f /\ IsFiniteSet(DOMAIN f)
    BY DEF Figures
  <2> HIDE DEF less, low
  <2> QED
    BY <2>1, FS_Subset
<1>6. Cardinality(low) >= k /\ Cardinality(less) < k
  BY <1>1, <1>2
<1>7. k \in Int
  OBVIOUS
<1> HIDE DEF low, less
<1>8. Cardinality(low) <= Cardinality(less) /\ Cardinality(low) \in Nat /\ Cardinality(less) \in Nat
  BY <1>4, <1>5, FS_Subset, FS_CardinalityType
<1> QED
  BY <1>6, <1>7, <1>8

LEMMA Middles ==
  ASSUME NEW n \in Nat \ {0}
  PROVE  (n + 1) \div 2 \in 1..n /\ (n + 2) \div 2 \in 1..n
  OBVIOUS

LEMMA MedianFacts ==
  ASSUME NEW f, Figures(f)
  PROVE  /\ Median2(f) \in Int
         /\ DOMAIN f # {} => \E x, y \in Range(f) : Median2(f) = x + y
<1>1. Cardinality(DOMAIN f) \in Nat /\ (Cardinality(DOMAIN f) = 0 <=> DOMAIN f = {})
  BY FS_CardinalityType, FS_EmptySet DEF Figures
<1>2. CASE DOMAIN f = {}
  BY <1>1, <1>2 DEF Median2
<1>3. CASE DOMAIN f # {}
  <2>1. PICK n \in Nat \ {0} : n = Cardinality(DOMAIN f)
    BY <1>1, <1>3
  <2>2. PICK a \in 1..n, b \in 1..n : a = (n + 1) \div 2 /\ b = (n + 2) \div 2
    BY Middles
  <2>3. /\ Ranked(f, a) \in Range(f) /\ Ranked(f, b) \in Range(f)
        /\ Ranked(f, a) \in Int /\ Ranked(f, b) \in Int
    BY <2>1, RankedIs
  <2>4. Median2(f) = Ranked(f, a) + Ranked(f, b)
    BY <2>1, <2>2 DEF Median2
  <2> QED
    BY <2>3, <2>4
<1> QED
  BY <1>2, <1>3

LEMMA MedianMonotone ==
  ASSUME NEW f, NEW g, Figures(f), Figures(g), DOMAIN f = DOMAIN g,
         \A i \in DOMAIN f : f[i] <= g[i]
  PROVE  Median2(f) <= Median2(g)
<1>1. Cardinality(DOMAIN f) \in Nat
  BY FS_CardinalityType DEF Figures
<1>2. CASE Cardinality(DOMAIN f) = 0
  BY <1>2 DEF Median2
<1>3. CASE Cardinality(DOMAIN f) # 0
  <2>1. PICK n \in Nat \ {0} : n = Cardinality(DOMAIN f)
    BY <1>1, <1>3
  <2>2. PICK a \in 1..n, b \in 1..n : a = (n + 1) \div 2 /\ b = (n + 2) \div 2
    BY Middles
  <2>3. Ranked(f, a) <= Ranked(g, a) /\ Ranked(f, b) <= Ranked(g, b)
    BY <2>1, RankedMonotone
  <2>4. /\ Ranked(f, a) \in Int /\ Ranked(f, b) \in Int
        /\ Ranked(g, a) \in Int /\ Ranked(g, b) \in Int
    BY <2>1, RankedIs
  <2>5. /\ Median2(f) = Ranked(f, a) + Ranked(f, b)
        /\ Median2(g) = Ranked(g, a) + Ranked(g, b)
    BY <2>1, <2>2 DEF Median2
  <2> QED
    BY <2>3, <2>4, <2>5
<1> QED
  BY <1>2, <1>3

\* What the audit calls missing is what has no usable sample, and where it names
\* no round the table's figure lies within the rounds' peaks, for any samples
\* (audit_campaign.py 149-172, make_ch4_tables.py 153-161, 184-188).
THEOREM GapsAreSeen == SamplesSpec => []AuditSeesGaps
<1>1. ASSUME SeriesTyped
      PROVE  MissingPeaks = {i \in DOMAIN series : Sampled(i) # {} /\ Usable(i) = {}}
  <2>1. ASSUME NEW i \in DOMAIN series
        PROVE  SummaryPeak(i) = NaN <=> Sampled(i) # {} /\ Usable(i) = {}
    <3>1. Usable(i) # {} => Max(Values(i)) # NaN
      BY <1>1, ValuesFacts
    <3>2. Unsampled # NaN
      BY SamplesAssumption
    <3> QED
      BY <3>1, <3>2 DEF SummaryPeak
  <2> QED
    BY <2>1 DEF MissingPeaks
<1>2. ASSUME SeriesTyped, series # <<>>, MissingPeaks = {},
             \A i \in DOMAIN series : Sampled(i) # {}
      PROVE  LET tops == {Max(Values(i)) : i \in DOMAIN series}
             IN  2 * Min(tops) <= TablePods2 /\ TablePods2 <= 2 * Max(tops)
  <2> DEFINE f == [i \in DOMAIN series |-> IF Usable(i) = {} THEN 0 ELSE SummaryPeak(i)]
             tops == {Max(Values(i)) : i \in DOMAIN series}
  <2>1. DOMAIN f = DOMAIN series /\ IsFiniteSet(DOMAIN series) /\ DOMAIN series # {}
    <3>1. PICK len \in Nat \ {0} : DOMAIN series = 1..len
      BY <1>2 DEF SeriesTyped
    <3>2. IsFiniteSet(1..len) /\ 1 \in 1..len
      BY FS_Interval
    <3> QED
      BY <3>1, <3>2
  <2>2. ASSUME NEW i \in DOMAIN series PROVE f[i] = Max(Values(i)) /\ f[i] \in Int
    <3>1. Usable(i) # {}
      BY <1>1, <1>2
    <3>2. SummaryPeak(i) = Max(Values(i)) /\ Max(Values(i)) \in Int
      BY <1>2, <3>1, ValuesFacts DEF SummaryPeak
    <3> QED
      BY <3>1, <3>2
  <2>3. TablePods2 = Median2(f)
    BY DEF TablePods2
  <2> HIDE DEF f
  <2>4. Figures(f)
    BY <2>1, <2>2 DEF Figures
  <2>5. Range(f) = tops
    BY <2>1, <2>2 DEF Range
  <2>6. tops \in SUBSET Int /\ IsFiniteSet(tops) /\ tops # {}
    BY <2>1, <2>4, <2>5, FiguresRange
  <2> HIDE DEF tops
  <2>7. PICK x \in tops, y \in tops : TablePods2 = x + y
    BY <2>1, <2>3, <2>4, <2>5, MedianFacts
  <2>8. /\ Min(tops) \in tops /\ \A z \in tops : Min(tops) <= z
        /\ Max(tops) \in tops /\ \A z \in tops : z <= Max(tops)
    BY <2>6, MinMax
  <2>9. 2 * Min(tops) <= TablePods2 /\ TablePods2 <= 2 * Max(tops)
    <3>1. PICK a \in Int, b \in Int : a = Min(tops) /\ b = Max(tops)
      BY <2>6, <2>8
    <3>2. x \in Int /\ y \in Int /\ a <= x /\ a <= y /\ x <= b /\ y <= b
      BY <2>6, <2>8, <3>1
    <3>3. 2 * a <= x + y /\ x + y <= 2 * b
      BY <3>2
    <3> QED
      BY <2>7, <3>1, <3>3
  <2> QED
    BY <2>9 DEF tops
<1>3. SeriesTyped => AuditSeesGaps
  BY <1>1, <1>2 DEF AuditSeesGaps
<1> QED
  BY <1>3, SeriesInvariant, PTL

LEMMA TierFacts ==
  ASSUME SheetTyped, what = "tiers"
  PROVE  /\ IsFiniteSet(DOMAIN data) /\ Cardinality(DOMAIN data) = Len(data)
         /\ Len(data) \in Nat
         /\ \A i \in DOMAIN data : \A t \in 1..3 :
              data[i][t] \in Int /\ OrZero(data[i])[t] \in Int
<1> DEFINE Fit == [1..3 -> Waits]
<1>1. Records["tiers"] = Fit
  BY DEF Records
<1>2. PICK len \in Nat : len = Len(data) /\ DOMAIN data = 1..len /\ \A i \in 1..len : data[i] \in Fit
  <2>1. data \in Seq(Fit)
    BY <1>1 DEF SheetTyped
  <2> HIDE DEF Fit
  <2> QED
    BY <2>1
<1>3. Waits \subseteq Int
  BY ResultsAssumption
<1>4. ASSUME NEW i \in DOMAIN data, NEW t \in 1..3
      PROVE  data[i][t] \in Int /\ OrZero(data[i])[t] \in Int
  <2>1. data[i][t] \in Int
    BY <1>2, <1>3
  <2>2. OrZero(data[i])[t] = IF data[i][t] = None THEN 0 ELSE data[i][t]
    BY DEF OrZero
  <2> QED
    BY <2>1, <2>2
<1>5. IsFiniteSet(1..len) /\ Cardinality(1..len) = len
  <2>1. Cardinality(1..len) = IF 1 > len THEN 0 ELSE len - 1 + 1
    BY FS_Interval
  <2> QED
    BY <2>1, FS_Interval
<1> QED
  BY <1>2, <1>4, <1>5

\* Medians over rounds whose tiers are in order are in order.
LEMMA MediansInOrder ==
  ASSUME NEW D, IsFiniteSet(D), NEW w, \A i \in D : \A t \in 1..3 : w[i][t] \in Int,
         \A i \in D : Monotone(w[i])
  PROVE  Monotone([t \in 1..3 |-> Median2([i \in D |-> w[i][t]])])
<1> DEFINE f(t) == [i \in D |-> w[i][t]]
           m    == [t \in 1..3 |-> Median2(f(t))]
<1>1. ASSUME NEW t \in 1..3 PROVE Figures(f(t)) /\ DOMAIN f(t) = D
  BY DEF Figures
<1>2. \A i \in D : f(1)[i] <= f(2)[i] /\ f(2)[i] <= f(3)[i]
  BY DEF Monotone
<1>3. m[1] = Median2(f(1)) /\ m[2] = Median2(f(2)) /\ m[3] = Median2(f(3))
  OBVIOUS
<1>4. 1 \in 1..3 /\ 2 \in 1..3 /\ 3 \in 1..3
  OBVIOUS
<1> HIDE DEF f
<1>5. Median2(f(1)) <= Median2(f(2))
  BY <1>1, <1>2, <1>4, MedianMonotone
<1>6. Median2(f(2)) <= Median2(f(3))
  BY <1>1, <1>2, <1>4, MedianMonotone
<1>7. Monotone(m)
  <2> HIDE DEF m
  <2> QED
    BY <1>3, <1>5, <1>6 DEF Monotone
<1> QED
  BY <1>7 DEF f

\* An inversion the tables show is one that some round had, for any number of
\* rounds and any waits (make_ch4_tables.py 372-393, 494-523).
THEOREM InversionsAreReal == ResultsSpec => []InversionIsReal
<1>1. ASSUME SheetTyped, what = "tiers", \A i \in DOMAIN data, t \in 1..3 : data[i][t] # None,
             Verdict = "inverted"
      PROVE  \E i \in DOMAIN data : ~Monotone(data[i])
  <2>1. SUFFICES ASSUME \A i \in DOMAIN data : Monotone(data[i]) PROVE FALSE
    OBVIOUS
  <2>2. ~Monotone(TierMed)
    <3>1. Monotone(TierMed) => Verdict = "no queue" \/ Verdict = "monotone"
      BY DEF Verdict
    <3> QED
      BY <1>1, <3>1
  <2>3. Monotone([t \in 1..3 |-> Median2([i \in DOMAIN data |-> data[i][t]])])
    BY <1>1, <2>1, TierFacts, MediansInOrder
  <2>4. \A t \in 1..3 : {i \in DOMAIN data : data[i][t] # None} = DOMAIN data
    BY <1>1
  <2>5. TierMed = [t \in 1..3 |-> Median2([i \in DOMAIN data |-> data[i][t]])]
    <3> DEFINE D(t) == {i \in DOMAIN data : data[i][t] # None}
    <3>1. TierMed = [t \in 1..3 |-> Median2([i \in D(t) |-> data[i][t]])]
      BY DEF TierMed
    <3>2. \A t \in 1..3 : D(t) = DOMAIN data
      BY <2>4
    <3> HIDE DEF D
    <3> QED
      BY <3>1, <3>2
  <2> QED
    BY <2>2, <2>3, <2>5
<1>2. ASSUME SheetTyped, what = "tiers", MonotoneRounds = Len(data) PROVE Monotone(RoundsMed)
  <2> DEFINE w == [i \in DOMAIN data |-> OrZero(data[i])]
             good == {i \in DOMAIN data : Monotone(w[i])}
  <2>1. /\ IsFiniteSet(DOMAIN data) /\ Cardinality(DOMAIN data) = Len(data)
        /\ \A i \in DOMAIN data : \A t \in 1..3 : w[i][t] \in Int
    BY <1>2, TierFacts
  <2>2. Cardinality(good) = Cardinality(DOMAIN data)
    <3>1. good = {i \in DOMAIN data : Monotone(OrZero(data[i]))}
      OBVIOUS
    <3> HIDE DEF good
    <3> QED
      BY <1>2, <2>1, <3>1 DEF MonotoneRounds
  <2>3. good = DOMAIN data
    <3>1. good \in SUBSET DOMAIN data
      OBVIOUS
    <3> HIDE DEF good
    <3> QED
      BY <2>1, <2>2, <3>1, FS_Subset
  <2>4. \A i \in DOMAIN data : Monotone(w[i])
    BY <2>3
  <2>5. RoundsMed = [t \in 1..3 |-> Median2([i \in DOMAIN data |-> w[i][t]])]
    BY DEF RoundsMed
  <2> HIDE DEF w
  <2> QED
    BY <2>1, <2>4, <2>5, MediansInOrder
<1>3. SheetTyped => InversionIsReal
  BY <1>1, <1>2 DEF InversionIsReal
<1> QED
  BY <1>3, SheetInvariant, PTL

(***************************************************************************)
(* What sums do                                                            *)
(***************************************************************************)
\* The sum over a set is that over a part of it and that over the rest.
LEMMA SumParts ==
  ASSUME NEW S, IsFiniteSet(S), NEW f, \A x \in S : f[x] \in Int, NEW T \in SUBSET S
  PROVE  /\ SumFunctionOnSet(f, T) \in Int /\ SumFunctionOnSet(f, S \ T) \in Int
         /\ SumFunctionOnSet(f, S) = SumFunctionOnSet(f, T) + SumFunctionOnSet(f, S \ T)
<1> DEFINE A == {U \in SUBSET T :
                   SumFunctionOnSet(f, S) = SumFunctionOnSet(f, U) + SumFunctionOnSet(f, S \ U)}
<1>1. ASSUME NEW U \in SUBSET S
      PROVE  IsFiniteSet(U) /\ (\A x \in U : f[x] \in Int) /\ SumFunctionOnSet(f, U) \in Int
  <2>1. IsFiniteSet(U)
    BY FS_Subset
  <2> QED
    BY <2>1, SumRest
<1>2. {} \in A
  <2>1. S \ {} = S /\ SumFunctionOnSet(f, S) \in Int
    BY <1>1
  <2> QED
    BY <2>1, SumEmpty
<1>3. ASSUME NEW U \in SUBSET T, U # {}, \A x \in U : U \ {x} \in A PROVE U \in A
  <2>1. PICK x \in U : TRUE
    BY <1>3
  <2>2. PICK V \in SUBSET S : V = U \ {x}
    OBVIOUS
  <2>3. PICK W \in SUBSET S : W = S \ V /\ W \ {x} = S \ U /\ x \in W
    <3>1. (S \ (U \ {x})) \ {x} = S \ U /\ x \in S \ (U \ {x})
      OBVIOUS
    <3>2. S \ V \in SUBSET S
      OBVIOUS
    <3> QED
      BY <2>2, <3>1, <3>2
  <2>4. SumFunctionOnSet(f, U) = f[x] + SumFunctionOnSet(f, V)
    BY <1>1, <2>2, SumMore
  <2>5. SumFunctionOnSet(f, W) = f[x] + SumFunctionOnSet(f, S \ U)
    BY <1>1, <2>3, SumMore
  <2>6. SumFunctionOnSet(f, S) = SumFunctionOnSet(f, V) + SumFunctionOnSet(f, W)
    BY <1>3, <2>1, <2>2, <2>3
  <2>7. /\ SumFunctionOnSet(f, V) \in Int /\ SumFunctionOnSet(f, S \ U) \in Int
        /\ f[x] \in Int
    <3>1. S \ U \in SUBSET S /\ x \in S
      OBVIOUS
    <3> QED
      BY <1>1, <3>1
  <2> QED
    BY <2>4, <2>5, <2>6, <2>7
<1>4. T \in A
  <2>1. IsFiniteSet(T)
    BY <1>1
  <2> HIDE DEF A
  <2> QED
    BY <1>2, <1>3, <2>1, FiniteInduct
<1>5. S \ T \in SUBSET S
  OBVIOUS
<1> QED
  BY <1>1, <1>4, <1>5

LEMMA SumNegated ==
  ASSUME NEW S, IsFiniteSet(S), NEW f, NEW g, \A x \in S : f[x] \in Int /\ g[x] = -f[x]
  PROVE  SumFunctionOnSet(g, S) = -SumFunctionOnSet(f, S)
<1> DEFINE A == {T \in SUBSET S : SumFunctionOnSet(g, T) = -SumFunctionOnSet(f, T)}
<1>1. {} \in A
  BY SumEmpty
<1>2. ASSUME NEW T \in SUBSET S, T # {}, \A x \in T : T \ {x} \in A PROVE T \in A
  <2>1. PICK x \in T : TRUE
    BY <1>2
  <2>2. IsFiniteSet(T)
    BY FS_Subset
  <2>3. /\ SumFunctionOnSet(f, T) = f[x] + SumFunctionOnSet(f, T \ {x})
        /\ SumFunctionOnSet(f, T \ {x}) \in Int
    BY <2>2, SumMore
  <2>4. /\ SumFunctionOnSet(g, T) = g[x] + SumFunctionOnSet(g, T \ {x})
    <3>1. \A y \in T : g[y] \in Int
      OBVIOUS
    <3> QED
      BY <2>2, <3>1, SumMore
  <2>5. SumFunctionOnSet(g, T \ {x}) = -SumFunctionOnSet(f, T \ {x})
    BY <1>2
  <2>6. f[x] \in Int /\ g[x] = -f[x]
    OBVIOUS
  <2> QED
    BY <2>3, <2>4, <2>5, <2>6
<1>3. S \in A
  <2> HIDE DEF A
  <2> QED
    BY <1>1, <1>2, FiniteInduct
<1> QED
  BY <1>3

LEMMA SumAtMost ==
  ASSUME NEW S, IsFiniteSet(S), NEW f, NEW g,
         \A x \in S : f[x] \in Int /\ g[x] \in Int /\ f[x] <= g[x]
  PROVE  /\ SumFunctionOnSet(f, S) \in Int /\ SumFunctionOnSet(g, S) \in Int
         /\ SumFunctionOnSet(f, S) <= SumFunctionOnSet(g, S)
<1> DEFINE A == {T \in SUBSET S : SumFunctionOnSet(f, T) <= SumFunctionOnSet(g, T)}
<1>1. {} \in A
  BY SumEmpty
<1>2. ASSUME NEW T \in SUBSET S, T # {}, \A x \in T : T \ {x} \in A PROVE T \in A
  <2>1. PICK x \in T : TRUE
    BY <1>2
  <2>2. IsFiniteSet(T)
    BY FS_Subset
  <2>3. /\ SumFunctionOnSet(f, T) = f[x] + SumFunctionOnSet(f, T \ {x})
        /\ SumFunctionOnSet(f, T \ {x}) \in Int
    BY <2>2, SumMore
  <2>4. /\ SumFunctionOnSet(g, T) = g[x] + SumFunctionOnSet(g, T \ {x})
        /\ SumFunctionOnSet(g, T \ {x}) \in Int
    BY <2>2, SumMore
  <2>5. SumFunctionOnSet(f, T \ {x}) <= SumFunctionOnSet(g, T \ {x})
    BY <1>2
  <2>6. f[x] \in Int /\ g[x] \in Int /\ f[x] <= g[x]
    OBVIOUS
  <2> QED
    BY <2>3, <2>4, <2>5, <2>6
<1>3. S \in A
  <2> HIDE DEF A
  <2> QED
    BY <1>1, <1>2, FiniteInduct
<1>4. SumFunctionOnSet(f, S) \in Int /\ SumFunctionOnSet(g, S) \in Int
  BY SumRest
<1> QED
  BY <1>3, <1>4

LEMMA SumLess ==
  ASSUME NEW S, IsFiniteSet(S), NEW f, NEW g,
         \A x \in S : f[x] \in Int /\ g[x] \in Int /\ f[x] <= g[x],
         NEW y \in S, f[y] < g[y]
  PROVE  SumFunctionOnSet(f, S) < SumFunctionOnSet(g, S)
<1>1. SumFunctionOnSet(f, S) = f[y] + SumFunctionOnSet(f, S \ {y})
      /\ SumFunctionOnSet(g, S) = g[y] + SumFunctionOnSet(g, S \ {y})
  BY SumMore
<1>2. /\ SumFunctionOnSet(f, S \ {y}) \in Int /\ SumFunctionOnSet(g, S \ {y}) \in Int
      /\ SumFunctionOnSet(f, S \ {y}) <= SumFunctionOnSet(g, S \ {y})
  <2>1. IsFiniteSet(S \ {y})
    BY FS_Subset
  <2> QED
    BY <2>1, SumAtMost
<1>3. f[y] \in Int /\ g[y] \in Int
  OBVIOUS
<1> QED
  BY <1>1, <1>2, <1>3

\* The sum of as many times the same.
LEMMA SumConstant ==
  ASSUME NEW S, IsFiniteSet(S), NEW c \in Int, NEW f, \A x \in S : f[x] = c
  PROVE  SumFunctionOnSet(f, S) = Cardinality(S) * c
<1> DEFINE A == {T \in SUBSET S : SumFunctionOnSet(f, T) = Cardinality(T) * c}
<1>1. {} \in A
  <2>1. 0 = 0 * c
    OBVIOUS
  <2> QED
    BY <2>1, SumEmpty, FS_EmptySet
<1>2. ASSUME NEW T \in SUBSET S, T # {}, \A x \in T : T \ {x} \in A PROVE T \in A
  <2>1. PICK x \in T : TRUE
    BY <1>2
  <2>2. IsFiniteSet(T)
    BY FS_Subset
  <2>3. SumFunctionOnSet(f, T) = f[x] + SumFunctionOnSet(f, T \ {x})
    BY <2>2, SumMore
  <2>4. PICK n \in Nat : n = Cardinality(T \ {x}) /\ Cardinality(T) = n + 1
    <3>1. IsFiniteSet(T \ {x}) /\ Cardinality(T \ {x}) = Cardinality(T) - 1
      BY <2>2, FS_RemoveElement
    <3>2. Cardinality(T \ {x}) \in Nat /\ Cardinality(T) \in Nat
      BY <2>2, <3>1, FS_CardinalityType
    <3> QED
      BY <3>1, <3>2
  <2>5. SumFunctionOnSet(f, T \ {x}) = n * c
    BY <1>2, <2>4
  <2>6. (n + 1) * c = c + n * c
    OBVIOUS
  <2> QED
    BY <2>3, <2>4, <2>5, <2>6
<1>3. S \in A
  <2> HIDE DEF A
  <2> QED
    BY <1>1, <1>2, FiniteInduct
<1> QED
  BY <1>3

\* Of two sets of as many elements the one sums to more all of whose values
\* beyond those they share are larger.
LEMMA SumExchanged ==
  ASSUME NEW S, IsFiniteSet(S), NEW f, \A x \in S : f[x] \in Int,
         NEW I \in SUBSET S, NEW J \in SUBSET S, I # J, Cardinality(I) = Cardinality(J),
         \A x \in I \ J, y \in J \ I : f[x] > f[y]
  PROVE  /\ SumFunctionOnSet(f, J) < SumFunctionOnSet(f, I)
         /\ SumFunctionOnSet(f, J) \in Int /\ SumFunctionOnSet(f, I) \in Int
<1>1. PICK P \in SUBSET S, Q \in SUBSET S, C \in SUBSET S :
        P = I \ J /\ Q = J \ I /\ C = I \cap J
  OBVIOUS
<1>2. ASSUME NEW U \in SUBSET S
      PROVE  IsFiniteSet(U) /\ (\A x \in U : f[x] \in Int) /\ SumFunctionOnSet(f, U) \in Int
             /\ Cardinality(U) \in Nat
  <2>1. IsFiniteSet(U)
    BY FS_Subset
  <2> QED
    BY <2>1, SumRest, FS_CardinalityType
<1>3. /\ SumFunctionOnSet(f, I) = SumFunctionOnSet(f, C) + SumFunctionOnSet(f, P)
      /\ SumFunctionOnSet(f, J) = SumFunctionOnSet(f, C) + SumFunctionOnSet(f, Q)
  <2>1. C \in SUBSET I /\ I \ C = P /\ C \in SUBSET J /\ J \ C = Q
    BY <1>1
  <2> QED
    BY <1>2, <2>1, SumParts
<1>4. Cardinality(P) = Cardinality(Q)
  <2>1. /\ Cardinality(P) = Cardinality(I) - Cardinality(C)
        /\ Cardinality(Q) = Cardinality(J) - Cardinality(C)
    <3>1. IsFiniteSet(I) /\ IsFiniteSet(J)
      BY <1>2
    <3>2. /\ Cardinality(I \ J) = Cardinality(I) - Cardinality(I \cap J)
          /\ Cardinality(J \ I) = Cardinality(J) - Cardinality(J \cap I)
      BY <3>1, FS_Difference
    <3>3. I \cap J = J \cap I
      OBVIOUS
    <3> QED
      BY <1>1, <3>2, <3>3
  <2> QED
    BY <2>1
<1>5. P # {} /\ Q # {}
  <2>1. P # {} \/ Q # {}
    BY <1>1
  <2>2. Cardinality(P) = 0 <=> P = {}
    BY <1>2, FS_EmptySet
  <2>3. Cardinality(Q) = 0 <=> Q = {}
    BY <1>2, FS_EmptySet
  <2> QED
    BY <1>4, <2>1, <2>2, <2>3
<1> DEFINE top == {f[y] : y \in Q}
<1>6. PICK c \in Int : (\A y \in Q : f[y] <= c) /\ \E y \in Q : c = f[y]
  <2>1. top \in SUBSET Int /\ top # {} /\ IsFiniteSet(top)
    BY <1>2, <1>5, ImageFinite
  <2>2. PICK c \in top : \A z \in top : c >= z
    <3> HIDE DEF top
    <3> QED
      BY <2>1, FiniteGreatest
  <2>3. ASSUME NEW y \in Q PROVE f[y] <= c
    <3>1. f[y] \in top
      OBVIOUS
    <3>2. f[y] \in Int /\ c \in Int /\ c >= f[y]
      BY <2>1, <2>2, <3>1
    <3> QED
      BY <3>2
  <2> QED
    BY <2>1, <2>2, <2>3
<1>7. \A x \in P : c < f[x]
  BY <1>1, <1>6
<1> DEFINE g == [x \in S |-> c]
<1>8. SumFunctionOnSet(f, Q) <= SumFunctionOnSet(g, Q)
  <2>1. \A x \in Q : f[x] \in Int /\ g[x] \in Int /\ f[x] <= g[x]
    BY <1>2, <1>6
  <2> HIDE DEF g
  <2> QED
    BY <1>2, <2>1, SumAtMost
<1>9. SumFunctionOnSet(g, P) < SumFunctionOnSet(f, P)
  <2>1. \A x \in P : f[x] \in Int /\ g[x] \in Int /\ g[x] <= f[x] /\ g[x] < f[x]
    BY <1>2, <1>7
  <2> HIDE DEF g
  <2>2. PICK x \in P : TRUE
    BY <1>5
  <2> QED
    BY <1>2, <2>1, <2>2, SumLess
<1>10. SumFunctionOnSet(g, P) = SumFunctionOnSet(g, Q) /\ SumFunctionOnSet(g, Q) \in Int
  <2>1. \A x \in S : g[x] = c
    OBVIOUS
  <2> HIDE DEF g
  <2>2. SumFunctionOnSet(g, P) = Cardinality(P) * c /\ SumFunctionOnSet(g, Q) = Cardinality(Q) * c
    BY <1>2, <2>1, SumConstant
  <2>3. \A x \in Q : g[x] \in Int
    BY <2>1
  <2>4. SumFunctionOnSet(g, Q) \in Int
    BY <1>2, <2>3, SumRest
  <2> QED
    BY <1>4, <2>2, <2>4
<1>11. /\ SumFunctionOnSet(f, P) \in Int /\ SumFunctionOnSet(f, Q) \in Int
       /\ SumFunctionOnSet(f, C) \in Int
       /\ SumFunctionOnSet(f, I) \in Int /\ SumFunctionOnSet(f, J) \in Int
  BY <1>2
<1> HIDE DEF g
<1> QED
  BY <1>3, <1>8, <1>9, <1>10, <1>11

(***************************************************************************)
(* The paired test                                                         *)
(***************************************************************************)
LEMMA SignsFinite ==
  ASSUME NEW D, IsFiniteSet(D)
  PROVE  IsFiniteSet([D -> {1, -1}])
<1> DEFINE F == [D -> {1, -1}]
           up == [s \in F |-> {i \in D : s[i] = 1}]
<1>1. up \in [F -> SUBSET D]
  OBVIOUS
<1>2. ASSUME NEW s \in F, NEW t \in F, up[s] = up[t] PROVE s = t
  <2>1. {i \in D : s[i] = 1} = {i \in D : t[i] = 1}
    BY <1>2
  <2>2. ASSUME NEW i \in D PROVE s[i] = t[i]
    BY <2>1
  <2> QED
    BY <2>2
<1> HIDE DEF up, F
<1>3. up \in Injection(F, SUBSET D)
  BY <1>1, <1>2 DEF Injection, IsInjective
<1>4. IsFiniteSet(SUBSET D)
  BY FS_SUBSET
<1>5. IsFiniteSet(F)
  BY <1>3, <1>4, FS_Injection
<1> QED
  BY <1>5 DEF F

\* Two that differ are two; with a third there are three.
LEMMA PairCount ==
  ASSUME NEW X, IsFiniteSet(X), NEW a \in X, NEW b \in X, a # b
  PROVE  /\ Cardinality(X) >= 2 /\ Cardinality(X) \in Nat
         /\ Cardinality(X) = 2 <=> X = {a, b}
<1>1. IsFiniteSet({a}) /\ Cardinality({a}) = 1
  BY FS_Singleton
<1>2. IsFiniteSet({a} \cup {b}) /\ Cardinality({a} \cup {b}) = 2
  <2>1. b \notin {a}
    OBVIOUS
  <2> QED
    BY <1>1, <2>1, FS_AddElement
<1>3. PICK Y \in SUBSET X : Y = {a, b} /\ IsFiniteSet(Y) /\ Cardinality(Y) = 2
  <2>1. {a} \cup {b} = {a, b}
    OBVIOUS
  <2> QED
    BY <1>2, <2>1
<1>4. Cardinality(Y) <= Cardinality(X) /\ (Cardinality(X) = Cardinality(Y) => X = Y)
  BY FS_Subset
<1>5. Cardinality(X) \in Nat
  BY FS_CardinalityType
<1> QED
  BY <1>3, <1>4, <1>5

Signed(s, d) == [i \in DOMAIN d |-> s[i] * d[i]]

LEMMA SignedFacts ==
  ASSUME NEW d, Figures(d), NEW s \in [DOMAIN d -> {1, -1}]
  PROVE  /\ SumFunction(Signed(s, d)) = SumFunctionOnSet(Signed(s, d), DOMAIN d)
         /\ SumFunction(Signed(s, d)) \in Int
         /\ \A i \in DOMAIN d : /\ Signed(s, d)[i] \in Int /\ d[i] \in Int
                                /\ s[i] = 1 \/ s[i] = -1
                                /\ s[i] = 1 => Signed(s, d)[i] = d[i]
                                /\ s[i] = -1 => Signed(s, d)[i] = -d[i]
<1>1. \A i \in DOMAIN d : s[i] \in {1, -1} /\ d[i] \in Int
  BY DEF Figures
<1>2. ASSUME NEW i \in DOMAIN d
      PROVE  /\ Signed(s, d)[i] \in Int
             /\ s[i] = 1 => Signed(s, d)[i] = d[i]
             /\ s[i] = -1 => Signed(s, d)[i] = -d[i]
  <2>1. Signed(s, d)[i] = s[i] * d[i]
    BY DEF Signed
  <2>2. CASE s[i] = 1
    BY <1>1, <2>1, <2>2
  <2>3. CASE s[i] = -1
    BY <1>1, <2>1, <2>3
  <2> QED
    BY <1>1, <2>2, <2>3
<1>3. SumFunction(Signed(s, d)) = SumFunctionOnSet(Signed(s, d), DOMAIN d)
  <2>1. DOMAIN Signed(s, d) = DOMAIN d
    BY DEF Signed
  <2> QED
    BY <2>1 DEF SumFunction
<1>4. SumFunctionOnSet(Signed(s, d), DOMAIN d) \in Int
  BY <1>2, SumRest DEF Figures
<1> QED
  BY <1>1, <1>2, <1>3, <1>4

\* All as they are, and all of them turned.
Kept(d)   == [i \in DOMAIN d |-> 1]
Turned(d) == [i \in DOMAIN d |-> -1]

LEMMA BothExtreme ==
  ASSUME NEW d, Figures(d), DOMAIN d # {}
  PROVE  /\ Kept(d) \in [DOMAIN d -> {1, -1}] /\ Turned(d) \in [DOMAIN d -> {1, -1}]
         /\ Kept(d) # Turned(d)
         /\ SumFunction(d) \in Int /\ SumFunction(d) = SumFunctionOnSet(d, DOMAIN d)
         /\ SumFunction(Signed(Kept(d), d)) = SumFunction(d)
         /\ SumFunction(Signed(Turned(d), d)) = -SumFunction(d)
<1>1. Kept(d) \in [DOMAIN d -> {1, -1}] /\ Turned(d) \in [DOMAIN d -> {1, -1}]
  BY DEF Kept, Turned
<1>2. Kept(d) # Turned(d)
  <2>1. PICK i \in DOMAIN d : TRUE
    OBVIOUS
  <2>2. Kept(d)[i] = 1 /\ Turned(d)[i] = -1
    BY DEF Kept, Turned
  <2> QED
    BY <2>2
<1>3. SumFunction(d) = SumFunctionOnSet(d, DOMAIN d)
  BY DEF SumFunction
<1>4. SumFunction(d) \in Int
  BY <1>3, SumRest DEF Figures
<1>5. SumFunction(Signed(Kept(d), d)) = SumFunction(d)
  <2>1. \A i \in DOMAIN d : d[i] \in Int /\ d[i] = Signed(Kept(d), d)[i]
    <3>1. \A i \in DOMAIN d : Kept(d)[i] = 1
      BY DEF Kept
    <3> QED
      BY <1>1, <3>1, SignedFacts
  <2>2. SumFunctionOnSet(d, DOMAIN d) = SumFunctionOnSet(Signed(Kept(d), d), DOMAIN d)
    BY <2>1, SumSame DEF Figures
  <2> QED
    BY <1>1, <1>3, <2>2, SignedFacts
<1>6. SumFunction(Signed(Turned(d), d)) = -SumFunction(d)
  <2>1. \A i \in DOMAIN d : d[i] \in Int /\ Signed(Turned(d), d)[i] = -d[i]
    <3>1. \A i \in DOMAIN d : Turned(d)[i] = -1
      BY DEF Turned
    <3> QED
      BY <1>1, <3>1, SignedFacts
  <2>2. SumFunctionOnSet(Signed(Turned(d), d), DOMAIN d) = -SumFunctionOnSet(d, DOMAIN d)
    BY <2>1, SumNegated DEF Figures
  <2> QED
    BY <1>1, <1>3, <2>2, SignedFacts
<1> QED
  BY <1>1, <1>2, <1>3, <1>4, <1>5, <1>6

LEMMA SignsOf ==
  ASSUME NEW d, Figures(d), NEW s \in [DOMAIN d -> {1, -1}]
  PROVE  /\ s # Kept(d) => \E i \in DOMAIN d : s[i] = -1
         /\ s # Turned(d) => \E i \in DOMAIN d : s[i] = 1
<1>1. ASSUME \A i \in DOMAIN d : s[i] # -1 PROVE s = Kept(d)
  <2>1. \A i \in DOMAIN d : s[i] = 1
    BY <1>1
  <2> QED
    BY <2>1 DEF Kept
<1>2. ASSUME \A i \in DOMAIN d : s[i] # 1 PROVE s = Turned(d)
  <2>1. \A i \in DOMAIN d : s[i] = -1
    BY <1>2
  <2> QED
    BY <2>1 DEF Turned
<1> QED
  BY <1>1, <1>2

\* When all rounds point one way, no other choice of signs is as extreme.
LEMMA OneWay ==
  ASSUME NEW d, Figures(d), DOMAIN d # {},
         (\A i \in DOMAIN d : d[i] > 0) \/ (\A i \in DOMAIN d : d[i] < 0)
  PROVE  /\ SumFunction(d) # 0
         /\ \A s \in [DOMAIN d -> {1, -1}] :
              AsExtreme(SumFunction(Signed(s, d)), SumFunction(d)) => s = Kept(d) \/ s = Turned(d)
<1> DEFINE D == DOMAIN d
           of(s) == SumFunctionOnSet(Signed(s, d), D)
<1>1. PICK S \in Int : S = SumFunction(d)
  BY BothExtreme
<1>2. /\ Kept(d) \in [D -> {1, -1}] /\ Turned(d) \in [D -> {1, -1}]
      /\ of(Kept(d)) = S /\ of(Turned(d)) = -S
  BY <1>1, BothExtreme, SignedFacts
<1>3. ASSUME NEW s \in [D -> {1, -1}], NEW t \in [D -> {1, -1}],
             \A i \in D : Signed(s, d)[i] <= Signed(t, d)[i],
             NEW j \in D, Signed(s, d)[j] < Signed(t, d)[j]
      PROVE  of(s) < of(t)
  <2>1. \A i \in D : Signed(s, d)[i] \in Int /\ Signed(t, d)[i] \in Int
    BY SignedFacts
  <2> QED
    BY <1>3, <2>1, SumLess DEF Figures
<1>4. ASSUME NEW s \in [D -> {1, -1}]
      PROVE  of(s) \in Int /\ of(s) = SumFunction(Signed(s, d))
  BY SignedFacts
<1>5. ASSUME NEW s \in [D -> {1, -1}], NEW i \in D
      PROVE  /\ d[i] \in Int
             /\ Signed(Kept(d), d)[i] = d[i] /\ Signed(Turned(d), d)[i] = -d[i]
             /\ s[i] = 1 => Signed(s, d)[i] = d[i]
             /\ s[i] = -1 => Signed(s, d)[i] = -d[i]
             /\ s[i] = 1 \/ s[i] = -1
  <2>1. Kept(d)[i] = 1 /\ Turned(d)[i] = -1
    BY DEF Kept, Turned
  <2> QED
    BY <1>2, <2>1, SignedFacts
<1> HIDE DEF of
<1>6. PICK i0 \in D : TRUE
  OBVIOUS
<1>7. CASE \A i \in D : d[i] > 0
  <2>1. ASSUME NEW s \in [D -> {1, -1}], NEW i \in D
        PROVE  /\ Signed(Turned(d), d)[i] <= Signed(s, d)[i]
               /\ Signed(s, d)[i] <= Signed(Kept(d), d)[i]
               /\ s[i] = 1 => Signed(Turned(d), d)[i] < Signed(s, d)[i]
               /\ s[i] = -1 => Signed(s, d)[i] < Signed(Kept(d), d)[i]
    BY <1>5, <1>7
  <2>2. -S < S
    <3>1. Kept(d)[i0] = 1
      BY DEF Kept
    <3>2. of(Turned(d)) < of(Kept(d))
      BY <1>2, <1>3, <2>1, <3>1
    <3> QED
      BY <1>2, <3>2
  <2>3. ASSUME NEW s \in [D -> {1, -1}], s # Kept(d), s # Turned(d) PROVE -S < of(s) /\ of(s) < S
    <3>1. PICK i \in D, j \in D : s[i] = -1 /\ s[j] = 1
      BY <2>3, SignsOf
    <3>2. of(s) < of(Kept(d))
      BY <1>2, <1>3, <2>1, <3>1
    <3>3. of(Turned(d)) < of(s)
      BY <1>2, <1>3, <2>1, <3>1
    <3> QED
      BY <1>2, <3>2, <3>3
  <2>4. ASSUME NEW s \in [D -> {1, -1}], s # Kept(d), s # Turned(d) PROVE ~AsExtreme(of(s), S)
    BY <1>4, <2>2, <2>3, <2>4 DEF AsExtreme, Mag
  <2> QED
    BY <1>1, <1>4, <2>2, <2>4
<1>8. CASE \A i \in D : d[i] < 0
  <2>1. ASSUME NEW s \in [D -> {1, -1}], NEW i \in D
        PROVE  /\ Signed(Kept(d), d)[i] <= Signed(s, d)[i]
               /\ Signed(s, d)[i] <= Signed(Turned(d), d)[i]
               /\ s[i] = -1 => Signed(Kept(d), d)[i] < Signed(s, d)[i]
               /\ s[i] = 1 => Signed(s, d)[i] < Signed(Turned(d), d)[i]
    BY <1>5, <1>8
  <2>2. S < -S
    <3>1. Turned(d)[i0] = -1
      BY DEF Turned
    <3>2. of(Kept(d)) < of(Turned(d))
      BY <1>2, <1>3, <2>1, <3>1
    <3> QED
      BY <1>2, <3>2
  <2>3. ASSUME NEW s \in [D -> {1, -1}], s # Kept(d), s # Turned(d) PROVE S < of(s) /\ of(s) < -S
    <3>1. PICK i \in D, j \in D : s[i] = -1 /\ s[j] = 1
      BY <2>3, SignsOf
    <3>2. of(Kept(d)) < of(s)
      BY <1>2, <1>3, <2>1, <3>1
    <3>3. of(s) < of(Turned(d))
      BY <1>2, <1>3, <2>1, <3>1
    <3> QED
      BY <1>2, <3>2, <3>3
  <2>4. ASSUME NEW s \in [D -> {1, -1}], s # Kept(d), s # Turned(d) PROVE ~AsExtreme(of(s), S)
    BY <1>4, <2>2, <2>3, <2>4 DEF AsExtreme, Mag
  <2> QED
    BY <1>1, <1>4, <2>2, <2>4
<1> QED
  BY <1>7, <1>8

\* A round that points the other way, or none, can be turned and the mean is no
\* nearer to 0.
LEMMA TurnOne ==
  ASSUME NEW d, Figures(d), NEW j \in DOMAIN d, SumFunction(d) # 0,
         \/ SumFunction(d) > 0 /\ ~(d[j] > 0)
         \/ SumFunction(d) < 0 /\ ~(d[j] < 0)
  PROVE  \E s \in [DOMAIN d -> {1, -1}] :
           /\ AsExtreme(SumFunction(Signed(s, d)), SumFunction(d))
           /\ s # Kept(d) /\ s # Turned(d)
<1> DEFINE D == DOMAIN d
           s == [i \in D |-> IF i = j THEN -1 ELSE 1]
<1>1. PICK S \in Int : /\ S = SumFunction(d) /\ S = SumFunctionOnSet(d, D)
                       /\ SumFunction(Signed(Turned(d), d)) = -S
  BY BothExtreme
<1>2. s \in [D -> {1, -1}] /\ s[j] = -1 /\ \A i \in D \ {j} : s[i] = 1
  OBVIOUS
<1> HIDE DEF s
<1>3. IsFiniteSet(D) /\ IsFiniteSet(D \ {j}) /\ \A i \in D : d[i] \in Int
  BY FS_Subset DEF Figures
<1>4. S = d[j] + SumFunctionOnSet(d, D \ {j}) /\ SumFunctionOnSet(d, D \ {j}) \in Int
  BY <1>1, <1>3, SumMore
<1>5. \A i \in D : Signed(s, d)[i] \in Int
  BY <1>2, SignedFacts
<1>6. SumFunctionOnSet(Signed(s, d), D)
        = Signed(s, d)[j] + SumFunctionOnSet(Signed(s, d), D \ {j})
  BY <1>3, <1>5, SumMore
<1>7. SumFunctionOnSet(d, D \ {j}) = SumFunctionOnSet(Signed(s, d), D \ {j})
  <2>1. \A i \in D \ {j} : d[i] \in Int /\ d[i] = Signed(s, d)[i]
    BY <1>2, <1>3, SignedFacts
  <2> QED
    BY <1>3, <2>1, SumSame
<1>8. Signed(s, d)[j] = -d[j] /\ d[j] \in Int
  BY <1>2, <1>3, SignedFacts
<1>9. PICK T \in Int : T = SumFunction(Signed(s, d)) /\ T = S - d[j] - d[j]
  BY <1>2, <1>4, <1>6, <1>7, <1>8, SignedFacts
<1>10. AsExtreme(T, S)
  BY <1>1, <1>8, <1>9 DEF AsExtreme, Mag
<1>11. s # Kept(d)
  <2>1. Kept(d)[j] = 1
    BY DEF Kept
  <2> QED
    BY <1>2, <2>1
<1>12. s # Turned(d)
  <2>1. T # -S
    BY <1>1, <1>8, <1>9
  <2> QED
    BY <1>1, <1>9, <2>1
<1> QED
  BY <1>1, <1>2, <1>9, <1>10, <1>11, <1>12

\* The number of choices of signs is never below 2, and is 2, with a mean that
\* is not 0, exactly when all rounds point one way.
LEMMA SignCountFloor ==
  ASSUME NEW d, Figures(d), DOMAIN d # {}
  PROVE  /\ SignCount(d) >= 2
         /\ SignCount(d) = 2 /\ SumFunction(d) # 0 <=>
              (\A i \in DOMAIN d : d[i] > 0) \/ (\A i \in DOMAIN d : d[i] < 0)
<1> DEFINE F == [DOMAIN d -> {1, -1}]
           X == {s \in F : AsExtreme(SumFunction(Signed(s, d)), SumFunction(d))}
           Same == (\A i \in DOMAIN d : d[i] > 0) \/ (\A i \in DOMAIN d : d[i] < 0)
<1>1. SignCount(d) = Cardinality(X)
  <2>1. X = {s \in F : AsExtreme(SumFunction([i \in DOMAIN d |-> s[i] * d[i]]), SumFunction(d))}
    BY DEF Signed
  <2> HIDE DEF X
  <2> QED
    BY <2>1 DEF SignCount
<1>2. Kept(d) \in X /\ Turned(d) \in X /\ Kept(d) # Turned(d)
  <2>1. PICK S \in Int : S = SumFunction(d)
    BY BothExtreme
  <2>2. AsExtreme(S, S) /\ AsExtreme(-S, S)
    BY DEF AsExtreme, Mag
  <2> QED
    BY <2>1, <2>2, BothExtreme
<1>3. IsFiniteSet(X)
  <2>1. X \in SUBSET F /\ IsFiniteSet(F)
    BY SignsFinite DEF Figures
  <2> HIDE DEF F, X
  <2> QED
    BY <2>1, FS_Subset
<1>4. Cardinality(X) >= 2 /\ (Cardinality(X) = 2 <=> X = {Kept(d), Turned(d)})
  <2> HIDE DEF X
  <2> QED
    BY <1>2, <1>3, PairCount
<1>5. ASSUME Same PROVE SumFunction(d) # 0 /\ X = {Kept(d), Turned(d)}
  <2>1. SumFunction(d) # 0 /\ \A s \in X : s = Kept(d) \/ s = Turned(d)
    BY <1>5, OneWay
  <2> HIDE DEF X
  <2> QED
    BY <1>2, <2>1
<1>6. ASSUME ~Same, SumFunction(d) # 0 PROVE X # {Kept(d), Turned(d)}
  <2>1. SumFunction(d) \in Int
    BY BothExtreme
  <2>2. PICK j \in DOMAIN d : \/ SumFunction(d) > 0 /\ ~(d[j] > 0)
                              \/ SumFunction(d) < 0 /\ ~(d[j] < 0)
    BY <1>6, <2>1
  <2>3. \E s \in X : s # Kept(d) /\ s # Turned(d)
    BY <1>6, <2>2, TurnOne
  <2> HIDE DEF X
  <2> QED
    BY <2>3
<1> HIDE DEF X, Same
<1>7. SignCount(d) >= 2 /\ (SignCount(d) = 2 /\ SumFunction(d) # 0 <=> Same)
  BY <1>1, <1>4, <1>5, <1>6
<1> QED
  BY <1>7 DEF Same

LEMMA DiffsFacts ==
  ASSUME SheetTyped, what = "pair"
  PROVE  LET d == Diffs(data, other)
         IN  /\ Figures(d) /\ (d # <<>> => DOMAIN d # {})
             /\ Len(d) = Cardinality(DOMAIN d)
<1>1. Records["pair"] = Numbers
  BY DEF Records
<1>2. data \in Seq(Numbers) /\ other \in Seq(Numbers) /\ Numbers \subseteq Int
  BY <1>1, ResultsAssumption DEF SheetTyped
<1>3. PICK m \in Nat, k \in Nat : /\ DOMAIN data = 1..m /\ DOMAIN other = 1..k
                                  /\ \A i \in 1..m : data[i] \in Int
                                  /\ \A i \in 1..k : other[i] \in Int
  <2>1. /\ Len(data) \in Nat /\ DOMAIN data = 1..Len(data)
        /\ \A i \in 1..Len(data) : data[i] \in Numbers
    BY <1>2
  <2>2. /\ Len(other) \in Nat /\ DOMAIN other = 1..Len(other)
        /\ \A i \in 1..Len(other) : other[i] \in Numbers
    BY <1>2
  <2> QED
    BY <1>2, <2>1, <2>2
<1>4. PICK n \in Nat : (1..m) \cap (1..k) = 1..n
  <2>1. CASE m <= k
    <3>1. (1..m) \cap (1..k) = 1..m
      BY <2>1
    <3> QED
      BY <3>1
  <2>2. CASE k <= m
    <3>1. (1..m) \cap (1..k) = 1..k
      BY <2>2
    <3> QED
      BY <3>1
  <2> QED
    BY <2>1, <2>2
<1> DEFINE d == Diffs(data, other)
<1>5. d \in [1..n -> Int]
  <2>1. d = [i \in 1..n |-> data[i] - other[i]]
    BY <1>3, <1>4 DEF Diffs
  <2>2. ASSUME NEW i \in 1..n PROVE data[i] - other[i] \in Int
    <3>1. i \in 1..m /\ i \in 1..k
      BY <1>4
    <3>2. data[i] \in Int /\ other[i] \in Int
      BY <1>3, <3>1
    <3> QED
      BY <3>2
  <2> HIDE DEF d
  <2> QED
    BY <2>1, <2>2
<1> HIDE DEF d
<1>6. IsFiniteSet(1..n) /\ Cardinality(1..n) = n
  <2>1. Cardinality(1..n) = IF 1 > n THEN 0 ELSE n - 1 + 1
    BY FS_Interval
  <2> QED
    BY <2>1, FS_Interval
<1>7. Figures(d) /\ DOMAIN d = 1..n
  BY <1>5, <1>6 DEF Figures
<1>8. d \in Seq(Int) /\ Len(d) = n
  BY <1>5
<1>9. d # <<>> => DOMAIN d # {}
  <2>1. n = 0 => d = <<>>
    BY <1>8
  <2>2. n # 0 => 1 \in 1..n
    OBVIOUS
  <2> QED
    BY <1>7, <2>1, <2>2
<1> QED
  BY <1>6, <1>7, <1>8, <1>9 DEF d

\* The rounds agree as many as there are exactly when all point one way.
LEMMA AgreeAll ==
  ASSUME NEW d, Figures(d)
  PROVE  Agree(d) = Cardinality(DOMAIN d) <=>
           (\A i \in DOMAIN d : d[i] > 0) \/ (\A i \in DOMAIN d : d[i] < 0)
<1> DEFINE up   == {i \in DOMAIN d : d[i] > 0}
           down == {i \in DOMAIN d : d[i] < 0}
<1>1. up \in SUBSET DOMAIN d /\ down \in SUBSET DOMAIN d /\ IsFiniteSet(DOMAIN d)
  BY DEF Figures
<1>2. Agree(d) = Bigger(Cardinality(up), Cardinality(down))
  BY DEF Agree
<1>3. /\ (\A i \in DOMAIN d : d[i] > 0) <=> up = DOMAIN d
      /\ (\A i \in DOMAIN d : d[i] < 0) <=> down = DOMAIN d
  OBVIOUS
<1> HIDE DEF up, down
<1>4. /\ IsFiniteSet(up) /\ Cardinality(up) <= Cardinality(DOMAIN d)
      /\ Cardinality(DOMAIN d) = Cardinality(up) => DOMAIN d = up
  BY <1>1, FS_Subset
<1>5. /\ IsFiniteSet(down) /\ Cardinality(down) <= Cardinality(DOMAIN d)
      /\ Cardinality(DOMAIN d) = Cardinality(down) => DOMAIN d = down
  BY <1>1, FS_Subset
<1>6. /\ Cardinality(up) \in Nat /\ Cardinality(down) \in Nat
      /\ Cardinality(DOMAIN d) \in Nat
  BY <1>1, <1>4, <1>5, FS_CardinalityType
<1>7. Agree(d) = Cardinality(DOMAIN d) <=> up = DOMAIN d \/ down = DOMAIN d
  BY <1>2, <1>4, <1>5, <1>6 DEF Bigger
<1> QED
  BY <1>3, <1>7

(***************************************************************************)
(* The unpaired test                                                       *)
(***************************************************************************)
\* A pool of two samples: its positions, and what a choice of some of them sums
\* to.
LEMMA PoolFacts ==
  ASSUME NEW a \in Seq(Int), NEW b \in Seq(Int), a # <<>>, b # <<>>
  PROVE  /\ Len(a) \in Nat \ {0} /\ Len(b) \in Nat \ {0}
         /\ DOMAIN a = 1..Len(a) /\ DOMAIN b = 1..Len(b)
         /\ DOMAIN (a \o b) = 1..(Len(a) + Len(b)) /\ IsFiniteSet(DOMAIN (a \o b))
         /\ DOMAIN a \in SUBSET DOMAIN (a \o b) /\ Cardinality(DOMAIN a) = Len(a)
         /\ \A i \in DOMAIN (a \o b) : (a \o b)[i] \in Int
         /\ \A i \in DOMAIN a : (a \o b)[i] = a[i]
         /\ \A i \in DOMAIN (a \o b) \ DOMAIN a :
              i - Len(a) \in DOMAIN b /\ (a \o b)[i] = b[i - Len(a)]
<1>1. /\ Len(a) \in Nat \ {0} /\ Len(b) \in Nat \ {0}
      /\ DOMAIN a = 1..Len(a) /\ DOMAIN b = 1..Len(b)
  <2>1. Len(a) \in Nat /\ DOMAIN a = 1..Len(a) /\ Len(a) # 0
    OBVIOUS
  <2>2. Len(b) \in Nat /\ DOMAIN b = 1..Len(b) /\ Len(b) # 0
    OBVIOUS
  <2> QED
    BY <2>1, <2>2
<1>2. PICK m \in Nat \ {0}, n \in Nat \ {0} : m = Len(a) /\ n = Len(b)
  BY <1>1
<1>3. /\ DOMAIN (a \o b) = 1..(m + n)
      /\ \A i \in 1..m : (a \o b)[i] = a[i] /\ a[i] \in Int
      /\ \A i \in (m + 1)..(m + n) : (a \o b)[i] = b[i - m]
  BY <1>1, <1>2
<1>4. \A i \in 1..n : b[i] \in Int
  BY <1>1, <1>2
<1>5. ASSUME NEW i \in (1..(m + n)) \ (1..m)
      PROVE  i \in (m + 1)..(m + n) /\ i - m \in 1..n
  OBVIOUS
<1>6. ASSUME NEW i \in 1..(m + n) PROVE (a \o b)[i] \in Int
  <2>1. CASE i \in 1..m
    BY <1>3, <2>1
  <2>2. CASE i \notin 1..m
    <3>1. i \in (m + 1)..(m + n) /\ i - m \in 1..n
      BY <1>5, <2>2
    <3> QED
      BY <1>3, <1>4, <3>1
  <2> QED
    BY <2>1, <2>2
<1>7. IsFiniteSet(1..(m + n)) /\ IsFiniteSet(1..m) /\ Cardinality(1..m) = m
  <2>1. Cardinality(1..m) = IF 1 > m THEN 0 ELSE m - 1 + 1
    BY FS_Interval
  <2>2. m + n \in Int
    OBVIOUS
  <2> QED
    BY <2>1, <2>2, FS_Interval
<1>8. 1..m \in SUBSET (1..(m + n))
  OBVIOUS
<1> QED
  BY <1>1, <1>2, <1>3, <1>5, <1>6, <1>7, <1>8

\* One of the choices is the one that was made.
LEMMA PoolFloor ==
  ASSUME NEW a \in Seq(Int), NEW b \in Seq(Int), a # <<>>, b # <<>>
  PROVE  PoolCount(a, b) >= 1
<1> DEFINE pool == a \o b
           Of(I) == SumFunctionOnSet(pool, I)
           Difference(I) == Of(I) * Len(b) - Of((DOMAIN pool) \ I) * Len(a)
           X == {I \in kSubset(Len(a), DOMAIN pool) :
                   AsExtreme(Difference(I), Difference(DOMAIN a))}
<1>1. PoolCount(a, b) = Cardinality(X)
  BY DEF PoolCount
<1>2. Difference(DOMAIN a) \in Int
  <2>1. Of(DOMAIN a) \in Int /\ Of((DOMAIN pool) \ DOMAIN a) \in Int
    BY PoolFacts, SumParts
  <2>2. PICK p \in Int, q \in Int : p = Of(DOMAIN a) /\ q = Of((DOMAIN pool) \ DOMAIN a)
    BY <2>1
  <2>3. PICK m \in Int, n \in Int : m = Len(a) /\ n = Len(b)
    BY PoolFacts
  <2>4. p * n - q * m \in Int
    OBVIOUS
  <2> HIDE DEF Of
  <2> QED
    BY <2>2, <2>3, <2>4
<1>3. DOMAIN a \in X
  <2>1. DOMAIN a \in kSubset(Len(a), DOMAIN pool)
    BY PoolFacts DEF kSubset
  <2> HIDE DEF Difference
  <2>2. AsExtreme(Difference(DOMAIN a), Difference(DOMAIN a))
    <3>1. PICK e \in Int : e = Difference(DOMAIN a)
      BY <1>2
    <3>2. AsExtreme(e, e)
      BY DEF AsExtreme, Mag
    <3> QED
      BY <3>1, <3>2
  <2> QED
    BY <2>1, <2>2
<1>4. IsFiniteSet(X)
  <2>1. X \in SUBSET (SUBSET DOMAIN pool)
    BY DEF kSubset
  <2>2. IsFiniteSet(SUBSET DOMAIN pool)
    BY PoolFacts, FS_SUBSET
  <2> HIDE DEF X, pool
  <2> QED
    BY <2>1, <2>2, FS_Subset
<1> HIDE DEF X
<1>5. Cardinality(X) \in Nat /\ Cardinality(X) # 0
  BY <1>3, <1>4, FS_CardinalityType, FS_EmptySet
<1> QED
  BY <1>1, <1>5

LEMMA Scaled ==
  ASSUME NEW u \in Int, NEW v \in Int, NEW n \in Nat \ {0}
  PROVE  /\ -v < u /\ u < v => ~AsExtreme(u * n, v * n)
         /\ AsExtreme(v * n, v * n) /\ AsExtreme((-v) * n, v * n)
<1>1. PICK p \in Int, q \in Int : p = u * n /\ q = v * n
  OBVIOUS
<1>2. (-v) * n = -q
  BY <1>1
<1>3. AsExtreme(q, q) /\ AsExtreme(-q, q)
  BY DEF AsExtreme, Mag
<1>4. ASSUME -v < u, u < v PROVE -q < p /\ p < q
  <2>1. PICK d \in Nat, e \in Nat : d + 1 = v - u /\ e + 1 = u + v
    <3>1. v - u - 1 \in Nat /\ u + v - 1 \in Nat
      BY <1>4
    <3> QED
      BY <3>1
  <2>2. (v - u) * n = q - p /\ (u + v) * n = p + q
    BY <1>1
  <2>3. (d + 1) * n = d * n + n /\ (e + 1) * n = e * n + n /\ d * n \in Nat /\ e * n \in Nat
    OBVIOUS
  <2>4. PICK x \in Nat, y \in Nat : x = d * n /\ y = e * n
    BY <2>3
  <2>5. q - p = x + n /\ p + q = y + n
    BY <2>1, <2>2, <2>3, <2>4
  <2> QED
    BY <2>5
<1>5. -q < p /\ p < q => ~AsExtreme(p, q)
  BY DEF AsExtreme, Mag
<1> QED
  BY <1>1, <1>2, <1>3, <1>4, <1>5

\* Of two samples of the same size, one ahead of the other in every pair, no
\* choice is as extreme as the two that keep them apart.
LEMMA PoolApart ==
  ASSUME NEW a \in Seq(Int), NEW b \in Seq(Int), a # <<>>, b # <<>>, Len(a) = Len(b),
         \A i \in DOMAIN a, j \in DOMAIN b : a[i] > b[j]
  PROVE  PoolCount(a, b) = 2
<1> DEFINE pool == a \o b
           Of(I) == SumFunctionOnSet(pool, I)
           Difference(I) == Of(I) * Len(b) - Of((DOMAIN pool) \ I) * Len(a)
           X == {I \in kSubset(Len(a), DOMAIN pool) :
                   AsExtreme(Difference(I), Difference(DOMAIN a))}
<1>1. PICK n \in Nat \ {0}, D \in {DOMAIN pool}, A \in SUBSET (DOMAIN pool), B \in SUBSET (DOMAIN pool) :
        /\ n = Len(a) /\ n = Len(b) /\ D = DOMAIN pool /\ A = DOMAIN a /\ B = D \ A
        /\ A \in SUBSET D /\ B \in SUBSET D
        /\ IsFiniteSet(D) /\ Cardinality(A) = n
        /\ D = 1..(n + n)
        /\ \A i \in D : pool[i] \in Int
        /\ \A i \in A, j \in B : pool[i] > pool[j]
  <2>1. PICK n \in Nat \ {0} : n = Len(a) /\ n = Len(b)
    BY PoolFacts
  <2>2. PICK D, A, B : D = DOMAIN pool /\ A = DOMAIN a /\ B = D \ A
    OBVIOUS
  <2>3. /\ A \in SUBSET D /\ B \in SUBSET D /\ IsFiniteSet(D) /\ Cardinality(A) = n
        /\ D = 1..(n + n) /\ \A i \in D : pool[i] \in Int
    <3>1. /\ DOMAIN pool = 1..(Len(a) + Len(b)) /\ IsFiniteSet(DOMAIN pool)
          /\ DOMAIN a \in SUBSET DOMAIN pool /\ Cardinality(DOMAIN a) = Len(a)
          /\ \A i \in DOMAIN pool : pool[i] \in Int
      BY PoolFacts
    <3> HIDE DEF pool
    <3> QED
      BY <2>1, <2>2, <3>1
  <2>4. ASSUME NEW i \in A, NEW j \in B PROVE pool[i] > pool[j]
    <3>1. pool[i] = a[i] /\ j - Len(a) \in DOMAIN b /\ pool[j] = b[j - Len(a)]
      BY <2>2, PoolFacts
    <3> QED
      BY <2>2, <3>1
  <2> QED
    BY <2>1, <2>2, <2>3, <2>4
<1>2. ASSUME NEW I \in SUBSET D
      PROVE  /\ IsFiniteSet(I) /\ Cardinality(I) \in Nat /\ D \ I \in SUBSET D
             /\ Of(I) \in Int /\ Of(D \ I) \in Int /\ Of(D) = Of(I) + Of(D \ I)
  <2>1. IsFiniteSet(I)
    BY <1>1, FS_Subset
  <2>2. Of(I) \in Int /\ Of(D \ I) \in Int /\ Of(D) = Of(I) + Of(D \ I)
    BY <1>1, SumParts
  <2> QED
    BY <2>1, <2>2, FS_CardinalityType
<1>3. Cardinality(B) = n /\ D \ B = A /\ A # B /\ A # {}
  <2>1. Cardinality(D) = n + n
    <3>1. PICK m \in Int : m = n + n /\ ~(1 > m)
      OBVIOUS
    <3>2. Cardinality(1..m) = IF 1 > m THEN 0 ELSE m - 1 + 1
      BY FS_Interval
    <3> QED
      BY <1>1, <3>1, <3>2
  <2>2. Cardinality(D \ A) = Cardinality(D) - Cardinality(D \cap A)
    BY <1>1, FS_Difference
  <2>3. D \cap A = A
    BY <1>1
  <2>4. A # {}
    BY <1>1, FS_EmptySet
  <2>5. D \ B = A /\ A # B
    BY <1>1, <2>4
  <2>6. Cardinality(B) = n
    BY <1>1, <2>1, <2>2, <2>3
  <2> QED
    BY <2>4, <2>5, <2>6
<1>4. ASSUME NEW I \in SUBSET D, Cardinality(I) = n, I # A
      PROVE  Of(I) < Of(A)
  <2>1. \A x \in A \ I, y \in I \ A : pool[x] > pool[y]
    <3>1. \A y \in I \ A : y \in B
      BY <1>1
    <3> QED
      BY <1>1, <3>1
  <2> HIDE DEF pool
  <2> QED
    BY <1>1, <1>4, <2>1, SumExchanged
<1>5. ASSUME NEW I \in SUBSET D, Cardinality(I) = n, I # B
      PROVE  Of(B) < Of(I)
  <2>1. \A x \in I \ B, y \in B \ I : pool[x] > pool[y]
    <3>1. \A x \in I \ B : x \in A
      BY <1>1
    <3> QED
      BY <1>1, <3>1
  <2> HIDE DEF pool
  <2> QED
    BY <1>1, <1>3, <1>5, <2>1, SumExchanged
<1>6. ASSUME NEW I \in SUBSET D
      PROVE  Difference(I) = (Of(I) - Of(D \ I)) * n
  <2>1. PICK p \in Int, q \in Int : p = Of(I) /\ q = Of(D \ I)
    BY <1>2
  <2>2. p * n - q * n = (p - q) * n
    OBVIOUS
  <2>3. Difference(I) = Of(I) * n - Of(D \ I) * n
    BY <1>1
  <2> HIDE DEF Difference, Of
  <2> QED
    BY <2>1, <2>2, <2>3
<1>7. PoolCount(a, b) = Cardinality(X)
  BY DEF PoolCount
<1>8. X = {I \in SUBSET D : Cardinality(I) = n /\ AsExtreme(Difference(I), Difference(A))}
  BY <1>1 DEF kSubset
<1> HIDE DEF pool, Of, Difference
<1>9. PICK x \in Int, y \in Int, v \in Int :
        x = Of(A) /\ y = Of(B) /\ v = x - y /\ Difference(A) = v * n /\ Of(D) = x + y
  <2>1. A \in SUBSET D /\ D \ A = B
    BY <1>1
  <2>2. /\ Of(A) \in Int /\ Of(B) \in Int /\ Of(D) = Of(A) + Of(B)
        /\ Difference(A) = (Of(A) - Of(B)) * n
    BY <1>2, <1>6, <2>1
  <2>3. PICK x \in Int, y \in Int : x = Of(A) /\ y = Of(B)
    BY <2>2
  <2>4. x - y \in Int /\ Difference(A) = (x - y) * n /\ Of(D) = x + y
    BY <2>2, <2>3
  <2> QED
    BY <2>3, <2>4
<1>10. A \in X /\ B \in X
  <2>1. Difference(B) = (-v) * n
    <3>1. Difference(B) = (Of(B) - Of(A)) * n
      BY <1>1, <1>3, <1>6
    <3>2. Difference(B) = (y - x) * n /\ y - x = -v
      BY <1>9, <3>1
    <3> QED
      BY <3>2
  <2>2. AsExtreme(v * n, v * n) /\ AsExtreme((-v) * n, v * n)
    BY Scaled
  <2> QED
    BY <1>1, <1>3, <1>8, <1>9, <2>1, <2>2
<1>11. ASSUME NEW I \in X, I # A, I # B PROVE FALSE
  <2>1. I \in SUBSET D /\ Cardinality(I) = n /\ AsExtreme(Difference(I), Difference(A))
    BY <1>8
  <2>2. /\ Of(I) \in Int /\ Of(D \ I) \in Int /\ Of(D) = Of(I) + Of(D \ I)
        /\ Difference(I) = (Of(I) - Of(D \ I)) * n
    BY <1>2, <1>6, <2>1
  <2>3. Of(B) < Of(I) /\ Of(I) < Of(A)
    BY <1>4, <1>5, <1>11, <2>1
  <2>4. PICK p \in Int, q \in Int : p = Of(I) /\ q = Of(D \ I)
    BY <2>2
  <2>5. PICK u \in Int : u = p - q /\ Difference(I) = u * n /\ x + y = p + q /\ y < p /\ p < x
    BY <1>9, <2>2, <2>3, <2>4
  <2>6. -v < u /\ u < v
    <3>1. v = x - y /\ u = p - q /\ x + y = p + q /\ y < p /\ p < x
      BY <1>9, <2>5
    <3> QED
      BY <3>1
  <2>7. ~AsExtreme(u * n, v * n)
    BY <2>6, Scaled
  <2> QED
    BY <1>9, <2>1, <2>5, <2>7
<1>12. IsFiniteSet(X)
  <2>1. X \in SUBSET (SUBSET D)
    BY <1>8
  <2>2. IsFiniteSet(SUBSET D)
    BY <1>1, FS_SUBSET
  <2> HIDE DEF X
  <2> QED
    BY <2>1, <2>2, FS_Subset
<1> HIDE DEF X
<1>13. X = {A, B}
  BY <1>10, <1>11
<1> QED
  BY <1>3, <1>7, <1>10, <1>12, <1>13, PairCount

\* What the tables say of small samples holds for any two conditions, whatever
\* their rounds (make_ch4_tables.py 198-250).
THEOREM TestsHaveFloors == ResultsSpec => []TestsFloor
<1>1. ASSUME SheetTyped, what = "pair"
      PROVE  LET d == Diffs(data, other)
             IN  d # <<>> => /\ SignCount(d) >= 2
                             /\ SignCount(d) = 2 /\ SumFunction(d) # 0 <=> Agree(d) = Len(d)
  <2>1. PICK d : d = Diffs(data, other)
    OBVIOUS
  <2>2. Figures(d) /\ (d # <<>> => DOMAIN d # {}) /\ Len(d) = Cardinality(DOMAIN d)
    BY <1>1, <2>1, DiffsFacts
  <2>3. ASSUME d # <<>>
        PROVE  /\ SignCount(d) >= 2
               /\ SignCount(d) = 2 /\ SumFunction(d) # 0 <=> Agree(d) = Len(d)
    BY <2>2, <2>3, SignCountFloor, AgreeAll
  <2> QED
    BY <2>1, <2>3
<1>2. ASSUME SheetTyped, what = "pair", data # <<>>, other # <<>>
      PROVE  /\ PoolCount(data, other) >= 1
             /\ Len(data) = Len(other) /\ Ahead(data, other) = Len(data) * Len(other) =>
                  PoolCount(data, other) = 2
  <2>1. data \in Seq(Int) /\ other \in Seq(Int)
    <3>1. Records["pair"] = Numbers
      BY DEF Records
    <3>2. data \in Seq(Numbers) /\ other \in Seq(Numbers) /\ Numbers \subseteq Int
      BY <1>2, <3>1, ResultsAssumption DEF SheetTyped
    <3>3. ASSUME NEW s \in Seq(Numbers) PROVE s \in Seq(Int)
      <4>1. PICK n \in Nat : n = Len(s) /\ s \in [1..n -> Numbers]
        OBVIOUS
      <4>2. s \in [1..n -> Int]
        BY <3>2, <4>1
      <4> QED
        BY <4>2
    <3> QED
      BY <3>2, <3>3
  <2>2. ASSUME Ahead(data, other) = Len(data) * Len(other)
        PROVE  \A i \in DOMAIN data, j \in DOMAIN other : data[i] > other[j]
    <3> DEFINE all == (DOMAIN data) \X (DOMAIN other)
               led == {p \in all : data[p[1]] > other[p[2]]}
    <3>1. IsFiniteSet(all) /\ Cardinality(all) = Len(data) * Len(other)
      <4>1. PICK m \in Nat, n \in Nat : /\ m = Len(data) /\ n = Len(other)
                                        /\ DOMAIN data = 1..m /\ DOMAIN other = 1..n
        BY <1>2, <2>1, PoolFacts
      <4>2. /\ IsFiniteSet(1..m) /\ Cardinality(1..m) = m
            /\ IsFiniteSet(1..n) /\ Cardinality(1..n) = n
        <5>1. Cardinality(1..m) = IF 1 > m THEN 0 ELSE m - 1 + 1
          BY FS_Interval
        <5>2. Cardinality(1..n) = IF 1 > n THEN 0 ELSE n - 1 + 1
          BY FS_Interval
        <5> QED
          BY <5>1, <5>2, FS_Interval
      <4>3. PICK P, Q : /\ P = 1..m /\ Q = 1..n /\ IsFiniteSet(P) /\ IsFiniteSet(Q)
                        /\ Cardinality(P) = m /\ Cardinality(Q) = n
        BY <4>2
      <4>4. IsFiniteSet(P \X Q) /\ Cardinality(P \X Q) = Cardinality(P) * Cardinality(Q)
        BY <4>3, FS_Product
      <4> QED
        BY <4>1, <4>3, <4>4
    <3>2. Ahead(data, other) = Cardinality(led)
      BY DEF Ahead
    <3>3. led = all
      <4>1. led \in SUBSET all
        OBVIOUS
      <4> HIDE DEF led, all
      <4> QED
        BY <2>2, <3>1, <3>2, <4>1, FS_Subset
    <3>4. ASSUME NEW i \in DOMAIN data, NEW j \in DOMAIN other PROVE data[i] > other[j]
      <4>1. <<i, j>> \in led
        BY <3>3
      <4> QED
        BY <4>1
    <3> QED
      BY <3>4
  <2> QED
    BY <1>2, <2>1, <2>2, PoolFloor, PoolApart
<1>3. SheetTyped => TestsFloor
  BY <1>1, <1>2 DEF TestsFloor
<1> QED
  BY <1>3, SheetInvariant, PTL

(***************************************************************************)
(* The sweep over starts and ends                                          *)
(***************************************************************************)
Event == [t: Int, d: {1, -1}, of: Int]
EventSet(E) == IsFiniteSet(E) /\ E \in SUBSET Event

\* How many are under way after the events of T.
StartsOf(T) == {e \in T : e.d = 1}
EndsOf(T)   == {e \in T : e.d = -1}
Level(T)    == Cardinality(StartsOf(T)) - Cardinality(EndsOf(T))

\* Those of T up to e.
UpTo(T, e) == {f \in T : f = e \/ Earlier(f, e)}

LEMMA EarlierOrders ==
  /\ \A e \in Event : ~Earlier(e, e)
  /\ \A e, f \in Event : e = f \/ Earlier(e, f) \/ Earlier(f, e)
  /\ \A e, f, h \in Event : Earlier(e, f) /\ Earlier(f, h) => Earlier(e, h)
<1>1. ASSUME NEW e \in Event PROVE e.t \in Int /\ e.d \in Int /\ e.of \in Int
  BY DEF Event
<1>2. ASSUME NEW e \in Event, NEW f \in Event, e.t = f.t, e.d = f.d, e.of = f.of PROVE e = f
  BY <1>2 DEF Event
<1>3. \A e \in Event : ~Earlier(e, e)
  BY <1>1 DEF Earlier
<1>4. \A e, f \in Event : e = f \/ Earlier(e, f) \/ Earlier(f, e)
  BY <1>1, <1>2 DEF Earlier
<1>5. ASSUME NEW e \in Event, NEW f \in Event, NEW h \in Event, Earlier(e, f), Earlier(f, h)
      PROVE  Earlier(e, h)
  BY <1>1, <1>5 DEF Earlier
<1> QED
  BY <1>3, <1>4, <1>5

LEMMA FinalIs ==
  ASSUME NEW T, EventSet(T), T # {}
  PROVE  Final(T) \in T /\ \A f \in T : f = Final(T) \/ Earlier(f, Final(T))
<1> DEFINE R == {p \in T \X T : Earlier(p[1], p[2])}
<1>1. ASSUME NEW x \in T, NEW y \in T PROVE <<x, y>> \in R <=> Earlier(x, y)
  OBVIOUS
<1>2. ASSUME NEW x \in T PROVE x \in Event
  BY DEF EventSet
<1> HIDE DEF R
<1>3. \A x \in T : <<x, x>> \notin R
  BY <1>1, <1>2, EarlierOrders
<1>4. ASSUME NEW x \in T, NEW y \in T, NEW z \in T, <<x, y>> \in R, <<y, z>> \in R
      PROVE  <<x, z>> \in R
  BY <1>1, <1>2, <1>4, EarlierOrders
<1>5. PICK x \in T : \A y \in T : <<x, y>> \notin R
  BY <1>3, <1>4, FiniteTop DEF EventSet
<1>6. \A y \in T : y = x \/ Earlier(y, x)
  BY <1>1, <1>2, <1>5, EarlierOrders
<1> QED
  BY <1>6 DEF Final

LEMMA LevelFacts ==
  ASSUME NEW T, EventSet(T)
  PROVE  /\ Level(T) \in Int /\ (T = {} => Level(T) = 0)
         /\ Cardinality(StartsOf(T)) \in Nat /\ Cardinality(EndsOf(T)) \in Nat
         /\ \A x \in T : Level(T) = Level(T \ {x}) + x.d /\ Level(T \ {x}) \in Int /\ x.d \in Int
<1>1. ASSUME NEW U \in SUBSET T
      PROVE  /\ IsFiniteSet(StartsOf(U)) /\ Cardinality(StartsOf(U)) \in Nat
             /\ IsFiniteSet(EndsOf(U)) /\ Cardinality(EndsOf(U)) \in Nat
  <2>1. StartsOf(U) \in SUBSET T /\ EndsOf(U) \in SUBSET T
    BY DEF StartsOf, EndsOf
  <2>2. IsFiniteSet(StartsOf(U)) /\ IsFiniteSet(EndsOf(U))
    BY <2>1, FS_Subset DEF EventSet
  <2> QED
    BY <2>2, FS_CardinalityType
<1>2. ASSUME NEW U \in SUBSET T PROVE Level(U) \in Int
  BY <1>1 DEF Level
<1>3. T = {} => Level(T) = 0
  <2>1. T = {} => StartsOf(T) = {} /\ EndsOf(T) = {}
    BY DEF StartsOf, EndsOf
  <2> QED
    BY <2>1, FS_EmptySet DEF Level
<1>4. ASSUME NEW x \in T PROVE Level(T) = Level(T \ {x}) + x.d /\ x.d \in Int
  <2>1. PICK U \in SUBSET T : U = T \ {x}
    OBVIOUS
  <2>2. x.d = 1 \/ x.d = -1
    BY DEF EventSet, Event
  <2>3. CASE x.d = 1
    <3>1. StartsOf(U) = StartsOf(T) \ {x} /\ x \in StartsOf(T) /\ EndsOf(U) = EndsOf(T)
      BY <2>1, <2>3 DEF StartsOf, EndsOf
    <3>2. Cardinality(StartsOf(U)) = Cardinality(StartsOf(T)) - 1
      BY <1>1, <3>1, FS_RemoveElement
    <3> QED
      BY <1>1, <2>1, <2>3, <3>1, <3>2 DEF Level
  <2>4. CASE x.d = -1
    <3>1. EndsOf(U) = EndsOf(T) \ {x} /\ x \in EndsOf(T) /\ StartsOf(U) = StartsOf(T)
      BY <2>1, <2>4 DEF StartsOf, EndsOf
    <3>2. Cardinality(EndsOf(U)) = Cardinality(EndsOf(T)) - 1
      BY <1>1, <3>1, FS_RemoveElement
    <3> QED
      BY <1>1, <2>1, <2>4, <3>1, <3>2 DEF Level
  <2> QED
    BY <2>2, <2>3, <2>4
<1>5. \A x \in T : T \ {x} \in SUBSET T
  OBVIOUS
<1> QED
  BY <1>1, <1>2, <1>3, <1>4, <1>5

\* More starts and fewer ends make a higher level.
LEMMA LevelAtMost ==
  ASSUME NEW T, NEW U, EventSet(T), EventSet(U),
         StartsOf(T) \subseteq StartsOf(U), EndsOf(U) \subseteq EndsOf(T)
  PROVE  Level(T) <= Level(U)
<1>1. /\ Cardinality(StartsOf(T)) \in Nat /\ Cardinality(EndsOf(T)) \in Nat
      /\ Cardinality(StartsOf(U)) \in Nat /\ Cardinality(EndsOf(U)) \in Nat
  BY LevelFacts
<1>2. IsFiniteSet(StartsOf(U)) /\ IsFiniteSet(EndsOf(T))
  <2>1. StartsOf(U) \in SUBSET U /\ EndsOf(T) \in SUBSET T
    BY DEF StartsOf, EndsOf
  <2> QED
    BY <2>1, FS_Subset DEF EventSet
<1>3. /\ Cardinality(StartsOf(T)) <= Cardinality(StartsOf(U))
      /\ Cardinality(EndsOf(U)) <= Cardinality(EndsOf(T))
  BY <1>2, FS_Subset
<1> QED
  BY <1>1, <1>3 DEF Level

\* The state of the sweep after each set of events.
Swept(g, E) ==
  g = [T \in SUBSET E |->
         IF T = {} THEN [cur |-> 0, max |-> 0]
         ELSE [cur |-> g[T \ {Final(T)}].cur + Final(T).d,
               max |-> Bigger(g[T \ {Final(T)}].max, g[T \ {Final(T)}].cur + Final(T).d)]]

LEMMA SweptExists ==
  ASSUME NEW E, EventSet(E)
  PROVE  \E g : Swept(g, E)
<1> DEFINE Next_(g, T) == [cur |-> g[T \ {Final(T)}].cur + Final(T).d,
                           max |-> Bigger(g[T \ {Final(T)}].max,
                                          g[T \ {Final(T)}].cur + Final(T).d)]
           Zero == [cur |-> 0, max |-> 0]
           Part(g, n) == \A T \in SUBSET E : Cardinality(T) <= n =>
                           g[T] = IF T = {} THEN Zero ELSE Next_(g, T)
           A == {n \in Nat : \E g : Part(g, n)}
<1>1. ASSUME NEW T \in SUBSET E
      PROVE  /\ IsFiniteSet(T) /\ Cardinality(T) \in Nat /\ Cardinality(T) <= Cardinality(E)
             /\ Cardinality(T) = 0 <=> T = {}
             /\ T # {} => Final(T) \in T /\ T \ {Final(T)} \in SUBSET E
                          /\ Cardinality(T \ {Final(T)}) = Cardinality(T) - 1
  <2>1. /\ IsFiniteSet(T) /\ Cardinality(T) \in Nat /\ Cardinality(T) <= Cardinality(E)
        /\ Cardinality(T) = 0 <=> T = {}
    BY FS_Subset, FS_CardinalityType, FS_EmptySet DEF EventSet
  <2>2. T # {} => Final(T) \in T
    BY <2>1, FinalIs DEF EventSet
  <2>3. T # {} => Cardinality(T \ {Final(T)}) = Cardinality(T) - 1
    BY <2>1, <2>2, FS_RemoveElement
  <2> QED
    BY <2>1, <2>2, <2>3
<1> HIDE DEF Next_, Zero
<1>2. 0 \in A
  <2> DEFINE z == [T \in SUBSET E |-> Zero]
  <2>1. z[{}] = Zero
    OBVIOUS
  <2>2. ASSUME NEW T \in SUBSET E, Cardinality(T) <= 0 PROVE T = {}
    <3>1. Cardinality(T) \in Nat /\ (Cardinality(T) = 0 <=> T = {})
      BY <1>1
    <3>2. Cardinality(T) = 0
      BY <2>2, <3>1
    <3> QED
      BY <3>1, <3>2
  <2>3. Part(z, 0)
    <3> HIDE DEF z
    <3> QED
      BY <2>1, <2>2
  <2> QED
    BY <2>3
<1>3. ASSUME NEW n \in Nat, n \in A PROVE n + 1 \in A
  <2>1. PICK g : Part(g, n)
    BY <1>3
  <2> DEFINE h == [T \in SUBSET E |-> IF T = {} THEN Zero ELSE Next_(g, T)]
  <2>2. ASSUME NEW T \in SUBSET E, Cardinality(T) <= n PROVE h[T] = g[T]
    BY <2>1, <2>2
  <2>3. ASSUME NEW T \in SUBSET E, Cardinality(T) <= n + 1, T # {}
        PROVE  h[T] = Next_(h, T)
    <3>1. T \ {Final(T)} \in SUBSET E /\ Cardinality(T \ {Final(T)}) <= n
      BY <1>1, <2>3
    <3>2. h[T \ {Final(T)}] = g[T \ {Final(T)}]
      BY <2>2, <3>1
    <3>3. h[T] = Next_(g, T)
      BY <2>3
    <3> HIDE DEF h
    <3> QED
      BY <3>2, <3>3 DEF Next_
  <2>4. h[{}] = Zero
    OBVIOUS
  <2>5. Part(h, n + 1)
    <3> HIDE DEF h
    <3> QED
      BY <2>3, <2>4
  <2> HIDE DEF h, Part
  <2> QED
    BY <2>5
<1>4. Cardinality(E) \in A
  <2>1. Cardinality(E) \in Nat
    BY <1>1
  <2> HIDE DEF A
  <2> QED
    BY <2>1, <1>2, <1>3, NatInduct
<1>5. PICK g : Part(g, Cardinality(E))
  BY <1>4
<1> DEFINE h == [T \in SUBSET E |-> g[T]]
<1>6. ASSUME NEW T \in SUBSET E
      PROVE  h[T] = IF T = {} THEN Zero ELSE Next_(h, T)
  <2>1. g[T] = IF T = {} THEN Zero ELSE Next_(g, T)
    BY <1>1, <1>5
  <2>2. T # {} => h[T \ {Final(T)}] = g[T \ {Final(T)}]
    BY <1>1
  <2>3. h[T] = g[T]
    OBVIOUS
  <2> HIDE DEF h
  <2> QED
    BY <2>1, <2>2, <2>3 DEF Next_
<1>7. h = [T \in SUBSET E |-> IF T = {} THEN Zero ELSE Next_(h, T)]
  <2>1. h = [T \in SUBSET E |-> h[T]]
    OBVIOUS
  <2> HIDE DEF h
  <2> QED
    BY <1>6, <2>1
<1> HIDE DEF h
<1>8. Swept(h, E)
  BY <1>7 DEF Swept, Next_, Zero
<1> QED
  BY <1>8

LEMMA SweepIsSwept ==
  ASSUME NEW E, EventSet(E)
  PROVE  \E g : Swept(g, E) /\ Sweep(E) = g[E].max
<1> DEFINE iter == CHOOSE g : g = [T \in SUBSET E |->
              IF T = {} THEN [cur |-> 0, max |-> 0]
              ELSE [cur |-> g[T \ {Final(T)}].cur + Final(T).d,
                    max |-> Bigger(g[T \ {Final(T)}].max, g[T \ {Final(T)}].cur + Final(T).d)]]
<1>1. \E g : Swept(g, E)
  BY SweptExists
<1>2. Swept(iter, E)
  BY <1>1, Zenon DEF Swept
<1>3. Sweep(E) = iter[E].max
  BY DEF Sweep, MapThenFoldSet
<1> HIDE DEF iter
<1> QED
  BY <1>2, <1>3

\* What the sweep returns: the highest level after any event, if one is above 0.
LEMMA SweepIs ==
  ASSUME NEW E, EventSet(E)
  PROVE  /\ Sweep(E) \in Nat
         /\ \A e \in E : Level(UpTo(E, e)) <= Sweep(E)
         /\ Sweep(E) = 0 \/ \E e \in E : Sweep(E) = Level(UpTo(E, e))
<1>1. PICK g : Swept(g, E) /\ Sweep(E) = g[E].max
  BY SweepIsSwept
<1> DEFINE Holds(T) == /\ g[T].cur = Level(T) /\ g[T].max \in Nat
                       /\ \A e \in T : Level(UpTo(T, e)) <= g[T].max
                       /\ g[T].max = 0 \/ \E e \in T : g[T].max = Level(UpTo(T, e))
           A == {T \in SUBSET E : Holds(T)}
<1>2. ASSUME NEW T \in SUBSET E PROVE EventSet(T)
  BY FS_Subset DEF EventSet
<1>3. {} \in A
  <2>1. g[{}] = [cur |-> 0, max |-> 0]
    BY <1>1 DEF Swept
  <2>2. Level({}) = 0
    BY <1>2, LevelFacts
  <2> QED
    BY <2>1, <2>2
<1>4. ASSUME NEW T \in SUBSET E, T # {}, \A x \in T : T \ {x} \in A PROVE T \in A
  <2>1. EventSet(T)
    BY <1>2
  <2>2. PICK x \in T : x = Final(T) /\ \A f \in T : f = x \/ Earlier(f, x)
    BY <1>4, <2>1, FinalIs
  <2>3. PICK U \in SUBSET E : U = T \ {x} /\ Holds(U)
    <3>1. T \ {x} \in A
      BY <1>4
    <3> QED
      BY <3>1
  <2>4. /\ g[T].cur = g[U].cur + x.d
        /\ g[T].max = Bigger(g[U].max, g[U].cur + x.d)
    <3>1. g[T] = [cur |-> g[U].cur + x.d, max |-> Bigger(g[U].max, g[U].cur + x.d)]
      BY <1>1, <1>4, <2>2, <2>3 DEF Swept
    <3> QED
      BY <3>1
  <2>5. Level(T) = Level(U) + x.d /\ Level(U) \in Int /\ x.d \in Int
    BY <2>1, <2>3, LevelFacts
  <2>6. UpTo(T, x) = T
    BY <2>2 DEF UpTo
  <2>7. ASSUME NEW e \in U PROVE UpTo(T, e) = UpTo(U, e) /\ Level(UpTo(U, e)) \in Int
    <3>1. e \in Event /\ x \in Event /\ Earlier(e, x) /\ e # x
      BY <2>1, <2>2, <2>3 DEF EventSet
    <3>2. ~Earlier(x, e)
      BY <3>1, EarlierOrders
    <3>3. UpTo(T, e) = UpTo(U, e)
      BY <2>3, <3>1, <3>2 DEF UpTo
    <3>4. UpTo(U, e) \in SUBSET E
      BY DEF UpTo
    <3> QED
      BY <1>2, <3>3, <3>4, LevelFacts
  <2>8. PICK c \in Int, m \in Nat : /\ c = Level(T) /\ m = g[U].max
                                    /\ g[T].cur = c /\ g[T].max = Bigger(m, c)
    BY <2>3, <2>4, <2>5
  <2>9. Bigger(m, c) \in Nat /\ m <= Bigger(m, c) /\ c <= Bigger(m, c)
        /\ (Bigger(m, c) = m \/ Bigger(m, c) = c)
    BY DEF Bigger
  <2>10. ASSUME NEW e \in T PROVE Level(UpTo(T, e)) <= g[T].max
    <3>1. CASE e = x
      BY <2>6, <2>8, <2>9, <3>1
    <3>2. CASE e # x
      <4>1. e \in U
        BY <2>3, <3>2
      <4>2. Level(UpTo(T, e)) <= m /\ Level(UpTo(T, e)) \in Int
        BY <2>3, <2>7, <2>8, <4>1
      <4> QED
        BY <2>8, <2>9, <4>2
    <3> QED
      BY <3>1, <3>2
  <2>11. g[T].max = 0 \/ \E e \in T : g[T].max = Level(UpTo(T, e))
    <3>1. CASE Bigger(m, c) = c
      BY <2>6, <2>8, <3>1
    <3>2. CASE Bigger(m, c) = m
      <4>1. CASE m = 0
        BY <2>8, <3>2, <4>1
      <4>2. CASE m # 0
        <5>1. PICK e \in U : m = Level(UpTo(U, e))
          BY <2>3, <2>8, <4>2
        <5> QED
          BY <2>3, <2>7, <2>8, <3>2, <5>1
      <4> QED
        BY <4>1, <4>2
    <3> QED
      BY <2>9, <3>1, <3>2
  <2> QED
    BY <2>8, <2>9, <2>10, <2>11
<1>5. E \in A
  <2>1. IsFiniteSet(E)
    BY DEF EventSet
  <2> HIDE DEF A
  <2> QED
    BY <1>3, <1>4, <2>1, FiniteInduct
<1> QED
  BY <1>1, <1>5

\* No level after some of the events, with all that are earlier, is above it.
LEMMA SweepBounds ==
  ASSUME NEW E, EventSet(E), NEW D \in SUBSET E, \A e \in D, f \in E : Earlier(f, e) => f \in D
  PROVE  EventSet(D) /\ Level(D) <= Sweep(E) /\ Level(D) \in Int
<1>1. EventSet(D)
  BY FS_Subset DEF EventSet
<1>2. Level(D) \in Int /\ (D = {} => Level(D) = 0)
  BY <1>1, LevelFacts
<1>3. CASE D = {}
  BY <1>1, <1>2, <1>3, SweepIs
<1>4. CASE D # {}
  <2>1. Final(D) \in D /\ \A f \in D : f = Final(D) \/ Earlier(f, Final(D))
    BY <1>1, <1>4, FinalIs
  <2>2. D = UpTo(E, Final(D))
    BY <2>1 DEF UpTo
  <2>3. Level(UpTo(E, Final(D))) <= Sweep(E)
    BY <2>1, SweepIs
  <2> QED
    BY <1>1, <1>2, <2>2, <2>3
<1> QED
  BY <1>3, <1>4

\* What is different of each is as many.
LEMMA ImageCount ==
  ASSUME NEW S, IsFiniteSet(S), NEW f, \A x, y \in S : f[x] = f[y] => x = y
  PROVE  IsFiniteSet({f[x] : x \in S}) /\ Cardinality({f[x] : x \in S}) = Cardinality(S)
<1> DEFINE g == [x \in S |-> f[x]]
           T == {f[x] : x \in S}
<1>1. g \in Surjection(S, T)
  BY DEF Surjection
<1>2. g \in Injection(S, T)
  BY DEF Injection, IsInjective
<1> HIDE DEF g, T
<1>3. IsFiniteSet(T) /\ Cardinality(T) = Cardinality(S)
  BY <1>1, <1>2, FS_Surjection
<1> QED
  BY <1>3 DEF T

LEMMA RowTimes ==
  ASSUME SheetTyped, what = "runs", NEW i \in DOMAIN data
  PROVE  /\ data[i].start = None \/ data[i].start \in Times
         /\ data[i].end = None \/ data[i].end \in Times
         /\ data[i].start # None /\ data[i].end # None => data[i].start <= data[i].end
         /\ data[i].start \in Int /\ data[i].end \in Int
<1> DEFINE Fit == {r \in Row : Sensible(r)}
<1>1. Records["runs"] = Fit
  BY DEF Records
<1>2. data[i] \in Fit
  <2> HIDE DEF Fit
  <2> QED
    BY <1>1 DEF SheetTyped
<1>3. data[i] \in Row /\ Sensible(data[i])
  BY <1>2
<1>4. /\ data[i].start \in Times \cup {None} /\ data[i].end \in Times \cup {None}
      /\ data[i].start # None /\ data[i].end # None => data[i].start <= data[i].end
  BY <1>3 DEF Row, Sensible
<1>5. Times \cup {None} \subseteq Int
  BY ResultsAssumption
<1> HIDE DEF Fit
<1> QED
  BY <1>4, <1>5

StartOf(i) == [t |-> data[i].start, d |-> 1, of |-> i]
EndOf(i)   == [t |-> data[i].end, d |-> -1, of |-> i]
Started(I) == {i \in I : data[i].start # None}
Ended(I)   == {i \in I : data[i].end # None}

LEMMA EventsFacts ==
  ASSUME SheetTyped, what = "runs", NEW I \in SUBSET DOMAIN data
  PROVE  /\ EventSet(Events(data, I))
         /\ \A e : e \in Events(data, I) <=>
                     \/ \E i \in Started(I) : e = StartOf(i)
                     \/ \E i \in Ended(I) : e = EndOf(i)
         /\ \A e \in Events(data, I) :
              /\ e.t \in Times /\ e.of \in I
              /\ e.d = 1 => e.of \in Started(I) /\ e = StartOf(e.of)
              /\ e.d = -1 => e.of \in Ended(I) /\ e = EndOf(e.of)
<1> DEFINE f == [i \in DOMAIN data |-> StartOf(i)]
           g == [i \in DOMAIN data |-> EndOf(i)]
           fs == {f[i] : i \in Started(I)}
           gs == {g[i] : i \in Ended(I)}
<1>1. PICK n \in Nat : DOMAIN data = 1..n
  BY DEF SheetTyped
<1>2. IsFiniteSet(Started(I)) /\ IsFiniteSet(Ended(I))
  <2>1. IsFiniteSet(DOMAIN data)
    BY <1>1, FS_Interval
  <2>2. Started(I) \in SUBSET DOMAIN data /\ Ended(I) \in SUBSET DOMAIN data
    BY DEF Started, Ended
  <2> QED
    BY <2>1, <2>2, FS_Subset
<1>3. IsFiniteSet(fs) /\ IsFiniteSet(gs)
  <2> HIDE DEF f, g
  <2> QED
    BY <1>2, ImageFinite
<1>4. Events(data, I) = fs \cup gs
  BY DEF Events, Started, Ended, StartOf, EndOf
<1>5. ASSUME NEW e \in fs
      PROVE  /\ e.d = 1 /\ e.of \in Started(I) /\ e = StartOf(e.of) /\ e.t \in Times
             /\ e.of \in I /\ e \in Event
  <2>1. PICK i \in Started(I) : e = StartOf(i)
    BY DEF Started
  <2>2. data[i].start \in Times /\ data[i].start \in Int /\ i \in Int /\ i \in I
    BY <1>1, RowTimes DEF Started
  <2> QED
    BY <2>1, <2>2 DEF StartOf, Event
<1>6. ASSUME NEW e \in gs
      PROVE  /\ e.d = -1 /\ e.of \in Ended(I) /\ e = EndOf(e.of) /\ e.t \in Times
             /\ e.of \in I /\ e \in Event
  <2>1. PICK i \in Ended(I) : e = EndOf(i)
    BY DEF Ended
  <2>2. data[i].end \in Times /\ data[i].end \in Int /\ i \in Int /\ i \in I
    BY <1>1, RowTimes DEF Ended
  <2> QED
    BY <2>1, <2>2 DEF EndOf, Event
<1>7. \A e : e \in fs \cup gs <=> \/ \E i \in Started(I) : e = StartOf(i)
                                  \/ \E i \in Ended(I) : e = EndOf(i)
  BY DEF Started, Ended
<1> HIDE DEF fs, gs
<1>8. EventSet(fs \cup gs)
  BY <1>3, <1>5, <1>6, FS_Union DEF EventSet
<1> QED
  BY <1>4, <1>5, <1>6, <1>7, <1>8

\* The level after all events up to a time is how many are under way then.
LEMMA LevelIsUnderWay ==
  ASSUME SheetTyped, what = "runs", NEW tau \in Times
  PROVE  LET E == Events(data, Started(DOMAIN data))
         IN  /\ Level({e \in E : e.t <= tau}) = UnderWay(data, tau)
             /\ UnderWay(data, tau) \in 0..Cardinality(DOMAIN data)
             /\ Cardinality(DOMAIN data) \in Nat
<1> DEFINE E == Events(data, Started(DOMAIN data))
           D == {e \in E : e.t <= tau}
           up == {i \in Started(DOMAIN data) : data[i].start <= tau}
           down == {i \in Ended(Started(DOMAIN data)) : data[i].end <= tau}
           f == [i \in DOMAIN data |-> StartOf(i)]
           g == [i \in DOMAIN data |-> EndOf(i)]
<1>0. Started(DOMAIN data) \in SUBSET DOMAIN data
  BY DEF Started
<1>1. IsFiniteSet(DOMAIN data) /\ Cardinality(DOMAIN data) \in Nat
  <2>1. PICK n \in Nat : DOMAIN data = 1..n
    BY DEF SheetTyped
  <2> QED
    BY <2>1, FS_Interval, FS_CardinalityType
<1>2. up \in SUBSET DOMAIN data /\ down \in SUBSET up
  <2>1. ASSUME NEW i \in down PROVE i \in up
    <3>1. i \in DOMAIN data /\ data[i].start # None /\ data[i].end # None /\ data[i].end <= tau
      BY DEF Started, Ended
    <3>2. /\ data[i].start <= data[i].end /\ data[i].start \in Int /\ data[i].end \in Int
          /\ tau \in Int
      BY <3>1, RowTimes, ResultsAssumption
    <3> QED
      BY <3>1, <3>2 DEF Started
  <2> QED
    BY <1>0, <2>1
<1>3. StartsOf(D) = {f[i] : i \in up}
  <2>1. ASSUME NEW e \in StartsOf(D) PROVE e \in {f[i] : i \in up}
    <3>1. e \in E /\ e.t <= tau /\ e.d = 1
      BY DEF StartsOf
    <3>2. e.of \in Started(Started(DOMAIN data)) /\ e = StartOf(e.of)
      <4> HIDE DEF up, down, f, g
      <4> QED
        BY <1>0, <3>1, EventsFacts
    <3>3. e.t = data[e.of].start
      BY <3>2 DEF StartOf
    <3>4. e.of \in up /\ e.of \in DOMAIN data
      BY <3>1, <3>2, <3>3 DEF Started
    <3> QED
      BY <3>2, <3>4
  <2>2. ASSUME NEW i \in up PROVE f[i] \in StartsOf(D)
    <3>1. i \in Started(Started(DOMAIN data)) /\ i \in DOMAIN data /\ data[i].start <= tau
      BY DEF Started
    <3>2. StartOf(i) \in E
      <4> HIDE DEF up, down, f, g
      <4> QED
        BY <1>0, <3>1, EventsFacts
    <3> QED
      BY <3>1, <3>2 DEF StartsOf, StartOf
  <2> QED
    BY <2>1, <2>2
<1>4. EndsOf(D) = {g[i] : i \in down}
  <2>1. ASSUME NEW e \in EndsOf(D) PROVE e \in {g[i] : i \in down}
    <3>1. e \in E /\ e.t <= tau /\ e.d = -1
      BY DEF EndsOf
    <3>2. e.of \in Ended(Started(DOMAIN data)) /\ e = EndOf(e.of)
      <4> HIDE DEF up, down, f, g
      <4> QED
        BY <1>0, <3>1, EventsFacts
    <3>3. e.t = data[e.of].end
      BY <3>2 DEF EndOf
    <3>4. e.of \in down /\ e.of \in DOMAIN data
      BY <3>1, <3>2, <3>3 DEF Started, Ended
    <3> QED
      BY <3>2, <3>4
  <2>2. ASSUME NEW i \in down PROVE g[i] \in EndsOf(D)
    <3>1. i \in Ended(Started(DOMAIN data)) /\ i \in DOMAIN data /\ data[i].end <= tau
      BY DEF Started, Ended
    <3>2. EndOf(i) \in E
      <4> HIDE DEF up, down, f, g
      <4> QED
        BY <1>0, <3>1, EventsFacts
    <3> QED
      BY <3>1, <3>2 DEF EndsOf, EndOf
  <2> QED
    BY <2>1, <2>2
<1>5. UnderWay(data, tau) = Cardinality(up \ down)
  <2>1. ASSUME NEW i \in DOMAIN data
        PROVE  /\ data[i].start \in 0..tau <=> data[i].start # None /\ data[i].start <= tau
               /\ data[i].end > tau <=> ~(data[i].end <= tau)
    <3>1. /\ tau \in Int /\ None < 0 /\ None \in Int /\ \A t \in Times : t \in Int /\ t >= 0
          /\ data[i].end \in Int /\ data[i].start \in Int
      BY RowTimes, ResultsAssumption
    <3>2. data[i].start # None => data[i].start >= 0
      BY <3>1, RowTimes
    <3> QED
      BY <3>1, <3>2
  <2>2. up \ down = {i \in DOMAIN data : /\ data[i].start \in 0..tau
                                         /\ data[i].end = None \/ data[i].end > tau}
    BY <2>1 DEF Started, Ended
  <2> HIDE DEF up, down
  <2> QED
    BY <2>2 DEF UnderWay
<1>6. /\ IsFiniteSet(up) /\ IsFiniteSet(down) /\ IsFiniteSet(up \ down)
      /\ Cardinality(up) \in Nat /\ Cardinality(down) \in Nat /\ Cardinality(up \ down) \in Nat
      /\ Cardinality(up \ down) <= Cardinality(DOMAIN data)
  <2>1. up \ down \in SUBSET DOMAIN data /\ down \in SUBSET DOMAIN data
    BY <1>2
  <2> HIDE DEF up, down
  <2> QED
    BY <1>1, <1>2, <2>1, FS_Subset, FS_CardinalityType
<1>7. Cardinality(up \ down) = Cardinality(up) - Cardinality(down)
  <2> HIDE DEF up, down
  <2>1. up \cap down = down
    BY <1>2
  <2> QED
    BY <1>6, <2>1, FS_Difference
<1>8. Cardinality(StartsOf(D)) = Cardinality(up)
  <2>1. \A x, y \in up : f[x] = f[y] => x = y
    BY <1>2 DEF StartOf
  <2> HIDE DEF up, down, f, g, D
  <2>2. Cardinality({f[i] : i \in up}) = Cardinality(up)
    BY <1>6, <2>1, ImageCount
  <2> QED
    BY <1>3, <2>2
<1>9. Cardinality(EndsOf(D)) = Cardinality(down)
  <2>1. \A x, y \in down : g[x] = g[y] => x = y
    BY <1>2 DEF EndOf
  <2> HIDE DEF up, down, f, g, D
  <2>2. Cardinality({g[i] : i \in down}) = Cardinality(down)
    BY <1>6, <2>1, ImageCount
  <2> QED
    BY <1>4, <2>2
<1> HIDE DEF up, down, f, g, D
<1>10. Level(D) = UnderWay(data, tau) /\ UnderWay(data, tau) \in 0..Cardinality(DOMAIN data)
  BY <1>1, <1>5, <1>6, <1>7, <1>8, <1>9 DEF Level
<1> QED
  BY <1>1, <1>10 DEF D

LEMMA MostUnderWay ==
  ASSUME SheetTyped, what = "runs"
  PROVE  LET all == {0} \cup {UnderWay(data, t) : t \in Times}
         IN  /\ Max(all) \in all /\ Max(all) \in Int
             /\ \A x \in all : x <= Max(all)
<1> DEFINE all == {0} \cup {UnderWay(data, t) : t \in Times}
<1>1. ASSUME NEW t \in Times
      PROVE  UnderWay(data, t) \in 0..Cardinality(DOMAIN data)
  BY LevelIsUnderWay
<1>2. Cardinality(DOMAIN data) \in Nat
  <2>1. PICK n \in Nat : DOMAIN data = 1..n
    BY DEF SheetTyped
  <2> QED
    BY <2>1, FS_Interval, FS_CardinalityType
<1>3. all \in SUBSET (0..Cardinality(DOMAIN data)) /\ 0 \in all
  BY <1>1, <1>2
<1> HIDE DEF all
<1>4. IsFiniteSet(all) /\ all \in SUBSET Int
  <2>1. PICK n \in Nat : n = Cardinality(DOMAIN data)
    BY <1>2
  <2>2. IsFiniteSet(0..n) /\ all \in SUBSET (0..n) /\ 0..n \subseteq Int
    BY <1>3, <2>1, FS_Interval
  <2> QED
    BY <2>2, FS_Subset
<1>5. Max(all) \in all /\ \A x \in all : x <= Max(all)
  BY <1>3, <1>4, MinMax
<1>6. Max(all) \in Int
  BY <1>4, <1>5
<1> QED
  BY <1>5, <1>6 DEF all

\* The sweep of the tables' events is never below and never above.
LEMMA SweepCounts ==
  ASSUME SheetTyped, what = "runs"
  PROVE  StrictConcurrency(data) = Max({0} \cup {UnderWay(data, t) : t \in Times})
<1> DEFINE E == Events(data, Started(DOMAIN data))
           all == {0} \cup {UnderWay(data, t) : t \in Times}
           Until(t) == {e \in E : e.t <= t}
<1>1. StrictConcurrency(data) = Sweep(E)
  BY DEF StrictConcurrency, Started
<1>2. Started(DOMAIN data) \in SUBSET DOMAIN data
  BY DEF Started
<1>3. EventSet(E) /\ \A e \in E : e.t \in Times
  <2> HIDE DEF all, Until
  <2> QED
    BY <1>2, EventsFacts
<1>4. Max(all) \in all /\ Max(all) \in Int /\ \A x \in all : x <= Max(all)
  BY MostUnderWay
<1>5. ASSUME NEW t \in Times
      PROVE  Level(Until(t)) = UnderWay(data, t) /\ Level(Until(t)) <= Max(all)
  <2>1. Level(Until(t)) = UnderWay(data, t)
    BY LevelIsUnderWay
  <2>2. UnderWay(data, t) \in all
    OBVIOUS
  <2> HIDE DEF all, Until
  <2> QED
    BY <1>4, <2>1, <2>2
<1>6. 0 <= Max(all)
  <2>1. 0 \in all
    OBVIOUS
  <2> HIDE DEF all
  <2> QED
    BY <1>4, <2>1
<1>7. \A x \in all : x = 0 \/ \E t \in Times : x = UnderWay(data, t)
  OBVIOUS
<1> HIDE DEF all, E
<1>8. ASSUME NEW e \in E, NEW f \in E
      PROVE  /\ e \in Event /\ f \in Event /\ e.t \in Int /\ f.t \in Int
             /\ e.d \in {1, -1} /\ f.d \in {1, -1} /\ e.of \in Int /\ f.of \in Int
  BY <1>3 DEF EventSet, Event
<1>9. Sweep(E) \in Nat
  BY <1>3, SweepIs
<1>10. Max(all) <= Sweep(E)
  <2>1. CASE Max(all) = 0
    BY <1>9, <2>1
  <2>2. ASSUME NEW t \in Times, Max(all) = UnderWay(data, t) PROVE Max(all) <= Sweep(E)
    <3>1. Until(t) \in SUBSET E
      OBVIOUS
    <3>2. t \in Int
      BY ResultsAssumption
    <3>3. ASSUME NEW e \in Until(t), NEW f \in E, Earlier(f, e) PROVE f \in Until(t)
      <4>1. f.t <= e.t /\ e.t <= t
        BY <1>8, <3>3 DEF Earlier
      <4>2. f.t <= t
        BY <1>8, <3>2, <4>1
      <4> QED
        BY <4>2
    <3> HIDE DEF Until
    <3>4. Level(Until(t)) <= Sweep(E)
      BY <1>3, <3>1, <3>3, SweepBounds
    <3> QED
      BY <1>5, <2>2, <3>4
  <2> QED
    BY <1>4, <1>7, <2>1, <2>2
<1>11. Sweep(E) <= Max(all)
  <2>1. CASE Sweep(E) = 0
    BY <1>6, <2>1
  <2>2. ASSUME NEW e \in E, Sweep(E) = Level(UpTo(E, e)) PROVE Sweep(E) <= Max(all)
    <3>0. UpTo(E, e) \in SUBSET E /\ EventSet(UpTo(E, e)) /\ Level(UpTo(E, e)) \in Int
      <4>1. UpTo(E, e) \in SUBSET E
        BY DEF UpTo
      <4>2. EventSet(UpTo(E, e))
        BY <1>3, <4>1, FS_Subset DEF EventSet
      <4> QED
        BY <4>1, <4>2, LevelFacts
    <3>1. CASE e.d = 1
      <4>1. EventSet(Until(e.t))
        <5>1. Until(e.t) \in SUBSET E
          OBVIOUS
        <5> HIDE DEF Until
        <5> QED
          BY <1>3, <5>1, FS_Subset DEF EventSet
      <4>2. StartsOf(UpTo(E, e)) \subseteq StartsOf(Until(e.t))
        BY <1>8 DEF StartsOf, UpTo, Earlier
      <4>3. EndsOf(Until(e.t)) \subseteq EndsOf(UpTo(E, e))
        BY <1>8, <3>1 DEF EndsOf, UpTo, Earlier
      <4>4. Level(UpTo(E, e)) <= Level(Until(e.t))
        <5> HIDE DEF Until
        <5> QED
          BY <3>0, <4>1, <4>2, <4>3, LevelAtMost
      <4>5. Level(Until(e.t)) \in Int /\ Level(Until(e.t)) <= Max(all)
        <5> HIDE DEF Until
        <5> QED
          BY <1>3, <1>5, <4>1, LevelFacts
      <4> HIDE DEF Until
      <4> QED
        BY <1>4, <2>2, <3>0, <4>4, <4>5
    <3>2. CASE e.d = -1
      <4> DEFINE L == {f \in E : f.t < e.t}
      <4>1. EventSet(L)
        <5>1. L \in SUBSET E
          OBVIOUS
        <5> HIDE DEF L
        <5> QED
          BY <1>3, <5>1, FS_Subset DEF EventSet
      <4>2. StartsOf(UpTo(E, e)) \subseteq StartsOf(L)
        BY <1>8, <3>2 DEF StartsOf, UpTo, Earlier
      <4>3. EndsOf(L) \subseteq EndsOf(UpTo(E, e))
        BY <1>8 DEF EndsOf, UpTo, Earlier
      <4>4. Level(UpTo(E, e)) <= Level(L)
        <5> HIDE DEF L
        <5> QED
          BY <3>0, <4>1, <4>2, <4>3, LevelAtMost
      <4>5. Level(L) \in Int /\ (L = {} => Level(L) = 0)
        <5> HIDE DEF L
        <5> QED
          BY <4>1, LevelFacts
      <4>6. ASSUME L # {} PROVE Level(L) <= Max(all)
        <5>1. PICK h \in L : \A f \in L : f = h \/ Earlier(f, h)
          <6> HIDE DEF L
          <6> QED
            BY <4>1, <4>6, FinalIs
        <5>2. h \in E /\ h.t < e.t
          OBVIOUS
        <5>3. \A f \in L : f.t <= h.t
          BY <1>8, <5>1, <5>2 DEF Earlier
        <5>4. \A f \in E : f.t <= h.t => f.t < e.t
          BY <1>8, <5>2
        <5>5. L = Until(h.t)
          BY <5>3, <5>4
        <5> HIDE DEF L, Until
        <5> QED
          BY <1>3, <1>5, <5>2, <5>5
      <4> HIDE DEF L
      <4> QED
        BY <1>4, <1>6, <2>2, <3>0, <4>4, <4>5, <4>6
    <3> QED
      BY <1>8, <3>1, <3>2
  <2> QED
    BY <1>3, <2>1, <2>2, SweepIs
<1> QED
  BY <1>1, <1>4, <1>9, <1>10, <1>11 DEF all

\* The tables' count of runs at once is what the time stamps say, for any rows:
\* the most under way at the end of a second. The collector's and the report's
\* is no higher, and the same where every run that ended had started
\* (metrics_collect.py 101-113, make_ch4_tables.py 80-99, make_report.py 58-69).
THEOREM CountsAreExact == ResultsSpec => []CountIsExact
<1>1. ASSUME SheetTyped, what = "runs"
      PROVE  /\ CalcMaxConcurrent(data) <= StrictConcurrency(data)
             /\ (\A i \in DOMAIN data : data[i].end # None => data[i].start # None) =>
                  CalcMaxConcurrent(data) = StrictConcurrency(data)
  <2> DEFINE All == Events(data, DOMAIN data)
             E == Events(data, Started(DOMAIN data))
  <2>1. StrictConcurrency(data) = Sweep(E) /\ CalcMaxConcurrent(data) = Sweep(All)
    BY DEF StrictConcurrency, CalcMaxConcurrent, Started
  <2>2. Started(DOMAIN data) \in SUBSET DOMAIN data /\ DOMAIN data \in SUBSET DOMAIN data
    BY DEF Started
  <2>3. EventSet(E) /\ EventSet(All)
    BY <1>1, <2>2, EventsFacts
  <2>4. E \subseteq All
    BY DEF Events, Started
  <2>5. \A e \in All : e.d = 1 => e \in E
    <3>1. ASSUME NEW e \in All, e.d = 1 PROVE e \in E
      <4>1. e.of \in Started(DOMAIN data) /\ e = StartOf(e.of)
        <5> HIDE DEF E
        <5> QED
          BY <1>1, <2>2, <3>1, EventsFacts
      <4>2. e.of \in Started(Started(DOMAIN data))
        BY <4>1 DEF Started
      <4> HIDE DEF All
      <4> QED
        BY <1>1, <2>2, <4>1, <4>2, EventsFacts
    <3> QED
      BY <3>1
  <2>6. (\A i \in DOMAIN data : data[i].end # None => data[i].start # None) => E = All
    BY DEF Events, Started
  <2> HIDE DEF E, All
  <2>7. Sweep(All) \in Nat /\ Sweep(E) \in Nat
    BY <2>3, SweepIs
  <2>8. Sweep(All) <= Sweep(E)
    <3>1. CASE Sweep(All) = 0
      BY <2>7, <3>1
    <3>2. ASSUME NEW e \in All, Sweep(All) = Level(UpTo(All, e)) PROVE Sweep(All) <= Sweep(E)
      <4> DEFINE U == UpTo(All, e)
                 D == U \cap E
      <4>1. U \in SUBSET All /\ D \in SUBSET E
        BY DEF UpTo
      <4>2. EventSet(U)
        <5> HIDE DEF U, D
        <5> QED
          BY <2>3, <4>1, FS_Subset DEF EventSet
      <4>3. StartsOf(U) \subseteq StartsOf(D)
        BY <2>5, <4>1 DEF StartsOf
      <4>4. EndsOf(D) \subseteq EndsOf(U)
        BY DEF EndsOf
      <4>5. ASSUME NEW x \in D, NEW f \in E, Earlier(f, x) PROVE f \in D
        <5>1. x \in Event /\ f \in Event /\ e \in Event /\ f \in All
          BY <2>3, <2>4, <4>1 DEF EventSet
        <5>2. x = e \/ Earlier(x, e)
          BY DEF UpTo
        <5>3. Earlier(f, e)
          BY <4>5, <5>1, <5>2, EarlierOrders
        <5> QED
          BY <5>1, <5>3 DEF UpTo
      <4>6. U = UpTo(All, e)
        OBVIOUS
      <4> HIDE DEF U, D
      <4>7. EventSet(D) /\ Level(D) <= Sweep(E) /\ Level(D) \in Int
        BY <2>3, <4>1, <4>5, SweepBounds
      <4>8. Level(U) <= Level(D) /\ Level(U) \in Int
        BY <4>2, <4>3, <4>4, <4>7, LevelAtMost, LevelFacts
      <4> QED
        BY <2>7, <3>2, <4>6, <4>7, <4>8
    <3> QED
      BY <2>3, <3>1, <3>2, SweepIs
  <2> QED
    BY <2>1, <2>6, <2>8
<1>2. SheetTyped => CountIsExact
  BY <1>1, SweepCounts DEF CountIsExact
<1> QED
  BY <1>2, SheetInvariant, PTL

=============================================================================
