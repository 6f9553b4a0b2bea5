-------------------------------- MODULE Results --------------------------------
(***************************************************************************)
(* What the collectors, the tables and the figures of the experiments make *)
(* of the records (src/experiments/common). A state is a sheet of records  *)
(* that grows by one at a time, of the kind a question is about:           *)
(*   "runs"     the rows of one round's CSV                                *)
(*   "traffic"  what the webhook saw, moment by moment                     *)
(*   "tiers"    the waits per tier, round by round                         *)
(*   "pair"     one number per round, of two conditions                    *)
(*   "arrivals" the runs of all rounds of a condition                      *)
(* Medians are doubled and means are sums, to stay with integers.          *)
(***************************************************************************)
EXTENDS Integers, SequencesExt, EffectiveTier

CONSTANTS
  None,       \* a field without a value: below 0
  Times,      \* time stamps of a run
  Window,     \* the range of the histogram's rate()
  Lead,       \* moments on record before the measurement begins
  Waits,      \* waits of a tier in a round, None if it had no run
  NoQueue,    \* Table 4-3: waits below do not count as a queue
  Numbers,    \* results of a round
  Gaps,       \* gaps between arrivals
  RoundGap,   \* the gap above which the figure sees a new round, 1800 s
  TierSet,    \* tiers of arrivals
  AgingStep,  \* t_a
  MaxRecords  \* bound of the model, per kind

ASSUME ResultsAssumption ==
  /\ None \in Int /\ None < 0 /\ Times \subseteq Nat
  /\ Window \in Nat \ {0} /\ Lead \in Nat
  /\ Waits \subseteq Nat \cup {None}
  /\ Numbers \subseteq Int /\ Gaps \subseteq Nat /\ RoundGap \in Nat
  /\ TierSet \subseteq Int /\ AgingStep \in Nat \ {0}

VARIABLES what, data, other
rvars == <<what, data, other>>

Row == [start: Times \cup {None}, end: Times \cup {None}, result: {"True", "False", "Unknown"}]

\* A run that has ended has a result; one that never started did not succeed.
Sensible(r) == /\ r.result = "Unknown" <=> r.end = None
               /\ r.start # None /\ r.end # None => r.start <= r.end
               /\ r.start = None => r.result # "True"

Arrival == [gap: Gaps, new: BOOLEAN, tier: TierSet]

Records == [runs     |-> {r \in Row : Sensible(r)},
            traffic  |-> {"none", "fast", "slow"},
            tiers    |-> [1..3 -> Waits],
            pair     |-> Numbers,
            \* Arrivals of one round lie close together; the next round may follow
            \* after days, or a few minutes later.
            arrivals |-> {a \in Arrival : a.gap > RoundGap => a.new}]

ResultsInit == what \in DOMAIN Records /\ data = <<>> /\ other = <<>>

Record ==
  /\ what \in DOMAIN Records /\ Len(data) < MaxRecords[what]
  /\ \E x \in Records[what] : data' = Append(data, x)
  /\ UNCHANGED <<what, other>>

RecordOther ==
  /\ what = "pair" /\ Len(other) < MaxRecords[what]
  /\ \E x \in Numbers : other' = Append(other, x)
  /\ UNCHANGED <<what, data>>

ResultsNext == Record \/ RecordOther
ResultsSpec == ResultsInit /\ [][ResultsNext]_rvars

\* Only records of the kind in question are on the sheet.
SheetTyped == what \in DOMAIN Records /\ data \in Seq(Records[what]) /\ other \in Seq(Numbers)

(***************************************************************************)
(* How many runs were under way at once: a sweep over the events of start  *)
(* and end, sorted by time.                                                *)
(***************************************************************************)
Bigger(a, b) == IF a < b THEN b ELSE a

\* What happened to run i: it started, or it ended.
Events(rows, I) ==
  {[t |-> rows[i].start, d |-> 1, of |-> i] : i \in {i \in I : rows[i].start # None}} \cup
  {[t |-> rows[i].end, d |-> -1, of |-> i] : i \in {i \in I : rows[i].end # None}}

EarlierStartsFirst(e, f) == e.t < f.t \/ (e.t = f.t /\ (e.d > f.d \/ (e.d = f.d /\ e.of < f.of)))  \* mutant
\* Tuples are compared field by field: of one time, an end comes first, and what
\* is equal stays in the order of the rows.
Earlier(e, f) == e.t < f.t \/ (e.t = f.t /\ (e.d < f.d \/ (e.d = f.d /\ e.of < f.of)))

Final(events) == CHOOSE e \in events : \A f \in events : f = e \/ Earlier(f, e)

\* The events one after the other, each after all that are earlier.
Sweep(events) ==
  MapThenFoldSet(LAMBDA e, s : [cur |-> s.cur + e.d, max |-> Bigger(s.max, s.cur + e.d)],
                 [cur |-> 0, max |-> 0], LAMBDA e : e, Final, events).max

\* The collector's and the report's, and the tables'.
CalcMaxConcurrent(rows) == Sweep(Events(rows, DOMAIN rows))
StrictConcurrency(rows) == Sweep(Events(rows, {i \in DOMAIN rows : rows[i].start # None}))

\* The tables' figure is what the time stamps say: the most runs that have
\* started and not ended by the end of some second, so a hand-over within a
\* second is no overlap. The collector's and the report's are the same, except
\* that a run which ended without a start makes them lower (metrics_collect.py
\* 101-113, make_ch4_tables.py 80-99, make_report.py 58-69).
UnderWay(rows, t) == Cardinality({i \in DOMAIN rows :
  rows[i].start \in 0..t /\ (rows[i].end = None \/ rows[i].end > t)})

CountIsExact == what = "runs" =>
  /\ StrictConcurrency(data) = Max({0} \cup {UnderWay(data, t) : t \in Times})
  /\ CalcMaxConcurrent(data) <= StrictConcurrency(data)
  /\ (\A i \in DOMAIN data : data[i].end # None => data[i].start # None) =>
       CalcMaxConcurrent(data) = StrictConcurrency(data)

(***************************************************************************)
(* Table 4-11: success within the span all rounds were observed for.       *)
(***************************************************************************)
Starts(rows) == {rows[i].start : i \in DOMAIN rows} \ {None}
Ends(rows)   == {rows[i].end : i \in DOMAIN rows} \ {None}

ObsSpan(rows) == IF Starts(rows) = {} \/ Ends(rows) = {} THEN 0
                 ELSE Max(Ends(rows)) - Min(Starts(rows))

\* Per row, in succ_at.
SuccAt(rows, T) == Cardinality({i \in DOMAIN rows :
  rows[i].result = "True" /\ rows[i].end - Min(Starts(rows)) <= T})

WidestSpan(f, g) == Max({ObsSpan(f), ObsSpan(g)})  \* mutant
CommonSpan(f, g) == Min({ObsSpan(f), ObsSpan(g)})

\* The same runs, collected at time X.
Cut(rows, X) == [i \in DOMAIN rows |->
  LET r == rows[i]
  IN  IF r.end <= X /\ r.start <= X THEN r
      ELSE [start |-> IF r.start <= X THEN r.start ELSE None,
            end |-> None, result |-> "Unknown"]]

\* A round observed longer gains nothing by it: of the same runs, collected
\* earlier and later, the same number succeeds within the common span
\* (make_ch4_tables.py 645-670; the sweep's rounds have a cool-down of 300 s
\* that the S2 rounds they are compared with have not).
CommonWindowFair == what = "runs" =>
  \A X \in Times :
    LET early == Cut(data, X)
        T     == CommonSpan(early, data)
    IN  Starts(early) # {} => SuccAt(early, T) = SuccAt(data, T)

(***************************************************************************)
(* The webhook's latency: a quantile over the last Window moments, NaN     *)
(* without traffic; its peak over the measurement, after the warm-up.      *)
(***************************************************************************)
Begin == Lead + 1  \* start_ts

Sample(i) ==
  LET seen == {data[j] : j \in {j \in DOMAIN data : j > i - Window /\ j <= i}}
  IN  IF "slow" \in seen THEN "slow" ELSE IF "fast" \in seen THEN "fast" ELSE "NaN"

PeakOver(moments) ==
  LET valid == {Sample(i) : i \in moments} \ {"NaN"}
  IN  IF valid = {} THEN "NaN" ELSE IF "slow" \in valid THEN "slow" ELSE "fast"

PeakCold == PeakOver({i \in DOMAIN data : i >= Begin})  \* mutant: no warm-up
Peak     == PeakOver({i \in DOMAIN data : i >= Begin /\ i >= Begin + Window})

\* The peak of a round is its own: it is high exactly when a request of the
\* measurement was slow, whatever happened just before, and leaving out the
\* warm-up loses none but those of the very first moment, which lies a minute
\* before the first request (resource_collect.py 220-284, 137-138).
PeaksAreOwn == what = "traffic" /\ Len(data) >= Begin + Window =>
  (Peak = "slow" <=> \E j \in (Begin + 1)..Len(data) : data[j] = "slow")

(***************************************************************************)
(* Waits per tier: medians over the rounds, and what is said of their      *)
(* order.                                                                  *)
(***************************************************************************)
\* Of the values of f, the one that comes k-th in ascending order.
Ranked(f, k) == CHOOSE x \in Range(f) : /\ Cardinality({i \in DOMAIN f : f[i] < x}) < k
                                        /\ Cardinality({i \in DOMAIN f : f[i] <= x}) >= k

Median2(f) == LET n == Cardinality(DOMAIN f)
              IN  IF n = 0 THEN 0 ELSE Ranked(f, (n + 1) \div 2) + Ranked(f, (n + 2) \div 2)

Monotone(v) == v[1] <= v[2] /\ v[2] <= v[3]

\* summarize: a tier's rounds without a run of it are left out.
TierMed == [t \in 1..3 |->
  Median2([i \in {i \in DOMAIN data : data[i][t] # None} |-> data[i][t]])]

\* Table 4-3. (Here a tier's longest wait in a round is its only one.)
Verdict == CASE \A t \in 1..3 : TierMed[t] < 2 * NoQueue -> "no queue"
             [] Monotone(TierMed)                        -> "monotone"
             [] OTHER                                    -> "inverted"

\* Table 4-6: a tier without a run counts as a wait of 0.
OrZero(v)      == [t \in 1..3 |-> IF v[t] = None THEN 0 ELSE v[t]]
MonotoneRounds == Cardinality({i \in DOMAIN data : Monotone(OrZero(data[i]))})
RoundsMedPresent == TierMed  \* mutant: the rounds with a run of the tier
RoundsMed      == [t \in 1..3 |-> Median2([i \in DOMAIN data |-> OrZero(data[i])[t]])]

\* An inversion the tables show is one that some round had: medians over
\* rounds do not make one up (make_ch4_tables.py 372-393, 494-523), as long as
\* every tier of Table 4-3 has a run in every round.
InversionIsReal == what = "tiers" =>
  /\ (\A i \in DOMAIN data, t \in 1..3 : data[i][t] # None) /\ Verdict = "inverted" =>
       \E i \in DOMAIN data : ~Monotone(data[i])
  /\ MonotoneRounds = Len(data) => Monotone(RoundsMed)

(***************************************************************************)
(* The two exact tests                                                     *)
(***************************************************************************)
Mag(x)  == IF x < 0 THEN -x ELSE x
AsExtremeStrictly(x, obs) == Mag(x) > Mag(obs)  \* mutant
AsExtreme(x, obs) == Mag(x) >= Mag(obs)

\* paired_test: the pairs zip makes, and how many of the 2^n choices of signs
\* give a mean as far from 0.
Diffs(a, b) == [i \in (DOMAIN a) \cap (DOMAIN b) |-> a[i] - b[i]]
SignCount(d) == Cardinality({s \in [DOMAIN d -> {1, -1}] :
                               AsExtreme(SumFunction([i \in DOMAIN d |-> s[i] * d[i]]), SumFunction(d))})
Agree(d) == Bigger(Cardinality({i \in DOMAIN d : d[i] > 0}),
                   Cardinality({i \in DOMAIN d : d[i] < 0}))

\* perm_test: how many of the ways to choose a's share of the pool give a
\* difference of means as far from 0 (times both sizes).
PoolCount(a, b) ==
  LET pool == a \o b
      Of(I) == SumFunctionOnSet(pool, I)
      Difference(I) == Of(I) * Len(b) - Of((DOMAIN pool) \ I) * Len(a)
  IN  Cardinality({I \in kSubset(Len(a), DOMAIN pool) :
                     AsExtreme(Difference(I), Difference(DOMAIN a))})

\* unpaired_test: the pairs in which a is ahead.
Ahead(a, b) == Cardinality({p \in (DOMAIN a) \X (DOMAIN b) : a[p[1]] > b[p[2]]})

\* What the tables say of small samples: the paired p is never below 2 / 2^n,
\* and is that exactly when all rounds point one way (k = n; one round
\* without a difference tells nothing); the unpaired p is never 0, and of as
\* many rounds of both it is at its floor when one condition is ahead in every
\* pair (make_ch4_tables.py 198-250).
TestsFloor == what = "pair" =>
  LET d == Diffs(data, other)
  IN  /\ d # <<>> => /\ SignCount(d) >= 2
                     /\ SignCount(d) = 2 /\ SumFunction(d) # 0 <=> Agree(d) = Len(d)
      /\ data # <<>> /\ other # <<>> =>
           /\ PoolCount(data, other) >= 1
           /\ Len(data) = Len(other) /\ Ahead(data, other) = Len(data) * Len(other) =>
                PoolCount(data, other) = 2

(***************************************************************************)
(* The promotion figure: arrivals of all rounds, each from the beginning   *)
(* of its round, and a line where ageing makes a tier more urgent.         *)
(***************************************************************************)
At(i) == SumFunction([j \in 1..i |-> data[j].gap])

\* Sorted arrivals: a long gap begins a new round.
Base(i) == Max({1} \cup {j \in 2..i : At(j) - At(j - 1) > RoundGap})
Rebased(i) == At(i) - At(Base(i))

TopTier == Max({data[i].tier : i \in DOMAIN data})
LinesOneMore == TopTier                     \* mutant: as many lines as tiers
Lines        == Bigger(TopTier - 1, 0)

\* What the figure shows (make_figures.py 282-317, config.py 140-144): arrivals
\* are counted from the first of a round, their own unless it and those before
\* it have each followed within RoundGap, when the rounds run into one; at each
\* line, and not before, the lowest tier's run becomes more urgent by one; above
\* the last, every run is as urgent as it will ever be, and of tier 1 or better.
FigureFits == what = "arrivals" =>
  \A i \in DOMAIN data :
    /\ \E f \in 1..i : /\ Rebased(i) = At(i) - At(f)
                       /\ f = 1 \/ data[f].new
                       /\ \A j \in (f + 1)..i : data[j].new => data[j].gap <= RoundGap
    /\ LET Eff(t, w) == EffTier(t, w, AgingStep, 1)
       IN  /\ \A k \in 1..Lines : /\ Eff(TopTier, k * AgingStep) = TopTier - k
                                  /\ Eff(TopTier, k * AgingStep - 1) = TopTier - k + 1
           /\ Eff(data[i].tier, Lines * AgingStep) <= 1

=============================================================================
