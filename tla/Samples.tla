-------------------------------- MODULE Samples --------------------------------
(***************************************************************************)
(* The resource metrics of the experiments: range queries of a round, of   *)
(* one metric, and what the summary (common/resource_collect.py), the      *)
(* audit, the tables and the figure of concurrency make of them.           *)
(* A round is a sequence of moments, and of each what was sampled then:    *)
(*   "pods"   a peak per round, its median over the rounds                 *)
(*   "ready"  a node's readiness, of which the minimum matters             *)
(*   "mem"    a build node's memory, averaged over Width moments           *)
(*   "curve"  running pods in the course of the rounds                     *)
(***************************************************************************)
EXTENDS Results

CONSTANTS
  Nodes,
  Readings,   \* per metric: its samples, of node and v
  NaN,        \* below all readings
  Unsampled,  \* nothing at that moment
  Refused,    \* the query failed: no series for the round
  Width,      \* mavg_max: width and, as long as the grid has no gap, min_pts
  FirstRun,   \* the moment of the round's first run
  Step,       \* fig_concurrency: distance of the grid's points
  MaxMoments, \* bounds of the model, per metric
  MaxSeries

\* Samples are of known nodes, and neither 0 nor NaN is the sign of none.
ASSUME SamplesAssumption ==
  /\ IsFiniteSet(Nodes)
  /\ \A m \in DOMAIN Readings : Readings[m] \subseteq [node: Nodes, v: Int]
  /\ NaN \in Int /\ NaN < 0
  /\ Unsampled \notin [node: Nodes, v: Int] \cup {0, NaN}
  /\ Width \in Nat \ {0} /\ FirstRun \in Int /\ Step \in Nat \ {0}

VARIABLES metric, series
mvars == <<metric, series>>

SamplesInit == metric \in DOMAIN Readings /\ series = <<>>

\* A round's query.
Query ==
  /\ Len(series) < MaxSeries[metric]
  /\ series' = Append(series, <<>>) \/ series' = Append(series, Refused)
  /\ UNCHANGED metric

Measured == {i \in DOMAIN series : series[i] # Refused}

\* One more moment of the round that was begun last.
Moment ==
  /\ Len(series) \in Measured
  /\ Len(Last(series)) < MaxMoments[metric]
  /\ \E s \in Readings[metric] \cup {Unsampled} :
       series' = [series EXCEPT ![Len(series)] = Append(@, s)]
  /\ UNCHANGED metric

SamplesNext == Query \/ Moment
SamplesSpec == SamplesInit /\ [][SamplesNext]_mvars

\* A round has a series of moments, or none.
SeriesTyped ==
  /\ metric \in DOMAIN Readings
  /\ series \in Seq(Seq(Readings[metric] \cup {Unsampled}) \cup {Refused})

Sampled(i) == IF i \in Measured THEN {j \in DOMAIN series[i] : series[i][j] # Unsampled} ELSE {}
Usable(i)  == {j \in Sampled(i) : series[i][j].v # NaN}
ValueAt(i, j) == series[i][j].v
Values(i)  == {ValueAt(i, j) : j \in Usable(i)}

(***************************************************************************)
(* Peaks                                                                   *)
(***************************************************************************)
\* Mutant: max() with a NaN among the values.
SummaryPeakNaive(i) == IF Usable(i) # Sampled(i) THEN NaN
                       ELSE IF Sampled(i) = {} THEN Unsampled ELSE Max(Values(i))
\* summary["peaks"]: None without a usable sample (NaN stands for it), and
\* without any sample the metric is not even named (Unsampled).
SummaryPeak(i) == IF Usable(i) # {} THEN Max(Values(i))
                  ELSE IF Sampled(i) # {} THEN NaN ELSE Unsampled

\* Table 4-2's peak of pods: what is not there counts as 0.
TablePods2 == Median2([i \in DOMAIN series |-> IF Usable(i) = {} THEN 0 ELSE SummaryPeak(i)])

\* The audit looks at the metrics that are named.
MissingPeaks == {i \in DOMAIN series : SummaryPeak(i) = NaN}

\* What the audit calls missing is what was sampled, but without one usable
\* value, and nothing else; when it names no round, and every round has samples
\* at all, the table's figure lies within the rounds' peaks. (A failed query
\* leaves no trace there, and lowers the figure: resource_collect.py 239-277,
\* audit_campaign.py 149-172, make_ch4_tables.py 153-161, 184-188.)
AuditSeesGaps == metric = "pods" =>
  /\ MissingPeaks = {i \in DOMAIN series : Sampled(i) # {} /\ Usable(i) = {}}
  /\ series # <<>> /\ MissingPeaks = {} /\ (\A i \in DOMAIN series : Sampled(i) # {}) =>
       LET tops == {Max(Values(i)) : i \in DOMAIN series}
       IN  2 * Min(tops) <= TablePods2 /\ TablePods2 <= 2 * Max(tops)

(***************************************************************************)
(* Readiness                                                               *)
(***************************************************************************)
Low(i, n) == Cardinality({j \in Sampled(i) : series[i][j].node = n /\ ValueAt(i, j) < 1})

\* The audit, per round and node.
LowHits == {h \in (DOMAIN series) \X Nodes : Low(h[1], h[2]) > 0}

\* Table 4-7: samples below 1 (of 15 s each), and rounds that have one.
NotReady(i) == Cardinality({j \in Sampled(i) : ValueAt(i, j) < 1})
TransitionsPerNode == Cardinality(LowHits)  \* mutant: of every node
Transitions        == Cardinality({i \in DOMAIN series : NotReady(i) > 0})

\* What the summaries' peaks hide, the audit and the table show, and they show
\* the same: the table's rounds are those of the audit's list, its samples
\* those the list counts, also when several nodes were not ready in a round
\* (audit_campaign.py 174-201, make_ch4_tables.py 162-177, 552-560).
NotReadyIsShown == metric = "ready" =>
  /\ Transitions = Cardinality({h[1] : h \in LowHits})
  /\ \A i \in DOMAIN series :
       /\ NotReady(i) = SumFunction([n \in Nodes |-> Low(i, n)])
       /\ SummaryPeak(i) = 0 => \E n \in Nodes : <<i, n>> \in LowHits

(***************************************************************************)
(* Memory: the highest average over a window                               *)
(***************************************************************************)
SumAt(i, js) == SumFunction([j \in js |-> ValueAt(i, j)])

\* Mutant: both ends of the window belong to it.
WindowClosed(i, j) == {k \in Sampled(i) : k >= FirstRun /\ k >= j - Width /\ k <= j}
\* mavg_max: the samples that count at moment j.
WindowAt(i, j) == {k \in Sampled(i) : k >= FirstRun /\ k > j - Width /\ k <= j}

\* The means of full windows, times Width.
MavgMax(i) ==
  Max({0} \cup {(SumAt(i, WindowAt(i, j)) * Width) \div Cardinality(WindowAt(i, j)) :
                  j \in {j \in Sampled(i) : Cardinality(WindowAt(i, j)) >= Width}})

\* The table's memory is one that lasted: the average of Width moments in a
\* row, all after the round's first run and none of them missing, and the
\* highest of these; a lone peak counts for a Width-th, and a round without
\* such a stretch counts as 0 (make_ch4_tables.py 102-115).
MemoryIsSustained == metric = "mem" =>
  \A i \in Measured :
    LET stretches == {j \in DOMAIN series[i] : j >= FirstRun /\ j..(j + Width - 1) \subseteq Sampled(i)}
    IN  MavgMax(i) = Max({0} \cup {SumAt(i, j..(j + Width - 1)) : j \in stretches})

(***************************************************************************)
(* Concurrency in the course of the rounds                                 *)
(***************************************************************************)
\* load_series: times count from the round's first value.
Curve(i)   == {j - Min(Usable(i)) : j \in Usable(i)}
Curves     == {i \in DOMAIN series : Usable(i) # {}}
LongestEnd == Max({Max(Curve(i)) : i \in Curves})  \* mutant
CommonEnd  == Min({Max(Curve(i)) : i \in Curves})
GridPoints == {g \in 0..CommonEnd : g % Step = 0}

\* The nearest time, the earlier one of two; it counts if it is near enough.
Nearest(i, g) == CHOOSE x \in Curve(i) : \A y \in Curve(i) :
  Mag(x - g) < Mag(y - g) \/ (Mag(x - g) = Mag(y - g) /\ x <= y)

\* The rounds whose values the point's median is of.
NearBy(g) == {i \in Curves : Mag(Nearest(i, g) - g) <= Step}

\* The median curve covers the time that all rounds have in common: it begins
\* with all of them, and a round is left out of a point's median only inside a
\* gap of its own, never because it is over (make_figures.py 56-76, 94-107).
CurveIsCommon == metric = "curve" /\ Curves # {} =>
  /\ NearBy(0) = Curves
  /\ \A g \in GridPoints : \A i \in Curves \ NearBy(g) :
       \E x, y \in Curve(i) : x < g - Step /\ y > g + Step

=============================================================================
