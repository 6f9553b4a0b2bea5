------------------------------- MODULE Campaign -------------------------------
(***************************************************************************)
(* The experiment campaign (src/experiments/run_all.sh and the run.sh of a *)
(* condition): round by round it clears the namespace, sends a load,       *)
(* collects the PipelineRuns into a CSV (common/metrics_collect.py) and    *)
(* the resource metrics into a second CSV and a JSON summary               *)
(* (common/resource_collect.py). A run.sh stops at its first failing       *)
(* command; the campaign reports it and goes on. The files outlive the     *)
(* process: a campaign is run in several chunks, over several days.        *)
(*                                                                         *)
(* Further Faults:                                                         *)
(*   "kill"    a collector is killed, or cannot reach the cluster          *)
(*   "chunk"   run_all.sh dies, with all it has started                    *)
(* Whoever dies may leave a part of the file he was writing.               *)
(***************************************************************************)
EXTENDS LoadGenerator, LoadPlan, SequencesExt

CONSTANTS
  Conds,     \* the conditions, in the order of the loop
  Rounds,    \* how often each is run; the round's number is its seed
  Horizon,   \* the loads' --duration
  NoFile,
  Unclean,   \* the slots before which kubectl delete may fail
  Fragile,   \* bound of the model: the slots where a collector may die
  Asides,    \* the sets of files, as <<kind, slot>>, an operator may put aside
  Laters,    \* per condition: further files of its folder (only the audit counts them)
  MaxChunks  \* bound of the model: calls of run_all.sh

\* All conditions, once per round.
Slot     == 1..(Len(Conds) * Rounds)
CondOf(k)  == Conds[((k - 1) % Len(Conds)) + 1]
RoundOf(k) == (k - 1) \div Len(Conds) + 1
PlanOf(k)  == Poisson(RoundOf(k), Horizon)

Run == [chunk: 1..MaxChunks, slot: Slot, entry: Nat]
       \* the runs of one entry ("late": up to Retries of them) are not told apart

\* A file, and the call of run_all.sh that has written it.
CsvFile    == [by: 1..MaxChunks, rows: SUBSET Run]
MetricFile == [by: 1..MaxChunks, whole: BOOLEAN]

ASSUME CampaignAssumption ==
  /\ Conds \in Seq(ToSet(Conds)) /\ \A i, j \in DOMAIN Conds : Conds[i] = Conds[j] => i = j
  /\ Len(Conds) \in Nat \ {0} /\ Rounds \in Nat \ {0} /\ MaxChunks \in Nat \ {0}
  /\ \A k \in Slot : PlanOf(k) \in Seq(Request)
  /\ \E c \in Crews : \A v, w \in c : v = w
  /\ NoFile \notin CsvFile \cup MetricFile
  /\ Laters \subseteq [ToSet(Conds) -> Nat]

VARIABLES
  stage,    \* what run_all.sh, or the run.sh under it, is about to do
  at,       \* the slot (condition, round) it is at
  chunk,    \* which call of run_all.sh it is
  cluster,  \* the PipelineRuns in the namespace
  csv,      \* per slot: run<i>.csv
  res,      \* per slot: run<i>_resource.csv
  json,     \* per slot: run<i>_resource.json
  complete, \* <<chunk, slot>> of the lines "<<< experiment complete" in the log of all chunks
  reported, \* FAILED_RUNS
  dirty     \* a cleanup has left something behind (only properties read it)

fileVars == <<csv, res, json>>
cvars    == <<lvars, stage, at, chunk, cluster, fileVars, complete, reported, dirty>>

CampaignTypeOK ==
  /\ stage \in {"off", "clean", "load", "metrics", "series", "summary", "done", "dead"}
  /\ at \in 1..(Len(Conds) * Rounds + 1)
  /\ chunk \in 1..MaxChunks
  /\ cluster \subseteq Run
  /\ \A k \in Slot : /\ csv[k] \in CsvFile \cup {NoFile}
                     /\ {res[k], json[k]} \subseteq MetricFile \cup {NoFile}
  /\ complete \subseteq (1..MaxChunks) \X Slot
  /\ reported \subseteq Slot
  /\ dirty \in BOOLEAN

\* The type of the campaign's state, the load's included: indices stay within
\* the plan of the round, files belong to the slots of the campaign.
CampaignTyped == LoadTypeOK /\ CampaignTypeOK

NoFiles == [k \in Slot |-> NoFile]

\* A new pr_create.py: one thread, --generate-name.
SetLoad(p) ==
  /\ plan' = p /\ gen' = TRUE /\ crew' = CHOOSE c \in Crews : \A v, w \in c : v = w
  /\ next' = 1
  /\ job' = [w \in Thread |-> 0]
  /\ try' = [w \in Thread |-> 1]
  /\ made' = [i \in DOMAIN p |-> 0]
  /\ failed' = {}
  /\ exit' = "running"

FilesInit ==
  /\ at = 1 /\ chunk = 1 /\ cluster = {} /\ complete = {} /\ reported = {}
  /\ dirty = FALSE
  /\ csv = NoFiles /\ res = NoFiles /\ json = NoFiles

\* A load by itself (the run.sh of other conditions), or a campaign.
CampaignInit ==
  /\ LoadInit /\ FilesInit
  /\ \/ stage = "off"
     \/ stage = "clean" /\ plan = <<>> /\ gen /\ Serial

-----------------------------------------------------------------------------
\* cleanup.sh, before the first round and after each. It exits with 0 whatever
\* kubectl said, so run_all.sh has nothing to warn of. (Bound of the model: one
\* cleanup, before a slot of Unclean, leaves everything behind.)
Remains == {{}} \cup (IF at \in Unclean /\ ~dirty THEN {cluster} ELSE {})

Clean ==
  /\ stage = "clean"
  /\ \E left \in Remains : cluster' = left /\ dirty' = (dirty \/ left # {})
  /\ IF at \in Slot
     THEN stage' = "load" /\ SetLoad(PlanOf(at))
     ELSE stage' = "done" /\ UNCHANGED lvars
  /\ UNCHANGED <<at, chunk, fileVars, complete, reported>>

\* pr_create.py works on the plan of the round.
Load ==
  /\ stage = "load"
  /\ LoadStep
  /\ cluster' = cluster \cup {[chunk |-> chunk, slot |-> at, entry |-> i] :
                                i \in {j \in Entry : made'[j] # made[j]}}
  /\ UNCHANGED <<stage, at, chunk, fileVars, complete, reported, dirty>>

\* Mutant: the exit code is the one of tee.
RoundFailsUnseen ==
  /\ stage' = "clean" /\ at' = at + 1
  /\ complete' = complete \cup {<<chunk, at>>} /\ UNCHANGED reported
  /\ SetLoad(<<>>)

\* run.sh ends with an error (set -e), run_experiment reports it.
RoundFails ==
  /\ stage' = "clean" /\ at' = at + 1
  /\ reported' = reported \cup {at} /\ UNCHANGED complete
  /\ SetLoad(<<>>)

\* Mutant: without set -e.
LoadEndsAnyhow ==
  /\ stage = "load" /\ exit # "running"
  /\ stage' = "metrics" /\ SetLoad(<<>>) /\ UNCHANGED <<at, complete, reported>>
  /\ UNCHANGED <<chunk, cluster, fileVars, dirty>>

\* The load is over. (Waiting for the runs to finish, for 30 minutes at most,
\* changes nothing here.)
LoadEnds ==
  /\ stage = "load" /\ exit # "running"
  /\ \/ exit = "ok" /\ stage' = "metrics" /\ SetLoad(<<>>) /\ UNCHANGED <<at, complete, reported>>
     \/ exit # "ok" /\ RoundFails
  /\ UNCHANGED <<chunk, cluster, fileVars, dirty>>

\* Mutant: an existing CSV is kept, and that is no error.
MetricsKeeping ==
  /\ stage = "metrics"
  /\ csv' = IF cluster = {} \/ csv[at] # NoFile THEN csv
            ELSE [csv EXCEPT ![at] = [by |-> chunk, rows |-> cluster]]
  /\ stage' = "series"
  /\ UNCHANGED <<lvars, at, chunk, cluster, res, json, complete, reported, dirty>>

\* metrics_collect.py: all PipelineRuns of the namespace, whoever's they are;
\* with none there is no file and no error; an existing file is an error.
Metrics ==
  /\ stage = "metrics"
  /\ \/ /\ cluster = {} \/ csv[at] = NoFile
        /\ csv' = IF cluster = {} THEN csv
                  ELSE [csv EXCEPT ![at] = [by |-> chunk, rows |-> cluster]]
        /\ stage' = "series"
        /\ UNCHANGED <<lvars, at, complete, reported>>
     \/ /\ cluster # {} /\ csv[at] # NoFile
        /\ RoundFails
        /\ UNCHANGED csv
  /\ UNCHANGED <<chunk, cluster, res, json, dirty>>

\* resource_collect.py: no window without a PipelineRun; both files must be
\* new; the series is written first.
Series ==
  /\ stage = "series"
  /\ \/ /\ cluster = {} \/ res[at] # NoFile \/ json[at] # NoFile
        /\ RoundFails
        /\ UNCHANGED res
     \/ /\ cluster # {} /\ res[at] = NoFile /\ json[at] = NoFile
        /\ res' = [res EXCEPT ![at] = [by |-> chunk, whole |-> TRUE]]
        /\ stage' = "summary"
        /\ UNCHANGED <<lvars, at, complete, reported>>
  /\ UNCHANGED <<chunk, cluster, csv, json, dirty>>

\* The summary is the last of run.sh, and run_experiment logs the round.
Summary ==
  /\ stage = "summary"
  /\ json' = [json EXCEPT ![at] = [by |-> chunk, whole |-> TRUE]]
  /\ complete' = complete \cup {<<chunk, at>>}
  /\ stage' = "clean" /\ at' = at + 1
  /\ UNCHANGED <<lvars, chunk, cluster, csv, res, reported, dirty>>

\* A collector that dies leaves its file as it was, or has begun to write it:
\* only a file that is not there, after the checks of Metrics and Series. A
\* CSV may have any of its rows, a summary may be whole.
Leaves ==
  \/ UNCHANGED fileVars
  \/ /\ stage = "metrics" /\ at \in Fragile /\ cluster # {} /\ csv[at] = NoFile
     /\ \E rows \in SUBSET cluster :
          csv' = [csv EXCEPT ![at] = [by |-> chunk, rows |-> rows]]
     /\ UNCHANGED <<res, json>>
  \/ /\ stage = "series" /\ at \in Fragile /\ cluster # {}
     /\ res[at] = NoFile /\ json[at] = NoFile
     /\ res' = [res EXCEPT ![at] = [by |-> chunk, whole |-> FALSE]]
     /\ UNCHANGED <<csv, json>>
  \/ /\ stage = "summary" /\ at \in Fragile
     /\ \E w \in BOOLEAN : json' = [json EXCEPT ![at] = [by |-> chunk, whole |-> w]]
     /\ UNCHANGED <<csv, res>>

\* A command of run.sh after the load dies. (The load's death is no different
\* from that of a lost answer.)
Kill ==
  /\ "kill" \in Faults
  /\ stage \in {"metrics", "series", "summary"} /\ at \in Fragile
  /\ Leaves /\ RoundFails
  /\ UNCHANGED <<chunk, cluster, dirty>>

\* run_all.sh dies, and what it has started with it.
Die ==
  /\ "chunk" \in Faults
  /\ stage \notin {"off", "done", "dead"}
  /\ Leaves
  /\ stage' = "dead" /\ SetLoad(<<>>)
  /\ UNCHANGED <<at, chunk, cluster, complete, reported, dirty>>

\* run_all.sh is called again, after its end or its death, and begins with
\* round 1. The operator may have put files aside: those of a slot, or only
\* the one that a collector has named when it stopped.
NewChunk ==
  /\ stage \in {"done", "dead"}
  /\ chunk < MaxChunks
  /\ \E aside \in Asides :
       LET Kept(kind, f) == [k \in Slot |-> IF <<kind, k>> \in aside THEN NoFile ELSE f[k]]
       IN  csv' = Kept("csv", csv) /\ res' = Kept("res", res) /\ json' = Kept("json", json)
  /\ chunk' = chunk + 1
  /\ stage' = "clean" /\ at' = 1 /\ reported' = {} /\ SetLoad(<<>>)
  /\ UNCHANGED <<cluster, complete, dirty>>

LoneLoad ==
  /\ stage = "off"
  /\ LoadStep
  /\ UNCHANGED <<stage, at, chunk, cluster, fileVars, complete, reported, dirty>>

CampaignNext == \/ LoneLoad \/ Clean \/ Load \/ LoadEnds \/ Metrics \/ Series
                \/ Summary \/ Kill \/ Die \/ NewChunk

CampaignSpec == CampaignInit /\ [][CampaignNext]_cvars

(***************************************************************************)
(* audit_campaign.py: what it objects to ("지적")                          *)
(***************************************************************************)
\* The files of a condition that the tables use, in the order of their lists:
\* rounds 1 to Rounds, without those that are missing or have no row.
HasCsv(c) == {k \in Slot : CondOf(k) = c /\ csv[k] # NoFile /\ csv[k].rows # {}}

Files(c) == [i \in 1..Cardinality(HasCsv(c)) |->
               CHOOSE k \in HasCsv(c) : Cardinality({j \in HasCsv(c) : j <= k}) = i]

\* The audit counts all CSVs of the folder, those of later rounds (6 to 8) and
\* of further loads included, against the number planned for the table.
EnoughFilesSome(c, later) == Len(Files(c)) > 0  \* mutant: any number will do
EnoughFiles(c, later)     == Len(Files(c)) + later[c] >= Rounds

\* Every CSV has its series and a summary that can be read, and rows. (How
\* much of a series there is, is not looked at beyond its first 1000 bytes.)
PairedFiles == \A k \in Slot :
  /\ csv[k] # NoFile => res[k] # NoFile /\ json[k] # NoFile /\ csv[k].rows # {}
  /\ json[k] # NoFile => json[k].whole

AuditSilent(later) == (\A c \in ToSet(Conds) : EnoughFiles(c, later)) /\ PairedFiles

(***************************************************************************)
(* Properties                                                              *)
(***************************************************************************)
\* The rows that the attempt a CSV is of has made.
Own(k) == {x \in csv[k].rows : x.slot = k /\ x.chunk = csv[k].by}

\* The log calls the attempt a CSV is of complete.
Logged(k) == csv[k] # NoFile /\ <<csv[k].by, k>> \in complete

\* A CSV holds runs of one round's load only, no run of an earlier round, of
\* another chunk or of a load that broke off, unless a cleanup has failed, of
\* which nothing tells; and it holds a run for every entry of the plan if the
\* log calls its attempt complete, whatever is killed or repeated. (Killed
\* collectors leave parts of a CSV that later attempts keep: they are not
\* called complete.) (run_all.sh 76-104, 130-136; run.sh's set -e; cleanup.sh;
\* metrics_collect.py 22-86)
CsvIsWholeLoad ==
  \A k \in Slot : csv[k] # NoFile =>
    /\ csv[k].rows = Own(k) \/ dirty
    /\ Logged(k) => {x.entry : x \in Own(k)} = DOMAIN PlanOf(k)

\* A series or a summary beside a CSV whose attempt the log calls complete is
\* of that attempt, and whole, however often the slot was tried again and
\* whichever of the files were put aside (metrics_collect.py 64-71,
\* resource_collect.py 206-214: results are never overwritten). A CSV whose
\* attempt broke off may stand beside files of another one.
FilesOfOneAttempt ==
  \A k \in Slot : Logged(k) =>
    {res[k], json[k]} \subseteq {NoFile, [by |-> csv[k].by, whole |-> TRUE]}

\* A slot has its three files, of the call that is running, and the log says so.
Done(k) ==
  /\ <<chunk, k>> \in complete
  /\ csv[k] # NoFile /\ csv[k].by = chunk
  /\ res[k] = [by |-> chunk, whole |-> TRUE] /\ json[k] = res[k]

\* At the end of a chunk every slot that is not among the rounds reported as
\* failed has its three files, whole and of this chunk: none is missing, left
\* over from an earlier call, or a part (run_all.sh 86-104, 172-179: "results
\* missing or incomplete, to be run again").
MissingIsReported ==
  stage = "done" => \A k \in Slot \ reported : Done(k)

\* No later file stands in for a missing one in the audit's count.
Unhidden(c, later) == later[c] = 0 \/ Len(Files(c)) = Rounds

\* When the audit objects to nothing, the paired comparisons of
\* make_ch4_tables.py (231-250, 297-305), which pair by position the files that
\* exist, pair files of the same seed, and of the same requests if both
\* attempts were complete. That is so only for conditions of which no later
\* file hides a missing one (audit_campaign.py 35-56, 90-106).
AuditedPairsMatch ==
  \A later \in Laters : AuditSilent(later) =>
    \A c, d \in {e \in ToSet(Conds) : Unhidden(e, later)} :
      \A i \in DOMAIN Files(c) \cap DOMAIN Files(d) :
        LET j == Files(c)[i]
            k == Files(d)[i]
            Asked(s) == {<<x.entry, PlanOf(x.slot)[x.entry]>> : x \in Own(s)}
        IN  /\ RoundOf(j) = RoundOf(k)
            /\ Logged(j) /\ Logged(k) => Asked(j) = Asked(k)

(***************************************************************************)
(* What makes them inductive                                               *)
(***************************************************************************)
\* Nobody has made the run of an entry that is not in its round's plan; runs
\* of the current call are of slots it has come to, and the current slot has
\* none before its load. Unless a cleanup has failed, there are no others.
ClusterOfPlans ==
  /\ \A x \in cluster : /\ x.entry \in DOMAIN PlanOf(x.slot)
                        /\ x.chunk <= chunk
                        /\ x.chunk = chunk => x.slot <= at
  /\ stage = "clean" => ~\E x \in cluster : x.chunk = chunk /\ x.slot = at
  /\ stage \in {"load", "metrics", "series", "summary"} /\ ~dirty =>
       \A x \in cluster : x.chunk = chunk /\ x.slot = at

Current(i) == [chunk |-> chunk, slot |-> at, entry |-> i]

\* During the load there is what it has made, afterwards all that was planned.
ClusterOfLoad ==
  /\ stage = "load" => /\ plan = PlanOf(at)
                       /\ \A i \in Entry : Current(i) \in cluster <=> made[i] > 0
  /\ stage \in {"metrics", "series", "summary"} =>
       \A i \in DOMAIN PlanOf(at) : Current(i) \in cluster

\* The collectors come to the slots in turn, and to files of this execution;
\* what the log calls complete lies behind.
InTurn ==
  /\ stage \in {"load", "metrics", "series", "summary"} => at \in Slot
  /\ stage = "done" => at \notin Slot
  /\ stage = "off" => at = 1
  /\ stage = "summary" => cluster # {} /\ res[at] = [by |-> chunk, whole |-> TRUE]
  /\ stage \in {"series", "summary"} /\ cluster # {} =>
       csv[at] = [by |-> chunk, rows |-> cluster]
  /\ \A e \in complete : e[1] <= chunk /\ (e[1] = chunk => e[2] < at)

FilesOfPlans ==
  /\ DOMAIN csv = Slot /\ DOMAIN res = Slot /\ DOMAIN json = Slot
  /\ \A k \in Slot : csv[k] # NoFile =>
       /\ csv[k].by <= chunk
       /\ \A x \in csv[k].rows : x.entry \in DOMAIN PlanOf(x.slot)

\* A slot the call has left behind has its files, or is reported.
LeftComplete == \A k \in Slot \ reported : k < at => Done(k)

CampaignInv ==
  /\ CampaignTyped /\ (stage # "off" => Serial)
  /\ ClusterOfPlans /\ ClusterOfLoad /\ InTurn /\ LeftComplete
  /\ FilesOfPlans /\ CsvIsWholeLoad /\ FilesOfOneAttempt

=============================================================================
