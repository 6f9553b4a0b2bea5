----------------------------- MODULE TemplateTrial -----------------------------
(***************************************************************************)
(* Experiment D1 (src/experiments/d1_pending_template): three resident     *)
(* templates, PipelineRuns that are to stay pending, share a namespace     *)
(* with a load of new runs. watch_templates.py polls both and writes a     *)
(* state file; judge.py reads the files of all rounds and gives the        *)
(* verdict that was registered beforehand.                                 *)
(***************************************************************************)
EXTENDS Integers, SequencesExt

CONSTANTS
  Polls,    \* duration / interval
  NewRuns,  \* runs of the load
  Loads,    \* loads of the state files judge.py is given
  Outcomes, \* and the templates they say have been started
  MaxFiles, \* bound of the model: state files
  NoShot    \* what a failed kubectl leaves: None

Role == {"pre", "other-sa", "same-sa"}
RoleOrder == <<"pre", "other-sa", "same-sa">>
CondOrder == <<"k", "p", "v">>

\* What kubectl tells of the templates that are there, and of the load.
LoadCount == [total: Nat, started: Nat]
Shot == [tmpl: UNION {[T -> BOOLEAN] : T \in SUBSET Role}, load: LoadCount]

ASSUME TrialAssumption ==
  Loads \subseteq LoadCount /\ Outcomes \subseteq SUBSET Role /\ NoShot \notin Shot

VARIABLES
  there, begun, total, started, \* the namespace: templates, runs of the load
  shots,                        \* what each poll got (only a property reads it)
  firstSeen, last,              \* first_seen; last_tmpl with last_load
  files                         \* the state files, in the order of their names

world   == <<there, begun, total, started>>
watcher == <<shots, firstSeen, last>>
tvars   == <<world, watcher, files>>

\* A state file.
Report(c, tmpl, load) == [condition |-> c, started |-> tmpl, load |-> load]

TrialInit ==
  /\ there = Role /\ begun = {} /\ total = 0 /\ started = 0
  /\ shots = <<>> /\ firstSeen = [r \in Role |-> 0] /\ last = NoShot
  /\ files = <<>>

-----------------------------------------------------------------------------
\* The namespace: a template is started (by whatever is tried) or deleted, a
\* run of the load is created or started. A run once started stays.
World ==
  /\ Len(shots) < Polls /\ files = <<>>
  /\ \/ \E r \in there \ begun : begun' = begun \cup {r} /\ UNCHANGED <<there, total, started>>
     \/ \E r \in there : there' = there \ {r} /\ UNCHANGED <<begun, total, started>>
     \/ total < NewRuns /\ total' = total + 1 /\ UNCHANGED <<there, begun, started>>
     \/ started < total /\ started' = started + 1 /\ UNCHANGED <<there, begun, total>>
  /\ UNCHANGED <<watcher, files>>

\* snapshot: all of it from one list.
Snapshot == [tmpl |-> [r \in there |-> r \in begun],
             load |-> [total |-> total, started |-> started]]

StartedIn(s) == {r \in DOMAIN s.tmpl : s.tmpl[r]}

\* Mutant: break, not continue, at a template that is not seen.
FreshUntilMissing(s) == {r \in StartedIn(s) :
  \A i, j \in 1..3 : RoleOrder[i] = r /\ j < i => RoleOrder[j] \in DOMAIN s.tmpl}
\* Templates to enter into first_seen, if they are not in it.
Fresh(s) == StartedIn(s)

\* One pass of the loop; a failure of kubectl leaves everything as it was.
Poll ==
  /\ Len(shots) < Polls /\ files = <<>>
  /\ \/ /\ last' = Snapshot
        /\ firstSeen' = [r \in Role |-> IF r \in Fresh(Snapshot) /\ firstSeen[r] = 0
                                        THEN Len(shots) + 1 ELSE firstSeen[r]]
        /\ shots' = Append(shots, Snapshot)
     \/ shots' = Append(shots, NoShot) /\ UNCHANGED <<firstSeen, last>>
  /\ UNCHANGED <<world, files>>

\* The state file's "started", spec_status_last and load.
ReportStarted == {r \in Role : firstSeen[r] # 0}
ReportSeen    == IF last = NoShot THEN {} ELSE DOMAIN last.tmpl
ReportLoad    == IF last = NoShot THEN [total |-> 0, started |-> 0] ELSE last.load

\* Rounds end with a file each.
Round ==
  /\ shots = <<>> /\ Len(files) < MaxFiles
  /\ \E c \in 1..3, o \in Outcomes, l \in Loads :
       /\ files # <<>> => \E b \in 1..c : CondOrder[b] = Last(files).condition
       /\ files' = Append(files, Report(CondOrder[c], o, l))
  /\ world = <<Role, {}, 0, 0>>
  /\ UNCHANGED <<world, watcher>>

TrialNext == World \/ Poll \/ Round
TrialSpec == TrialInit /\ [][TrialNext]_tvars

(***************************************************************************)
(* judge.py                                                                *)
(***************************************************************************)
AliveUnloaded(f) == f.load.started * 10 >= f.load.total * 8  \* mutant
\* survival: SURVIVAL_RATIO of the new runs have been started.
Alive(f) == f.load.total # 0 /\ f.load.started * 10 >= f.load.total * 8

\* EXPECT, without what is not expected (None) and without SIDE_ROLES.
Expect == [k |-> [r \in {"other-sa"} |-> TRUE],
           p |-> [r \in {"pre", "other-sa"} |-> FALSE],
           v |-> [r \in {"pre", "other-sa"} |-> FALSE]]

\* judge_run
Mismatch(f) == LET want == Expect[f.condition]
               IN  {r \in DOMAIN want : (r \in f.started) # want[r]}

\* show_summary: the live rounds of a condition.
Live(c) == {i \in DOMAIN files : files[i].condition = c /\ Alive(files[i])}

Ran(c, r) == {i \in Live(c) : r \in files[i].started}

TrialVerdict ==
  LET k_ok    == Cardinality(Ran("k", "other-sa"))
      p_leak  == Cardinality(Ran("p", "other-sa"))
      p_split == Cardinality(Live("p")) - p_leak
      v_none  == Live("v") \ (Ran("v", "pre") \cup Ran("v", "other-sa"))
  IN  CASE p_leak > 0                     -> "refuted"
        [] p_leak = 0 /\ k_ok = 0 /\ Live("k") # {} -> "not reproduced"
        [] p_leak = 0 /\ k_ok >= 3 /\ k_ok = Cardinality(Live("k"))
             /\ v_none = Live("v")        -> "complete"
        [] OTHER -> IF k_ok >= 2 /\ p_split >= 2 THEN "partial" ELSE "open"

(***************************************************************************)
(* Properties                                                              *)
(***************************************************************************)
\* The polls that kubectl answered, and those that saw a template started.
Answered  == {t \in DOMAIN shots : shots[t] # NoShot}
SeenIn(r) == {t \in Answered : r \in StartedIn(shots[t])}

\* What the watcher reports is what its polls saw, failed ones and deleted
\* templates notwithstanding (watch_templates.py 48-82, 115-149): a template's
\* first time is that of the first poll that saw it started, and one reported
\* as not started, but still there, had not been started at the moment of the
\* poll whose load is reported, so the survival check speaks of that moment too.
ReportIsWhatWasSeen ==
  /\ \A r \in Role : firstSeen[r] = IF SeenIn(r) = {} THEN 0 ELSE Min(SeenIn(r))
  /\ Answered # {} =>
       \E u \in Answered : /\ shots[u].load = ReportLoad
                          /\ \A r \in ReportSeen \ ReportStarted :
                               r \in DOMAIN shots[u].tmpl \ StartedIn(shots[u])
                          /\ \A v \in DOMAIN shots : v > u => shots[v] = NoShot

\* The verdict over all rounds agrees with what each round was expected to show
\* before the experiment (judge.py 28-65, 97-137): "complete" means that new
\* runs were seen to start in at least three rounds of K, and that no live
\* round of any condition is at odds with its expectation, except that P may
\* have started the template "pre"; one live round of P with "other-sa" started
\* refutes, whatever the others show; and three live rounds of K without any
\* mismatch in the live rounds are never less than complete.
VerdictFollowsRounds ==
  LET live == UNION {Live(c) : c \in ToSet(CondOrder)}
  IN  /\ TrialVerdict = "complete" =>
           /\ Cardinality({i \in Live("k") : files[i].load.started > 0}) >= 3
           /\ \A i \in live : Mismatch(files[i]) \subseteq
                                {r \in {"pre"} : files[i].condition = "p"}
      /\ (\E i \in Live("p") : "other-sa" \in files[i].started) <=> TrialVerdict = "refuted"
      /\ Cardinality(Live("k")) >= 3 /\ (\A i \in live : Mismatch(files[i]) = {}) =>
           TrialVerdict = "complete"

\* What makes the report right: what is kept of the last answer is of one poll.
WatchInv ==
  /\ there \subseteq Role /\ total \in Nat /\ started \in Nat
  /\ shots \in Seq(Shot \cup {NoShot})
  /\ firstSeen \in [Role -> Nat]
  /\ \A r \in Role : firstSeen[r] = IF SeenIn(r) = {} THEN 0 ELSE Min(SeenIn(r))
  /\ IF Answered = {} THEN last = NoShot ELSE last = shots[Max(Answered)]

\* What judge.py is given.
FilesTyped ==
  files \in Seq([condition: {"k", "p", "v"}, started: SUBSET Role, load: LoadCount])

=============================================================================
