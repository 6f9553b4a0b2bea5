# The tekton queue controller in TLA+

This directory is a model, in TLA+, of the controller in `src/src`: what limits
the number of Tekton PipelineRuns that execute at once, and in which order the
waiting ones are started, and of what surrounds it: the webhook with its
configuration, and the experiments under `src/experiments` that measure the
controller. TLC checks small instances of the model; TLAPS proves its safety
properties for every instance.

## 1. The system

The cluster's PipelineRun objects are the only durable state. A run is *held
back* by `spec.status: PipelineRunPending`, and *started* by clearing that
field. Each replica of the controller is one process (gunicorn, one worker)
with three background threads and the request threads of the webhook.

| Component | Source | State | Operations |
|---|---|---|---|
| Manager loop | `src/src/workers/manager.py` | locals of a cycle: `limit`, `running`, `pending`, `scheduled`; `_last_eff_tier` | every 5 s, if leader: read the limit, count and sort the cache, patch runs while slots are free, write each start through to the cache; log promotions |
| Watcher loop | `src/src/workers/watcher.py` | `resource_version`, the open stream | list, replace the cache; apply events one by one; after 410 list again, after any other error go on from `resource_version` |
| Cache and queue order | `src/src/cache.py` | `local_cache` under `cache_lock` | `update_cache`; `get_queue_status_from_cache`: count the running, collect and sort the waiting |
| Admission webhook | `src/src/webhook.py` | none of its own | `/mutate` makes a new run Pending (and labels it *managed* if it comes from the dashboard); `/readyz` refuses traffic before the first sync |
| Leader election | `src/src/workers/leader.py` | the Lease object; `state.is_leader` | create, renew, take over, step down |
| Configuration, tiers | `src/src/config.py` | `crd_config` | `load_crd_config`, `determine_tier`, `effective_tier` |
| Shared flags | `src/src/state.py` | `is_leader`, `initial_sync_done` | |
| Process start | `src/docker/gunicorn.conf.py` | | `post_fork` starts the threads |
| Load generator | `src/experiments/common/pr_create.py` | the plan, the entries under way | sends a create request per entry, alone or from a pool of threads, and repeats those that end in a 5xx |
| Campaign, collectors | `src/experiments/run_all.sh`, `s3_priority/run.sh`, `common/cleanup.sh`, `metrics_collect.py`, `resource_collect.py` | three files per round; `FAILED_RUNS` | round after round: clean, load, wait, collect |
| Audit | `common/audit_campaign.py` | none | which files, peaks and minima are missing or bad |
| Tables, report, figures | `common/make_ch4_tables.py`, `make_report.py`, `make_figures.py` | none | counts, medians, exact tests, averages, curves |
| Template trial (D1) | `d1_pending_template/watch_templates.py`, `judge.py` | `first_seen`, the state files | poll templates and load; judge the rounds |
| Metrics, manifests, other scripts, tests | `src/src/metrics.py`, `src/install`, `src/experiments`, `src/tests` | | no behaviour that others read |

How they interact:

- watcher and manager share `local_cache`; the watcher writes it from lists and
  events, the manager reads a snapshot of it and writes single entries back;
- the leader thread writes `is_leader`, the manager reads it once per cycle;
- the watcher sets `initial_sync_done`, which opens the webhook of its replica;
- manager, webhook, Tekton and the users meet in the API server: everybody's
  writes come back to every watcher as events, in order but late;
- replicas share nothing but the API server (runs, GlobalLimit, Lease); each has
  its own `crd_config`, which the process loads when it starts and the manager
  thread replaces in each cycle *as leader*, while webhook threads read it;
- the experiments see the controller only through the API server; a campaign's
  programs talk to each other through exit codes and files.

What is hard here:

- *two copies of one truth.* The manager counts what its cache shows. Between
  its patch and the arrival of the patch's event the cache is right only
  because the manager wrote into it, and the watcher may write over that;
- *a check long before the act.* Leadership, limit and queue are read once, and
  then patches go out one by one while runs are cancelled, deleted, created
  anew, and the lease changes hands;
- *failures in the middle.* A patch that is refused, a patch that is applied
  but answered by an error, a process that dies between patch and count, a
  watch whose history has expired;
- *order and starvation.* Ageing changes the order while runs wait; late events
  show an old queue;
- *configuration in parts.* One request reads it twice, a cycle reads the object
  anew, a field may be malformed, and most replicas do not reload it at all;
- *results that outlive failures.* A campaign takes days, in several chunks; a
  load, a collector, a cleanup or the campaign itself may die at any point, and
  what it leaves must not pass for a measurement;
- *figures that hide what they are made of.* Medians, maxima, pairs by position
  and windows drop rounds, samples and ties.

What makes the components correct:

- manager: no start takes the number of runs that hold a slot over the limit;
  no run is started twice; nobody but the manager starts a target run; the
  queue drains;
- watcher and cache: a drained cache never misses a run that holds a slot;
- webhook: a run of a foreign creator is held, whatever the cache's state;
- queue order: no run overtakes an older one that is at least as urgent;
- ageing: the effective tier is between the floor and the run's own tier, and
  waiting never makes a run less urgent;
- leader election: a replica begins to lead only when no other leads or is in a
  cycle; a live lease is never stolen; a split leadership ends and a dead
  leader is replaced;
- configuration: a replica works with one published configuration, whole;
- promotion log: what it says happened, once;
- load generator: every entry of the plan has its run or is reported;
- campaign: what the log calls complete has whole files of one attempt that hold
  its whole load; everything else is reported;
- audit, tables, figures, verdict: each says what the records say, under the
  conditions the property spells out.

## 2. Modules

| Module | Contents |
|---|---|
| `EffectiveTier` | `effective_tier` as pure operators |
| `PipelineRun` | the object as the controller sees it, the running/waiting split, the queue order, what the webhook makes of a create request |
| `QueueController` | the state machine: replicas, API server, users; the properties |
| `QueueInvariant` | the inductive invariant of the limit's proof and its parts |
| `StartInvariant` | the inductive invariants of the other proofs about the queue |
| `QueueControllerProofs` | type correctness, the invariant, and the limit theorem |
| `StartOrderProofs` | effective tiers, held runs, order, redundant starts and the drained cache, proved |
| `AdmissionGate` | abstract: what the controller promises of the runs, without caches, watches and leases |
| `GateProofs` | the controller implements the gate, also under the lease protocol itself, proved |
| `MCQueueController` | sets, symmetries and environments for TLC |
| `Leadership` | abstract: what the managers need of any leader election |
| `LeaderElection` | the lease protocol, which implements it; its properties and inductive invariant |
| `LeaderElectionProofs` | the invariant, the refinement and `NoTheft`, proved |
| `MCLeaderElection` | replicas and symmetry for TLC |
| `PromotionLog`, `MCPromotionLog` | the manager's promotion log, beside the steps of `QueueController` |
| `PromotionProofs` | the log is a chain, proved |
| `Admission`, `MCAdmission` | configuration and webhook of all replicas |
| `AdmissionProofs` | whole configurations, held foreigners and tiers by the rules, proved |
| `LoadGenerator` | `pr_create.py`: requests, answers, retries, threads |
| `LoadPlan` | the plan a seed yields, as pure functions |
| `Campaign`, `MCCampaign` | a campaign around the load generator, its files and its audit |
| `CampaignProofs` | loads, campaigns and their audit, proved |
| `Results` | what is computed from sheets of records |
| `Samples` | what is computed from range queries |
| `TemplateTrial` | the watcher and the judge of experiment D1 |
| `ExperimentProofs` | trial, sheets and series, proved |
| `Surroundings`, `MCSurroundings` | the last six parts side by side, for one run |

Definitions whose comment begins with "Mutant" are wrong on purpose: each is
the form a plausible slip would give the definition of that name, and a
property of some run fails when it takes the right one's place. No other
definition uses them.

### The object

An `Object` keeps of a run what the controller looks at: `status` (nothing,
Pending, or one of `CANCEL_STATUSES`), `managed` (the label), `done`
(`is_pipelinerun_finished`), `tier` (the label), `born` (creationTimestamp),
and `src`, the kind of creator the webhook saw, kept for the properties only.
The tier a run gets from the tier rules is chosen freely from `Tiers`.
Whether a key's namespace matches the patterns is the constant `Target`.

### State and actions of `QueueController`

| Variable | In the code |
|---|---|
| `pr`, `limit` | the API server's PipelineRuns and GlobalLimit |
| `isLeader`, `synced`, `cache` | `state.is_leader`, `state.initial_sync_done`, `local_cache` |
| `ahead` | the order of `local_cache`'s keys, of which the stable sort of the queue makes use (`cache.py` 62, 76-108): of each two runs that may be in a queue, which comes first |
| `watch`, `listed`, `stream` | where the watcher thread is; the list response it holds; the events after its `resource_version` |
| `pc`, `lim`, `slots`, `todo` | where the manager thread is; `limit`; `available_slots - scheduled`; what is left of `pending` |
| `clock`, `creates`, `overdue` | the clock of creation timestamps; a bound; see *time* below |

| Action | In the code |
|---|---|
| `WatchList`, `ReplaceCache` | `watcher.py` 25-35, 36-42: a list request and the replacement of the cache are two steps, since the manager may write between them |
| `Deliver`, `Expire` | 44-55; 57-68 |
| `StartCycle` | `manager.py` 110-119: `is_leader`, then `load_crd_config`, whose every error means the default limit |
| `ReadQueue` | 120-147, under `cache_lock` |
| `PatchApplied`, `Ack` | 161-164 and 165-173: two steps, since events, lists, crashes and users come between the API server's write and the reply's processing |
| `PatchFailed`, `PatchReplyLost` | 174-180, without and with effect in the API server |
| `EndCycle` | 150, 183 |
| `BecomeLeader`, `StepDown` | what `leader.py` does to `is_leader` |
| `Restart` | the process dies; `gunicorn.conf.py` `post_fork` |
| `Create` | a create request as `webhook.py` 69-133 answers it |
| `Complete`, `Cancel`, `Delete`, `Release`, `Touch`, `SetLimit`, `Tick` | Tekton, users, other controllers, operators, time |

A manager's patch by name on a run without `spec.status` changes nothing and
makes no event; on any other object it clears the field, and every open watch
gets the event. A stream that ends and is opened again at `resource_version`
leaves no trace in the model.

### The environment

The constant `Env` says which troubles an instance allows. Each is something
the code meets or handles; naming them shows what each property depends on.

| Member | Meaning |
|---|---|
| `lag` | events may stay undelivered past the manager's next cycle |
| `api_error` / `lost_reply` | a start patch is refused / is applied but its reply is an error |
| `crd_error` | the GlobalLimit object cannot be read |
| `expire` | 410 Gone |
| `restart` | a process dies at any point |
| `two_leaders` | the lease fails to keep a second replica from leading |
| `unready` | a create request reaches a replica that has not synced |
| `touch`, `cancel`, `delete`, `release`, `set_limit` | what others do to runs and to the limit |

*Time.* The manager sleeps 5 s between cycles (`manager.py` 183); events arrive
in milliseconds. Without `lag` the model says so: `TimePasses` marks, at the
end of a cycle, what is in each stream as `overdue`, and a manager begins its
next cycle only after its watcher has taken all of that and, if it had synced
once, is streaming again. It is an assumption about the cluster, not something
the code enforces; §4 shows what happens without it. What arrives *during* a
cycle is unconstrained in either case. Likewise a second replica leads only
after the first has stepped down and finished its cycle, unless `two_leaders`:
the code lets a cycle run on after `is_leader` is cleared. That is the guard of
`Leadership!Lead`, and `LeaderElection` shows when the lease provides it.

### `LeaderElection`

One replica's election thread is `Wake` (read the clock, `leader.py` 28), `Read`
(30-31), then `Create` (34-42), `Replace` (renewal and takeover, 56-69) or
`Yield` (75-79), and, when the reply to a write arrives, `Lead` (43-46, 60-73),
`Conflict` (409: 83-90), `NotFound` or `Fail` (any other error, applied or
not: 91-94, `is_leader` stays). Request and reply are two steps, since other
replicas write in between. `fresh` stands for the resourceVersion: a write by
anybody makes what the others have read out of date. `clock` is real time,
`skew` what each replica's own clock adds to it; only `now` is visible to the
code. The manager thread appears as `busy`, from its look at `is_leader` to its
sleep. After a `Crash` the lease stays in the dead pod's name, and `Boot` starts
the process again under the same name (a container restart keeps POD_NAME).

Without `slow` time respects `InTime`: an iteration takes at most `Patience`, and
whoever leads, or is in a cycle, has renewed within `Patience`. The code tries
every 2 s for a lease of 15 s, which leaves room for slow and failing requests,
but it sets no request timeout and does not stop leading when renewals fail with
other errors than 409; `README.md` (section 14) of the controller names both as
limits of its design. So exclusivity is stated under `InTime`, and what
holds without it (`NoTheft`, `SplitEnds`, `Failover`) apart.

### `PromotionLog`

`Detect` is `detect_and_log_promotions` (`manager.py` 62-101), which a cycle calls
with the queue it has just read, so the step is `ReadQueue /\ Detect`. `lastEff`
is `_last_eff_tier`, one table per process, emptied by `RestartLog`; `promo` is
the last line logged for each key. All other steps are those of
`QueueController`.

### `Admission`

Every replica has `config` (`crd_config`), `leading` and `synced`; `crd` is the
GlobalLimit object. `LoadConfig` is `load_crd_config`: all fields or, after any
error, none. `Cycle` is the part of the manager's cycle that reads it, `BootPod`
the load in `post_fork`. A request is answered in two steps, since
`mutate_pipelinerun` copies the configuration twice: `Receive`
(`is_target_namespace`) and `Respond` (the rest, with `Answer`). `DetermineTier`
takes the first rule that matches; a rule's pattern is the set of the values it
matches, the empty one included for `env` rules. `LabelPatch` overwrites labels
the request brought along, but only those it sets.

### `LoadGenerator`, `LoadPlan`, `Campaign`

A request and its answer are one step with several outcomes: granted
(`Created`), refused or granted but answered by a 5xx and tried again (`Retry`),
or raised (`Raise`: the last 5xx, a 4xx, a 409 for a name of the generator's own,
a broken connection). `made` counts the runs of an entry. A serial load dies of
the first failure, a pool's thread reports it. `LoadPlan` computes which requests
a seed yields: the generator's numbers are a given sequence, from which gaps and
environments are drawn in turn.

`Campaign` adds the stages of a round: `Clean` (which may silently leave all runs
behind), `Load`, `LoadEnds`, `Metrics`, `Series`, `Summary`; a failure anywhere
ends the round (`RoundFails`: `set -e` and `run_experiment`). `complete` is what
the log says of rounds that ended well. A collector may die (`Kill`), and so may
`run_all.sh` with all it has started (`Die`); `Leaves` is what they leave: a
collector opens its file and then writes it (`metrics_collect.py` 73-76,
`resource_collect.py` 297-308), so that a CSV may have any of its rows, none
included, and a series or summary may be a part of one. `NewChunk` is a further call of
`run_all.sh`, after the end or the death of the last, with the files as they are or
some of them put aside: whole slots, or only the one file a collector named when it
stopped (`metrics_collect.py` 64-71). `Files` are what the tables take of a
condition; `EnoughFiles` and `PairedFiles` are the audit's sections 1 and 2 and the
unreadable summaries of section 3. The audit counts all files of a folder, also the later
rounds and further scenarios that the tables list apart (`make_ch4_tables.py`
255-292): `Laters` says how many of those a condition's folder holds.

### `Results`, `Samples`, `TemplateTrial`

These are computations: a state is a sheet that grows by a record, or a set of
rounds that grows by a sample, and invariants compare what the scripts compute
with what the records mean. `TemplateTrial` lets the namespace change between
polls that may fail; its state files are enumerated for the judge.

### `Surroundings`

`Admission`, `Campaign`, `Results`, `Samples` and `TemplateTrial` share no state.
`Surroundings` starts one of them (`part`) and leaves the others idle, so that one
run covers them.

## 3. Properties

- `Gated`: the controller implements `AdmissionGate`. There, a run is new, held,
  waiting, running, cancelled or over (`LifeOf` reads that off the API server's
  object), a gate is closed or open with one limit (the `lim` of the replica in a
  cycle, `Cycling`), and `Admit` takes a run out of the queue, once, below that
  limit. A step of the controller is a step of the gate or shows nothing there.
  A run that is cancelled between a cycle's snapshot and its patch is started
  all the same, since the patch clears the cancellation; without "cancelled" in
  the guard of `Admit` the refinement fails.
- `LeaseKept`: what the controller does with `isLeader` and its cycles is what
  `Leadership` allows: the guard `Alone` of `BecomeLeader`, stated apart.
- `AdmitWithinLimit` (action): every start of a target run is a manager's
  patch, and afterwards the runs that hold a slot are no more than the limit
  the cycle works with. A lowered limit preempts nothing.
- `LimitInv`, `OnceInv`, `OrderInv`: inductive invariants of the proofs (§5),
  checked before they are proved.
- `NoRedundantStart` (action): a patch goes only to a run that has not been
  started, by this cycle, another, or another replica.
- `CacheErrsSafely`: once a stream is drained the cache is the store, except
  that an `Ack` after newer events may have left a "started" in it.
- `HeldStaysHeld`: a foreign creator's run is never started.
- `NoOvertaking` (action): a start passes an older waiting run only if `MayPass`
  says so: its tier is the more urgent one, and it was created before the
  older one had waited the `(tier - agingMinTier) * agingIntervalSec` that
  ageing needs to lift it to the floor. Runs of a tier below `agingMinTier` are the exception that
  the controller's README grants tier 0 (251): they may pass for ever.
- `QueueDrains` (liveness): a queued run leaves the queue. It is about finitely
  many runs; that an endless supply of them does not starve an older one is
  what `NoOvertaking` says, up to the same exception.
- `LimitHeld`: what the README of the controller promises outright.
- `LeaseInv`: the inductive invariant of the election's proof.
- `Exclusive`: the election implements `Leadership`.
- `NoTheft` (action): the lease passes to another replica only if, as it then
  stands, it had run out by the time the taker's iteration began.
- `SplitEnds` (liveness): a replica that leads without the lease steps down or
  gets it back.
- `Failover` (liveness): while one replica stays up, a lease that is missing or has
  run out does not remain so with nobody leading. (A takeover whose reply was lost
  leaves a lease that names a replica which does not lead; it counts once it has run out.)
- `PromotionsChain` (action): a logged promotion goes from a tier the run really
  had to its present, smaller one, and starts no higher than the last ended.
- `ConfigIsWhole`: a replica's configuration, and that of a cycle, was published
  as a whole or is the default; a cycle's limit comes from it or is the default.
- `QueuedByRule`: a queued run's tier is what the rules of one published
  configuration give it, whatever labels it brought; it is managed only if such
  a configuration says so, or if it brought the label.
- `ForeignIsHeld`: a run is let through only if some published configuration
  names its creator or leaves its namespace out.
- `LeaderLearns` (liveness): a replica that stays leader learns what is published.
- `EveryReplicaLearns` (liveness): what the controller's README says of all.
- `CampaignTyped`, the type invariant of load and campaign; `LoadAccounted`: every
  entry is still to come, with one thread, made or reported, and made once
  unless a granted request was answered by a failure.
- `CsvIsWholeLoad`: unless a cleanup has failed, a CSV holds runs of one attempt at
  one round only; and a run for every entry of the plan, if the log calls that
  attempt complete (`Logged`).
- `FilesOfOneAttempt`: series and summary beside such a CSV are of that attempt, and
  whole. A CSV that a dying collector has left is kept by later attempts, which
  then stop, and may stand beside files of another one.
- `MissingIsReported`: at the end of a call every slot that is not reported as
  failed has its three files, whole and of this call.
- `AuditedPairsMatch`: when the audit is silent, pairs by position are pairs of
  one seed, and of the same requests if both attempts are logged as complete. It speaks of
  conditions in whose folder no later file makes up for a missing one (`Unhidden`);
  where one does, the pairs shift and the audit says nothing (§6).
- `CountIsExact`, `CommonWindowFair`, `PeaksAreOwn`, `InversionIsReal`,
  `TestsFloor`, `FigureFits`: the maximum of concurrency, success within the
  common window, the latency peak, orders of medians, the two exact tests'
  smallest values, and the promotion figure: its lines are compared with
  `effective_tier` itself, and it counts an arrival from the first of a round, its own
  unless rounds have followed each other within the figure's 1800 s, when
  they run into one.
- `AuditSeesGaps`, `NotReadyIsShown`, `MemoryIsSustained`, `CurveIsCommon`: missing
  peaks, nodes that were not ready, the moving average, the median curve.
- `ReportIsWhatWasSeen`, `VerdictFollowsRounds`: the watcher's state file and its
  polls; the verdict and what each round was expected to show.

## 4. Runs

| Run | Instance | What it shows |
|---|---|---|
| `limit_failover` | 2 replicas, 2 runs, limit 1; refused patches, 410, restarts, touches, cancellations; leadership changes at any time, also in mid-cycle | `LimitInv`, `OnceInv`, `Gated`, `NoRedundantStart` hold |
| `optimistic_write` | 1 replica, 2 target runs and one outside, limit 0 or 1 changing; unbounded `lag`, refusals, restarts, deletions | the write-through alone keeps count and starts right however late the events are, as long as nobody else updates a run that is being started, no list is taken while a patch is under way and no name is used again |
| `cache_faults` | 1 replica, 1 name created twice; every fault, and a clock that moves | `CacheErrsSafely`: for a single key, since entries do not influence each other |
| `queue_order` | 2 runs, both creators, tiers 0 and 2, ageing, `lag`, lost replies, 410, restarts, unready replicas; with the promotion log | `HeldStaysHeld`, `OrderInv`, `NoOvertaking`, `PromotionsChain` |
| `queue_liveness` | 2 runs of tiers 1 and 2, ageing, limit 1; `lag`, refusals, 410, deletions, leadership that comes and goes | `QueueDrains` under `FairSpec` |
| `lease_exclusive` | 3 replicas, skews 0 and 1, lease 2, patience 1; failing requests, lost replies, deaths and restarts | `LeaseInv`, `Exclusive` |
| `lease_faults` | 2 replicas, lease 1; no timing assumption, failing requests, deletions of the lease, deaths and restarts | `NoTheft`, `SplitEnds`, `Failover` |
| `stale_event` | 2 runs, tiers 1 and 2; `lag`, `touch` | violated: `LimitHeld` |
| `lost_reply` | `lost_reply` | violated: `LimitHeld` |
| `held_recreated` | `delete` | violated: `HeldStaysHeld` |
| `surroundings` | 1 replica, 4 specs, 6 requests; 2 conditions × 2 rounds in 2 chunks; sheets of up to 7 records, rounds of up to 6 samples; 2 polls, 4 state files | the properties from `ConfigIsWhole` on, except `EveryReplicaLearns` |
| `standby_config` | 2 replicas, 2 specs, no requests | violated: `EveryReplicaLearns` |

*Bounds.* `MaxClock` bounds the clock, `MaxCreates` the creations of a name,
`MaxLag` the events that others' writes may pile up in a stream (a manager's own
patch is always let through, so that the bound never hides a start). Two runs
against one slot is the smallest contention; a wrong count shows as the second
start. Two replicas are the smallest failover. One undelivered event of others
plus the patches suffices for every order of an event, a list, a patch and its
count, as the mutants and the three violations show; `stale_event` needs two.
Names are interchangeable, and so are replicas (symmetry in the safety runs
only).

For the lease, the shortest durations that tell "over" from "at" the limit
suffice: lease 2, patience 1 and skew 1 meet `Timely` with equality, so that
`>=` for `>` breaks it. Three replicas are a holder and two candidates that
race for its lease. `MaxClock` 6 leaves room for two takeovers in a row;
`lease_faults` needs one (clock 2 with a lease of 1), and at the last clock value
a lease that has not run out never will, which its properties allow for.

For the surroundings: one replica suffices for `Admission`'s safety, since
replicas do not read each other's state; two are needed, and taken, for
`standby_config`. The specs are a new limit, new accounts with a rule that has a
malformed tier, a malformed interval, and other namespaces; a published spec is
not published again. A campaign of two conditions and two seeds is the smallest
in which a missing round shifts a pair; `Unclean` lets cleanups fail only before
the last slot and once, `Fragile` lets collectors die in that slot only (`run_all.sh`
itself may die anywhere), `Asides` lists what an operator puts aside (nothing; the CSV
alone; series and summary; the whole slot), `Laters` has the folder of one condition
hold a later file or none, `MaxChunks` is 2: one repetition on top of old files. The seeds' plans have one and two
entries, with two attempts each. `MaxRecords`, `MaxMoments` and `MaxSeries` bound
the sheets: seven moments are the warm-up, the window and what follows; six
samples are two windows of `Width` 3; three rounds are the smallest with a median
that is none of two. Times are ordinal: what matters is which coincide. `Polls` 2
and `NewRuns` 1 are a poll that saw something and one that failed; four state
files are three live rounds of K and one more.

*Fairness.* Weak for the threads' own steps: they loop and sleep and never
wait for each other except for short locks. Strong for three actions that
others can disable over and over: `StartCycle` (leadership may come and go;
sooner or later the manager wakes while it is leader), `PatchApplied` (the API
server does not refuse the same patch for ever), `Complete` (runs finish, also
when the model's own `MaxLag` bound holds the event back at times). Nothing is assumed of
`StepDown`, `Expire`, `Delete` or refusals; that a cycle with a target patches it, one way or
the other, is weak fairness of the loop's body (`PatchApplied \/ PatchFailed`). In `LeaderElection`, weak for a living
thread's own steps; strong, each for itself, for reads, for writes and for
their replies, which may fail again and again but not always. Nothing brings a
dead process back. In `Admission`, strong for a leader's cycle that reads a
loadable object: the loop comes round every 5 s, and reads do not fail for ever.
The managers' cycles, which the election does not look
at, are left out of its fair specification.

*What the violations say.*

1. `stale_event`. Somebody updates a waiting run; before that event reaches the
   cache the manager starts the run and writes the start through; then the old
   event arrives and `update_cache` puts the Pending object back
   (`cache.py` 62). If the patch's own event takes longer than the pause
   between cycles, the next cycle sees a free slot. It is given away if another
   run sorts before the one put back: in the trace a more urgent one that was created
   meanwhile; ageing can do it too. Otherwise the run keeps its place
   (`cache.py` 62, 78 and 108: the dict keeps its order, the sort is stable), is patched
   once more, and takes up the slot without harm; with runs of one tier and one
   time of creation TLC finds no violation. `manager.py` 142-143 and
   `README.md` 205 say that starts in flight need no counting. With events
   arriving between cycles (`limit_failover`, and the theorem) they do not.
2. `lost_reply`. `manager.py` 174-180 treats every exception as "not started".
   A patch that was applied, with a reply lost on the way, is not counted, and
   the same cycle gives the slot away again: no delay is needed.
3. `held_recreated`. The patch names the run by namespace and name only
   (`manager.py` 161). A run deleted and created again under its name between
   snapshot and patch, this time by a foreign creator, is started although
   `README.md` 111 says the manager never does that.
4. `standby_config`. `load_crd_config` is called when a process starts
   (`gunicorn.conf.py` 32) and by the leader's cycle (`manager.py` 118, behind
   the check of line 112). `README.md` 656 speaks of at most 5 s of delay, and 659
   says that accounts added to `managedSAPatterns` take effect without a
   redeployment. But the webhook of a standby replica, which gets its share of
   the requests, goes on with the configuration it started with: a run of a
   newly added account is held, or queued, depending on which replica answers.

## 5. Proofs

`QueueControllerProofs`, for any number of replicas, runs, tiers and limits,
and any bounds:

- `TypeCorrect`: `Spec => []TypeOK`, in every environment. Types alone are not
  inductive, because `Ack` takes the head of `todo`; `AckHasTarget` (a manager
  that awaits a reply has a target) makes them so.
- `LimitInvariant`: `Spec => []LimitInv`, and
- `AdmitWithinLimitTheorem`: `Spec => AdmitWithinLimit`, both for every
  environment that is `Orderly`: `Reliable`, that is, free of `lag`, `lost_reply`,
  `unready` and `release`, and free of `two_leaders`. The first two are exactly
  what the violations above use; the next two are starts without a manager;
  `two_leaders` gives two managers the same slot.

The steps of the invariant take from the environment that it is `Reliable`, and of
the leadership only that steps are `Leadership`'s (`LimitUnderLease`), so that they
serve with another election as well: see `GateProofs`. Here that is granted by the
guard `Alone` (the lemma `LeadershipTaken`); it is the lease's business to keep it.

The argument. What must not happen is a cycle that counts too few.
`Anchored(o, s, k, b)` says that applying the first *b* events of *s* to *o*
brings run *k* to a running state that the rest of *s* does not take back.
`Tracks`: every run that holds a slot is anchored in every replica's cache (or
list response) and stream, so no start is ever lost, by an expired watch, a
list that overlaps the patch, or a restart. `Settled`: while no cycle is under
way, it is anchored within what is overdue; `EndCycle` establishes that from
`Tracks`, and deliveries keep it. `CountsAll`: hence a cycle that is about to
read the queue finds every such run in its cache (or, before the first sync, finds
no run to start). `SlotsBound`: hence its slots, counted down by each patch,
never exceed the limit less the runs that hold one, and `OneActive`: nobody
else is counting. `WatchStates` ties the watcher's states together. Each
action's step is a lemma; the cardinality steps use the library's facts on
finite sets.

`StartOrderProofs` begins with `effective_tier`, for all integers: an effective
tier is never above the run's own tier and never below the lesser of tier and
floor (`EffTierBounds`); a tier below the floor is never reached by a larger one,
however long that waits (`UrgentStaysAhead`); an older run of the same or a more
urgent tier is at least as urgent (`OlderStaysAhead`); and one that has waited long
enough to reach the floor is at least as urgent as any whose tier is not below it
(`AgedStaysAhead`). `NoOvertaking` rests on the last two. Then, for any number of
replicas, runs and tiers:

- `HeldStaysHeldTheorem`, if nobody releases runs by hand (`release`);
- `NoOvertakingTheorem`, if, besides, no patch is refused (`api_error`): the loop
  goes on to the next run after a refusal (`manager.py` 177), so then it does
  overtake;
- `CacheErrsSafelyTheorem`, in every environment;
- `NoRedundantStartTheorem`, in `Orderly` environments, names used again included.

The first two take `NamesOnce`: runs are not deleted, or no name is created
twice. The violation `held_recreated` shows what happens otherwise. They
allow everything else, two leaders, unbounded lag and lost replies included.

The arguments rest on four invariants (runs check `OrderInv` and `OnceInv`):

- `VersionInv` (a part of `OrderInv`). Caches, list responses and events hold
  copies of different ages, and a cycle decides on one of them long before it acts. Of
  a name that is used once, every copy is a version of one run (`SameRun`: its
  creator, label, tier and birth never change), and a run that still waits has
  one version only; so a target was queued and managed (`Planned`), and a patch
  by name hits the run it was meant for. That a copy of a run that is gone
  proves its name used (`Used`) is what makes it inductive.
- `OrderInv`. `InOrder` is what a start needs: a cycle has every older waiting run that
  it may not pass (`MayPass`) before it. When `ReadQueue` sorts the cache, that
  follows from `OlderStaysAhead` and `AgedStaysAhead` (`NoPassing`), provided the cache
  knows the older run at all.
  Hence `Causal`: whoever knows a run, or is about to by its list or
  stream, knows the older ones that wait, since events come in the order
  of creation and a list is complete; and `Told`: once the watcher has listed, no
  waiting run is missing from both cache and stream. Refusals are excluded because
  they drop a run from the queue of a cycle and leave the younger ones in.
- `SyncInv`. `Converges`: the last undelivered event of a run is its present state,
  or there is none and the cache (or the list that is about to replace it) is
  right but for a status that an `Ack` has written. It says nothing of
  cycles, which is why it holds in every environment.
- `OnceInv`, the counterpart of `LimitInv` for runs that have been started,
  finished or not: `StartsTold`, `StartsSettled` and `StartsRead` say what
  `Tracks`, `Settled` and `CountsAll` say of runs that hold a slot, and
  `TodoUnstarted` that a cycle names each run once and none that was started.
  It contains `LimitInv` for `OneActive`: with a second cycle under way, both
  would have the same run in their queues.

`GateProofs`, for any number of replicas and runs whose names are used once:

- `GateRefinement`: `Spec => Gated`, in `Orderly` environments;
- `UnderLease`: `Spec /\ LeaseKept => Gated /\ AdmitWithinLimit /\ NoRedundantStart`,
  in `Reliable` environments, `two_leaders` included: whatever elects, as long as
  what it does to `isLeader` is a behaviour of `Leadership`;
- `HighAvailability`: `Spec /\ Election!Spec` implies the same, where `Election` is
  `LeaderElection` over the controller's own `isLeader` and cycles, with `Timely`
  as in `LeaseIsExclusive`. Here nothing about who leads is taken for granted:
  the two specifications hold of one behaviour, each step of the election
  thread being a `BecomeLeader`, a `StepDown` or nothing to the controller, each
  `Restart` of a replica that leads a `Crash` of the election's. `Leadership` is what links
  them: the election implements it, the controller builds on it.

The refinement's argument: `OnceInv` gives that one cycle is under way, that its
slots do not exceed what is free, and that its targets have not been started;
`VersionInv` that a target is the run the snapshot saw, so it was queued. Each
action is then one of the gate's (`GateOpens`, `GateCloses`, `GateAdmits`,
`GateArrives`, `GateUpdate`) or leaves the gate's state as it is (`GateQuiet`). A
restart closes the gate if the dead replica was in a cycle, and leaves it open if
another's is under way (`GateRestart`). If names were used twice, a run would come to
life again, which the gate does not know.

`PromotionProofs`: `PromotionsChainTheorem`, for one replica (each has a table of
its own) and runs that are not deleted, for any tiers and ageing. The
invariant `PromotionInv` remembers where the numbers come from: what the table
or the log holds of a run is an effective tier it has had since its creation
(`PastEff`), and the table is never above where the log ends. `EffNowLast`
(effective tiers only fall) then gives the property. The log only watches
(`LogSteps`: its steps are the controller's), so that `VersionInv` carries over.

`LeaderElectionProofs`, for any number of replicas, durations and skews:

- `LeaseInvariant`: `Spec => []LeaseInv`, and
- `LeaseIsExclusive`: `Spec => Exclusive`, in environments that are `Timely`: `InTime`
  holds, nobody deletes the lease, and patience plus the difference of two clocks does
  not exceed the lease;
- `NoTheftTheorem`: `Spec => NoTheft`, in every environment.

The argument of the first two. Whoever leads, is in a cycle, or has just won holds
the lease (`LeaderHolds`), and there is one lease. Another replica's write goes
through only if its copy is the current lease (`FreshCopy`), so the lease it found expired is
the leader's present one; but that one is at most `Patience` old (`Young`), and
no clock makes it look older than its duration. That an
iteration is no longer than `Patience` covers the renewal by an old `now`, a
restarted holder's included. For `NoTheft` the part of it that needs no timing is
enough: `CopyInv`, a copy the API server would accept is the lease as it stands.

`CampaignProofs`, first for the load, for every plan, number of threads and
attempts, and every choice of faults: `LoadIsAccounted`, `LoadSpec => []LoadAccounted`, and
`LoadTypeCorrect`. `LoadAccounted` is not inductive by itself. `Unmade`: without late
refusals an entry has no run while a thread is at it, which is why a retry makes
no second one; `Alone`: a serial load that is alive has had no failure, which is
why one that ends well has sent everything; `Idle`: threads outside the crew have
no entry; `Fewer`: an entry has no more runs than attempts so far.

Then for the campaign: `CampaignTypeCorrect`, `CsvHoldsWholeLoad`, `FilesAreOfOneAttempt`,
`MissingIsAlwaysReported`, `PairsAreOfOneRound`, for any conditions, rounds, plans,
chunks and points of failure. `CampaignInv` follows the runs from the plan to the file:
`ClusterOfPlans` (no run stems from outside its plan, none of the current slot exists
before its load, and unless a cleanup has failed there are no others),
`ClusterOfLoad` (during the load, the runs are those it has made; here
`LoadInv` enters, since a load that ends well has made all), `InTurn` (each
collector runs with the file before it just written, and the log calls nothing
complete that the call has not left behind), `LeftComplete` (a slot the
call has left has its files or is reported), `FilesOfPlans` (what a CSV holds was
planned). Parts of files do no harm to it: whoever leaves one is at a slot that the
log does not call complete (`NotYet`, `LeavesKeeps`), and later attempts find the file and
stop. A file put aside only takes something away. For the pairs, no order of calls is
needed: a condition with as many files as rounds (`EnoughFiles` and `Unhidden`) has
exactly one of each (`RoundsRise`), so position is round (`FilesByRound`), and a file
of a round holds what `CampaignInv` says. That the conditions are distinct is in
`CampaignAssumption`, as `run_all.sh` 149-158 calls each once; the theorems have no
further hypotheses.

`AdmissionProofs`, for any replicas, specs and requests, whatever is malformed or
unreadable: `ConfigStaysWhole`, `ForeignStaysHeld` and `QueuedByRuleTheorem`. The
invariants hold each other up: what the webhook answers was decided by the
configuration it then held, which was published, and what was published once
stays so. For tiers, the lemmas on `DetermineTier` (whose result is a number,
whatever the rules and labels) and on `LabelPatch` (which sets the tier in any case)
link the answer to the object that is stored.

`ExperimentProofs` has what is computed from the records:

- *Trial*: `ReportIsTrue`, for any number of polls, by `WatchInv`: what is kept is that
  of the last poll that was answered, and a first time that of the least poll that saw
  the template. `VerdictIsOfRounds`, for every list of state files with any
  loads: case by case over the verdict (`VerdictCases`), from what a mismatch
  is under each condition (`Odds`).
- *Sheets and series*: all their invariants, for sheets and rounds of any length and
  any constants. Their types (`SheetTyped`, `SeriesTyped`) are invariants of the
  specifications that build them; the rest is about sets and functions of one state,
  and rests on these lemmas:
  - *extremes.* `Min` and `Max` are `CHOOSE`s, so that they exist has to be shown
    (`FiniteLeast`, `FiniteGreatest`, `MinMax`). A greatest element is the one with
    the fewest above it (`FiniteTop`); among those counts there is a least
    (`NatLeast`). `PeakIsOwn`, `CommonWindowIsFair`, `CurvesAreCommon`;
  - *induction as a fact about sets.* The library's induction theorems take an
    operator, which no prover here instantiates. `FiniteInduct` takes a set
    instead: a set `A` that holds {} and whatever it holds without any one element
    holds every finite set. A property becomes `{T \in SUBSET S : ...}`, and one of a state
    is fine there. `NatInduct` is the same for numbers;
  - *sums and folds.* The community modules' folds are a `CHOOSE` of a function that
    satisfies a recursion over subsets. `AddsExists` builds that function by size, and
    `SumIsAdds` shows it is what the fold takes; the rest is induction: any
    element may come first (`SumRest`), and `SumParts`, `SumNegated`, `SumAtMost`,
    `SumLess`, `SumExchanged`. `NotReadyShows` counts node by node (`CountByKind`); in
    `MemorySustained`, Width samples inside Width moments are all of them, so quotient
    and product cancel; `FigureAgrees` needs that times rise with the arrivals and
    where `effective_tier`'s quotient changes (`BonusAtLine`). It takes for granted that
    arrivals of one round are within `RoundGap`, not that rounds are further apart;
  - *medians.* `Ranked(f, k)` is the value with fewer than k below it and at least k not
    above it (`RankedIs`: the least with enough not above), so it is monotone in f
    (`RankedMonotone`) and lies within f's range. `InversionsAreReal`, `GapsAreSeen`;
  - *exact tests.* `TestsHaveFloors`. The given signs and their opposites are two that are as
    extreme; with all differences of one sign, turning any makes the sum smaller
    (`OneWay`), and with one that points the other way, turning that one makes it
    no smaller (`TurnOne`), which is a third. Of the pool, with one condition ahead in
    every pair, any other share swaps some of its values for smaller ones (`PoolApart`,
    by `SumLess` and `SumExchanged`), and both sizes being equal leaves only the mirror image;
  - *the sweep.* `CountsAreExact`. Events are ordered (`EarlierOrders`), the fold takes
    them in that order (`SweptExists`, `SweepIsSwept`), and its maximum is the highest
    level after some event, or 0 (`SweepIs`). Up to a time, starts less ends are the runs
    under way (`LevelIsUnderWay`). A start is preceded by all ends of its time, so that
    the level after it is at most that of its second; and after an end it is at
    most what it was before that second (`SweepCounts`).

The named assumptions on constants (`LeaseAssumption`, `PipelineRunAssumption`,
`ControllerAssumption`, `LoadAssumption`, `AdmissionAssumption`,
`CampaignAssumption`, `TrialAssumption`, `ResultsAssumption`, `SamplesAssumption`)
are all that the proofs take besides the hypotheses named in the theorems.

Only model-checked:

- `QueueDrains`, `SplitEnds`, `Failover`, `LeaderLearns`: liveness under fairness;
- that the four violated properties fail, which is shown by a behaviour.

## 6. Not modelled

- *The lease and the cycles in one run*: `QueueController` takes `Leadership`'s guard
  for granted and `LeaderElection` establishes it. Their composition is proved
  (`HighAvailability`) and not model-checked. A lease without renewTime or with
  another duration, which no replica writes, is left out.
- *Dashboard gauges, metrics*: nothing reads them back.
- *Configuration and queue in one state machine*: in `QueueController` the result
  of `determine_tier` is any member of `Tiers`, `Target` is a constant, and creators
  bring no managed label; `Admission` says what the webhook makes of such
  requests while the configuration changes.
- *Webhook parsing*: a review that cannot be parsed is let through without a
  state change.
- *A patch still travelling when its process dies*: `Restart` falls before or
  after the API server's write, never before a write that comes later.
- *Experiments*: the filters `--only` and `--max-run` of `run_all.sh`, which leave
  slots out of a call; when entries of a plan are due (a serial load keeps their order);
  the wait for the queue before the collection, and so the results of runs that
  are still under way when it is cut short (`run.sh` 27 counts 0 waiting runs when
  kubectl fails); the switches and prerequisites of the single conditions; the
  audit's sections 5 and 6, and tables that repeat a modelled computation on
  other files. `make_report.py` 183-185 looks for conditions under names it never
  summarizes, so that those hypotheses are judged without data: a constant, not
  a behaviour.
- *The remaining scripts, manifests, tests*: one-shot conversions, data, and
  statements of intent.

An observation beside the properties: an `Ack` that follows the deletion and
re-creation of its run marks the *new* waiting run as running in the cache
(`manager.py` 172-173). The slot is then counted as taken, and the run is not
in the queue, until an event of that name or a new list; `CacheErrsSafely`
describes exactly that error, and it never lets a run too many start. With no
further event, and one slot, it is the end of the queue: the entry stays in the count, and neither
this run nor those behind it start until the process restarts, another replica
leads or the watch expires. TLC shows that for `queue_liveness` with `MaxCreates` 2, so
the run uses each name once; in a cluster, somebody's next update of the run
heals it.

Others, met while modelling. A run created again under a used name inherits the
last tier of its predecessor in the promotion log when no cycle came between, and
a replica that leads again has its old table: `PromotionsChain` is about fresh
names and one process. Table 4-3 counts a tier without a run as 0, which can make
an inversion up (`InversionIsReal` excludes it there). `_calc_max_concurrent` and
the report fall below the tables' count when a run ended without ever starting
(`CountIsExact` says so). A query that failed leaves no key in the summary, and
the audit's third section looks only at keys. With no live round of P and V the
judge's "complete" rests on K alone. Table 4-3's order of medians presumes a
run of each tier in every round. The latency peak stands for a p99 with few requests
per window, which is a maximum; nothing is said of the p50.

What the audit does not catch. It counts runs 6 to 8, and all scenarios of a folder,
against the number the tables need of runs 1 to 5 (or 15): with them, run 3 may be
missing, the audit is silent, and `paired_test` pairs seed 4 with seed 3. A CSV that a
dying collector has left with some of its rows passes if series and summary of another
attempt stand beside it, for instance after the operator has put the named one aside.
A run that a late answer made twice is a row more. The log's "complete" would tell,
but the audit does not read it. The properties therefore speak of entries, not of
runs, and of attempts that the log calls complete.

## 7. What could come next

1. What a bounded overlap of two leaders costs in runs over the limit: a
   composition of both specifications for TLC, small, with `slow` allowed.
2. Liveness of the gate (a waiting run gets through) as a property of the abstract
   module, beside `QueueDrains`.
3. `Gated` with names that are used again: the gate would have to let a run come to
   life anew, and tell the runs of one name apart.
