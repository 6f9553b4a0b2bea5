--------------------------- MODULE QueueController ---------------------------
(***************************************************************************)
(* The tekton queue controller: per replica a watcher thread that copies   *)
(* the cluster's PipelineRuns into a cache (src/src/workers/watcher.py)    *)
(* and a manager thread that, while its replica is the leader, starts      *)
(* queued runs as long as the cache shows free slots                       *)
(* (src/src/workers/manager.py); around them the API server, the admission *)
(* webhook, Tekton and the users.                                          *)
(*                                                                         *)
(* Env names the behaviours of the environment a configuration allows:     *)
(*   "lag"         watch events may be delayed past the manager's next     *)
(*                 cycle; without it every event is delivered, and a       *)
(*                 broken watch re-listed, during the 5 s between cycles   *)
(*   "api_error"   the API server refuses a start patch                    *)
(*   "lost_reply"  a start patch is applied but its reply is an error      *)
(*   "crd_error"   the GlobalLimit object cannot be read                   *)
(*   "expire"      the watch's resourceVersion expires (410 Gone)          *)
(*   "restart"     a replica's process dies and is started again           *)
(*   "two_leaders" the lease does not keep a second replica from leading   *)
(*   "unready"     a create request reaches a replica before its first sync*)
(*   "touch"       somebody else updates fields the controller ignores     *)
(*   "cancel" "delete" "release"  a user cancels, deletes or un-pauses     *)
(*   "set_limit"   an operator changes maxPipelines                        *)
(***************************************************************************)
EXTENDS PipelineRun

CONSTANTS
  Replica, Limits, DefaultLimit, Env,
  MaxClock,   \* bound of the model: last creation time
  MaxCreates, \* bound of the model: creations per name
  MaxLag      \* bound of the model: undelivered events at which the
              \* environment waits

EnvKinds == {"lag", "api_error", "lost_reply", "crd_error", "expire", "restart",
             "two_leaders", "unready", "touch", "cancel", "delete", "release",
             "set_limit"}

ASSUME ControllerAssumption ==
  /\ IsFiniteSet(Replica)
  /\ Limits \subseteq Int
  /\ DefaultLimit \in Int
  /\ Env \subseteq EnvKinds
  /\ MaxClock \in Nat /\ MaxCreates \in Nat /\ MaxLag \in Nat

VARIABLES
  pr,       \* the PipelineRuns in the API server
  creates,  \* how often each name has been created (bound only)
  limit,    \* maxPipelines of the GlobalLimit object
  clock,    \* the clock creation timestamps are taken from
  isLeader, \* state.is_leader of each replica
  synced,   \* state.initial_sync_done
  cache,    \* local_cache
  ahead,    \* the order of its keys: of each two, which comes first in the dict
  watch,    \* watcher thread: about to list, about to replace the cache, streaming
  listed,   \* the list response the watcher holds
  stream,   \* events after its resourceVersion, not yet delivered
  overdue,  \* how many of them are older than the latest end of a cycle
  pc,       \* manager thread: idle, read, loop or ack
  lim,      \* the limit the cycle uses
  slots,    \* available_slots - scheduled
  todo      \* what is left of the cycle's sorted queue

envVars   == <<pr, creates, limit, clock>>
watchVars == <<synced, cache, ahead, watch, listed, stream, overdue>>
cycleVars == <<lim, slots, todo>>
vars      == <<envVars, isLeader, watchVars, pc, cycleVars>>

Store == [PR -> Object \cup {Absent}]
Event == [key: PR, obj: Object \cup {Absent}]  \* Absent: a DELETED event

TypeOK ==
  /\ pr \in Store
  /\ creates \in [PR -> 0..MaxCreates]
  /\ limit \in Limits
  /\ clock \in 0..MaxClock
  /\ isLeader \in [Replica -> BOOLEAN]
  /\ synced \in [Replica -> BOOLEAN]
  /\ cache \in [Replica -> Store]
  /\ ahead \in [Replica -> SUBSET (PR \X PR)]
  /\ watch \in [Replica -> {"list", "replace", "stream"}]
  /\ listed \in [Replica -> Store]
  /\ stream \in [Replica -> Seq(Event)]
  /\ overdue \in [Replica -> Nat]
  /\ pc \in [Replica -> {"idle", "read", "loop", "ack"}]
  /\ lim \in [Replica -> Int]
  /\ slots \in [Replica -> Int]
  /\ todo \in [Replica -> Seq(PR)]

Nothing == [k \in PR |-> Absent]

Init ==
  /\ pr = Nothing
  /\ creates = [k \in PR |-> 0]
  /\ limit \in Limits
  /\ clock = 0
  /\ isLeader = [r \in Replica |-> FALSE]
  /\ synced = [r \in Replica |-> FALSE]
  /\ cache = [r \in Replica |-> Nothing]
  /\ ahead = [r \in Replica |-> {}]
  /\ watch = [r \in Replica |-> "list"]
  /\ listed = [r \in Replica |-> Nothing]
  /\ stream = [r \in Replica |-> <<>>]
  /\ overdue = [r \in Replica |-> 0]
  /\ pc = [r \in Replica |-> "idle"]
  /\ lim = [r \in Replica |-> 0]
  /\ slots = [r \in Replica |-> 0]
  /\ todo = [r \in Replica |-> <<>>]

(***************************************************************************)
(* The API server                                                          *)
(***************************************************************************)

\* Write object o under key k and send the event to every open watch.
Write(k, o) ==
  /\ pr' = [pr EXCEPT ![k] = o]
  /\ stream' = [r \in Replica |->
                  IF watch[r] = "list" THEN stream[r]
                  ELSE Append(stream[r], [key |-> k, obj |-> o])]

\* The patch {spec: {status: null}}, by name. On an object that has no
\* spec.status it changes nothing, and the API server sends no event.
Start(k) ==
  /\ pr[k] # Absent
  /\ IF pr[k].status = "none" THEN UNCHANGED <<pr, stream>>
     ELSE Write(k, [pr[k] EXCEPT !.status = "none"])

\* Time passes between cycles: whatever is in the streams now will have been
\* delivered before a manager starts its next cycle.
TimePasses(streams) ==
  overdue' = [r \in Replica |-> IF "lag" \in Env THEN 0 ELSE Len(streams[r])]

(***************************************************************************)
(* Leadership: what src/src/workers/leader.py does to state.is_leader. The *)
(* lease keeps a replica from leading until the former leader has stepped  *)
(* down and finished its cycle (Exclusive of module LeaderElection), unless *)
(* "two_leaders".                                                          *)
(***************************************************************************)
Alone(r) == \A s \in Replica \ {r} : ~isLeader[s] /\ pc[s] = "idle"

BecomeLeader(r) ==
  /\ ~isLeader[r]
  /\ Alone(r) \/ "two_leaders" \in Env
  /\ isLeader' = [isLeader EXCEPT ![r] = TRUE]
  /\ UNCHANGED <<envVars, watchVars, pc, cycleVars>>

StepDown(r) ==
  /\ isLeader[r]
  /\ isLeader' = [isLeader EXCEPT ![r] = FALSE]
  /\ UNCHANGED <<envVars, watchVars, pc, cycleVars>>

(***************************************************************************)
(* The watcher thread                                                      *)
(***************************************************************************)

\* The list request: the response is a snapshot, and the resourceVersion it
\* carries is where the stream will start.
WatchList(r) ==
  /\ watch[r] = "list"
  /\ listed' = [listed EXCEPT ![r] = pr]
  /\ watch' = [watch EXCEPT ![r] = "replace"]
  /\ UNCHANGED <<envVars, isLeader, synced, cache, ahead, stream, overdue, pc, cycleVars>>

\* The runs whose place in the dict matters: one that is not managed, or that is
\* cancelled or finished, is never found waiting again.
MayWait(o)    == o # Absent /\ o.managed /\ ~o.done /\ o.status # "Cancelled"
Placed(store) == {k \in PR : MayWait(store[k])}

\* The orders in which a list may bring its keys: any, since names stand for
\* themselves. (That all lists have the same order, by name, is left out.)
ListOrders(store) ==
  {{<<q[p[1]], q[p[2]]>> : p \in {x \in (DOMAIN q) \X (DOMAIN q) : x[1] < x[2]}} :
     q \in SetToSeqs(Placed(store))}

\* Mutant: update() without clear().
ReplaceCacheMerging(r) ==
  /\ watch[r] = "replace"
  /\ LET merged == [k \in PR |-> IF listed[r][k] = Absent THEN cache[r][k] ELSE listed[r][k]]
     IN  /\ cache' = [cache EXCEPT ![r] = merged]
         /\ \E order \in ListOrders(merged) : ahead' = [ahead EXCEPT ![r] = order]
  /\ listed' = [listed EXCEPT ![r] = Nothing]
  /\ synced' = [synced EXCEPT ![r] = TRUE]
  /\ watch' = [watch EXCEPT ![r] = "stream"]
  /\ UNCHANGED <<envVars, isLeader, stream, overdue, pc, cycleVars>>

\* clear() and update() under cache_lock, then initial_sync_done.
ReplaceCache(r) ==
  /\ watch[r] = "replace"
  /\ cache' = [cache EXCEPT ![r] = listed[r]]
  /\ listed' = [listed EXCEPT ![r] = Nothing]
  /\ \E order \in ListOrders(listed[r]) : ahead' = [ahead EXCEPT ![r] = order]
  /\ synced' = [synced EXCEPT ![r] = TRUE]
  /\ watch' = [watch EXCEPT ![r] = "stream"]
  /\ UNCHANGED <<envVars, isLeader, stream, overdue, pc, cycleVars>>

\* Whatever the event says replaces the entry, ADDED or MODIFIED, in its place in
\* the dict; a new key comes last; DELETED removes it.
UpdateCache(r, e) ==
  /\ cache' = [cache EXCEPT ![r][e.key] = e.obj]
  /\ ahead' = [ahead EXCEPT ![r] =
       IF ~MayWait(e.obj)               THEN {p \in @ : e.key \notin {p[1], p[2]}}
       ELSE IF cache[r][e.key] = Absent THEN @ \cup (Placed(cache[r]) \X {e.key})
       ELSE @]

\* One event of the stream. The stream ends and is opened again where it ended
\* (timeout, broken connection) without a trace in this model.
Deliver(r) ==
  /\ watch[r] = "stream" /\ stream[r] # <<>>
  /\ UpdateCache(r, Head(stream[r]))
  /\ stream' = [stream EXCEPT ![r] = Tail(@)]
  /\ overdue' = [overdue EXCEPT ![r] = IF @ = 0 THEN 0 ELSE @ - 1]
  /\ UNCHANGED <<envVars, isLeader, synced, watch, listed, pc, cycleVars>>

\* Mutant: after 410 the watch goes on from the present, without a new list.
ExpireResumed(r) ==
  /\ "expire" \in Env
  /\ watch[r] = "stream"
  /\ stream' = [stream EXCEPT ![r] = <<>>]
  /\ overdue' = [overdue EXCEPT ![r] = 0]
  /\ UNCHANGED <<envVars, isLeader, synced, cache, ahead, watch, listed, pc, cycleVars>>

\* 410 Gone: the undelivered events are lost and the watcher lists again. Any
\* other error keeps the resourceVersion, and so the stream, as it is.
Expire(r) ==
  /\ "expire" \in Env
  /\ watch[r] = "stream"
  /\ watch' = [watch EXCEPT ![r] = "list"]
  /\ stream' = [stream EXCEPT ![r] = <<>>]
  /\ overdue' = [overdue EXCEPT ![r] = 0]
  /\ UNCHANGED <<envVars, isLeader, synced, cache, ahead, listed, pc, cycleVars>>

(***************************************************************************)
(* The manager thread                                                      *)
(***************************************************************************)

\* The watcher has kept up with everything older than the last cycle. Before
\* the first sync nothing holds the manager back.
WatchKeptUp(r) == overdue[r] = 0 /\ (synced[r] => watch[r] = "stream")

\* Mutant: no look at is_leader.
StartCycleUnled(r) ==
  /\ pc[r] = "idle"
  /\ "lag" \in Env \/ WatchKeptUp(r)
  /\ lim' = [lim EXCEPT ![r] = limit]
  /\ pc' = [pc EXCEPT ![r] = "read"]
  /\ UNCHANGED <<envVars, isLeader, watchVars, slots, todo>>

\* load_crd_config: an error of any kind makes the cycle use the default.
LoadLimit == {limit} \cup (IF "crd_error" \in Env THEN {DefaultLimit} ELSE {})

\* The only look at is_leader in a cycle, then the limit.
StartCycle(r) ==
  /\ pc[r] = "idle" /\ isLeader[r]
  /\ "lag" \in Env \/ WatchKeptUp(r)
  /\ \E n \in LoadLimit : lim' = [lim EXCEPT ![r] = n]
  /\ pc' = [pc EXCEPT ![r] = "read"]
  /\ UNCHANGED <<envVars, isLeader, watchVars, slots, todo>>

\* get_queue_status_from_cache, under cache_lock; the lock is then released
\* and the rest of the cycle works on this snapshot.
ReadQueue(r) ==
  /\ pc[r] = "read"
  /\ slots' = [slots EXCEPT ![r] = lim[r] - Cardinality(Running(cache[r]))]
  /\ \E q \in QueueOrders(cache[r], ahead[r], clock) : todo' = [todo EXCEPT ![r] = q]
  /\ pc' = [pc EXCEPT ![r] = "loop"]
  /\ UNCHANGED <<envVars, isLeader, watchVars, lim>>

NextTarget(r) == pc[r] = "loop" /\ todo[r] # <<>> /\ slots[r] > 0
DropTarget(r) == todo' = [todo EXCEPT ![r] = Tail(@)]

PatchApplied(r) ==
  /\ NextTarget(r)
  /\ Start(Head(todo[r]))
  /\ pc' = [pc EXCEPT ![r] = "ack"]
  /\ UNCHANGED <<creates, limit, clock, isLeader, synced, cache, ahead, watch, listed,
                 overdue, cycleVars>>

WriteThrough(r, k) ==
  cache' = IF cache[r][k] = Absent THEN cache
           ELSE [cache EXCEPT ![r][k].status = "none"]

AckDone(r) ==
  /\ pc[r] = "ack"
  /\ DropTarget(r)
  /\ pc' = [pc EXCEPT ![r] = "loop"]
  /\ UNCHANGED <<envVars, isLeader, synced, ahead, watch, listed, stream, overdue, lim>>

\* Mutants: the start is not counted; the cache is not written; the cache is
\* written without looking whether the run is still in it.
AckUncounted(r) == AckDone(r) /\ WriteThrough(r, Head(todo[r])) /\ UNCHANGED slots
AckUnwritten(r) == AckDone(r) /\ slots' = [slots EXCEPT ![r] = @ - 1] /\ UNCHANGED cache
AckInserting(r) ==
  /\ AckDone(r)
  /\ slots' = [slots EXCEPT ![r] = @ - 1]
  /\ LET k == Head(todo[r])
     IN  cache' = [cache EXCEPT ![r][k] =
                     IF @ = Absent THEN [status |-> "none"] ELSE [@ EXCEPT !.status = "none"]]

\* After the reply: count the start and write it through to the cache.
Ack(r) ==
  /\ AckDone(r)
  /\ slots' = [slots EXCEPT ![r] = @ - 1]
  /\ WriteThrough(r, Head(todo[r]))

\* An exception: the loop continues with the next target and counts nothing.
PatchFailed(r) ==
  /\ NextTarget(r)
  /\ pr[Head(todo[r])] = Absent \/ "api_error" \in Env
  /\ DropTarget(r)
  /\ UNCHANGED <<envVars, isLeader, watchVars, pc, lim, slots>>

\* The same exception, of a patch the API server did apply.
PatchReplyLost(r) ==
  /\ NextTarget(r)
  /\ "lost_reply" \in Env
  /\ Start(Head(todo[r]))
  /\ DropTarget(r)
  /\ UNCHANGED <<creates, limit, clock, isLeader, synced, cache, ahead, watch, listed,
                 overdue, pc, lim, slots>>

\* Nothing left to start, or no slot; sleep. (The cycle's local variables are
\* dead here: the model clears them.)
EndCycle(r) ==
  /\ pc[r] = "loop"
  /\ todo[r] = <<>> \/ slots[r] <= 0
  /\ pc' = [pc EXCEPT ![r] = "idle"]
  /\ lim' = [lim EXCEPT ![r] = 0]
  /\ slots' = [slots EXCEPT ![r] = 0]
  /\ todo' = [todo EXCEPT ![r] = <<>>]
  /\ TimePasses(stream)
  /\ UNCHANGED <<envVars, isLeader, synced, cache, ahead, watch, listed, stream>>

\* The process dies, between any two steps of its threads, and post_fork
\* starts them afresh: nothing is kept.
Restart(r) ==
  /\ "restart" \in Env
  /\ isLeader' = [isLeader EXCEPT ![r] = FALSE]
  /\ synced' = [synced EXCEPT ![r] = FALSE]
  /\ cache' = [cache EXCEPT ![r] = Nothing]
  /\ ahead' = [ahead EXCEPT ![r] = {}]
  /\ watch' = [watch EXCEPT ![r] = "list"]
  /\ listed' = [listed EXCEPT ![r] = Nothing]
  /\ stream' = [stream EXCEPT ![r] = <<>>]
  /\ TimePasses(stream')
  /\ pc' = [pc EXCEPT ![r] = "idle"]
  /\ lim' = [lim EXCEPT ![r] = 0]
  /\ slots' = [slots EXCEPT ![r] = 0]
  /\ todo' = [todo EXCEPT ![r] = <<>>]
  /\ UNCHANGED envVars

(***************************************************************************)
(* Users, Tekton and the admission webhook                                 *)
(***************************************************************************)
Room == \A r \in Replica : Len(stream[r]) < MaxLag

localVars == <<isLeader, synced, cache, ahead, watch, listed, overdue, pc, cycleVars>>

\* Somebody other than the controller writes object o under key k.
Update(k, o) == Room /\ Write(k, o) /\ UNCHANGED <<creates, limit, clock, localVars>>

\* A create request, answered by the webhook of a ready replica: /readyz
\* refuses traffic until the first sync, but only what the kubelet has seen.
Create(k, src, tier, r) ==
  /\ pr[k] = Absent /\ creates[k] < MaxCreates /\ Room
  /\ synced[r] \/ "unready" \in Env
  /\ Write(k, Mutate(k, src, tier, synced[r], clock))
  /\ creates' = [creates EXCEPT ![k] = @ + 1]
  /\ UNCHANGED <<limit, clock, localVars>>

Live(k) == pr[k] # Absent /\ ~pr[k].done

Complete(k) == Live(k) /\ pr[k].status # "Pending"
               /\ Update(k, [pr[k] EXCEPT !.done = TRUE])
Touch(k)    == "touch" \in Env /\ Live(k) /\ Update(k, pr[k])
Cancel(k)   == "cancel" \in Env /\ Live(k) /\ pr[k].status # "Cancelled"
               /\ Update(k, [pr[k] EXCEPT !.status = "Cancelled"])
Delete(k)   == "delete" \in Env /\ pr[k] # Absent /\ Update(k, Absent)
Release(k)  == "release" \in Env /\ Live(k) /\ pr[k].status = "Pending"
               /\ Update(k, [pr[k] EXCEPT !.status = "none"])

SetLimit(n) ==
  /\ "set_limit" \in Env /\ n # limit
  /\ limit' = n
  /\ UNCHANGED <<pr, creates, clock, isLeader, watchVars, pc, cycleVars>>

Tick ==
  /\ clock < MaxClock
  /\ clock' = clock + 1
  /\ UNCHANGED <<pr, creates, limit, isLeader, watchVars, pc, cycleVars>>

-----------------------------------------------------------------------------
Watcher(r) == WatchList(r) \/ ReplaceCache(r) \/ Deliver(r) \/ Expire(r)
Manager(r) == \/ StartCycle(r) \/ ReadQueue(r) \/ PatchApplied(r) \/ Ack(r)
              \/ PatchFailed(r) \/ PatchReplyLost(r) \/ EndCycle(r)
User(k)    == \/ Complete(k) \/ Touch(k) \/ Cancel(k) \/ Delete(k) \/ Release(k)
              \/ \E src \in Sources, tier \in Tiers, r \in Replica :
                   Create(k, src, tier, r)

Next ==
  \/ \E r \in Replica : \/ BecomeLeader(r) \/ StepDown(r) \/ Restart(r)
                        \/ Watcher(r) \/ Manager(r)
  \/ \E k \in PR : User(k)
  \/ \E n \in Limits : SetLimit(n)
  \/ Tick

Spec == Init /\ [][Next]_vars

\* What the managers need of the election: see module Leadership.
Leads == INSTANCE Leadership WITH busy <- [r \in Replica |-> pc[r] # "idle"]
LeaseKept == Leads!Spec

(***************************************************************************)
(* Fairness: the threads keep running and runs finish. A manager thread    *)
(* that looks at is_leader every 5 s finds it set sooner or later (SF),    *)
(* and the API server does not refuse a patch for ever (SF).               *)
(***************************************************************************)
FairSpec ==
  /\ Spec
  /\ \A r \in Replica :
       /\ WF_vars(BecomeLeader(r)) /\ WF_vars(WatchList(r))
       /\ WF_vars(ReplaceCache(r)) /\ WF_vars(Deliver(r))
       /\ SF_vars(StartCycle(r)) /\ WF_vars(ReadQueue(r)) /\ WF_vars(Ack(r))
       /\ WF_vars(EndCycle(r)) /\ SF_vars(PatchApplied(r))
       /\ WF_vars(PatchApplied(r) \/ PatchFailed(r))
  /\ \A k \in PR : SF_vars(Complete(k))

(***************************************************************************)
(* Properties                                                              *)
(***************************************************************************)

\* Every start of a target run is a manager's patch, and the runs that then
\* hold a slot are no more than the limit that manager's cycle works with
\* (manager.py 145-169: the cached count, less what the cycle has started).
\* A lowered limit stops further starts and preempts nothing.
AdmitWithinLimit ==
  [][\A k \in Target : ~Occupies(pr[k]) /\ Occupies(pr[k]') =>
       \E r \in Replica : /\ pc[r] = "loop" /\ pc'[r] = "ack"
                          /\ Cardinality(Running(pr')) <= lim[r]]_vars

\* README: the number of runs executing at once never exceeds maxPipelines.
LimitHeld == Cardinality(Running(pr)) <= limit

\* The life of a target run, as the gate sees it.
LifeOf(k) ==
  LET o == pr[k]
  IN  CASE o = Absent               -> IF creates[k] = 0 THEN "new" ELSE "over"
        [] o # Absent /\ o.done     -> "over"
        [] Occupies(o)              -> "running"
        [] Queued(o)                -> "waiting"
        [] OTHER -> IF o.managed THEN "cancelled"
                    ELSE IF o.status = "Pending" THEN "held" ELSE "over"

Cycling == {r \in Replica : pc[r] # "idle"}

\* Seen from the runs, the controller is the gate: cycles of whichever replicas
\* open it one at a time, each with the limit it has read, and a run gets through
\* only out of the queue, once, and below that limit (manager.py 112-183;
\* cache.py 67-109; webhook.py 94-101).
Gate == INSTANCE AdmissionGate WITH
          Run      <- Target,
          Fallback <- IF "crd_error" \in Env THEN {DefaultLimit} ELSE {},
          gate     <- {lim[r] : r \in Cycling},
          life     <- [k \in Target |-> LifeOf(k)]
Gated == Gate!Spec

\* A patch only ever goes to a run that is still waiting: no cycle starts what
\* another cycle, of this or of another replica, has started before
\* (manager.py 161; cache.py 87-92).
NoRedundantStart ==
  [][\A r \in Replica : pc[r] = "loop" /\ pc'[r] = "ack" =>
       pr[Head(todo[r])].status # "none"]_vars

\* Once a stream is drained, the cache is the API server's store, save that an
\* ack (manager.py 170-173) that came after newer events may have left a
\* status "none" in it. So the cache can count a slot that is free, never miss
\* one that is held, whatever was lost, repeated or restarted before.
CacheErrsSafely ==
  \A r \in Replica : watch[r] = "stream" /\ stream[r] = <<>> =>
    \A k \in PR : \/ cache[r][k] = pr[k]
                  \/ /\ pr[k] # Absent
                     /\ cache[r][k] = [pr[k] EXCEPT !.status = "none"]

\* A run of a foreign creator in a target namespace is held: no manager ever
\* starts it (webhook.py 94-101; README 2.1).
HeldStaysHeld ==
  \A k \in Target : pr[k] # Absent /\ pr[k].src = "other" => pr[k].status # "none"

\* Which younger runs p may start before a waiting run o: none of its own or of a
\* less urgent tier; and of the more urgent ones, unless they are below the floor
\* of ageing, only those created before o has waited (tier - agingMinTier) intervals.
MayPass(p, o) ==
  /\ o.tier > p.tier
  /\ AgingInterval > 0 /\ p.tier >= AgingMinTier =>
       p.born - o.born < (o.tier - AgingMinTier) * AgingInterval

\* No run is overtaken by others, whichever events are late, lost with an expired
\* watch or seen again after a restart; so of the runs that may overtake it,
\* those of tiers below the floor excepted, there is an end (cache.py 94-108,
\* config.py 140-144; README 2.2 and 4.2: FIFO within a tier, ageing against
\* starvation, protection of tier 0). A refused patch would be another
\* exception: the loop goes on to the next run.
NoOvertaking ==
  [][\A j, k \in Target :
       /\ Queued(pr[k]) /\ Occupies(pr[k]')
       /\ Queued(pr[j]) /\ pr[j].born < pr[k].born
       => MayPass(pr[k], pr[j])]_vars

\* No run is left behind in the queue: whatever events are late or lost, whatever
\* patches are refused, leadership that comes and goes, and slots that were
\* counted as taken too long. Provided that runs finish and the API server
\* accepts a start patch in the end; and of finitely many runs, the more urgent
\* ones that come later included (an endless supply of those is NoOvertaking's).
QueueDrains == \A k \in Target : Queued(pr[k]) ~> ~Queued(pr[k])

=============================================================================
