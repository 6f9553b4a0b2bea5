----------------------------- MODULE PipelineRun -----------------------------
(***************************************************************************)
(* What the controller reads of a PipelineRun object: how it counts        *)
(* against the limit, when it is in the queue, and in which order the      *)
(* queue is served (src/src/cache.py); and what the admission webhook      *)
(* makes of a new one (src/src/webhook.py).                                *)
(***************************************************************************)
EXTENDS SequencesExt, EffectiveTier

CONSTANTS
  PR,            \* namespace/name keys
  Target,        \* the keys whose namespace matches a namespacePattern
  Absent,        \* stands for "no object of that name"
  Sources,       \* kinds of creators: "dashboard" matches managedSAPatterns, "other" not
  Tiers,         \* the tiers determine_tier can return
  AgingInterval, \* agingIntervalSec
  AgingMinTier   \* agingMinTier

Status == {"none", "Pending", "Cancelled"}
          \* spec.status; "Cancelled" is any member of CANCEL_STATUSES

Object == [status: Status, managed: BOOLEAN, done: BOOLEAN,
           tier: Tiers, born: Nat, src: Sources]

ASSUME PipelineRunAssumption ==
  /\ IsFiniteSet(PR)
  /\ Target \subseteq PR
  /\ Absent \notin Object
  /\ Sources \subseteq {"dashboard", "other"}
  /\ Tiers \subseteq Int
  /\ AgingInterval \in Int
  /\ AgingMinTier \in Int

(***************************************************************************)
(* The three-way split of get_queue_status_from_cache: a finished or       *)
(* cancelled run is neither; any other run that is not Pending holds a     *)
(* slot; a Pending one is in the queue if it carries the managed label.    *)
(***************************************************************************)
OccupiesForEver(o) == o # Absent /\ o.status = "none"
                      \* mutant: completionTime and conditions are not looked at
Occupies(o) == o # Absent /\ ~o.done /\ o.status = "none"
QueuedUnlabelled(o) == o # Absent /\ ~o.done /\ o.status = "Pending"
                       \* mutant: the managed label is not looked at
Queued(o)   == o # Absent /\ ~o.done /\ o.status = "Pending" /\ o.managed

Running(store) == {k \in Target : Occupies(store[k])}
Waiting(store) == {k \in Target : Queued(store[k])}

(***************************************************************************)
(* Queue order: (effective tier, creationTimestamp), ascending. Python's   *)
(* sort is stable: it leaves equal keys in the order of the cache's dict,  *)
(* where the pairs in ahead have their first before their second.          *)
(***************************************************************************)
BeforeByTierOnly(a, b, now) ==  \* mutant: no creationTimestamp in the key
  EffTier(a.tier, now - a.born, AgingInterval, AgingMinTier)
    < EffTier(b.tier, now - b.born, AgingInterval, AgingMinTier)

Before(a, b, now) ==
  LET Eff(o) == EffTier(o.tier, now - o.born, AgingInterval, AgingMinTier)
  IN  \/ Eff(a) < Eff(b)
      \/ Eff(a) = Eff(b) /\ a.born < b.born

QueueOrders(store, ahead, now) ==
  {q \in SetToSeqs(Waiting(store)) : \A i, j \in DOMAIN q : i < j =>
     /\ ~Before(store[q[j]], store[q[i]], now)
     /\ Before(store[q[i]], store[q[j]], now) \/ <<q[i], q[j]>> \in ahead}

(***************************************************************************)
(* The object the API server stores for a create request that a webhook    *)
(* answers: outside the target namespaces it passes through; from a        *)
(* foreign creator it is held without the managed label, whatever the      *)
(* state of the cache; from the dashboard it passes through before the     *)
(* replica's first sync and is queued after it. (A passed-through run has  *)
(* no tier label, which nothing reads: it is never in the queue.) Creators *)
(* bring no managed label of their own here; Admission models those who do *)
(* and the configuration behind src and tier.                              *)
(***************************************************************************)
Mutate(k, src, tier, synced, now) ==
  LET held   == k \in Target /\ (src = "other" \/ synced)
      queued == held /\ src = "dashboard"
  IN  [status |-> IF held THEN "Pending" ELSE "none", managed |-> queued,
       done |-> FALSE, tier |-> tier, born |-> now, src |-> src]

=============================================================================
