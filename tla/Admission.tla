------------------------------- MODULE Admission -------------------------------
(***************************************************************************)
(* The configuration of the controller and what the admission webhook      *)
(* makes of it (src/src/config.py, src/src/webhook.py). An operator        *)
(* publishes GlobalLimit specs; each replica holds crd_config, loaded when *)
(* its process starts (docker/gunicorn.conf.py) and by the manager thread  *)
(* of the leader in every cycle; webhook threads read it while it changes. *)
(* A pattern stands for the set of values that it matches.                 *)
(***************************************************************************)
EXTENDS Integers, Sequences

CONSTANTS
  Pod,
  Specs,      \* the specs that may be published
  Default,    \* the DEFAULT_... constants, a configuration
  DefaultTier,
  Requests,   \* create requests: [ns, user, labels]
  Unset,      \* a field the spec leaves out, or leaves empty
  Malformed   \* a value int() does not take

\* A list of rules; a tier is what int() makes of it.
IsRules(rules) ==
  /\ DOMAIN rules \subseteq Nat
  /\ \A i \in DOMAIN rules : rules[i].tier = Malformed \/ rules[i].tier \in Int

ASSUME AdmissionAssumption ==
  /\ DefaultTier \in Int
  /\ "rules" \in DOMAIN Default /\ IsRules(Default.rules)
  /\ \A s \in Specs : /\ DOMAIN s = DOMAIN Default
                      /\ s.rules = Unset \/ IsRules(s.rules)

VARIABLES
  crd,       \* the spec of the GlobalLimit object
  published, \* the specs there have been (only properties read it)
  config,    \* crd_config of each replica
  leading,   \* state.is_leader
  synced,    \* state.initial_sync_done
  cycle,     \* limit and cfg of the manager's current cycle
  request,   \* per replica, a request between is_target_namespace and its answer
  stored     \* the object the last answered request became

avars == <<crd, published, config, leading, synced, cycle, request, stored>>

Nil == [none |-> TRUE]  \* no request, no object, no cycle

-----------------------------------------------------------------------------
\* Mutant: the settings before the malformed one are taken over.
LoadablePartly(s) == TRUE
Loadable(s) == Malformed \notin {s[f] : f \in {"limit", "aging"}}

\* new_cfg
Resolve(s) == [f \in DOMAIN Default |-> IF s[f] = Unset THEN Default[f] ELSE s[f]]

\* Mutant: loaded when the process starts, and no more.
LoadConfigOnce(r) ==
  \/ config[r] = Default /\ Loadable(crd) /\ config' = [config EXCEPT ![r] = Resolve(crd)]
  \/ UNCHANGED config

\* load_crd_config: all of the spec or nothing; an error of any kind keeps
\* crd_config and returns the default limit.
LoadConfig(r) ==
  \/ Loadable(crd) /\ config' = [config EXCEPT ![r] = Resolve(crd)]
  \/ UNCHANGED config

LimitReturned(r) ==
  {Default.limit} \cup (IF Loadable(crd) /\ config'[r] = Resolve(crd)
                        THEN {config'[r].limit} ELSE {})

AdmissionInit ==
  /\ crd \in Specs /\ published = {crd}
  /\ config = [r \in Pod |-> Default]
  /\ leading = [r \in Pod |-> FALSE]
  /\ synced = [r \in Pod |-> FALSE]
  /\ cycle = Nil
  /\ request = [r \in Pod |-> Nil]
  /\ stored = Nil

Publish(s) ==
  /\ s \notin published
  /\ crd' = s /\ published' = published \cup {s}
  /\ UNCHANGED <<config, leading, synced, cycle, request, stored>>

\* The replica's process, new: post_fork loads the configuration once.
BootPod(r) ==
  /\ \/ Loadable(crd) /\ config' = [config EXCEPT ![r] = Resolve(crd)]
     \/ config' = [config EXCEPT ![r] = Default]
  /\ leading' = [leading EXCEPT ![r] = FALSE]
  /\ synced' = [synced EXCEPT ![r] = FALSE]
  /\ request' = [request EXCEPT ![r] = Nil]
  /\ UNCHANGED <<crd, published, cycle, stored>>

Elect(r) ==
  /\ \A q \in Pod : ~leading[q]
  /\ leading' = [leading EXCEPT ![r] = TRUE]
  /\ UNCHANGED <<crd, published, config, synced, cycle, request, stored>>

Resign(r) ==
  /\ leading[r]
  /\ leading' = [leading EXCEPT ![r] = FALSE]
  /\ UNCHANGED <<crd, published, config, synced, cycle, request, stored>>

Sync(r) ==
  /\ ~synced[r]
  /\ synced' = [synced EXCEPT ![r] = TRUE]
  /\ UNCHANGED <<crd, published, config, leading, cycle, request, stored>>

\* The beginning of a manager's cycle. Nobody else writes its crd_config, so
\* nothing can come between load_crd_config and get_cached_config.
Cycle(r) ==
  /\ leading[r]
  /\ LoadConfig(r)
  /\ \E n \in LimitReturned(r) : cycle' = [limit |-> n, cfg |-> config'[r]]
  /\ UNCHANGED <<crd, published, leading, synced, request, stored>>

(***************************************************************************)
(* The webhook                                                             *)
(***************************************************************************)
Label(labels, key) == IF key \in DOMAIN labels THEN labels[key] ELSE ""

\* An env rule may match the empty string, a label rule needs a value.
Matches(rule, labels) ==
  \/ /\ rule.matchType = "label"
     /\ Label(labels, rule.labelKey) \in rule.pattern \ {""}
  \/ rule.matchType = "env" /\ Label(labels, "env") \in rule.pattern

\* determine_tier: the first rule that matches.
DetermineTier(labels, rules) ==
  LET hits == {i \in DOMAIN rules : Matches(rules[i], labels)}
      rule == rules[CHOOSE i \in hits : \A j \in hits : i <= j]
  IN  IF hits = {} \/ rule.tier = Malformed THEN DefaultTier ELSE rule.tier

\* Mutant: labels that the object has are left alone.
LabelPatchKeeping(labels, new) ==
  [k \in DOMAIN labels \cup DOMAIN new |-> IF k \in DOMAIN labels THEN labels[k] ELSE new[k]]
\* _label_patch: JSON Patch's add overwrites.
LabelPatch(labels, new) ==
  [k \in DOMAIN labels \cup DOMAIN new |-> IF k \in DOMAIN new THEN new[k] ELSE labels[k]]

\* _allow, and _admission_patch_response with spec.status and labels.
Allow(q) == [of |-> q, status |-> "none", labels |-> q.labels]
Hold(q, new) == [of |-> q, status |-> "Pending", labels |-> LabelPatch(q.labels, new)]

\* is_target_namespace, on a copy of the configuration of its own.
Receive(r) == \E q \in Requests :
  /\ request[r] = Nil
  /\ IF q.ns \in config[r].namespaces
     THEN request' = [request EXCEPT ![r] = q] /\ stored' = Nil
     ELSE UNCHANGED request /\ stored' = Allow(q)
  /\ UNCHANGED <<crd, published, config, leading, synced, cycle>>

\* Mutant: the sync is looked at before the creator.
AnswerSyncFirst(r, q, cfg) ==
  LET tier == [tier |-> DetermineTier(q.labels, cfg.rules)]
  IN  IF ~synced[r] THEN Allow(q)
      ELSE IF q.user \notin cfg.accounts THEN Hold(q, tier)
      ELSE Hold(q, [tier |-> tier.tier, managed |-> "yes"])

\* A foreign creator's run is held, in any state of the cache; one of a managed
\* account is let through before the first sync and queued after it.
Answer(r, q, cfg) ==
  LET tier == [tier |-> DetermineTier(q.labels, cfg.rules)]
  IN  IF q.user \notin cfg.accounts THEN Hold(q, tier)
      ELSE IF ~synced[r] THEN Allow(q)
      ELSE Hold(q, [tier |-> tier.tier, managed |-> "yes"])

\* The rest of mutate_pipelinerun, on a second copy.
Respond(r) ==
  /\ request[r] # Nil
  /\ stored' = Answer(r, request[r], config[r])
  /\ request' = [request EXCEPT ![r] = Nil]
  /\ UNCHANGED <<crd, published, config, leading, synced, cycle>>

AdmissionNext ==
  \/ \E s \in Specs : Publish(s)
  \/ \E r \in Pod : \/ BootPod(r) \/ Elect(r) \/ Resign(r) \/ Sync(r) \/ Cycle(r)
                    \/ Receive(r) \/ Respond(r)

\* A leader's cycle comes round every 5 s, and its reads do not fail for ever.
AdmissionFairness ==
  \A r \in Pod : SF_avars(Cycle(r) /\ Loadable(crd) /\ config'[r] = Resolve(crd))

AdmissionSpec == AdmissionInit /\ [][AdmissionNext]_avars /\ AdmissionFairness

(***************************************************************************)
(* Properties                                                              *)
(***************************************************************************)
Published == {Default} \cup
  {Resolve(s) : s \in {p \in published : Malformed \notin {p.limit, p.aging}}}

\* The configuration a replica works with is always one that was published as
\* a whole, or the defaults, whatever was malformed, unreadable or replaced in
\* between; and the limit of a cycle is that of the configuration its ageing
\* comes from, or the default limit (config.py 76-104; manager.py 118-119).
ConfigIsWhole ==
  /\ \A r \in Pod : config[r] \in Published
  /\ cycle # Nil => /\ cycle.cfg \in Published
                      /\ cycle.limit \in {cycle.cfg.limit, Default.limit}

Brought(o, key) == key \in DOMAIN o.of.labels

\* Whoever reads the configuration while it changes, and whatever labels a
\* request brings along (a rerun keeps those of the original run, d2's
\* clone_rerun.py): the tier of a run in the queue is a number that the rules
\* of one published configuration give it, never the label it came with; and a
\* run that no such configuration calls managed is in the queue only if it
\* brought the managed label itself (webhook.py 83-133, 145-153; config.py
\* 120-137).
QueuedByRule ==
  stored # Nil /\ stored.status = "Pending" =>
    \E c \in Published :
      /\ stored.labels["tier"] = DetermineTier(stored.of.labels, c.rules)
      /\ stored.labels["tier"] \in Int
      /\ "managed" \in DOMAIN stored.labels =>
           stored.of.user \in c.accounts \/ Brought(stored, "managed")

\* A run of a creator that no published configuration calls managed, in a
\* namespace that all of them cover, is held, also before the first sync and
\* while the configuration changes between the two reads (webhook.py 83-106).
ForeignIsHeld ==
  stored # Nil /\ stored.status = "none" =>
    \E c \in Published : stored.of.user \in c.accounts \/ stored.of.ns \notin c.namespaces

\* A replica that stays the leader learns in the end what is published.
LeaderLearns ==
  \A s \in Specs, r \in Pod :
    Loadable(s) => (<>[](crd = s /\ leading[r]) => <>[](config[r] = Resolve(s)))

\* README on managedSAPatterns: entries added to the GlobalLimit object take
\* effect without a redeployment; so every replica, and its webhook, must learn
\* what is published, provided that there is always a leader in the end.
EveryReplicaLearns ==
  \A s \in Specs :
    Loadable(s) => (<>[](crd = s /\ \E r \in Pod : leading[r])
                      => <>[](\A r \in Pod : config[r] = Resolve(s)))

=============================================================================
