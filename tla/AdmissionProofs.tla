---------------------------- MODULE AdmissionProofs ----------------------------
(***************************************************************************)
(* For any replicas, published specs and requests: a replica works with a  *)
(* configuration that was published as a whole, no run of a foreign        *)
(* creator passes the webhook unheld, and a run in the queue has the tier  *)
(* that a published configuration's rules give it.                         *)
(***************************************************************************)
EXTENDS Admission, NaturalsInduction, WellFoundedInduction, TLAPS

\* What is published now has been published; config is a function.
Basis == crd \in published /\ published \subseteq Specs /\ DOMAIN config = Pod

AdmissionInv == Basis /\ ConfigIsWhole /\ ForeignIsHeld

\* What was published once stays so (config.py 76-104).
LEMMA PublishedGrows ==
  ASSUME published \subseteq published' PROVE Published \subseteq Published'
BY DEF Published

\* What a load can leave in crd_config is published (config.py 76-104).
LEMMA LoadedIsPublished ==
  ASSUME AdmissionInv, NEW r \in Pod, LoadConfig(r)
  PROVE  /\ DOMAIN config' = Pod
         /\ \A q \in Pod : config'[q] \in Published
<1>1. \A q \in Pod : config[q] \in Published
  BY DEF AdmissionInv, ConfigIsWhole
<1>2. ASSUME Loadable(crd) PROVE Resolve(crd) \in Published
  BY <1>2 DEF AdmissionInv, Basis, Published, Loadable
<1>3. QED BY <1>1, <1>2 DEF LoadConfig, AdmissionInv, Basis

\* The published configurations and the held foreigners survive a step that
\* changes neither the configurations nor the stored object.
LEMMA WholeSurvives ==
  ASSUME AdmissionInv, published \subseteq published',
         UNCHANGED <<config, cycle>>
  PROVE  ConfigIsWhole'
<1>1. Published \subseteq Published'
  BY PublishedGrows
<1>2. QED BY <1>1 DEF AdmissionInv, ConfigIsWhole

LEMMA HeldSurvives ==
  ASSUME AdmissionInv, published \subseteq published', UNCHANGED stored
  PROVE  ForeignIsHeld'
<1>1. Published \subseteq Published'
  BY PublishedGrows
<1>2. QED BY <1>1 DEF AdmissionInv, ForeignIsHeld

-----------------------------------------------------------------------------
\* The first state.
LEMMA StartIsWhole == AdmissionInit => AdmissionInv
BY DEF AdmissionInit, AdmissionInv, Basis, ConfigIsWhole, ForeignIsHeld, Published, Nil

\* A new process loads the configuration or has the defaults (gunicorn.conf.py
\* 18-37).
LEMMA BootIsWhole ==
  ASSUME AdmissionInv, NEW r \in Pod, BootPod(r)
  PROVE  AdmissionInv'
<1>1. UNCHANGED <<crd, published, cycle, stored>>
  BY DEF BootPod
<1>2. Published' = Published /\ Default \in Published
  BY <1>1 DEF Published
<1>3. Loadable(crd) => Resolve(crd) \in Published
  BY DEF AdmissionInv, Basis, Published, Loadable
<1>4. DOMAIN config' = Pod /\ \A q \in Pod : config'[q] \in Published
  BY <1>2, <1>3 DEF BootPod, AdmissionInv, Basis, ConfigIsWhole
<1>5. Basis' /\ ConfigIsWhole'
  BY <1>1, <1>2, <1>4 DEF AdmissionInv, Basis, ConfigIsWhole
<1>6. QED BY <1>1, <1>5, HeldSurvives DEF AdmissionInv

\* A cycle of the manager (manager.py 117-119).
LEMMA CycleIsWhole ==
  ASSUME AdmissionInv, NEW r \in Pod, Cycle(r)
  PROVE  AdmissionInv'
<1>1. LoadConfig(r) /\ UNCHANGED <<crd, published, stored>>
  BY DEF Cycle
<1>2. Published' = Published /\ DOMAIN config' = Pod
      /\ \A q \in Pod : config'[q] \in Published
  BY <1>1, LoadedIsPublished DEF Published
<1>3. PICK n \in LimitReturned(r) : cycle' = [limit |-> n, cfg |-> config'[r]]
  BY DEF Cycle
<1>4. n \in {config'[r].limit, Default.limit}
  BY <1>3 DEF LimitReturned
<1>5. cycle'.cfg = config'[r] /\ cycle'.limit = n
  BY <1>3
<1>6. Basis' /\ ConfigIsWhole'
  BY <1>1, <1>2, <1>4, <1>5 DEF AdmissionInv, Basis, ConfigIsWhole
<1>7. QED BY <1>1, <1>6, HeldSurvives DEF AdmissionInv

\* What the webhook lets through unheld (webhook.py 83-107).
LEMMA ReceiveHolds ==
  ASSUME AdmissionInv, NEW r \in Pod, Receive(r)
  PROVE  AdmissionInv'
<1>1. UNCHANGED <<crd, published, config, cycle>>
  BY DEF Receive
<1>2. Published' = Published /\ config[r] \in Published
  BY <1>1 DEF Published, AdmissionInv, ConfigIsWhole
<1>3. PICK q \in Requests :
        IF q.ns \in config[r].namespaces
        THEN stored' = Nil ELSE stored' = Allow(q)
  BY DEF Receive
<1>4. ForeignIsHeld'
  <2>1. CASE q.ns \in config[r].namespaces
    BY <1>3, <2>1 DEF ForeignIsHeld
  <2>2. CASE q.ns \notin config[r].namespaces
    <3>1. stored'.of = q
      BY <1>3, <2>2 DEF Allow
    <3>2. QED BY <1>2, <2>2, <3>1 DEF ForeignIsHeld
  <2>3. QED BY <2>1, <2>2
<1>5. QED BY <1>1, <1>4, WholeSurvives DEF AdmissionInv, Basis

LEMMA RespondHolds ==
  ASSUME AdmissionInv, NEW r \in Pod, Respond(r)
  PROVE  AdmissionInv'
<1>1. /\ stored' = Answer(r, request[r], config[r])
      /\ UNCHANGED <<crd, published, config, cycle>>
  BY DEF Respond
<1>2. Published' = Published /\ config[r] \in Published
  BY <1>1 DEF Published, AdmissionInv, ConfigIsWhole
<1>3. ForeignIsHeld'
  <2>1. CASE request[r].user \notin config[r].accounts
    BY <1>1, <2>1 DEF ForeignIsHeld, Answer, Hold
  <2>2. CASE request[r].user \in config[r].accounts
    <3>1. stored'.of = request[r]
      BY <1>1, <2>2 DEF Answer, Allow, Hold
    <3>2. QED BY <1>2, <2>2, <3>1 DEF ForeignIsHeld
  <2>3. QED BY <2>1, <2>2
<1>4. QED BY <1>1, <1>3, WholeSurvives DEF AdmissionInv, Basis

-----------------------------------------------------------------------------
\* Every step of the replicas and of the operator keeps the invariant.
LEMMA StepIsWhole == AdmissionInv /\ [AdmissionNext]_avars => AdmissionInv'
<1>1. SUFFICES ASSUME AdmissionInv, [AdmissionNext]_avars PROVE AdmissionInv'
  OBVIOUS
<1>2. ASSUME NEW s \in Specs, Publish(s) PROVE AdmissionInv'
  <2>1. /\ crd' \in published' /\ published \subseteq published'
        /\ published' \subseteq Specs
        /\ UNCHANGED <<config, cycle, stored>>
    BY <1>1, <1>2 DEF Publish, AdmissionInv, Basis
  <2>2. QED BY <1>1, <2>1, WholeSurvives, HeldSurvives DEF AdmissionInv, Basis
<1>3. ASSUME NEW r \in Pod, BootPod(r) PROVE AdmissionInv'
  BY <1>1, <1>3, BootIsWhole
<1>4. ASSUME NEW r \in Pod, Cycle(r) PROVE AdmissionInv'
  BY <1>1, <1>4, CycleIsWhole
<1>5. ASSUME NEW r \in Pod, Receive(r) PROVE AdmissionInv'
  BY <1>1, <1>5, ReceiveHolds
<1>6. ASSUME NEW r \in Pod, Respond(r) PROVE AdmissionInv'
  BY <1>1, <1>6, RespondHolds
<1>7. ASSUME UNCHANGED <<crd, published, config, cycle, stored>> PROVE AdmissionInv'
  BY <1>1, <1>7, WholeSurvives, HeldSurvives DEF AdmissionInv, Basis
<1>8. ASSUME NEW r \in Pod, Elect(r) \/ Resign(r) \/ Sync(r) PROVE AdmissionInv'
  <2>1. UNCHANGED <<crd, published, config, cycle, stored>>
    BY <1>8 DEF Elect, Resign, Sync
  <2>2. QED BY <1>7, <2>1
<1>9. CASE UNCHANGED avars
  BY <1>7, <1>9 DEF avars
<1>10. QED BY <1>1, <1>2, <1>3, <1>4, <1>5, <1>6, <1>8, <1>9 DEF AdmissionNext

\* Whatever is published, malformed or unreadable, and whenever: a replica's
\* configuration was published as a whole or is the default one, and a cycle's
\* limit is that of its configuration or the default (config.py 76-104;
\* manager.py 117-119).
THEOREM ConfigStaysWhole == AdmissionSpec => []ConfigIsWhole
<1>1. AdmissionInv => ConfigIsWhole
  BY DEF AdmissionInv
<1>2. QED BY <1>1, StartIsWhole, StepIsWhole, PTL DEF AdmissionSpec

\* A run that the webhook leaves unheld is of an account, or in a namespace,
\* that some published configuration lets through (webhook.py 83-107).
THEOREM ForeignStaysHeld == AdmissionSpec => []ForeignIsHeld
<1>1. AdmissionInv => ForeignIsHeld
  BY DEF AdmissionInv
<1>2. QED BY <1>1, StartIsWhole, StepIsWhole, PTL DEF AdmissionSpec

-----------------------------------------------------------------------------
(***************************************************************************)
(* The tier and the managed label of a run in the queue                    *)
(***************************************************************************)

\* A published list of rules is one (config.py 87-94).
LEMMA PublishedRules ==
  ASSUME AdmissionInv, NEW c \in Published
  PROVE  IsRules(c.rules)
<1>1. CASE c = Default
  BY <1>1, AdmissionAssumption DEF AdmissionAssumption
<1>2. ASSUME NEW s \in Specs, c = Resolve(s) PROVE IsRules(c.rules)
  <2>1. "rules" \in DOMAIN Default
    BY AdmissionAssumption DEF AdmissionAssumption
  <2>2. c.rules = IF s["rules"] = Unset THEN Default["rules"] ELSE s["rules"]
    BY <1>2, <2>1 DEF Resolve
  <2> QED
    BY <1>2, <2>2, AdmissionAssumption DEF AdmissionAssumption
<1>3. c = Default \/ \E s \in Specs : c = Resolve(s)
  BY DEF Published, AdmissionInv, Basis
<1> QED
  BY <1>1, <1>2, <1>3

\* There is a first rule among those that match.
LEMMA FirstHit ==
  ASSUME NEW hits \in SUBSET Nat, hits # {}
  PROVE  \E i \in hits : \A j \in hits : i <= j
<1>1. PICK i \in hits : \A j \in hits : <<j, i>> \notin OpToRel(<, Nat)
  BY NatLessThanWellFounded, WFMin
<1>2. ASSUME NEW j \in hits PROVE i <= j
  <2>1. i \in Nat /\ j \in Nat
    OBVIOUS
  <2>2. ~(j < i)
    BY <1>1, <2>1 DEF OpToRel
  <2> QED
    BY <2>1, <2>2
<1> QED
  BY <1>2

\* Whatever the labels, the tier is a number (config.py 120-137).
LEMMA TierIsNumber ==
  ASSUME NEW rules, IsRules(rules), NEW labels
  PROVE  DetermineTier(labels, rules) \in Int
<1> DEFINE hits == {i \in DOMAIN rules : Matches(rules[i], labels)}
           first == CHOOSE i \in hits : \A j \in hits : i <= j
<1>1. CASE hits = {}
  BY <1>1, AdmissionAssumption DEF AdmissionAssumption, DetermineTier
<1>2. CASE hits # {}
  <2>1. hits \in SUBSET Nat
    BY DEF IsRules
  <2>2. \E i \in hits : \A j \in hits : i <= j
    BY <1>2, <2>1, FirstHit
  <2>3. first \in hits
    BY <2>2
  <2>4. rules[first].tier = Malformed \/ rules[first].tier \in Int
    BY <2>3 DEF IsRules
  <2>5. DetermineTier(labels, rules) \in {DefaultTier, rules[first].tier}
        /\ (rules[first].tier = Malformed => DetermineTier(labels, rules) = DefaultTier)
    BY DEF DetermineTier
  <2> QED
    BY <2>4, <2>5, AdmissionAssumption DEF AdmissionAssumption
<1> QED
  BY <1>1, <1>2

\* What the patch writes is in the object, and only what the request brought
\* is there besides (webhook.py 145-153).
LEMMA PatchOverwrites ==
  ASSUME NEW labels, NEW new
  PROVE  /\ \A k \in DOMAIN new : LabelPatch(labels, new)[k] = new[k]
         /\ DOMAIN LabelPatch(labels, new) = DOMAIN labels \cup DOMAIN new
BY DEF LabelPatch

\* The answer to a request, whatever it brings along (webhook.py 87-133).
LEMMA AnswerByRule ==
  ASSUME NEW r \in Pod, NEW q, NEW c, IsRules(c.rules),
         NEW o, o = Answer(r, q, c), o.status = "Pending"
  PROVE  /\ o.of = q
         /\ o.labels["tier"] = DetermineTier(q.labels, c.rules)
         /\ o.labels["tier"] \in Int
         /\ "managed" \in DOMAIN o.labels => q.user \in c.accounts \/ Brought(o, "managed")
<1> DEFINE tier == [tier |-> DetermineTier(q.labels, c.rules)]
           both == [tier |-> tier.tier, managed |-> "yes"]
<1>0. DetermineTier(q.labels, c.rules) \in Int
  BY TierIsNumber
<1>1. CASE q.user \notin c.accounts
  <2>1. o = Hold(q, tier)
    BY <1>1 DEF Answer
  <2>2. PICK new : new = tier
    OBVIOUS
  <2>3. o.of = q /\ o.labels = LabelPatch(q.labels, new)
    BY <2>1, <2>2 DEF Hold
  <2>4. DOMAIN new = {"tier"} /\ new["tier"] = DetermineTier(q.labels, c.rules)
    BY <2>2
  <2>5. o.labels["tier"] = new["tier"] /\ DOMAIN o.labels = DOMAIN q.labels \cup {"tier"}
    <3> DEFINE patched == LabelPatch(q.labels, new)
    <3>1. /\ \A k \in DOMAIN new : patched[k] = new[k]
          /\ DOMAIN patched = DOMAIN q.labels \cup DOMAIN new
      BY PatchOverwrites
    <3>2. o.labels = patched
      BY <2>3
    <3> HIDE DEF patched
    <3> QED
      BY <3>1, <3>2, <2>4
  <2> QED
    BY <1>0, <2>3, <2>4, <2>5 DEF Brought
<1>2. CASE q.user \in c.accounts
  <2>1. o = Hold(q, both)
    BY <1>2 DEF Answer, Allow
  <2>2. PICK new : new = both
    OBVIOUS
  <2>3. o.of = q /\ o.labels = LabelPatch(q.labels, new)
    BY <2>1, <2>2 DEF Hold
  <2>4. "tier" \in DOMAIN new /\ new["tier"] = DetermineTier(q.labels, c.rules)
    BY <2>2
  <2>5. o.labels["tier"] = new["tier"]
    <3> DEFINE patched == LabelPatch(q.labels, new)
    <3>1. /\ \A k \in DOMAIN new : patched[k] = new[k]
          /\ DOMAIN patched = DOMAIN q.labels \cup DOMAIN new
      BY PatchOverwrites
    <3>2. o.labels = patched
      BY <2>3
    <3> HIDE DEF patched
    <3> QED
      BY <3>1, <3>2, <2>4
  <2> QED
    BY <1>0, <1>2, <2>3, <2>4, <2>5
<1> QED
  BY <1>1, <1>2

LEMMA QueuedStep == AdmissionInv /\ QueuedByRule /\ [AdmissionNext]_avars => QueuedByRule'
<1> SUFFICES ASSUME AdmissionInv, QueuedByRule, [AdmissionNext]_avars
             PROVE  QueuedByRule'
  OBVIOUS
<1>1. ASSUME published \subseteq published', UNCHANGED stored PROVE QueuedByRule'
  <2>1. Published \subseteq Published'
    BY <1>1, PublishedGrows
  <2> QED
    BY <1>1, <2>1 DEF QueuedByRule, Brought
<1>2. ASSUME NEW s \in Specs, Publish(s) PROVE QueuedByRule'
  BY <1>1, <1>2 DEF Publish
<1>3. ASSUME NEW r \in Pod,
             BootPod(r) \/ Elect(r) \/ Resign(r) \/ Sync(r) \/ Cycle(r)
      PROVE  QueuedByRule'
  BY <1>1, <1>3 DEF BootPod, Elect, Resign, Sync, Cycle
<1>4. ASSUME NEW r \in Pod, Receive(r) PROVE QueuedByRule'
  BY <1>4 DEF Receive, Allow, QueuedByRule
<1>5. ASSUME NEW r \in Pod, Respond(r) PROVE QueuedByRule'
  <2>1. stored' = Answer(r, request[r], config[r]) /\ UNCHANGED published
    BY <1>5 DEF Respond
  <2>2. config[r] \in Published /\ Published' = Published
    BY <2>1 DEF AdmissionInv, ConfigIsWhole, Published
  <2>3. IsRules(config[r].rules)
    BY <2>2, PublishedRules
  <2>4. PICK o : o = stored'
    OBVIOUS
  <2>5. SUFFICES ASSUME o # Nil, o.status = "Pending"
                 PROVE  \E c \in Published :
                          /\ o.labels["tier"] = DetermineTier(o.of.labels, c.rules)
                          /\ o.labels["tier"] \in Int
                          /\ "managed" \in DOMAIN o.labels =>
                               o.of.user \in c.accounts \/ Brought(o, "managed")
    BY <2>2, <2>4 DEF QueuedByRule, Brought
  <2> QED
    BY <2>1, <2>2, <2>3, <2>4, <2>5, AnswerByRule
<1>6. CASE UNCHANGED avars
  BY <1>1, <1>6 DEF avars
<1> QED
  BY <1>2, <1>3, <1>4, <1>5, <1>6 DEF AdmissionNext

\* Whatever labels a request brings along, and whoever reads the configuration
\* while it changes: the tier of a held run is a number, and the one that the
\* rules of one published configuration give it; and it is in the queue only if
\* that configuration calls its creator managed or it brought the label itself
\* (webhook.py 83-133, 145-153; config.py 120-137).
THEOREM QueuedByRuleTheorem == AdmissionSpec => []QueuedByRule
<1>1. AdmissionInit => QueuedByRule
  BY DEF AdmissionInit, QueuedByRule
<1>2. QED BY <1>1, StartIsWhole, StepIsWhole, QueuedStep, PTL DEF AdmissionSpec

=============================================================================
