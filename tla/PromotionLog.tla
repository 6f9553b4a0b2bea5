----------------------------- MODULE PromotionLog -----------------------------
(***************************************************************************)
(* The promotion log of the manager (src/src/workers/manager.py 57-101)    *)
(* beside the cycle of QueueController: when a cycle has read the queue it *)
(* compares every waiting run's effective tier with the one it saw last,   *)
(* and logs a promotion when it has become more urgent. The table of last  *)
(* tiers is the process's own: a restart empties it, and a replica that is *)
(* not the leader leaves it as it was.                                     *)
(***************************************************************************)
EXTENDS StartInvariant

NoTier == -1  \* no entry for the key

VARIABLES
  lastEff,  \* _last_eff_tier of each replica
  promo     \* what has been logged last for each key: from, to

promoVars == <<lastEff, promo>>
pvars     == <<vars, promoVars>>

PInit ==
  /\ Init
  /\ lastEff = [r \in Replica |-> [k \in PR |-> NoTier]]
  /\ promo = [k \in PR |-> [from |-> NoTier, to |-> NoTier]]

EffNow(o) == EffTier(o.tier, clock - o.born, AgingInterval, AgingMinTier)

\* A key of the queue that the cycle finds promoted.
Promoted(r, k) ==
  k \in Waiting(cache[r]) /\ lastEff[r][k] # NoTier /\ EffNow(cache[r][k]) < lastEff[r][k]

\* Mutant: a promotion is logged, but not remembered.
DetectForgetting(r) ==
  /\ lastEff' = [lastEff EXCEPT ![r] =
       [k \in PR |-> IF k \notin Waiting(cache[r]) THEN NoTier
                     ELSE IF @[k] = NoTier THEN EffNow(cache[r][k]) ELSE @[k]]]
  /\ promo' = [k \in PR |-> IF Promoted(r, k)
                            THEN [from |-> lastEff[r][k], to |-> EffNow(cache[r][k])]
                            ELSE promo[k]]

\* detect_and_log_promotions: a first sight and a promotion are remembered, a
\* tier that has not become smaller is not; keys no longer waiting are dropped.
Detect(r) ==
  /\ lastEff' = [lastEff EXCEPT ![r] =
       [k \in PR |-> IF k \notin Waiting(cache[r]) THEN NoTier
                     ELSE IF @[k] = NoTier \/ Promoted(r, k) THEN EffNow(cache[r][k])
                     ELSE @[k]]]
  /\ promo' = [k \in PR |-> IF Promoted(r, k)
                            THEN [from |-> lastEff[r][k], to |-> EffNow(cache[r][k])]
                            ELSE promo[k]]

ReadQueueLogged(r) == ReadQueue(r) /\ Detect(r)

RestartLog(r) ==
  /\ Restart(r)
  /\ lastEff' = [lastEff EXCEPT ![r] = [k \in PR |-> NoTier]]
  /\ UNCHANGED promo

ManagerElse(r) == \/ StartCycle(r) \/ PatchApplied(r) \/ Ack(r)
                  \/ PatchFailed(r) \/ PatchReplyLost(r) \/ EndCycle(r)

PNext ==
  \/ \E r \in Replica : ReadQueueLogged(r) \/ RestartLog(r)
  \/ /\ \/ \E r \in Replica : BecomeLeader(r) \/ StepDown(r) \/ Watcher(r) \/ ManagerElse(r)
        \/ \E k \in PR : User(k)
        \/ \E n \in Limits : SetLimit(n)
        \/ Tick
     /\ UNCHANGED promoVars

PSpec == PInit /\ [][PNext]_pvars

\* A logged promotion is one that ageing brought about: the tier it names as
\* the old one is a tier the run had since its creation, the new one is its
\* present tier; and none is logged twice: what is logged next for a run
\* starts no higher than the last one ended, over restarts, lost events and
\* runs that leave the queue and come back (manager.py 57-101). Of one replica
\* and of names that are not used again.
PromotionsChain ==
  [][\A k \in PR : promo'[k] # promo[k] =>
       /\ promo'[k].to = EffNow(pr[k]) /\ promo'[k].to < promo'[k].from
       /\ \E t \in pr[k].born..clock :
            promo'[k].from = EffTier(pr[k].tier, t - pr[k].born, AgingInterval, AgingMinTier)
       /\ promo[k].to # NoTier => promo'[k].from <= promo[k].to]_pvars

=============================================================================
