---------------------------- MODULE StartInvariant ----------------------------
(***************************************************************************)
(* Why starts come in the right order, why a held run stays held, and why  *)
(* a drained cache is the store: the inductive invariants of the proofs.   *)
(*                                                                         *)
(* Of a name that is used once, every copy that a cache, a list response   *)
(* or an event holds is a version of one run; a run that still waits has   *)
(* one version only. So what a cycle decides on an old copy is right for   *)
(* the run as it is, and whoever knows a run knows all older ones that     *)
(* wait.                                                                   *)
(***************************************************************************)
EXTENDS QueueInvariant

\* Nobody creates a second run under the name of a first.
NamesOnce == "delete" \notin Env \/ MaxCreates <= 1

\* The name has its run, or has had it.
Used(k) == creates[k] >= 1

\* What no update of a run changes.
SameRun(o, p) == /\ o.managed = p.managed /\ o.tier = p.tier
                 /\ o.born = p.born /\ o.src = p.src

\* A copy of k's run, out of date at most in what happened after its start.
Version(k, o) ==
  o # Absent => /\ Used(k)
                /\ pr[k] # Absent => SameRun(o, pr[k]) /\ (Queued(pr[k]) => o = pr[k])

Created == \A k \in PR :
  /\ pr[k] # Absent => /\ Used(k) /\ pr[k].born <= clock
                       /\ pr[k].managed => pr[k].src = "dashboard"
  /\ Used(k) /\ "delete" \notin Env => pr[k] # Absent

Known == \A r \in Replica, k \in PR :
  /\ Version(k, cache[r][k]) /\ Version(k, listed[r][k])
  /\ \A i \in DOMAIN stream[r] : stream[r][i].key = k =>
       /\ Version(k, stream[r][i].obj)
       /\ stream[r][i].obj = Absent => Used(k) /\ pr[k] = Absent

\* A cycle's targets are queued runs, or were when it read the queue.
Planned == \A r \in Replica : \A i \in DOMAIN todo[r] :
  LET k == todo[r][i]
  IN  k \in Target /\ Used(k) /\ (pr[k] # Absent => pr[k].managed)

\* What everybody but the creator of a run writes: the same run, which does not
\* enter the queue again, or nothing any more.
Evolves(p, o) ==
  /\ pr[p] # Absent
  /\ o = Absent => "delete" \in Env
  /\ o # Absent => SameRun(o, pr[p]) /\ (Queued(o) => o = pr[p])

Versions == Created /\ Known /\ Planned

\* A run whose patch has been applied does not wait any longer.
Awaited == \A r \in Replica : pc[r] = "ack" => ~Queued(pr[Head(todo[r])])

VersionInv == TypeOK /\ AckHasTarget /\ Versions /\ Awaited

-----------------------------------------------------------------------------
Older(j, k) == Queued(pr[j]) /\ pr[k] # Absent /\ pr[j].born < pr[k].born

ListDrained == \A r \in Replica : watch[r] = "list" => stream[r] = <<>>

HasEvent(r, k, n) == \E i \in 1..n : stream[r][i].key = k

\* Once the watcher has listed, no creation is lost.
Told == \A r \in Replica, j \in PR : watch[r] # "list" /\ Queued(pr[j]) =>
          Base(r)[j] # Absent \/ HasEvent(r, j, Len(stream[r]))

\* Who knows a run, or is about to, knows those that have waited longer.
Causal == \A r \in Replica, j, k \in PR : Older(j, k) =>
  /\ cache[r][k] # Absent => cache[r][j] # Absent
  /\ Base(r)[k] # Absent => Base(r)[j] # Absent
  /\ \A i \in DOMAIN stream[r] : stream[r][i].key = k =>
       Base(r)[j] # Absent \/ HasEvent(r, j, i - 1)

\* A cycle has a target after every older run that it may not pass.
InOrder == \A r \in Replica : \A i \in DOMAIN todo[r], j \in Target :
  Older(j, todo[r][i]) /\ ~MayPass(pr[todo[r][i]], pr[j]) =>
    \E h \in 1..(i - 1) : todo[r][h] = j

\* What a cycle plans respects age: every copy is a version of its run, nobody
\* knows a run without those that have waited longer, and a cycle's queue has them
\* first (watcher.py 25-55; cache.py 77-108; manager.py 149-163).
OrderInv == VersionInv /\ ListDrained /\ Told /\ Causal /\ InOrder

-----------------------------------------------------------------------------
\* A copy that is up to date, but for the status an ack has written.
Mirrors(o, p) == o = p \/ (p # Absent /\ o = [p EXCEPT !.status = "none"])

\* Either the last event of k is its present state, or there is none to come.
Converges(r, k) ==
  \/ \E i \in DOMAIN stream[r] :
       /\ stream[r][i].key = k /\ stream[r][i].obj = pr[k]
       /\ \A h \in (i + 1)..Len(stream[r]) : stream[r][h].key # k
  \/ ~HasEvent(r, k, Len(stream[r])) /\ Mirrors(Base(r)[k], pr[k])

\* What a watcher has not delivered yet makes up for all that its cache, or the
\* list it is about to store, is behind (watcher.py 25-68; cache.py 50-62).
SyncInv == TypeOK /\ AckHasTarget /\ ListDrained /\
  \A r \in Replica, k \in PR : watch[r] # "list" => Converges(r, k)

-----------------------------------------------------------------------------
\* Why no patch goes to a run that has been started: what Tracks, Settled and
\* CountsAll say of the runs that hold a slot holds of all that were started,
\* finished or not, in that no copy shows them waiting any more.
Started(k) == pr[k] # Absent /\ pr[k].status = "none"

\* Object o followed by the first b events of s shows run k as one that does not
\* wait, at some point i, and from there on every event of k does.
Left(o, s, k, b) ==
  \E i \in 0..b :
    /\ IF i = 0 THEN ~Queued(o) ELSE s[i].key = k /\ ~Queued(s[i].obj)
    /\ \A j \in (i + 1)..Len(s) : s[j].key = k => ~Queued(s[j].obj)

SeenLeft(r, k, b) == watch[r] = "list" \/ Left(Base(r)[k], stream[r], k, b)

StartsTold == \A r \in Replica, k \in Target :
                Started(k) => SeenLeft(r, k, Len(stream[r]))

StartsSettled == (\A s \in Replica : pc[s] = "idle") =>
                   \A r \in Replica, k \in Target : Started(k) => SeenLeft(r, k, overdue[r])

StartsRead == \A r \in Replica, k \in Target :
                pc[r] = "read" /\ Started(k) => SeenLeft(r, k, 0) /\ ~Queued(cache[r][k])

\* A cycle names no run twice, and none that was started already.
TodoUnstarted == \A r \in Replica :
  /\ pc[r] \in {"idle", "read"} => todo[r] = <<>>
  /\ \A i \in DOMAIN todo[r] :
       /\ todo[r][i] \in Target
       /\ pc[r] = "loop" \/ i > 1 => ~Started(todo[r][i])
       /\ \A j \in DOMAIN todo[r] : todo[r][j] = todo[r][i] => j = i

OnceParts == StartsTold /\ StartsSettled /\ StartsRead /\ TodoUnstarted

\* No copy that a cycle may choose from shows a started run waiting, and a cycle
\* names each run once (cache.py 84-92; manager.py 147-183).
OnceInv == LimitInv /\ OnceParts

=============================================================================
