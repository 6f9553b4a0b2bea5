--------------------------- MODULE QueueInvariant ---------------------------
(***************************************************************************)
(* Why no start goes over the limit: the inductive invariant of the proofs. *)
(*                                                                         *)
(* Between cycles a cache may lag behind; what makes the count of the next *)
(* cycle safe is that, for every run that holds a slot, the front of the   *)
(* stream (what is overdue) already brings the cache to a running state of *)
(* it, and nothing behind takes that back.                                 *)
(***************************************************************************)
EXTENDS QueueController

\* The manager awaits a reply only for a target of its cycle. Types alone are
\* not inductive: Ack takes the head of todo.
AckHasTarget == \A r \in Replica : pc[r] = "ack" => todo[r] # <<>>

\* Object o followed by the first b events of s shows run k as running, at
\* some point i, and from there on every event of k does.
Anchored(o, s, k, b) ==
  \E i \in 0..b :
    /\ IF i = 0 THEN Occupies(o) ELSE s[i].key = k /\ Occupies(s[i].obj)
    /\ \A j \in (i + 1)..Len(s) : s[j].key = k => Occupies(s[j].obj)

\* What the stream's events will be applied to.
Base(r) == IF watch[r] = "replace" THEN listed[r] ELSE cache[r]

Seen(r, k, b) == watch[r] = "list" \/ Anchored(Base(r)[k], stream[r], k, b)

\* No event of a start is lost.
Tracks == \A r \in Replica, k \in Target :
            Occupies(pr[k]) => Seen(r, k, Len(stream[r]))

\* While no cycle is under way, every start is among what is overdue.
Settled == (\A s \in Replica : pc[s] = "idle") =>
             \A r \in Replica, k \in Target : Occupies(pr[k]) => Seen(r, k, overdue[r])

\* A cycle that is about to read the queue will count every run that holds a
\* slot; before the first sync it will find no run to start.
CountsAll == \A r \in Replica, k \in Target :
               pc[r] = "read" /\ Occupies(pr[k]) =>
                 Seen(r, k, 0) /\ (synced[r] => Occupies(cache[r][k]))

\* A cycle with runs left to start has counted all that hold a slot.
SlotsBound == \A r \in Replica :
  /\ pc[r] = "loop" /\ todo[r] # <<>> => Cardinality(Running(pr)) + slots[r] <= lim[r]
  /\ pc[r] = "ack" => Cardinality(Running(pr)) + slots[r] <= lim[r] + 1

\* At most one replica leads or works off a cycle.
Active(r) == isLeader[r] \/ pc[r] # "idle"
OneActive == \A r, s \in Replica : Active(r) /\ Active(s) => r = s

WatchStates == \A r \in Replica :
  /\ watch[r] = "list" => stream[r] = <<>>
  /\ ~synced[r] => cache[r] = Nothing /\ watch[r] # "stream"
  /\ overdue[r] <= Len(stream[r])

LimitInv == /\ TypeOK /\ AckHasTarget /\ WatchStates /\ OneActive
            /\ Tracks /\ Settled /\ CountsAll /\ SlotsBound

\* The assumptions: events reach the caches between two cycles, a patch is
\* never reported as failed when it was applied, nobody but the manager starts
\* a target run, and the lease is exclusive.
Reliable == Env \cap {"lag", "lost_reply", "unready", "release"} = {}
Orderly  == Reliable /\ "two_leaders" \notin Env

=============================================================================
