----------------------------- MODULE LoadGenerator -----------------------------
(***************************************************************************)
(* The load generator of the experiments (src/experiments/common/          *)
(* pr_create.py): one process sends a create request for every entry of a  *)
(* plan, in order and one at a time, or, for a parallel burst, from a pool *)
(* of threads. What the API server does with a request and what it answers *)
(* are two things. When entries are due is left out: only a serial load    *)
(* waits, and it keeps the order.                                          *)
(*                                                                         *)
(* Faults names what may go wrong:                                         *)
(*   "5xx"    the admission webhook times out: the request is refused      *)
(*   "4xx"    the request is refused for another reason                    *)
(*   "lost"   the connection breaks, before or after the run was created   *)
(*   "late"   the answer is a 5xx although the run was created             *)
(***************************************************************************)
EXTENDS Integers, Sequences

CONSTANTS
  Request,   \* entries of a plan
  Plans,     \* the plans a load may be started with
  Crews,     \* the sets of threads it may be started with
  Retries,   \* WEBHOOK_RETRIES
  Faults

ASSUME LoadAssumption ==
  /\ Plans \subseteq Seq(Request)
  /\ 0 \notin UNION Crews
  /\ Retries \in Nat \ {0}
  /\ Faults \subseteq {"5xx", "4xx", "lost", "late", "kill", "chunk"}

VARIABLES
  plan,   \* schedule, or range(count)
  gen,    \* --generate-name: the server makes up a new name per request
  crew,   \* the threads
  next,   \* the first entry nobody has taken
  job,    \* the entry each thread is creating, 0 for none
  try,    \* its variable attempt
  made,   \* PipelineRuns created per entry
  failed, \* entries whose create_pr raised
  exit    \* the process: running, ended, died of an exception

lvars == <<plan, gen, crew, next, job, try, made, failed, exit>>

Thread == UNION Crews
Entry  == 1..Len(plan)
Serial == \A v, w \in crew : v = w

LoadTypeOK ==
  /\ plan \in Seq(Request)
  /\ gen \in BOOLEAN
  /\ crew \in Crews
  /\ next \in 1..(Len(plan) + 1)
  /\ job \in [Thread -> 0..Len(plan)]
  /\ try \in [Thread -> 1..Retries]
  /\ made \in [Entry -> Nat]
  /\ failed \in SUBSET Entry
  /\ exit \in {"running", "ok", "error"}

\* The state in which a process is started.
LoadInit ==
  /\ plan \in Plans /\ gen \in BOOLEAN /\ crew \in Crews
  /\ next = 1
  /\ job = [w \in Thread |-> 0]
  /\ try = [w \in Thread |-> 1]
  /\ made = [i \in Entry |-> 0]
  /\ failed = {}
  /\ exit = "running"

-----------------------------------------------------------------------------
\* Mutant: one entry too many.
TakeBeyond(w) ==
  /\ exit = "running" /\ w \in crew
  /\ job[w] = 0 /\ next <= Len(plan) + 1
  /\ job' = [job EXCEPT ![w] = next]
  /\ next' = next + 1
  /\ UNCHANGED <<plan, gen, crew, try, made, failed, exit>>

\* burst and steady: the next entry, by whichever thread is free.
Take(w) ==
  /\ exit = "running" /\ w \in crew
  /\ job[w] = 0 /\ next <= Len(plan)
  /\ job' = [job EXCEPT ![w] = next]
  /\ try' = [try EXCEPT ![w] = 1]
  /\ next' = next + 1
  /\ UNCHANGED <<plan, gen, crew, made, failed, exit>>

\* The API server creates the run. A name of the generator's own, made once
\* per entry, can be taken by that entry's earlier attempt.
Creates(i) == (gen \/ made[i] = 0) /\ made' = [made EXCEPT ![i] = @ + 1]

Free(w) == job' = [job EXCEPT ![w] = 0] /\ try' = [try EXCEPT ![w] = 1]

Created(w) ==
  /\ exit = "running" /\ job[w] # 0
  /\ Creates(job[w])
  /\ Free(w)
  /\ UNCHANGED <<plan, gen, crew, next, failed, exit>>

\* A 5xx, of a request that was refused or, if "late", granted.
Answer5xx(i) == \/ {"5xx", "late"} \cap Faults # {} /\ UNCHANGED made
                \/ "late" \in Faults /\ Creates(i)

\* The next attempt, after a pause.
Retry(w) ==
  /\ exit = "running" /\ job[w] # 0
  /\ try[w] < Retries
  /\ Answer5xx(job[w])
  /\ try' = [try EXCEPT ![w] = @ + 1]
  /\ UNCHANGED <<plan, gen, crew, next, job, failed, exit>>

\* What create_pr does not try again: the last 5xx, any other answer (409 for
\* a name that is taken, 4xx), and any other exception.
Refusal(w) ==
  \/ try[w] = Retries /\ Answer5xx(job[w])
  \/ ~gen /\ made[job[w]] > 0 /\ UNCHANGED made
  \/ {"4xx", "lost"} \cap Faults # {} /\ UNCHANGED made
  \/ "lost" \in Faults /\ Creates(job[w])

\* Mutant: a serial load goes on as well.
RaiseReporting(w) ==
  /\ exit = "running" /\ job[w] # 0
  /\ Refusal(w)
  /\ failed' = failed \cup {job[w]}
  /\ Free(w)
  /\ UNCHANGED <<plan, gen, crew, next, exit>>

\* A pool's thread reports the entry and goes on; a serial load dies of it.
Raise(w) ==
  /\ exit = "running" /\ job[w] # 0
  /\ Refusal(w)
  /\ failed' = failed \cup {job[w]}
  /\ exit' = IF Serial THEN "error" ELSE exit
  /\ Free(w)
  /\ UNCHANGED <<plan, gen, crew, next>>

\* The loop is through; the pool's with statement has waited for its threads.
End ==
  /\ exit = "running"
  /\ next > Len(plan) /\ \A w \in crew : job[w] = 0
  /\ exit' = "ok"
  /\ UNCHANGED <<plan, gen, crew, next, job, try, made, failed>>

LoadStep == (\E w \in Thread : Take(w) \/ Created(w) \/ Retry(w) \/ Raise(w)) \/ End

LoadSpec == LoadInit /\ [][LoadStep]_lvars

-----------------------------------------------------------------------------
Busy(i) == \E w \in crew : job[w] = i

\* Every entry of the plan is accounted for, whatever is refused, answered
\* late or lost on the way (pr_create.py 182-203, 225-245): it is still to be
\* taken, or in the hands of exactly one thread, or has its run, or has been
\* reported; it has one run at most, unless the server granted it under a
\* name of its own and called that a failure, and never more than it may be
\* tried; and a serial load that ends well has sent its whole plan.
LoadAccounted ==
  /\ \A i \in Entry : i >= next => made[i] = 0 /\ i \notin failed /\ ~Busy(i)
  /\ \A i \in Entry : i < next /\ ~Busy(i) => i \in failed \/ made[i] > 0
  /\ \A v, w \in crew : job[v] = job[w] /\ job[v] # 0 => v = w
  /\ ~gen \/ "late" \notin Faults => \A i \in Entry : made[i] <= 1
  /\ \A i \in Entry : made[i] <= Retries
  /\ Serial /\ exit = "ok" => \A i \in Entry : made[i] > 0

=============================================================================
