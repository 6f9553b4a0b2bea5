----------------------------- MODULE CampaignProofs -----------------------------
(***************************************************************************)
(* A campaign, for any conditions, rounds and loads: every entry of a load *)
(* is accounted for, what the files hold, what is missing is reported, and *)
(* which files make pairs.                                                 *)
(***************************************************************************)
EXTENDS Campaign, FiniteSetTheorems, NaturalsInduction, TLAPS

(***************************************************************************)
(* The load generator: every entry of a plan is accounted for, for every   *)
(* plan, number of threads, number of retries and choice of faults         *)
(***************************************************************************)
USE LoadAssumption DEF LoadAssumption

\* What LoadAccounted needs to be inductive: without late refusals an entry has
\* no run as long as a thread is at it, and never as many as its attempts; a
\* serial load that has not died has had no failure. A thread that is not of
\* the crew has no entry.
Unmade == "late" \notin Faults => \A w \in crew : job[w] # 0 => made[job[w]] = 0
Fewer == \A w \in crew : job[w] # 0 => made[job[w]] < try[w]
Alone == Serial /\ exit # "error" => failed = {}

Idle  == \A w \in Thread : w \notin crew => job[w] = 0

LoadInv == LoadTypeOK /\ LoadAccounted /\ Unmade /\ Fewer /\ Alone /\ Idle

\* The process as it is started satisfies the invariant.
LEMMA StartAccounted == LoadInit => LoadInv
<1>1. LoadInit => LoadTypeOK
  BY DEF LoadInit, LoadTypeOK, Entry, Thread
<1>2. LoadInit => LoadAccounted
  BY DEF LoadInit, LoadAccounted, Entry, Busy, Thread
<1>3. LoadInit => Unmade /\ Fewer /\ Alone /\ Idle
  BY DEF LoadInit, Unmade, Fewer, Alone, Idle, Thread
<1>4. QED BY <1>1, <1>2, <1>3 DEF LoadInv

-----------------------------------------------------------------------------
\* A thread takes the next entry (pr_create.py 244-245, 261).
LEMMA TakeAccounted ==
  ASSUME LoadInv, NEW w \in Thread, Take(w)
  PROVE  LoadInv'
<1>1. /\ w \in crew /\ job[w] = 0 /\ next \in Entry /\ next \in Nat
      /\ job' = [job EXCEPT ![w] = next] /\ next' = next + 1
      /\ try' = [try EXCEPT ![w] = 1]
      /\ UNCHANGED <<plan, gen, crew, made, failed, exit>>
  BY DEF LoadInv, LoadTypeOK, Take, Entry
<1>2. LoadTypeOK'
  BY <1>1 DEF LoadInv, LoadTypeOK, Entry
<1>3. \A v \in crew : job'[v] = IF v = w THEN next ELSE job[v]
  BY <1>1 DEF LoadInv, LoadTypeOK, Thread
<1>4. \A v \in crew : job[v] \in 0..(next - 1)
  BY <1>1 DEF LoadInv, LoadTypeOK, LoadAccounted, Entry, Busy, Thread
<1>5. \A i \in Entry : Busy(i)' <=> Busy(i) \/ i = next
  BY <1>1, <1>3 DEF Busy, Entry
<1>6. LoadAccounted'
  <2>1. (\A i \in Entry : i >= next => made[i] = 0 /\ i \notin failed /\ ~Busy(i))'
    BY <1>1, <1>5 DEF LoadInv, LoadAccounted, Entry
  <2>2. (\A i \in Entry : i < next /\ ~Busy(i) => i \in failed \/ made[i] > 0)'
    BY <1>1, <1>5 DEF LoadInv, LoadAccounted, Entry
  <2>3. (\A u, v \in crew : job[u] = job[v] /\ job[v] # 0 => u = v)'
    BY <1>1, <1>3, <1>4 DEF LoadInv, LoadAccounted
  <2>4. (~gen \/ "late" \notin Faults => \A i \in Entry : made[i] <= 1)'
    BY <1>1 DEF LoadInv, LoadAccounted, Entry
  <2>5. (Serial /\ exit = "ok" => \A i \in Entry : made[i] > 0)'
    BY <1>1 DEF Take
  <2>6. (\A i \in Entry : made[i] <= Retries)'
    BY <1>1 DEF LoadInv, LoadAccounted, Entry
  <2>7. QED BY <2>1, <2>2, <2>3, <2>4, <2>5, <2>6 DEF LoadAccounted
<1>7. Unmade' /\ Alone'
  BY <1>1, <1>3 DEF LoadInv, LoadAccounted, Unmade, Alone, Serial
<1>10. Fewer'
  <2>1. \A v \in crew : try'[v] = IF v = w THEN 1 ELSE try[v]
    BY <1>1 DEF LoadInv, LoadTypeOK, Thread
  <2>2. made[next] = 0
    BY <1>1 DEF LoadInv, LoadAccounted
  <2>3. QED BY <1>1, <1>3, <2>1, <2>2 DEF LoadInv, Fewer
<1>8. Idle'
  BY <1>1 DEF LoadInv, LoadTypeOK, Idle, Thread
<1>9. QED BY <1>2, <1>6, <1>7, <1>8, <1>10 DEF LoadInv

\* What the server may have done to the runs of an entry in one request.
LEMMA MadeByRequest ==
  ASSUME LoadInv, NEW i \in Entry, Creates(i) \/ UNCHANGED made
  PROVE  /\ made' \in [Entry -> Nat]
         /\ \A j \in Entry : j # i => made'[j] = made[j]
         /\ made'[i] >= made[i]
BY DEF LoadInv, LoadTypeOK, Creates

\* The part of the invariant that bounds the runs of an entry survives a
\* request, whatever becomes of the thread.
LEMMA OnceAccounted ==
  ASSUME LoadInv, NEW w \in crew, job[w] # 0,
         \/ Creates(job[w]) /\ ("late" \notin Faults => made[job[w]] = 0)
         \/ UNCHANGED made,
         UNCHANGED <<plan, gen>>
  PROVE  (~gen \/ "late" \notin Faults => \A i \in Entry : made[i] <= 1)'
<1>1. SUFFICES ASSUME ~gen \/ "late" \notin Faults, NEW j \in Entry
               PROVE  made'[j] <= 1
  BY DEF Entry
<1>2. made[j] <= 1 /\ made[j] \in Nat
  BY <1>1 DEF LoadInv, LoadTypeOK, LoadAccounted
<1>3. CASE UNCHANGED made
  BY <1>2, <1>3
<1>4. CASE Creates(job[w]) /\ ("late" \notin Faults => made[job[w]] = 0)
  <2>1. gen => "late" \notin Faults
    BY <1>1
  <2>2. made[job[w]] = 0 /\ made' = [made EXCEPT ![job[w]] = made[job[w]] + 1]
    BY <1>4, <2>1 DEF Creates
  <2>3. QED BY <1>2, <2>2 DEF LoadInv, LoadTypeOK
<1>5. QED BY <1>3, <1>4

\* So does the part that bounds them by the attempts.
LEMMA TriesAccounted ==
  ASSUME LoadInv, NEW w \in crew, job[w] # 0,
         Creates(job[w]) \/ UNCHANGED made,
         UNCHANGED plan
  PROVE  /\ (\A i \in Entry : made[i] <= Retries)'
         /\ made'[job[w]] <= try[w]
<1>1. made \in [Entry -> Nat] /\ try[w] \in 1..Retries /\ job[w] \in Entry
  <2>1. w \in Thread
    BY DEF LoadInv, LoadTypeOK, Thread
  <2>2. QED BY <2>1 DEF LoadInv, LoadTypeOK, Entry
<1>2. made[job[w]] < try[w] /\ made[job[w]] \in Nat
  BY <1>1 DEF LoadInv, Fewer
<1>3. \A i \in Entry : made[i] <= Retries
  BY DEF LoadInv, LoadAccounted
<1>4. made'[job[w]] <= try[w] /\ \A i \in Entry : i # job[w] => made'[i] = made[i]
  BY <1>1, <1>2 DEF Creates
<1>5. made'[job[w]] <= Retries
  <2>1. made'[job[w]] \in Nat
    BY <1>1 DEF Creates
  <2>2. QED BY <1>1, <1>4, <2>1
<1>6. Entry' = Entry
  BY DEF Entry
<1>7. QED BY <1>3, <1>4, <1>5, <1>6

\* A thread is done with its entry, which has its run or is reported. A
\* serial load goes on only if it has its run.
LEMMA DoneAccounted ==
  ASSUME LoadInv, NEW w \in Thread,
         exit = "running", job[w] # 0,
         Creates(job[w]) \/ UNCHANGED made,
         Free(w),
         \/ failed' = failed /\ exit' = exit /\ made'[job[w]] > 0
         \/ /\ failed' = failed \cup {job[w]}
            /\ exit' = IF Serial THEN "error" ELSE exit,
         UNCHANGED <<plan, gen, crew, next>>
  PROVE  LoadInv'
<1> DEFINE e == job[w]
<1>0. w \in crew /\ job \in [Thread -> 0..Len(plan)] /\ crew \subseteq Thread
  BY DEF LoadInv, LoadTypeOK, Idle, Thread
<1>1. e \in Entry /\ e < next /\ Busy(e) /\ next \in Nat
  BY <1>0 DEF LoadInv, LoadTypeOK, LoadAccounted, Entry, Busy
<1>2. /\ made' \in [Entry -> Nat]
      /\ \A j \in Entry : j # e => made'[j] = made[j]
      /\ made'[e] >= made[e]
  BY <1>1, MadeByRequest
<1>3. /\ Entry' = Entry /\ (Serial' <=> Serial) /\ Thread' = Thread
      /\ failed' \in SUBSET Entry
      /\ \A j \in Entry : j # e => (j \in failed' <=> j \in failed)
  <2>1. Entry' = Entry /\ (Serial' <=> Serial) /\ Thread' = Thread
    BY DEF Entry, Serial, Thread
  <2>2. failed' \in SUBSET Entry
    BY <1>1 DEF LoadInv, LoadTypeOK
  <2>3. \A j \in Entry : j # e => (j \in failed' <=> j \in failed)
    OBVIOUS
  <2>4. QED BY <2>1, <2>2, <2>3
<1>4. job' = [job EXCEPT ![w] = 0] /\ try' = [try EXCEPT ![w] = 1]
  BY DEF Free
<1>5. \A v \in Thread : job'[v] = IF v = w THEN 0 ELSE job[v]
  BY <1>0, <1>4
<1>6. LoadTypeOK'
  BY <1>0, <1>2, <1>3, <1>4 DEF LoadInv, LoadTypeOK
<1>7. \A i \in Entry : Busy(i)' <=> Busy(i) /\ i # e
  <2>1. \A v \in crew : job[v] = e => v = w
    BY <1>0 DEF LoadInv, LoadAccounted
  <2>2. QED BY <2>1, <1>0, <1>1, <1>5 DEF Busy, Entry
<1>8. LoadAccounted'
  <2>1. (\A i \in Entry : i >= next => made[i] = 0 /\ i \notin failed /\ ~Busy(i))'
    BY <1>1, <1>2, <1>3, <1>7 DEF LoadInv, LoadAccounted, Entry
  <2>2. (\A i \in Entry : i < next /\ ~Busy(i) => i \in failed \/ made[i] > 0)'
    BY <1>1, <1>2, <1>3, <1>7 DEF LoadInv, LoadAccounted, Entry
  <2>3. (\A u, v \in crew : job[u] = job[v] /\ job[v] # 0 => u = v)'
    BY <1>0, <1>5 DEF LoadInv, LoadAccounted
  <2>4. (~gen \/ "late" \notin Faults => \A i \in Entry : made[i] <= 1)'
    <3>1. "late" \notin Faults => made[e] = 0
      BY <1>0 DEF LoadInv, Unmade
    <3>2. QED BY <1>0, <3>1, OnceAccounted
  <2>5. (Serial /\ exit = "ok" => \A i \in Entry : made[i] > 0)'
    BY <1>3
  <2>6. (\A i \in Entry : made[i] <= Retries)'
    BY <1>0, TriesAccounted
  <2>7. QED BY <2>1, <2>2, <2>3, <2>4, <2>5, <2>6 DEF LoadAccounted
<1>9. Unmade'
  <2>1. SUFFICES ASSUME "late" \notin Faults, NEW v \in crew, job'[v] # 0
                 PROVE  made'[job'[v]] = 0
    BY DEF Unmade
  <2>2. v # w /\ job'[v] = job[v] /\ job[v] # e /\ job[v] \in Entry
    BY <1>0, <1>5, <2>1 DEF LoadInv, LoadAccounted, Entry
  <2>3. made[job[v]] = 0
    BY <2>1, <2>2 DEF LoadInv, Unmade
  <2>4. QED BY <1>2, <2>2, <2>3
<1>10. Alone'
  BY <1>3 DEF LoadInv, Alone
<1>11. Idle'
  BY <1>3, <1>5 DEF LoadInv, Idle
<1>12. Fewer'
  <2>1. SUFFICES ASSUME NEW v \in crew, job'[v] # 0 PROVE made'[job'[v]] < try'[v]
    BY DEF Fewer
  <2>2. v # w /\ job'[v] = job[v] /\ job[v] # e /\ job[v] \in Entry
    BY <1>0, <1>5, <2>1 DEF LoadInv, LoadAccounted, Entry
  <2>3. try'[v] = try[v]
    BY <1>0, <1>4, <2>2 DEF LoadInv, LoadTypeOK
  <2>4. made[job[v]] < try[v]
    BY <2>2, <1>0 DEF LoadInv, Fewer, Entry
  <2>5. QED BY <1>2, <2>2, <2>3, <2>4
<1>13. QED BY <1>6, <1>8, <1>9, <1>10, <1>11, <1>12 DEF LoadInv

\* The run is created (pr_create.py 184-186).
LEMMA CreatedAccounted ==
  ASSUME LoadInv, NEW w \in Thread, Created(w)
  PROVE  LoadInv'
<1>1. job[w] \in Entry /\ made[job[w]] \in Nat
  BY DEF LoadInv, LoadTypeOK, Created, Entry
<1>2. made'[job[w]] > 0
  BY <1>1 DEF LoadInv, LoadTypeOK, Created, Creates
<1>3. QED BY <1>2, DoneAccounted DEF Created

\* create_pr raises (pr_create.py 195-203, 232-245).
LEMMA RaiseAccounted ==
  ASSUME LoadInv, NEW w \in Thread, Raise(w)
  PROVE  LoadInv'
<1>1. Creates(job[w]) \/ UNCHANGED made
  BY DEF Raise, Refusal, Answer5xx
<1>2. QED BY <1>1, DoneAccounted DEF Raise

\* The attempt is repeated (pr_create.py 192-203).
LEMMA RetryAccounted ==
  ASSUME LoadInv, NEW w \in Thread, Retry(w)
  PROVE  LoadInv'
<1> DEFINE e == job[w]
<1>1. /\ exit = "running" /\ e # 0 /\ try[w] < Retries
      /\ try' = [try EXCEPT ![w] = try[w] + 1]
      /\ UNCHANGED <<plan, gen, crew, next, job, failed, exit>>
  BY DEF Retry
<1>2. w \in crew /\ e \in Entry /\ e < next /\ next \in Nat
  BY <1>1 DEF LoadInv, LoadTypeOK, LoadAccounted, Idle, Entry, Busy
<1>3. \/ UNCHANGED made
      \/ "late" \in Faults /\ Creates(e)
  BY DEF Retry, Answer5xx
<1>4. /\ made' \in [Entry -> Nat]
      /\ \A j \in Entry : j # e => made'[j] = made[j]
      /\ made'[e] >= made[e]
  BY <1>2, <1>3, MadeByRequest
<1>5. Entry' = Entry /\ (Serial' <=> Serial) /\ \A i \in Entry : Busy(i)' <=> Busy(i)
  BY <1>1 DEF Entry, Serial, Busy
<1>6. LoadTypeOK'
  BY <1>1, <1>4, <1>5 DEF LoadInv, LoadTypeOK
<1>7. LoadAccounted'
  <2>1. (\A i \in Entry : i >= next => made[i] = 0 /\ i \notin failed /\ ~Busy(i))'
    BY <1>1, <1>2, <1>4, <1>5 DEF LoadInv, LoadAccounted, Entry
  <2>2. (\A i \in Entry : i < next /\ ~Busy(i) => i \in failed \/ made[i] > 0)'
    <3>1. \A i \in Entry : made'[i] >= made[i] /\ made[i] \in Nat /\ made'[i] \in Nat
      <4>1. made \in [Entry -> Nat]
        BY DEF LoadInv, LoadTypeOK
      <4>2. SUFFICES ASSUME NEW i \in Entry PROVE made'[i] >= made[i]
        BY <1>4, <4>1
      <4>3. CASE i = e
        BY <1>4, <4>3
      <4>4. CASE i # e
        BY <1>4, <4>1, <4>4
      <4>5. QED BY <4>3, <4>4
    <3>2. \A i \in Entry : i < next /\ ~Busy(i) => i \in failed \/ made[i] > 0
      BY DEF LoadInv, LoadAccounted
    <3>3. \A i \in Entry : i < next /\ ~Busy(i) => i \in failed \/ made'[i] > 0
      BY <3>1, <3>2
    <3>4. QED BY <1>1, <1>5, <3>3
  <2>3. (\A u, v \in crew : job[u] = job[v] /\ job[v] # 0 => u = v)'
    BY <1>1 DEF LoadInv, LoadAccounted
  <2>4. (~gen \/ "late" \notin Faults => \A i \in Entry : made[i] <= 1)'
    BY <1>1, <1>2, <1>3, OnceAccounted
  <2>5. (Serial /\ exit = "ok" => \A i \in Entry : made[i] > 0)'
    BY <1>1
  <2>6. (\A i \in Entry : made[i] <= Retries)'
    BY <1>1, <1>2, <1>3, TriesAccounted
  <2>7. QED BY <2>1, <2>2, <2>3, <2>4, <2>5, <2>6 DEF LoadAccounted
<1>8. Unmade'
  BY <1>1, <1>3 DEF LoadInv, Unmade
<1>9. Alone' /\ Idle'
  BY <1>1, <1>5 DEF LoadInv, Alone, Idle, Thread
<1>10. Fewer'
  <2>1. SUFFICES ASSUME NEW v \in crew, job[v] # 0 PROVE made'[job[v]] < try'[v]
    BY <1>1 DEF Fewer
  <2>2. v \in Thread /\ try \in [Thread -> 1..Retries] /\ made[job[v]] < try[v]
        /\ job[v] \in Entry
    BY <2>1 DEF LoadInv, LoadTypeOK, Fewer, Thread, Entry
  <2>3. CASE v = w
    <3>1. made'[e] <= try[w] /\ made'[e] \in Nat
      BY <1>1, <1>2, <1>3, <1>4, TriesAccounted
    <3>2. try'[w] = try[w] + 1 /\ try[w] \in Nat
      BY <1>1, <2>2, <2>3
    <3>3. QED BY <2>3, <3>1, <3>2
  <2>4. CASE v # w
    <3>1. job[v] # e
      BY <1>1, <1>2, <2>1, <2>4 DEF LoadInv, LoadAccounted
    <3>2. QED BY <1>1, <1>4, <2>2, <2>4, <3>1
  <2>5. QED BY <2>3, <2>4
<1>11. QED BY <1>6, <1>7, <1>8, <1>9, <1>10 DEF LoadInv

\* The load ends (pr_create.py 246-264).
LEMMA EndAccounted ==
  ASSUME LoadInv, End
  PROVE  LoadInv'
<1>1. /\ exit = "running" /\ next > Len(plan) /\ \A w \in crew : job[w] = 0
      /\ exit' = "ok"
      /\ UNCHANGED <<plan, gen, crew, next, job, try, made, failed>>
  BY DEF End
<1>2. Entry' = Entry /\ (Serial' <=> Serial) /\ \A i \in Entry : Busy(i)' <=> Busy(i)
  BY <1>1 DEF Entry, Serial, Busy
<1>3. LoadTypeOK'
  BY <1>1, <1>2 DEF LoadInv, LoadTypeOK
<1>4. ASSUME Serial PROVE \A i \in Entry : made[i] > 0
  <2>1. failed = {}
    BY <1>1, <1>4 DEF LoadInv, Alone
  <2>2. \A i \in Entry : i < next /\ ~Busy(i)
    BY <1>1 DEF LoadInv, LoadTypeOK, Entry, Busy
  <2>3. QED BY <2>1, <2>2 DEF LoadInv, LoadAccounted
<1>5. LoadAccounted'
  BY <1>1, <1>2, <1>4 DEF LoadInv, LoadAccounted
<1>6. Unmade' /\ Fewer' /\ Alone' /\ Idle'
  BY <1>1, <1>2 DEF LoadInv, Unmade, Fewer, Alone, Idle, Thread
<1>7. QED BY <1>3, <1>5, <1>6 DEF LoadInv

-----------------------------------------------------------------------------
\* Every step of the load keeps the invariant.
LEMMA StepAccounted == LoadInv /\ [LoadStep]_lvars => LoadInv'
<1>1. SUFFICES ASSUME LoadInv, [LoadStep]_lvars PROVE LoadInv'
  OBVIOUS
<1>2. ASSUME NEW w \in Thread, Take(w) PROVE LoadInv'
  BY <1>1, <1>2, TakeAccounted
<1>3. ASSUME NEW w \in Thread, Created(w) PROVE LoadInv'
  BY <1>1, <1>3, CreatedAccounted
<1>4. ASSUME NEW w \in Thread, Retry(w) PROVE LoadInv'
  BY <1>1, <1>4, RetryAccounted
<1>5. ASSUME NEW w \in Thread, Raise(w) PROVE LoadInv'
  BY <1>1, <1>5, RaiseAccounted
<1>6. CASE End
  BY <1>1, <1>6, EndAccounted
<1>7. CASE UNCHANGED lvars
  BY <1>1, <1>7 DEF lvars, LoadInv, LoadTypeOK, LoadAccounted, Unmade, Fewer, Alone, Idle,
                    Entry, Thread, Serial, Busy
<1>8. QED BY <1>1, <1>2, <1>3, <1>4, <1>5, <1>6, <1>7 DEF LoadStep

\* Whatever the plan, the threads, the number of attempts and the faults of
\* the API server, every entry of the plan is accounted for (pr_create.py
\* 182-203, 225-264).
THEOREM LoadIsAccounted == LoadSpec => []LoadAccounted
<1>1. LoadInv => LoadAccounted
  BY DEF LoadInv
<1>2. QED BY <1>1, StartAccounted, StepAccounted, PTL DEF LoadSpec

\* The load keeps its types (pr_create.py 182-264).
THEOREM LoadTypeCorrect == LoadSpec => []LoadTypeOK
<1>1. LoadInv => LoadTypeOK
  BY DEF LoadInv
<1>2. QED BY <1>1, StartAccounted, StepAccounted, PTL DEF LoadSpec


HIDE LoadAssumption DEF LoadAssumption

(***************************************************************************)
(* The campaign                                                            *)
(***************************************************************************)
IInv == LoadInv /\ CampaignInv

\* The part of the invariant about the files alone.
FilesInv ==
  /\ \A k \in Slot : /\ csv[k] \in CsvFile \cup {NoFile}
                     /\ {res[k], json[k]} \subseteq MetricFile \cup {NoFile}
  /\ FilesOfPlans /\ CsvIsWholeLoad /\ FilesOfOneAttempt

\* The part about the load and the namespace.
LiveInv ==
  /\ stage \in {"off", "clean", "load", "metrics", "series", "summary", "done", "dead"}
  /\ at \in 1..(Len(Conds) * Rounds + 1)
  /\ chunk \in 1..MaxChunks
  /\ cluster \subseteq Run
  /\ complete \subseteq (1..MaxChunks) \X Slot
  /\ dirty \in BOOLEAN
  /\ stage # "off" => Serial
  /\ ClusterOfPlans /\ ClusterOfLoad /\ InTurn

LEMMA CampaignParts ==
  IInv <=> LoadInv /\ LiveInv /\ FilesInv /\ reported \subseteq Slot /\ LeftComplete
BY DEF IInv, LoadInv, LiveInv, FilesInv, CampaignInv, CampaignTyped, CampaignTypeOK

LEMMA CampaignWhole ==
  ASSUME LoadInv', LiveInv', FilesInv', (reported \subseteq Slot)', LeftComplete'
  PROVE  IInv'
BY DEF IInv, LoadInv, LiveInv, FilesInv, CampaignInv, CampaignTyped, CampaignTypeOK

LEMMA SlotRange ==
  /\ Len(Conds) * Rounds \in Nat
  /\ Slot = 1..(Len(Conds) * Rounds)
<1>1. \A m, n \in Nat : m * n \in Nat
  OBVIOUS
<1> QED
  BY <1>1, CampaignAssumption DEF CampaignAssumption, Slot

\* A new pr_create.py begins in order, with one thread (pr_create.py 225-264).
LEMMA NewLoad ==
  ASSUME NEW p \in Seq(Request), SetLoad(p)
  PROVE  /\ LoadInv' /\ Serial' /\ plan' = p
         /\ \A i \in Entry' : made'[i] = 0
<1>1. PICK c \in Crews : \A v, w \in c : v = w
  BY CampaignAssumption DEF CampaignAssumption
<1>2. crew' \in Crews /\ \A v, w \in crew' : v = w
  BY <1>1 DEF SetLoad
<1>3. DOMAIN p = 1..Len(p) /\ Len(p) \in Nat
  OBVIOUS
<1>4. LoadTypeOK'
  <2>1. /\ plan' = p /\ gen' = TRUE /\ next' = 1 /\ failed' = {} /\ exit' = "running"
        /\ job' = [w \in Thread |-> 0] /\ try' = [w \in Thread |-> 1]
        /\ made' = [i \in 1..Len(p) |-> 0]
    BY <1>3 DEF SetLoad
  <2>2. 1 \in 1..Retries /\ Thread' = Thread
    BY LoadAssumption DEF LoadAssumption, Thread
  <2> QED
    BY <1>2, <1>3, <2>1, <2>2 DEF LoadTypeOK, Entry
<1>5. /\ plan' = p /\ Entry' = 1..Len(p) /\ next' = 1 /\ failed' = {}
      /\ exit' = "running"
      /\ \A i \in Entry' : made'[i] = 0
      /\ \A w \in Thread : job'[w] = 0
  BY <1>3 DEF SetLoad, Entry
<1>6. crew' \subseteq Thread
  BY <1>2 DEF Thread
<1>7. LoadAccounted'
  BY <1>5, <1>6, <1>3, LoadAssumption DEF LoadAccounted, Busy, Entry, LoadAssumption
<1>8. Unmade' /\ Fewer' /\ Alone' /\ Idle'
  BY <1>5, <1>6 DEF Unmade, Fewer, Alone, Idle
<1> QED
  BY <1>2, <1>4, <1>5, <1>7, <1>8 DEF LoadInv, Serial

LEMMA EmptyLoad ==
  ASSUME SetLoad(<<>>) PROVE LoadInv' /\ Serial'
<1>1. <<>> \in Seq(Request)
  OBVIOUS
<1> QED
  BY <1>1, NewLoad

\* The files survive what does not touch them.
LEMMA FilesSurvive ==
  ASSUME FilesInv, UNCHANGED <<fileVars, chunk, complete>>, dirty => dirty'
  PROVE  FilesInv'
BY DEF FilesInv, fileVars, FilesOfPlans, CsvIsWholeLoad, FilesOfOneAttempt, Own, Logged

\* A load creates runs, and takes none back.
LEMMA MadeGrows ==
  ASSUME LoadInv, LoadStep
  PROVE  /\ plan' = plan /\ Entry' = Entry /\ (Serial' <=> Serial)
         /\ \A i \in Entry : made[i] \in Nat /\ made'[i] \in Nat /\ made'[i] >= made[i]
<1>1. made \in [Entry -> Nat]
  BY DEF LoadInv, LoadTypeOK
<1>2. UNCHANGED <<plan, crew>>
  BY DEF LoadStep, Take, Created, Retry, Raise, End
<1>3. \/ UNCHANGED made
      \/ \E w \in Thread : job[w] # 0 /\ Creates(job[w])
  BY DEF LoadStep, Take, Created, Retry, Raise, End, Answer5xx, Refusal
<1>4. \A w \in Thread : job[w] # 0 => job[w] \in Entry
  BY DEF LoadInv, LoadTypeOK, Entry
<1>5. UNCHANGED made \/ \E e \in Entry : Creates(e)
  BY <1>3, <1>4
<1>6. \A i \in Entry : made'[i] \in Nat /\ made'[i] >= made[i]
  BY <1>1, <1>5 DEF Creates
<1> QED
  BY <1>1, <1>2, <1>6 DEF Entry, Serial

-----------------------------------------------------------------------------
\* A load by itself has no part in a campaign.
LEMMA LoneLoadKeeps == ASSUME IInv, LoneLoad PROVE IInv'
<1>1. /\ LoadInv /\ LiveInv /\ FilesInv /\ reported \subseteq Slot /\ LeftComplete
  BY CampaignParts
<1>2. /\ stage = "off" /\ LoadStep
      /\ UNCHANGED <<stage, at, chunk, cluster, fileVars, complete, reported, dirty>>
  BY DEF LoneLoad
<1>3. LoadInv'
  BY <1>1, <1>2, StepAccounted
<1>4. FilesInv'
  BY <1>1, <1>2, FilesSurvive
<1>5. LiveInv'
  BY <1>1, <1>2 DEF LiveInv, ClusterOfPlans, ClusterOfLoad, InTurn
<1>6. LeftComplete' /\ (reported \subseteq Slot)'
  BY <1>1, <1>2 DEF LeftComplete, Done, fileVars
<1> QED
  BY <1>3, <1>4, <1>5, <1>6, CampaignWhole

\* The cleanup, and the load after it (run_all.sh 64-104, 130-136).
LEMMA CleanKeeps == ASSUME IInv, Clean PROVE IInv'
<1>1. /\ LoadInv /\ LiveInv /\ FilesInv /\ reported \subseteq Slot /\ LeftComplete
  BY CampaignParts
<1>2. PICK left \in Remains : cluster' = left /\ dirty' = (dirty \/ left # {})
  BY DEF Clean
<1>3. /\ stage = "clean"
      /\ UNCHANGED <<at, chunk, fileVars, complete, reported>>
      /\ IF at \in Slot THEN stage' = "load" /\ SetLoad(PlanOf(at))
                        ELSE stage' = "done" /\ UNCHANGED lvars
  BY DEF Clean
<1>4. cluster' \subseteq cluster /\ dirty' \in BOOLEAN /\ (dirty => dirty')
      /\ (~dirty' => cluster' = {})
  BY <1>1, <1>2 DEF Remains, LiveInv
<1>5. FilesInv'
  BY <1>1, <1>3, <1>4, FilesSurvive
<1>6. LeftComplete' /\ (reported \subseteq Slot)'
  BY <1>1, <1>3 DEF LeftComplete, Done, fileVars
<1>7. at \in Nat /\ chunk \in Nat
  BY <1>1, SlotRange DEF LiveInv
<1>8. \A x \in cluster : x.entry \in DOMAIN PlanOf(x.slot) /\ x.chunk <= chunk
                         /\ (x.chunk = chunk => x.slot <= at /\ x.slot # at)
  BY <1>1, <1>3 DEF LiveInv, ClusterOfPlans
<1>9. ClusterOfPlans'
  BY <1>3, <1>4, <1>8 DEF ClusterOfPlans
<1>10. CASE at \in Slot
  <2>1. PICK p \in Seq(Request) : p = PlanOf(at)
    BY <1>10, CampaignAssumption DEF CampaignAssumption
  <2>2. LoadInv' /\ Serial' /\ plan' = p /\ \A i \in Entry' : made'[i] = 0
    BY <1>3, <1>10, <2>1, NewLoad
  <2>3. \A i \in Entry' : Current(i)' \notin cluster'
    BY <1>3, <1>4, <1>8 DEF Current
  <2>4. ClusterOfLoad'
    BY <1>3, <1>10, <2>1, <2>2, <2>3 DEF ClusterOfLoad
  <2>5. LiveInv'
    BY <1>1, <1>3, <1>4, <1>9, <1>10, <2>2, <2>4 DEF LiveInv, InTurn
  <2> QED
    BY <1>5, <1>6, <2>2, <2>5, CampaignWhole
<1>11. CASE at \notin Slot
  <2>1. LoadInv' /\ (Serial' <=> Serial)
    BY <1>1, <1>3, <1>11, StepAccounted DEF lvars, Serial
  <2>2. LiveInv'
    BY <1>1, <1>3, <1>4, <1>9, <1>11, <2>1 DEF LiveInv, InTurn, ClusterOfLoad
  <2> QED
    BY <1>5, <1>6, <2>1, <2>2, CampaignWhole
<1> QED
  BY <1>10, <1>11

\* The load of a round (run.sh's call of pr_create.py).
LEMMA LoadKeeps == ASSUME IInv, Load PROVE IInv'
<1>1. /\ LoadInv /\ LiveInv /\ FilesInv /\ reported \subseteq Slot /\ LeftComplete
  BY CampaignParts
<1>2. /\ stage = "load" /\ LoadStep
      /\ cluster' = cluster \cup {Current(i) : i \in {j \in Entry : made'[j] # made[j]}}
      /\ UNCHANGED <<stage, at, chunk, fileVars, complete, reported, dirty>>
  BY DEF Load, Current
<1>3. LoadInv'
  BY <1>1, <1>2, StepAccounted
<1>4. /\ plan' = plan /\ Entry' = Entry /\ (Serial' <=> Serial)
      /\ \A i \in Entry : made[i] \in Nat /\ made'[i] \in Nat /\ made'[i] >= made[i]
  BY <1>1, <1>2, MadeGrows
<1>5. at \in Slot /\ plan = PlanOf(at) /\ chunk \in 1..MaxChunks
  BY <1>1, <1>2 DEF LiveInv, InTurn, ClusterOfLoad
<1>6. DOMAIN PlanOf(at) = Entry /\ Entry \subseteq Nat
  BY <1>1, <1>5 DEF LoadInv, LoadTypeOK, Entry
<1>7. \A i : /\ Current(i).chunk = chunk /\ Current(i).slot = at /\ Current(i).entry = i
             /\ Current(i)' = Current(i)
  BY <1>2 DEF Current
<1>8. \A i \in Entry : Current(i) \in Run
  BY <1>5, <1>6 DEF Current, Run
<1>9. FilesInv'
  BY <1>1, <1>2, FilesSurvive
<1>10. LeftComplete' /\ (reported \subseteq Slot)'
  BY <1>1, <1>2 DEF LeftComplete, Done, fileVars
<1>11. at \in Nat /\ chunk \in Nat
  BY <1>1, SlotRange DEF LiveInv
<1>12. ClusterOfPlans'
  <2>1. ASSUME NEW x \in cluster'
        PROVE  /\ x.entry \in DOMAIN PlanOf(x.slot) /\ x.chunk <= chunk
               /\ x.chunk = chunk => x.slot <= at
               /\ ~dirty => x.chunk = chunk /\ x.slot = at
    <3>1. CASE x \in cluster
      BY <1>1, <1>2, <3>1 DEF LiveInv, ClusterOfPlans
    <3>2. ASSUME NEW i \in Entry, x = Current(i) PROVE
                /\ x.entry \in DOMAIN PlanOf(x.slot) /\ x.chunk <= chunk
                /\ x.chunk = chunk => x.slot <= at
                /\ ~dirty => x.chunk = chunk /\ x.slot = at
      BY <1>6, <1>7, <1>11, <3>2
    <3> QED
      BY <1>2, <2>1, <3>1, <3>2
  <2> QED
    BY <1>2, <2>1 DEF ClusterOfPlans
<1>13. ClusterOfLoad'
  <2>1. ASSUME NEW i \in Entry PROVE Current(i) \in cluster' <=> made'[i] > 0
    <3>1. Current(i) \in cluster <=> made[i] > 0
      BY <1>1, <1>2 DEF LiveInv, ClusterOfLoad
    <3>2. Current(i) \in cluster' <=> Current(i) \in cluster \/ made'[i] # made[i]
      BY <1>2, <1>7
    <3> QED
      BY <1>4, <3>1, <3>2
  <2> QED
    BY <1>2, <1>4, <1>5, <1>7, <2>1 DEF ClusterOfLoad
<1>14. LiveInv'
  <2>1. cluster' \subseteq Run
    BY <1>1, <1>2, <1>8 DEF LiveInv
  <2> QED
    BY <1>1, <1>2, <1>4, <1>12, <1>13, <2>1 DEF LiveInv, InTurn
<1> QED
  BY <1>3, <1>9, <1>10, <1>14, CampaignWhole

\* The slot the call is at has not been called complete.
LEMMA NotYet == ASSUME LiveInv PROVE <<chunk, at>> \notin complete
<1>1. \A e \in complete : e[1] = chunk => e[2] < at
  BY DEF LiveInv, InTurn
<1>2. at \in Nat
  BY SlotRange DEF LiveInv
<1> SUFFICES ASSUME <<chunk, at>> \in complete PROVE FALSE
  OBVIOUS
<1>3. <<chunk, at>>[1] = chunk /\ <<chunk, at>>[2] = at
  OBVIOUS
<1> QED
  BY <1>1, <1>2, <1>3

\* What run_all.sh does after a round: the namespace is as it was, no load is
\* under way, and the runs in it are of this slot or an earlier one.
LEMMA NextRound ==
  ASSUME LoadInv, LiveInv, at \in Slot,
         SetLoad(<<>>) \/ (UNCHANGED lvars /\ Serial),
         stage' = "clean", at' = at + 1, UNCHANGED <<chunk, cluster, dirty>>,
         complete' \in {complete, complete \cup {<<chunk, at>>}}
  PROVE  LoadInv' /\ LiveInv'
<1>1. LoadInv' /\ Serial'
  BY EmptyLoad, StepAccounted DEF lvars, Serial
<1>2. at \in Nat /\ chunk \in Nat /\ at' \in 1..(Len(Conds) * Rounds + 1)
  BY SlotRange DEF LiveInv
<1>3. \A x \in cluster : x.entry \in DOMAIN PlanOf(x.slot) /\ x.chunk <= chunk
                         /\ (x.chunk = chunk => x.slot <= at) /\ x.slot \in Nat
  BY SlotRange DEF LiveInv, ClusterOfPlans, Run
<1>4. ClusterOfPlans'
  BY <1>2, <1>3 DEF ClusterOfPlans
<1>5. complete' \subseteq (1..MaxChunks) \X Slot
  BY DEF LiveInv
<1>6. \A e \in complete' : e[1] <= chunk' /\ (e[1] = chunk' => e[2] < at')
  <2>1. ASSUME NEW e \in complete
        PROVE  e[1] <= chunk' /\ (e[1] = chunk' => e[2] < at')
    <3>1. e[1] <= chunk /\ (e[1] = chunk => e[2] < at) /\ e[2] \in Nat
      BY SlotRange DEF LiveInv, InTurn
    <3> QED
      BY <1>2, <3>1
  <2>2. LET e == <<chunk, at>> IN e[1] <= chunk' /\ (e[1] = chunk' => e[2] < at')
    BY <1>2
  <2> QED
    BY <2>1, <2>2
<1>7. InTurn'
  BY <1>6 DEF InTurn
<1>8. ClusterOfLoad'
  BY DEF ClusterOfLoad
<1> QED
  BY <1>1, <1>2, <1>4, <1>5, <1>7, <1>8 DEF LiveInv

-----------------------------------------------------------------------------
\* The files, when one that was not there is written, or begun
\* (metrics_collect.py 64-76, resource_collect.py 206-214, 289-304).
OwnOf(S) == {x \in S : x.slot = at /\ x.chunk = chunk}

\* After the load, the namespace holds all of the round's plan, made by this
\* call, and nothing else unless a cleanup has failed.
LEMMA LoadInCluster ==
  ASSUME LiveInv, stage \in {"metrics", "series", "summary"}
  PROVE  /\ at \in Slot
         /\ {x.entry : x \in OwnOf(cluster)} = DOMAIN PlanOf(at)
         /\ ~dirty => cluster = OwnOf(cluster)
<1>1. at \in Slot
  BY DEF LiveInv, InTurn
<1>2. \A x \in cluster : x.entry \in DOMAIN PlanOf(x.slot)
                         /\ (~dirty => x.chunk = chunk /\ x.slot = at)
  BY DEF LiveInv, ClusterOfPlans
<1>3. \A i \in DOMAIN PlanOf(at) : Current(i) \in cluster
  BY DEF LiveInv, ClusterOfLoad
<1>4. \A i : Current(i).chunk = chunk /\ Current(i).slot = at /\ Current(i).entry = i
  BY DEF Current
<1>5. \A i \in DOMAIN PlanOf(at) : Current(i) \in OwnOf(cluster)
  BY <1>3, <1>4 DEF OwnOf
<1>6. \A x \in OwnOf(cluster) : x.entry \in DOMAIN PlanOf(at)
  BY <1>2 DEF OwnOf
<1>7. {x.entry : x \in OwnOf(cluster)} = DOMAIN PlanOf(at)
  BY <1>4, <1>5, <1>6
<1>8. ~dirty => cluster = OwnOf(cluster)
  BY <1>2 DEF OwnOf
<1> QED
  BY <1>1, <1>7, <1>8

\* Only files of the current slot are touched.
Elsewhere == \A k \in Slot : k # at => csv'[k] = csv[k] /\ res'[k] = res[k] /\ json'[k] = json[k]

LEMMA CsvWritten ==
  ASSUME LiveInv, FilesInv, stage = "metrics", NEW rows \in SUBSET cluster,
         csv' = [csv EXCEPT ![at] = [by |-> chunk, rows |-> rows]],
         UNCHANGED <<res, json, chunk, complete, dirty>>
  PROVE  FilesInv' /\ Elsewhere
<1>1. /\ at \in Slot /\ DOMAIN csv = Slot /\ chunk \in 1..MaxChunks
      /\ cluster \subseteq Run /\ <<chunk, at>> \notin complete
  BY NotYet DEF LiveInv, InTurn, FilesInv, FilesOfPlans
<1>2. PICK f : f = [by |-> chunk, rows |-> rows]
  OBVIOUS
<1>3. f.by = chunk /\ f.rows = rows /\ f \in CsvFile /\ f # NoFile
  BY <1>1, <1>2, CampaignAssumption DEF CsvFile, CampaignAssumption
<1>4. csv'[at] = f /\ DOMAIN csv' = Slot /\ \A k \in Slot : k # at => csv'[k] = csv[k]
  BY <1>1, <1>2
<1>5. \A k \in Slot : k # at => Own(k)' = Own(k) /\ (Logged(k)' <=> Logged(k))
  BY <1>4 DEF Own, Logged
<1> DEFINE Rows == {x \in rows : x.slot = at /\ x.chunk = chunk}
<1>6. ASSUME NEW k \in Slot, k = at PROVE ~Logged(k)' /\ Own(k)' = Rows
  <2>1. csv'[k] = f
    BY <1>4, <1>6
  <2>2. ~Logged(k)'
    BY <1>1, <1>3, <1>6, <2>1 DEF Logged
  <2>3. Own(k)' = {x \in csv'[k].rows : x.slot = k /\ x.chunk = csv'[k].by}
    BY DEF Own
  <2> QED
    BY <1>3, <1>6, <2>1, <2>2, <2>3
<1>7. \A x \in cluster : x.entry \in DOMAIN PlanOf(x.slot)
                         /\ (~dirty => x.chunk = chunk /\ x.slot = at)
  BY DEF LiveInv, ClusterOfPlans
<1>8. FilesOfPlans'
  <2>1. ASSUME NEW k \in Slot, csv'[k] # NoFile
        PROVE  csv'[k].by <= chunk /\ \A x \in csv'[k].rows : x.entry \in DOMAIN PlanOf(x.slot)
    <3>1. CASE k = at
      BY <1>1, <1>3, <1>4, <1>7, <3>1
    <3>2. CASE k # at
      BY <1>4, <2>1, <3>2 DEF FilesInv, FilesOfPlans
    <3> QED
      BY <3>1, <3>2
  <2> QED
    BY <1>4, <2>1 DEF FilesInv, FilesOfPlans
<1>9. CsvIsWholeLoad'
  <2> SUFFICES ASSUME NEW k \in Slot, csv'[k] # NoFile
               PROVE  /\ csv'[k].rows = Own(k)' \/ dirty'
                      /\ Logged(k)' => {x.entry : x \in Own(k)'} = DOMAIN PlanOf(k)
    BY DEF CsvIsWholeLoad
  <2>1. CASE k = at
    <3>1. ~dirty => rows = Rows
      BY <1>7
    <3> QED
      BY <1>3, <1>4, <1>6, <2>1, <3>1
  <2>2. CASE k # at
    BY <1>4, <1>5, <2>2 DEF FilesInv, CsvIsWholeLoad
  <2> QED
    BY <2>1, <2>2
<1>10. FilesOfOneAttempt'
  BY <1>4, <1>5, <1>6 DEF FilesInv, FilesOfOneAttempt
<1>11. \A k \in Slot : /\ csv'[k] \in CsvFile \cup {NoFile}
                       /\ {res'[k], json'[k]} \subseteq MetricFile \cup {NoFile}
  BY <1>3, <1>4 DEF FilesInv
<1> QED
  BY <1>4, <1>8, <1>9, <1>10, <1>11 DEF FilesInv, Elsewhere

\* A series or a summary, as long as the attempt its CSV is of is not called
\* complete.
LEMMA MetricsWritten ==
  ASSUME LiveInv, FilesInv, stage \in {"series", "summary"}, cluster # {}, NEW w \in BOOLEAN,
         \/ res' = [res EXCEPT ![at] = [by |-> chunk, whole |-> w]] /\ UNCHANGED json
         \/ json' = [json EXCEPT ![at] = [by |-> chunk, whole |-> w]] /\ UNCHANGED res,
         UNCHANGED <<csv, chunk, complete, dirty>>
  PROVE  FilesInv' /\ Elsewhere
<1>1. /\ at \in Slot /\ DOMAIN res = Slot /\ DOMAIN json = Slot /\ chunk \in 1..MaxChunks
      /\ csv[at] = [by |-> chunk, rows |-> cluster] /\ <<chunk, at>> \notin complete
  BY NotYet DEF LiveInv, InTurn, FilesInv, FilesOfPlans
<1>2. PICK f : f = [by |-> chunk, whole |-> w]
  OBVIOUS
<1>3. f \in MetricFile
  BY <1>1, <1>2 DEF MetricFile
<1>4. /\ DOMAIN res' = Slot /\ DOMAIN json' = Slot
      /\ res'[at] \in {f, res[at]} /\ json'[at] \in {f, json[at]}
      /\ \A k \in Slot : k # at => res'[k] = res[k] /\ json'[k] = json[k]
  BY <1>1, <1>2
<1>5. \A k : Own(k)' = Own(k) /\ (Logged(k)' <=> Logged(k))
  BY DEF Own, Logged
<1>6. ~Logged(at)
  BY <1>1 DEF Logged
<1>7. FilesOfOneAttempt'
  BY <1>4, <1>5, <1>6 DEF FilesInv, FilesOfOneAttempt
<1>8. CsvIsWholeLoad'
  BY <1>5 DEF FilesInv, CsvIsWholeLoad
<1>9. FilesOfPlans'
  BY <1>4 DEF FilesInv, FilesOfPlans
<1>10. \A k \in Slot : /\ csv'[k] \in CsvFile \cup {NoFile}
                       /\ {res'[k], json'[k]} \subseteq MetricFile \cup {NoFile}
  BY <1>3, <1>4 DEF FilesInv
<1> QED
  BY <1>4, <1>7, <1>8, <1>9, <1>10 DEF FilesInv, Elsewhere

\* What a process leaves that dies, or that stops with an error.
LEMMA LeavesKeeps ==
  ASSUME LiveInv, FilesInv, Leaves, UNCHANGED <<chunk, complete, dirty>>
  PROVE  FilesInv' /\ Elsewhere
<1>1. CASE UNCHANGED fileVars
  BY <1>1, FilesSurvive DEF fileVars, Elsewhere
<1>2. CASE stage = "metrics" /\ ~UNCHANGED fileVars
  <2>1. /\ UNCHANGED <<res, json>>
        /\ \E rows \in SUBSET cluster :
             csv' = [csv EXCEPT ![at] = [by |-> chunk, rows |-> rows]]
    BY <1>2 DEF Leaves
  <2> QED
    BY <1>2, <2>1, CsvWritten
<1>3. CASE stage = "series" /\ ~UNCHANGED fileVars
  <2>1. /\ cluster # {} /\ UNCHANGED <<csv, json>>
        /\ res' = [res EXCEPT ![at] = [by |-> chunk, whole |-> FALSE]]
    BY <1>3 DEF Leaves
  <2> QED
    BY <1>3, <2>1, MetricsWritten
<1>4. CASE stage = "summary" /\ ~UNCHANGED fileVars
  <2>1. /\ UNCHANGED <<csv, res>>
        /\ \E w \in BOOLEAN : json' = [json EXCEPT ![at] = [by |-> chunk, whole |-> w]]
    BY <1>4 DEF Leaves
  <2>2. cluster # {}
    BY <1>4 DEF LiveInv, InTurn
  <2> QED
    BY <1>4, <2>1, <2>2, MetricsWritten
<1> QED
  BY <1>1, <1>2, <1>3, <1>4 DEF Leaves

\* The slots left behind are as they were.
LEMMA BehindKeeps ==
  ASSUME LiveInv, LeftComplete, Elsewhere, UNCHANGED chunk,
         complete \subseteq complete', reported \subseteq reported'
  PROVE  \A k \in Slot \ reported' : k < at => Done(k)'
<1>1. at \in Nat
  BY SlotRange DEF LiveInv
<1> SUFFICES ASSUME NEW k \in Slot \ reported', k < at PROVE Done(k)'
  OBVIOUS
<1>2. Done(k) /\ k # at
  BY <1>1, SlotRange DEF LeftComplete
<1> QED
  BY <1>2 DEF Done, Elsewhere

-----------------------------------------------------------------------------
\* A round fails, and is reported (run_all.sh 86-104).
LEMMA FailKeeps ==
  ASSUME IInv, stage \in {"load", "metrics", "series", "summary"}, RoundFails, Leaves,
         UNCHANGED <<chunk, cluster, dirty>>
  PROVE  IInv'
<1>1. /\ LoadInv /\ LiveInv /\ FilesInv /\ reported \subseteq Slot /\ LeftComplete
  BY CampaignParts
<1>2. at \in Slot /\ at \in Nat
  BY <1>1, SlotRange DEF LiveInv, InTurn
<1>3. /\ stage' = "clean" /\ at' = at + 1 /\ SetLoad(<<>>)
      /\ reported' = reported \cup {at} /\ UNCHANGED complete
  BY DEF RoundFails
<1>4. LoadInv' /\ LiveInv'
  BY <1>1, <1>2, <1>3, NextRound
<1>5. FilesInv' /\ Elsewhere
  BY <1>1, <1>3, LeavesKeeps
<1>6. (reported \subseteq Slot)'
  BY <1>1, <1>2, <1>3
<1>7. LeftComplete'
  <2>1. \A k \in Slot : k < at' => k < at \/ k = at
    BY <1>2, <1>3, SlotRange
  <2>2. \A k \in Slot \ reported' : k < at => Done(k)'
    BY <1>1, <1>3, <1>5, BehindKeeps
  <2> QED
    BY <1>3, <2>1, <2>2 DEF LeftComplete
<1> QED
  BY <1>4, <1>5, <1>6, <1>7, CampaignWhole

\* The load is over: it died, or it has made the whole plan.
LEMMA LoadEndsKeeps == ASSUME IInv, LoadEnds PROVE IInv'
<1>1. /\ LoadInv /\ LiveInv /\ FilesInv /\ reported \subseteq Slot /\ LeftComplete
  BY CampaignParts
<1>2. stage = "load" /\ UNCHANGED <<chunk, cluster, fileVars, dirty>>
  BY DEF LoadEnds
<1>3. CASE exit # "ok"
  BY <1>2, <1>3, FailKeeps DEF LoadEnds, Leaves
<1>4. CASE exit = "ok"
  <2>1. stage' = "metrics" /\ SetLoad(<<>>) /\ UNCHANGED <<at, complete, reported>>
    BY <1>4 DEF LoadEnds
  <2>2. LoadInv' /\ Serial'
    BY <2>1, EmptyLoad
  <2>3. at \in Slot /\ plan = PlanOf(at) /\ Serial
    BY <1>1, <1>2 DEF LiveInv, InTurn, ClusterOfLoad
  <2>4. DOMAIN PlanOf(at) = Entry
    BY <1>1, <2>3 DEF LoadInv, LoadTypeOK, Entry
  <2>5. \A i \in Entry : made[i] > 0
    BY <1>1, <1>4, <2>3 DEF LoadInv, LoadAccounted
  <2>6. \A i \in DOMAIN PlanOf(at) : Current(i) \in cluster
    BY <1>1, <1>2, <2>4, <2>5 DEF LiveInv, ClusterOfLoad
  <2>7. ClusterOfLoad'
    BY <1>2, <2>1, <2>6 DEF ClusterOfLoad, Current
  <2>8. LiveInv'
    BY <1>1, <1>2, <2>1, <2>2, <2>7 DEF LiveInv, ClusterOfPlans, InTurn
  <2>9. FilesInv'
    BY <1>1, <1>2, <2>1, FilesSurvive
  <2>10. LeftComplete' /\ (reported \subseteq Slot)'
    BY <1>1, <1>2, <2>1 DEF LeftComplete, Done, fileVars
  <2> QED
    BY <2>2, <2>8, <2>9, <2>10, CampaignWhole
<1> QED
  BY <1>3, <1>4

LEMMA KillKeeps == ASSUME IInv, Kill PROVE IInv'
BY FailKeeps DEF Kill

\* run_all.sh dies.
LEMMA DieKeeps == ASSUME IInv, Die PROVE IInv'
<1>1. /\ LoadInv /\ LiveInv /\ FilesInv /\ reported \subseteq Slot /\ LeftComplete
  BY CampaignParts
<1>2. /\ Leaves /\ stage' = "dead" /\ SetLoad(<<>>)
      /\ UNCHANGED <<at, chunk, cluster, complete, reported, dirty>>
  BY DEF Die
<1>3. LoadInv' /\ Serial'
  BY <1>2, EmptyLoad
<1>4. LiveInv'
  <2>1. ClusterOfPlans'
    BY <1>1, <1>2 DEF LiveInv, ClusterOfPlans
  <2>2. ClusterOfLoad'
    BY <1>2 DEF ClusterOfLoad
  <2>3. InTurn'
    BY <1>1, <1>2 DEF LiveInv, InTurn
  <2> QED
    BY <1>1, <1>2, <1>3, <2>1, <2>2, <2>3 DEF LiveInv
<1>5. FilesInv' /\ Elsewhere
  BY <1>1, <1>2, LeavesKeeps
<1>6. LeftComplete' /\ (reported \subseteq Slot)'
  <2>1. \A k \in Slot \ reported' : k < at => Done(k)'
    BY <1>1, <1>2, <1>5, BehindKeeps
  <2> QED
    BY <1>1, <1>2, <2>1 DEF LeftComplete
<1> QED
  BY <1>3, <1>4, <1>5, <1>6, CampaignWhole

\* The PipelineRuns of a round are written (metrics_collect.py 22-86).
LEMMA MetricsKeeps == ASSUME IInv, Metrics PROVE IInv'
<1>1. /\ LoadInv /\ LiveInv /\ FilesInv /\ reported \subseteq Slot /\ LeftComplete
  BY CampaignParts
<1>2. stage = "metrics" /\ UNCHANGED <<chunk, cluster, res, json, dirty>>
  BY DEF Metrics
<1>3. CASE RoundFails /\ UNCHANGED csv
  BY <1>2, <1>3, FailKeeps DEF fileVars, Leaves
<1>4. ASSUME csv' = IF cluster = {} THEN csv
                    ELSE [csv EXCEPT ![at] = [by |-> chunk, rows |-> cluster]],
             stage' = "series", UNCHANGED <<lvars, at, complete, reported>>
      PROVE  IInv'
  <2>1. LoadInv' /\ (Serial' <=> Serial)
    BY <1>1, <1>4, StepAccounted DEF lvars, Serial
  <2>2. FilesInv' /\ Elsewhere
    <3>1. CASE cluster = {}
      BY <1>1, <1>2, <1>4, <3>1, FilesSurvive DEF fileVars, Elsewhere
    <3>2. CASE cluster # {}
      BY <1>1, <1>2, <1>4, <3>2, CsvWritten
    <3> QED
      BY <3>1, <3>2
  <2>3. at \in Slot /\ DOMAIN csv = Slot
    BY <1>1, <1>2 DEF LiveInv, InTurn, FilesInv, FilesOfPlans
  <2>4. cluster # {} => csv'[at] = [by |-> chunk, rows |-> cluster]
    BY <1>4, <2>3
  <2>5. LiveInv'
    <3>1. ClusterOfPlans' /\ ClusterOfLoad'
      BY <1>1, <1>2, <1>4 DEF LiveInv, ClusterOfPlans, ClusterOfLoad, Current
    <3>2. InTurn'
      BY <1>1, <1>2, <1>4, <2>3, <2>4 DEF LiveInv, InTurn
    <3> QED
      BY <1>1, <1>2, <1>4, <2>1, <3>1, <3>2 DEF LiveInv
  <2>6. (reported \subseteq Slot)' /\ LeftComplete'
    <3>1. \A k \in Slot \ reported' : k < at => Done(k)'
      BY <1>1, <1>2, <1>4, <2>2, BehindKeeps
    <3> QED
      BY <1>1, <1>4, <3>1 DEF LeftComplete
  <2> QED
    BY <2>1, <2>2, <2>5, <2>6, CampaignWhole
<1> QED
  BY <1>3, <1>4 DEF Metrics

\* The series of the round's metrics (resource_collect.py 195-296).
LEMMA SeriesKeeps == ASSUME IInv, Series PROVE IInv'
<1>1. /\ LoadInv /\ LiveInv /\ FilesInv /\ reported \subseteq Slot /\ LeftComplete
  BY CampaignParts
<1>2. stage = "series" /\ UNCHANGED <<chunk, cluster, csv, json, dirty>>
  BY DEF Series
<1>3. CASE RoundFails /\ UNCHANGED res
  BY <1>2, <1>3, FailKeeps DEF fileVars, Leaves
<1>4. ASSUME cluster # {},
             res' = [res EXCEPT ![at] = [by |-> chunk, whole |-> TRUE]],
             stage' = "summary", UNCHANGED <<lvars, at, complete, reported>>
      PROVE  IInv'
  <2>1. LoadInv' /\ (Serial' <=> Serial)
    BY <1>1, <1>4, StepAccounted DEF lvars, Serial
  <2>2. FilesInv' /\ Elsewhere
    BY <1>1, <1>2, <1>4, MetricsWritten
  <2>3. at \in Slot /\ DOMAIN res = Slot
    BY <1>1, <1>2 DEF LiveInv, InTurn, FilesInv, FilesOfPlans
  <2>4. res'[at] = [by |-> chunk, whole |-> TRUE]
    BY <1>4, <2>3
  <2>5. LiveInv'
    <3>1. ClusterOfPlans' /\ ClusterOfLoad'
      BY <1>1, <1>2, <1>4 DEF LiveInv, ClusterOfPlans, ClusterOfLoad, Current
    <3>2. InTurn'
      BY <1>1, <1>2, <1>4, <2>3, <2>4 DEF LiveInv, InTurn
    <3> QED
      BY <1>1, <1>2, <1>4, <2>1, <3>1, <3>2 DEF LiveInv
  <2>6. (reported \subseteq Slot)' /\ LeftComplete'
    <3>1. \A k \in Slot \ reported' : k < at => Done(k)'
      BY <1>1, <1>2, <1>4, <2>2, BehindKeeps
    <3> QED
      BY <1>1, <1>4, <3>1 DEF LeftComplete
  <2> QED
    BY <2>1, <2>2, <2>5, <2>6, CampaignWhole
<1> QED
  BY <1>3, <1>4 DEF Series

\* The summary, the end of the round and the line in the log
\* (resource_collect.py 298-304, run_all.sh 98-104).
LEMMA SummaryKeeps == ASSUME IInv, Summary PROVE IInv'
<1>1. /\ LoadInv /\ LiveInv /\ FilesInv /\ reported \subseteq Slot /\ LeftComplete
  BY CampaignParts
<1>2. /\ stage = "summary" /\ stage' = "clean" /\ at' = at + 1
      /\ json' = [json EXCEPT ![at] = [by |-> chunk, whole |-> TRUE]]
      /\ complete' = complete \cup {<<chunk, at>>}
      /\ UNCHANGED <<lvars, chunk, cluster, csv, res, reported, dirty>>
  BY DEF Summary
<1>3. PICK f : f = [by |-> chunk, whole |-> TRUE]
  OBVIOUS
<1>4. /\ at \in Slot /\ at \in Nat /\ cluster # {} /\ res[at] = f /\ Serial
      /\ csv[at] = [by |-> chunk, rows |-> cluster]
      /\ chunk \in 1..MaxChunks /\ cluster \subseteq Run
  BY <1>1, <1>2, <1>3, SlotRange DEF LiveInv, InTurn
<1>5. csv[at] # NoFile /\ csv[at].by = chunk /\ csv[at].rows = cluster
  <2>1. [by |-> chunk, rows |-> cluster] \in CsvFile
    BY <1>4 DEF CsvFile
  <2> QED
    BY <1>4, <2>1, CampaignAssumption DEF CampaignAssumption
<1>6. LoadInv' /\ LiveInv'
  BY <1>1, <1>2, <1>4, NextRound
<1>7. DOMAIN json = Slot
  BY <1>1 DEF FilesInv, FilesOfPlans
<1>8. json'[at] = f /\ DOMAIN json' = Slot /\ \A k \in Slot : k # at => json'[k] = json[k]
  BY <1>2, <1>3, <1>4, <1>7
<1>9. \A k : Own(k)' = Own(k)
  BY <1>2 DEF Own
<1>10. \A k \in Slot : k # at => (Logged(k)' <=> Logged(k))
  BY <1>2 DEF Logged
<1>11. FilesInv'
  <2>1. FilesOfPlans'
    BY <1>1, <1>2, <1>8 DEF FilesInv, FilesOfPlans
  <2>2. CsvIsWholeLoad'
    <3>1. {x.entry : x \in Own(at)} = DOMAIN PlanOf(at)
      <4>1. Own(at) = OwnOf(cluster)
        BY <1>5 DEF Own, OwnOf
      <4> QED
        BY <1>1, <1>2, <4>1, LoadInCluster
    <3> SUFFICES ASSUME NEW k \in Slot, csv'[k] # NoFile
                 PROVE  /\ csv'[k].rows = Own(k)' \/ dirty'
                        /\ Logged(k)' => {x.entry : x \in Own(k)'} = DOMAIN PlanOf(k)
      BY DEF CsvIsWholeLoad
    <3>2. csv[k].rows = Own(k) \/ dirty
      BY <1>1, <1>2 DEF FilesInv, CsvIsWholeLoad
    <3>3. Logged(k)' => {x.entry : x \in Own(k)} = DOMAIN PlanOf(k)
      <4>1. CASE k = at
        BY <3>1, <4>1
      <4>2. CASE k # at
        BY <1>1, <1>2, <1>10, <4>2 DEF FilesInv, CsvIsWholeLoad
      <4> QED
        BY <4>1, <4>2
    <3> QED
      BY <1>2, <1>9, <3>2, <3>3
  <2>3. FilesOfOneAttempt'
    <3> SUFFICES ASSUME NEW k \in Slot, Logged(k)'
                 PROVE  {res'[k], json'[k]} \subseteq {NoFile, [by |-> csv'[k].by, whole |-> TRUE]}
      BY DEF FilesOfOneAttempt
    <3>1. CASE k = at
      BY <1>2, <1>3, <1>4, <1>5, <1>8, <3>1
    <3>2. CASE k # at
      BY <1>1, <1>2, <1>8, <1>10, <3>2 DEF FilesInv, FilesOfOneAttempt
    <3> QED
      BY <3>1, <3>2
  <2>4. f \in MetricFile
    BY <1>3, <1>4 DEF MetricFile
  <2>5. \A k \in Slot : /\ csv'[k] \in CsvFile \cup {NoFile}
                        /\ {res'[k], json'[k]} \subseteq MetricFile \cup {NoFile}
    <3> SUFFICES ASSUME NEW k \in Slot
                 PROVE  /\ csv'[k] \in CsvFile \cup {NoFile}
                        /\ {res'[k], json'[k]} \subseteq MetricFile \cup {NoFile}
      OBVIOUS
    <3>1. csv'[k] = csv[k] /\ res'[k] = res[k] /\ json'[k] \in {f, json[k]}
      BY <1>2, <1>8
    <3> QED
      BY <1>1, <2>4, <3>1 DEF FilesInv
  <2> QED
    BY <2>1, <2>2, <2>3, <2>5 DEF FilesInv
<1>12. (reported \subseteq Slot)' /\ LeftComplete'
  <2>1. \A k \in Slot : k < at' => k < at \/ k = at
    BY <1>2, <1>4, SlotRange
  <2>2. Elsewhere
    BY <1>2, <1>8 DEF Elsewhere
  <2>3. \A k \in Slot \ reported' : k < at => Done(k)'
    BY <1>1, <1>2, <2>2, BehindKeeps
  <2>4. ASSUME NEW k \in Slot, k = at PROVE Done(k)'
    BY <1>2, <1>3, <1>4, <1>5, <1>8, <2>4 DEF Done
  <2> QED
    BY <1>1, <1>2, <2>1, <2>3, <2>4 DEF LeftComplete
<1> QED
  BY <1>6, <1>11, <1>12, CampaignWhole

\* run_all.sh is called again; files are put aside one by one.
LEMMA ChunkKeeps == ASSUME IInv, NewChunk PROVE IInv'
<1>1. /\ LoadInv /\ LiveInv /\ FilesInv /\ reported \subseteq Slot /\ LeftComplete
  BY CampaignParts
<1>2. /\ chunk < MaxChunks /\ chunk' = chunk + 1
      /\ stage' = "clean" /\ at' = 1 /\ reported' = {} /\ SetLoad(<<>>)
      /\ UNCHANGED <<cluster, complete, dirty>>
  BY DEF NewChunk
<1>3. PICK aside \in Asides :
        /\ csv'  = [k \in Slot |-> IF <<"csv", k>> \in aside THEN NoFile ELSE csv[k]]
        /\ res'  = [k \in Slot |-> IF <<"res", k>> \in aside THEN NoFile ELSE res[k]]
        /\ json' = [k \in Slot |-> IF <<"json", k>> \in aside THEN NoFile ELSE json[k]]
  BY DEF NewChunk
<1>4. LoadInv' /\ Serial'
  BY <1>2, EmptyLoad
<1>5. chunk \in 1..MaxChunks /\ chunk' \in 1..MaxChunks /\ chunk \in Nat
  BY <1>1, <1>2, CampaignAssumption DEF LiveInv, CampaignAssumption
<1>6. LiveInv'
  <2>1. at' \in 1..(Len(Conds) * Rounds + 1)
    BY <1>2, SlotRange
  <2>2. \A x \in cluster : x.entry \in DOMAIN PlanOf(x.slot) /\ x.chunk <= chunk
                           /\ x.chunk \in Nat
    BY <1>1 DEF LiveInv, ClusterOfPlans, Run
  <2>3. ClusterOfPlans'
    BY <1>2, <1>5, <2>2 DEF ClusterOfPlans
  <2>4. \A e \in complete : e[1] <= chunk /\ e[1] \in Nat
    BY <1>1 DEF LiveInv, InTurn
  <2>5. InTurn'
    BY <1>2, <1>5, <2>4 DEF InTurn
  <2> QED
    BY <1>1, <1>2, <1>4, <1>5, <2>1, <2>3, <2>5 DEF LiveInv, ClusterOfLoad
<1>7. /\ DOMAIN csv' = Slot /\ DOMAIN res' = Slot /\ DOMAIN json' = Slot
      /\ \A k \in Slot : /\ csv'[k] \in {csv[k], NoFile} /\ res'[k] \in {res[k], NoFile}
                         /\ json'[k] \in {json[k], NoFile}
  BY <1>3
<1>8. \A k \in Slot : csv'[k] # NoFile =>
         /\ csv[k] # NoFile /\ csv'[k] = csv[k]
         /\ Own(k)' = Own(k) /\ (Logged(k)' <=> Logged(k))
  BY <1>2, <1>7 DEF Own, Logged
<1>9. FilesInv'
  <2>1. FilesOfPlans'
    <3>1. ASSUME NEW k \in Slot, csv'[k] # NoFile
          PROVE  /\ csv'[k].by <= chunk'
                 /\ \A x \in csv'[k].rows : x.entry \in DOMAIN PlanOf(x.slot)
      <4>1. csv[k] # NoFile /\ csv'[k] = csv[k]
        BY <1>8, <3>1
      <4>2. /\ csv[k] \in CsvFile /\ csv[k].by <= chunk
            /\ \A x \in csv[k].rows : x.entry \in DOMAIN PlanOf(x.slot)
        BY <1>1, <4>1 DEF FilesInv, FilesOfPlans
      <4>3. csv[k].by \in Nat
        BY <4>2 DEF CsvFile
      <4> QED
        BY <1>2, <1>5, <4>1, <4>2, <4>3
    <3> QED
      BY <1>7, <3>1 DEF FilesOfPlans
  <2>2. CsvIsWholeLoad'
    BY <1>1, <1>2, <1>8 DEF FilesInv, CsvIsWholeLoad
  <2>3. FilesOfOneAttempt'
    <3> SUFFICES ASSUME NEW k \in Slot, Logged(k)'
                 PROVE  {res'[k], json'[k]} \subseteq {NoFile, [by |-> csv'[k].by, whole |-> TRUE]}
      BY DEF FilesOfOneAttempt
    <3>1. csv'[k] # NoFile
      BY DEF Logged
    <3>2. Logged(k) /\ csv'[k] = csv[k]
      BY <1>8, <3>1
    <3>3. {res[k], json[k]} \subseteq {NoFile, [by |-> csv[k].by, whole |-> TRUE]}
      BY <1>1, <3>2 DEF FilesInv, FilesOfOneAttempt
    <3> QED
      BY <1>7, <3>2, <3>3
  <2>4. \A k \in Slot : /\ csv'[k] \in CsvFile \cup {NoFile}
                        /\ {res'[k], json'[k]} \subseteq MetricFile \cup {NoFile}
    BY <1>1, <1>7 DEF FilesInv
  <2> QED
    BY <2>1, <2>2, <2>3, <2>4 DEF FilesInv
<1>10. (reported \subseteq Slot)' /\ LeftComplete'
  BY <1>2, SlotRange DEF LeftComplete
<1> QED
  BY <1>4, <1>6, <1>9, <1>10, CampaignWhole

-----------------------------------------------------------------------------
LEMMA CampaignStart == CampaignInit => IInv
<1> SUFFICES ASSUME CampaignInit PROVE IInv
  OBVIOUS
<1>1. LoadInv
  BY StartAccounted DEF CampaignInit
<1>2. /\ at = 1 /\ chunk = 1 /\ cluster = {} /\ complete = {} /\ reported = {}
      /\ dirty = FALSE
      /\ csv = [k \in Slot |-> NoFile] /\ res = [k \in Slot |-> NoFile]
      /\ json = [k \in Slot |-> NoFile]
      /\ stage \in {"off", "clean"} /\ (stage = "clean" => Serial)
  BY DEF CampaignInit, FilesInit, NoFiles
<1>3. LiveInv
  <2>1. at \in 1..(Len(Conds) * Rounds + 1) /\ chunk \in 1..MaxChunks
    BY <1>2, SlotRange, CampaignAssumption DEF CampaignAssumption
  <2>2. ClusterOfPlans /\ ClusterOfLoad /\ InTurn
    BY <1>2 DEF ClusterOfPlans, ClusterOfLoad, InTurn
  <2> QED
    BY <1>2, <2>1, <2>2 DEF LiveInv
<1>4. FilesInv
  BY <1>2 DEF FilesInv, FilesOfPlans, CsvIsWholeLoad, FilesOfOneAttempt, Logged
<1>5. reported \subseteq Slot /\ LeftComplete
  BY <1>2, SlotRange DEF LeftComplete
<1> QED
  BY <1>1, <1>3, <1>4, <1>5, CampaignParts

LEMMA CampaignStep == ASSUME IInv, [CampaignNext]_cvars PROVE IInv'
<1>1. CASE UNCHANGED cvars
  <2>1. LoadInv' /\ (Serial' <=> Serial)
    BY <1>1, CampaignParts, StepAccounted DEF cvars, lvars, Serial
  <2>2. /\ UNCHANGED <<stage, at, chunk, cluster, fileVars, complete, reported, dirty>>
        /\ UNCHANGED <<plan, made>>
    BY <1>1 DEF cvars, lvars
  <2>3. LiveInv' /\ FilesInv' /\ LeftComplete' /\ (reported \subseteq Slot)'
    BY <2>1, <2>2, CampaignParts, FilesSurvive
    DEF LiveInv, ClusterOfPlans, ClusterOfLoad, InTurn, Current, Entry, LeftComplete, Done, fileVars
  <2> QED
    BY <2>1, <2>3, CampaignWhole
<1> QED
  BY <1>1, LoneLoadKeeps, CleanKeeps, LoadKeeps, LoadEndsKeeps, KillKeeps, DieKeeps,
     MetricsKeeps, SeriesKeeps, SummaryKeeps, ChunkKeeps
  DEF CampaignNext

\* Whatever fails, is killed, repeated or put aside: the invariant of the
\* campaign, its load, its namespace and its files.
THEOREM CampaignInvariant == CampaignSpec => []IInv
<1>1. CampaignInit => IInv
  BY CampaignStart
<1>2. IInv /\ [CampaignNext]_cvars => IInv'
  BY CampaignStep
<1> QED
  BY <1>1, <1>2, PTL DEF CampaignSpec

\* Indices stay within the plan of the round, files belong to slots of the
\* campaign (run_all.sh 140-170).
THEOREM CampaignTypeCorrect == CampaignSpec => []CampaignTyped
<1>1. IInv => CampaignTyped
  BY DEF IInv, CampaignInv
<1> QED
  BY <1>1, CampaignInvariant, PTL

\* A CSV whose attempt the log calls complete holds the whole load of its
\* round, and any CSV has rows of another attempt only if a cleanup has failed
\* (run_all.sh 76-104, 130-136; metrics_collect.py 22-86).
THEOREM CsvHoldsWholeLoad == CampaignSpec => []CsvIsWholeLoad
<1>1. IInv => CsvIsWholeLoad
  BY DEF IInv, CampaignInv
<1> QED
  BY <1>1, CampaignInvariant, PTL

\* Beside a CSV whose attempt the log calls complete there are only whole files
\* of that attempt, whoever has died and whichever files were put aside
\* (metrics_collect.py 64-76, resource_collect.py 206-214, 289-304).
THEOREM FilesAreOfOneAttempt == CampaignSpec => []FilesOfOneAttempt
<1>1. IInv => FilesOfOneAttempt
  BY DEF IInv, CampaignInv
<1> QED
  BY <1>1, CampaignInvariant, PTL

\* When a call of run_all.sh ends, what it has not made has been reported
\* (run_all.sh 86-104, 172-179).
THEOREM MissingIsAlwaysReported == CampaignSpec => []MissingIsReported
<1>1. IInv => MissingIsReported
  <2> SUFFICES ASSUME IInv, stage = "done", NEW k \in Slot,
                      k \notin reported
               PROVE  Done(k)
    BY DEF MissingIsReported
  <2>1. LiveInv /\ LeftComplete
    BY CampaignParts
  <2>2. k < at
    BY <2>1, SlotRange DEF LiveInv, InTurn
  <2> QED
    BY <2>1, <2>2 DEF LeftComplete
<1> QED
  BY <1>1, CampaignInvariant, PTL

(***************************************************************************)
(* Pairs of files: a condition that has a file for each of its rounds has  *)
(* them in the order of the rounds                                         *)
(***************************************************************************)
LEMMA TimesGrows ==
  ASSUME NEW l \in Nat, NEW x \in Nat, NEW y \in Nat, x <= y
  PROVE  l * x <= l * y
<1>1. PICK d \in Nat : y = x + d
  BY y - x \in Nat
<1>2. l * y = l * x + l * d /\ l * d >= 0 /\ l * x \in Nat /\ l * d \in Nat
  BY <1>1
<1> QED
  BY <1>2

LEMMA Division ==
  ASSUME NEW a \in Nat, NEW l \in Nat \ {0}
  PROVE  a \div l \in Nat /\ a % l \in 0..(l - 1) /\ a = l * (a \div l) + (a % l)
  OBVIOUS

\* Slots are counted condition by condition, round after round.
LEMMA SlotIs ==
  ASSUME NEW k \in Slot
  PROVE  \E p \in DOMAIN Conds : /\ RoundOf(k) \in 1..Rounds /\ CondOf(k) = Conds[p]
                                 /\ k = Len(Conds) * (RoundOf(k) - 1) + p
<1> DEFINE l == Len(Conds)
           q == (k - 1) \div l
           p == ((k - 1) % l) + 1
<1>1. l \in Nat \ {0} /\ Rounds \in Nat \ {0} /\ DOMAIN Conds = 1..l
  BY CampaignAssumption DEF CampaignAssumption
<1>2. k \in 1..(l * Rounds) /\ k - 1 \in Nat
  BY SlotRange
<1>3. RoundOf(k) = q + 1 /\ CondOf(k) = Conds[p]
  BY DEF RoundOf, CondOf
<1> HIDE DEF l
<1>4. q \in Nat /\ p \in 1..l /\ k - 1 = l * q + (p - 1)
  <2>1. PICK a \in Nat : a = k - 1
    BY <1>2
  <2>2. a \div l \in Nat /\ a % l \in 0..(l - 1) /\ a = l * (a \div l) + (a % l)
    BY <1>1, Division
  <2>3. q = a \div l /\ p = (a % l) + 1
    BY <2>1
  <2>4. PICK b : b = a % l
    OBVIOUS
  <2>5. b \in 0..(l - 1) /\ p = b + 1
    BY <2>2, <2>3, <2>4
  <2>6. p \in 1..l /\ p - 1 = b
    BY <1>1, <2>5
  <2> HIDE DEF q, p
  <2> QED
    BY <2>1, <2>2, <2>3, <2>4, <2>6
<1> HIDE DEF q, p
<1>5. q < Rounds
  <2>1. SUFFICES ASSUME Rounds <= q PROVE FALSE
    BY <1>1, <1>4
  <2>2. l * Rounds <= l * q
    BY <1>1, <1>4, <2>1, TimesGrows
  <2>3. l * Rounds \in Nat /\ l * q \in Nat
    BY <1>1, <1>4
  <2> QED
    BY <1>2, <1>4, <2>2, <2>3
<1>6. k = l * (RoundOf(k) - 1) + p /\ RoundOf(k) \in 1..Rounds
  <2>1. RoundOf(k) - 1 = q /\ RoundOf(k) \in 1..Rounds
    BY <1>1, <1>3, <1>4, <1>5
  <2>2. PICK n \in Nat : n = l * q
    BY <1>1, <1>4
  <2>3. k = n + p
    BY <1>1, <1>2, <1>4, <2>2
  <2> QED
    BY <2>1, <2>2, <2>3
<1> QED
  BY <1>1, <1>3, <1>4, <1>6 DEF l

\* Of one condition, an earlier slot is one of an earlier round.
LEMMA RoundsRise ==
  ASSUME NEW j \in Slot, NEW k \in Slot, CondOf(j) = CondOf(k)
  PROVE  /\ j <= k <=> RoundOf(j) <= RoundOf(k)
         /\ RoundOf(j) = RoundOf(k) => j = k
<1> DEFINE l == Len(Conds)
<1>1. l \in Nat \ {0} /\ DOMAIN Conds = 1..l
      /\ \A i, h \in DOMAIN Conds : Conds[i] = Conds[h] => i = h
  BY CampaignAssumption DEF CampaignAssumption
<1>2. PICK p \in DOMAIN Conds : /\ RoundOf(j) \in 1..Rounds /\ CondOf(j) = Conds[p]
                                /\ j = l * (RoundOf(j) - 1) + p
  BY SlotIs
<1>3. PICK s \in DOMAIN Conds : /\ RoundOf(k) \in 1..Rounds /\ CondOf(k) = Conds[s]
                                /\ k = l * (RoundOf(k) - 1) + s
  BY SlotIs
<1>4. p = s
  BY <1>1, <1>2, <1>3
<1> HIDE DEF l
<1>5. PICK x \in Nat : x = RoundOf(j) - 1
  BY <1>2
<1>6. PICK y \in Nat : y = RoundOf(k) - 1
  BY <1>3
<1>7. j = l * x + p /\ k = l * y + p /\ p \in Nat /\ l * x \in Nat /\ l * y \in Nat
  <2>1. j = l * x + p
    BY <1>2, <1>5
  <2>2. k = l * y + p
    BY <1>3, <1>4, <1>6
  <2>3. p \in Nat
    BY <1>1
  <2>4. l * x \in Nat /\ l * y \in Nat
    BY <1>1
  <2> QED
    BY <2>1, <2>2, <2>3, <2>4
<1>8. x <= y => j <= k
  BY <1>1, <1>7, TimesGrows
<1>9. y <= x => k <= j
  BY <1>1, <1>7, TimesGrows
<1>10. j = k => x = y
  <2>1. SUFFICES ASSUME j = k, x # y PROVE FALSE
    OBVIOUS
  <2>2. l * x = l * y
    BY <1>7, <2>1
  <2>3. ASSUME NEW u \in Nat, NEW v \in Nat, u < v, l * u = l * v PROVE FALSE
    <3>1. l * (u + 1) <= l * v
      BY <1>1, <2>3, TimesGrows
    <3>2. l * (u + 1) = l * u + l /\ l * u \in Nat /\ l * v \in Nat
      BY <1>1, <2>3
    <3> QED
      BY <1>1, <2>3, <3>1, <3>2
  <2> QED
    BY <2>1, <2>2, <2>3
<1> QED
  BY <1>2, <1>3, <1>5, <1>6, <1>7, <1>8, <1>9, <1>10

LEMMA FilesFinite ==
  ASSUME NEW c
  PROVE  /\ IsFiniteSet(HasCsv(c)) /\ Cardinality(HasCsv(c)) \in Nat
         /\ DOMAIN Files(c) = 1..Cardinality(HasCsv(c))
         /\ Len(Files(c)) = Cardinality(HasCsv(c))
<1>1. IsFiniteSet(Slot)
  <2>1. PICK n \in Nat : n = Len(Conds) * Rounds
    BY SlotRange
  <2> QED
    BY <2>1, FS_Interval, SlotRange
<1>2. HasCsv(c) \in SUBSET Slot
  BY DEF HasCsv
<1>3. IsFiniteSet(HasCsv(c)) /\ Cardinality(HasCsv(c)) \in Nat
  BY <1>1, <1>2, FS_Subset, FS_CardinalityType
<1>4. PICK n \in Nat : n = Cardinality(HasCsv(c))
  BY <1>3
<1>5. PICK s : s = Files(c)
  OBVIOUS
<1>6. DOMAIN s = 1..n /\ s = [i \in 1..n |-> s[i]]
  <2> DEFINE PlaceOf(i) == CHOOSE k \in HasCsv(c) : Cardinality({j \in HasCsv(c) : j <= k}) = i
  <2>1. s = [i \in 1..n |-> PlaceOf(i)]
    BY <1>4, <1>5 DEF Files
  <2> HIDE DEF PlaceOf
  <2> QED
    BY <2>1
<1>7. s \in Seq({s[i] : i \in 1..n})
  BY <1>6
<1> QED
  BY <1>3, <1>4, <1>5, <1>6, <1>7

\* With a file for every round, the file at position i is that of round i.
LEMMA FilesByRound ==
  ASSUME NEW c, Len(Files(c)) >= Rounds, NEW i \in DOMAIN Files(c)
  PROVE  Files(c)[i] \in HasCsv(c) /\ RoundOf(Files(c)[i]) = i
<1> DEFINE S == HasCsv(c)
           UpTo(k) == {j \in S : j <= k}
<1>0. Rounds \in Nat \ {0}
  BY CampaignAssumption DEF CampaignAssumption
<1>1. /\ IsFiniteSet(S) /\ Cardinality(S) \in Nat /\ Cardinality(S) >= Rounds
      /\ DOMAIN Files(c) = 1..Cardinality(S)
  BY FilesFinite
<1>2. ASSUME NEW k \in S PROVE k \in Slot /\ k \in Nat /\ CondOf(k) = c /\ RoundOf(k) \in 1..Rounds
  BY <1>2, SlotIs, SlotRange DEF HasCsv
<1>3. ASSUME NEW j \in S, NEW k \in S
      PROVE  (j <= k <=> RoundOf(j) <= RoundOf(k)) /\ (RoundOf(j) = RoundOf(k) => j = k)
  BY <1>2, <1>3, RoundsRise
<1> DEFINE f == [k \in S |-> RoundOf(k)]
<1> HIDE DEF S
<1>4. f \in Injection(S, 1..Rounds)
  BY <1>2, <1>3 DEF Injection, IsInjective
<1>5. IsFiniteSet(1..Rounds) /\ Cardinality(1..Rounds) = Rounds
  BY <1>0, FS_Interval
<1>6. Cardinality(S) = Rounds /\ f \in Surjection(S, 1..Rounds)
  <2> HIDE DEF f
  <2> QED
    BY <1>0, <1>1, <1>4, <1>5, FS_Injection
<1>7. \A r \in 1..Rounds : \E k \in S : RoundOf(k) = r
  BY <1>6 DEF Surjection
<1>8. ASSUME NEW k \in S PROVE Cardinality(UpTo(k)) = RoundOf(k)
  <2>1. PICK r \in 1..Rounds : r = RoundOf(k)
    BY <1>2, <1>8
  <2> DEFINE g == [j \in UpTo(k) |-> RoundOf(j)]
  <2>2. \A j \in S : j \in UpTo(k) <=> RoundOf(j) \in 1..r
    BY <1>2, <1>3, <1>8, <2>1
  <2>3. UpTo(k) \in SUBSET S
    OBVIOUS
  <2>4. g \in Injection(UpTo(k), 1..r)
    BY <1>3, <2>2, <2>3 DEF Injection, IsInjective
  <2>5. g \in Surjection(UpTo(k), 1..r)
    <3>1. \A n \in 1..r : \E j \in UpTo(k) : RoundOf(j) = n
      BY <1>0, <1>7, <2>1, <2>2
    <3> QED
      BY <2>4, <3>1 DEF Surjection, Injection
  <2>6. IsFiniteSet(1..r) /\ Cardinality(1..r) = r
    BY <1>0, FS_Interval
  <2> HIDE DEF g, UpTo
  <2> QED
    BY <2>1, <2>4, <2>5, <2>6, FS_Injection
<1>9. i \in 1..Rounds
  BY <1>1, <1>6
<1>10. Files(c)[i] = CHOOSE k \in S : Cardinality(UpTo(k)) = i
  BY <1>1 DEF Files, S
<1> HIDE DEF UpTo
<1>11. PICK k \in S : RoundOf(k) = i
  BY <1>7, <1>9
<1>12. Files(c)[i] \in S /\ Cardinality(UpTo(Files(c)[i])) = i
  <2>1. Cardinality(UpTo(k)) = i
    BY <1>8, <1>11
  <2> QED
    BY <1>10, <2>1
<1> QED
  BY <1>8, <1>12 DEF S

\* When the audit objects to nothing and no later file hides a missing one,
\* files of one position are of one round, and hold what the same requests have
\* led to if both attempts were complete (audit_campaign.py 63-142;
\* make_ch4_tables.py 231-250, 297-305).
THEOREM PairsAreOfOneRound == CampaignSpec => []AuditedPairsMatch
<1>1. ASSUME IInv PROVE AuditedPairsMatch
  <2> DEFINE Asked(s) == {<<x.entry, PlanOf(x.slot)[x.entry]>> : x \in Own(s)}
  <2>1. CsvIsWholeLoad
    BY <1>1 DEF IInv, CampaignInv
  <2>2. ASSUME NEW k \in Slot, Logged(k)
        PROVE  Asked(k) = {<<e, PlanOf(k)[e]>> : e \in DOMAIN PlanOf(k)}
    <3>1. {x.entry : x \in Own(k)} = DOMAIN PlanOf(k)
      BY <2>1, <2>2 DEF CsvIsWholeLoad, Logged
    <3>2. \A x \in Own(k) : x.slot = k
      BY DEF Own
    <3> QED
      BY <3>1, <3>2
  <2> SUFFICES ASSUME NEW later \in Laters, AuditSilent(later),
                      NEW c \in ToSet(Conds), Unhidden(c, later),
                      NEW d \in ToSet(Conds), Unhidden(d, later),
                      NEW i \in DOMAIN Files(c) \cap DOMAIN Files(d)
               PROVE  LET j == Files(c)[i]
                          k == Files(d)[i]
                      IN  /\ RoundOf(j) = RoundOf(k)
                          /\ Logged(j) /\ Logged(k) => Asked(j) = Asked(k)
    BY DEF AuditedPairsMatch
  <2>3. PICK j : j = Files(c)[i]
    OBVIOUS
  <2>4. PICK k : k = Files(d)[i]
    OBVIOUS
  <2>5. ASSUME NEW e \in ToSet(Conds), Unhidden(e, later) PROVE Len(Files(e)) >= Rounds
    <3>1. Len(Files(e)) \in Nat /\ Rounds \in Nat
      BY FilesFinite, CampaignAssumption DEF CampaignAssumption
    <3>2. Len(Files(e)) + later[e] >= Rounds
      BY DEF AuditSilent, EnoughFiles
    <3> QED
      BY <2>5, <3>1, <3>2 DEF Unhidden
  <2>6. /\ j \in HasCsv(c) /\ RoundOf(j) = i
        /\ k \in HasCsv(d) /\ RoundOf(k) = i
    BY <2>3, <2>4, <2>5, FilesByRound
  <2>7. PlanOf(j) = PlanOf(k) /\ j \in Slot /\ k \in Slot
    BY <2>6 DEF PlanOf, HasCsv
  <2>8. Logged(j) => Asked(j) = {<<e, PlanOf(j)[e]>> : e \in DOMAIN PlanOf(j)}
    BY <2>2, <2>7
  <2>9. Logged(k) => Asked(k) = {<<e, PlanOf(k)[e]>> : e \in DOMAIN PlanOf(k)}
    BY <2>2, <2>7
  <2> HIDE DEF Asked
  <2> QED
    BY <2>3, <2>4, <2>6, <2>7, <2>8, <2>9
<1> QED
  BY <1>1, CampaignInvariant, PTL

=============================================================================
