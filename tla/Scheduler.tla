----------------------------- MODULE Scheduler -----------------------------
(***************************************************************************)
(* savvy_scheduler/libscheduler.c: the callbacks a user-thread library     *)
(* makes when a job is created, when a quantum ends and when a job returns.*)
(* The library and its clock are external: they call the scheduler the way *)
(* scheduler_test.c does, a quantum being one unit of time.  libpriqueue   *)
(* is external too: a list kept sorted by insertion only.                  *)
(***************************************************************************)
EXTENDS Integers, Sequences, FiniteSets, FiniteSetsExt, SequencesExt

CONSTANTS
  Jobs, NULL,
  Schemes,      (* the schemes scheduler_start_up may be called with      *)
  RunTime,      (* RunTime[j], Priority[j]: the scheduler_info of job j   *)
  Priority,
  MaxIdle       (* bound on the time that passes with nothing to run      *)

ASSUME SchedulerAssumption ==
  /\ IsFiniteSet(Jobs) /\ NULL \notin Jobs
  /\ Schemes \subseteq {"FCFS", "PRI", "PPRI", "PSRTF", "RR", "SJF"}
  /\ RunTime \in [Jobs -> Nat \ {0}] /\ Priority \in [Jobs -> Nat]
  /\ MaxIdle \in Nat

VARIABLES
  pqueue_scheme, pqueue,
  arrival_time, remaining_time, recent_execution_time, start_time, (* job_info *)
  total_turnaround_time, total_waiting_time, total_response_time, num_job,
  now, phase, cur, (* the caller: its clock, where it is, its job         *)
  ran,             (* history: the quanta job j has been given             *)
  stopped,         (* ... when j last ran, or -1                           *)
  waited, response,(* ... the time j waited, in all and before it first ran*)
  finished,        (* ... the jobs that returned                           *)
  overtaken        (* ... has a quantum ended whose job was not at the head *)
                   (* of the queue, under a preemptive scheme?             *)

queue == <<pqueue_scheme, pqueue>>
info == <<arrival_time, remaining_time, recent_execution_time, start_time>>
totals == <<total_turnaround_time, total_waiting_time, total_response_time, num_job>>
history == <<ran, stopped, waited, response, finished, overtaken>>
vars == <<queue, info, totals, now, phase, cur, history>>

Init ==
  /\ pqueue_scheme = NULL /\ pqueue = <<>>
  /\ arrival_time = [j \in Jobs |-> -1] /\ remaining_time = [j \in Jobs |-> 0]
  /\ recent_execution_time = [j \in Jobs |-> -1] /\ start_time = [j \in Jobs |-> -1]
  /\ total_turnaround_time = 0 /\ total_waiting_time = 0 /\ total_response_time = 0
  /\ num_job = 0
  /\ now = 0 /\ phase = "down" /\ cur = NULL
  /\ ran = [j \in Jobs |-> 0] /\ stopped = [j \in Jobs |-> -1]
  /\ waited = [j \in Jobs |-> 0] /\ response = [j \in Jobs |-> 0]
  /\ finished = {} /\ overtaken = FALSE

(***************************************************************************)
(* The comparers, on the job_info f: a negative, zero or positive number.  *)
(***************************************************************************)
Info == [arrival |-> arrival_time, remaining |-> remaining_time,
         recent |-> recent_execution_time]

comparer_fcfs(f, a, b) == f.arrival[a] - f.arrival[b]
break_tie(f, a, b) == comparer_fcfs(f, a, b)
comparer_pri(f, a, b) ==
  IF Priority[a] # Priority[b] THEN Priority[a] - Priority[b] ELSE break_tie(f, a, b)
comparer_psrtf(f, a, b) ==
  IF f.remaining[a] # f.remaining[b] THEN f.remaining[a] - f.remaining[b]
  ELSE break_tie(f, a, b)
comparer_rr(f, a, b) ==
  IF f.recent[a] # f.recent[b] THEN f.recent[a] - f.recent[b] ELSE break_tie(f, a, b)

comparision_func(f, a, b) ==
  CASE pqueue_scheme = "FCFS" -> comparer_fcfs(f, a, b)
    [] pqueue_scheme \in {"PRI", "PPRI"} -> comparer_pri(f, a, b)
    [] pqueue_scheme \in {"PSRTF", "SJF"} -> comparer_psrtf(f, a, b)
    [] pqueue_scheme = "RR" -> comparer_rr(f, a, b)

(***************************************************************************)
(* libpriqueue: offer inserts before the first larger element and moves    *)
(* nothing else.                                                           *)
(***************************************************************************)
priqueue_offer(q, j, f) ==
  LET larger == {k \in DOMAIN q : comparision_func(f, q[k], j) > 0}
  IN  InsertAt(q, IF larger = {} THEN Len(q) + 1 ELSE Min(larger), j)
priqueue_peek(q) == IF q = <<>> THEN NULL ELSE Head(q)
priqueue_poll(q) == IF q = <<>> THEN q ELSE Tail(q)

(***************************************************************************)
(* The callbacks.                                                          *)
(***************************************************************************)
scheduler_start_up(s) ==
  /\ phase = "down"
  /\ pqueue_scheme' = s
  /\ phase' = "idle"
  /\ UNCHANGED <<pqueue, info, totals, now, cur, history>>

Present == {j \in Jobs : arrival_time[j] # -1 /\ j \notin finished}

scheduler_new_job(j) ==
  /\ phase \in {"idle", "run", "tick"} /\ arrival_time[j] = -1
  /\ arrival_time' = [arrival_time EXCEPT ![j] = now]
  /\ remaining_time' = [remaining_time EXCEPT ![j] = RunTime[j]]
  /\ pqueue' = priqueue_offer(pqueue, j, [Info EXCEPT !.arrival = arrival_time',
                                                      !.remaining = remaining_time'])
  /\ UNCHANGED <<pqueue_scheme, recent_execution_time, start_time, totals, now,
                 phase, cur, history>>

(* scheduler_quantum_expired(NULL, time) *)
dispatch ==
  /\ phase = "idle" /\ pqueue # <<>>
  /\ cur' = priqueue_peek(pqueue) /\ phase' = "run"
  /\ UNCHANGED <<queue, info, totals, now, history>>

Preemptive == pqueue_scheme \in {"PPRI", "PSRTF", "RR"}

(* Mutant: the job starts when its first quantum ends. *)
MutStarted(j) == IF start_time[j] < 0 THEN now ELSE start_time[j]
Started(j) == IF start_time[j] < 0 THEN now - 1 ELSE start_time[j]

(* Mutant: the head of the queue stays where it is. *)
MutRequeue(f) == pqueue
(* The head is polled and offered again, whichever job was evicted. *)
Requeue(f) == priqueue_offer(priqueue_poll(pqueue), priqueue_peek(pqueue), f)

(* scheduler_quantum_expired(job_evicted, time) *)
scheduler_quantum_expired ==
  /\ phase = "tick"
  /\ start_time' = [start_time EXCEPT ![cur] = Started(cur)]
  /\ recent_execution_time' = [recent_execution_time EXCEPT ![cur] = now]
  /\ remaining_time' = [remaining_time EXCEPT ![cur] = @ - 1]
  /\ IF Preemptive
     THEN /\ pqueue' = Requeue([Info EXCEPT !.recent = recent_execution_time',
                                            !.remaining = remaining_time'])
          /\ cur' = priqueue_peek(pqueue')
          /\ overtaken' = (overtaken \/ cur # Head(pqueue))
     ELSE UNCHANGED <<pqueue, cur, overtaken>>
  /\ phase' = "run"
  /\ UNCHANGED <<pqueue_scheme, arrival_time, totals, now, ran, stopped, waited,
                 response, finished>>

(* Mutant: the queue is polled once more, for the job that runs next. *)
MutAfter(q) == priqueue_poll(priqueue_poll(q))
After(q) == priqueue_poll(q)

(* A job returns while it runs.  The head is polled, whichever job is done: *)
(* when that is another one, the queue goes on pointing to the job that is  *)
(* done, which is its owner's to free, and nothing is defined any more.     *)
scheduler_job_finished ==
  /\ phase \in {"run", "tick"} /\ ran[cur] = RunTime[cur]
  /\ total_waiting_time' = total_waiting_time + now - arrival_time[cur] - RunTime[cur]
  /\ total_turnaround_time' = total_turnaround_time + now - arrival_time[cur]
  /\ total_response_time' = total_response_time + start_time[cur] - arrival_time[cur]
  /\ num_job' = num_job + 1
  /\ pqueue' = After(pqueue)
  /\ phase' = IF Head(pqueue) = cur THEN "idle" ELSE "dangling"
  /\ finished' = finished \cup {cur} /\ cur' = NULL
  /\ UNCHANGED <<pqueue_scheme, info, now, ran, stopped, waited, response, overtaken>>

(* Once every job has returned; the averages are the totals over num_job. *)
scheduler_clean_up ==
  /\ phase = "idle" /\ finished = Jobs
  /\ pqueue' = <<>> /\ phase' = "off"
  /\ UNCHANGED <<pqueue_scheme, info, totals, now, cur, history>>

(***************************************************************************)
(* The caller's clock.                                                     *)
(***************************************************************************)
Waited(others) == [j \in Jobs |-> waited[j] + (IF j \in others THEN 1 ELSE 0)]

Run ==
  /\ phase = "run" /\ ran[cur] < RunTime[cur]
  /\ now' = now + 1 /\ phase' = "tick"
  /\ ran' = [ran EXCEPT ![cur] = @ + 1]
  /\ stopped' = [stopped EXCEPT ![cur] = now + 1]
  /\ response' = [response EXCEPT ![cur] = IF ran[cur] = 0 THEN waited[cur] ELSE @]
  /\ waited' = Waited(Present \ {cur})
  /\ UNCHANGED <<queue, info, totals, cur, finished, overtaken>>

Idle ==
  /\ phase = "idle" /\ now < MaxIdle
  /\ now' = now + 1 /\ waited' = Waited(Present)
  /\ UNCHANGED <<queue, info, totals, phase, cur, ran, stopped, response, finished,
                 overtaken>>

Next ==
  \/ \E s \in Schemes : scheduler_start_up(s)
  \/ \E j \in Jobs : scheduler_new_job(j)
  \/ dispatch \/ scheduler_quantum_expired \/ scheduler_job_finished
  \/ scheduler_clean_up \/ Run \/ Idle

Spec == Init /\ [][Next]_vars

(* Time passes and the library makes its calls; nobody has to create jobs. *)
Serve == dispatch \/ scheduler_quantum_expired \/ scheduler_job_finished \/ Run
FairSpec == Spec /\ WF_vars(Serve)

(***************************************************************************)
(* Properties.                                                             *)
(***************************************************************************)
(* When the job that runs was chosen. *)
ChosenAt ==
  IF Preemptive THEN (IF phase = "tick" THEN now - 1 ELSE now) ELSE now - ran[cur]

(* The queue holds the jobs that have arrived and not finished, each once,  *)
(* until a job is done that is not at its head; and only a job that arrived *)
(* since the one that runs was chosen, under any scheme but first come, can *)
(* have taken the head from it (libscheduler.c:187,206).                    *)
NoJobLost ==
  pqueue_scheme # NULL /\ phase # "dangling" =>
    /\ ToSet(pqueue) = Present /\ IsInjective(pqueue)
    /\ phase \in {"run", "tick"} /\ Head(pqueue) # cur =>
         pqueue_scheme # "FCFS" /\ arrival_time[Head(pqueue)] >= ChosenAt

(* What each scheme orders the jobs by, from the history alone. *)
Key(j) ==
  CASE pqueue_scheme = "FCFS" -> arrival_time[j]
    [] pqueue_scheme \in {"PRI", "PPRI"} -> Priority[j]
    [] pqueue_scheme = "SJF" -> RunTime[j]
    [] pqueue_scheme = "PSRTF" -> RunTime[j] - ran[j]
    [] pqueue_scheme = "RR" -> stopped[j]
Ordered(j, k) ==
  \/ Key(j) < Key(k)
  \/ Key(j) = Key(k) /\ arrival_time[j] <= arrival_time[k]

(* Job j is the one to run.  Once the head of the queue was taken from the  *)
(* job that ran, ties between jobs with the same work left are broken by    *)
(* chance, and turns are not given in order any more.                       *)
RightChoice(j) ==
  \A k \in Present :
    \/ Ordered(j, k)
    \/ overtaken /\ pqueue_scheme = "PSRTF" /\ Key(j) = Key(k)
    \/ overtaken /\ pqueue_scheme = "RR"

Chooses ==
  /\ phase' = "run" /\ cur' \notin finished
  /\ phase = "idle" \/ (phase = "tick" /\ Preemptive)
Displaces ==
  cur # NULL /\ cur' # cur /\ pqueue_scheme \in {"FCFS", "PRI", "SJF"}

(* Whenever the scheduler chooses, under a preemptive scheme at every end   *)
(* of a quantum and under the others when nothing runs, no other job comes  *)
(* before its choice, those included that have arrived since the last one:  *)
(* first come, lowest priority number, least work left, or longest without  *)
(* a turn, and then first come, the last two with the exceptions of         *)
(* RightChoice.  Without preemption a job that has begun runs on until it   *)
(* is finished.                                                             *)
ChoosesRight ==
  [][(Chooses => (RightChoice(cur))') /\ (Displaces => cur \in finished')]_vars

(* The response time that is counted for job j: the time it waited before   *)
(* its first quantum; but a job that returns before its first quantum was   *)
(* reported still has the start time of -1.                                 *)
Response(j) == IF start_time[j] = -1 THEN -1 - arrival_time[j] ELSE response[j]

(* The totals are what the jobs went through: the time each waited in all,  *)
(* and waited or ran, and what counts as its response time.                 *)
StatsExact ==
  /\ total_waiting_time = MapThenSumSet(LAMBDA j : waited[j], finished)
  /\ total_turnaround_time = MapThenSumSet(LAMBDA j : waited[j] + ran[j], finished)
  /\ num_job = Cardinality(finished)
  /\ total_response_time = MapThenSumSet(Response, finished)

(* Every job that arrives is finished. *)
AllFinished == \A j \in Jobs : arrival_time[j] # -1 => j \in finished
=============================================================================
