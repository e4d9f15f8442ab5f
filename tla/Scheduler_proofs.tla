-------------------------- MODULE Scheduler_proofs --------------------------
(***************************************************************************)
(* Proofs about programs that manage jobs or processes: Scheduler, for any *)
(* jobs that arrive at any time, and any scheme; Shell, for any lines of   *)
(* any commands and any pids; and MapReduce, for any number of mappers,    *)
(* any input of theirs and any capacity of pipes.                          *)
(***************************************************************************)
EXTENDS Scheduler, Processes, SequenceLemmas, TLAPS

AllSchemes == {"FCFS", "PRI", "PPRI", "PSRTF", "RR", "SJF"}

(* The order of the queue: by the number a scheme looks at first, then by   *)
(* arrival.                                                                 *)
FirstKey(scheme, remaining, recent) ==
  [j \in Jobs |-> CASE scheme = "FCFS" -> 0
                    [] scheme \in {"PRI", "PPRI"} -> Priority[j]
                    [] scheme \in {"PSRTF", "SJF"} -> remaining[j]
                    [] scheme = "RR" -> recent[j]]
NotAfter(key, arrival, a, b) ==
  key[a] < key[b] \/ (key[a] = key[b] /\ arrival[a] <= arrival[b])
(* q is ordered, but job x may stand too late in it. *)
Sorted(key, arrival, x, q) ==
  \A k, l \in 1..Len(q) : k < l /\ q[l] # x => NotAfter(key, arrival, q[k], q[l])
(* What stands before x comes before it by key alone. *)
Ahead(key, x, q) ==
  \A k, l \in 1..Len(q) : k < l /\ q[l] = x => key[q[k]] < key[x]

TypeOK ==
  /\ phase \in {"down", "idle", "run", "tick", "off", "dangling"}
  /\ phase # "down" => pqueue_scheme \in AllSchemes
  /\ pqueue \in Seq(Jobs) /\ cur \in Jobs \cup {NULL} /\ finished \subseteq Jobs
  /\ now \in Nat /\ overtaken \in BOOLEAN
  /\ arrival_time \in [Jobs -> Int] /\ remaining_time \in [Jobs -> Int]
  /\ recent_execution_time \in [Jobs -> Int] /\ ran \in [Jobs -> Int]
  /\ stopped \in [Jobs -> Int]

(* Each job present is in the queue once, and what runs is at its head, or  *)
(* behind a job that arrived since it was chosen: scheduler_job_finished    *)
(* and scheduler_quantum_expired rely on the former.                        *)
Accounted ==
  /\ phase # "dangling" =>
       /\ ToSet(pqueue) = Present
       /\ \A k, l \in 1..Len(pqueue) : pqueue[k] = pqueue[l] => k = l
  /\ phase \in {"run", "tick"} =>
       /\ pqueue # <<>> /\ cur \in Present
       /\ Head(pqueue) # cur =>
            pqueue_scheme # "FCFS" /\ arrival_time[Head(pqueue)] >= ChosenAt
  /\ phase \notin {"run", "tick"} => cur = NULL
  /\ phase = "down" => Present = {}
  /\ \A j \in Jobs : -1 <= arrival_time[j] /\ arrival_time[j] <= now
  /\ \A j \in finished : arrival_time[j] # -1

(* The head is polled and offered again with its new key.  When it is not   *)
(* the job that ran, that one keeps its place with a new key: the queue     *)
(* stays ordered under schemes whose keys are fixed, is ordered by the work *)
(* left alone under PSRTF, and in no order any more under RR.               *)
Fixed == pqueue_scheme \in {"FCFS", "PRI", "PPRI"}
Steady == pqueue_scheme \notin {"PSRTF", "RR"} \/ ~overtaken
Astray == IF Fixed THEN NULL ELSE cur
Zero == [j \in Jobs |-> 0]

First == FirstKey(pqueue_scheme, remaining_time, recent_execution_time)
InOrder ==
  phase \notin {"down", "dangling"} =>
    /\ Steady => Sorted(First, arrival_time, Astray, pqueue)
    /\ pqueue_scheme = "PSRTF" => Sorted(First, Zero, NULL, pqueue)
    /\ pqueue_scheme = "PSRTF" /\ cur # NULL => Ahead(First, cur, pqueue)

(* The job_info agrees with what happened, but for the job whose quantum    *)
(* has not been reported yet; without preemption only one job has begun.    *)
Agreement ==
  /\ \A j \in Jobs : arrival_time[j] = -1 =>
       ran[j] = 0 /\ recent_execution_time[j] = stopped[j]
  /\ \A j \in Present : ~(phase = "tick" /\ j = cur) =>
       /\ remaining_time[j] = RunTime[j] - ran[j]
       /\ recent_execution_time[j] = stopped[j]
  /\ phase = "tick" => /\ remaining_time[cur] = RunTime[cur] - ran[cur] + 1
                       /\ stopped[cur] = now
  /\ phase # "down" /\ ~Preemptive => \A j \in Present : j # cur => ran[j] = 0
  /\ \A j \in Jobs : ran[j] >= 0

(* The inductive invariant. *)
SchedInv == TypeOK /\ Accounted /\ InOrder /\ Agreement

(***************************************************************************)
(* The comparers and the queue.                                            *)
(***************************************************************************)
LEMMA KeyType ==
  ASSUME NEW scheme \in AllSchemes, NEW rem \in [Jobs -> Int], NEW rec \in [Jobs -> Int]
  PROVE  FirstKey(scheme, rem, rec) \in [Jobs -> Int]
BY SchedulerAssumption DEF AllSchemes, FirstKey

(* The comparers order by the first key and then by arrival. *)
LEMMA Compares ==
  ASSUME NEW f, NEW a \in Jobs, NEW b \in Jobs, pqueue_scheme \in AllSchemes,
         f.arrival \in [Jobs -> Int], f.remaining \in [Jobs -> Int],
         f.recent \in [Jobs -> Int]
  PROVE  comparision_func(f, a, b) > 0 <=>
           ~NotAfter(FirstKey(pqueue_scheme, f.remaining, f.recent), f.arrival, a, b)
<1>0. /\ Priority[a] \in Int /\ Priority[b] \in Int
      /\ f.arrival[a] \in Int /\ f.arrival[b] \in Int
      /\ f.remaining[a] \in Int /\ f.remaining[b] \in Int
      /\ f.recent[a] \in Int /\ f.recent[b] \in Int
  BY SchedulerAssumption
<1>1. CASE pqueue_scheme = "FCFS"
  BY <1>0, <1>1 DEF comparision_func, comparer_fcfs, NotAfter, FirstKey
<1>2. CASE pqueue_scheme \in {"PRI", "PPRI"}
  BY <1>0, <1>2 DEF comparision_func, comparer_pri, break_tie, comparer_fcfs,
     NotAfter, FirstKey
<1>3. CASE pqueue_scheme \in {"PSRTF", "SJF"}
  BY <1>0, <1>3 DEF comparision_func, comparer_psrtf, break_tie, comparer_fcfs,
     NotAfter, FirstKey
<1>4. CASE pqueue_scheme = "RR"
  BY <1>0, <1>4 DEF comparision_func, comparer_rr, break_tie, comparer_fcfs,
     NotAfter, FirstKey
<1> QED
  BY <1>1, <1>2, <1>3, <1>4 DEF AllSchemes

LEMMA NotAfterOrder ==
  ASSUME NEW key \in [Jobs -> Int], NEW arr \in [Jobs -> Int],
         NEW a \in Jobs, NEW b \in Jobs, NEW c \in Jobs
  PROVE  /\ NotAfter(key, arr, a, a)
         /\ NotAfter(key, arr, a, b) \/ NotAfter(key, arr, b, a)
         /\ NotAfter(key, arr, a, b) /\ NotAfter(key, arr, b, c) => NotAfter(key, arr, a, c)
<1>1. /\ key[a] \in Int /\ key[b] \in Int /\ key[c] \in Int
      /\ arr[a] \in Int /\ arr[b] \in Int /\ arr[c] \in Int
  OBVIOUS
<1> QED
  BY <1>1 DEF NotAfter

(* r is q with j before the first job that is larger. *)
Inserted(r, q, j, f) ==
  \E p \in 1..(Len(q) + 1) :
    /\ \A k \in 1..(Len(q) + 1) :
         r[k] = IF k < p THEN q[k] ELSE IF k = p THEN j ELSE q[k - 1]
    /\ \A k \in 1..Len(q) : k < p => ~ comparision_func(f, q[k], j) > 0
    /\ p \in 1..Len(q) => comparision_func(f, q[p], j) > 0

LEMMA OfferInserts ==
  ASSUME NEW q \in Seq(Jobs), NEW j \in Jobs, NEW f, j \notin ToSet(q),
         \A k, l \in 1..Len(q) : q[k] = q[l] => k = l,
         NEW r, r = priqueue_offer(q, j, f)
  PROVE  /\ r \in Seq(Jobs) /\ ToSet(r) = ToSet(q) \cup {j} /\ Len(r) = Len(q) + 1
         /\ \A k, l \in 1..Len(r) : r[k] = r[l] => k = l
         /\ Inserted(r, q, j, f)
<1> DEFINE larger == {k \in DOMAIN q : comparision_func(f, q[k], j) > 0}
           p == IF larger = {} THEN Len(q) + 1 ELSE Min(larger)
<1>1. r = InsertAt(q, p, j)
  BY DEF priqueue_offer
<1>2. larger = {k \in 1..Len(q) : comparision_func(f, q[k], j) > 0} /\ Len(q) \in Nat
  OBVIOUS
<1> HIDE DEF larger
<1>3. larger \subseteq Nat /\ larger \subseteq 1..Len(q)
  BY <1>2
<1>4. larger # {} => Min(larger) \in larger /\ \A n \in larger : Min(larger) <= n
  BY <1>3, MinOfSet
<1>5. /\ p \in 1..(Len(q) + 1)
      /\ \A k \in 1..Len(q) : k < p => k \notin larger
      /\ p \in 1..Len(q) => p \in larger
  <2>1. CASE larger = {}
    BY <1>2, <2>1
  <2>2. CASE larger # {}
    <3>1. p = Min(larger)
      BY <2>2
    <3> HIDE DEF p
    <3>2. p \in larger /\ \A n \in larger : p <= n
      BY <1>4, <2>2, <3>1
    <3>3. p \in 1..Len(q)
      BY <1>3, <3>2
    <3>4. ASSUME NEW k \in 1..Len(q), k < p PROVE k \notin larger
      <4>1. ~(p <= k)
        BY <3>3, <3>4
      <4> QED
        BY <3>2, <4>1
    <3> QED
      BY <1>2, <3>2, <3>3, <3>4
  <2> QED
    BY <2>1, <2>2
<1> HIDE DEF p
<1>6. /\ r \in Seq(Jobs) /\ Len(r) = Len(q) + 1
      /\ \A k \in 1..(Len(q) + 1) :
           r[k] = IF k < p THEN q[k] ELSE IF k = p THEN j ELSE q[k - 1]
  <2>1. /\ InsertAt(q, p, j) \in Seq(Jobs) /\ Len(InsertAt(q, p, j)) = Len(q) + 1
        /\ \A k \in 1..(Len(q) + 1) : InsertAt(q, p, j)[k]
             = IF k < p THEN q[k] ELSE IF k = p THEN j ELSE q[k - 1]
    BY <1>5, InsertAtProperties
  <2> QED
    BY <1>1, <2>1
<1>7. /\ \A k, l \in 1..Len(r) : r[k] = r[l] => k = l
      /\ ToSet(r) = ToSet(q) \cup {j}
  BY <1>1, <1>5, InsertDistinct
<1>8. /\ \A k \in 1..Len(q) : k < p => ~ comparision_func(f, q[k], j) > 0
      /\ p \in 1..Len(q) => comparision_func(f, q[p], j) > 0
  BY <1>2, <1>5
<1> QED
  BY <1>5, <1>6, <1>7, <1>8 DEF Inserted

(* An ordered queue stays ordered when a job is offered. *)
LEMMA OfferSorts ==
  ASSUME NEW q \in Seq(Jobs), NEW j \in Jobs, NEW f, j \notin ToSet(q), NEW x,
         \A k, l \in 1..Len(q) : q[k] = q[l] => k = l,
         pqueue_scheme \in AllSchemes,
         f.arrival \in [Jobs -> Int], f.remaining \in [Jobs -> Int],
         f.recent \in [Jobs -> Int], NEW arr \in {f.arrival, Zero},
         Sorted(FirstKey(pqueue_scheme, f.remaining, f.recent), arr, x, q),
         NEW r, r = priqueue_offer(q, j, f)
  PROVE  Sorted(FirstKey(pqueue_scheme, f.remaining, f.recent), arr, x, r)
<1> DEFINE key == FirstKey(pqueue_scheme, f.remaining, f.recent)
           Before(a, b) == NotAfter(key, arr, a, b)
<1>1. key \in [Jobs -> Int] /\ arr \in [Jobs -> Int]
  <2>1. Zero \in [Jobs -> Int]
    BY DEF Zero
  <2>2. arr \in [Jobs -> Int]
    BY <2>1
  <2> QED
    BY <2>2, KeyType
<1>2. Len(r) = Len(q) + 1 /\ Len(q) \in Nat /\ Inserted(r, q, j, f)
  BY OfferInserts
<1>3. PICK p \in 1..(Len(q) + 1) :
           /\ \A k \in 1..(Len(q) + 1) :
                r[k] = IF k < p THEN q[k] ELSE IF k = p THEN j ELSE q[k - 1]
           /\ \A k \in 1..Len(q) : k < p => ~ comparision_func(f, q[k], j) > 0
           /\ p \in 1..Len(q) => comparision_func(f, q[p], j) > 0
  BY <1>2 DEF Inserted
<1>4. \A k \in 1..Len(q) : q[k] \in Jobs
  OBVIOUS
<1>5. ASSUME NEW k \in 1..Len(q)
      PROVE  /\ ~ comparision_func(f, q[k], j) > 0 => Before(q[k], j)
             /\ comparision_func(f, q[k], j) > 0 => Before(j, q[k])
  <2>1. comparision_func(f, q[k], j) > 0 <=> ~NotAfter(key, f.arrival, q[k], j)
    BY <1>4, Compares
  <2>2. key[q[k]] \in Int /\ key[j] \in Int /\ f.arrival[q[k]] \in Int /\ f.arrival[j] \in Int
    <3>1. q[k] \in Jobs
      BY <1>4
    <3> HIDE DEF key
    <3> QED
      BY <1>1, <3>1
  <2> HIDE DEF key
  <2>5. /\ NotAfter(key, f.arrival, q[k], j) => key[q[k]] <= key[j]
        /\ ~NotAfter(key, f.arrival, q[k], j) => key[j] <= key[q[k]]
        /\ ~NotAfter(key, f.arrival, q[k], j) => NotAfter(key, f.arrival, j, q[k])
    BY <2>2 DEF NotAfter
  <2>3. CASE arr = f.arrival
    BY <2>1, <2>3, <2>5
  <2>4. CASE arr = Zero
    <3>1. arr[q[k]] = 0 /\ arr[j] = 0
      BY <1>4, <2>4 DEF Zero
    <3>2. /\ key[q[k]] <= key[j] => Before(q[k], j)
          /\ key[j] <= key[q[k]] => Before(j, q[k])
      BY <2>2, <3>1 DEF NotAfter
    <3> QED
      BY <2>1, <2>5, <3>2
  <2> QED
    BY <2>3, <2>4
<1>6. \A k, l \in 1..Len(q) : k < l /\ q[l] # x => Before(q[k], q[l])
  BY DEF Sorted
<1>7. /\ \A a, b \in Jobs : Before(a, b) \/ Before(b, a)
      /\ \A a, b, c \in Jobs : Before(a, b) /\ Before(b, c) => Before(a, c)
  BY <1>1, NotAfterOrder
<1> HIDE DEF key, Before
<1>8. \A k \in 1..Len(q) : k < p => Before(q[k], j)
  BY <1>3, <1>5
<1>9. ASSUME NEW k \in 1..Len(q), p <= k, q[k] # x PROVE Before(j, q[k])
  <2>1. p \in 1..Len(q)
    BY <1>2, <1>9
  <2>2. Before(j, q[p])
    BY <1>3, <1>5, <2>1
  <2>3. CASE p = k
    BY <2>2, <2>3
  <2>4. CASE p < k
    BY <1>4, <1>6, <1>7, <1>9, <2>1, <2>2, <2>4
  <2> QED
    BY <1>9, <2>1, <2>3, <2>4
<1>10. ASSUME NEW k \in 1..(Len(q) + 1)
       PROVE  /\ k < p => k \in 1..Len(q) /\ r[k] = q[k]
              /\ k = p => r[k] = j
              /\ k > p => k - 1 \in 1..Len(q) /\ p <= k - 1 /\ r[k] = q[k - 1]
  <2>1. r[k] = IF k < p THEN q[k] ELSE IF k = p THEN j ELSE q[k - 1]
    BY <1>3
  <2>2. k < p => k \in 1..Len(q)
    BY <1>2
  <2>3. k > p => k - 1 \in 1..Len(q) /\ p <= k - 1 /\ ~(k < p) /\ k # p
    BY <1>2
  <2>4. k = p => ~(k < p)
    BY <1>2
  <2> QED
    BY <2>1, <2>2, <2>3, <2>4
<1>11. ASSUME NEW k \in 1..(Len(q) + 1), NEW l \in 1..(Len(q) + 1), k < l, r[l] # x
       PROVE  Before(r[k], r[l])
  <2>1. CASE l < p
    <3>1. k < p
      BY <1>2, <1>11, <2>1
    <3>2. k \in 1..Len(q) /\ l \in 1..Len(q) /\ r[k] = q[k] /\ r[l] = q[l]
      BY <1>10, <2>1, <3>1
    <3> QED
      BY <1>6, <1>11, <3>2
  <2>2. CASE l = p
    <3>1. k < p
      BY <1>11, <2>2
    <3>2. k \in 1..Len(q) /\ r[k] = q[k] /\ r[l] = j
      BY <1>10, <2>2, <3>1
    <3> QED
      BY <1>8, <3>1, <3>2
  <2>3. CASE l > p /\ k = p
    <3>1. l - 1 \in 1..Len(q) /\ p <= l - 1 /\ r[k] = j /\ r[l] = q[l - 1]
      BY <1>10, <2>3
    <3> QED
      BY <1>9, <1>11, <3>1
  <2>4. CASE l > p /\ k < p
    <3>1. /\ l - 1 \in 1..Len(q) /\ p <= l - 1 /\ r[l] = q[l - 1]
          /\ k \in 1..Len(q) /\ r[k] = q[k]
      BY <1>10, <2>4
    <3>2. k < l - 1
      BY <1>2, <2>4, <3>1
    <3> QED
      BY <1>6, <1>11, <3>1, <3>2
  <2>5. CASE l > p /\ k > p
    <3>1. /\ l - 1 \in 1..Len(q) /\ r[l] = q[l - 1]
          /\ k - 1 \in 1..Len(q) /\ r[k] = q[k - 1]
      BY <1>10, <2>5
    <3>2. k - 1 < l - 1
      BY <1>11
    <3> QED
      BY <1>6, <1>11, <3>1, <3>2
  <2>6. k \in Int /\ l \in Int /\ p \in Int
    BY <1>2
  <2>7. l < p \/ l = p \/ (l > p /\ k = p) \/ (l > p /\ k < p) \/ (l > p /\ k > p)
    BY <2>6
  <2> QED
    BY <2>1, <2>2, <2>3, <2>4, <2>5, <2>7
<1> QED
  BY <1>2, <1>11 DEF Sorted, key, Before

(* A job that arrives last goes before another only by its key. *)
LEMMA OfferAhead ==
  ASSUME NEW q \in Seq(Jobs), NEW j \in Jobs, NEW f, j \notin ToSet(q),
         \A k, l \in 1..Len(q) : q[k] = q[l] => k = l,
         pqueue_scheme \in AllSchemes,
         f.arrival \in [Jobs -> Int], f.remaining \in [Jobs -> Int],
         f.recent \in [Jobs -> Int],
         \A a \in ToSet(q) : f.arrival[a] <= f.arrival[j],
         NEW x \in Jobs, x # j,
         Ahead(FirstKey(pqueue_scheme, f.remaining, f.recent), x, q),
         NEW r, r = priqueue_offer(q, j, f)
  PROVE  Ahead(FirstKey(pqueue_scheme, f.remaining, f.recent), x, r)
<1> DEFINE key == FirstKey(pqueue_scheme, f.remaining, f.recent)
<1>1. key \in [Jobs -> Int]
  BY KeyType
<1>2. Len(r) = Len(q) + 1 /\ Len(q) \in Nat /\ Inserted(r, q, j, f)
  BY OfferInserts
<1>3. PICK p \in 1..(Len(q) + 1) :
           /\ \A k \in 1..(Len(q) + 1) :
                r[k] = IF k < p THEN q[k] ELSE IF k = p THEN j ELSE q[k - 1]
           /\ p \in 1..Len(q) => comparision_func(f, q[p], j) > 0
  BY <1>2 DEF Inserted
<1>4. p \in 1..Len(q) => key[j] < key[q[p]]
  <2> SUFFICES ASSUME p \in 1..Len(q) PROVE key[j] < key[q[p]]
    OBVIOUS
  <2>1. q[p] \in Jobs /\ q[p] \in ToSet(q)
    BY Elements
  <2>2. ~NotAfter(key, f.arrival, q[p], j)
    BY <1>3, <2>1, Compares
  <2>3. /\ key[q[p]] \in Int /\ key[j] \in Int /\ f.arrival[q[p]] \in Int
        /\ f.arrival[j] \in Int /\ f.arrival[q[p]] <= f.arrival[j]
    BY <1>1, <2>1
  <2> QED
    BY <2>2, <2>3 DEF NotAfter
<1>5. \A k, l \in 1..Len(q) : k < l /\ q[l] = x => key[q[k]] < key[x]
  BY DEF Ahead
<1> HIDE DEF key
<1>6. \A k \in 1..Len(q) : key[q[k]] \in Int
  <2>1. \A k \in 1..Len(q) : q[k] \in Jobs
    OBVIOUS
  <2> QED
    BY <1>1, <2>1
<1>7. key[j] \in Int /\ key[x] \in Int
  BY <1>1
<1>9. ASSUME NEW k \in 1..Len(r)
      PROVE  /\ k < p => k \in 1..Len(q) /\ r[k] = q[k]
             /\ k = p => r[k] = j
             /\ k > p => k - 1 \in 1..Len(q) /\ r[k] = q[k - 1]
  <2>1. k \in 1..(Len(q) + 1) /\ p \in 1..(Len(q) + 1)
    BY <1>2
  <2>2. r[k] = IF k < p THEN q[k] ELSE IF k = p THEN j ELSE q[k - 1]
    BY <1>3, <2>1
  <2> QED
    BY <1>2, <2>1, <2>2
<1>8. ASSUME NEW k \in 1..Len(r), NEW l \in 1..Len(r), k < l, r[l] = x
      PROVE  key[r[k]] < key[x]
  <2>4. /\ k < p => k \in 1..Len(q) /\ r[k] = q[k]
        /\ k = p => r[k] = j
        /\ k > p => k - 1 \in 1..Len(q) /\ r[k] = q[k - 1]
    BY <1>9
  <2>5. /\ l < p => l \in 1..Len(q) /\ r[l] = q[l]
        /\ l = p => r[l] = j
        /\ l > p => l - 1 \in 1..Len(q) /\ r[l] = q[l - 1]
    BY <1>9
  <2>6. Len(r) \in Nat /\ Len(r) = Len(q) + 1 /\ Len(q) \in Nat
    BY <1>2
  <2>1. l # p /\ p \in Nat /\ k \in Nat /\ l \in Nat
    BY <1>8, <2>5, <2>6
  <2>2. CASE l < p
    <3>1. k \in 1..Len(q) /\ l \in 1..Len(q) /\ r[k] = q[k] /\ r[l] = q[l]
      BY <1>8, <2>1, <2>2, <2>4, <2>5
    <3> QED
      BY <1>5, <1>8, <3>1
  <2>3. CASE l > p
    <3>1. l - 1 \in 1..Len(q) /\ r[l] = q[l - 1]
      BY <2>3, <2>5
    <3>2. CASE k < p
      <4>1. k \in 1..Len(q) /\ r[k] = q[k] /\ k < l - 1
        BY <2>1, <2>3, <2>4, <3>1, <3>2
      <4> QED
        BY <1>5, <1>8, <3>1, <4>1
    <3>3. CASE k = p
      <4>1. p \in 1..Len(q) /\ r[k] = j /\ p <= l - 1
        BY <2>1, <2>3, <2>4, <2>6, <3>1, <3>3
      <4>2. key[j] < key[q[p]]
        BY <1>4, <4>1
      <4>3. q[l - 1] = x
        BY <1>8, <3>1
      <4>4. CASE p = l - 1
        <5>1. q[p] = x
          BY <2>1, <4>3, <4>4
        <5> QED
          BY <4>1, <4>2, <5>1
      <4>5. CASE p # l - 1
        <5>4. p <= l - 1 /\ p \in Nat /\ l \in Nat
          BY <2>1, <4>1
        <5>1. p < l - 1
          BY <4>5, <5>4
        <5>2. key[q[p]] < key[x]
          BY <1>5, <3>1, <4>1, <4>3, <5>1
        <5>3. key[q[p]] \in Int
          BY <1>6, <4>1
        <5> QED
          BY <1>7, <4>1, <4>2, <5>2, <5>3
      <4> QED
        BY <4>4, <4>5
    <3>4. CASE k > p
      <4>1. k - 1 \in 1..Len(q) /\ r[k] = q[k - 1] /\ k - 1 < l - 1
        BY <1>8, <2>1, <2>4, <3>4
      <4> QED
        BY <1>5, <1>8, <3>1, <4>1
    <3> QED
      BY <2>1, <3>2, <3>3, <3>4
  <2> QED
    BY <2>1, <2>2, <2>3
<1> QED
  BY <1>8 DEF Ahead, key

LEMMA SortedSame ==
  ASSUME NEW q \in Seq(Jobs), NEW key, NEW arr, NEW key2, NEW arr2, NEW x,
         \A a \in ToSet(q) : key2[a] = key[a] /\ arr2[a] = arr[a],
         Sorted(key, arr, x, q)
  PROVE  Sorted(key2, arr2, x, q)
<1>1. \A k \in 1..Len(q) : key2[q[k]] = key[q[k]] /\ arr2[q[k]] = arr[q[k]]
  BY Elements
<1> QED
  BY <1>1 DEF Sorted, NotAfter

LEMMA AheadSame ==
  ASSUME NEW q \in Seq(Jobs), NEW key, NEW key2, NEW x,
         \A a \in ToSet(q) : key2[a] = key[a], Ahead(key, x, q)
  PROVE  Ahead(key2, x, q)
<1>1. \A k \in 1..Len(q) : key2[q[k]] = key[q[k]]
  BY Elements
<1> QED
  BY <1>1 DEF Ahead

(* The tail of an ordered queue is ordered, and whole where x was its head. *)
LEMMA SortedTail ==
  ASSUME NEW q \in Seq(Jobs), q # <<>>, NEW key, NEW arr, NEW x, Sorted(key, arr, x, q),
         \A k, l \in 1..Len(q) : q[k] = q[l] => k = l
  PROVE  /\ Sorted(key, arr, x, Tail(q))
         /\ x = Head(q) \/ x \notin Jobs => Sorted(key, arr, NULL, Tail(q))
<1>1. /\ Len(Tail(q)) = Len(q) - 1 /\ Len(q) \in Nat /\ Head(q) = q[1] /\ 1 \in 1..Len(q)
      /\ \A k \in 1..(Len(q) - 1) : Tail(q)[k] = q[k + 1]
  OBVIOUS
<1>2. ASSUME NEW k \in 1..Len(Tail(q)), NEW l \in 1..Len(Tail(q)), k < l
      PROVE  /\ Tail(q)[l] # x => NotAfter(key, arr, Tail(q)[k], Tail(q)[l])
             /\ x = Head(q) \/ x \notin Jobs => Tail(q)[l] # x
  <2>1. k + 1 \in 1..Len(q) /\ l + 1 \in 1..Len(q) /\ k + 1 < l + 1 /\ l + 1 # 1
    BY <1>1, <1>2
  <2>2. q[l + 1] # x => NotAfter(key, arr, q[k + 1], q[l + 1])
    BY <2>1 DEF Sorted
  <2>3. Tail(q)[k] = q[k + 1] /\ Tail(q)[l] = q[l + 1]
    BY <1>1
  <2>4. q[l + 1] # q[1] /\ q[l + 1] \in Jobs
    BY <1>1, <2>1
  <2> QED
    BY <1>1, <2>2, <2>3, <2>4
<1> QED
  BY <1>2 DEF Sorted

(***************************************************************************)
(* The invariant.                                                          *)
(***************************************************************************)
LEMMA SchedInitially == Init => SchedInv
<1> SUFFICES ASSUME Init PROVE SchedInv
  OBVIOUS
<1> USE SchedulerAssumption DEF Init
<1>1. ToSet(pqueue) = {} /\ Present = {} /\ Len(pqueue) = 0 /\ pqueue \in Seq(Jobs)
  BY DEF ToSet, Present
<1>2. TypeOK
  <2>1. /\ arrival_time \in [Jobs -> Int] /\ remaining_time \in [Jobs -> Int]
        /\ recent_execution_time \in [Jobs -> Int] /\ ran \in [Jobs -> Int]
        /\ stopped \in [Jobs -> Int]
    OBVIOUS
  <2> QED
    BY <1>1, <2>1 DEF TypeOK
<1>5. InOrder
  BY DEF InOrder
<1>3. Accounted
  BY <1>1 DEF Accounted
<1>4. Agreement
  BY <1>1 DEF Agreement
<1> QED
  BY <1>2, <1>3, <1>4, <1>5 DEF SchedInv

LEMMA StartUpKeeps ==
  ASSUME SchedInv, NEW s \in Schemes, scheduler_start_up(s)
  PROVE  SchedInv'
<1>0. /\ TypeOK /\ Accounted /\ Agreement
      /\ phase = "down" /\ phase' = "idle" /\ pqueue_scheme' = s /\ s \in AllSchemes
      /\ UNCHANGED <<pqueue, arrival_time, remaining_time, recent_execution_time,
                     now, cur, ran, stopped, finished, overtaken>>
  BY SchedulerAssumption DEF SchedInv, scheduler_start_up, AllSchemes, info, history
<1>1. Present = {} /\ Present' = {}
  BY <1>0 DEF Accounted, Present
<1>2. \A k \in 1..Len(pqueue) : FALSE
  BY <1>0, <1>1, Elements DEF TypeOK, Accounted
<1>3. TypeOK'
  BY <1>0 DEF TypeOK
<1>4. Accounted'
  BY <1>0, <1>1 DEF Accounted
<1>5. InOrder'
  BY <1>0, <1>2 DEF InOrder, Sorted, Ahead
<1>6. Agreement'
  BY <1>0, <1>1 DEF Agreement
<1> QED
  BY <1>3, <1>4, <1>5, <1>6 DEF SchedInv

(* What runs is in the queue. *)
LEMMA RunsFromQueue ==
  ASSUME TypeOK, Accounted, phase \in {"run", "tick"}
  PROVE  /\ pqueue # <<>> /\ Head(pqueue) = pqueue[1] /\ Len(pqueue) \in Nat
         /\ 1 \in 1..Len(pqueue) /\ Head(pqueue) \in Jobs /\ Head(pqueue) \in ToSet(pqueue)
         /\ cur \in Jobs /\ cur \in Present /\ cur \in ToSet(pqueue) /\ cur # NULL
<1>1. pqueue # <<>> /\ pqueue \in Seq(Jobs) /\ cur \in Present /\ ToSet(pqueue) = Present
  BY DEF TypeOK, Accounted
<1>2. Head(pqueue) = pqueue[1] /\ Len(pqueue) \in Nat /\ 1 \in 1..Len(pqueue)
  BY <1>1
<1>3. pqueue[1] \in ToSet(pqueue) /\ pqueue[1] \in Jobs
  BY <1>1, <1>2, Elements
<1>4. cur \in Jobs /\ NULL \notin Jobs
  BY <1>1, SchedulerAssumption DEF Present
<1> QED
  BY <1>1, <1>2, <1>3, <1>4

LEMMA NewJobKeeps ==
  ASSUME SchedInv, NEW j \in Jobs, scheduler_new_job(j)
  PROVE  SchedInv'
<1> DEFINE f == [Info EXCEPT !.arrival = arrival_time', !.remaining = remaining_time']
           key == FirstKey(pqueue_scheme, remaining_time, recent_execution_time)
           newkey == FirstKey(pqueue_scheme, remaining_time', recent_execution_time)
<1>0. /\ TypeOK /\ Accounted /\ InOrder /\ Agreement
      /\ phase \in {"idle", "run", "tick"} /\ arrival_time[j] = -1
      /\ arrival_time' = [arrival_time EXCEPT ![j] = now]
      /\ remaining_time' = [remaining_time EXCEPT ![j] = RunTime[j]]
      /\ pqueue' = priqueue_offer(pqueue, j, f)
      /\ UNCHANGED <<pqueue_scheme, recent_execution_time, now, phase, cur, ran,
                     stopped, finished, overtaken>>
  BY DEF SchedInv, scheduler_new_job, history
<1>1. /\ f.arrival = arrival_time' /\ f.remaining = remaining_time'
      /\ f.recent = recent_execution_time
  BY DEF Info
<1> HIDE DEF f
<1>2. /\ arrival_time'[j] = now /\ remaining_time'[j] = RunTime[j] /\ RunTime[j] \in Int
      /\ \A k \in Jobs \ {j} : /\ arrival_time'[k] = arrival_time[k]
                               /\ remaining_time'[k] = remaining_time[k]
  <2>1. RunTime[j] \in Int
    BY SchedulerAssumption
  <2>2. arrival_time \in [Jobs -> Int] /\ remaining_time \in [Jobs -> Int]
    BY <1>0 DEF TypeOK
  <2> QED
    BY <1>0, <2>1, <2>2
<1>3. /\ arrival_time' \in [Jobs -> Int] /\ remaining_time' \in [Jobs -> Int]
      /\ recent_execution_time \in [Jobs -> Int] /\ now \in Nat
  BY SMTT(40), <1>0, <1>2 DEF TypeOK
<1>4. j \notin finished /\ j \notin Present
  BY <1>0 DEF Accounted, Present
<1>5. Present' = Present \cup {j}
  BY <1>0, <1>2, <1>3, <1>4 DEF Present
<1>6. /\ pqueue \in Seq(Jobs) /\ j \notin ToSet(pqueue) /\ pqueue_scheme \in AllSchemes
      /\ ToSet(pqueue) = Present
      /\ \A k, l \in 1..Len(pqueue) : pqueue[k] = pqueue[l] => k = l
  BY <1>0, <1>4 DEF TypeOK, Accounted
<1>7. /\ pqueue' \in Seq(Jobs) /\ ToSet(pqueue)' = ToSet(pqueue) \cup {j}
      /\ Len(pqueue') = Len(pqueue) + 1
      /\ \A k, l \in 1..Len(pqueue') : pqueue'[k] = pqueue'[l] => k = l
      /\ Inserted(pqueue', pqueue, j, f)
  BY <1>0, <1>6, OfferInserts
<1>8. TypeOK'
  BY <1>0, <1>3, <1>7 DEF TypeOK
<1>9. \A a \in ToSet(pqueue) : /\ a \in Jobs /\ a # j /\ newkey[a] = key[a]
                               /\ arrival_time'[a] = arrival_time[a]
  <2>1. \A a \in ToSet(pqueue) : a \in Jobs /\ a # j
    BY <1>6 DEF Present
  <2> QED
    BY <1>2, <2>1 DEF FirstKey
<1>10. InOrder'
  <2>0. /\ f.arrival \in [Jobs -> Int] /\ f.remaining \in [Jobs -> Int]
        /\ f.recent \in [Jobs -> Int] /\ f.arrival \in {f.arrival, Zero}
        /\ Zero \in {f.arrival, Zero} /\ newkey = FirstKey(pqueue_scheme, f.remaining, f.recent)
        /\ pqueue' = priqueue_offer(pqueue, j, f)
    BY <1>0, <1>1, <1>3
  <2>1. First = key /\ First' = newkey /\ Astray' = Astray /\ Steady' = Steady /\ Zero' = Zero
    BY <1>0 DEF First, Astray, Fixed, Steady, Zero
  <2>2. phase \notin {"down", "dangling"}
    BY <1>0
  <2> HIDE DEF key, newkey
  <2>3. ASSUME Steady PROVE Sorted(newkey, arrival_time', Astray, pqueue')
    <3>1. Sorted(key, arrival_time, Astray, pqueue)
      BY <1>0, <2>1, <2>2, <2>3 DEF InOrder
    <3>2. Sorted(newkey, arrival_time', Astray, pqueue)
      BY <1>6, <1>9, <3>1, SortedSame
    <3> QED
      BY <1>1, <1>6, <2>0, <3>2, OfferSorts
  <2>4. ASSUME pqueue_scheme = "PSRTF" PROVE Sorted(newkey, Zero, NULL, pqueue')
    <3>1. Sorted(key, Zero, NULL, pqueue)
      BY <1>0, <2>1, <2>2, <2>4 DEF InOrder
    <3>2. Sorted(newkey, Zero, NULL, pqueue)
      BY <1>6, <1>9, <3>1, SortedSame
    <3> QED
      BY <1>6, <2>0, <3>2, OfferSorts
  <2>5. ASSUME pqueue_scheme = "PSRTF", cur # NULL PROVE Ahead(newkey, cur, pqueue')
    <3>1. Ahead(key, cur, pqueue)
      BY <1>0, <2>1, <2>2, <2>5 DEF InOrder
    <3>2. Ahead(newkey, cur, pqueue)
      BY <1>6, <1>9, <3>1, AheadSame
    <3>3. phase \in {"run", "tick"}
      BY <1>0, <2>5 DEF Accounted
    <3>4. cur \in Jobs /\ cur # j
      BY <1>0, <1>9, <3>3, RunsFromQueue
    <3>5. \A a \in ToSet(pqueue) : f.arrival[a] <= f.arrival[j]
      BY <1>0, <1>1, <1>2, <1>9 DEF Accounted
    <3> QED
      BY <1>6, <2>0, <3>2, <3>4, <3>5, OfferAhead
  <2> QED
    BY <1>0, <2>1, <2>3, <2>4, <2>5 DEF InOrder
<1>11. ASSUME phase \in {"run", "tick"}
       PROVE  /\ pqueue' # <<>> /\ cur \in Present'
              /\ Head(pqueue') # cur =>
                   pqueue_scheme # "FCFS" /\ arrival_time'[Head(pqueue')] >= ChosenAt
  <2>1. /\ 1 \in 1..Len(pqueue) /\ Head(pqueue) = pqueue[1] /\ Len(pqueue) \in Nat
        /\ Head(pqueue) \in ToSet(pqueue) /\ cur \in Present
    BY <1>0, <1>11, RunsFromQueue
  <2>2. Head(pqueue) # cur =>
          pqueue_scheme # "FCFS" /\ arrival_time[Head(pqueue)] >= ChosenAt
    BY <1>0, <1>11 DEF Accounted
  <2>3. PICK p \in 1..(Len(pqueue) + 1) :
          /\ \A k \in 1..(Len(pqueue) + 1) :
               pqueue'[k] = IF k < p THEN pqueue[k] ELSE IF k = p THEN j ELSE pqueue[k - 1]
          /\ p \in 1..Len(pqueue) => comparision_func(f, pqueue[p], j) > 0
    BY <1>7 DEF Inserted
  <2>4. pqueue' # <<>> /\ Head(pqueue') = pqueue'[1] /\ 1 \in 1..(Len(pqueue) + 1)
    BY <1>7, <2>1
  <2>5. CASE p # 1
    <3>1. pqueue'[1] = pqueue[1]
      BY <2>1, <2>3, <2>4, <2>5
    <3>2. arrival_time'[Head(pqueue)] = arrival_time[Head(pqueue)]
      BY <1>9, <2>1
    <3> QED
      BY <1>5, <2>1, <2>2, <2>4, <3>1, <3>2
  <2>6. CASE p = 1
    <3>1. pqueue'[1] = j
      BY <2>3, <2>4, <2>6
    <3>2. pqueue_scheme # "FCFS"
      <4> SUFFICES ASSUME pqueue_scheme = "FCFS" PROVE FALSE
        OBVIOUS
      <4>1. pqueue[1] \in Jobs /\ pqueue[1] \in ToSet(pqueue)
        BY <1>9, <2>1
      <4>2. ~NotAfter(newkey, arrival_time', pqueue[1], j)
        BY <1>1, <1>3, <1>6, <2>1, <2>3, <2>6, <4>1, Compares
      <4>3. newkey[pqueue[1]] = 0 /\ newkey[j] = 0
        BY <4>1 DEF FirstKey
      <4>4. arrival_time'[pqueue[1]] <= now
        BY <1>0, <1>9, <4>1 DEF Accounted
      <4> QED
        BY <1>2, <4>2, <4>3, <4>4 DEF NotAfter
    <3>3. now >= ChosenAt
      <4>1. cur \in Jobs /\ ran[cur] \in Int
        BY <1>0, <1>11, RunsFromQueue DEF TypeOK
      <4>2. ran[cur] >= 0
        BY <1>0, <4>1 DEF Agreement
      <4> QED
        BY <1>3, <4>1, <4>2 DEF ChosenAt
    <3> QED
      BY <1>2, <1>5, <2>1, <2>4, <3>1, <3>2, <3>3
  <2> QED
    BY <2>5, <2>6
<1>12. Accounted'
  <2>1. \A k \in Jobs : -1 <= arrival_time'[k] /\ arrival_time'[k] <= now
    BY <1>0, <1>2, <1>3 DEF Accounted
  <2>2. \A k \in finished : k \in Jobs /\ arrival_time'[k] # -1
    BY <1>0, <1>2, <1>4 DEF Accounted, TypeOK
  <2>3. ToSet(pqueue)' = Present'
    BY <1>0, <1>5, <1>6, <1>7
  <2>4. phase \notin {"run", "tick"} => cur = NULL
    BY <1>0 DEF Accounted
  <2>5. ChosenAt' = ChosenAt
    BY <1>0 DEF ChosenAt, Preemptive
  <2> QED
    BY <1>0, <1>7, <1>11, <2>1, <2>2, <2>3, <2>4, <2>5 DEF Accounted
<1>13. Agreement'
  <2>1. ran[j] = 0 /\ recent_execution_time[j] = stopped[j]
    BY <1>0 DEF Agreement
  <2>2. \A k \in Present' : k = j \/ (k # j /\ k \in Present)
    BY <1>5
  <2>3. phase = "tick" => cur \in Jobs \ {j}
    BY <1>0, <1>9, RunsFromQueue
  <2>4. \A k \in Jobs : arrival_time'[k] = -1 => ran[k] = 0 /\ recent_execution_time[k] = stopped[k]
    BY <1>0, <1>2, <2>1 DEF Agreement
  <2>5. \A k \in Present' : ~(phase = "tick" /\ k = cur) =>
          /\ remaining_time'[k] = RunTime[k] - ran[k]
          /\ recent_execution_time[k] = stopped[k]
    BY <1>0, <1>2, <2>1, <2>2 DEF Agreement, Present
  <2>6. phase = "tick" => /\ remaining_time'[cur] = RunTime[cur] - ran[cur] + 1
                          /\ stopped[cur] = now
    BY <1>0, <1>2, <2>3 DEF Agreement
  <2>7. ~Preemptive => \A k \in Present' : k # cur => ran[k] = 0
    BY <1>0, <2>1, <2>2 DEF Agreement
  <2>8. Preemptive' = Preemptive
    BY <1>0 DEF Preemptive
  <2>9. \A k \in Jobs : ran[k] >= 0
    BY <1>0 DEF Agreement
  <2> QED
    BY <1>0, <2>4, <2>5, <2>6, <2>7, <2>8, <2>9 DEF Agreement
<1> QED
  BY <1>8, <1>10, <1>12, <1>13 DEF SchedInv

(* A job at the head of the queue is behind no other. *)
LEMMA HeadAlone ==
  ASSUME NEW q \in Seq(Jobs), q # <<>>, \A k, l \in 1..Len(q) : q[k] = q[l] => k = l,
         NEW key
  PROVE  Ahead(key, Head(q), q)
<1>1. Head(q) = q[1] /\ 1 \in 1..Len(q)
  OBVIOUS
<1> QED
  BY <1>1 DEF Ahead

LEMMA DispatchKeeps == SchedInv /\ dispatch => SchedInv'
<1> SUFFICES ASSUME SchedInv, dispatch PROVE SchedInv'
  OBVIOUS
<1>0. /\ TypeOK /\ Accounted /\ InOrder /\ Agreement
      /\ phase = "idle" /\ phase' = "run" /\ pqueue # <<>> /\ cur' = Head(pqueue)
      /\ UNCHANGED <<pqueue_scheme, pqueue, arrival_time, remaining_time,
                     recent_execution_time, now, ran, stopped, finished, overtaken>>
  BY DEF SchedInv, dispatch, priqueue_peek, queue, info, history
<1>1. /\ pqueue \in Seq(Jobs) /\ ToSet(pqueue) = Present
      /\ \A k, l \in 1..Len(pqueue) : pqueue[k] = pqueue[l] => k = l
  BY <1>0 DEF TypeOK, Accounted
<1>2. cur' \in Jobs /\ cur' \in Present /\ Present' = Present /\ cur = NULL /\ NULL \notin Jobs
  <2>1. Head(pqueue) = pqueue[1] /\ 1 \in 1..Len(pqueue)
    BY <1>0, <1>1
  <2> QED
    BY <1>0, <1>1, <2>1, Elements, SchedulerAssumption DEF Accounted, Present
<1>3. TypeOK'
  BY <1>0, <1>2 DEF TypeOK
<1>4. Accounted'
  BY <1>0, <1>1, <1>2 DEF Accounted
<1>5. InOrder'
  <2>1. /\ First' = First /\ Steady' = Steady /\ Astray = NULL /\ Zero' = Zero
        /\ pqueue' = pqueue /\ arrival_time' = arrival_time
    BY <1>0, <1>2 DEF First, Steady, Astray, Zero
  <2>2. Ahead(First', cur', pqueue')
    BY <1>0, <1>1, HeadAlone
  <2>3. \A k \in 1..Len(pqueue) : pqueue[k] # NULL
    BY <1>1, <1>2
  <2>4. Sorted(First, arrival_time, NULL, pqueue) => Sorted(First, arrival_time, Astray', pqueue)
    BY <2>3 DEF Sorted
  <2> QED
    BY <1>0, <2>1, <2>2, <2>4 DEF InOrder
<1>6. Agreement'
  <2>1. \A j \in Present : j # cur
    BY <1>2 DEF Present
  <2> QED
    BY <1>0, <1>2, <2>1 DEF Agreement, Preemptive
<1> QED
  BY <1>3, <1>4, <1>5, <1>6 DEF SchedInv

LEMMA ExpiredKeeps == SchedInv /\ scheduler_quantum_expired => SchedInv'
<1> SUFFICES ASSUME SchedInv, scheduler_quantum_expired PROVE SchedInv'
  OBVIOUS
<1> DEFINE f == [Info EXCEPT !.recent = recent_execution_time',
                             !.remaining = remaining_time']
           key == FirstKey(pqueue_scheme, remaining_time, recent_execution_time)
           newkey == FirstKey(pqueue_scheme, remaining_time', recent_execution_time')
<1>0. /\ TypeOK /\ Accounted /\ InOrder /\ Agreement
      /\ phase = "tick" /\ phase' = "run"
      /\ recent_execution_time' = [recent_execution_time EXCEPT ![cur] = now]
      /\ remaining_time' = [remaining_time EXCEPT ![cur] = @ - 1]
      /\ IF Preemptive
         THEN /\ pqueue' = Requeue(f) /\ cur' = priqueue_peek(pqueue')
              /\ overtaken' = (overtaken \/ cur # Head(pqueue))
         ELSE UNCHANGED <<pqueue, cur, overtaken>>
      /\ UNCHANGED <<pqueue_scheme, arrival_time, now, ran, stopped, finished>>
  BY DEF SchedInv, scheduler_quantum_expired
<1>1. /\ f.arrival = arrival_time /\ f.remaining = remaining_time'
      /\ f.recent = recent_execution_time'
  BY DEF Info
<1> HIDE DEF f
<1>2. /\ pqueue # <<>> /\ Head(pqueue) = pqueue[1] /\ 1 \in 1..Len(pqueue)
      /\ Head(pqueue) \in Jobs /\ Head(pqueue) \in ToSet(pqueue)
      /\ cur \in Jobs /\ cur \in Present /\ cur # NULL /\ Len(pqueue) \in Nat
  BY <1>0, RunsFromQueue
<1>3. /\ pqueue \in Seq(Jobs) /\ pqueue_scheme \in AllSchemes /\ arrival_time \in [Jobs -> Int]
      /\ ToSet(pqueue) = Present
      /\ \A k, l \in 1..Len(pqueue) : pqueue[k] = pqueue[l] => k = l
  BY <1>0 DEF TypeOK, Accounted
<1>4. /\ recent_execution_time' \in [Jobs -> Int] /\ remaining_time' \in [Jobs -> Int]
      /\ remaining_time \in [Jobs -> Int] /\ recent_execution_time \in [Jobs -> Int]
  <2>1. /\ remaining_time \in [Jobs -> Int] /\ recent_execution_time \in [Jobs -> Int]
        /\ now \in Int
    BY <1>0 DEF TypeOK
  <2>2. recent_execution_time' = [recent_execution_time EXCEPT ![cur] = now]
    BY <1>0
  <2>3. remaining_time' = [remaining_time EXCEPT ![cur] = @ - 1]
    BY <1>0
  <2>4. remaining_time[cur] - 1 \in Int
    BY <1>2, <2>1
  <2> QED
    BY <2>1, <2>2, <2>3, <2>4
<1>5. /\ recent_execution_time'[cur] = now /\ remaining_time'[cur] = remaining_time[cur] - 1
      /\ \A k \in Jobs : k # cur => /\ recent_execution_time'[k] = recent_execution_time[k]
                                    /\ remaining_time'[k] = remaining_time[k]
  BY <1>0, <1>2 DEF TypeOK
<1>6. Present' = Present /\ Preemptive' = Preemptive
  BY <1>0 DEF Present, Preemptive
<1>7. /\ \A k \in Jobs : k # cur => newkey[k] = key[k]
      /\ Fixed => newkey = key
      /\ pqueue_scheme \in {"PSRTF", "SJF"} => newkey[cur] = key[cur] - 1
  BY <1>2, <1>5 DEF FirstKey, Fixed
<1>8. key \in [Jobs -> Int] /\ newkey \in [Jobs -> Int]
  BY <1>3, <1>4, KeyType
<1>9. First = key /\ First' = newkey /\ Zero' = Zero /\ Fixed' = Fixed
  BY <1>0 DEF First, Zero, Fixed
<1>10. Agreement'
  <2>1. /\ remaining_time[cur] = RunTime[cur] - ran[cur] + 1 /\ stopped[cur] = now
        /\ RunTime[cur] \in Int /\ ran[cur] \in Int
    <3>1. RunTime[cur] \in Int
      BY <1>2, SchedulerAssumption
    <3>2. ran[cur] \in Int
      BY <1>0, <1>2 DEF TypeOK
    <3> QED
      BY <1>0, <3>1, <3>2 DEF Agreement
  <2>2. remaining_time'[cur] = RunTime[cur] - ran[cur]
    BY <1>5, <2>1
  <2>3. \A j \in Jobs : arrival_time[j] = -1 =>
          j # cur /\ ran[j] = 0 /\ recent_execution_time'[j] = stopped[j]
    BY <1>0, <1>2, <1>5 DEF Agreement, Present
  <2>4. \A j \in Present : /\ remaining_time'[j] = RunTime[j] - ran[j]
                           /\ recent_execution_time'[j] = stopped[j]
    BY <1>0, <1>5, <2>1, <2>2 DEF Agreement, Present
  <2>5. ~Preemptive => cur' = cur /\ \A j \in Present : j # cur => ran[j] = 0
    BY <1>0 DEF Agreement
  <2>6. \A j \in Jobs : ran[j] >= 0
    BY <1>0 DEF Agreement
  <2> QED
    BY <1>0, <1>6, <2>3, <2>4, <2>5, <2>6 DEF Agreement
<1> HIDE DEF key, newkey
<1>11. CASE Preemptive
  <2> DEFINE head == Head(pqueue)
             others == Tail(pqueue)
  <2>1. /\ pqueue' = priqueue_offer(others, head, f)
        /\ cur' = priqueue_peek(pqueue')
        /\ overtaken' = (overtaken \/ cur # head)
    BY <1>0, <1>2, <1>11 DEF Requeue, priqueue_poll, priqueue_peek
  <2>2. /\ others \in Seq(Jobs)
        /\ \A k, l \in 1..Len(others) : others[k] = others[l] => k = l
        /\ ToSet(others) = ToSet(pqueue) \ {head} /\ head \in ToSet(pqueue)
        /\ Len(others) \in Nat
    BY <1>2, <1>3, TailDistinct
  <2>3. head \notin ToSet(others) /\ head \in Jobs
    BY <1>2, <2>2
  <2>13. head = Head(pqueue) /\ others = Tail(pqueue)
    OBVIOUS
  <2> HIDE DEF head, others
  <2>4. /\ pqueue' \in Seq(Jobs) /\ ToSet(pqueue)' = ToSet(others) \cup {head}
        /\ Len(pqueue') = Len(others) + 1
        /\ \A k, l \in 1..Len(pqueue') : pqueue'[k] = pqueue'[l] => k = l
    <3>1. pqueue' = priqueue_offer(others, head, f)
      BY <2>1
    <3> QED
      BY <2>2, <2>3, <3>1, OfferInserts
  <2>5. pqueue' # <<>> /\ cur' = Head(pqueue') /\ cur' \in Jobs /\ cur' \in ToSet(pqueue)'
    <3>1. pqueue' # <<>>
      BY <2>2, <2>4
    <3>2. Head(pqueue') = pqueue'[1] /\ 1 \in 1..Len(pqueue')
      BY <2>4, <3>1
    <3> QED
      BY <2>1, <2>4, <3>1, <3>2, Elements DEF priqueue_peek
  <2>6. TypeOK'
    BY <1>0, <1>4, <2>1, <2>4, <2>5 DEF TypeOK
  <2>7. ToSet(pqueue)' = Present'
    BY <1>3, <1>6, <2>2, <2>4
  <2>8. Accounted'
    BY <1>0, <2>4, <2>5, <2>7 DEF Accounted
  <2>15. /\ f.arrival \in [Jobs -> Int] /\ f.remaining \in [Jobs -> Int]
         /\ f.recent \in [Jobs -> Int] /\ f.arrival \in {f.arrival, Zero}
         /\ Zero \in {f.arrival, Zero} /\ pqueue_scheme \in AllSchemes
         /\ newkey = FirstKey(pqueue_scheme, f.remaining, f.recent)
         /\ pqueue' = priqueue_offer(others, head, f)
    BY <1>1, <1>3, <1>4, <2>1 DEF newkey
  <2>9. ASSUME Sorted(newkey, arrival_time, NULL, others)
        PROVE  Sorted(newkey, arrival_time, NULL, pqueue')
    BY <1>1, <2>2, <2>3, <2>9, <2>15, OfferSorts
  <2>14. ASSUME Sorted(newkey, Zero, NULL, others)
         PROVE  Sorted(newkey, Zero, NULL, pqueue')
    BY <2>2, <2>3, <2>14, <2>15, OfferSorts
  <2>10. ASSUME Steady' PROVE Sorted(newkey, arrival_time, NULL, others)
    <3>1. Steady /\ (Fixed \/ cur = head)
      BY <1>0, <1>3, <1>11, <2>1, <2>10, <2>13 DEF Steady, Fixed, Preemptive, TypeOK
    <3>2. Sorted(key, arrival_time, Astray, pqueue)
      BY <1>0, <1>9, <3>1 DEF InOrder
    <3>3. Sorted(key, arrival_time, NULL, others)
      <4>1. Astray = head \/ Astray \notin Jobs
        BY <3>1, SchedulerAssumption DEF Astray
      <4> QED
        BY <1>2, <1>3, <2>13, <3>2, <4>1, SortedTail
    <3>4. \A a \in ToSet(others) : newkey[a] = key[a] /\ arrival_time[a] = arrival_time[a]
      BY <1>3, <1>7, <2>2, <3>1 DEF Present
    <3> QED
      BY <2>2, <3>3, <3>4, SortedSame
  <2>11. ASSUME pqueue_scheme = "PSRTF" PROVE Sorted(newkey, Zero, NULL, others)
    <3>1. Sorted(key, Zero, NULL, pqueue) /\ Ahead(key, cur, pqueue)
      BY <1>0, <1>2, <1>9, <2>11 DEF InOrder
    <3>2. ASSUME NEW k \in 1..Len(pqueue), NEW l \in 1..Len(pqueue), k < l
          PROVE  newkey[pqueue[k]] <= newkey[pqueue[l]]
      <4>1. /\ pqueue[k] \in Jobs /\ pqueue[l] \in Jobs /\ pqueue[k] # pqueue[l]
            /\ pqueue[l] # NULL
        BY <1>3, <3>2, SchedulerAssumption
      <4>2. /\ key[pqueue[k]] \in Int /\ key[pqueue[l]] \in Int /\ key[cur] \in Int
            /\ newkey[cur] = key[cur] - 1
        BY <1>2, <1>7, <1>8, <2>11, <4>1
      <4>3. key[pqueue[k]] <= key[pqueue[l]]
        BY <3>1, <3>2, <4>1, <4>2 DEF Sorted, NotAfter
      <4>4. CASE pqueue[l] = cur
        <5>1. key[pqueue[k]] < key[cur] /\ newkey[pqueue[k]] = key[pqueue[k]]
          BY <1>7, <3>1, <3>2, <4>1, <4>4 DEF Ahead
        <5> QED
          BY <4>2, <4>4, <5>1
      <4>5. CASE pqueue[k] = cur
        BY <1>7, <4>1, <4>2, <4>3, <4>5
      <4>6. CASE pqueue[l] # cur /\ pqueue[k] # cur
        BY <1>7, <4>1, <4>3, <4>6
      <4> QED
        BY <4>4, <4>5, <4>6
    <3>3. \A a \in Jobs : Zero[a] = 0 /\ newkey[a] \in Int
      BY <1>8 DEF Zero
    <3>4. Sorted(newkey, Zero, NULL, pqueue)
      BY <1>3, <3>2, <3>3 DEF Sorted, NotAfter
    <3> QED
      BY <1>2, <1>3, <2>13, <3>4, SortedTail
  <2>12. InOrder'
    <3>1. Steady' => Sorted(newkey, arrival_time, Astray', pqueue')
      <4>1. ASSUME Steady' PROVE Sorted(newkey, arrival_time, NULL, pqueue')
        BY <2>9, <2>10, <4>1
      <4>2. \A k \in 1..Len(pqueue') : pqueue'[k] # NULL
        BY <2>4, SchedulerAssumption
      <4> QED
        BY <4>1, <4>2 DEF Sorted
    <3>2. pqueue_scheme = "PSRTF" => Sorted(newkey, Zero, NULL, pqueue')
      BY <2>11, <2>14
    <3>3. Ahead(newkey, cur', pqueue')
      BY <2>4, <2>5, HeadAlone
    <3> QED
      BY <1>0, <1>9, <3>1, <3>2, <3>3 DEF InOrder
  <2> QED
    BY <1>10, <2>6, <2>8, <2>12 DEF SchedInv
<1>12. CASE ~Preemptive
  <2>1. UNCHANGED <<pqueue, cur, overtaken>>
    BY <1>0, <1>12
  <2>2. TypeOK'
    BY <1>0, <1>4, <2>1 DEF TypeOK
  <2>3. Accounted'
    <3>1. ChosenAt' = ChosenAt
      BY <1>0, <1>6, <1>12, <2>1 DEF ChosenAt
    <3> QED
      BY <1>0, <1>6, <2>1, <3>1 DEF Accounted
  <2>4. pqueue_scheme \in {"FCFS", "PRI", "SJF"}
    BY <1>3, <1>12 DEF Preemptive, AllSchemes
  <2>5. ASSUME NEW k \in 1..Len(pqueue), NEW l \in 1..Len(pqueue), k < l,
               pqueue[l] # Astray
        PROVE  NotAfter(newkey, arrival_time, pqueue[k], pqueue[l])
    <3>1. NotAfter(key, arrival_time, pqueue[k], pqueue[l])
      BY <1>0, <1>9, <2>4, <2>5 DEF InOrder, Sorted, Steady
    <3>2. CASE Fixed
      BY <1>7, <3>1, <3>2
    <3>3. CASE ~Fixed
      <4>1. /\ pqueue[l] # cur /\ pqueue[l] \in Jobs /\ pqueue[k] \in Jobs
            /\ newkey[cur] = key[cur] - 1
        BY <1>3, <1>7, <2>4, <2>5, <3>3 DEF Astray, Fixed
      <4>2. /\ key[pqueue[l]] \in Int /\ key[cur] \in Int
            /\ newkey[pqueue[l]] = key[pqueue[l]]
        BY <1>2, <1>7, <1>8, <4>1
      <4>3. CASE pqueue[k] = cur
        BY <3>1, <4>1, <4>2, <4>3 DEF NotAfter
      <4>4. CASE pqueue[k] # cur
        BY <1>7, <3>1, <4>1, <4>2, <4>4 DEF NotAfter
      <4> QED
        BY <4>3, <4>4
    <3> QED
      BY <3>2, <3>3
  <2>6. Sorted(newkey, arrival_time, Astray, pqueue)
    BY <2>5 DEF Sorted
  <2>7. Astray' = Astray
    BY <1>9, <2>1 DEF Astray
  <2>8. InOrder'
    BY <1>0, <1>9, <2>1, <2>4, <2>6, <2>7 DEF InOrder
  <2> QED
    BY <1>10, <2>2, <2>3, <2>8 DEF SchedInv
<1> QED
  BY <1>11, <1>12

LEMMA FinishedKeeps == SchedInv /\ scheduler_job_finished => SchedInv'
<1> SUFFICES ASSUME SchedInv, scheduler_job_finished PROVE SchedInv'
  OBVIOUS
<1>0. /\ TypeOK /\ Accounted /\ InOrder /\ Agreement
      /\ phase \in {"run", "tick"}
      /\ phase' = (IF Head(pqueue) = cur THEN "idle" ELSE "dangling")
      /\ pqueue' = After(pqueue)
      /\ finished' = finished \cup {cur} /\ cur' = NULL
      /\ UNCHANGED <<pqueue_scheme, arrival_time, remaining_time, recent_execution_time,
                     now, ran, stopped, overtaken>>
  BY DEF SchedInv, scheduler_job_finished, info
<1>1. pqueue # <<>> /\ Head(pqueue) \in Jobs /\ cur \in Jobs /\ cur \in Present
  BY <1>0, RunsFromQueue
<1>2. /\ pqueue \in Seq(Jobs) /\ ToSet(pqueue) = Present
      /\ \A k, l \in 1..Len(pqueue) : pqueue[k] = pqueue[l] => k = l
  BY <1>0 DEF TypeOK, Accounted
<1>3. pqueue' = Tail(pqueue)
  BY <1>0, <1>1 DEF After, priqueue_poll
<1>4. /\ pqueue' \in Seq(Jobs)
      /\ \A k, l \in 1..Len(pqueue') : pqueue'[k] = pqueue'[l] => k = l
      /\ ToSet(pqueue)' = ToSet(pqueue) \ {Head(pqueue)}
  BY <1>1, <1>2, <1>3, TailDistinct
<1>5. Present' = Present \ {cur}
  BY <1>0, <1>1 DEF Present
<1>6. TypeOK'
  BY <1>0, <1>1, <1>4 DEF TypeOK
<1>7. Accounted'
  <2>1. phase' # "dangling" => ToSet(pqueue)' = Present'
    BY <1>0, <1>2, <1>4, <1>5
  <2>2. \A j \in finished' : arrival_time'[j] # -1
    BY <1>0, <1>1 DEF Accounted, Present
  <2> QED
    BY <1>0, <1>4, <2>1, <2>2 DEF Accounted
<1>8. ASSUME Head(pqueue) = cur PROVE InOrder'
  <2>1. /\ First' = First /\ Steady' = Steady /\ Zero' = Zero /\ Astray' = NULL
        /\ phase' = "idle"
    BY <1>0, <1>8 DEF First, Steady, Zero, Astray
  <2>2. ASSUME Steady PROVE Sorted(First, arrival_time, NULL, pqueue')
    <3>1. Sorted(First, arrival_time, Astray, pqueue)
      BY <1>0, <2>2 DEF InOrder
    <3>2. Astray = Head(pqueue) \/ Astray \notin Jobs
      BY <1>8, SchedulerAssumption DEF Astray
    <3> QED
      BY <1>1, <1>2, <1>3, <3>1, <3>2, SortedTail
  <2>3. ASSUME pqueue_scheme = "PSRTF" PROVE Sorted(First, Zero, NULL, pqueue')
    <3>1. Sorted(First, Zero, NULL, pqueue)
      BY <1>0, <2>3 DEF InOrder
    <3> QED
      BY <1>1, <1>2, <1>3, <3>1, SortedTail
  <2> QED
    BY <1>0, <2>1, <2>2, <2>3 DEF InOrder
<1>9. InOrder'
  BY <1>0, <1>8 DEF InOrder
<1>10. Agreement'
  BY <1>0, <1>5 DEF Agreement, Preemptive
<1> QED
  BY <1>6, <1>7, <1>9, <1>10 DEF SchedInv

LEMMA CleanUpKeeps == SchedInv /\ scheduler_clean_up => SchedInv'
<1> SUFFICES ASSUME SchedInv, scheduler_clean_up PROVE SchedInv'
  OBVIOUS
<1>0. /\ TypeOK /\ Accounted /\ Agreement
      /\ phase = "idle" /\ phase' = "off" /\ finished = Jobs /\ pqueue' = <<>>
      /\ UNCHANGED <<pqueue_scheme, arrival_time, remaining_time, recent_execution_time,
                     now, cur, ran, stopped, finished, overtaken>>
  BY DEF SchedInv, scheduler_clean_up, info, history
<1>1. Present' = {}
  BY <1>0 DEF Present
<1>2. pqueue' \in Seq(Jobs) /\ ToSet(pqueue)' = {} /\ Len(pqueue') = 0
  BY <1>0 DEF ToSet
<1>3. TypeOK'
  BY <1>0, <1>2 DEF TypeOK
<1>4. Accounted'
  BY <1>0, <1>1, <1>2 DEF Accounted
<1>5. InOrder'
  BY <1>2 DEF InOrder, Sorted, Ahead
<1>6. Agreement'
  BY <1>0, <1>1 DEF Agreement
<1> QED
  BY <1>3, <1>4, <1>5, <1>6 DEF SchedInv

LEMMA RunKeeps == SchedInv /\ Run => SchedInv'
<1> SUFFICES ASSUME SchedInv, Run PROVE SchedInv'
  OBVIOUS
<1>0. /\ TypeOK /\ Accounted /\ InOrder /\ Agreement
      /\ phase = "run" /\ phase' = "tick" /\ now' = now + 1
      /\ ran' = [ran EXCEPT ![cur] = @ + 1] /\ stopped' = [stopped EXCEPT ![cur] = now + 1]
      /\ UNCHANGED <<pqueue_scheme, pqueue, arrival_time, remaining_time,
                     recent_execution_time, cur, finished, overtaken>>
  BY DEF SchedInv, Run, queue, info
<1>1. cur \in Jobs /\ cur \in Present
  BY <1>0, RunsFromQueue
<1>2. /\ ran'[cur] = ran[cur] + 1 /\ stopped'[cur] = now + 1 /\ ran[cur] \in Int
      /\ \A j \in Jobs : j # cur => ran'[j] = ran[j] /\ stopped'[j] = stopped[j]
  BY <1>0, <1>1 DEF TypeOK
<1>3. now \in Nat /\ now' \in Nat
  BY <1>0 DEF TypeOK
<1>4. ran' \in [Jobs -> Int] /\ stopped' \in [Jobs -> Int]
  BY <1>0, <1>1, <1>3 DEF TypeOK
<1>5. Present' = Present /\ Preemptive' = Preemptive
  BY <1>0 DEF Present, Preemptive
<1>6. TypeOK'
  BY <1>0, <1>3, <1>4 DEF TypeOK
<1>7. Accounted'
  <2>1. ASSUME NEW j \in Jobs PROVE -1 <= arrival_time[j] /\ arrival_time[j] <= now'
    <3>1. arrival_time[j] \in Int /\ -1 <= arrival_time[j] /\ arrival_time[j] <= now
      BY <1>0 DEF Accounted, TypeOK
    <3> QED
      BY <1>0, <1>3, <3>1
  <2>2. ChosenAt' = ChosenAt
    BY <1>0, <1>2, <1>3, <1>5 DEF ChosenAt
  <2> QED
    BY <1>0, <1>5, <2>1, <2>2 DEF Accounted
<1>8. InOrder'
  <2>1. /\ First' = First /\ Steady' = Steady /\ Zero' = Zero /\ Astray' = Astray
        /\ UNCHANGED <<pqueue, arrival_time, cur, pqueue_scheme>>
    BY <1>0 DEF First, Steady, Zero, Astray, Fixed
  <2> QED
    BY <1>0, <2>1 DEF InOrder
<1>9. Agreement'
  <2>1. \A j \in Jobs : arrival_time[j] = -1 =>
          j # cur /\ ran'[j] = 0 /\ recent_execution_time[j] = stopped'[j]
    BY <1>0, <1>1, <1>2 DEF Agreement, Present
  <2>2. \A j \in Present : j # cur => /\ remaining_time[j] = RunTime[j] - ran'[j]
                                      /\ recent_execution_time[j] = stopped'[j]
    BY <1>0, <1>2 DEF Agreement, Present
  <2>3. remaining_time[cur] = RunTime[cur] - ran'[cur] + 1
    <3>1. remaining_time[cur] = RunTime[cur] - ran[cur]
      BY <1>0, <1>1 DEF Agreement
    <3>2. RunTime[cur] \in Int
      BY <1>1, SchedulerAssumption
    <3>3. ran[cur] \in Int
      BY <1>0, <1>1 DEF TypeOK
    <3> QED
      BY <1>2, <3>1, <3>2, <3>3
  <2>4. ~Preemptive => \A j \in Present : j # cur => ran'[j] = 0
    BY <1>0, <1>2 DEF Agreement, Present
  <2>5. \A j \in Jobs : ran'[j] >= 0
    BY <1>0, <1>1, <1>2 DEF Agreement
  <2> QED
    BY <1>0, <1>2, <1>5, <2>1, <2>2, <2>3, <2>4, <2>5 DEF Agreement
<1> QED
  BY <1>6, <1>7, <1>8, <1>9 DEF SchedInv

LEMMA IdleKeeps == SchedInv /\ Idle => SchedInv'
<1> SUFFICES ASSUME SchedInv, Idle PROVE SchedInv'
  OBVIOUS
<1>0. /\ TypeOK /\ Accounted /\ InOrder /\ Agreement /\ phase = "idle" /\ now' = now + 1
      /\ UNCHANGED <<pqueue_scheme, pqueue, arrival_time, remaining_time,
                     recent_execution_time, phase, cur, ran, stopped, finished, overtaken>>
  BY DEF SchedInv, Idle, queue, info
<1>1. now \in Nat /\ now' \in Nat /\ Present' = Present
  BY <1>0 DEF TypeOK, Present
<1>2. TypeOK'
  BY <1>0, <1>1 DEF TypeOK
<1>3. Accounted'
  <2>1. ASSUME NEW j \in Jobs PROVE -1 <= arrival_time[j] /\ arrival_time[j] <= now'
    <3>1. arrival_time[j] \in Int /\ -1 <= arrival_time[j] /\ arrival_time[j] <= now
      BY <1>0 DEF Accounted, TypeOK
    <3> QED
      BY <1>0, <1>1, <3>1
  <2> QED
    BY <1>0, <1>1, <2>1 DEF Accounted
<1>4. InOrder'
  <2>1. /\ First' = First /\ Steady' = Steady /\ Zero' = Zero /\ Astray' = Astray
        /\ UNCHANGED <<pqueue, arrival_time, cur, pqueue_scheme, phase>>
    BY <1>0 DEF First, Steady, Zero, Astray, Fixed
  <2> QED
    BY <1>0, <2>1 DEF InOrder
<1>5. Agreement'
  BY <1>0, <1>1 DEF Agreement, Preemptive
<1> QED
  BY <1>2, <1>3, <1>4, <1>5 DEF SchedInv

LEMMA SchedStep == SchedInv /\ [Next]_vars => SchedInv'
<1> SUFFICES ASSUME SchedInv, [Next]_vars PROVE SchedInv'
  OBVIOUS
<1>1. CASE UNCHANGED vars
  <2>1. UNCHANGED <<pqueue_scheme, pqueue, arrival_time, remaining_time,
                    recent_execution_time, phase, cur, ran, stopped, finished, now, overtaken>>
    BY <1>1 DEF vars, queue, info, history
  <2>2. Present' = Present /\ Preemptive' = Preemptive
    BY <2>1 DEF Present, Preemptive
  <2>3. TypeOK' /\ Agreement'
    BY <2>1, <2>2 DEF SchedInv, TypeOK, Agreement
  <2>4. Accounted'
    BY <2>1, <2>2 DEF SchedInv, Accounted, ChosenAt
  <2>5. InOrder'
    BY <2>1 DEF SchedInv, InOrder, First, Steady, Zero, Astray, Fixed
  <2> QED
    BY <2>3, <2>4, <2>5 DEF SchedInv
<1>2. CASE \E s \in Schemes : scheduler_start_up(s)
  BY <1>2, StartUpKeeps
<1>3. CASE \E j \in Jobs : scheduler_new_job(j)
  BY <1>3, NewJobKeeps
<1>4. CASE dispatch \/ scheduler_quantum_expired \/ scheduler_job_finished
  BY <1>4, DispatchKeeps, ExpiredKeeps, FinishedKeeps
<1>5. CASE scheduler_clean_up \/ Run \/ Idle
  BY <1>5, CleanUpKeeps, RunKeeps, IdleKeeps
<1> QED
  BY <1>1, <1>2, <1>3, <1>4, <1>5 DEF Next

(***************************************************************************)
(* What follows.                                                           *)
(***************************************************************************)
LEMMA SchedSafe == SchedInv => NoJobLost
<1> SUFFICES ASSUME SchedInv, phase # "dangling"
             PROVE  /\ ToSet(pqueue) = Present /\ IsInjective(pqueue)
                    /\ phase \in {"run", "tick"} /\ Head(pqueue) # cur =>
                         pqueue_scheme # "FCFS" /\ arrival_time[Head(pqueue)] >= ChosenAt
  BY DEF NoJobLost
<1>1. DOMAIN pqueue = 1..Len(pqueue)
  BY DEF SchedInv, TypeOK
<1> QED
  BY <1>1 DEF SchedInv, Accounted, IsInjective

(* The head of the queue is a right choice where job_info says what         *)
(* happened.                                                                *)
Fresh ==
  /\ phase = "run" /\ cur = Head(pqueue)
  /\ Preemptive \/ \A j \in Present : ran[j] = 0
Right == Fresh => RightChoice(cur)

LEMMA HeadIsRight == SchedInv => Right
<1> SUFFICES ASSUME SchedInv, Fresh, NEW k \in Present
             PROVE  \/ Ordered(cur, k)
                    \/ overtaken /\ pqueue_scheme = "PSRTF" /\ Key(cur) = Key(k)
                    \/ overtaken /\ pqueue_scheme = "RR"
  BY DEF Right, RightChoice
<1>0. TypeOK /\ Accounted /\ InOrder /\ Agreement /\ phase = "run" /\ cur = Head(pqueue)
  BY DEF SchedInv, Fresh
<1>1. /\ cur = pqueue[1] /\ 1 \in 1..Len(pqueue) /\ cur \in Jobs /\ cur \in Present
      /\ Len(pqueue) \in Nat
  BY <1>0, RunsFromQueue
<1>2. k \in Jobs /\ pqueue_scheme \in AllSchemes /\ NULL \notin Jobs
  BY <1>0, SchedulerAssumption DEF Present, TypeOK
<1>3. First \in [Jobs -> Int] /\ arrival_time \in [Jobs -> Int]
  BY <1>0, <1>2, KeyType DEF First, TypeOK
<1>4. ASSUME NEW arr, NEW x \in {NULL, cur}, Sorted(First, arr, x, pqueue), arr \in [Jobs -> Int]
      PROVE  NotAfter(First, arr, cur, k)
  <2>1. PICK n \in 1..Len(pqueue) : pqueue[n] = k
    BY <1>0, Elements DEF Accounted, TypeOK
  <2>2. CASE n = 1
    BY <1>1, <1>2, <1>3, <1>4, <2>1, <2>2 DEF NotAfter
  <2>3. CASE n # 1
    <3>1. 1 < n /\ pqueue[n] # cur /\ pqueue[n] # NULL
      BY <1>0, <1>1, <1>2, <2>1, <2>3 DEF Accounted
    <3> QED
      BY <1>1, <1>4, <2>1, <3>1 DEF Sorted
  <2> QED
    BY <2>2, <2>3
<1>5. ASSUME NEW j \in Present
      PROVE  /\ remaining_time[j] = RunTime[j] - ran[j]
             /\ recent_execution_time[j] = stopped[j] /\ RunTime[j] \in Int
             /\ ~Preemptive => ran[j] = 0
  <2>1. RunTime[j] \in Int
    BY <1>5, SchedulerAssumption DEF Present
  <2> QED
    BY <1>0, <1>5, <2>1 DEF Agreement, Fresh
<1>6. ASSUME NEW j \in Present, pqueue_scheme # "FCFS" PROVE First[j] = Key(j)
  <2>0. j \in Jobs
    BY DEF Present
  <2>1. CASE pqueue_scheme \in {"PRI", "PPRI"}
    BY <2>0, <2>1 DEF First, FirstKey, Key
  <2>2. CASE pqueue_scheme = "SJF"
    <3>1. remaining_time[j] = RunTime[j]
      BY <1>5, <2>2 DEF Preemptive
    <3> QED
      BY <2>0, <2>2, <3>1 DEF First, FirstKey, Key
  <2>3. CASE pqueue_scheme = "PSRTF"
    BY <1>5, <2>0, <2>3 DEF First, FirstKey, Key
  <2>4. CASE pqueue_scheme = "RR"
    BY <1>5, <2>0, <2>4 DEF First, FirstKey, Key
  <2> QED
    BY <1>2, <1>6, <2>1, <2>2, <2>3, <2>4 DEF AllSchemes
<1>7. CASE Steady
  <2>1. NotAfter(First, arrival_time, cur, k)
    BY <1>0, <1>3, <1>4, <1>7 DEF InOrder, Astray
  <2>2. CASE pqueue_scheme = "FCFS"
    <3>1. /\ First[cur] = 0 /\ First[k] = 0
          /\ Key(cur) = arrival_time[cur] /\ Key(k) = arrival_time[k]
      BY <1>1, <1>2, <2>2 DEF First, FirstKey, Key
    <3>2. arrival_time[cur] <= arrival_time[k]
      BY <2>1, <3>1 DEF NotAfter
    <3> QED
      BY <1>1, <1>2, <1>3, <3>1, <3>2 DEF Ordered
  <2>3. CASE pqueue_scheme # "FCFS"
    BY <1>1, <1>6, <2>1, <2>3 DEF NotAfter, Ordered
  <2> QED
    BY <2>2, <2>3
<1>8. CASE ~Steady /\ pqueue_scheme = "PSRTF"
  <2>1. Zero \in [Jobs -> Int]
    BY DEF Zero
  <2>2. NotAfter(First, Zero, cur, k)
    BY <1>0, <1>4, <1>8, <2>1 DEF InOrder
  <2>3. First[cur] = Key(cur) /\ First[k] = Key(k)
    BY <1>1, <1>6, <1>8
  <2> QED
    BY <1>8, <2>2, <2>3 DEF NotAfter, Ordered, Steady
<1> QED
  BY <1>7, <1>8 DEF Steady

(* A step chooses rightly, and displaces nobody that goes on. *)
ChoiceStep == (Chooses => (RightChoice(cur))') /\ (Displaces => cur \in finished')

LEMMA StepChooses ==
  ASSUME SchedInv, SchedInv', Right', Next
  PROVE  ChoiceStep
<1>0. TypeOK /\ Accounted /\ Agreement /\ NULL \notin Jobs
  BY SchedulerAssumption DEF SchedInv
<1>1. ASSUME NEW s \in Schemes, scheduler_start_up(s) PROVE ChoiceStep
  BY <1>1 DEF ChoiceStep, Chooses, Displaces, scheduler_start_up
<1>2. ASSUME NEW j \in Jobs, scheduler_new_job(j) PROVE ChoiceStep
  BY <1>0, <1>2 DEF ChoiceStep, Chooses, Displaces, scheduler_new_job, Accounted, TypeOK
<1>3. ASSUME dispatch PROVE ChoiceStep
  <2>1. /\ phase = "idle" /\ cur = NULL /\ phase' = "run" /\ cur' = Head(pqueue')
        /\ UNCHANGED <<pqueue_scheme, arrival_time, ran, finished>>
    BY <1>0, <1>3 DEF dispatch, Accounted, queue, info, history, priqueue_peek
  <2>2. Present' = Present /\ Preemptive' = Preemptive
    BY <2>1 DEF Present, Preemptive
  <2>3. ~Preemptive => \A j \in Present : ran[j] = 0
    BY <1>0, <2>1 DEF Agreement, Present
  <2>4. Fresh'
    BY <2>1, <2>2, <2>3 DEF Fresh
  <2> QED
    BY <2>1, <2>4 DEF ChoiceStep, Displaces, Right
<1>4. ASSUME scheduler_quantum_expired PROVE ChoiceStep
  <2>1. /\ phase = "tick" /\ phase' = "run" /\ UNCHANGED pqueue_scheme
        /\ ~Preemptive => cur' = cur
        /\ Preemptive => cur' = priqueue_peek(pqueue')
    BY <1>4 DEF scheduler_quantum_expired
  <2>2. Preemptive' = Preemptive
    BY <2>1 DEF Preemptive
  <2>3. pqueue' # <<>>
    BY <2>1 DEF SchedInv, Accounted
  <2>4. Preemptive => Fresh'
    BY <2>1, <2>2, <2>3 DEF Fresh, priqueue_peek
  <2> QED
    BY <2>1, <2>4 DEF ChoiceStep, Chooses, Displaces, Right, Preemptive
<1>5. ASSUME scheduler_job_finished PROVE ChoiceStep
  BY <1>5 DEF ChoiceStep, Chooses, Displaces, scheduler_job_finished
<1>6. ASSUME scheduler_clean_up \/ Run \/ Idle PROVE ChoiceStep
  BY <1>6 DEF ChoiceStep, Chooses, Displaces, scheduler_clean_up, Run, Idle
<1> QED
  BY <1>1, <1>2, <1>3, <1>4, <1>5, <1>6 DEF Next

LEMMA SchedInvariant == Spec => []SchedInv
BY SchedInitially, SchedStep, PTL DEF Spec

(* libscheduler.c keeps every job that has arrived in the queue, once, for  *)
(* any jobs, any scheme and arrivals at any time, until a job is done that  *)
(* is not at the head of the queue; and what takes the head from it can     *)
(* only be a job that arrived since it was chosen, never under FCFS.        *)
THEOREM SchedulerNoJobLost == Spec => []NoJobLost
BY SchedInvariant, SchedSafe, PTL

(* The callbacks choose as the scheme says, jobs that arrive while another  *)
(* runs included: the queue is ordered by job_info, as far as it matters    *)
(* for the head, and job_info agrees with what the jobs went through        *)
(* whenever a choice is made.                                               *)
THEOREM SchedulerChoosesRight == Spec => ChoosesRight
<1>1. SchedInv /\ SchedInv' /\ Right' /\ [Next]_vars => [ChoiceStep]_vars
  BY StepChooses
<1>2. Spec => [][ChoiceStep]_vars
  BY <1>1, SchedInvariant, HeadIsRight, PTL DEF Spec
<1> QED
  BY <1>2 DEF ChoosesRight, ChoiceStep

(***************************************************************************)
(* The statistics.                                                         *)
(***************************************************************************)
StatsTypes ==
  /\ start_time \in [Jobs -> Int] /\ ran \in [Jobs -> Nat]
  /\ waited \in [Jobs -> Nat] /\ response \in [Jobs -> Nat]

(* What the clock and job_info say of a job is what it went through; the    *)
(* start of a job is known when its first quantum has been reported.        *)
Clocked ==
  /\ \A j \in Jobs : arrival_time[j] = -1 => waited[j] = 0
  /\ \A j \in Jobs : ran[j] = 0 => start_time[j] = -1
  /\ \A j \in Present : waited[j] + ran[j] = now - arrival_time[j]
  /\ \A j \in Present : ran[j] > 0 /\ ~(phase = "tick" /\ j = cur /\ ran[j] = 1) =>
       start_time[j] >= 0 /\ response[j] = start_time[j] - arrival_time[j]
  /\ phase = "tick" =>
       /\ ran[cur] > 0
       /\ ran[cur] = 1 => start_time[cur] = -1 /\ response[cur] = now - 1 - arrival_time[cur]

(* What each job spent, waiting and running, and its response time. *)
Spent == [j \in Jobs |-> waited[j] + ran[j]]
Counted == [j \in Jobs |-> Response(j)]

Summed ==
  /\ total_waiting_time = Total(waited, finished)
  /\ total_turnaround_time = Total(Spent, finished)
  /\ total_response_time = Total(Counted, finished)
  /\ num_job = Cardinality(finished)

StatsInv == StatsTypes /\ Clocked /\ Summed

(* The totals stay as long as the jobs that finished stay as they are. *)
LEMMA TotalsStay ==
  ASSUME SchedInv, StatsTypes, Summed, StatsTypes', UNCHANGED <<totals, finished>>,
         \A j \in finished : /\ waited'[j] = waited[j] /\ ran'[j] = ran[j]
                             /\ response'[j] = response[j]
                             /\ start_time'[j] = start_time[j]
                             /\ arrival_time'[j] = arrival_time[j]
  PROVE  Summed'
<1>1. IsFiniteSet(finished) /\ finished \subseteq Jobs
  BY FS_Subset, SchedulerAssumption DEF SchedInv, TypeOK
<1>2. Total(waited', finished) = Total(waited, finished)
  BY <1>1, TotalReads
<1>3. Total(Counted', finished) = Total(Counted, finished)
  <2>1. \A j \in finished : Counted'[j] = Counted[j]
    BY <1>1 DEF Counted, Response
  <2> HIDE DEF Counted
  <2> QED
    BY <1>1, <2>1, TotalReads
<1>4. Total(Spent', finished) = Total(Spent, finished)
  <2>1. \A j \in finished : Spent'[j] = Spent[j]
    BY <1>1 DEF Spent
  <2> HIDE DEF Spent
  <2> QED
    BY <1>1, <2>1, TotalReads
<1> QED
  BY <1>2, <1>3, <1>4 DEF Summed, totals

LEMMA StatsStart == Init => StatsInv
<1> SUFFICES ASSUME Init PROVE StatsInv
  OBVIOUS
<1>1. Present = {}
  BY DEF Init, Present
<1>2. \A f : Total(f, {}) = 0
  BY FS_EmptySet, TotalPicks
<1>3. Cardinality({}) = 0
  BY FS_EmptySet
<1> QED
  BY <1>1, <1>2, <1>3 DEF Init, StatsInv, StatsTypes, Clocked, Summed

(* Steps at which no time passes and no job ends. *)
LEMMA StatsQuiet ==
  ASSUME SchedInv, StatsInv,
         \/ \E s \in Schemes : scheduler_start_up(s)
         \/ dispatch \/ scheduler_clean_up \/ UNCHANGED vars
  PROVE  StatsInv'
<1>1. /\ UNCHANGED <<totals, finished, arrival_time, start_time, ran, waited, response, now>>
      /\ phase' # "tick" \/ UNCHANGED <<phase, cur>>
      /\ phase # "tick" \/ UNCHANGED <<phase, cur>>
  BY DEF scheduler_start_up, dispatch, scheduler_clean_up, vars, info, history
<1>2. StatsTypes' /\ Present' = Present
  BY <1>1 DEF StatsInv, StatsTypes, Present
<1>3. Clocked'
  BY <1>1, <1>2 DEF StatsInv, Clocked
<1>4. Summed'
  BY <1>1, <1>2, TotalsStay DEF StatsInv
<1> QED
  BY <1>2, <1>3, <1>4 DEF StatsInv

LEMMA StatsArrive ==
  ASSUME SchedInv, StatsInv, NEW i \in Jobs, scheduler_new_job(i)
  PROVE  StatsInv'
<1>1. /\ arrival_time[i] = -1 /\ arrival_time' = [arrival_time EXCEPT ![i] = now]
      /\ UNCHANGED <<start_time, totals, now, phase, cur, ran, waited, response, finished>>
  BY DEF scheduler_new_job, history
<1>2. /\ now \in Nat /\ arrival_time \in [Jobs -> Int] /\ i \notin Present
      /\ ran[i] = 0 /\ waited[i] = 0
      /\ phase = "tick" => cur \in Present
  BY <1>1, RunsFromQueue DEF SchedInv, TypeOK, Agreement, StatsInv, Clocked, Present
<1>3. /\ arrival_time'[i] = now /\ \A j \in Jobs \ {i} : arrival_time'[j] = arrival_time[j]
      /\ Present' \subseteq Present \cup {i}
  BY <1>1, <1>2 DEF Present
<1>4. StatsTypes'
  BY <1>1 DEF StatsInv, StatsTypes
<1>5. Clocked'
  <2>1. ASSUME NEW j \in Present' PROVE waited'[j] + ran'[j] = now' - arrival_time'[j]
    BY <1>1, <1>2, <1>3 DEF StatsInv, Clocked, Present
  <2>2. ASSUME NEW j \in Present', ran'[j] > 0, ~(phase' = "tick" /\ j = cur' /\ ran'[j] = 1)
        PROVE  start_time'[j] >= 0 /\ response'[j] = start_time'[j] - arrival_time'[j]
    <3>1. j \in Present /\ j # i
      BY <1>1, <1>2, <1>3, <2>2
    <3> QED
      BY <1>1, <1>3, <2>2, <3>1 DEF StatsInv, Clocked, Present
  <2>3. phase' = "tick" =>
          /\ ran'[cur'] > 0
          /\ ran'[cur'] = 1 =>
               start_time'[cur'] = -1 /\ response'[cur'] = now' - 1 - arrival_time'[cur']
    BY <1>1, <1>2, <1>3 DEF StatsInv, Clocked, Present
  <2>4. /\ \A j \in Jobs : arrival_time'[j] = -1 => waited'[j] = 0
        /\ \A j \in Jobs : ran'[j] = 0 => start_time'[j] = -1
    BY <1>1, <1>2, <1>3 DEF StatsInv, Clocked
  <2> QED
    BY <2>1, <2>2, <2>3, <2>4 DEF Clocked
<1>6. Summed'
  BY <1>1, <1>3, <1>4, TotalsStay DEF StatsInv, SchedInv, Accounted, TypeOK
<1> QED
  BY <1>4, <1>5, <1>6 DEF StatsInv

LEMMA StatsExpire ==
  ASSUME SchedInv, StatsInv, scheduler_quantum_expired
  PROVE  StatsInv'
<1>1. /\ phase = "tick" /\ phase' = "run"
      /\ start_time' = [start_time EXCEPT ![cur] = Started(cur)]
      /\ UNCHANGED <<arrival_time, totals, now, ran, waited, response, finished>>
  BY DEF scheduler_quantum_expired, history
<1>2. /\ cur \in Jobs /\ cur \in Present /\ now \in Nat /\ arrival_time \in [Jobs -> Int]
      /\ arrival_time[cur] \in Int /\ start_time[cur] \in Int /\ start_time \in [Jobs -> Int]
      /\ ran[cur] \in Nat /\ response[cur] \in Nat
  BY <1>1, RunsFromQueue DEF SchedInv, TypeOK, StatsInv, StatsTypes
<1>3. Started(cur) \in Int
  BY <1>2 DEF Started
<1>4. StatsTypes' /\ Present' = Present
  BY <1>1, <1>2, <1>3 DEF StatsInv, StatsTypes, Present
<1>5. /\ start_time'[cur] = Started(cur)
      /\ \A j \in Jobs \ {cur} : start_time'[j] = start_time[j]
  BY <1>1, <1>2
<1>6. Started(cur) >= 0 /\ response[cur] = Started(cur) - arrival_time[cur]
  <2>1. ran[cur] > 0 /\ arrival_time[cur] >= 0
    BY <1>1, <1>2 DEF StatsInv, Clocked, Present, SchedInv, Accounted
  <2>2. CASE ran[cur] = 1
    BY <1>1, <1>2, <2>1, <2>2 DEF StatsInv, Clocked, Started
  <2>3. CASE ran[cur] # 1
    <3>1. start_time[cur] >= 0 /\ response[cur] = start_time[cur] - arrival_time[cur]
      BY <1>2, <2>1, <2>3 DEF StatsInv, Clocked
    <3> QED
      BY <1>2, <3>1 DEF Started
  <2> QED
    BY <2>2, <2>3
<1>7. Clocked'
  <2>1. ASSUME NEW j \in Present', ran'[j] > 0
        PROVE  start_time'[j] >= 0 /\ response'[j] = start_time'[j] - arrival_time'[j]
    <3>1. CASE j = cur
      BY <1>1, <1>5, <1>6, <3>1
    <3>2. CASE j # cur
      BY <1>1, <1>4, <1>5, <2>1, <3>2 DEF StatsInv, Clocked, Present
    <3> QED
      BY <3>1, <3>2
  <2>2. \A j \in Jobs : ran'[j] = 0 => start_time'[j] = -1
    <3>1. ran[cur] # 0
      BY <1>1, <1>2 DEF StatsInv, Clocked
    <3> QED
      BY <1>1, <1>5, <3>1 DEF StatsInv, Clocked
  <2>3. /\ \A j \in Jobs : arrival_time'[j] = -1 => waited'[j] = 0
        /\ \A j \in Present' : waited'[j] + ran'[j] = now' - arrival_time'[j]
    BY <1>1, <1>4 DEF StatsInv, Clocked
  <2> QED
    BY <1>1, <2>1, <2>2, <2>3 DEF Clocked
<1>8. Summed'
  <2>1. \A j \in finished : j \in Jobs /\ j # cur
    BY <1>2 DEF Present, SchedInv, TypeOK
  <2> QED
    BY <1>1, <1>4, <1>5, <2>1, TotalsStay DEF StatsInv
<1> QED
  BY <1>4, <1>7, <1>8 DEF StatsInv

LEMMA StatsIdle ==
  ASSUME SchedInv, StatsInv, Idle
  PROVE  StatsInv'
<1>1. /\ phase = "idle" /\ phase' = "idle" /\ now' = now + 1 /\ waited' = Waited(Present)
      /\ UNCHANGED <<arrival_time, start_time, totals, cur, ran, response, finished>>
  BY DEF Idle, info
<1>2. /\ now \in Nat /\ arrival_time \in [Jobs -> Int] /\ ran \in [Jobs -> Nat]
      /\ waited \in [Jobs -> Nat]
  BY DEF SchedInv, TypeOK, StatsInv, StatsTypes
<1>3. /\ waited' \in [Jobs -> Nat]
      /\ \A j \in Jobs : waited'[j] = IF j \in Present THEN waited[j] + 1 ELSE waited[j]
      /\ Present' = Present
  BY <1>1, <1>2 DEF Waited, Present
<1>4. StatsTypes'
  BY <1>1, <1>3 DEF StatsInv, StatsTypes
<1>5. Clocked'
  <2>1. ASSUME NEW j \in Present' PROVE waited'[j] + ran'[j] = now' - arrival_time'[j]
    <3>1. /\ j \in Jobs /\ waited[j] + ran[j] = now - arrival_time[j]
          /\ waited'[j] = waited[j] + 1
      BY <1>3 DEF StatsInv, Clocked, Present
    <3> QED
      BY <1>1, <1>2, <3>1
  <2>2. \A j \in Jobs : arrival_time'[j] = -1 => waited'[j] = 0
    BY <1>1, <1>3 DEF StatsInv, Clocked, Present
  <2>3. /\ \A j \in Jobs : ran'[j] = 0 => start_time'[j] = -1
        /\ \A j \in Present' : ran'[j] > 0 =>
             start_time'[j] >= 0 /\ response'[j] = start_time'[j] - arrival_time'[j]
    BY <1>1, <1>3 DEF StatsInv, Clocked
  <2> QED
    BY <1>1, <2>1, <2>2, <2>3 DEF Clocked
<1>6. Summed'
  BY <1>1, <1>3, <1>4, TotalsStay DEF StatsInv, Present, SchedInv, TypeOK
<1> QED
  BY <1>4, <1>5, <1>6 DEF StatsInv

LEMMA StatsRun ==
  ASSUME SchedInv, StatsInv, Run
  PROVE  StatsInv'
<1>1. /\ phase = "run" /\ phase' = "tick" /\ now' = now + 1
      /\ ran' = [ran EXCEPT ![cur] = @ + 1]
      /\ response' = [response EXCEPT ![cur] = IF ran[cur] = 0 THEN waited[cur] ELSE @]
      /\ waited' = Waited(Present \ {cur})
      /\ UNCHANGED <<arrival_time, start_time, totals, cur, finished>>
  BY DEF Run, info
<1>2. /\ cur \in Jobs /\ cur \in Present /\ now \in Nat /\ arrival_time \in [Jobs -> Int]
      /\ ran \in [Jobs -> Nat] /\ waited \in [Jobs -> Nat] /\ response \in [Jobs -> Nat]
  BY <1>1, RunsFromQueue DEF SchedInv, TypeOK, StatsInv, StatsTypes
<1>3. /\ waited' \in [Jobs -> Nat]
      /\ \A j \in Jobs : waited'[j] = IF j \in Present \ {cur} THEN waited[j] + 1
                                                               ELSE waited[j]
      /\ Present' = Present
  BY <1>1, <1>2 DEF Waited, Present
<1>4. /\ ran' \in [Jobs -> Nat] /\ ran'[cur] = ran[cur] + 1
      /\ response' \in [Jobs -> Nat]
      /\ response'[cur] = IF ran[cur] = 0 THEN waited[cur] ELSE response[cur]
      /\ \A j \in Jobs \ {cur} : ran'[j] = ran[j] /\ response'[j] = response[j]
  BY <1>1, <1>2
<1>5. StatsTypes'
  BY <1>1, <1>3, <1>4 DEF StatsInv, StatsTypes
<1>6. Clocked'
  <2>1. ASSUME NEW j \in Present' PROVE waited'[j] + ran'[j] = now' - arrival_time'[j]
    <3>1. /\ j \in Jobs /\ waited[j] + ran[j] = now - arrival_time[j] /\ j \in Present
          /\ waited[j] \in Nat /\ ran[j] \in Nat /\ arrival_time[j] \in Int
      BY <1>2, <1>3 DEF StatsInv, Clocked, Present
    <3>2. CASE j = cur
      BY SMTT(40), <1>1, <1>2, <1>3, <1>4, <3>1, <3>2
    <3>3. CASE j # cur
      BY SMTT(40), <1>1, <1>2, <1>3, <1>4, <3>1, <3>3
    <3> QED
      BY <3>2, <3>3
  <2>2. \A j \in Jobs : arrival_time'[j] = -1 => waited'[j] = 0
    BY <1>1, <1>3 DEF StatsInv, Clocked, Present
  <2>3. \A j \in Jobs : ran'[j] = 0 => start_time'[j] = -1
    <3>1. ran'[cur] # 0
      BY <1>2, <1>4
    <3> QED
      BY <1>1, <1>4, <3>1 DEF StatsInv, Clocked
  <2>4. ASSUME NEW j \in Present', ran'[j] > 0, ~(j = cur /\ ran'[j] = 1)
        PROVE  start_time'[j] >= 0 /\ response'[j] = start_time'[j] - arrival_time'[j]
    <3>1. j \in Present /\ j \in Jobs
      BY <1>3 DEF Present
    <3>2. CASE j = cur
      <4>1. ran[cur] > 0
        BY <1>2, <1>4, <2>4, <3>2
      <4>2. response'[cur] = response[cur]
        BY <1>2, <1>4, <4>1
      <4> QED
        BY <1>1, <3>1, <3>2, <4>1, <4>2 DEF StatsInv, Clocked
    <3>3. CASE j # cur
      BY <1>1, <1>4, <2>4, <3>1, <3>3 DEF StatsInv, Clocked
    <3> QED
      BY <3>2, <3>3
  <2>5. /\ ran'[cur] > 0
        /\ ran'[cur] = 1 =>
             start_time'[cur] = -1 /\ response'[cur] = now' - 1 - arrival_time'[cur]
    <3>1. ran[cur] \in Nat /\ ran'[cur] > 0
      BY <1>2, <1>4
    <3>2. ASSUME ran'[cur] = 1
          PROVE  start_time'[cur] = -1 /\ response'[cur] = now' - 1 - arrival_time'[cur]
      <4>1. ran[cur] = 0
        BY <1>4, <3>1, <3>2
      <4>2. /\ start_time[cur] = -1 /\ waited[cur] + ran[cur] = now - arrival_time[cur]
            /\ response'[cur] = waited[cur]
        BY <1>2, <1>4, <4>1 DEF StatsInv, Clocked
      <4>3. waited[cur] \in Nat /\ arrival_time[cur] \in Int
        BY <1>2
      <4> QED
        BY <1>1, <1>2, <4>1, <4>2, <4>3
    <3> QED
      BY <3>1, <3>2
  <2> QED
    BY <1>1, <2>1, <2>2, <2>3, <2>4, <2>5 DEF Clocked
<1>7. Summed'
  <2>1. \A j \in finished : j \notin Present /\ j \in Jobs /\ j # cur
    BY <1>2 DEF Present, SchedInv, TypeOK
  <2>2. \A j \in finished : /\ waited'[j] = waited[j] /\ ran'[j] = ran[j]
                            /\ response'[j] = response[j]
    BY <1>3, <1>4, <2>1
  <2> QED
    BY <1>1, <1>5, <2>2, TotalsStay DEF StatsInv
<1> QED
  BY <1>5, <1>6, <1>7 DEF StatsInv

LEMMA StatsFinish ==
  ASSUME SchedInv, StatsInv, scheduler_job_finished
  PROVE  StatsInv'
<1>1. /\ phase \in {"run", "tick"} /\ phase' # "tick" /\ ran[cur] = RunTime[cur]
      /\ total_waiting_time' = total_waiting_time + now - arrival_time[cur] - RunTime[cur]
      /\ total_turnaround_time' = total_turnaround_time + now - arrival_time[cur]
      /\ total_response_time' = total_response_time + start_time[cur] - arrival_time[cur]
      /\ num_job' = num_job + 1 /\ finished' = finished \cup {cur}
      /\ UNCHANGED <<arrival_time, start_time, now, ran, waited, response>>
  BY DEF scheduler_job_finished, info
<1>2. /\ cur \in Jobs /\ cur \in Present /\ now \in Nat /\ arrival_time[cur] \in Int
      /\ ran \in [Jobs -> Nat] /\ waited \in [Jobs -> Nat] /\ response \in [Jobs -> Nat]
      /\ start_time[cur] \in Int /\ finished \subseteq Jobs
  BY <1>1, RunsFromQueue DEF SchedInv, TypeOK, StatsInv, StatsTypes
<1>3. cur \notin finished /\ Present' \subseteq Present
  BY <1>1, <1>2 DEF Present
<1>4. IsFiniteSet(finished) /\ Cardinality(finished) \in Nat
  BY <1>2, FS_Subset, FS_CardinalityType, SchedulerAssumption
<1>5. /\ waited[cur] + ran[cur] = now - arrival_time[cur]
      /\ Response(cur) = start_time[cur] - arrival_time[cur]
      /\ waited[cur] \in Nat /\ ran[cur] \in Nat
  <2>1. ran[cur] \in Nat /\ start_time[cur] # -1 => ran[cur] > 0
    BY <1>2 DEF StatsInv, Clocked
  <2>2. start_time[cur] # -1 => response[cur] = start_time[cur] - arrival_time[cur]
    BY <1>2, <2>1 DEF StatsInv, Clocked
  <2> QED
    BY <1>2, <2>2 DEF StatsInv, Clocked, Response
<1>6. StatsTypes'
  BY <1>1 DEF StatsInv, StatsTypes
<1>7. Clocked'
  <2>1. ASSUME NEW j \in Present' PROVE j \in Present /\ j # cur
    BY <1>1, <1>3 DEF Present
  <2> QED
    BY <1>1, <2>1 DEF StatsInv, Clocked
<1>8. /\ Total(waited, finished) \in Int
      /\ Total(waited, finished \cup {cur}) = Total(waited, finished) + waited[cur]
  <2>1. \A j \in finished \cup {cur} : waited[j] \in Int
    BY <1>2
  <2> QED
    BY <1>3, <1>4, <2>1, TotalType, TotalWith
<1>9. /\ Total(Counted, finished) \in Int
      /\ Total(Counted, finished \cup {cur}) = Total(Counted, finished) + Counted[cur]
      /\ Counted[cur] = start_time[cur] - arrival_time[cur]
  <2>1. arrival_time \in [Jobs -> Int]
    BY DEF SchedInv, TypeOK
  <2>2. ASSUME NEW j \in Jobs PROVE Counted[j] \in Int
    BY <1>2, <2>1 DEF Counted, Response
  <2>3. Counted[cur] = start_time[cur] - arrival_time[cur]
    BY <1>2, <1>5 DEF Counted
  <2> HIDE DEF Counted
  <2>4. \A j \in finished \cup {cur} : Counted[j] \in Int
    BY <1>2, <2>2
  <2> QED
    BY <1>3, <1>4, <2>3, <2>4, TotalType, TotalWith
<1>10. /\ Total(Spent, finished) \in Int
       /\ Total(Spent, finished \cup {cur}) = Total(Spent, finished) + Spent[cur]
       /\ Spent[cur] = waited[cur] + ran[cur]
  <2>1. (\A j \in finished \cup {cur} : Spent[j] \in Int)
        /\ Spent[cur] = waited[cur] + ran[cur]
    BY <1>2 DEF Spent
  <2> QED
    BY <1>3, <1>4, <2>1, TotalType, TotalWith
<1>11. Cardinality(finished \cup {cur}) = Cardinality(finished) + 1
  BY <1>3, <1>4, FS_AddElement
<1>12. Spent' = Spent /\ Counted' = Counted
  BY <1>1 DEF Spent, Counted, Response
<1>13. Summed'
  <2>1. total_waiting_time' = Total(waited, finished \cup {cur})
    BY <1>1, <1>2, <1>5, <1>8 DEF StatsInv, Summed
  <2>2. total_turnaround_time' = Total(Spent, finished \cup {cur})
    BY <1>1, <1>2, <1>5, <1>10 DEF StatsInv, Summed
  <2>3. total_response_time' = Total(Counted, finished \cup {cur})
    BY <1>1, <1>2, <1>5, <1>9 DEF StatsInv, Summed
  <2>4. num_job' = Cardinality(finished \cup {cur})
    BY <1>1, <1>11 DEF StatsInv, Summed
  <2> QED
    BY <1>1, <1>12, <2>1, <2>2, <2>3, <2>4 DEF Summed
<1> QED
  BY <1>6, <1>7, <1>13 DEF StatsInv

LEMMA StatsStep == SchedInv /\ StatsInv /\ [Next]_vars => StatsInv'
BY StatsQuiet, StatsArrive, StatsExpire, StatsIdle, StatsRun, StatsFinish DEF Next

(* The total of what the jobs spent is that of the sums. *)
LEMMA SpentTotal ==
  ASSUME SchedInv
  PROVE  MapThenSumSet(LAMBDA j : waited[j] + ran[j], finished) = Total(Spent, finished)
<1>1. finished \subseteq Jobs
  BY DEF SchedInv, TypeOK
<1>2. ASSUME NEW g
      PROVE  g = [s \in SUBSET finished |->
                    IF s = {} THEN 0
                    ELSE (waited[Pick(s)] + ran[Pick(s)]) + g[s \ {Pick(s)}]]
               <=> Adds(Spent, finished, g)
  <2>1. ASSUME NEW s \in SUBSET finished, s # {}
        PROVE  Spent[Pick(s)] = waited[Pick(s)] + ran[Pick(s)]
    <3>1. Pick(s) \in Jobs
      BY <1>1, <2>1 DEF Pick
    <3> QED
      BY <3>1 DEF Spent
  <2> QED
    BY <2>1 DEF Adds
<1>3. MapThenSumSet(LAMBDA j : waited[j] + ran[j], finished)
        = (CHOOSE g : g = [s \in SUBSET finished |->
                             IF s = {} THEN 0
                             ELSE (waited[Pick(s)] + ran[Pick(s)]) + g[s \ {Pick(s)}]])[finished]
  BY DEF MapThenSumSet, MapThenFoldSet, Pick
<1>4. Total(Spent, finished) = (CHOOSE g : Adds(Spent, finished, g))[finished]
  BY DEF Total, MapThenSumSet, MapThenFoldSet, Adds, Pick
<1> QED
  BY <1>2, <1>3, <1>4

(* So is that of what is counted as the response times. *)
LEMMA CountedTotal ==
  ASSUME SchedInv
  PROVE  MapThenSumSet(Response, finished) = Total(Counted, finished)
<1>1. finished \subseteq Jobs
  BY DEF SchedInv, TypeOK
<1>2. ASSUME NEW g
      PROVE  g = [s \in SUBSET finished |->
                    IF s = {} THEN 0 ELSE Response(Pick(s)) + g[s \ {Pick(s)}]]
               <=> Adds(Counted, finished, g)
  <2>1. ASSUME NEW s \in SUBSET finished, s # {}
        PROVE  Counted[Pick(s)] = Response(Pick(s))
    <3>1. Pick(s) \in Jobs
      BY <1>1, <2>1 DEF Pick
    <3> QED
      BY <3>1 DEF Counted
  <2> QED
    BY <2>1 DEF Adds
<1>3. MapThenSumSet(Response, finished)
        = (CHOOSE g : g = [s \in SUBSET finished |->
                             IF s = {} THEN 0
                             ELSE Response(Pick(s)) + g[s \ {Pick(s)}]])[finished]
  BY DEF MapThenSumSet, MapThenFoldSet, Pick
<1>4. Total(Counted, finished) = (CHOOSE g : Adds(Counted, finished, g))[finished]
  BY DEF Total, MapThenSumSet, MapThenFoldSet, Adds, Pick
<1> QED
  BY <1>2, <1>3, <1>4

(* The totals that scheduler_clean_up divides are what the jobs went        *)
(* through, for any jobs that arrive at any time; the response time of one  *)
(* that ends before its first quantum is reported is counted from -1, the   *)
(* time it is said to have started.                                         *)
THEOREM SchedulerStatsExact == Spec => []StatsExact
<1>1. SchedInv /\ StatsInv => StatsExact
  <2> SUFFICES ASSUME SchedInv, StatsInv PROVE StatsExact
    OBVIOUS
  <2>1. MapThenSumSet(LAMBDA j : waited[j], finished) = Total(waited, finished)
    BY DEF Total
  <2> QED
    BY <2>1, SpentTotal, CountedTotal DEF StatsExact, StatsInv, Summed
<1> QED
  BY <1>1, StatsStart, StatsStep, SchedInvariant, PTL DEF Spec

(***************************************************************************)
(* Shell.                                                                  *)
(***************************************************************************)
(* What may be entered into the table: a failed fork enters -1. *)
Numbers == Pids \cup {Self, -1}
Rows == Numbers \X {"RUNNING", "KILLED"}

(* A table has at most one entry for a pid; it lists p when that entry is   *)
(* not marked KILLED.                                                       *)
Table(t) == t \in Seq(Rows) /\ \A k, l \in 1..Len(t) : t[k][1] = t[l][1] => k = l
Lists(t, p) == \E k \in 1..Len(t) : t[k] = <<p, "RUNNING">>

(* The main thread has a child that it has not yet let go. *)
Minding == pc \in {"forked", "listed", "waiting"}

ShellTypes ==
  /\ pc \in {"prompt", "classify", "forked", "listed", "waiting", "reaped", "exited"}
  /\ bg \in BOOLEAN /\ handling \in BOOLEAN /\ leader \in BOOLEAN
  /\ Minding => child \in Pids
  /\ pc \notin {"prompt", "exited"} => cmd \in Sh!Commands
  /\ rest[1] # "none" => rest[2] \in Sh!Commands
  /\ cmd_his \in Seq(Sh!Commands)
  /\ Table(processes)
  /\ state \in [Pids -> {"free", "running", "stopped", "zombie"}]
  /\ inbg \in [Pids -> BOOLEAN] /\ own \in [Pids -> BOOLEAN]

(* A child that lives is in the table from external_list on, and is one of  *)
(* the background unless the main thread minds it.                          *)
Looked ==
  /\ \A p \in Pids : Sh!Alive(p) =>
       /\ (pc = "forked" /\ p = child) \/ Lists(processes, p)
       /\ inbg[p] \/ (Minding /\ p = child)
  /\ Minding => (Sh!Alive(child) => (inbg[child] <=> bg))
  /\ pc = "waiting" => ~bg

(* A pid that is listed and that no child has belongs to one that was       *)
(* reaped and not marked.                                                   *)
Tracked == \A p \in Pids : Lists(processes, p) /\ state[p] = "free" => p \in stale

ShellInv ==
  /\ ShellTypes
  /\ pc # "exited" => Looked /\ Tracked /\ saved = None /\ shot = {}
  /\ pc = "exited" => ~handling
  /\ Sh!ExitIsClean

(***************************************************************************)
(* The table.                                                              *)
(***************************************************************************)
LEMMA TableEntry ==
  ASSUME NEW t, Table(t), NEW p
  PROVE  \/ Sh!Entry(t, p) = 0 /\ \A k \in 1..Len(t) : t[k][1] # p
         \/ /\ Sh!Entry(t, p) \in 1..Len(t) /\ t[Sh!Entry(t, p)][1] = p
            /\ \A k \in 1..Len(t) : t[k][1] = p => k = Sh!Entry(t, p)
<1> DEFINE I == {k \in 1..Len(t) : t[k][1] = p}
<1>1. Sh!Entry(t, p) = IF I # {} THEN Min(I) ELSE 0
  BY DEF Sh!Entry, Sh!SelectInSeq, Sh!Min, Min
<1>2. Len(t) \in Nat /\ I \subseteq Nat
  BY DEF Table
<1>3. CASE I = {}
  BY <1>1, <1>3
<1>4. CASE I # {}
  <2>1. Min(I) \in I
    <3> HIDE DEF I
    <3> QED
      BY <1>2, <1>4, MinOfSet
  <2> QED
    BY <1>1, <1>4, <2>1 DEF Table
<1> QED
  BY <1>3, <1>4

(* What is put into the entry of p is the only thing that changes. *)
Marks(t, u, p, status) ==
  /\ Table(u) /\ Len(u) = Len(t) /\ u[Sh!Entry(t, p)] = <<p, status>>
  /\ Sh!Entry(t, p) \in 1..Len(t)
  /\ \A q : q # p /\ Lists(t, q) => Lists(u, q)
  /\ \A k \in 1..Len(t) : u[k][1] = t[k][1] /\ (u[k] = t[k] \/ t[k][1] = p)

LEMMA TableSet ==
  ASSUME NEW t, Table(t), NEW p \in Numbers, NEW status \in {"RUNNING", "KILLED"},
         Sh!Entry(t, p) # 0, NEW u, u = [t EXCEPT ![Sh!Entry(t, p)] = <<p, status>>]
  PROVE  Marks(t, u, p, status)
<1> DEFINE e == Sh!Entry(t, p)
<1>1. e \in 1..Len(t) /\ t[e][1] = p /\ t \in Seq(Rows) /\ <<p, status>> \in Rows
  BY TableEntry DEF Table, Rows
<1> HIDE DEF e
<1>2. /\ u \in Seq(Rows) /\ Len(u) = Len(t) /\ u[e] = <<p, status>>
      /\ \A k \in 1..Len(t) : k # e => u[k] = t[k]
  BY <1>1 DEF e
<1>3. \A k \in 1..Len(t) : u[k][1] = t[k][1]
  BY <1>1, <1>2
<1>4. Table(u)
  BY <1>2, <1>3 DEF Table
<1>5. ASSUME NEW q, q # p, Lists(t, q) PROVE Lists(u, q)
  <2>1. PICK k \in 1..Len(t) : t[k] = <<q, "RUNNING">>
    BY <1>5 DEF Lists
  <2>2. k # e
    BY <1>1, <1>5, <2>1
  <2> QED
    BY <1>2, <2>1, <2>2 DEF Lists
<1>6. \A k \in 1..Len(t) : u[k] = t[k] \/ t[k][1] = p
  BY <1>1, <1>2
<1> QED
  BY <1>1, <1>2, <1>3, <1>4, <1>5, <1>6 DEF e, Marks

(* So nothing else becomes listed. *)
LEMMA TableSame ==
  ASSUME NEW t, NEW u, NEW p, Len(u) = Len(t),
         \A k \in 1..Len(t) : u[k][1] = t[k][1] /\ (u[k] = t[k] \/ t[k][1] = p)
  PROVE  \A q : q # p /\ Lists(u, q) => Lists(t, q)
<1> SUFFICES ASSUME NEW q, q # p, Lists(u, q) PROVE Lists(t, q)
  OBVIOUS
<1>1. PICK k \in 1..Len(t) : u[k] = <<q, "RUNNING">>
  BY DEF Lists
<1>2. t[k][1] = q
  BY <1>1
<1> QED
  BY <1>1, <1>2 DEF Lists

LEMMA TableAdd ==
  ASSUME NEW t, Table(t), NEW p \in Numbers
  PROVE  /\ Table(Sh!add_process(t, p)) /\ Lists(Sh!add_process(t, p), p)
         /\ \A q : q # p => (Lists(t, q) <=> Lists(Sh!add_process(t, p), q))
<1> DEFINE u == Sh!add_process(t, p)
           row == <<p, "RUNNING">>
<1>0. row \in Rows /\ t \in Seq(Rows) /\ "RUNNING" \in {"RUNNING", "KILLED"}
  BY DEF Table, Rows
<1>1. CASE Sh!Entry(t, p) # 0
  <2>1. u = [t EXCEPT ![Sh!Entry(t, p)] = row]
    BY <1>1 DEF Sh!add_process
  <2> HIDE DEF u
  <2>2. /\ Table(u) /\ Len(u) = Len(t) /\ u[Sh!Entry(t, p)] = row
        /\ Sh!Entry(t, p) \in 1..Len(t)
        /\ \A q : q # p /\ Lists(t, q) => Lists(u, q)
        /\ \A q : q # p /\ Lists(u, q) => Lists(t, q)
    <3>1. Marks(t, u, p, "RUNNING")
      BY <1>0, <1>1, <2>1, TableSet
    <3>2. \A q : q # p /\ Lists(u, q) => Lists(t, q)
      BY <3>1, TableSame DEF Marks
    <3> QED
      BY <3>1, <3>2 DEF Marks
  <2>3. Lists(u, p)
    BY <2>2 DEF Lists
  <2> QED
    BY <2>2, <2>3 DEF u
<1>2. CASE Sh!Entry(t, p) = 0
  <2>1. u = Append(t, row)
    BY <1>2 DEF Sh!add_process
  <2> HIDE DEF u
  <2>2. t \in Seq(Rows) /\ row \in Rows /\ \A k \in 1..Len(t) : t[k][1] # p
    <3>1. \A k \in 1..Len(t) : t[k][1] # p
      BY <1>2, TableEntry
    <3> QED
      BY <1>0, <3>1
  <2>3. /\ u \in Seq(Rows) /\ Len(u) = Len(t) + 1 /\ u[Len(t) + 1] = row
        /\ \A k \in 1..Len(t) : u[k] = t[k]
    BY <2>1, <2>2
  <2>4. Table(u)
    <3>1. \A k, l \in 1..Len(t) : u[k][1] = u[l][1] => k = l
      BY <2>3 DEF Table
    <3>2. \A k \in 1..Len(u) : k \in 1..Len(t) \/ k = Len(t) + 1
      BY <2>2, <2>3
    <3>3. \A k \in 1..Len(t) : u[k][1] # u[Len(t) + 1][1]
      BY <2>2, <2>3
    <3> QED
      BY <2>3, <3>1, <3>2, <3>3 DEF Table
  <2>5. Len(t) + 1 \in 1..Len(u) /\ 1..Len(t) \subseteq 1..Len(u)
    BY <2>2, <2>3
  <2>6. Lists(u, p) /\ \A q : Lists(t, q) => Lists(u, q)
    BY <2>3, <2>5 DEF Lists
  <2>7. ASSUME NEW q, q # p, Lists(u, q) PROVE Lists(t, q)
    <3>1. PICK k \in 1..Len(u) : u[k] = <<q, "RUNNING">>
      BY <2>7 DEF Lists
    <3>2. k # Len(t) + 1
      BY <2>3, <2>7, <3>1
    <3>3. k \in 1..Len(t)
      BY <2>2, <2>3, <3>2
    <3> QED
      BY <2>3, <3>1, <3>3 DEF Lists
  <2> QED
    BY <2>4, <2>6, <2>7 DEF u
<1> QED
  BY <1>1, <1>2

LEMMA TableKill ==
  ASSUME NEW t, Table(t), NEW p \in Numbers
  PROVE  /\ Table(Sh!set_process_status(t, p, "KILLED"))
         /\ \A q : q # p => (Lists(t, q) <=> Lists(Sh!set_process_status(t, p, "KILLED"), q))
         /\ ~Lists(Sh!set_process_status(t, p, "KILLED"), p)
<1> DEFINE u == Sh!set_process_status(t, p, "KILLED")
<1>1. CASE Sh!Entry(t, p) # 0
  <2>1. u = [t EXCEPT ![Sh!Entry(t, p)] = <<p, "KILLED">>]
    BY <1>1 DEF Sh!set_process_status
  <2> HIDE DEF u
  <2>2. /\ Table(u) /\ ~Lists(u, p)
        /\ \A q : q # p /\ Lists(t, q) => Lists(u, q)
        /\ \A q : q # p /\ Lists(u, q) => Lists(t, q)
    <3>1. Marks(t, u, p, "KILLED")
      BY <1>1, <2>1, TableSet
    <3>2. \A q : q # p /\ Lists(u, q) => Lists(t, q)
      BY <3>1, TableSame DEF Marks
    <3>3. ASSUME Lists(u, p) PROVE FALSE
      <4>1. PICK k \in 1..Len(u) : u[k] = <<p, "RUNNING">>
        BY <3>3 DEF Lists
      <4>2. k = Sh!Entry(t, p)
        <5>1. t[k][1] = p /\ k \in 1..Len(t)
          BY <3>1, <4>1 DEF Marks
        <5> QED
          BY <5>1, TableEntry
      <4> QED
        BY <3>1, <4>1, <4>2 DEF Marks
    <3> QED
      BY <3>1, <3>2, <3>3 DEF Marks
  <2> QED
    BY <2>2 DEF u
<1>2. CASE Sh!Entry(t, p) = 0
  <2>1. \A k \in 1..Len(t) : t[k][1] # p
    BY <1>2, TableEntry
  <2>2. ~Lists(t, p)
    BY <2>1 DEF Lists
  <2> QED
    BY <1>2, <2>2 DEF Sh!set_process_status
<1> QED
  BY <1>1, <1>2

LEMMA ShellDone ==
  ASSUME rest[1] # "none" => rest[2] \in Sh!Commands, NEW r, Sh!Done(r)
  PROVE  /\ pc' \in {"prompt", "classify"} /\ (pc' = "classify" => cmd' \in Sh!Commands)
         /\ rest'[1] = "none" /\ bg' = bg /\ ~Minding'
<1> DEFINE on == CASE rest[1] = "and" -> r \/ nested
                   [] rest[1] = "or" -> ~(r \/ nested)
                   [] rest[1] = "then" -> TRUE
                   [] rest[1] = "none" -> FALSE
<1>1. /\ IF on THEN pc' = "classify" /\ cmd' = rest[2] ELSE pc' = "prompt" /\ cmd' = None
      /\ rest' = <<"none", None>> /\ bg' = bg
  BY DEF Sh!Done
<1>2. on => rest[1] # "none"
  OBVIOUS
<1> HIDE DEF on
<1> QED
  BY <1>1, <1>2 DEF Minding

(***************************************************************************)
(* The invariant, step by step.                                            *)
(***************************************************************************)
LEMMA ShellStart ==
  ASSUME Sh!ShellAssumption, Sh!Init
  PROVE  ShellInv
<1>1. /\ pc = "prompt" /\ bg = FALSE /\ handling = FALSE /\ leader \in BOOLEAN
      /\ rest = <<"none", None>> /\ cmd_his = <<>> /\ saved = None /\ shot = {}
      /\ processes = <<<<Self, "RUNNING">>>>
      /\ state = [p \in Pids |-> "free"] /\ inbg = [p \in Pids |-> FALSE]
      /\ own = [p \in Pids |-> FALSE]
  BY DEF Sh!Init
<1>2. Table(processes)
  <2>1. <<Self, "RUNNING">> \in Rows
    BY DEF Rows, Sh!ShellAssumption, Numbers
  <2>2. processes \in Seq(Rows) /\ Len(processes) = 1
    BY <1>1, <2>1
  <2> QED
    BY <2>2 DEF Table
<1>3. rest[1] = "none"
  BY <1>1
<1>4. \A p \in Pids : ~Sh!Alive(p)
  BY <1>1 DEF Sh!Alive
<1>5. ShellTypes
  <2>1. /\ state \in [Pids -> {"free", "running", "stopped", "zombie"}]
        /\ inbg \in [Pids -> BOOLEAN] /\ own \in [Pids -> BOOLEAN]
    BY <1>1
  <2>2. cmd_his \in Seq(Sh!Commands)
    BY <1>1
  <2>3. pc = "prompt" /\ bg \in BOOLEAN /\ handling \in BOOLEAN /\ leader \in BOOLEAN
    BY <1>1
  <2> QED
    BY <1>2, <1>3, <2>1, <2>2, <2>3 DEF ShellTypes, Minding
<1> QED
  <2>1. Tracked
    <3>1. \A p \in Pids : p # Self
      BY DEF Sh!ShellAssumption
    <3>2. \A k \in 1..Len(processes) : processes[k][1] = Self
      BY <1>1
    <3>3. \A p : Lists(processes, p) => p = Self
      BY <3>2 DEF Lists
    <3> QED
      BY <3>1, <3>3 DEF Tracked
  <2> QED
    BY <1>1, <1>4, <1>5, <2>1 DEF ShellInv, Looked, Minding, Sh!ExitIsClean

(* The end of the shell leaves only its last promise to keep. *)
LEMMA ShellEnds ==
  ASSUME ShellTypes', pc' = "exited", ~handling', Sh!ExitIsClean'
  PROVE  ShellInv'
  BY DEF ShellInv

(* The main thread turns from one command to the next, or to the prompt,    *)
(* and minds no child.                                                      *)
LEMMA ShellTurns ==
  ASSUME ShellInv, pc # "exited", ~Minding, ~Minding', pc' # "exited", ShellTypes',
         processes' = processes, state' = state, inbg' = inbg, saved' = saved,
         shot' = shot, stale' = stale
  PROVE  ShellInv'
<1>1. Looked /\ Tracked /\ saved = None /\ shot = {}
  BY DEF ShellInv
<1>2. \A p \in Pids : Sh!Alive(p) => Lists(processes, p) /\ inbg[p]
  BY <1>1 DEF Looked, Minding
<1>3. \A p \in Pids : Sh!Alive(p)' <=> Sh!Alive(p)
  BY DEF Sh!Alive
<1>4. Looked'
  BY <1>2, <1>3 DEF Looked, Minding
<1>5. Tracked'
  BY <1>1 DEF Tracked, Lists
<1> QED
  BY <1>1, <1>4, <1>5 DEF ShellInv, Sh!ExitIsClean

LEMMA ShellBuiltin ==
  ASSUME ShellInv, pc = "classify", NEW r, NEW remember, Sh!Builtin(r, remember)
  PROVE  ShellInv'
<1>1. /\ ShellTypes /\ Sh!Done(r)
      /\ cmd_his' = (IF remember THEN Append(cmd_his, cmd) ELSE cmd_his)
      /\ processes' = processes /\ saved' = saved /\ handling' = handling /\ state' = state
      /\ inbg' = inbg /\ own' = own /\ leader' = leader /\ shot' = shot /\ stale' = stale
  BY DEF ShellInv, Sh!Builtin, Sh!system, Sh!history
<1>2. /\ pc' \in {"prompt", "classify"} /\ (pc' = "classify" => cmd' \in Sh!Commands)
      /\ rest'[1] = "none" /\ bg' = bg /\ ~Minding'
  BY <1>1, ShellDone DEF ShellTypes
<1>3. cmd_his' \in Seq(Sh!Commands)
  BY <1>1 DEF ShellTypes
<1>4. ShellTypes'
  BY <1>1, <1>2, <1>3 DEF ShellTypes
<1> QED
  BY <1>1, <1>2, <1>4, ShellTurns DEF Minding

LEMMA ShellRead ==
  ASSUME ShellInv, NEW l \in Lines, Sh!ShellAssumption, Sh!Read(l)
  PROVE  ShellInv'
<1>1. /\ ShellTypes /\ pc = "prompt" /\ pc' = "classify" /\ cmd' = l.first
      /\ rest' = <<l.op, l.second>> /\ bg' = l.bg
      /\ processes' = processes /\ cmd_his' = cmd_his /\ saved' = saved
      /\ handling' = handling /\ state' = state
      /\ inbg' = inbg /\ own' = own /\ leader' = leader /\ shot' = shot /\ stale' = stale
  BY DEF ShellInv, Sh!Read, Sh!At, Sh!system, Sh!history
<1>2. cmd' \in Sh!Commands /\ (l.op # "none" => l.second \in Sh!Commands) /\ l.bg \in BOOLEAN
  BY <1>1 DEF Sh!Commands, Sh!ShellAssumption
<1>3. rest'[1] = l.op /\ rest'[2] = l.second
  BY <1>1
<1>4. ShellTypes'
  BY <1>1, <1>2, <1>3 DEF ShellTypes, Minding
<1> QED
  BY <1>1, <1>4, ShellTurns DEF Minding

LEMMA ShellRerun ==
  ASSUME ShellInv, Sh!rerun
  PROVE  ShellInv'
<1>1. CASE /\ \E k \in DOMAIN cmd_his : cmd' = cmd_his[k]
           /\ bg' = FALSE
           /\ UNCHANGED <<pc, rest, child, lines, processes, cmd_his, saved, handling,
                         Sh!system, Sh!history>>
  <2>1. /\ ShellTypes /\ pc = "classify" /\ pc' = pc /\ rest' = rest
        /\ processes' = processes /\ cmd_his' = cmd_his /\ saved' = saved
        /\ handling' = handling /\ state' = state /\ bg' = FALSE
        /\ inbg' = inbg /\ own' = own /\ leader' = leader /\ shot' = shot /\ stale' = stale
    BY <1>1 DEF ShellInv, Sh!rerun, Sh!Is, Sh!At, Sh!system, Sh!history
  <2>2. cmd' \in Sh!Commands
    BY <1>1, <2>1 DEF ShellTypes
  <2>3. ShellTypes'
    BY <2>1, <2>2 DEF ShellTypes, Minding
  <2> QED
    BY <2>1, <2>3, ShellTurns DEF Minding
<1>2. CASE Sh!Builtin(FALSE, FALSE)
  BY <1>2, ShellBuiltin DEF Sh!rerun, Sh!Is, Sh!At
<1> QED
  BY <1>1, <1>2 DEF Sh!rerun

LEMMA ShellRerunLast ==
  ASSUME ShellInv, Sh!rerun_last
  PROVE  ShellInv'
<1>1. /\ ShellTypes /\ pc = "classify" /\ saved = None /\ shot = {} /\ ~handling
      /\ processes' = processes /\ cmd_his' = cmd_his /\ saved' = saved
      /\ handling' = handling /\ state' = state
      /\ inbg' = inbg /\ own' = own /\ leader' = leader /\ shot' = shot /\ stale' = stale
  BY DEF ShellInv, Sh!ExitIsClean, Sh!rerun_last, Sh!Is, Sh!At, Sh!system, Sh!history
<1>2. CASE /\ cmd_his # <<>> /\ cmd' = Sh!Last(cmd_his) /\ bg' = FALSE
           /\ UNCHANGED <<pc, rest, child, lines>>
  <2>1. cmd' \in Sh!Commands
    BY <1>1, <1>2 DEF ShellTypes, Sh!Last
  <2>2. ShellTypes'
    BY <1>1, <1>2, <2>1 DEF ShellTypes, Minding
  <2> QED
    BY <1>1, <1>2, <2>2, ShellTurns DEF Minding
<1>3. CASE pc' = "exited" /\ UNCHANGED <<cmd, rest, bg, nested, child, lines>>
  <2>1. ShellTypes'
    BY <1>1, <1>3 DEF ShellTypes, Minding
  <2>2. Sh!ExitIsClean'
    BY <1>1, <1>3 DEF Sh!ExitIsClean
  <2> QED
    BY <1>1, <1>3, <2>1, <2>2, ShellEnds
<1> QED
  BY <1>2, <1>3 DEF Sh!rerun_last

(* kill, stop and cont take the life of, or stop or continue, no child but  *)
(* theirs, and kill alone marks an entry, of a child that lives no longer.  *)
LEMMA ShellSignals ==
  ASSUME ShellInv, pc = "classify", Sh!ShellAssumption, NEW p \in Pids, NEW from, NEW to, NEW c, NEW t,
         \/ /\ from = {"running", "stopped"} /\ to = "zombie"
            /\ t = Sh!set_process_status(processes, p, "KILLED")
         \/ /\ from \in {{"running"}, {"stopped"}} /\ to \in {"running", "stopped"}
            /\ t = processes,
         Sh!Done(TRUE), cmd_his' = Append(cmd_his, cmd), processes' = t,
         IF state[p] \in from
         THEN state' = [state EXCEPT ![p] = to]
         ELSE state' = state,
         UNCHANGED <<saved, handling, inbg, own, leader, shot, stale>>
  PROVE  ShellInv'
<1>1. ShellTypes /\ Looked /\ Tracked /\ saved = None /\ shot = {} 
  BY DEF ShellInv
<1>2. /\ pc' \in {"prompt", "classify"} /\ (pc' = "classify" => cmd' \in Sh!Commands)
      /\ rest'[1] = "none" /\ bg' = bg /\ ~Minding'
  BY <1>1, ShellDone DEF ShellTypes
<1>3. cmd_his' \in Seq(Sh!Commands)
  BY <1>1 DEF ShellTypes
<1>4. /\ Table(t) /\ \A q : (q # p \/ t = processes) /\ Lists(processes, q) => Lists(t, q)
      /\ \A q : Lists(t, q) => Lists(processes, q)
  BY <1>1, TableKill DEF ShellTypes, Numbers
<1>5. ShellTypes'
  <2>1. state' \in [Pids -> {"free", "running", "stopped", "zombie"}]
    BY <1>1 DEF ShellTypes
  <2> QED
    BY <1>1, <1>2, <1>3, <1>4, <2>1 DEF ShellTypes
<1>6. \A q \in Pids : q # p => (Sh!Alive(q)' <=> Sh!Alive(q))
  BY <1>1 DEF ShellTypes, Sh!Alive
<1>7. Sh!Alive(p)' => Sh!Alive(p) /\ t = processes
  BY <1>1 DEF ShellTypes, Sh!Alive
<1>8. \A q \in Pids : Sh!Alive(q) => Lists(processes, q) /\ inbg[q]
  BY <1>1 DEF Looked, Minding
<1>9. Looked'
  BY <1>2, <1>4, <1>6, <1>7, <1>8 DEF Looked, Minding
<1>10. Tracked'
  <2>1. \A q \in Pids : state'[q] = "free" => state[q] = "free"
    BY <1>1 DEF ShellTypes
  <2>2. processes' = t /\ stale' = stale
    OBVIOUS
  <2> QED
    BY <1>1, <1>4, <2>1, <2>2 DEF Tracked
<1> QED
  BY <1>1, <1>5, <1>9, <1>10, <1>2 DEF ShellInv, Sh!ExitIsClean

LEMMA ShellSignalled ==
  ASSUME ShellInv, Sh!ShellAssumption, Sh!kill \/ Sh!stop \/ Sh!cont
  PROVE  ShellInv'
<1> DEFINE p == cmd[2]
           killed == Sh!set_process_status(processes, p, "KILLED")
<1>1. ASSUME NEW name \in {"kill", "stop", "cont"}, NEW from, NEW to, NEW c, NEW t,
             Sh!Signals(name, from, to, c, t),
             \/ from = {"running", "stopped"} /\ to = "zombie" /\ t = killed
             \/ /\ from \in {{"running"}, {"stopped"}} /\ to \in {"running", "stopped"}
                /\ t = processes
      PROVE  ShellInv'
  <2>1. pc = "classify" /\ cmd[1] = name
    BY <1>1 DEF Sh!Signals, Sh!Is, Sh!At
  <2>2. cmd[2] \in Pids
    <3>1. cmd \in Sh!Commands
      BY <2>1 DEF ShellInv, ShellTypes
    <3> QED
      BY <1>1, <2>1, <3>1 DEF Sh!ShellAssumption
  <2>3. CASE Sh!Builtin(FALSE, FALSE)
    BY <2>1, <2>3, ShellBuiltin
  <2>4. CASE /\ Sh!Done(TRUE) /\ cmd_his' = Append(cmd_his, cmd) /\ processes' = t
             /\ IF state[p] \in from
                THEN /\ state' = [state EXCEPT ![p] = to]
                     /\ code' = [code EXCEPT ![p] = c]
                     /\ sigchld' = TRUE
                ELSE UNCHANGED <<state, code, sigchld>>
             /\ UNCHANGED <<saved, handling, inbg, own, leader, Sh!history>>
    <3> HIDE DEF p
    <3>1. p \in Pids /\ p = cmd[2]
      BY <2>2 DEF p
    <3>2. /\ IF state[p] \in from THEN state' = [state EXCEPT ![p] = to] ELSE state' = state
      BY <2>4
    <3> QED
      BY <1>1, <2>1, <2>4, <3>1, <3>2, ShellSignals DEF Sh!history
  <2> QED
    BY <1>1, <2>3, <2>4 DEF Sh!Signals
<1>2. CASE Sh!kill
  BY <1>1, <1>2 DEF Sh!kill
<1>3. CASE Sh!stop
  BY <1>1, <1>3 DEF Sh!stop
<1>4. CASE Sh!cont
  BY <1>1, <1>4 DEF Sh!cont
<1> QED
  BY <1>2, <1>3, <1>4

(* shell_exit kills each child that lives and has no group of its own, when *)
(* the table it walks lists each child that lives.                          *)
LEMMA ShellExit ==
  ASSUME ShellInv, Sh!ShellAssumption, pc # "exited", NEW t, Table(t),
         \A p \in Pids : Sh!Alive(p) => Lists(t, p),
         \A p \in Pids : Lists(t, p) /\ state[p] = "free" => p \in stale,
         ~handling, Sh!shell_exit(t)
  PROVE  ShellInv'
<1> DEFINE victims == IF Self \in Sh!Doomed(t) THEN {}
                      ELSE {p \in Pids : p \in Sh!Doomed(t) /\ Sh!Alive(p)}
<1>1. /\ ShellTypes /\ pc' = "exited"
      /\ state' = [p \in Pids |-> IF p \in victims THEN "zombie" ELSE state[p]]
      /\ saved' = (IF Self \in Sh!Doomed(t) THEN None ELSE cmd_his)
      /\ shot' = (IF Self \in Sh!Doomed(t) THEN {} ELSE Sh!Doomed(t)) /\ stale' = stale
      /\ processes' = t /\ rest' = rest /\ bg' = bg /\ child' = child
      /\ cmd_his' = cmd_his /\ handling' = handling /\ inbg' = inbg /\ own' = own
      /\ leader' = leader
  BY DEF ShellInv, Sh!shell_exit
<1>2. ShellTypes'
  <2>1. state' \in [Pids -> {"free", "running", "stopped", "zombie"}]
    <3> HIDE DEF victims
    <3> QED
      BY <1>1 DEF ShellTypes
  <2> QED
    BY <1>1, <2>1 DEF ShellTypes, Minding
<1>3. -1 \notin Sh!Doomed(t)
  <2>1. -1 \notin Pids /\ -1 # Self
    BY DEF Sh!ShellAssumption
  <2>2. Sh!getpgid(-1) = -1
    BY <2>1 DEF Sh!getpgid
  <2> QED
    BY <2>2 DEF Sh!Doomed
<1>4. ASSUME Self \notin Sh!Doomed(t), NEW p \in Pids, Sh!Alive(p)'
      PROVE  own'[p]
  <2>1. Sh!Alive(p) /\ p \notin Sh!Doomed(t)
    BY <1>1, <1>4 DEF Sh!Alive
  <2>2. PICK k \in 1..Len(t) : t[k] = <<p, "RUNNING">>
    BY <2>1 DEF Lists
  <2>3. k \in DOMAIN t /\ t[k][1] = p /\ t[k][2] # "KILLED"
    BY <2>2 DEF Table
  <2>4. Sh!getpgid(p) = p
    BY <2>1, <2>3 DEF Sh!Doomed
  <2>5. p # Self /\ p # 0 /\ state[p] # "free"
    BY <2>1 DEF Sh!ShellAssumption, Sh!Alive
  <2>6. own[p]
    BY <1>1, <2>4, <2>5 DEF Sh!getpgid, ShellTypes
  <2> QED
    BY <1>1, <2>6
<1>5. ASSUME Self \notin Sh!Doomed(t), NEW p \in Sh!Doomed(t)
      PROVE  /\ p \in Pids
             /\ p \in stale \/ (state'[p] = "zombie" /\ ~own[p])
  <2>1. PICK k \in DOMAIN t : t[k][1] = p /\ t[k][2] # "KILLED" /\ Sh!getpgid(p) # p
    BY <1>5 DEF Sh!Doomed
  <2>2. t[k] \in Rows /\ k \in 1..Len(t)
    BY <2>1 DEF Table
  <2>3. p \in Pids
    BY <1>3, <1>5, <2>1, <2>2 DEF Rows, Numbers
  <2>4. t[k] = <<p, "RUNNING">>
    BY <2>1, <2>2 DEF Rows
  <2>5. Lists(t, p)
    BY <2>2, <2>4 DEF Lists
  <2>6. CASE state[p] = "free"
    BY <2>3, <2>5, <2>6
  <2>7. CASE state[p] # "free"
    <3>1. p # Self
      BY <2>3 DEF Sh!ShellAssumption
    <3>2. ~own[p]
      BY <2>1, <2>3, <2>7, <3>1 DEF Sh!getpgid
    <3>3. state[p] = "zombie" \/ Sh!Alive(p)
      BY <1>1, <2>3, <2>7 DEF ShellTypes, Sh!Alive
    <3>4. state'[p] = "zombie"
      BY <1>1, <1>5, <2>3, <3>3
    <3> QED
      BY <2>3, <3>2, <3>4
  <2> QED
    BY <2>3, <2>6, <2>7
<1>6. Sh!ExitIsClean'
  <2>1. saved' # None => \A p \in Pids : Sh!Alive(p)' => own'[p]
    BY <1>1, <1>4
  <2>2. \A p \in shot' : p \in Pids /\ (p \in stale' \/ (state'[p] = "zombie" /\ ~own'[p]))
    <3> SUFFICES ASSUME NEW p \in shot'
                 PROVE  p \in Pids /\ (p \in stale' \/ (state'[p] = "zombie" /\ ~own'[p]))
      OBVIOUS
    <3>1. Self \notin Sh!Doomed(t) /\ p \in Sh!Doomed(t)
      BY <1>1
    <3> QED
      BY <1>1, <1>5, <3>1
  <2> QED
    BY <2>1, <2>2 DEF Sh!ExitIsClean
<1> QED
  BY <1>1, <1>2, <1>6, ShellEnds

LEMMA ShellPs ==
  ASSUME ShellInv, Sh!ps
  PROVE  ShellInv'
<1>1. pc = "classify" /\ ~handling
  BY DEF Sh!ps, Sh!Is, Sh!At
<1>2. CASE Sh!Builtin(TRUE, TRUE)
  BY <1>1, <1>2, ShellBuiltin
<1>3. CASE /\ pc' = "exited"
           /\ UNCHANGED <<cmd, rest, bg, nested, child, lines, processes, cmd_his,
                          saved, handling, Sh!system, Sh!history>>
  <2>1. /\ ShellTypes /\ saved = None /\ shot = {}
        /\ rest' = rest /\ bg' = bg
        /\ processes' = processes /\ cmd_his' = cmd_his /\ saved' = saved
        /\ handling' = handling /\ state' = state
        /\ inbg' = inbg /\ own' = own /\ leader' = leader /\ shot' = shot /\ stale' = stale
    BY <1>1, <1>3 DEF ShellInv, Sh!ExitIsClean, Sh!system, Sh!history
  <2>2. ShellTypes'
    BY <1>3, <2>1 DEF ShellTypes, Minding
  <2>3. Sh!ExitIsClean'
    BY <1>3, <2>1 DEF Sh!ExitIsClean
  <2> QED
    BY <1>1, <1>3, <2>1, <2>2, <2>3, ShellEnds
<1> QED
  BY <1>2, <1>3 DEF Sh!ps

LEMMA ShellFork ==
  ASSUME ShellInv, Sh!fork
  PROVE  ShellInv'
<1>1. /\ ShellTypes /\ Looked /\ Tracked /\ saved = None /\ shot = {} /\ pc = "classify"
      /\ pc' = "forked" /\ cmd' = cmd /\ rest' = rest /\ bg' = bg
      /\ processes' = processes /\ cmd_his' = cmd_his /\ saved' = saved
      /\ handling' = handling /\ own' = own /\ leader' = leader /\ shot' = shot
  BY DEF ShellInv, Sh!ExitIsClean, Sh!fork, Sh!Is, Sh!At
<1>2. PICK p \in Pids : /\ state[p] = "free" /\ child' = p /\ stale' = stale \ {p}
                        /\ state' = [state EXCEPT ![p] = "running"]
                        /\ inbg' = [inbg EXCEPT ![p] = bg]
  BY DEF Sh!fork
<1>3. ShellTypes'
  <2>1. /\ state' \in [Pids -> {"free", "running", "stopped", "zombie"}]
        /\ inbg' \in [Pids -> BOOLEAN]
    BY <1>1, <1>2 DEF ShellTypes
  <2> QED
    BY <1>1, <1>2, <2>1 DEF ShellTypes
<1>4. \A q \in Pids : q # p => (Sh!Alive(q)' <=> Sh!Alive(q)) /\ inbg'[q] = inbg[q]
  BY <1>1, <1>2 DEF ShellTypes, Sh!Alive
<1>5. inbg'[p] = bg
  BY <1>1, <1>2 DEF ShellTypes
<1>6. Looked'
  BY <1>1, <1>2, <1>4, <1>5 DEF Looked, Minding
<1>7. Tracked'
  <2>1. state'[p] = "running" /\ \A q \in Pids : q # p => state'[q] = state[q]
    BY <1>1, <1>2 DEF ShellTypes
  <2>2. \A q \in Pids : state'[q] = "free" => q # p /\ state[q] = "free"
    BY <2>1
  <2> QED
    BY <1>1, <1>2, <2>2 DEF Tracked
<1> QED
  BY <1>1, <1>3, <1>6, <1>7 DEF ShellInv, Sh!ExitIsClean

LEMMA ShellForkFailed ==
  ASSUME ShellInv, Sh!ShellAssumption, Sh!fork_failed
  PROVE  ShellInv'
<1> DEFINE t == Sh!add_process(processes, -1)
<1>1. ShellTypes /\ Looked /\ Tracked /\ pc = "classify" /\ ~handling /\ Sh!shell_exit(t)
  BY DEF ShellInv, Sh!fork_failed, Sh!Is, Sh!At
<1> HIDE DEF t
<1>2. Table(t) /\ \A q : q # -1 => (Lists(processes, q) <=> Lists(t, q))
  BY <1>1, TableAdd DEF ShellTypes, t, Numbers
<1>0. -1 \notin Pids
  BY DEF Sh!ShellAssumption
<1>3. \A p \in Pids : Sh!Alive(p) => Lists(t, p)
  BY <1>0, <1>1, <1>2 DEF Looked
<1>4. \A p \in Pids : Lists(t, p) /\ state[p] = "free" => p \in stale
  BY <1>0, <1>1, <1>2 DEF Tracked
<1> QED
  BY <1>1, <1>2, <1>3, <1>4, ShellExit

LEMMA ShellExits ==
  ASSUME ShellInv, Sh!ShellAssumption, pc \notin {"exited", "forked"}, ~handling,
         Sh!shell_exit(processes)
  PROVE  ShellInv'
<1>1. ShellTypes /\ Looked /\ Tracked
  BY DEF ShellInv
<1>2. /\ Table(processes) /\ \A p \in Pids : Sh!Alive(p) => Lists(processes, p)
      /\ \A p \in Pids : Lists(processes, p) /\ state[p] = "free" => p \in stale
  BY <1>1 DEF ShellTypes, Looked, Tracked
<1> QED
  BY <1>2, ShellExit

LEMMA ShellList ==
  ASSUME ShellInv, Sh!ShellAssumption, Sh!external_list
  PROVE  ShellInv'
<1>1. /\ ShellTypes /\ Looked /\ Tracked /\ saved = None /\ shot = {} /\ pc = "forked" /\ pc' = "listed"
      /\ processes' = Sh!add_process(processes, child)
      /\ cmd' = cmd /\ rest' = rest /\ bg' = bg /\ child' = child /\ cmd_his' = cmd_his
      /\ saved' = saved /\ handling' = handling /\ state' = state
      /\ inbg' = inbg /\ own' = own /\ leader' = leader /\ shot' = shot
      /\ stale' = (IF state[child] = "free" THEN stale \cup {child} ELSE stale)
  BY DEF ShellInv, Sh!ExitIsClean, Sh!external_list, Sh!At, Sh!system, Sh!history
<1>2. child \in Pids
  BY <1>1 DEF ShellTypes, Minding
<1>3. /\ Table(processes') /\ Lists(processes', child)
      /\ \A q : q # child => (Lists(processes, q) <=> Lists(processes', q))
  BY <1>1, <1>2, TableAdd DEF ShellTypes, Numbers
<1>4. ShellTypes'
  BY <1>1, <1>2, <1>3 DEF ShellTypes, Minding
<1>5. \A p \in Pids : Sh!Alive(p)' <=> Sh!Alive(p)
  BY <1>1 DEF Sh!Alive
<1>6. Looked'
  BY <1>1, <1>2, <1>3, <1>5 DEF Looked, Minding
<1>7. Tracked'
  BY <1>1, <1>2, <1>3 DEF Tracked
<1> QED
  BY <1>1, <1>4, <1>6, <1>7 DEF ShellInv, Sh!ExitIsClean

(* A child that is reaped is none any more. *)
LEMMA ShellReaped ==
  ASSUME ShellTypes, NEW p \in Pids, Sh!Reaped(p)
  PROVE  /\ state' \in [Pids -> {"free", "running", "stopped", "zombie"}]
         /\ inbg' \in [Pids -> BOOLEAN] /\ own' \in [Pids -> BOOLEAN]
         /\ ~Sh!Alive(p)' /\ state'[p] = "free"
         /\ \A q \in Pids : q # p => /\ Sh!Alive(q)' <=> Sh!Alive(q)
                                     /\ inbg'[q] = inbg[q] /\ own'[q] = own[q]
                                     /\ state'[q] = state[q]
  BY DEF ShellTypes, Sh!Reaped, Sh!Alive

LEMMA ShellBackground ==
  ASSUME ShellInv, Sh!external_background
  PROVE  ShellInv'
<1>1. /\ ShellTypes /\ Looked /\ Tracked /\ saved = None /\ shot = {} /\ pc = "listed" /\ bg
      /\ Sh!Done(TRUE) /\ cmd_his' = Append(cmd_his, cmd)
      /\ processes' = processes /\ saved' = saved /\ handling' = handling
      /\ leader' = leader /\ shot' = shot
  BY DEF ShellInv, Sh!ExitIsClean, Sh!external_background, Sh!At, Sh!Remember
<1>2. /\ pc' \in {"prompt", "classify"} /\ (pc' = "classify" => cmd' \in Sh!Commands)
      /\ rest'[1] = "none" /\ bg' = bg /\ ~Minding'
  BY <1>1, ShellDone DEF ShellTypes
<1>3. cmd_his' \in Seq(Sh!Commands) /\ child \in Pids
  BY <1>1 DEF ShellTypes, Minding
<1>4. /\ state' \in [Pids -> {"free", "running", "stopped", "zombie"}]
      /\ inbg' \in [Pids -> BOOLEAN] /\ own' \in [Pids -> BOOLEAN]
      /\ \A q \in Pids : Sh!Alive(q)' => Sh!Alive(q) /\ inbg'[q] = inbg[q]
      /\ \A q \in Pids : state'[q] = "free" => q \in stale' \/ state[q] = "free"
      /\ stale \subseteq stale'
  <2>1. CASE Sh!Reaped(child) /\ stale' = stale \cup {child}
    BY <1>1, <1>3, <2>1, ShellReaped
  <2>2. CASE UNCHANGED <<state, inbg, own, code, stale>>
    BY <1>1, <2>2 DEF ShellTypes, Sh!Alive
  <2> QED
    BY <2>1, <2>2 DEF Sh!external_background
<1>5. ShellTypes'
  BY <1>1, <1>2, <1>3, <1>4 DEF ShellTypes
<1>6. \A q \in Pids : Sh!Alive(q) => Lists(processes, q) /\ inbg[q]
  BY <1>1 DEF Looked, Minding
<1>7. Looked'
  BY <1>1, <1>2, <1>4, <1>6 DEF Looked, Minding
<1>8. Tracked'
  BY <1>1, <1>4 DEF Tracked
<1> QED
  BY <1>1, <1>2, <1>5, <1>7, <1>8 DEF ShellInv, Sh!ExitIsClean

LEMMA ShellBlock ==
  ASSUME ShellInv, Sh!external_block
  PROVE  ShellInv'
<1>1. /\ ShellTypes /\ Looked /\ Tracked /\ saved = None /\ shot = {} /\ pc = "listed" /\ ~bg
      /\ pc' = "waiting" /\ processes' = processes
      /\ cmd' = cmd /\ rest' = rest /\ bg' = bg /\ child' = child /\ cmd_his' = cmd_his
      /\ saved' = saved /\ handling' = handling /\ state' = state
      /\ inbg' = inbg /\ own' = own /\ leader' = leader /\ shot' = shot /\ stale' = stale
  BY DEF ShellInv, Sh!ExitIsClean, Sh!external_block, Sh!At, Sh!system, Sh!history
<1>2. ShellTypes'
  BY <1>1 DEF ShellTypes, Minding
<1>3. \A p \in Pids : Sh!Alive(p)' <=> Sh!Alive(p)
  BY <1>1 DEF Sh!Alive
<1>4. child \in Pids
  BY <1>1 DEF ShellTypes, Minding
<1>5. Looked'
  BY <1>1, <1>3, <1>4 DEF Looked, Minding
<1>6. Tracked'
  BY <1>1 DEF Tracked
<1> QED
  BY <1>1, <1>2, <1>5, <1>6 DEF ShellInv, Sh!ExitIsClean

LEMMA ShellEnded ==
  ASSUME ShellInv, Sh!ShellAssumption, Sh!external_ended
  PROVE  ShellInv'
<1>0. PICK p : p = child
  OBVIOUS
<1>1. /\ ShellTypes /\ Looked /\ Tracked /\ saved = None /\ shot = {} /\ pc \in {"listed", "waiting"}
      /\ state[p] = "zombie" /\ Sh!Reaped(p) /\ saved' = saved
      /\ handling' = handling /\ leader' = leader /\ shot' = shot
  BY <1>0 DEF ShellInv, Sh!ExitIsClean, Sh!external_ended, Sh!At
<1>2. p \in Pids
  BY <1>0, <1>1 DEF ShellTypes, Minding
<1>3. /\ state' \in [Pids -> {"free", "running", "stopped", "zombie"}]
      /\ inbg' \in [Pids -> BOOLEAN] /\ own' \in [Pids -> BOOLEAN]
      /\ ~Sh!Alive(p)'
      /\ \A q \in Pids : q # p => /\ Sh!Alive(q)' <=> Sh!Alive(q)
                                  /\ inbg'[q] = inbg[q] /\ state'[q] = state[q]
  BY <1>1, <1>2, ShellReaped
<1>4. \A q \in Pids : q # p => (Sh!Alive(q) => Lists(processes, q) /\ inbg[q])
  BY <1>0, <1>1 DEF Looked, Minding
<1>5. CASE /\ pc' = "reaped" /\ stale' = stale \cup {p}
           /\ UNCHANGED <<cmd, rest, bg, nested, child, lines, processes, cmd_his>>
  <2>1. ShellTypes'
    BY <1>1, <1>3, <1>5 DEF ShellTypes, Minding
  <2>2. Looked'
    BY <1>3, <1>4, <1>5 DEF Looked, Minding
  <2>3. Tracked'
    BY <1>1, <1>3, <1>5 DEF Tracked
  <2> QED
    BY <1>1, <1>5, <2>1, <2>2, <2>3 DEF ShellInv, Sh!ExitIsClean
<1>6. CASE /\ processes' = Sh!set_process_status(processes, p, "KILLED")
           /\ Sh!Remember /\ UNCHANGED stale
  <2>1. Sh!Done(TRUE) /\ cmd_his' = Append(cmd_his, cmd)
    BY <1>6 DEF Sh!Remember
  <2>2. /\ pc' \in {"prompt", "classify"} /\ (pc' = "classify" => cmd' \in Sh!Commands)
        /\ rest'[1] = "none" /\ bg' = bg /\ ~Minding'
    BY <1>1, <2>1, ShellDone DEF ShellTypes
  <2>3. cmd_his' \in Seq(Sh!Commands)
    BY <1>1, <2>1 DEF ShellTypes
  <2>4. /\ Table(processes') /\ ~Lists(processes', p)
        /\ \A q : q # p => (Lists(processes, q) <=> Lists(processes', q))
    BY <1>1, <1>2, <1>6, TableKill DEF ShellTypes, Numbers
  <2>5. ShellTypes'
    BY <1>1, <1>3, <2>2, <2>3, <2>4 DEF ShellTypes
  <2>6. Looked'
    BY <1>3, <1>4, <2>2, <2>4 DEF Looked, Minding
  <2>7. Tracked'
    BY <1>1, <1>3, <1>6, <2>4 DEF Tracked
  <2> QED
    BY <1>1, <2>2, <2>5, <2>6, <2>7 DEF ShellInv, Sh!ExitIsClean
<1> QED
  BY <1>0, <1>5, <1>6 DEF Sh!external_ended

(* The handler may reap the child that the main thread minds, or is about   *)
(* to enter into the table: it marks the entry of a process that is gone.   *)
LEMMA ShellHandler ==
  ASSUME ShellInv, Sh!ShellAssumption, Sh!signal_handler
  PROVE  ShellInv'
<1>1. /\ ShellTypes /\ handling' = FALSE /\ pc' = pc /\ cmd' = cmd /\ rest' = rest /\ bg' = bg
      /\ child' = child /\ cmd_his' = cmd_his /\ saved' = saved /\ leader' = leader
      /\ shot' = shot /\ stale' = stale /\ pc # "exited"
  BY DEF ShellInv, Sh!signal_handler, Sh!main, Sh!history
<1>2. ASSUME NEW p \in Pids, Sh!Reaped(p),
             processes' = Sh!set_process_status(processes, p, "KILLED")
      PROVE  ShellInv'
  <2>1. /\ state' \in [Pids -> {"free", "running", "stopped", "zombie"}]
        /\ inbg' \in [Pids -> BOOLEAN] /\ own' \in [Pids -> BOOLEAN]
        /\ ~Sh!Alive(p)'
        /\ \A q \in Pids : q # p => /\ Sh!Alive(q)' <=> Sh!Alive(q)
                                    /\ inbg'[q] = inbg[q] /\ own'[q] = own[q]
                                    /\ state'[q] = state[q]
    BY <1>1, <1>2, ShellReaped
  <2>3. /\ Table(processes') /\ ~Lists(processes', p)
        /\ \A q : q # p => (Lists(processes, q) <=> Lists(processes', q))
    BY <1>1, <1>2, TableKill DEF ShellTypes, Numbers
  <2>4. ShellTypes'
    BY <1>1, <2>1, <2>3 DEF ShellTypes, Minding
  <2>5. ASSUME Looked PROVE Looked'
    <3>1. Minding => child \in Pids
      BY <1>1 DEF ShellTypes
    <3>2. \A q \in Pids : Sh!Alive(q)' =>
            /\ q # p /\ Sh!Alive(q) /\ inbg'[q] = inbg[q]
            /\ Lists(processes, q) => Lists(processes', q)
      BY <2>1, <2>3
    <3>3. Minding' <=> Minding
      BY <1>1 DEF Minding
    <3> QED
      BY <1>1, <2>5, <3>1, <3>2, <3>3 DEF Looked
  <2>6. ASSUME Tracked PROVE Tracked'
    BY <1>1, <2>1, <2>3, <2>6 DEF Tracked
  <2> QED
    BY <1>1, <2>4, <2>5, <2>6 DEF ShellInv, Sh!ExitIsClean
<1>3. CASE UNCHANGED <<processes, state, inbg, own, code>>
  BY <1>1, <1>3 DEF ShellInv, ShellTypes, Looked, Tracked, Minding, Sh!Alive, Sh!ExitIsClean
<1> QED
  BY <1>2, <1>3 DEF Sh!signal_handler

LEMMA ShellTake ==
  ASSUME ShellInv, Sh!TakeSignal
  PROVE  ShellInv'
  BY DEF Sh!TakeSignal, Sh!main, Sh!history, ShellInv, ShellTypes, Looked, Tracked, Minding,
         Sh!Alive, Sh!ExitIsClean

LEMMA ShellProgram ==
  ASSUME ShellInv, NEW p \in Pids, Sh!Program(p)
  PROVE  ShellInv'
<1>1. /\ ShellTypes /\ pc' = pc /\ cmd' = cmd /\ rest' = rest /\ bg' = bg
      /\ child' = child /\ processes' = processes /\ cmd_his' = cmd_his /\ saved' = saved
      /\ handling' = handling /\ leader' = leader /\ shot' = shot /\ stale' = stale /\ inbg' = inbg
  BY DEF ShellInv, Sh!Program, Sh!setpgid, Sh!Ends, Sh!main, Sh!history
<1>2. /\ state' \in [Pids -> {"free", "running", "stopped", "zombie"}]
      /\ own' \in [Pids -> BOOLEAN]
      /\ \A q \in Pids : (Sh!Alive(q)' => Sh!Alive(q)) /\ (own[q] => own'[q])
                           /\ (state'[q] = "free" => state[q] = "free")
                           /\ (state[q] = "zombie" => state'[q] = "zombie" /\ own'[q] = own[q])
  <2>1. CASE Sh!setpgid(p)
    BY <1>1, <2>1 DEF Sh!setpgid, ShellTypes, Sh!Alive
  <2>2. CASE \E c \in {"ok", "fail"} : Sh!Ends(p, c)
    <3>1. state[p] = "running" /\ state' = [state EXCEPT ![p] = "zombie"] /\ own' = own
      BY <2>2 DEF Sh!Ends
    <3> QED
      BY <1>1, <3>1 DEF ShellTypes, Sh!Alive
  <2> QED
    BY <2>1, <2>2 DEF Sh!Program
<1>3. ShellTypes'
  BY <1>1, <1>2 DEF ShellTypes, Minding
<1>4. Minding => child \in Pids
  BY <1>1 DEF ShellTypes
<1>5. ASSUME Looked PROVE Looked'
  <2>1. Minding' <=> Minding
    BY <1>1 DEF Minding
  <2> QED
    BY <1>1, <1>2, <1>4, <1>5, <2>1 DEF Looked
<1>6. Sh!ExitIsClean'
  <2>1. Sh!ExitIsClean
    BY DEF ShellInv
  <2> QED
    BY <1>1, <1>2, <2>1 DEF Sh!ExitIsClean
<1>7. ASSUME Tracked PROVE Tracked'
  BY <1>1, <1>2, <1>7 DEF Tracked
<1> QED
  BY <1>1, <1>3, <1>5, <1>6, <1>7 DEF ShellInv

LEMMA ShellStep ==
  ASSUME Sh!ShellAssumption, ShellInv, [Sh!Next]_(Sh!vars)
  PROVE  ShellInv'
<1>1. ASSUME NEW l \in Lines, Sh!Read(l) PROVE ShellInv'
  BY <1>1, ShellRead
<1>2. CASE Sh!EndOfInput
  BY <1>2, ShellExits DEF Sh!EndOfInput, Sh!At
<1>3. CASE Sh!cd \/ Sh!invalid \/ Sh!show_history
  BY <1>3, ShellBuiltin DEF Sh!cd, Sh!invalid, Sh!show_history, Sh!Is, Sh!At
<1>4. CASE Sh!exit \/ Sh!external_failed \/ Sh!external_lost
  BY <1>4, ShellExits DEF Sh!exit, Sh!external_failed, Sh!external_lost, Sh!Is, Sh!At
<1>5. CASE Sh!Command
  BY <1>3, <1>4, <1>5, ShellRerun, ShellRerunLast, ShellSignalled, ShellPs, ShellFork,
     ShellForkFailed, ShellList, ShellBackground, ShellBlock, ShellEnded DEF Sh!Command
<1>6. CASE UNCHANGED Sh!vars
  BY <1>6 DEF Sh!vars, Sh!main, Sh!system, Sh!history, ShellInv, ShellTypes, Looked, Tracked,
              Minding, Sh!Alive,
              Sh!ExitIsClean
<1> QED
  BY <1>1, <1>2, <1>5, <1>6, ShellTake, ShellHandler, ShellProgram DEF Sh!Next

LEMMA ShellInvariant ==
  ASSUME Sh!ShellAssumption
  PROVE  Sh!Spec => []ShellInv
<1>1. Sh!Init => ShellInv
  BY ShellStart
<1>2. ShellInv /\ [Sh!Next]_(Sh!vars) => ShellInv'
  BY ShellStep
<1> QED
  BY <1>1, <1>2, PTL DEF Sh!Spec

(* When the shell prompts, every child that lives was started in the        *)
(* background and has one entry in the table, not marked KILLED: what kill, *)
(* stop, cont, ps and shell_exit go by, however often the handler came in   *)
(* between two steps and a pid was used before                              *)
(* (shell.c:220-233,728-745,799-808).                                       *)
THEOREM TableKeepsUp ==
  ASSUME Sh!ShellAssumption
  PROVE  Sh!Spec => []TableFollows
<1>1. ASSUME ShellInv PROVE Sh!TableFollows
  <2> SUFFICES ASSUME pc = "prompt", NEW p \in Pids, Sh!Alive(p)
               PROVE  /\ inbg[p]
                      /\ processes[Sh!Entry(processes, p)] = <<p, "RUNNING">>
                      /\ \A k \in DOMAIN processes :
                           processes[k][1] = p => k = Sh!Entry(processes, p)
    BY DEF Sh!TableFollows
  <2>1. Table(processes) /\ Lists(processes, p) /\ inbg[p]
    BY <1>1 DEF ShellInv, ShellTypes, Looked, Minding
  <2>2. PICK k \in 1..Len(processes) : processes[k] = <<p, "RUNNING">>
    BY <2>1 DEF Lists
  <2>3. processes[k][1] = p /\ DOMAIN processes = 1..Len(processes)
    BY <2>1, <2>2 DEF Table
  <2>4. /\ k = Sh!Entry(processes, p)
        /\ \A j \in 1..Len(processes) : processes[j][1] = p => j = Sh!Entry(processes, p)
    BY <2>1, <2>3, TableEntry
  <2> QED
    BY <2>1, <2>2, <2>3, <2>4
<1> QED
  BY <1>1, ShellInvariant, PTL DEF TableFollows

(* A shell that goes through shell_exit leaves no child alive but those     *)
(* that have a group of their own, and sends SIGKILL to nobody else than    *)
(* children that have none, of the background only those that have not      *)
(* come to their setpgid, and pids that its table wrongly calls RUNNING:    *)
(* to no background program, to nobody who got the pid of a child marked    *)
(* KILLED, and never to -1, although a failed fork puts that into the table *)
(* (shell.c:688,701,728,751-757).                                           *)
THEOREM ExitStaysClean ==
  ASSUME Sh!ShellAssumption
  PROVE  Sh!Spec => []ExitIsClean
<1>1. ShellInv => Sh!ExitIsClean
  BY DEF ShellInv
<1> QED
  BY <1>1, ShellInvariant, PTL DEF ExitIsClean

(***************************************************************************)
(* MapReduce.                                                              *)
(***************************************************************************)
(* The turn of a child: the driver forks it as that one, and awaits it so. *)
Turn(c) == CASE c[1] = "splitter" -> c[2]
             [] c[1] = "mapper" -> mapper_count + c[2]
             [] c[1] = "reducer" -> Mr!Last

Reads(c, p) == <<p, "read">> \in ends[c]
Writes(c, p) == <<p, "write">> \in ends[c]
Born(c) == life[c] # "none"
Living(c) == life[c] \in {"forked", "running"}
Over(c) == life[c] = "dead"

MrTypes ==
  /\ driver \in {"forking", "waiting", "done", "failed"} /\ next \in Int
  /\ driver \in {"forking", "waiting"} => next \in 1..Mr!Last
  /\ ends \in [Mr!Children \cup {Mr!Driver} -> SUBSET (Mr!Pipes \X {"read", "write"})]
  /\ life \in [Mr!Children -> {"none", "forked", "running", "dead"}]
  /\ broken \subseteq Mr!Children /\ \A c \in broken : life[c] # "running"
  /\ buffer \in [Mr!Pipes -> 0..Capacity]
  /\ todo \in [Mr!Children -> Nat] /\ todo[Mr!Reducer] = 0 /\ output \in Nat

(* The driver starts its children in turn, and then awaits them in turn. *)
InTurn ==
  \A c \in Mr!Children :
    /\ ~Born(c) <=> driver = "forking" /\ next <= Turn(c)
    /\ driver = "waiting" /\ Turn(c) < next => Over(c)
    /\ driver = "done" => Over(c)

(* The driver keeps every read end, and each write end until all who write  *)
(* there and who read there are started; the writers keep theirs.           *)
Plumbing ==
  /\ \A p \in Mr!Pipes : Reads(Mr!Driver, p)
  /\ ~Born(Mr!Reducer) => Writes(Mr!Driver, 0)
  /\ \A n \in Mr!Indexes :
       /\ ~Born(Mr!Mapper(n)) => Writes(Mr!Driver, n)
       /\ Living(Mr!Splitter(n)) => Writes(Mr!Splitter(n), n)
       /\ Living(Mr!Mapper(n)) => Writes(Mr!Mapper(n), 0)

(* Who is done has written all and, when it read, seen an end of its input  *)
(* that stays; a program that was not found wrote and read nothing.         *)
Duties ==
  /\ \A n \in Mr!Indexes :
       /\ Over(Mr!Splitter(n)) => Mr!Splitter(n) \in broken \/ todo[Mr!Splitter(n)] = 0
       /\ Mr!Splitter(n) \in broken
          => todo[Mr!Splitter(n)] = Share[n] /\ buffer[n] = 0 /\ todo[Mr!Mapper(n)] = 0
       /\ Mr!Mapper(n) \in broken
          => todo[Mr!Splitter(n)] + buffer[n] = Share[n] /\ todo[Mr!Mapper(n)] = 0
       /\ Over(Mr!Mapper(n)) /\ Mr!Mapper(n) \notin broken
          => /\ todo[Mr!Mapper(n)] = 0 /\ buffer[n] = 0
             /\ ~Mr!Held(<<n, "write">>)
  /\ Mr!Reducer \in broken => output = 0
  /\ Over(Mr!Reducer) /\ Mr!Reducer \notin broken
     => buffer[0] = 0 /\ ~Mr!Held(<<0, "write">>)

(* The units of splitter n that its mapper has passed on, which the pipe to *)
(* the reducer and the output share.                                        *)
Passed ==
  [n \in Mr!Indexes |->
     Share[n] - todo[Mr!Splitter(n)] - buffer[n] - todo[Mr!Mapper(n)]]
Conserved == buffer[0] + output = Total(Passed, Mr!Indexes)

MrInv == MrTypes /\ (driver # "failed" => InTurn /\ Plumbing /\ Duties /\ Conserved)

(* The children are the splitters, the mappers and the reducer, which the   *)
(* definitions tell apart by their names; none is the driver.               *)
LEMMA MrChildren ==
  /\ \A c \in Mr!Children : \/ \E n \in Mr!Indexes : c = Mr!Splitter(n)
                            \/ \E n \in Mr!Indexes : c = Mr!Mapper(n)
                            \/ c = Mr!Reducer
  /\ Mr!Reducer \in Mr!Children /\ Mr!Driver \notin Mr!Children
  /\ \A n \in Mr!Indexes : /\ Mr!Splitter(n) \in Mr!Children /\ Mr!Mapper(n) \in Mr!Children
                           /\ Mr!Splitter(n) # Mr!Reducer /\ Mr!Mapper(n) # Mr!Reducer
  /\ \A n, k \in Mr!Indexes : /\ Mr!Splitter(n) = Mr!Splitter(k) => n = k
                              /\ Mr!Mapper(n) = Mr!Mapper(k) => n = k
                              /\ Mr!Splitter(n) # Mr!Mapper(k)
  BY DEF Mr!Children, Mr!Splitter, Mr!Mapper, Mr!Reducer, Mr!Driver

(* What each kind of child reads and writes, and what it or the driver      *)
(* closes.                                                                  *)
LEMMA MrNamed ==
  /\ \A n \in Mr!Indexes :
       /\ Mr!Splitter(n)[1] = "splitter" /\ Mr!Splitter(n)[2] = n
       /\ Mr!Mapper(n)[1] = "mapper" /\ Mr!Mapper(n)[2] = n
       /\ Mr!Splitter(n) # Mr!Reducer /\ Mr!Mapper(n) # Mr!Reducer
  /\ Mr!Reducer[1] = "reducer" /\ Mr!Reducer[2] = 0
<1>1. \A n \in Mr!Indexes :
        /\ Mr!Splitter(n)[1] = "splitter" /\ Mr!Splitter(n)[2] = n
        /\ Mr!Mapper(n)[1] = "mapper" /\ Mr!Mapper(n)[2] = n
        /\ Mr!Splitter(n) # Mr!Reducer /\ Mr!Mapper(n) # Mr!Reducer
  BY DEF Mr!Splitter, Mr!Mapper, Mr!Reducer
<1>2. Mr!Reducer[1] = "reducer" /\ Mr!Reducer[2] = 0
  BY DEF Mr!Reducer
<1> QED
  BY <1>1, <1>2

LEMMA MrPipes ==
  /\ \A n \in Mr!Indexes : /\ Mr!Out(Mr!Splitter(n)) = n
                           /\ Mr!In(Mr!Mapper(n)) = n /\ Mr!Out(Mr!Mapper(n)) = 0
  /\ Mr!In(Mr!Reducer) = 0 /\ Mr!Out(Mr!Reducer) = 0
  BY MrNamed DEF Mr!In, Mr!Out

LEMMA MrCloses ==
  /\ \A n \in Mr!Indexes :
       /\ Mr!Closes(Mr!Splitter(n)) = Mr!ReadEnds({n})
       /\ Mr!Closes(Mr!Mapper(n)) = Mr!WriteEnds({n}) \cup Mr!ReadEnds({0})
       /\ Mr!ClosedAfter(Mr!Splitter(n)) = {}
       /\ Mr!ClosedAfter(Mr!Mapper(n)) = Mr!WriteEnds({n})
       /\ Mr!ClosedBefore(Mr!Splitter(n)) = {} /\ Mr!ClosedBefore(Mr!Mapper(n)) = {}
  /\ Mr!ClosedAfter(Mr!Reducer) = {} /\ Mr!ClosedBefore(Mr!Reducer) = Mr!WriteEnds({0})
  BY MrNamed DEF Mr!Closes, Mr!ClosedAfter, Mr!ClosedBefore

(* Each child has a turn of its own: all splitters, all mappers, the        *)
(* reducer.                                                                 *)
LEMMA MrTurns ==
  ASSUME Mr!MapReduceAssumption
  PROVE  /\ Mr!Last \in Nat \ {0}
         /\ \A n \in Mr!Indexes : Turn(Mr!Splitter(n)) = n /\ Turn(Mr!Mapper(n)) = mapper_count + n
         /\ Turn(Mr!Reducer) = Mr!Last
         /\ \A k \in 1..Mr!Last : Mr!ChildAt(k) \in Mr!Children /\ Turn(Mr!ChildAt(k)) = k
         /\ \A c \in Mr!Children : Turn(c) \in 1..Mr!Last /\ Mr!ChildAt(Turn(c)) = c
<1>1. \A n \in Mr!Indexes : Turn(Mr!Splitter(n)) = n /\ Turn(Mr!Mapper(n)) = mapper_count + n
  BY DEF Turn, Mr!Splitter, Mr!Mapper
<1>2. Turn(Mr!Reducer) = Mr!Last
  BY DEF Turn, Mr!Reducer
<1>3. mapper_count \in Nat \ {0} /\ Mr!Last = 2 * mapper_count + 1 /\ Mr!Indexes = 1..mapper_count
  BY DEF Mr!MapReduceAssumption, Mr!Last, Mr!Indexes
<1>4. ASSUME NEW k \in 1..Mr!Last
      PROVE  Mr!ChildAt(k) \in Mr!Children /\ Turn(Mr!ChildAt(k)) = k
  <2>1. CASE k <= mapper_count
    <3>1. Mr!ChildAt(k) = Mr!Splitter(k) /\ k \in Mr!Indexes
      BY <1>3, <2>1 DEF Mr!ChildAt
    <3> QED
      BY <3>1, <1>1, MrChildren
  <2>2. CASE mapper_count < k /\ k <= 2 * mapper_count
    <3>1. /\ Mr!ChildAt(k) = Mr!Mapper(k - mapper_count) /\ k - mapper_count \in Mr!Indexes
          /\ mapper_count + (k - mapper_count) = k
      BY <1>3, <2>2 DEF Mr!ChildAt
    <3> QED
      BY <3>1, <1>1, MrChildren
  <2>3. CASE k > 2 * mapper_count
    <3>1. Mr!ChildAt(k) = Mr!Reducer /\ k = Mr!Last
      BY <1>3, <2>3 DEF Mr!ChildAt
    <3> QED
      BY <3>1, <1>2, MrChildren
  <2> QED
    BY <1>3, <2>1, <2>2, <2>3
<1>5. ASSUME NEW c \in Mr!Children
      PROVE  Turn(c) \in 1..Mr!Last /\ Mr!ChildAt(Turn(c)) = c
  <2>1. ASSUME NEW n \in Mr!Indexes, c = Mr!Splitter(n)
        PROVE  Turn(c) \in 1..Mr!Last /\ Mr!ChildAt(Turn(c)) = c
    BY <1>1, <1>3, <2>1 DEF Mr!ChildAt
  <2>2. ASSUME NEW n \in Mr!Indexes, c = Mr!Mapper(n)
        PROVE  Turn(c) \in 1..Mr!Last /\ Mr!ChildAt(Turn(c)) = c
    <3>1. /\ Turn(c) = mapper_count + n /\ n \in 1..mapper_count
          /\ (mapper_count + n) - mapper_count = n
      BY <1>1, <1>3, <2>2
    <3> QED
      BY <1>3, <2>2, <3>1 DEF Mr!ChildAt
  <2>3. CASE c = Mr!Reducer
    BY <1>2, <1>3, <2>3 DEF Mr!ChildAt
  <2> QED
    BY <2>1, <2>2, <2>3, MrChildren
<1> QED
  BY <1>1, <1>2, <1>3, <1>4, <1>5

(* The ends that a set of ends closes or leaves. *)
LEMMA MrEnds ==
  ASSUME NEW q, NEW p
  PROVE  /\ <<p, "read">> \in Mr!ReadEnds({q}) <=> p = q
         /\ <<p, "write">> \in Mr!WriteEnds({q}) <=> p = q
         /\ <<p, "write">> \notin Mr!ReadEnds({q}) /\ <<p, "read">> \notin Mr!WriteEnds({q})
  BY DEF Mr!ReadEnds, Mr!WriteEnds

(* An end that nobody has is gone for good when nobody gets one he had not. *)
LEMMA MrGone ==
  ASSUME MrTypes, MrTypes', NEW e, ~Mr!Held(e),
         \A c \in Mr!Children \cup {Mr!Driver} : e \in ends'[c] => e \in ends[c]
  PROVE  ~Mr!Held(e)'
  BY DEF Mr!Held, MrTypes

(* Numbers and indexes. *)
LEMMA MrNumbers ==
  ASSUME Mr!MapReduceAssumption
  PROVE  /\ Mr!Indexes \subseteq Mr!Pipes /\ 0 \in Mr!Pipes /\ 0 \notin Mr!Indexes
         /\ IsFiniteSet(Mr!Indexes) /\ Capacity \in Nat \ {0}
         /\ \A n \in Mr!Indexes : n \in Nat /\ Share[n] \in Nat
<1>1. IsFiniteSet(1..mapper_count)
  BY FS_Interval DEF Mr!MapReduceAssumption
<1> QED
  BY <1>1 DEF Mr!MapReduceAssumption, Mr!Indexes, Mr!Pipes

LEMMA MrPassed ==
  ASSUME Mr!MapReduceAssumption, MrTypes
  PROVE  \A n \in Mr!Indexes :
           /\ todo[Mr!Splitter(n)] \in Nat /\ todo[Mr!Mapper(n)] \in Nat /\ buffer[n] \in Nat
           /\ Share[n] \in Nat /\ Passed[n] \in Int
           /\ Passed[n] = Share[n] - todo[Mr!Splitter(n)] - buffer[n] - todo[Mr!Mapper(n)]
<1>1. \A n \in Mr!Indexes :
        /\ todo[Mr!Splitter(n)] \in Nat /\ todo[Mr!Mapper(n)] \in Nat /\ buffer[n] \in Nat
        /\ Share[n] \in Nat
  BY MrNumbers, MrChildren DEF MrTypes
<1> QED
  BY <1>1 DEF Passed

(***************************************************************************)
(* The invariant of MapReduce, step by step.                               *)
(***************************************************************************)
LEMMA MrStart ==
  ASSUME Mr!MapReduceAssumption, Mr!Init
  PROVE  MrInv
<1> DEFINE T == [c \in Mr!Children |-> IF c[1] = "splitter" THEN Share[c[2]] ELSE 0]
<1>1. /\ driver = "forking" /\ next = 1 /\ broken \subseteq Mr!Children
      /\ life = [c \in Mr!Children |-> "none"] /\ buffer = [p \in Mr!Pipes |-> 0]
      /\ todo = T /\ output = 0
      /\ ends = [p \in Mr!Children \cup {Mr!Driver} |->
                   IF p = Mr!Driver THEN Mr!ReadEnds(Mr!Pipes) \cup Mr!WriteEnds(Mr!Pipes)
                   ELSE {}]
  BY DEF Mr!Init
<1>2. /\ \A n \in Mr!Indexes : T[Mr!Splitter(n)] = Share[n] /\ T[Mr!Mapper(n)] = 0
      /\ T[Mr!Reducer] = 0 /\ T \in [Mr!Children -> Nat]
  <2>1. ASSUME NEW n \in Mr!Indexes
        PROVE  T[Mr!Splitter(n)] = Share[n] /\ T[Mr!Mapper(n)] = 0
    BY MrChildren DEF Mr!Splitter, Mr!Mapper
  <2>2. T[Mr!Reducer] = 0
    BY MrChildren DEF Mr!Reducer
  <2>3. \A n \in Mr!Indexes : Share[n] \in Nat
    BY MrNumbers
  <2> HIDE DEF T
  <2>4. \A c \in Mr!Children : T[c] \in Nat
    BY <2>1, <2>2, <2>3, MrChildren
  <2> QED
    BY <2>1, <2>2, <2>4 DEF T
<1> HIDE DEF T
<1>3. MrTypes
  <2>1. /\ Mr!ReadEnds(Mr!Pipes) \cup Mr!WriteEnds(Mr!Pipes)
           \in SUBSET (Mr!Pipes \X {"read", "write"})
    BY DEF Mr!ReadEnds, Mr!WriteEnds
  <2>2. ends \in [Mr!Children \cup {Mr!Driver} -> SUBSET (Mr!Pipes \X {"read", "write"})]
    BY <1>1, <2>1
  <2>3. buffer \in [Mr!Pipes -> 0..Capacity]
    BY <1>1, MrNumbers
  <2> QED
    BY <1>1, <1>2, <2>2, <2>3, MrTurns DEF MrTypes
<1>4. InTurn
  BY <1>1, MrTurns DEF InTurn, Born
<1>5. Plumbing
  <2>1. \A p \in Mr!Pipes : Reads(Mr!Driver, p) /\ Writes(Mr!Driver, p)
    BY <1>1 DEF Reads, Writes, Mr!ReadEnds, Mr!WriteEnds
  <2>2. \A c \in Mr!Children : ~Living(c)
    BY <1>1 DEF Living
  <2> QED
    BY <2>1, <2>2, MrNumbers, MrChildren DEF Plumbing
<1>6. Duties
  <2>1. \A c \in Mr!Children : ~Over(c)
    BY <1>1 DEF Over
  <2>2. \A n \in Mr!Indexes : buffer[n] = 0 /\ Share[n] + 0 = Share[n]
    BY <1>1, MrNumbers
  <2> QED
    BY <1>1, <1>2, <2>1, <2>2, MrChildren DEF Duties
<1>7. Conserved
  <2>1. \A n \in Mr!Indexes : Passed[n] = 0
    <3>1. \A n \in Mr!Indexes : buffer[n] = 0
      BY <1>1, MrNumbers
    <3> QED
      BY <1>1, <1>2, <1>3, <3>1, MrPassed
  <2>2. Total(Passed, Mr!Indexes) = 0
    BY <2>1, MrNumbers, TotalNothing
  <2> QED
    BY <1>1, <2>2, MrNumbers DEF Conserved
<1> QED
  BY <1>3, <1>4, <1>5, <1>6, <1>7 DEF MrInv

(* Nothing but data that passes on is changed. *)
LEMMA MrKept ==
  ASSUME todo' = todo, buffer' = buffer, output' = output, Conserved
  PROVE  Conserved'
  BY DEF Conserved, Passed

LEMMA MrFork ==
  ASSUME Mr!MapReduceAssumption, MrInv, Mr!Fork
  PROVE  MrInv'
<1>a. PICK c : c = Mr!ChildAt(next)
  OBVIOUS
<1> DEFINE open == ends[Mr!Driver] \ Mr!ClosedBefore(c)
<1>0. /\ MrTypes /\ InTurn /\ Plumbing /\ Duties /\ Conserved
      /\ driver = "forking" /\ next \in 1..Mr!Last /\ Mr!Last \in Nat \ {0}
  BY MrTurns DEF MrInv, MrTypes, Mr!Fork
<1>1. c \in Mr!Children /\ Turn(c) = next /\ c # Mr!Driver
  BY <1>0, <1>a, MrTurns, MrChildren
<1>2. /\ ends' = [ends EXCEPT ![c] = open, ![Mr!Driver] = open \ Mr!ClosedAfter(c)]
      /\ life' = [life EXCEPT ![c] = "forked"]
      /\ driver' = (IF next = Mr!Last THEN "waiting" ELSE "forking")
      /\ next' = (IF next = Mr!Last THEN 1 ELSE next + 1)
      /\ broken' = broken /\ buffer' = buffer /\ todo' = todo /\ output' = output
  BY <1>a DEF Mr!Fork
<1> HIDE DEF open
<1>3. /\ ends'[c] = open /\ ends'[Mr!Driver] = open \ Mr!ClosedAfter(c)
      /\ \A d \in Mr!Children : d # c => ends'[d] = ends[d]
      /\ life'[c] = "forked" /\ \A d \in Mr!Children : d # c => life'[d] = life[d]
  BY <1>0, <1>1, <1>2, MrChildren DEF MrTypes
<1>4. open \subseteq ends[Mr!Driver]
  BY DEF open
<1>5. MrTypes'
  <2>1. ends' \in [Mr!Children \cup {Mr!Driver} -> SUBSET (Mr!Pipes \X {"read", "write"})]
    BY <1>0, <1>1, <1>2, <1>4 DEF MrTypes
  <2>2. life' \in [Mr!Children -> {"none", "forked", "running", "dead"}]
    BY <1>0, <1>2 DEF MrTypes
  <2>3. \A d \in broken : life'[d] # "running"
    BY <1>0, <1>3 DEF MrTypes
  <2>4. /\ driver' \in {"forking", "waiting", "done", "failed"} /\ next' \in 1..Mr!Last
    BY <1>0, <1>2
  <2> QED
    BY <1>0, <1>2, <2>1, <2>2, <2>3, <2>4 DEF MrTypes
<1>6. ~Born(c) /\ \A d \in Mr!Children : ~Born(d) <=> next <= Turn(d)
  <2>1. \A d \in Mr!Children : ~Born(d) <=> driver = "forking" /\ next <= Turn(d)
    BY <1>0 DEF InTurn
  <2>2. next <= Turn(c)
    BY <1>0, <1>1
  <2> QED
    BY <1>0, <1>1, <2>1, <2>2
<1>7. /\ \A d \in Mr!Children : Born(d)' <=> (d = c \/ Born(d))
      /\ \A d \in Mr!Children : d # c => (Living(d)' <=> Living(d)) /\ (Over(d)' <=> Over(d))
      /\ ~Over(c)'
  BY <1>3 DEF Born, Living, Over
<1>8. \A d \in Mr!Children : Turn(d) \in 1..Mr!Last /\ (d # c => Turn(d) # next)
  BY <1>1, <1>a, MrTurns
<1>9. InTurn'
  <2>1. ASSUME NEW d \in Mr!Children
        PROVE  ~Born(d)' <=> driver' = "forking" /\ next' <= Turn(d)
    BY <1>0, <1>1, <1>2, <1>6, <1>7, <1>8
  <2>2. driver' \in {"forking", "waiting"} /\ (driver' = "waiting" => next' = 1)
    BY <1>2
  <2>3. \A d \in Mr!Children : ~(Turn(d) < 1)
    BY <1>0, <1>8
  <2> QED
    BY <2>1, <2>2, <2>3 DEF InTurn
<1>10. \A d, p : (Reads(d, p)' <=> <<p, "read">> \in ends'[d])
                 /\ (Writes(d, p)' <=> <<p, "write">> \in ends'[d])
                 /\ (Reads(d, p) <=> <<p, "read">> \in ends[d])
                 /\ (Writes(d, p) <=> <<p, "write">> \in ends[d])
  BY DEF Reads, Writes
<1>11. Plumbing'
  <2>1. ASSUME NEW n \in Mr!Indexes, c = Mr!Splitter(n)
        PROVE  Plumbing'
    <3>1. ends'[c] = ends[Mr!Driver] /\ ends'[Mr!Driver] = ends[Mr!Driver]
      BY <1>3, <2>1, MrCloses DEF open
    <3>2. ~Born(Mr!Mapper(n)) /\ Writes(Mr!Driver, n)
      <4>1. next <= Turn(Mr!Mapper(n))
        BY <1>0, <1>1, <2>1, MrTurns DEF Mr!MapReduceAssumption, Mr!Indexes
      <4> QED
        BY <1>0, <1>6, <4>1, MrChildren DEF Plumbing
    <3> QED
      BY ZenonT(60), <1>0, <1>3, <1>7, <1>10, <2>1, <3>1, <3>2, MrChildren DEF Plumbing
  <2>2. ASSUME NEW n \in Mr!Indexes, c = Mr!Mapper(n)
        PROVE  Plumbing'
    <3>1. /\ ends'[c] = ends[Mr!Driver]
          /\ ends'[Mr!Driver] = ends[Mr!Driver] \ Mr!WriteEnds({n})
      BY <1>3, <2>2, MrCloses DEF open
    <3>2. ~Born(Mr!Reducer) /\ Writes(Mr!Driver, 0)
      <4>1. next <= Turn(Mr!Reducer)
        BY <1>0, MrTurns
      <4> QED
        BY <1>0, <1>6, <4>1, MrChildren DEF Plumbing
    <3>3. \A p : /\ Reads(Mr!Driver, p)' <=> Reads(Mr!Driver, p)
                 /\ Writes(Mr!Driver, p)' <=> Writes(Mr!Driver, p) /\ p # n
      BY <1>10, <3>1, MrEnds
    <3> QED
      BY ZenonT(60), <1>0, <1>3, <1>7, <1>10, <2>2, <3>1, <3>2, <3>3, MrChildren, MrNumbers DEF Plumbing
  <2>3. CASE c = Mr!Reducer
    <3>1. ends'[Mr!Driver] = ends[Mr!Driver] \ Mr!WriteEnds({0})
      BY <1>3, <2>3, MrCloses DEF open
    <3>2. \A p : /\ Reads(Mr!Driver, p)' <=> Reads(Mr!Driver, p)
                 /\ Writes(Mr!Driver, p)' <=> Writes(Mr!Driver, p) /\ p # 0
      BY <1>10, <3>1, MrEnds
    <3> QED
      BY <1>0, <1>3, <1>7, <1>10, <2>3, <3>1, <3>2, MrChildren, MrNumbers DEF Plumbing
  <2> QED
    BY <1>1, <2>1, <2>2, <2>3, MrChildren
<1>12. Duties'
  <2>1. \A d \in Mr!Children \cup {Mr!Driver} : \A e :
          e \in ends'[d] => e \in ends[d] \/ e \in ends[Mr!Driver]
    BY <1>3, <1>4
  <2>2. ASSUME NEW e, ~Mr!Held(e) PROVE ~Mr!Held(e)'
    BY <1>0, <1>5, <2>1, <2>2 DEF Mr!Held, MrTypes
  <2>3. \A d \in Mr!Children : Over(d)' => Over(d)
    BY <1>7 DEF Over
  <2> QED
    BY <1>0, <1>2, <2>2, <2>3, MrChildren DEF Duties
<1> QED
  BY <1>0, <1>2, <1>5, <1>9, <1>11, <1>12, MrKept DEF MrInv

LEMMA MrForkFails ==
  ASSUME MrInv, Mr!ForkFails
  PROVE  MrInv'
<1>1. /\ MrTypes /\ driver' = "failed" /\ ends' = [ends EXCEPT ![Mr!Driver] = {}]
      /\ next' = next /\ life' = life /\ broken' = broken /\ buffer' = buffer
      /\ todo' = todo /\ output' = output
  BY DEF MrInv, Mr!ForkFails
<1>2. ends' \in [Mr!Children \cup {Mr!Driver} -> SUBSET (Mr!Pipes \X {"read", "write"})]
  BY <1>1 DEF MrTypes
<1> QED
  BY <1>1, <1>2 DEF MrInv, MrTypes

LEMMA MrWait ==
  ASSUME Mr!MapReduceAssumption, MrInv, Mr!Wait
  PROVE  MrInv'
<1>0. /\ MrTypes /\ InTurn /\ Plumbing /\ Duties /\ Conserved
      /\ driver = "waiting" /\ next \in 1..Mr!Last /\ Mr!Last \in Nat \ {0}
  BY MrTurns DEF MrInv, MrTypes, Mr!Wait
<1>1. /\ life[Mr!ChildAt(next)] = "dead" /\ next' = next + 1
      /\ driver' = (IF next = Mr!Last THEN "done" ELSE "waiting")
      /\ ends' = ends /\ life' = life /\ broken' = broken /\ buffer' = buffer
      /\ todo' = todo /\ output' = output
  BY DEF Mr!Wait, Mr!Awaited
<1>2. \A c \in Mr!Children : /\ Turn(c) \in 1..Mr!Last /\ (Turn(c) = next => Over(c))
                             /\ Born(c) /\ (Turn(c) < next => Over(c))
  <2>1. \A c \in Mr!Children : Turn(c) \in 1..Mr!Last /\ Mr!ChildAt(Turn(c)) = c
    BY MrTurns
  <2> QED
    BY <1>0, <1>1, <2>1 DEF InTurn, Over
<1>3. MrTypes'
  BY <1>0, <1>1 DEF MrTypes
<1>4. \A c \in Mr!Children : (Born(c)' <=> Born(c)) /\ (Over(c)' <=> Over(c))
  BY <1>1 DEF Born, Over
<1>5. InTurn'
  <2>1. \A c \in Mr!Children : Turn(c) < next + 1 => Over(c)'
    BY <1>0, <1>2, <1>4
  <2>2. \A c \in Mr!Children : driver' = "done" => Over(c)'
    BY <1>0, <1>1, <1>2, <2>1
  <2>3. driver' # "forking"
    BY <1>1
  <2> QED
    BY <1>1, <1>2, <1>4, <2>1, <2>2, <2>3 DEF InTurn
<1>6. Plumbing'
  BY <1>0, <1>1 DEF Plumbing, Reads, Writes, Born, Living
<1>7. Duties'
  BY <1>0, <1>1 DEF Duties, Over, Mr!Held
<1> QED
  BY <1>0, <1>1, <1>3, <1>5, <1>6, <1>7, MrKept DEF MrInv

(* A child that goes on or ends keeps what it still writes, and never gets  *)
(* an end it had not; the driver's part is left alone.                      *)
LEMMA MrMoves ==
  ASSUME Mr!MapReduceAssumption, MrTypes, InTurn, Plumbing, MrTypes',
         driver' = driver, next' = next,
         NEW c \in Mr!Children, Living(c), Born(c)',
         \A d \in Mr!Children : d # c => life'[d] = life[d],
         \A d \in Mr!Children \cup {Mr!Driver} : d # c => ends'[d] = ends[d],
         ends'[c] \subseteq ends[c],
         Living(c)' => \A n \in Mr!Indexes :
                         /\ c = Mr!Splitter(n) => (Writes(c, n) => Writes(c, n)')
                         /\ c = Mr!Mapper(n) => (Writes(c, 0) => Writes(c, 0)')
  PROVE  /\ InTurn' /\ Plumbing'
         /\ \A e : ~Mr!Held(e) => ~Mr!Held(e)'
         /\ \A d \in Mr!Children : d # c => (Over(d)' <=> Over(d))
<1>1. \A d \in Mr!Children : /\ Born(d)' <=> Born(d)
                             /\ d # c => (Living(d)' <=> Living(d)) /\ (Over(d)' <=> Over(d))
                             /\ Over(d) => Over(d)'
  BY DEF Born, Living, Over
<1>2. InTurn'
  BY <1>1 DEF InTurn
<1>3. \A p : /\ Reads(Mr!Driver, p)' <=> Reads(Mr!Driver, p)
             /\ Writes(Mr!Driver, p)' <=> Writes(Mr!Driver, p)
  BY MrChildren DEF Reads, Writes
<1>4. \A d \in Mr!Children : \A p : d # c => (Writes(d, p)' <=> Writes(d, p))
  BY DEF Writes
<1>5. Plumbing'
  BY <1>1, <1>3, <1>4, MrChildren DEF Plumbing
<1>6. ASSUME NEW e, ~Mr!Held(e) PROVE ~Mr!Held(e)'
  <2>1. \A d \in Mr!Children \cup {Mr!Driver} : e \in ends'[d] => e \in ends[d]
    OBVIOUS
  <2> QED
    BY <1>6, <2>1, MrGone
<1> QED
  BY <1>1, <1>2, <1>5, <1>6

LEMMA MrDies ==
  ASSUME MrTypes, NEW c \in Mr!Children, Mr!Dies(c), driver' = driver, next' = next,
         broken' = broken, buffer' = buffer, todo' = todo, output' = output
  PROVE  /\ MrTypes' /\ Over(c)' /\ Born(c)' /\ ~Living(c)' /\ ends'[c] = {}
         /\ \A d \in Mr!Children : d # c => life'[d] = life[d]
         /\ \A d \in Mr!Children \cup {Mr!Driver} : d # c => ends'[d] = ends[d]
<1>1. life' = [life EXCEPT ![c] = "dead"] /\ ends' = [ends EXCEPT ![c] = {}]
  BY DEF Mr!Dies
<1>2. /\ ends' \in [Mr!Children \cup {Mr!Driver} -> SUBSET (Mr!Pipes \X {"read", "write"})]
      /\ life' \in [Mr!Children -> {"none", "forked", "running", "dead"}]
  BY <1>1 DEF MrTypes
<1>3. /\ life'[c] = "dead" /\ ends'[c] = {}
      /\ \A d \in Mr!Children : d # c => life'[d] = life[d]
      /\ \A d \in Mr!Children \cup {Mr!Driver} : d # c => ends'[d] = ends[d]
  BY <1>1 DEF MrTypes
<1>4. MrTypes'
  BY <1>2, <1>3 DEF MrTypes
<1> QED
  BY <1>3, <1>4 DEF Over, Born, Living

LEMMA MrExec ==
  ASSUME Mr!MapReduceAssumption, MrInv, NEW c \in Mr!Children, Mr!Exec(c)
  PROVE  MrInv'
<1>0. /\ MrTypes /\ life[c] = "forked" /\ Living(c)
      /\ driver' = driver /\ next' = next /\ broken' = broken /\ buffer' = buffer
      /\ todo' = todo /\ output' = output
  BY DEF MrInv, Mr!Exec, Living
<1>1. CASE c \in broken /\ Mr!Dies(c)
  <2>1. /\ MrTypes' /\ Over(c)' /\ Born(c)' /\ ~Living(c)' /\ ends'[c] = {}
        /\ \A d \in Mr!Children : d # c => life'[d] = life[d]
        /\ \A d \in Mr!Children \cup {Mr!Driver} : d # c => ends'[d] = ends[d]
    BY <1>0, <1>1, MrDies
  <2>2. ASSUME driver # "failed" PROVE InTurn' /\ Plumbing' /\ Duties' /\ Conserved'
    <3>1. InTurn /\ Plumbing /\ Duties /\ Conserved
      BY <2>2 DEF MrInv
    <3>2. /\ InTurn' /\ Plumbing' /\ \A e : ~Mr!Held(e) => ~Mr!Held(e)'
          /\ \A d \in Mr!Children : d # c => (Over(d)' <=> Over(d))
      BY <1>0, <2>1, <3>1, MrMoves
    <3>3. Duties'
      BY <1>0, <1>1, <3>1, <3>2, MrChildren DEF Duties
    <3> QED
      BY <1>0, <3>1, <3>2, <3>3, MrKept
  <2> QED
    BY <1>0, <2>1, <2>2 DEF MrInv
<1>2. CASE /\ c \notin broken /\ life' = [life EXCEPT ![c] = "running"]
           /\ ends' = [ends EXCEPT ![c] = @ \ Mr!Closes(c)]
  <2>1. /\ life'[c] = "running" /\ ends'[c] = ends[c] \ Mr!Closes(c)
        /\ \A d \in Mr!Children : d # c => life'[d] = life[d]
        /\ \A d \in Mr!Children \cup {Mr!Driver} : d # c => ends'[d] = ends[d]
    BY <1>0, <1>2 DEF MrTypes
  <2>2. MrTypes'
    <3>1. /\ life' \in [Mr!Children -> {"none", "forked", "running", "dead"}]
          /\ ends' \in [Mr!Children \cup {Mr!Driver} -> SUBSET (Mr!Pipes \X {"read", "write"})]
      BY <1>0, <1>2, <2>1 DEF MrTypes
    <3> QED
      BY <1>0, <1>2, <2>1, <3>1 DEF MrTypes
  <2>3. Born(c)' /\ ~Over(c)' /\ ~Over(c)
    BY <1>0, <2>1 DEF Born, Over
  <2>4. ASSUME NEW n \in Mr!Indexes
        PROVE  /\ c = Mr!Splitter(n) => (Writes(c, n) => Writes(c, n)')
               /\ c = Mr!Mapper(n) => (Writes(c, 0) => Writes(c, 0)')
    <3>1. CASE c = Mr!Splitter(n)
      <4>0. Mr!Closes(c) = Mr!ReadEnds({n})
        BY <3>1, MrCloses
      <4>1. <<n, "write">> \notin Mr!Closes(c)
        BY ZenonT(60), <4>0, MrEnds
      <4>2. \A k \in Mr!Indexes : c # Mr!Mapper(k)
        BY <3>1, MrChildren
      <4> QED
        BY <2>1, <4>1, <4>2 DEF Writes
    <3>2. CASE c = Mr!Mapper(n)
      <4>0. Mr!Closes(c) = Mr!WriteEnds({n}) \cup Mr!ReadEnds({0}) /\ n # 0
        BY <3>2, MrCloses, MrNumbers
      <4>1. <<0, "write">> \notin Mr!Closes(c)
        BY <4>0, MrEnds
      <4>2. \A k \in Mr!Indexes : c # Mr!Splitter(k)
        BY <3>2, MrChildren
      <4> QED
        BY <2>1, <4>1, <4>2 DEF Writes
    <3> QED
      BY <3>1, <3>2
  <2>5. ASSUME driver # "failed" PROVE InTurn' /\ Plumbing' /\ Duties' /\ Conserved'
    <3>1. InTurn /\ Plumbing /\ Duties /\ Conserved
      BY <2>5 DEF MrInv
    <3>2. /\ InTurn' /\ Plumbing' /\ \A e : ~Mr!Held(e) => ~Mr!Held(e)'
          /\ \A d \in Mr!Children : d # c => (Over(d)' <=> Over(d))
      BY <1>0, <2>1, <2>2, <2>3, <2>4, <3>1, MrMoves
    <3>3. \A d \in Mr!Children : Over(d)' <=> Over(d)
      BY <2>3, <3>2
    <3>4. Duties'
      BY <1>0, <3>1, <3>2, <3>3, MrChildren DEF Duties
    <3> QED
      BY <1>0, <3>1, <3>2, <3>4, MrKept
  <2> QED
    BY <1>0, <2>2, <2>5 DEF MrInv
<1> QED
  BY <1>1, <1>2 DEF Mr!Exec

LEMMA MrFinish ==
  ASSUME Mr!MapReduceAssumption, MrInv, NEW c \in Mr!Children, Mr!Finish(c)
  PROVE  MrInv'
<1>0. /\ MrTypes /\ life[c] = "running" /\ Living(c) /\ todo[c] = 0 /\ Mr!AtEnd(c) /\ Mr!Dies(c)
      /\ driver' = driver /\ next' = next /\ broken' = broken /\ buffer' = buffer
      /\ todo' = todo /\ output' = output
  BY DEF MrInv, Mr!Finish, Living
<1>1. /\ MrTypes' /\ Over(c)' /\ Born(c)' /\ ~Living(c)' /\ ends'[c] = {}
      /\ \A d \in Mr!Children : d # c => life'[d] = life[d]
      /\ \A d \in Mr!Children \cup {Mr!Driver} : d # c => ends'[d] = ends[d]
  BY <1>0, MrDies
<1>2. ASSUME driver # "failed" PROVE InTurn' /\ Plumbing' /\ Duties' /\ Conserved'
  <2>1. InTurn /\ Plumbing /\ Duties /\ Conserved
    BY <1>2 DEF MrInv
  <2>2. /\ InTurn' /\ Plumbing' /\ \A e : ~Mr!Held(e) => ~Mr!Held(e)'
        /\ \A d \in Mr!Children : d # c => (Over(d)' <=> Over(d))
    BY <1>0, <1>1, <2>1, MrMoves
  <2>3. /\ \A n \in Mr!Indexes :
             c = Mr!Mapper(n) => buffer[n] = 0 /\ ~Mr!Held(<<n, "write">>)
        /\ c = Mr!Reducer => buffer[0] = 0 /\ ~Mr!Held(<<0, "write">>)
    BY <1>0, MrNamed, MrPipes DEF Mr!AtEnd
  <2>4. Duties'
    BY <1>0, <2>1, <2>2, <2>3, MrChildren DEF Duties
  <2> QED
    BY <1>0, <2>1, <2>2, <2>4, MrKept
<1> QED
  BY <1>0, <1>1, <1>2 DEF MrInv

(* Data that passes on leaves the processes as they are. *)
LEMMA MrStay ==
  ASSUME MrTypes, InTurn, Plumbing, driver' = driver, next' = next, ends' = ends, life' = life
  PROVE  /\ InTurn' /\ Plumbing' /\ \A c : Over(c)' <=> Over(c)
         /\ \A e : Mr!Held(e)' <=> Mr!Held(e)
  BY DEF InTurn, Plumbing, Reads, Writes, Born, Living, Over, Mr!Held

LEMMA MrWrite ==
  ASSUME Mr!MapReduceAssumption, MrInv, NEW c \in Mr!Children, Mr!Write(c),
         Mr!Held(<<Mr!Out(c), "read">>), buffer[Mr!Out(c)] < Capacity,
         buffer' = [buffer EXCEPT ![Mr!Out(c)] = @ + 1],
         todo' = [todo EXCEPT ![c] = @ - 1], life' = life, ends' = ends
  PROVE  MrInv'
<1>0. /\ MrTypes /\ life[c] = "running" /\ Living(c) /\ ~Over(c) /\ todo[c] > 0
      /\ driver' = driver /\ next' = next /\ broken' = broken /\ output' = output
  BY DEF MrInv, Mr!Write, Living, Over
<1>1. \E n \in Mr!Indexes : c = Mr!Splitter(n) \/ c = Mr!Mapper(n)
  BY <1>0, MrChildren DEF MrTypes
<1>2. /\ Mr!Out(c) \in Mr!Pipes /\ buffer[Mr!Out(c)] \in Nat /\ Capacity \in Nat
      /\ todo[c] \in Nat /\ c # Mr!Reducer /\ c \notin broken
  BY <1>0, <1>1, MrPipes, MrNumbers, MrChildren DEF MrTypes
<1>3. /\ buffer'[Mr!Out(c)] = buffer[Mr!Out(c)] + 1 /\ todo'[c] = todo[c] - 1
      /\ \A p \in Mr!Pipes : p # Mr!Out(c) => buffer'[p] = buffer[p]
      /\ \A d \in Mr!Children : d # c => todo'[d] = todo[d]
  BY <1>0, <1>2 DEF MrTypes
<1>4. MrTypes'
  <2>1. buffer' \in [Mr!Pipes -> 0..Capacity] /\ todo' \in [Mr!Children -> Nat]
    BY <1>0, <1>2 DEF MrTypes
  <2> QED
    BY <1>0, <1>2, <1>3, <2>1, MrChildren DEF MrTypes
<1>5. ASSUME driver # "failed" PROVE InTurn' /\ Plumbing' /\ Duties' /\ Conserved'
  <2>1. InTurn /\ Plumbing /\ Duties /\ Conserved
    BY <1>5 DEF MrInv
  <2>2. /\ InTurn' /\ Plumbing' /\ \A d : Over(d)' <=> Over(d)
        /\ \A e : Mr!Held(e)' <=> Mr!Held(e)
    BY <1>0, <2>1, MrStay
  <2>3. \A k \in Mr!Indexes :
          /\ Passed[k] \in Int /\ Passed'[k] \in Int
          /\ Passed[k] = Share[k] - todo[Mr!Splitter(k)] - buffer[k] - todo[Mr!Mapper(k)]
          /\ Passed'[k] = Share[k] - todo'[Mr!Splitter(k)] - buffer'[k] - todo'[Mr!Mapper(k)]
          /\ todo[Mr!Splitter(k)] \in Nat /\ todo[Mr!Mapper(k)] \in Nat /\ buffer[k] \in Nat
          /\ Share[k] \in Nat
    <3>1. \A k \in Mr!Indexes :
            Passed'[k] = Share[k] - todo'[Mr!Splitter(k)] - buffer'[k] - todo'[Mr!Mapper(k)]
      BY DEF Passed
    <3>2. \A k \in Mr!Indexes : /\ todo'[Mr!Splitter(k)] \in Nat /\ todo'[Mr!Mapper(k)] \in Nat
                                /\ buffer'[k] \in Nat /\ Share[k] \in Nat
      BY <1>4, MrNumbers, MrChildren DEF MrTypes
    <3> QED
      BY <1>0, <3>1, <3>2, MrPassed
  <2>4. ASSUME NEW n \in Mr!Indexes, c = Mr!Splitter(n)
        PROVE  Duties' /\ Conserved'
    <3>1. /\ Mr!Out(c) = n /\ buffer'[n] = buffer[n] + 1 /\ buffer'[0] = buffer[0]
          /\ \A k \in Mr!Indexes : k # n => /\ buffer'[k] = buffer[k]
                                            /\ todo'[Mr!Splitter(k)] = todo[Mr!Splitter(k)]
          /\ \A k \in Mr!Indexes : todo'[Mr!Mapper(k)] = todo[Mr!Mapper(k)]
      BY <1>3, <2>4, MrPipes, MrNumbers, MrChildren
    <3>2. Mr!Held(<<n, "write">>)
      <4>1. Writes(c, n)
        BY <1>0, <2>1, <2>4 DEF Plumbing
      <4> QED
        BY <1>0, <4>1 DEF Writes, Mr!Held, MrTypes
    <3>3. Duties'
      BY <1>0, <1>2, <1>3, <2>1, <2>2, <2>3, <2>4, <3>1, <3>2, MrChildren DEF Duties
    <3>4. \A k \in Mr!Indexes : Passed'[k] = Passed[k]
      <4>1. \A k \in Mr!Indexes : k # n => Passed'[k] = Passed[k]
        BY <2>3, <3>1
      <4>2. todo'[Mr!Splitter(n)] = todo[Mr!Splitter(n)] - 1
        BY <1>3, <2>4
      <4>3. Passed'[n] = Passed[n]
        BY <2>3, <3>1, <4>2
      <4> QED
        BY <4>1, <4>3
    <3>5. Total(Passed', Mr!Indexes) = Total(Passed, Mr!Indexes)
      BY <3>4, TotalReads, MrNumbers
    <3> QED
      BY <1>0, <2>1, <3>1, <3>3, <3>5 DEF Conserved
  <2>5. ASSUME NEW n \in Mr!Indexes, c = Mr!Mapper(n)
        PROVE  Duties' /\ Conserved'
    <3>1. /\ Mr!Out(c) = 0 /\ buffer'[0] = buffer[0] + 1
          /\ \A k \in Mr!Indexes : /\ buffer'[k] = buffer[k]
                                   /\ todo'[Mr!Splitter(k)] = todo[Mr!Splitter(k)]
                                   /\ k # n => todo'[Mr!Mapper(k)] = todo[Mr!Mapper(k)]
      BY <1>3, <2>5, MrPipes, MrNumbers, MrChildren
    <3>2. Mr!Held(<<0, "write">>)
      <4>1. Writes(c, 0)
        BY <1>0, <2>1, <2>5 DEF Plumbing
      <4> QED
        BY <1>0, <4>1 DEF Writes, Mr!Held, MrTypes
    <3>3. Duties'
      BY <1>0, <1>2, <1>3, <2>1, <2>2, <2>3, <2>5, <3>1, <3>2, MrChildren DEF Duties
    <3>4. /\ \A k \in Mr!Indexes \ {n} : Passed[k] = Passed'[k]
          /\ Passed'[n] - Passed[n] = 1
      <4>1. \A k \in Mr!Indexes : k # n => Passed[k] = Passed'[k]
        BY <2>3, <3>1
      <4>2. todo'[Mr!Mapper(n)] = todo[Mr!Mapper(n)] - 1
        BY <1>3, <2>5
      <4>3. Passed'[n] - Passed[n] = 1
        BY <2>3, <3>1, <4>2
      <4> QED
        BY <4>1, <4>3
    <3>5. Total(Passed', Mr!Indexes) = Total(Passed, Mr!Indexes) + 1
      BY <2>3, <3>4, TotalChanges, MrNumbers
    <3>6. buffer[0] \in Nat /\ output \in Nat
      BY <1>0, MrNumbers DEF MrTypes
    <3> QED
      BY <1>0, <2>1, <3>1, <3>3, <3>5, <3>6 DEF Conserved
  <2> QED
    BY <1>1, <2>2, <2>4, <2>5
<1> QED
  BY <1>0, <1>4, <1>5 DEF MrInv

(* While the driver lives, nobody gets SIGPIPE. *)
LEMMA MrSigpipe ==
  ASSUME Mr!MapReduceAssumption, MrInv, NEW c \in Mr!Children, Mr!Write(c),
         ~Mr!Held(<<Mr!Out(c), "read">>), Mr!Dies(c), buffer' = buffer, todo' = todo
  PROVE  MrInv'
<1>1. /\ MrTypes /\ driver' = driver /\ next' = next /\ broken' = broken /\ output' = output
      /\ life[c] = "running"
  BY DEF MrInv, Mr!Write
<1>2. MrTypes'
  BY <1>1, MrDies
<1>3. ASSUME driver # "failed" PROVE FALSE
  <2>1. Plumbing
    BY <1>3 DEF MrInv
  <2>2. Mr!Out(c) \in Mr!Pipes
    BY MrNumbers, MrPipes, MrChildren
  <2>3. Reads(Mr!Driver, Mr!Out(c))
    BY <2>1, <2>2 DEF Plumbing
  <2> QED
    BY <1>1, <2>3 DEF Reads, Mr!Held, MrTypes
<1> QED
  BY <1>1, <1>2, <1>3 DEF MrInv

LEMMA MrRead ==
  ASSUME Mr!MapReduceAssumption, MrInv, NEW c \in Mr!Children, Mr!Read(c)
  PROVE  MrInv'
<1>0. /\ MrTypes /\ life[c] = "running" /\ ~Over(c) /\ c[1] # "splitter" /\ todo[c] = 0
      /\ buffer[Mr!In(c)] > 0 /\ buffer' = [buffer EXCEPT ![Mr!In(c)] = @ - 1]
      /\ driver' = driver /\ next' = next /\ ends' = ends /\ life' = life /\ broken' = broken
      /\ c = Mr!Reducer => output' = output + 1 /\ todo' = todo
      /\ c # Mr!Reducer => todo' = [todo EXCEPT ![c] = 1] /\ output' = output
  BY DEF MrInv, Mr!Read, Over
<1>1. c = Mr!Reducer \/ \E n \in Mr!Indexes : c = Mr!Mapper(n)
  BY <1>0, MrChildren, MrNamed
<1>2. /\ Mr!In(c) \in Mr!Pipes /\ buffer[Mr!In(c)] \in 0..Capacity /\ Capacity \in Nat
      /\ c \notin broken
  BY <1>0, <1>1, MrPipes, MrNumbers DEF MrTypes
<1>3. /\ buffer'[Mr!In(c)] = buffer[Mr!In(c)] - 1
      /\ \A p \in Mr!Pipes : p # Mr!In(c) => buffer'[p] = buffer[p]
      /\ \A d \in Mr!Children : d # c => todo'[d] = todo[d]
      /\ c # Mr!Reducer => todo'[c] = 1
  BY <1>0, <1>2 DEF MrTypes
<1>4. MrTypes'
  <2>1. buffer' \in [Mr!Pipes -> 0..Capacity]
    BY <1>0, <1>2 DEF MrTypes
  <2>2. todo' \in [Mr!Children -> Nat] /\ todo'[Mr!Reducer] = 0 /\ output' \in Nat
    BY <1>0, <1>1, MrChildren DEF MrTypes
  <2> QED
    BY <1>0, <2>1, <2>2 DEF MrTypes
<1>5. ASSUME driver # "failed" PROVE InTurn' /\ Plumbing' /\ Duties' /\ Conserved'
  <2>1. InTurn /\ Plumbing /\ Duties /\ Conserved
    BY <1>5 DEF MrInv
  <2>2. /\ InTurn' /\ Plumbing' /\ \A d : Over(d)' <=> Over(d)
        /\ \A e : Mr!Held(e)' <=> Mr!Held(e)
    BY <1>0, <2>1, MrStay
  <2>3. CASE c = Mr!Reducer
    <3>1. /\ buffer'[0] = buffer[0] - 1 /\ todo' = todo /\ output' = output + 1
          /\ \A k \in Mr!Indexes : buffer'[k] = buffer[k]
      BY <1>0, <1>3, <2>3, MrPipes, MrNumbers
    <3>2. Duties'
      BY <1>0, <1>2, <2>1, <2>2, <2>3, <3>1, MrChildren DEF Duties
    <3>3. \A k \in Mr!Indexes : Passed'[k] = Passed[k]
      BY <3>1 DEF Passed
    <3>4. Total(Passed', Mr!Indexes) = Total(Passed, Mr!Indexes)
      BY <3>3, TotalReads, MrNumbers
    <3>5. buffer[0] \in Nat /\ output \in Nat
      BY <1>0, MrNumbers DEF MrTypes
    <3> QED
      BY <2>1, <2>2, <3>1, <3>2, <3>4, <3>5 DEF Conserved
  <2>4. ASSUME NEW n \in Mr!Indexes, c = Mr!Mapper(n)
        PROVE  Duties' /\ Conserved'
    <3>1. /\ Mr!In(c) = n /\ buffer'[n] = buffer[n] - 1 /\ buffer'[0] = buffer[0]
          /\ buffer[n] > 0 /\ buffer[n] \in Nat /\ todo'[c] = 1 /\ output' = output
          /\ \A k \in Mr!Indexes : k # n => buffer'[k] = buffer[k]
          /\ \A k \in Mr!Indexes :
               /\ todo'[Mr!Splitter(k)] = todo[Mr!Splitter(k)]
               /\ k # n => todo'[Mr!Mapper(k)] = todo[Mr!Mapper(k)]
      <4>1. Mr!In(c) = n /\ n \in Mr!Pipes /\ 0 \in Mr!Pipes /\ n # 0 /\ c # Mr!Reducer
        BY <2>4, MrPipes, MrNumbers, MrChildren
      <4>2. \A k \in Mr!Indexes : k \in Mr!Pipes
        BY MrNumbers
      <4>3. \A k \in Mr!Indexes :
              /\ Mr!Splitter(k) \in Mr!Children /\ Mr!Splitter(k) # c
              /\ Mr!Mapper(k) \in Mr!Children /\ (k # n => Mr!Mapper(k) # c)
        BY <2>4, MrChildren
      <4>4. \A k \in Mr!Indexes :
              /\ todo'[Mr!Splitter(k)] = todo[Mr!Splitter(k)]
              /\ k # n => todo'[Mr!Mapper(k)] = todo[Mr!Mapper(k)]
        BY <1>3, <4>3
      <4>5. /\ buffer'[n] = buffer[n] - 1 /\ buffer'[0] = buffer[0]
            /\ \A k \in Mr!Indexes : k # n => buffer'[k] = buffer[k]
        BY <1>3, <4>1, <4>2
      <4>6. buffer[n] > 0 /\ buffer[n] \in Nat /\ todo'[c] = 1 /\ output' = output
        BY <1>0, <1>2, <1>3, <4>1
      <4> QED
        BY <4>1, <4>4, <4>5, <4>6
    <3>2. Mr!Splitter(n) \notin broken
      <4>1. Mr!Splitter(n) \in broken => buffer[n] = 0
        BY <2>1 DEF Duties
      <4> QED
        BY <3>1, <4>1
    <3>3. Duties'
      BY <1>0, <1>2, <2>1, <2>2, <2>4, <3>1, <3>2, MrChildren DEF Duties
    <3>4. \A k \in Mr!Indexes :
            /\ Passed[k] = Share[k] - todo[Mr!Splitter(k)] - buffer[k] - todo[Mr!Mapper(k)]
            /\ Passed'[k] = Share[k] - todo'[Mr!Splitter(k)] - buffer'[k] - todo'[Mr!Mapper(k)]
            /\ todo[Mr!Splitter(k)] \in Nat /\ Share[k] \in Nat
      <4>1. \A k \in Mr!Indexes : Passed'[k]
              = Share[k] - todo'[Mr!Splitter(k)] - buffer'[k] - todo'[Mr!Mapper(k)]
        BY DEF Passed
      <4> QED
        BY <1>0, <4>1, MrPassed
    <3>5. \A k \in Mr!Indexes : Passed'[k] = Passed[k]
      <4>1. \A k \in Mr!Indexes : k # n => Passed'[k] = Passed[k]
        BY <3>1, <3>4
      <4>2. Passed'[n] = Passed[n]
        BY <1>0, <2>4, <3>1, <3>4
      <4> QED
        BY <4>1, <4>2
    <3>6. Total(Passed', Mr!Indexes) = Total(Passed, Mr!Indexes)
      BY <3>5, TotalReads, MrNumbers
    <3> QED
      BY <2>1, <3>1, <3>3, <3>6 DEF Conserved
  <2> QED
    BY <1>1, <2>2, <2>3, <2>4
<1> QED
  BY <1>0, <1>4, <1>5 DEF MrInv

LEMMA MrStep ==
  ASSUME Mr!MapReduceAssumption, MrInv, [Mr!Next]_(Mr!vars)
  PROVE  MrInv'
<1>1. CASE Mr!Fork
  BY <1>1, MrFork
<1>2. CASE Mr!Wait
  BY <1>2, MrWait
<1>3. CASE Mr!ForkFails
  BY <1>3, MrForkFails
<1>4. ASSUME NEW c \in Mr!Children, Mr!Write(c) PROVE MrInv'
  BY <1>4, MrWrite, MrSigpipe DEF Mr!Write
<1>5. ASSUME NEW c \in Mr!Children, Mr!Child(c) PROVE MrInv'
  BY <1>4, <1>5, MrExec, MrRead, MrFinish DEF Mr!Child
<1>6. CASE UNCHANGED Mr!vars
  BY <1>6 DEF Mr!vars, MrInv, MrTypes, InTurn, Plumbing, Duties, Conserved, Passed, Reads,
              Writes, Born, Living, Over, Mr!Held
<1> QED
  BY <1>1, <1>2, <1>3, <1>5, <1>6 DEF Mr!Next, Mr!Driving

(* What the programs send is the total of what each pair that was found     *)
(* does.                                                                    *)
LEMMA MrSent ==
  Mr!Sent = Total([n \in Mr!Indexes |->
                     IF broken \cap {Mr!Splitter(n), Mr!Mapper(n)} = {} THEN Share[n] ELSE 0],
                  Mr!Indexes)
<1> DEFINE f == [n \in Mr!Indexes |->
                   IF broken \cap {Mr!Splitter(n), Mr!Mapper(n)} = {} THEN Share[n] ELSE 0]
           t(n) == IF broken \cap {Mr!Splitter(n), Mr!Mapper(n)} = {} THEN Share[n] ELSE 0
<1>1. ASSUME NEW g
      PROVE  g = [s \in SUBSET Mr!Indexes |->
                    IF s = {} THEN 0 ELSE t(Pick(s)) + g[s \ {Pick(s)}]]
             <=> Adds(f, Mr!Indexes, g)
  <2>1. ASSUME NEW s \in SUBSET Mr!Indexes, s # {}
        PROVE  f[Pick(s)] = t(Pick(s))
    <3>1. Pick(s) \in Mr!Indexes
      BY <2>1 DEF Pick
    <3> QED
      BY <3>1
  <2> HIDE DEF f, t
  <2> QED
    BY <2>1 DEF Adds
<1>2. Mr!Sent = (CHOOSE g : g = [s \in SUBSET Mr!Indexes |->
                                  IF s = {} THEN 0
                                  ELSE t(Pick(s)) + g[s \ {Pick(s)}]])[Mr!Indexes]
  BY DEF Mr!Sent, Mr!MapThenSumSet, Mr!MapThenFoldSet, Pick
<1>3. Total(f, Mr!Indexes) = (CHOOSE g : Adds(f, Mr!Indexes, g))[Mr!Indexes]
  BY DEF Total, MapThenSumSet, MapThenFoldSet, Adds, Pick
<1> HIDE DEF f, t
<1>4. Mr!Sent = Total(f, Mr!Indexes)
  BY ZenonT(60), <1>1, <1>2, <1>3
<1> QED
  BY <1>4 DEF f

(* When the driver is done, each splitter's units have gone as far as they  *)
(* could.                                                                   *)
LEMMA MrDone ==
  ASSUME Mr!MapReduceAssumption, MrInv
  PROVE  Mr!OutputWhole
<1> SUFFICES ASSUME driver = "done"
             PROVE  ~Mr!Clogged /\ output = (IF Mr!Reducer \in broken THEN 0 ELSE Mr!Sent)
  BY DEF Mr!OutputWhole
<1> DEFINE f == [n \in Mr!Indexes |->
                   IF broken \cap {Mr!Splitter(n), Mr!Mapper(n)} = {} THEN Share[n] ELSE 0]
<1>0. MrTypes /\ InTurn /\ Duties /\ Conserved
  BY DEF MrInv
<1>1. \A c \in Mr!Children : Over(c)
  BY <1>0 DEF InTurn
<1>2. \A n \in Mr!Indexes :
        /\ todo[Mr!Splitter(n)] \in Nat /\ todo[Mr!Mapper(n)] \in Nat /\ buffer[n] \in 0..Capacity
        /\ Share[n] \in Nat /\ Capacity \in Nat
        /\ Passed[n] = Share[n] - todo[Mr!Splitter(n)] - buffer[n] - todo[Mr!Mapper(n)]
  BY <1>0, MrPassed, MrNumbers DEF MrTypes
<1>3. ASSUME NEW n \in Mr!Indexes PROVE Passed[n] = f[n]
  <2>1. CASE Mr!Splitter(n) \in broken
    <3>1. todo[Mr!Splitter(n)] = Share[n] /\ buffer[n] = 0 /\ todo[Mr!Mapper(n)] = 0
      BY <1>0, <2>1 DEF Duties
    <3>2. f[n] = 0
      BY <2>1
    <3> QED
      BY <1>2, <3>1, <3>2
  <2>2. CASE Mr!Mapper(n) \in broken
    <3>1. todo[Mr!Splitter(n)] + buffer[n] = Share[n] /\ todo[Mr!Mapper(n)] = 0
      BY <1>0, <2>2 DEF Duties
    <3>2. f[n] = 0
      BY <2>2
    <3> HIDE DEF f
    <3>3. Passed[n] = 0
      BY <1>2, <3>1
    <3> QED
      BY <3>2, <3>3
  <2>3. CASE Mr!Splitter(n) \notin broken /\ Mr!Mapper(n) \notin broken
    <3>1. todo[Mr!Splitter(n)] = 0 /\ buffer[n] = 0 /\ todo[Mr!Mapper(n)] = 0
      BY <1>0, <1>1, <2>3, MrChildren DEF Duties
    <3>2. f[n] = Share[n]
      BY <2>3
    <3> QED
      BY <1>2, <3>1, <3>2
  <2> QED
    BY <2>1, <2>2, <2>3
<1>4. Mr!Sent = Total(f, Mr!Indexes)
  BY MrSent
<1> HIDE DEF f
<1>5. buffer[0] + output = Mr!Sent
  BY <1>0, <1>3, <1>4, TotalReads, MrNumbers DEF Conserved
<1>6. buffer[0] \in 0..Capacity /\ output \in Nat /\ Capacity \in Nat
  BY <1>0, MrNumbers DEF MrTypes
<1>7. ASSUME NEW n \in Mr!Indexes, Mr!Mapper(n) \in broken, Mr!Splitter(n) \notin broken
      PROVE  ~(Share[n] > Capacity)
  <2>1. todo[Mr!Splitter(n)] = 0 /\ todo[Mr!Splitter(n)] + buffer[n] = Share[n]
    BY <1>0, <1>1, <1>7, MrChildren DEF Duties
  <2> QED
    BY <1>2, <2>1
<1>8. CASE Mr!Reducer \in broken
  <2>1. output = 0
    BY <1>0, <1>8 DEF Duties
  <2> QED
    BY <1>5, <1>6, <1>7, <1>8, <2>1 DEF Mr!Clogged
<1>9. CASE Mr!Reducer \notin broken
  <2>1. buffer[0] = 0
    BY <1>0, <1>1, <1>9, MrChildren DEF Duties
  <2> QED
    BY <1>5, <1>6, <1>7, <1>9, <2>1 DEF Mr!Clogged
<1> QED
  BY <1>8, <1>9

(* When the driver is done, the reducer has read, once each, the units of   *)
(* the splitters whose mapper and reducer were found, and every reader that *)
(* was not found had an input that fits into its pipe: no child saw the end *)
(* of its input while one that writes there could still be, or be started   *)
(* (mapreduce.c:84-107,131-144).                                            *)
THEOREM OutputStaysWhole ==
  ASSUME Mr!MapReduceAssumption
  PROVE  Mr!Spec => []OutputWhole
<1>1. Mr!Init => MrInv
  BY MrStart
<1>2. MrInv /\ [Mr!Next]_(Mr!vars) => MrInv'
  BY MrStep
<1>3. MrInv => Mr!OutputWhole
  BY MrDone
<1> QED
  BY <1>1, <1>2, <1>3, PTL DEF Mr!Spec, OutputWhole
=============================================================================
