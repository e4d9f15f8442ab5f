------------------------------- MODULE Queue -------------------------------
(***************************************************************************)
(* critical_concurrency/queue.c: a linked-list queue shared by threads,    *)
(* one mutex m and one condition variable cv for pushers and pullers       *)
(* alike.  A critical section is one step; taking the mutex, waiting on    *)
(* the condition variable and being woken are steps of their own.          *)
(***************************************************************************)
EXTENDS Integers, Sequences, FiniteSets

CONSTANTS
  Threads,        (* the threads that call queue_push and queue_pull      *)
  Main,           (* the thread that joins them and calls queue_destroy   *)
  Data,           (* the pointers they push                               *)
  Nodes,          (* the addresses malloc can return for a queue_node     *)
  NULL,
  MaxSize,        (* max_size; not positive means no maximum              *)
  Program,        (* Program[t]: the calls t makes, in order              *)
  MallocMayFail   (* can malloc return NULL in queue_push?                *)

ASSUME QueueAssumption ==
  /\ MaxSize \in Int
  /\ Program \in [Threads -> Seq({"push", "pull"})]
  /\ Main \notin Threads
  /\ NULL \notin Threads \cup {Main} \cup Nodes \cup Data

VARIABLES
  m,        (* the owner of the mutex, or NULL                            *)
  waiting,  (* the threads blocked in pthread_cond_wait                   *)
  pc,       (* where a thread is                                          *)
  at,       (* at[t]: the index in Program[t] of its current call         *)
  arg,      (* arg[t]: the argument of its latest queue_push              *)
  got,      (* got[t]: what its latest queue_pull returned                *)
  size, head, tail,   (* the fields of struct queue                       *)
  next, data,         (* the fields of the nodes, freed ones included     *)
  heap,     (* the nodes that are allocated                               *)
  order,    (* ghost: the nodes in the order they were pushed             *)
  life      (* "live", "draining" inside queue_destroy, "destroyed"       *)

vars == <<m, waiting, pc, at, arg, got, size, head, tail, next, data, heap,
          order, life>>
list == <<size, head, tail, next, data, heap, order>>

Init ==
  /\ m = NULL /\ waiting = {} /\ life = "live"
  /\ pc = [t \in Threads |-> "idle"] /\ at = [t \in Threads |-> 1]
  /\ arg = [t \in Threads |-> NULL] /\ got = [t \in Threads |-> NULL]
  /\ size = 0 /\ head = NULL /\ tail = NULL
  /\ next = [n \in Nodes |-> NULL] /\ data = [n \in Nodes |-> NULL]
  /\ heap = {} /\ order = <<>>

Done(t) == pc[t] = "idle" /\ at[t] > Len(Program[t])

(***************************************************************************)
(* Entering and leaving the mutex.                                         *)
(***************************************************************************)
(* A thread enters queue_push or queue_pull. *)
Call(t) ==
  /\ pc[t] = "idle" /\ at[t] <= Len(Program[t])
  /\ pc' = [pc EXCEPT ![t] = Program[t][at[t]]]
  /\ IF Program[t][at[t]] = "push"
     THEN \E d \in Data : arg' = [arg EXCEPT ![t] = d]
     ELSE UNCHANGED arg
  /\ UNCHANGED <<m, waiting, at, got, list, life>>

(* pthread_mutex_lock at entry, and the one inside pthread_cond_wait: a    *)
(* thread that was woken goes back to the test of its while loop.          *)
Lock(t) ==
  /\ pc[t] \in {"push", "pull"} /\ t \notin waiting
  /\ m = NULL
  /\ m' = t
  /\ pc' = [pc EXCEPT ![t] = IF pc[t] = "push" THEN "push_test" ELSE "pull_test"]
  /\ UNCHANGED <<waiting, at, arg, got, list, life>>

(* pthread_cond_wait blocks: the mutex is released in the same step. *)
CondWait(t, call) ==
  /\ waiting' = waiting \cup {t}
  /\ m' = NULL
  /\ pc' = [pc EXCEPT ![t] = call]
  /\ UNCHANGED <<at, arg, got, list, life>>

(* pthread_cond_wait may return without a signal. *)
SpuriousWake(t) ==
  /\ t \in waiting
  /\ waiting' = waiting \ {t}
  /\ UNCHANGED <<m, pc, at, arg, got, list, life>>

(* Mutant: pthread_cond_signal in place of pthread_cond_broadcast. *)
MutSignal == \E w \in SUBSET waiting :
               /\ w = {} <=> waiting = {}
               /\ \A u, v \in w : u = v
               /\ waiting' = waiting \ w

(* Mutant: nobody is woken. *)
MutNoBroadcast == UNCHANGED waiting

Broadcast == waiting' = {}

(* pthread_mutex_unlock and return to the caller. *)
Return(t) ==
  /\ m' = NULL
  /\ pc' = [pc EXCEPT ![t] = "idle"]
  /\ at' = [at EXCEPT ![t] = at[t] + 1]

(***************************************************************************)
(* queue_push                                                              *)
(***************************************************************************)
Full == MaxSize > 0 /\ size = MaxSize

(* Mutant: the new node goes to the front when the queue is not empty. *)
MutLink(n) ==
  /\ head' = n
  /\ tail' = IF head = NULL THEN n ELSE tail
  /\ next' = [next EXCEPT ![n] = head]

(* The new node becomes the last one.  The test is on head: tail still     *)
(* points to a freed node after the last one was pulled.                   *)
Link(n) ==
  /\ tail' = n
  /\ IF head = NULL
     THEN /\ head' = n
          /\ next' = [next EXCEPT ![n] = NULL]
     ELSE /\ next' = [next EXCEPT ![n] = NULL, ![tail] = n]
          /\ UNCHANGED head

queue_push_wait(t) ==
  /\ pc[t] = "push_test" /\ Full
  /\ CondWait(t, "push")

queue_push_insert(t) ==
  /\ pc[t] = "push_test" /\ ~Full
  /\ \E n \in Nodes \ heap :
       /\ heap' = heap \cup {n}
       /\ data' = [data EXCEPT ![n] = arg[t]]
       /\ Link(n)
       /\ order' = Append(order, n)
  /\ size' = size + 1
  /\ Broadcast
  /\ Return(t)
  /\ UNCHANGED <<arg, got, life>>

(* malloc returned NULL: the item is dropped and nobody is told. *)
queue_push_nomem(t) ==
  /\ MallocMayFail
  /\ pc[t] = "push_test" /\ ~Full
  /\ Return(t)
  /\ UNCHANGED <<waiting, arg, got, list, life>>

(***************************************************************************)
(* queue_pull                                                              *)
(***************************************************************************)
queue_pull_wait(t) ==
  /\ pc[t] = "pull_test" /\ size = 0
  /\ CondWait(t, "pull")

(* Mutant: the head is unlinked and never freed. *)
MutUnlink ==
  /\ head' = next[head]
  /\ order' = Tail(order)
  /\ UNCHANGED heap

(* The head is unlinked and freed; tail is left as it was. *)
Unlink ==
  /\ head' = next[head]
  /\ heap' = heap \ {head}
  /\ order' = Tail(order)

Payload(n) == data[n]

queue_pull_remove(t) ==
  /\ pc[t] = "pull_test" /\ size # 0
  /\ IF head # NULL
     THEN /\ got' = [got EXCEPT ![t] = Payload(head)]
          /\ Unlink
          /\ size' = size - 1
     ELSE /\ got' = [got EXCEPT ![t] = NULL]
          /\ UNCHANGED <<size, head, heap, order>>
  /\ Broadcast
  /\ Return(t)
  /\ UNCHANGED <<arg, tail, next, data, life>>

(***************************************************************************)
(* queue_destroy, called once every thread was joined.                     *)
(***************************************************************************)
queue_destroy_lock ==
  /\ life = "live" /\ m = NULL
  /\ \A t \in Threads : Done(t)
  /\ life' = "draining" /\ m' = Main
  /\ UNCHANGED <<waiting, pc, at, arg, got, list>>

queue_destroy_drain ==
  /\ life = "draining" /\ head # NULL
  /\ Unlink
  /\ UNCHANGED <<m, waiting, pc, at, arg, got, size, tail, next, data, life>>

queue_destroy_end ==
  /\ life = "draining" /\ head = NULL
  /\ tail' = NULL /\ size' = 0
  /\ m' = NULL /\ life' = "destroyed"
  /\ UNCHANGED <<waiting, pc, at, arg, got, head, next, data, heap, order>>

Destroy == queue_destroy_lock \/ queue_destroy_drain \/ queue_destroy_end

(***************************************************************************)
(* The specification.                                                      *)
(***************************************************************************)
Step(t) ==
  \/ Call(t)
  \/ queue_push_wait(t) \/ queue_push_insert(t) \/ queue_push_nomem(t)
  \/ queue_pull_wait(t) \/ queue_pull_remove(t)

Terminated == life = "destroyed" /\ UNCHANGED vars

Next ==
  \/ \E t \in Threads : Step(t) \/ Lock(t) \/ SpuriousWake(t)
  \/ Destroy
  \/ Terminated

Spec == Init /\ [][Next]_vars

(* The scheduler runs every thread, and no thread that keeps asking for    *)
(* the mutex is passed over for ever.                                      *)
Fairness ==
  /\ \A t \in Threads : WF_vars(Step(t)) /\ SF_vars(Lock(t))
  /\ WF_vars(Destroy)

FairSpec == Spec /\ Fairness

(***************************************************************************)
(* Properties.                                                             *)
(***************************************************************************)
(* Every variable of the model keeps its type. *)
TypeOK ==
  /\ m \in Threads \cup {Main, NULL}
  /\ waiting \in SUBSET Threads
  /\ pc \in [Threads -> {"idle", "push", "pull", "push_test", "pull_test"}]
  /\ at \in [Threads -> Nat \ {0}]
  /\ arg \in [Threads -> Data \cup {NULL}]
  /\ got \in [Threads -> Data \cup {NULL}]
  /\ size \in Int
  /\ head \in Nodes \cup {NULL} /\ tail \in Nodes \cup {NULL}
  /\ next \in [Nodes -> Nodes \cup {NULL}]
  /\ data \in [Nodes -> Data \cup {NULL}]
  /\ heap \in SUBSET Nodes
  /\ order \in Seq(Nodes)
  /\ life \in {"live", "draining", "destroyed"}

(* Only the thread that owns m is between lock and unlock, a thread blocked *)
(* on cv is inside a call, and queue_destroy runs only when nobody is.      *)
MutualExclusion ==
  /\ \A t \in Threads : (pc[t] \in {"push_test", "pull_test"}) <=> (m = t)
  /\ \A t \in waiting : pc[t] \in {"push", "pull"}
  /\ life # "live" => \A t \in Threads : Done(t)
  /\ life = "draining" <=> m = Main

(* The chain head -> next -> ... -> NULL visits exactly the allocated nodes, *)
(* once each and in push order, tail is its last node whenever there is one, *)
(* and size is its length.  So queue_push never writes through the dangling  *)
(* tail that queue_pull leaves behind, queue_pull never frees a node twice,  *)
(* and queue_destroy leaks none.                                             *)
ListSound ==
  /\ heap = {order[i] : i \in 1..Len(order)}
  /\ \A i, j \in 1..Len(order) : order[i] = order[j] => i = j
  /\ head = IF order = <<>> THEN NULL ELSE order[1]
  /\ order # <<>> => tail = order[Len(order)]
  /\ \A i \in 1..Len(order) :
       next[order[i]] = IF i = Len(order) THEN NULL ELSE order[i + 1]
  /\ life = "draining" \/ size = Len(order)

(* A queue with a maximum never holds more than the maximum: the test in    *)
(* queue_push is an equality, so a size that jumped past it would be lost.  *)
Bounded == MaxSize > 0 => size <= MaxSize

(* What keeps a thread inside a call asleep. *)
MustWait(call) == IF call = "push" THEN Full ELSE size = 0

(* Nobody sleeps on cv while what he waits for is there: pushers and        *)
(* pullers share cv, so a wake-up that reached the wrong kind of thread     *)
(* would leave a pusher asleep with room, or a puller with items.           *)
NoStrandedWaiter == \A t \in waiting : MustWait(pc[t])

(* What a caller sees is a first-in first-out channel of capacity MaxSize.  *)
Fifo == INSTANCE BoundedFifo
          WITH items <- [i \in 1..Len(order) |-> data[order[i]]],
               offer <- arg
IsFifo == Fifo!FifoSpec

(* How many calls of one kind have returned. *)
Returned(call) ==
  Cardinality(UNION {{<<t, i>> : i \in {j \in 1..(at[t] - 1) : Program[t][j] = call}} :
                       t \in Threads})

(* Some queue_push returned without linking its item. *)
Dropped == life = "live" /\ Returned("push") > Returned("pull") + Len(order)

(* Threads whose pushes and pulls fit the queue all finish, and the queue   *)
(* they leave is destroyed.  Only an item that malloc failure made          *)
(* queue_push drop can leave a queue_pull waiting for ever.                 *)
Termination == <>(life = "destroyed" \/ Dropped)
=============================================================================
