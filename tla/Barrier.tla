------------------------------ MODULE Barrier ------------------------------
(***************************************************************************)
(* critical_concurrency/barrier.c: a reusable barrier.  The last of        *)
(* n_threads arrivals resets count, advances times_used and broadcasts;    *)
(* the others sleep while times_used is what it was when they arrived.     *)
(* barrier_wait reads times_used for its return value after it has         *)
(* released the mutex.                                                     *)
(***************************************************************************)
EXTENDS Integers, FiniteSets

CONSTANTS
  Threads,   (* the threads that use the barrier, n_threads of them       *)
  NULL,
  Rounds,    (* how often each thread calls barrier_wait                  *)
  Modulus    (* times_used is an unsigned int: it counts modulo this      *)

ASSUME BarrierAssumption ==
  /\ IsFiniteSet(Threads) /\ Threads # {} /\ NULL \notin Threads
  /\ Rounds \in Nat
  /\ Modulus \in Nat /\ Modulus > 1

n_threads == Cardinality(Threads)

VARIABLES
  mtx,         (* the owner of the mutex, or NULL                         *)
  waiting,     (* the threads blocked in pthread_cond_wait                *)
  pc,          (* where a thread is                                       *)
  stage,       (* stage[t]: the local copy of times_used                  *)
  count, times_used,   (* the fields of barrier_t                         *)
  ret,         (* ret[t]: what the latest barrier_wait of t returned      *)
  entered,     (* ghost: entered[t] counts the arrivals of t              *)
  left         (* ghost: left[t] counts the calls t has returned from     *)

vars == <<mtx, waiting, pc, stage, count, times_used, ret, entered, left>>

(* barrier_init *)
Init ==
  /\ mtx = NULL /\ waiting = {}
  /\ pc = [t \in Threads |-> "idle"]
  /\ stage = [t \in Threads |-> 0]
  /\ count = 0 /\ times_used = 0
  /\ ret = [t \in Threads |-> 0]
  /\ entered = [t \in Threads |-> 0] /\ left = [t \in Threads |-> 0]

(* pthread_mutex_lock at entry *)
Enter(t) ==
  /\ pc[t] = "idle" /\ entered[t] < Rounds
  /\ mtx = NULL /\ mtx' = t
  /\ pc' = [pc EXCEPT ![t] = "arrive"]
  /\ UNCHANGED <<waiting, stage, count, times_used, ret, entered, left>>

LastOne == ~(count + 1 < n_threads)

(* Mutant: the last arrival signals one waiter in place of all of them. *)
MutOpen(t) ==
  /\ pc[t] = "arrive" /\ LastOne
  /\ count' = 0
  /\ times_used' = (times_used + 1) % Modulus
  /\ waiting' \in {waiting \ {u} : u \in waiting} \cup (IF waiting = {} THEN {{}} ELSE {})
  /\ mtx' = NULL
  /\ pc' = [pc EXCEPT ![t] = "return"]
  /\ entered' = [entered EXCEPT ![t] = @ + 1]
  /\ UNCHANGED <<stage, ret, left>>

(* The last arrival opens the barrier; the mutex is released. *)
Open(t) ==
  /\ pc[t] = "arrive" /\ LastOne
  /\ count' = 0
  /\ times_used' = (times_used + 1) % Modulus
  /\ waiting' = {}
  /\ mtx' = NULL
  /\ pc' = [pc EXCEPT ![t] = "return"]
  /\ entered' = [entered EXCEPT ![t] = @ + 1]
  /\ UNCHANGED <<stage, ret, left>>

(* Every other arrival remembers the round it waits for. *)
Arrive(t) ==
  /\ pc[t] = "arrive" /\ ~LastOne
  /\ count' = count + 1
  /\ stage' = [stage EXCEPT ![t] = times_used]
  /\ pc' = [pc EXCEPT ![t] = "test"]
  /\ entered' = [entered EXCEPT ![t] = @ + 1]
  /\ UNCHANGED <<mtx, waiting, times_used, ret, left>>

(* The test of the while loop: sleep and release the mutex ... *)
Sleep(t) ==
  /\ pc[t] = "test" /\ stage[t] = times_used
  /\ waiting' = waiting \cup {t}
  /\ mtx' = NULL
  /\ pc' = [pc EXCEPT ![t] = "asleep"]
  /\ UNCHANGED <<stage, count, times_used, ret, entered, left>>

(* Mutant: an if in place of the while: once woken, a thread goes on. *)
MutRelock(t) ==
  /\ pc[t] = "asleep" /\ t \notin waiting
  /\ mtx = NULL
  /\ pc' = [pc EXCEPT ![t] = "return"]
  /\ UNCHANGED <<mtx, waiting, stage, count, times_used, ret, entered, left>>

(* ... and, once woken, take the mutex again before the next test ... *)
Relock(t) ==
  /\ pc[t] = "asleep" /\ t \notin waiting
  /\ mtx = NULL /\ mtx' = t
  /\ pc' = [pc EXCEPT ![t] = "test"]
  /\ UNCHANGED <<waiting, stage, count, times_used, ret, entered, left>>

(* ... or leave the loop and unlock. *)
Pass(t) ==
  /\ pc[t] = "test" /\ stage[t] # times_used
  /\ mtx' = NULL
  /\ pc' = [pc EXCEPT ![t] = "return"]
  /\ UNCHANGED <<waiting, stage, count, times_used, ret, entered, left>>

(* return barrier->times_used, read without the mutex *)
Return(t) ==
  /\ pc[t] = "return"
  /\ ret' = [ret EXCEPT ![t] = times_used]
  /\ left' = [left EXCEPT ![t] = @ + 1]
  /\ pc' = [pc EXCEPT ![t] = "idle"]
  /\ UNCHANGED <<mtx, waiting, stage, count, times_used, entered>>

(* pthread_cond_wait may return without a signal. *)
SpuriousWake(t) ==
  /\ t \in waiting
  /\ waiting' = waiting \ {t}
  /\ UNCHANGED <<mtx, pc, stage, count, times_used, ret, entered, left>>

Lock(t) == Enter(t) \/ Relock(t)
Holding(t) == Open(t) \/ Arrive(t) \/ Sleep(t) \/ Pass(t) \/ Return(t)
Finished == \A t \in Threads : left[t] = Rounds
Terminated == Finished /\ UNCHANGED vars

Next ==
  \/ \E t \in Threads : Lock(t) \/ Holding(t) \/ SpuriousWake(t)
  \/ Terminated

Spec == Init /\ [][Next]_vars

(***************************************************************************)
(* Properties.                                                             *)
(***************************************************************************)
(* Every variable of the model keeps its type. *)
TypeOK ==
  /\ mtx \in Threads \cup {NULL}
  /\ waiting \in SUBSET Threads
  /\ pc \in [Threads -> {"idle", "arrive", "test", "asleep", "return"}]
  /\ stage \in [Threads -> 0..(Modulus - 1)]
  /\ count \in 0..(n_threads - 1)
  /\ times_used \in 0..(Modulus - 1)
  /\ ret \in [Threads -> 0..(Modulus - 1)]
  /\ entered \in [Threads -> Nat]
  /\ left \in [Threads -> Nat]

(* Nobody returns from round k of barrier_wait before everybody has arrived *)
(* at round k, although fast threads already queue up for round k + 1 while *)
(* slow ones still wake up from round k; and the value returned is the      *)
(* number of the round, although it is read after the mutex was released    *)
(* and other threads have moved on.                                         *)
RoundsSeparate ==
  /\ \A t, u \in Threads : left[t] <= entered[u]
  /\ \A t \in Threads : ret[t] = left[t] % Modulus

(* A thread sleeps on cv only while its round is still open: with a counter *)
(* that wraps, a sleeper that missed Modulus rounds would never be let out. *)
NoStrandedWaiter == \A t \in waiting : stage[t] = times_used
=============================================================================
