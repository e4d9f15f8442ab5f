------------------------------ MODULE Semamore ------------------------------
(***************************************************************************)
(* critical_concurrency/semamore.c: a semaphore with a ceiling.  semm_wait *)
(* blocks at 0, semm_post at max_val, both on the same condition variable. *)
(* A critical section is one step.                                         *)
(***************************************************************************)
EXTENDS Integers, Sequences

CONSTANTS
  Threads,    (* the callers                                              *)
  NULL,
  Initial,    (* the value given to semm_init                             *)
  max_val,    (* the ceiling                                              *)
  Program     (* Program[t]: the calls t makes, in order                  *)

(* What the constants stand for; the modules that instantiate this one     *)
(* assume it.                                                              *)
SemamoreAssumption ==
  /\ Initial \in Nat /\ max_val \in Nat /\ Initial <= max_val
  /\ Program \in [Threads -> Seq({"wait", "post"})]
  /\ NULL \notin Threads

VARIABLES
  m,         (* the owner of the mutex, or NULL                           *)
  sleeping,  (* the threads blocked in pthread_cond_wait                  *)
  pc,        (* "idle", a call not holding m, "wait_test" or "post_test"  *)
  at,        (* at[t]: how many calls of Program[t] are finished          *)
  value      (* the field of the struct                                   *)

vars == <<m, sleeping, pc, at, value>>

(* semm_init *)
Init ==
  /\ m = NULL /\ sleeping = {}
  /\ pc = [t \in Threads |-> "idle"]
  /\ at = [t \in Threads |-> 0]
  /\ value = Initial

Call(t) ==
  /\ pc[t] = "idle" /\ at[t] < Len(Program[t])
  /\ pc' = [pc EXCEPT ![t] = Program[t][at[t] + 1]]
  /\ UNCHANGED <<m, sleeping, at, value>>

(* pthread_mutex_lock, at entry and inside pthread_cond_wait *)
Lock(t) ==
  /\ pc[t] \in {"wait", "post"} /\ t \notin sleeping
  /\ m = NULL /\ m' = t
  /\ pc' = [pc EXCEPT ![t] = IF pc[t] = "wait" THEN "wait_test" ELSE "post_test"]
  /\ UNCHANGED <<sleeping, at, value>>

CondWait(t, call) ==
  /\ sleeping' = sleeping \cup {t}
  /\ m' = NULL
  /\ pc' = [pc EXCEPT ![t] = call]
  /\ UNCHANGED <<at, value>>

(* pthread_cond_wait may return without a signal. *)
SpuriousWake(t) ==
  /\ t \in sleeping
  /\ sleeping' = sleeping \ {t}
  /\ UNCHANGED <<m, pc, at, value>>

(* Mutant: one waiter is signalled in place of all of them. *)
MutChange(t, v) ==
  /\ value' = v
  /\ IF sleeping = {}
     THEN UNCHANGED sleeping
     ELSE \E u \in sleeping : sleeping' = sleeping \ {u}
  /\ m' = NULL
  /\ pc' = [pc EXCEPT ![t] = "idle"]
  /\ at' = [at EXCEPT ![t] = @ + 1]

(* The new value, the broadcast, the unlock and the return. *)
Change(t, v) ==
  /\ value' = v
  /\ sleeping' = {}
  /\ m' = NULL
  /\ pc' = [pc EXCEPT ![t] = "idle"]
  /\ at' = [at EXCEPT ![t] = @ + 1]

AtCeiling == value = max_val

semm_wait_block(t) == pc[t] = "wait_test" /\ value = 0 /\ CondWait(t, "wait")
semm_wait_take(t) == pc[t] = "wait_test" /\ value # 0 /\ Change(t, value - 1)
semm_post_block(t) == pc[t] = "post_test" /\ AtCeiling /\ CondWait(t, "post")
semm_post_give(t) == pc[t] = "post_test" /\ ~AtCeiling /\ Change(t, value + 1)

Step(t) ==
  \/ Call(t)
  \/ semm_wait_block(t) \/ semm_wait_take(t)
  \/ semm_post_block(t) \/ semm_post_give(t)

Finished == \A t \in Threads : pc[t] = "idle" /\ at[t] = Len(Program[t])
Terminated == Finished /\ UNCHANGED vars

Next ==
  \/ \E t \in Threads : Step(t) \/ Lock(t) \/ SpuriousWake(t)
  \/ Terminated

Spec == Init /\ [][Next]_vars

(***************************************************************************)
(* Properties.                                                             *)
(***************************************************************************)
(* What keeps a thread inside a call asleep. *)
MustWait(call) == IF call = "wait" THEN value = 0 ELSE AtCeiling

(* Nobody sleeps while his call could go through: waiters and posters share *)
(* cv, so waking a single thread could wake one of the wrong kind.  And the *)
(* value stays between 0 and the ceiling: both tests are equalities, so one *)
(* that slipped past an end would never be stopped again.                   *)
NoStrandedWaiter ==
  /\ value \in 0..max_val
  /\ \A t \in sleeping : MustWait(pc[t])
=============================================================================
