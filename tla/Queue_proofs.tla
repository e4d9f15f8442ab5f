---------------------------- MODULE Queue_proofs ----------------------------
(***************************************************************************)
(* Proofs about Queue for any number of threads, any capacity and any      *)
(* sequences of calls.                                                     *)
(***************************************************************************)
EXTENDS Queue, SequenceTheorems, TLAPS

(* The inductive invariant: every safety property needs the others.        *)
IInv ==
  /\ TypeOK
  /\ MutualExclusion
  /\ ListSound
  /\ Bounded
  /\ NoStrandedWaiter

(* Appending a node that is not allocated keeps the list sound. *)
LEMMA InsertKeepsList ==
  ASSUME TypeOK, ListSound, NEW n \in Nodes \ heap, life # "draining",
         Link(n), order' = Append(order, n), heap' = heap \cup {n},
         size' = size + 1, life' = life
  PROVE  ListSound'
<1> DEFINE k == Len(order)
<1>1. /\ order \in Seq(Nodes) /\ k \in Nat
      /\ order' \in Seq(Nodes) /\ Len(order') = k + 1
      /\ order' # <<>>
      /\ \A i \in 1..k : order'[i] = order[i] /\ order[i] \in Nodes
      /\ order'[k + 1] = n
  <2>1. order \in Seq(Nodes) /\ n \in Nodes
    BY DEF TypeOK
  <2>2. k \in Nat /\ \A i \in 1..k : order[i] \in Nodes
    BY <2>1
  <2>3. order' = Append(order, n)
    OBVIOUS
  <2>4. order' \in Seq(Nodes) /\ Len(order') = k + 1
    BY <2>1, <2>3
  <2>5. order'[k + 1] = n /\ \A i \in 1..k : order'[i] = order[i]
    BY <2>1, <2>2, <2>3
  <2> QED
    BY <2>1, <2>2, <2>4, <2>5
<1>2. \A i \in 1..k : order[i] \in heap /\ order[i] # n
  BY DEF ListSound
<1>3. heap' = {order'[i] : i \in 1..Len(order')}
  <2>1. heap = {order[i] : i \in 1..k}
    BY DEF ListSound
  <2> QED
    BY <1>1, <2>1
<1>4. \A i, j \in 1..Len(order') : order'[i] = order'[j] => i = j
  BY <1>1, <1>2 DEF ListSound
<1>5. (order = <<>>) <=> (k = 0)
  BY <1>1
<1>6. NULL \notin Nodes
  BY QueueAssumption
<1>7. head = NULL <=> k = 0
  BY <1>1, <1>5, <1>6 DEF ListSound
<1>8. head' = order'[1]
  BY <1>1, <1>5, <1>7 DEF ListSound, Link
<1>9. tail' = order'[Len(order')]
  BY <1>1 DEF Link
<1>10. \A i \in 1..Len(order') :
         next'[order'[i]] = IF i = Len(order') THEN NULL ELSE order'[i + 1]
  <2>1. CASE k = 0
    BY <1>1, <1>7, <2>1 DEF Link, TypeOK
  <2>2. CASE k # 0
    <3>1. tail = order[k] /\ k \in 1..k
      BY <1>1, <1>5, <2>2 DEF ListSound
    <3>2. next' = [next EXCEPT ![n] = NULL, ![tail] = n]
      BY <1>7, <2>2 DEF Link
    <3>3. next'[n] = NULL
      BY <1>2, <3>1, <3>2 DEF TypeOK
    <3>4. next'[order[k]] = n
      BY <1>1, <3>1, <3>2 DEF TypeOK
    <3>5. \A i \in 1..(k - 1) : next'[order[i]] = order[i + 1]
      <4> TAKE i \in 1..(k - 1)
      <4>1. i \in 1..k /\ i # k
        BY <1>1
      <4>2. order[i] # n /\ order[i] # tail
        BY <1>2, <3>1, <4>1 DEF ListSound
      <4>3. next'[order[i]] = next[order[i]]
        BY <1>1, <3>2, <4>1, <4>2 DEF TypeOK
      <4> QED
        BY <4>1, <4>3 DEF ListSound
    <3> QED
      BY <1>1, <3>3, <3>4, <3>5
  <2> QED
    BY <2>1, <2>2
<1>11. size' = Len(order')
  BY <1>1 DEF ListSound
<1> QED
  BY <1>1, <1>3, <1>4, <1>8, <1>9, <1>10, <1>11 DEF ListSound

(* Unlinking the head of a sound list that is not empty keeps it sound; the *)
(* caller says what happens to size.                                        *)
LEMMA UnlinkKeepsList ==
  ASSUME TypeOK, ListSound, head # NULL, Unlink,
         UNCHANGED <<tail, next, life>>,
         life = "draining" \/ size' = size - 1
  PROVE  /\ ListSound'
         /\ order # <<>> /\ head = order[1] /\ order' \in Seq(Nodes)
<1> DEFINE k == Len(order)
<1>1. order # <<>> /\ head = order[1]
  BY DEF ListSound
<1>2. /\ order \in Seq(Nodes) /\ k \in Nat /\ k > 0
      /\ order' \in Seq(Nodes) /\ Len(order') = k - 1
      /\ \A i \in 1..(k - 1) : order'[i] = order[i + 1]
  BY <1>1 DEF TypeOK, Unlink
<1>3. heap' = {order'[i] : i \in 1..Len(order')}
  <2>1. heap = {order[i] : i \in 1..k}
    BY DEF ListSound
  <2>2. \A i \in 2..k : order[i] # order[1]
    BY <1>2 DEF ListSound
  <2>3. heap' = {order[i] : i \in 2..k}
    BY <1>1, <1>2, <2>1, <2>2 DEF Unlink
  <2>4. {order[i] : i \in 2..k} = {order[i + 1] : i \in 1..(k - 1)}
    <3>1. ASSUME NEW i \in 2..k PROVE \E j \in 1..(k - 1) : order[i] = order[j + 1]
      <4>1. (i - 1) \in 1..(k - 1) /\ order[i] = order[(i - 1) + 1]
        BY <1>2
      <4> QED
        BY <4>1
    <3>2. ASSUME NEW j \in 1..(k - 1) PROVE \E i \in 2..k : order[j + 1] = order[i]
      BY <1>2
    <3> HIDE DEF k
    <3> QED
      BY <3>1, <3>2
  <2>5. {order'[i] : i \in 1..Len(order')} = {order[i + 1] : i \in 1..(k - 1)}
    BY <1>2
  <2> QED
    BY <2>3, <2>4, <2>5
<1>4. \A i, j \in 1..Len(order') : order'[i] = order'[j] => i = j
  <2> TAKE i, j \in 1..Len(order')
  <2>1. (i + 1) \in 1..k /\ (j + 1) \in 1..k
    BY <1>2
  <2> QED
    BY <1>2, <2>1 DEF ListSound
<1>5. (order' = <<>>) <=> (k = 1)
  BY <1>2
<1>6. next[order[1]] = IF 1 = k THEN NULL ELSE order[2]
  BY <1>2 DEF ListSound
<1>7. head' = IF order' = <<>> THEN NULL ELSE order'[1]
  BY <1>1, <1>2, <1>5, <1>6 DEF Unlink
<1>8. order' # <<>> => tail' = order'[Len(order')]
  BY <1>1, <1>2, <1>5 DEF ListSound
<1>9. \A i \in 1..Len(order') :
        next'[order'[i]] = IF i = Len(order') THEN NULL ELSE order'[i + 1]
  <2> TAKE i \in 1..Len(order')
  <2>1. (i + 1) \in 1..k /\ order'[i] = order[i + 1]
    BY <1>2
  <2>2. next[order[i + 1]] = IF i + 1 = k THEN NULL ELSE order[(i + 1) + 1]
    BY <2>1 DEF ListSound
  <2> QED
    BY <1>2, <2>1, <2>2
<1>10. life' = "draining" \/ size' = Len(order')
  BY <1>2 DEF ListSound
<1> QED
  BY <1>1, <1>2, <1>3, <1>4, <1>7, <1>8, <1>9, <1>10 DEF ListSound

(* The queue that queue_create returns satisfies the invariant. *)
LEMMA InitIInv == Init => IInv
<1> SUFFICES ASSUME Init PROVE IInv
  OBVIOUS
<1>1. Len(order) = 0 /\ order \in Seq(Nodes)
  BY DEF Init
<1>2. TypeOK
  BY <1>1, QueueAssumption DEF Init, TypeOK
<1>3. MutualExclusion
  BY QueueAssumption DEF Init, MutualExclusion
<1>4. ListSound
  BY <1>1 DEF Init, ListSound
<1>5. Bounded /\ NoStrandedWaiter
  BY QueueAssumption DEF Init, Bounded, NoStrandedWaiter
<1> QED
  BY <1>2, <1>3, <1>4, <1>5 DEF IInv

(* A step that leaves the list and the life of the queue alone keeps the    *)
(* list sound and the queue bounded.                                        *)
LEMMA ListUnchanged ==
  ASSUME ListSound, Bounded, UNCHANGED list, life' = life
  PROVE  ListSound' /\ Bounded'
<1> QED
  BY DEF ListSound, Bounded, list

(* Every step keeps the invariant. *)
LEMMA NextIInv == IInv /\ [Next]_vars => IInv'
<1> SUFFICES ASSUME IInv, [Next]_vars PROVE IInv'
  OBVIOUS
<1> USE QueueAssumption DEF IInv
<1>a. ASSUME NEW t \in Threads, pc[t] \in {"push_test", "pull_test"}
      PROVE  m = t /\ t \notin waiting /\ life = "live" /\ ~Done(t)
  BY <1>a DEF MutualExclusion, TypeOK, Done
<1>1. ASSUME NEW t \in Threads, Call(t) PROVE IInv'
  <2>1. TypeOK'
    <3>1. Program[t][at[t]] \in {"push", "pull"}
      BY <1>1 DEF Call, TypeOK
    <3>2. pc' \in [Threads -> {"idle", "push", "pull", "push_test", "pull_test"}]
      BY <1>1, <3>1 DEF Call, TypeOK
    <3>3. arg' \in [Threads -> Data \cup {NULL}]
      BY ZenonT(60), <1>1 DEF Call, TypeOK
    <3>4. UNCHANGED <<m, waiting, at, got, list, life>>
      BY <1>1 DEF Call
    <3> QED
      BY <3>2, <3>3, <3>4 DEF TypeOK, list
  <2>2. life = "live" /\ t \notin waiting /\ m # t
    <3>1. pc[t] = "idle" /\ at[t] <= Len(Program[t])
      BY <1>1 DEF Call
    <3>2. ~Done(t)
      BY <3>1 DEF Done, TypeOK
    <3> QED
      BY <3>1, <3>2 DEF MutualExclusion
  <2>3. MutualExclusion'
    BY <1>1, <2>2 DEF Call, MutualExclusion, TypeOK, Done
  <2>4. ListSound' /\ Bounded'
    BY <1>1, ListUnchanged DEF Call
  <2>5. NoStrandedWaiter'
    BY <1>1, <2>2 DEF Call, NoStrandedWaiter, TypeOK, list, Full, MustWait
  <2> QED
    BY <2>1, <2>3, <2>4, <2>5
<1>2. ASSUME NEW t \in Threads, Lock(t) PROVE IInv'
  <2>1. TypeOK'
    BY <1>2 DEF Lock, TypeOK, list
  <2>2. life = "live"
    BY <1>2 DEF Lock, MutualExclusion, Done, TypeOK
  <2>3. MutualExclusion'
    BY <1>2, <2>2 DEF Lock, MutualExclusion, TypeOK, Done
  <2>4. ListSound' /\ Bounded'
    BY <1>2, ListUnchanged DEF Lock
  <2>5. NoStrandedWaiter'
    BY <1>2 DEF Lock, NoStrandedWaiter, TypeOK, list, Full, MustWait
  <2> QED
    BY <2>1, <2>3, <2>4, <2>5
<1>3. ASSUME NEW t \in Threads, SpuriousWake(t) PROVE IInv'
  <2>1. TypeOK' /\ MutualExclusion'
    BY <1>3 DEF SpuriousWake, TypeOK, list, MutualExclusion, Done
  <2>2. ListSound' /\ Bounded'
    BY <1>3, ListUnchanged DEF SpuriousWake
  <2>3. NoStrandedWaiter'
    BY <1>3 DEF SpuriousWake, NoStrandedWaiter, list, Full, MustWait
  <2> QED
    BY <2>1, <2>2, <2>3
<1>4. ASSUME NEW t \in Threads, NEW call \in {"push", "pull"},
             pc[t] \in {"push_test", "pull_test"}, CondWait(t, call),
             MustWait(call)
      PROVE  IInv'
  <2>0. m = t /\ t \notin waiting /\ life = "live"
    BY <1>a, <1>4
  <2>1. TypeOK'
    BY <1>4 DEF CondWait, TypeOK, list
  <2>2. MutualExclusion'
    BY <1>4, <2>0 DEF CondWait, MutualExclusion, TypeOK, Done
  <2>3. ListSound' /\ Bounded'
    BY <1>4, ListUnchanged DEF CondWait
  <2>4. NoStrandedWaiter'
    BY <1>4, <2>0 DEF CondWait, NoStrandedWaiter, TypeOK, list, Full, MustWait
  <2> QED
    BY <2>1, <2>2, <2>3, <2>4
<1>5. ASSUME NEW t \in Threads, pc[t] \in {"push_test", "pull_test"},
             Return(t), waiting' = {} \/ (waiting' = waiting /\ size' = size),
             UNCHANGED life
      PROVE  MutualExclusion' /\ NoStrandedWaiter'
  <2>0. m = t /\ t \notin waiting /\ life = "live"
    BY <1>a, <1>5
  <2>1. MutualExclusion'
    BY <1>5, <2>0 DEF Return, MutualExclusion, TypeOK, Done
  <2>2. NoStrandedWaiter'
    BY <1>5, <2>0 DEF Return, NoStrandedWaiter, TypeOK, Full, MustWait
  <2> QED
    BY <2>1, <2>2
<1>6. ASSUME NEW t \in Threads, queue_push_insert(t) PROVE IInv'
  <2>0. life = "live"
    BY <1>a, <1>6 DEF queue_push_insert
  <2>1. PICK n \in Nodes \ heap :
           /\ heap' = heap \cup {n}
           /\ data' = [data EXCEPT ![n] = arg[t]]
           /\ Link(n)
           /\ order' = Append(order, n)
    BY <1>6 DEF queue_push_insert
  <2>2. ListSound'
    BY <1>6, <2>0, <2>1, InsertKeepsList DEF queue_push_insert
  <2>3. MutualExclusion' /\ NoStrandedWaiter'
    BY <1>5, <1>6 DEF queue_push_insert, Broadcast
  <2>4. Bounded'
    BY <1>6 DEF queue_push_insert, Bounded, Full, TypeOK
  <2>5. order' \in Seq(Nodes)
    BY <2>1 DEF TypeOK
  <2>6. head' \in Nodes \cup {NULL} /\ tail' \in Nodes \cup {NULL}
        /\ next' \in [Nodes -> Nodes \cup {NULL}]
    BY ZenonT(60), <2>1 DEF TypeOK, Link
  <2>7. data' \in [Nodes -> Data \cup {NULL}] /\ heap' \in SUBSET Nodes
    BY <2>1 DEF TypeOK
  <2>8. m' = NULL /\ waiting' = {} /\ UNCHANGED <<arg, got, life>>
        /\ pc' \in [Threads -> {"idle", "push", "pull", "push_test", "pull_test"}]
        /\ at' \in [Threads -> Nat \ {0}] /\ size' \in Int
    BY <1>6 DEF queue_push_insert, Return, Broadcast, TypeOK
  <2>9. TypeOK'
    BY <2>5, <2>6, <2>7, <2>8 DEF TypeOK
  <2> QED
    BY <2>2, <2>3, <2>4, <2>9
<1>7. ASSUME NEW t \in Threads, queue_push_nomem(t) PROVE IInv'
  <2>1. TypeOK'
    BY <1>7 DEF queue_push_nomem, Return, TypeOK, list
  <2>2. MutualExclusion' /\ NoStrandedWaiter'
    BY <1>5, <1>7 DEF queue_push_nomem, list
  <2>3. ListSound' /\ Bounded'
    BY <1>7, ListUnchanged DEF queue_push_nomem
  <2> QED
    BY <2>1, <2>2, <2>3
<1>8. ASSUME NEW t \in Threads, queue_pull_remove(t) PROVE IInv'
  <2>0. life = "live"
    BY <1>a, <1>8 DEF queue_pull_remove
  <2>1. head # NULL
    <3>1. Len(order) # 0 /\ order \in Seq(Nodes)
      BY <1>8, <2>0 DEF ListSound, queue_pull_remove, TypeOK
    <3>2. order # <<>> /\ order[1] \in Nodes
      BY <3>1
    <3> QED
      BY <3>2 DEF ListSound
  <2>2. /\ Unlink /\ size' = size - 1
        /\ got' = [got EXCEPT ![t] = data[head]]
    BY <1>8, <2>1 DEF queue_pull_remove, Payload
  <2>3. ListSound' /\ order' \in Seq(Nodes)
    BY <1>8, <2>1, <2>2, UnlinkKeepsList DEF queue_pull_remove
  <2>4. MutualExclusion' /\ NoStrandedWaiter'
    BY <1>5, <1>8 DEF queue_pull_remove, Broadcast
  <2>5. Bounded'
    BY <2>2 DEF Bounded, TypeOK
  <2>6. TypeOK'
    BY <1>8, <2>1, <2>2, <2>3
       DEF queue_pull_remove, Return, Broadcast, Unlink, TypeOK
  <2> QED
    BY <2>3, <2>4, <2>5, <2>6
<1>9. CASE queue_destroy_lock
  <2>1. waiting = {}
    BY <1>9 DEF queue_destroy_lock, MutualExclusion, Done, TypeOK
  <2>2. TypeOK' /\ NoStrandedWaiter'
    BY <1>9, <2>1 DEF queue_destroy_lock, TypeOK, list, NoStrandedWaiter
  <2>3. MutualExclusion'
    BY <1>9, <2>1 DEF queue_destroy_lock, MutualExclusion, Done, TypeOK
  <2>4. ListSound' /\ Bounded'
    BY <1>9 DEF queue_destroy_lock, ListSound, Bounded, list
  <2> QED
    BY <2>2, <2>3, <2>4
<1>10. CASE queue_destroy_drain
  <2>1. ListSound' /\ order' \in Seq(Nodes)
    BY <1>10, UnlinkKeepsList DEF queue_destroy_drain
  <2>2. TypeOK'
    BY <1>10, <2>1 DEF queue_destroy_drain, Unlink, TypeOK
  <2>3. MutualExclusion' /\ NoStrandedWaiter' /\ Bounded'
    BY <1>10
       DEF queue_destroy_drain, MutualExclusion, NoStrandedWaiter, Bounded,
           Done, Full, MustWait
  <2> QED
    BY <2>1, <2>2, <2>3
<1>11. CASE queue_destroy_end
  <2>0. waiting = {}
    BY <1>11 DEF queue_destroy_end, MutualExclusion, Done, TypeOK
  <2>1. TypeOK' /\ NoStrandedWaiter' /\ Bounded'
    BY <1>11, <2>0 DEF queue_destroy_end, TypeOK, NoStrandedWaiter, Bounded
  <2>2. MutualExclusion'
    BY <1>11, <2>0 DEF queue_destroy_end, MutualExclusion, Done, TypeOK
  <2>3. order = <<>> /\ Len(order) = 0
    BY <1>11 DEF queue_destroy_end, ListSound, TypeOK
  <2>4. ListSound'
    BY <1>11, <2>3 DEF queue_destroy_end, ListSound
  <2> QED
    BY <2>1, <2>2, <2>4
<1>12. CASE UNCHANGED vars
  <2>1. ListSound' /\ Bounded'
    BY <1>12, ListUnchanged DEF vars, list
  <2>2. TypeOK' /\ MutualExclusion' /\ NoStrandedWaiter'
    BY <1>12 DEF vars, TypeOK, MutualExclusion, NoStrandedWaiter, Done, Full, MustWait
  <2> QED
    BY <2>1, <2>2
<1>13. ASSUME NEW t \in Threads, Step(t) PROVE IInv'
  <2>1. CASE queue_push_wait(t)
    <3>1. pc[t] = "push_test" /\ MustWait("push") /\ CondWait(t, "push")
      BY <2>1 DEF queue_push_wait, MustWait
    <3> QED
      BY <1>4, <3>1
  <2>2. CASE queue_pull_wait(t)
    <3>1. pc[t] = "pull_test" /\ MustWait("pull") /\ CondWait(t, "pull")
      BY <2>2 DEF queue_pull_wait, MustWait
    <3> QED
      BY <1>4, <3>1
  <2> QED
    BY <1>1, <1>6, <1>7, <1>8, <1>13, <2>1, <2>2 DEF Step
<1> QED
  BY <1>2, <1>3, <1>9, <1>10, <1>11, <1>12, <1>13
     DEF Next, Destroy, Terminated

(* Every reachable state of the queue has its type. *)
THEOREM TypeCorrect == Spec => []TypeOK
<1>1. IInv => TypeOK
  BY DEF IInv
<1> QED
  BY <1>1, InitIInv, NextIInv, PTL DEF Spec

(* The linked list is the sequence of pushed nodes in every reachable       *)
(* state: no use of the dangling tail, no double free, no lost node.        *)
THEOREM ListIsSound == Spec => []ListSound
<1>1. IInv => ListSound
  BY DEF IInv
<1> QED
  BY <1>1, InitIInv, NextIInv, PTL DEF Spec

(* The capacity is never exceeded. *)
THEOREM NeverOverfull == Spec => []Bounded
<1>1. IInv => Bounded
  BY DEF IInv
<1> QED
  BY <1>1, InitIInv, NextIInv, PTL DEF Spec

(* No wake-up is lost: whoever sleeps on cv still has a reason to. *)
THEOREM NobodyStranded == Spec => []NoStrandedWaiter
<1>1. IInv => NoStrandedWaiter
  BY DEF IInv
<1> QED
  BY <1>1, InitIInv, NextIInv, PTL DEF Spec

(* The abstract contents. *)
Items == [i \in 1..Len(order) |-> data[order[i]]]

(* A sound list holds a sequence of items, empty exactly when the list is.  *)
LEMMA ItemsType ==
  ASSUME TypeOK
  PROVE  /\ Items \in Seq(Data \cup {NULL})
         /\ Len(Items) = Len(order)
         /\ (Items = <<>>) <=> (order = <<>>)
<1>1. order \in Seq(Nodes) /\ Len(order) \in Nat
  BY DEF TypeOK
<1>2. \A i \in 1..Len(order) : data[order[i]] \in Data \cup {NULL}
  BY <1>1 DEF TypeOK
<1>3. Items \in Seq(Data \cup {NULL}) /\ Len(Items) = Len(order)
  BY <1>1, <1>2 DEF Items
<1> QED
  BY <1>1, <1>3

(* A step that leaves order and data alone leaves the contents alone. *)
LEMMA ItemsUnchanged ==
  ASSUME UNCHANGED <<order, data>>
  PROVE  Items' = Items
  BY DEF Items

(* Unlinking the head takes the oldest item away. *)
LEMMA ItemsUnlink ==
  ASSUME TypeOK, ListSound, head # NULL, Unlink, data' = data
  PROVE  /\ Items # <<>> /\ Head(Items) = data[head]
         /\ Items' = Tail(Items)
<1>1. order # <<>> /\ head = order[1] /\ order \in Seq(Nodes)
  BY DEF ListSound, TypeOK
<1>2. /\ Items \in Seq(Data \cup {NULL}) /\ Len(Items) = Len(order)
      /\ Items # <<>>
  BY <1>1, ItemsType
<1>3. Len(order) \in Nat /\ Len(order) > 0
  BY <1>1
<1>4. Head(Items) = data[head]
  BY <1>1, <1>2, <1>3 DEF Items
<1>5. /\ Len(order') = Len(order) - 1
      /\ \A i \in 1..(Len(order) - 1) : order'[i] = order[i + 1]
  BY <1>1 DEF Unlink
<1>6. Items' = [i \in 1..(Len(order) - 1) |-> data[order[i + 1]]]
  BY <1>5 DEF Items
<1>7. /\ Tail(Items) \in Seq(Data \cup {NULL})
      /\ Len(Tail(Items)) = Len(order) - 1
      /\ \A i \in 1..(Len(order) - 1) : Tail(Items)[i] = Items[i + 1]
  BY <1>2, HeadTailProperties
<1>8. \A i \in 1..(Len(order) - 1) : Items[i + 1] = data[order[i + 1]]
  BY <1>3 DEF Items
<1>9. order' \in Seq(Nodes)
  BY <1>1 DEF Unlink
<1>10. Items' \in Seq(Data \cup {NULL}) /\ Len(Items') = Len(order) - 1
  <2>1. \A i \in 1..(Len(order) - 1) : data[order[i + 1]] \in Data \cup {NULL}
    BY <1>1, <1>3 DEF TypeOK
  <2> QED
    BY <1>3, <1>6, <2>1
<1>11. \A i \in 1..(Len(order) - 1) : Items'[i] = Tail(Items)[i]
  BY <1>6, <1>7, <1>8
<1>12. Items' = Tail(Items)
  BY <1>7, <1>10, <1>11, SeqEqual
<1> QED
  BY <1>2, <1>4, <1>12

(* Linking a fresh node puts its item behind the others. *)
LEMMA ItemsInsert ==
  ASSUME TypeOK, ListSound, NEW n \in Nodes \ heap, NEW d \in Data \cup {NULL},
         order' = Append(order, n), data' = [data EXCEPT ![n] = d]
  PROVE  Items' = Append(Items, d)
<1> DEFINE k == Len(order)
<1>1. order \in Seq(Nodes) /\ k \in Nat
  BY DEF TypeOK
<1>2. /\ Len(order') = k + 1
      /\ order'[k + 1] = n
      /\ \A i \in 1..k : order'[i] = order[i] /\ order[i] \in Nodes
  BY <1>1
<1>3. \A i \in 1..k : order[i] # n
  BY DEF ListSound
<1>4. /\ \A i \in 1..k : data'[order'[i]] = data[order[i]]
      /\ data'[order'[k + 1]] = d
  BY <1>1, <1>2, <1>3 DEF TypeOK
<1>5. Items' = [i \in 1..(k + 1) |-> data'[order'[i]]]
  BY <1>2 DEF Items
<1>6. Items \in Seq(Data \cup {NULL}) /\ Len(Items) = k
  BY ItemsType
<1>7. /\ Append(Items, d) \in Seq(Data \cup {NULL})
      /\ Len(Append(Items, d)) = k + 1
      /\ Append(Items, d)[k + 1] = d
      /\ \A i \in 1..k : Append(Items, d)[i] = Items[i]
  BY <1>6, AppendProperties
<1>8. \A i \in 1..k : Items[i] = data[order[i]]
  BY <1>1 DEF Items
<1>9. \A i \in 1..(k + 1) : Items'[i] = Append(Items, d)[i]
  <2> TAKE i \in 1..(k + 1)
  <2>1. Items'[i] = data'[order'[i]]
    BY <1>5
  <2>2. CASE i = k + 1
    BY <1>4, <1>7, <2>1, <2>2
  <2>3. CASE i # k + 1
    <3>1. i \in 1..k
      BY <1>1, <2>3
    <3> QED
      BY <1>4, <1>7, <1>8, <2>1, <3>1
  <2> QED
    BY <2>2, <2>3
<1>10. Items' \in Seq(Data \cup {NULL}) /\ Len(Items') = k + 1
  <2>1. \A i \in 1..(k + 1) : data'[order'[i]] \in Data \cup {NULL}
    BY <1>1, <1>2 DEF TypeOK
  <2> QED
    BY <1>1, <1>5, <2>1
<1> QED
  BY <1>7, <1>9, <1>10, SeqEqual

(* Every step of the queue is a step of the abstract channel, or invisible. *)
LEMMA FifoStep == IInv /\ [Next]_vars => [Fifo!FifoNext]_(Fifo!fifoVars)
<1> SUFFICES ASSUME IInv, [Next]_vars PROVE [Fifo!FifoNext]_(Fifo!fifoVars)
  OBVIOUS
<1> USE DEF IInv
<1>a. ASSUME UNCHANGED <<order, data, arg, got>>
      PROVE  UNCHANGED Fifo!fifoVars
  BY <1>a DEF Fifo!fifoVars
<1>1. ASSUME NEW t \in Threads, Call(t) PROVE [Fifo!FifoNext]_(Fifo!fifoVars)
  <2>0. UNCHANGED <<order, data, got>>
    BY <1>1 DEF Call, list
  <2>1. CASE UNCHANGED arg
    BY <1>a, <2>0, <2>1
  <2>2. ASSUME NEW d \in Data, arg' = [arg EXCEPT ![t] = d]
        PROVE  Fifo!FifoNext
    <3>1. Fifo!Offer(t, d)
      BY <2>0, <2>2 DEF Fifo!Offer
    <3> QED
      BY <3>1 DEF Fifo!FifoNext
  <2> QED
    BY <1>1, <2>1, <2>2 DEF Call
<1>2. ASSUME NEW t \in Threads, queue_push_insert(t) PROVE Fifo!FifoNext
  <2>1. PICK n \in Nodes \ heap :
           /\ data' = [data EXCEPT ![n] = arg[t]]
           /\ order' = Append(order, n)
    BY <1>2 DEF queue_push_insert
  <2>2. arg[t] \in Data \cup {NULL}
    BY DEF TypeOK
  <2>3. Items' = Append(Items, arg[t])
    BY <2>1, <2>2, ItemsInsert
  <2>4. life # "draining"
    BY <1>2 DEF queue_push_insert, MutualExclusion, Done, TypeOK
  <2>5. MaxSize > 0 => Len(Items) < MaxSize
    <3>1. size = Len(order) /\ size \in Int
      BY <2>4 DEF ListSound, TypeOK
    <3>2. MaxSize > 0 => size < MaxSize
      BY <1>2, <3>1, QueueAssumption DEF queue_push_insert, Full, Bounded
    <3> QED
      BY <3>1, <3>2, ItemsType
  <2>6. Fifo!Put(t)
    BY <1>2, <2>3, <2>5 DEF Fifo!Put, Items, queue_push_insert
  <2> QED
    BY <2>6 DEF Fifo!FifoNext
<1>3. ASSUME NEW t \in Threads, queue_pull_remove(t) PROVE Fifo!FifoNext
  <2>1. life # "draining"
    BY <1>3 DEF queue_pull_remove, MutualExclusion, Done, TypeOK
  <2>2. head # NULL
    <3>1. Len(order) # 0 /\ order \in Seq(Nodes)
      BY <1>3, <2>1 DEF ListSound, queue_pull_remove, TypeOK
    <3>2. order # <<>> /\ order[1] \in Nodes
      BY <3>1
    <3> QED
      BY <3>2, QueueAssumption DEF ListSound
  <2>3. /\ Unlink /\ data' = data /\ arg' = arg
        /\ got' = [got EXCEPT ![t] = data[head]]
    BY <1>3, <2>2 DEF queue_pull_remove, Payload
  <2>4. Items # <<>> /\ Head(Items) = data[head] /\ Items' = Tail(Items)
    BY <2>2, <2>3, ItemsUnlink
  <2>5. Fifo!Get(t)
    BY <2>3, <2>4 DEF Fifo!Get, Items
  <2> QED
    BY <2>5 DEF Fifo!FifoNext
<1>4. CASE queue_destroy_drain
  <2>1. head # NULL /\ Unlink /\ UNCHANGED <<data, arg, got>>
    BY <1>4 DEF queue_destroy_drain
  <2>2. Items # <<>> /\ Items' = Tail(Items)
    BY <2>1, ItemsUnlink
  <2>3. Fifo!Discard
    BY <2>1, <2>2 DEF Fifo!Discard, Items
  <2> QED
    BY <2>3 DEF Fifo!FifoNext
<1>5. ASSUME NEW t \in Threads,
             \/ queue_push_wait(t) \/ queue_push_nomem(t) \/ queue_pull_wait(t)
             \/ Lock(t) \/ SpuriousWake(t)
      PROVE  UNCHANGED Fifo!fifoVars
  BY <1>5, <1>a DEF queue_push_wait, queue_push_nomem, queue_pull_wait, Lock,
     SpuriousWake, CondWait, list
<1>6. CASE queue_destroy_lock \/ queue_destroy_end \/ UNCHANGED vars
  BY <1>6, <1>a DEF queue_destroy_lock, queue_destroy_end, vars, list
<1> QED
  BY <1>1, <1>2, <1>3, <1>4, <1>5, <1>6 DEF Next, Step, Destroy, Terminated

(* queue.c implements the first-in first-out channel. *)
THEOREM QueueIsFifo == Spec => IsFifo
<1>1. Init => Fifo!FifoInit
  BY DEF Init, Fifo!FifoInit
<1> QED
  BY <1>1, InitIInv, NextIInv, FifoStep, PTL DEF Spec, IsFifo, Fifo!FifoSpec
=============================================================================
