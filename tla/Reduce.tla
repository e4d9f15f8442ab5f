------------------------------- MODULE Reduce -------------------------------
(***************************************************************************)
(* teaching_threads/par_reduce.c: a list is cut into runs, one thread      *)
(* reduces each, and the results are reduced in the order of the runs.     *)
(* The reducer is taken as free as an associative one with a unit can be:  *)
(* concatenation, on the one-element sequences of the list's positions, so *)
(* that a lost, repeated or misplaced element shows in the result.         *)
(***************************************************************************)
EXTENDS Integers, Sequences, SequencesExt

CONSTANTS
  MaxLen,       (* bound on list_len                                       *)
  MaxThreads    (* bound on num_threads, which is at least 1               *)

(* What the constants stand for; the modules that instantiate this one     *)
(* assume it.                                                              *)
ReduceAssumption == MaxLen \in Nat /\ MaxThreads \in Nat \ {0}

VARIABLES
  list_len, num_threads,
  data,       (* the reduce_t of every thread to be created               *)
  num,        (* threads there are to create                              *)
  created,    (* threads created so far                                   *)
  result,     (* per thread that has run, what it allocated               *)
  retvals,    (* what the joins so far have returned, in order            *)
  returned    (* <<>> or the one value that par_reduce returns            *)

vars == <<list_len, num_threads, data, num, created, result, retvals, returned>>

(* reduce of reduce.h, with concatenation and <<>> *)
reduce(s) == FlattenSeq(s)
List(n) == [j \in 1..n |-> <<j>>]

(* Mutant: the remainder is left out. *)
MutThreadSize(len, n) ==
  [i \in 1..n |-> IF n > len THEN (IF i <= len THEN 1 ELSE 0) ELSE len \div n]

thread_size(len, n) ==
  [i \in 1..n |->
     CASE n > len -> IF i <= len THEN 1 ELSE 0
       [] n <= len -> (len \div n) + (IF i <= len % n THEN 1 ELSE 0)]

(* The run of thread i starts where the runs before it end. *)
start(sizes, i) == FoldLeft(+, 0, SubSeq(sizes, 1, i - 1))

Init ==
  /\ list_len \in 0..MaxLen /\ num_threads \in 1..MaxThreads
  /\ data = <<>> /\ num = 0 /\ created = 0
  /\ result = <<>> /\ retvals = <<>> /\ returned = <<>>

(* thread_size and the reduce_t of the runs.  A thread of size 0 is never   *)
(* created, and its reduce_t, unset in the code, never read.                *)
Cut ==
  LET sizes == thread_size(list_len, num_threads)
  IN /\ data = <<>>
     /\ data' = [i \in 1..num_threads |->
                   [start |-> start(sizes, i), len |-> sizes[i]]]
     /\ num' = Len(SelectSeq(sizes, LAMBDA k : k > 0))
     /\ result' = [i \in 1..num_threads |-> <<>>]
     /\ UNCHANGED <<list_len, num_threads, created, retvals, returned>>

pthread_create ==
  /\ data # <<>> /\ created < num
  /\ created' = created + 1
  /\ UNCHANGED <<list_len, num_threads, data, num, result, retvals, returned>>

start_routine(i) ==
  /\ i <= created /\ result[i] = <<>>
  /\ LET from == data[i].start
         run == SubSeq(List(list_len), from + 1, from + data[i].len)
     IN result' = [result EXCEPT ![i] = <<reduce(run)>>]
  /\ UNCHANGED <<list_len, num_threads, data, num, created, retvals, returned>>

(* main joins the threads in the order of the runs. *)
pthread_join ==
  LET i == Len(retvals) + 1
  IN /\ data # <<>> /\ created = num /\ i <= num
     /\ result[i] # <<>>
     /\ retvals' = retvals \o result[i]
     /\ UNCHANGED <<list_len, num_threads, data, num, created, result, returned>>

Return ==
  /\ data # <<>> /\ created = num /\ Len(retvals) = num
  /\ returned = <<>>
  /\ returned' = <<reduce(retvals)>>
  /\ UNCHANGED <<list_len, num_threads, data, num, created, result, retvals>>

Next ==
  \/ Cut \/ pthread_create \/ pthread_join \/ Return
  \/ \E i \in 1..num_threads : start_routine(i)

Spec == Init /\ [][Next]_vars

(***************************************************************************)
(* Properties.                                                             *)
(***************************************************************************)
(* Whatever the order in which the threads run, for fewer, as many and more *)
(* elements than threads, an empty list included, par_reduce returns what   *)
(* the sequential reduce of the whole list returns (par_reduce.c:26-94).    *)
ReduceExact == returned # <<>> => returned = <<reduce(List(list_len))>>
=============================================================================
