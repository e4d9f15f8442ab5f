---------------------------- MODULE BoundedFifo ----------------------------
(***************************************************************************)
(* What critical_concurrency/queue.c promises its callers: a first-in      *)
(* first-out channel that holds at most MaxSize items when MaxSize is      *)
(* positive and any number of them otherwise.  No mutex, no condition      *)
(* variable, no list nodes: an operation is one step.                      *)
(***************************************************************************)
EXTENDS Integers, Sequences

CONSTANTS
  Threads,  (* the callers                                          *)
  Data,     (* the values that can be pushed                        *)
  NULL,     (* "nothing yet"                                        *)
  MaxSize   (* the capacity; not positive means "no maximum"        *)

VARIABLES
  items,    (* the contents, oldest first                           *)
  offer,    (* offer[t]: the value t asked to push most recently    *)
  got       (* got[t]: the value t pulled most recently             *)

fifoVars == <<items, offer, got>>

FifoInit ==
  /\ items = <<>>
  /\ offer = [t \in Threads |-> NULL]
  /\ got = [t \in Threads |-> NULL]

(* A caller decides what to push. *)
Offer(t, d) ==
  /\ offer' = [offer EXCEPT ![t] = d]
  /\ UNCHANGED <<items, got>>

(* The value a caller offered becomes the youngest item. *)
Put(t) ==
  /\ MaxSize > 0 => Len(items) < MaxSize
  /\ items' = Append(items, offer[t])
  /\ UNCHANGED <<offer, got>>

(* A caller takes the oldest item. *)
Get(t) ==
  /\ items # <<>>
  /\ got' = [got EXCEPT ![t] = Head(items)]
  /\ items' = Tail(items)
  /\ UNCHANGED offer

(* Destroying the queue drops what is left in it. *)
Discard ==
  /\ items # <<>>
  /\ items' = Tail(items)
  /\ UNCHANGED <<offer, got>>

FifoNext ==
  \/ \E t \in Threads : \/ \E d \in Data : Offer(t, d)
                        \/ Put(t)
                        \/ Get(t)
  \/ Discard

FifoSpec == FifoInit /\ [][FifoNext]_fifoVars
=============================================================================
