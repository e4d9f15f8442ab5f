------------------------------- MODULE Vector -------------------------------
(***************************************************************************)
(* vector/vector.c: an array of pointers to elements that the vector owns, *)
(* each made by copy_constructor or default_constructor and given up with  *)
(* destructor.  An element is a number that the allocator uses again once  *)
(* it is free; array positions count from 1 here, from 0 in the interface. *)
(***************************************************************************)
EXTENDS Integers, Sequences, SequencesExt, FiniteSets, FiniteSetsExt

CONSTANTS
  INITIAL_CAPACITY,
  Values,     (* values of the elements                                   *)
  Default,    (* value that default_constructor gives                     *)
  Elements,   (* number of elements the allocator has                     *)
  MaxSize     (* bound on the size                                        *)

(* What the constants stand for; the modules that instantiate this one     *)
(* assume it.                                                              *)
VectorAssumption ==
  /\ {INITIAL_CAPACITY, MaxSize, Elements} \subseteq Nat \ {0}
  /\ Values \subseteq Nat \ {0} /\ Default \in Nat \ {0}

VARIABLES
  size,
  array,      (* as long as the capacity; 0 is a pointer never set        *)
  value,      (* per element its value; 0 when the element is free        *)
  life        (* used, destroyed, or crashed                              *)

vars == <<size, array, value, life>>
capacity == Len(array)

Init ==
  /\ size = 0
  /\ array = [j \in 1..INITIAL_CAPACITY |-> 0]
  /\ value = [e \in 1..Elements |-> 0]
  /\ life = "used"

(* The least power of GROWTH_FACTOR that is no less than target. *)
GROWTH_FACTOR == 2
get_new_capacity(target) ==
  Min({n \in {GROWTH_FACTOR ^ k : k \in 0..target} : n >= target})

(* The array after realloc, when n slots are needed. *)
Room(n) ==
  IF n <= capacity THEN array
  ELSE [j \in 1..get_new_capacity(n) |-> IF j <= capacity THEN array[j] ELSE 0]

(* The elements that the next k constructions take: the lowest free ones. *)
FreeElements(h) == {e \in 1..Elements : h[e] = 0}
Fresh(h, k) == SubSeq(SetToSortSeq(FreeElements(h), <), 1, k)
Enough(h, k) == Cardinality(FreeElements(h)) >= k

Destroy(es) == [e \in 1..Elements |-> IF e \in es THEN 0 ELSE value[e]]
Slots(from, to) == {array[j] : j \in (from + 1)..to}

(* A loop `for (i = size - 1; i >= 0; i--)` never ends: i is unsigned, and  *)
(* the accesses leave the array.                                            *)
Crash == life' = "crashed" /\ UNCHANGED <<size, array, value>>

vector_resize(n) ==
  \/ /\ n > size /\ Enough(value, n - size)
     /\ LET new == Fresh(value, n - size)
        IN /\ array' = [j \in DOMAIN Room(n) |->
                          IF j \in (size + 1)..n THEN new[j - size] ELSE Room(n)[j]]
           /\ value' = [e \in 1..Elements |->
                          IF Contains(new, e) THEN Default ELSE value[e]]
     /\ size' = n
     /\ UNCHANGED life
  \/ /\ n <= size /\ n > 0
     /\ value' = Destroy(Slots(n, size))
     /\ size' = n
     /\ UNCHANGED <<array, life>>
  \/ n = 0 /\ Crash

vector_reserve(n) ==
  /\ n > capacity
  /\ array' = Room(n)
  /\ UNCHANGED <<size, value, life>>

(* destructor of the old element, then copy_constructor of the new one *)
vector_set(p, v) ==
  /\ p < size
  /\ LET h == Destroy({array[p + 1]})
         new == Fresh(h, 1)[1]
     IN /\ value' = [h EXCEPT ![new] = v]
        /\ array' = [array EXCEPT ![p + 1] = new]
  /\ UNCHANGED <<size, life>>

vector_push_back(v) ==
  /\ size < MaxSize /\ Enough(value, 1)
  /\ LET new == Fresh(value, 1)[1]
     IN /\ value' = [value EXCEPT ![new] = v]
        /\ array' = [Room(size + 1) EXCEPT ![size + 1] = new]
  /\ size' = size + 1
  /\ UNCHANGED life

vector_pop_back ==
  /\ size > 0
  /\ value' = Destroy({array[size]})
  /\ size' = size - 1
  /\ UNCHANGED <<array, life>>

(* Mutant: the element at p is not moved. *)
MutMoved(p, new) ==
  [j \in DOMAIN Room(size + 1) |->
     CASE j = p + 1 -> new
       [] j \in (p + 3)..(size + 1) -> array[j - 1]
       [] OTHER -> Room(size + 1)[j]]

(* The elements from p on move up by one. *)
Moved(p, new) ==
  [j \in DOMAIN Room(size + 1) |->
     CASE j = p + 1 -> new
       [] j \in (p + 2)..(size + 1) -> array[j - 1]
       [] OTHER -> Room(size + 1)[j]]

(* At position 0 the loop does not end. *)
vector_insert(p, v) ==
  /\ size < MaxSize /\ p <= size /\ Enough(value, 1)
  /\ \/ /\ p > 0
        /\ LET new == Fresh(value, 1)[1]
           IN /\ value' = [value EXCEPT ![new] = v]
              /\ array' = Moved(p, new)
        /\ size' = size + 1
        /\ UNCHANGED life
     \/ p = 0 /\ Crash

(* The element at p is destroyed, the ones after it are replaced by copies  *)
(* of their successors; what was copied stays allocated.                    *)
vector_erase(p) ==
  /\ p < size
  /\ LET h == Destroy({array[p + 1]})
         copies == size - 1 - p
         new == Fresh(h, copies)
     IN /\ Enough(h, copies)
        /\ value' = [e \in 1..Elements |->
                       IF Contains(new, e)
                       THEN value[array[p + 1 + SelectInSeq(new, LAMBDA x : x = e)]]
                       ELSE h[e]]
        /\ array' = [j \in DOMAIN array |->
                       IF j \in (p + 1)..(size - 1) THEN new[j - p] ELSE array[j]]
  /\ size' = size - 1
  /\ UNCHANGED life

vector_clear ==
  /\ value' = Destroy(Slots(0, size))
  /\ size' = 0
  /\ UNCHANGED <<array, life>>

vector_destroy ==
  /\ value' = Destroy(Slots(0, size))
  /\ life' = "destroyed"
  /\ size' = 0
  /\ UNCHANGED array

Next ==
  /\ life = "used"
  /\ \/ vector_pop_back \/ vector_clear \/ vector_destroy
     \/ \E n \in 0..MaxSize :
          vector_resize(n) \/ vector_reserve(n) \/ vector_erase(n)
     \/ \E v \in Values :
          \/ vector_push_back(v)
          \/ \E p \in 0..MaxSize : vector_set(p, v) \/ vector_insert(p, v)

Spec == Init /\ [][Next]_vars

(***************************************************************************)
(* Properties.                                                             *)
(***************************************************************************)
(* What the pointers below size lead to behaves as a sequence of values: no *)
(* operation, in whatever order they are called and with elements used      *)
(* again, leaves two slots with one element or a slot with a destroyed one, *)
(* which a later operation would show (vector.c:159-311).                   *)
Held == INSTANCE List WITH
          contents <- [j \in 1..size |-> IF array[j] = 0 THEN 0 ELSE value[array[j]]]
IsList == Held!ListSpec
=============================================================================
