------------------------------ MODULE Memcheck ------------------------------
(***************************************************************************)
(* mini_memcheck/mini_memcheck.c: malloc, calloc, realloc and free with a  *)
(* linked list of what is allocated, the bytes requested and freed, and a  *)
(* count of the bad addresses.  mini_free unlinks a block and keeps its    *)
(* memory, so malloc never hands out an address again.  A failed malloc or *)
(* realloc, a request of 0 bytes and a free of NULL change nothing.        *)
(***************************************************************************)
EXTENDS Integers, Sequences, SequencesExt, FiniteSets, FiniteSetsExt, Functions

CONSTANTS
  Sizes,       (* sizes of the requests                                    *)
  MaxBlocks,   (* bound on the allocations                                 *)
  MaxBytes,    (* bound on total_memory_requested                          *)
  MaxInvalid,  (* bound on invalid_addresses                               *)
  NULL

(* What the constants stand for; the modules that instantiate this one     *)
(* assume it.                                                              *)
MemcheckAssumption ==
  /\ Sizes \subseteq Nat \ {0}
  /\ {MaxBlocks, MaxBytes, MaxInvalid} \subseteq Nat
  /\ NULL \notin Nat

VARIABLES
  list,          (* the blocks from head on, [at, request_size] each        *)
  total_memory_requested, total_memory_freed, invalid_addresses,
  allocated,     (* addresses that malloc has handed out                    *)
  held,          (* per block that the caller has and did not give back,    *)
                 (* the size it asked for last                              *)
  mistakes,      (* addresses passed in that were not the caller's to pass  *)
  undefined      (* a call touched memory that realloc had freed            *)

counters == <<total_memory_requested, total_memory_freed, invalid_addresses>>
caller == <<held, mistakes>>
vars == <<list, counters, allocated, caller, undefined>>

Init ==
  /\ list = <<>>
  /\ total_memory_requested = 0 /\ total_memory_freed = 0 /\ invalid_addresses = 0
  /\ allocated = 0
  /\ held = <<>> /\ mistakes = 0
  /\ undefined = FALSE

(* mini_malloc, and mini_calloc with its zeroing left out, of size bytes *)
mini_malloc(size) ==
  /\ allocated < MaxBlocks /\ total_memory_requested + size <= MaxBytes
  /\ allocated' = allocated + 1
  /\ list' = <<[at |-> allocated', request_size |-> size]>> \o list
  /\ total_memory_requested' = total_memory_requested + size
  /\ held' = [a \in DOMAIN held \cup {allocated'} |->
                IF a = allocated' THEN size ELSE held[a]]
  /\ UNCHANGED <<total_memory_freed, invalid_addresses, mistakes, undefined>>

mini_calloc(num_elements, element_size) == mini_malloc(num_elements * element_size)

(* The place of an address in the list; 0 when it is not there. *)
Find(payload) == Max({0} \cup {n \in DOMAIN list : list[n].at = payload})

(* The search for the address came to the end of the list. *)
Invalid ==
  /\ invalid_addresses < MaxInvalid
  /\ invalid_addresses' = invalid_addresses + 1
  /\ UNCHANGED <<list, total_memory_requested, total_memory_freed, allocated, undefined>>

(* The caller's side of a call with an address: right, or a mistake. *)
Mistaken(payload) ==
  IF payload \in DOMAIN held THEN UNCHANGED mistakes ELSE mistakes' = mistakes + 1

mini_free(payload) ==
  /\ Mistaken(payload)
  /\ held' = Restrict(held, DOMAIN held \ {payload})
  /\ \/ Find(payload) = 0 /\ Invalid
     \/ /\ Find(payload) # 0
        /\ list' = RemoveAt(list, Find(payload))
        /\ total_memory_freed' = total_memory_freed + list[Find(payload)].request_size
        /\ UNCHANGED <<total_memory_requested, invalid_addresses, allocated, undefined>>

(* Mutant: the header keeps the old size. *)
MutWithSize(n, size) == list
WithSize(n, size) == [list EXCEPT ![n].request_size = size]

(* realloc leaves the block where it is, or moves it and frees the old one. *)
(* After a move the code reads the freed block for its size, writes through *)
(* previous, NULL when the block was the head, and frees the block again.   *)
Resize(payload, size) ==
  LET pre_size == list[Find(payload)].request_size
  IN \/ /\ list' = WithSize(Find(payload), size)
        /\ \/ /\ pre_size <= size
              /\ total_memory_requested + (size - pre_size) <= MaxBytes
              /\ total_memory_requested' = total_memory_requested + (size - pre_size)
              /\ UNCHANGED total_memory_freed
           \/ /\ pre_size > size
              /\ total_memory_freed' = total_memory_freed + (pre_size - size)
              /\ UNCHANGED total_memory_requested
        /\ held' = [held EXCEPT ![payload] = size]
        /\ UNCHANGED <<invalid_addresses, allocated, mistakes, undefined>>
     \/ undefined' = TRUE /\ UNCHANGED <<list, counters, allocated, caller>>

mini_realloc(payload, size) ==
  \/ payload = NULL /\ size # 0 /\ mini_malloc(size)
  \/ payload # NULL /\ size = 0 /\ mini_free(payload)
  \/ /\ payload # NULL /\ size # 0
     /\ \/ Find(payload) = 0 /\ Invalid /\ Mistaken(payload) /\ UNCHANGED held
        \/ Find(payload) # 0 /\ Resize(payload, size)

(* A caller passes any address it has seen, and one it never got. *)
Next ==
  /\ ~undefined
  /\ \/ \E size \in Sizes :
          \/ mini_malloc(size)
          \/ \E n \in 1..2 : mini_calloc(n, size)
     \/ \E payload \in 1..(allocated + 1) : mini_free(payload)
     \/ \E payload \in 1..(allocated + 1) \cup {NULL}, size \in Sizes \cup {0} :
          mini_realloc(payload, size)

Spec == Init /\ [][Next]_vars

(***************************************************************************)
(* Properties.                                                             *)
(***************************************************************************)
(* The books are right: the list has every block the caller still owes,     *)
(* once and with its present size, the difference of the two totals is what *)
(* a leak report has to say, and every address that was freed before, or    *)
(* never handed out, has been counted and no other (mini_memcheck.c:16-146).*)
BooksBalance ==
  /\ {<<b.at, b.request_size>> : b \in ToSet(list)} = {<<a, held[a]>> : a \in DOMAIN held}
  /\ Len(list) = Cardinality(DOMAIN held)
  /\ total_memory_requested - total_memory_freed
       = MapThenSumSet(LAMBDA a : held[a], DOMAIN held)
  /\ invalid_addresses = mistakes
=============================================================================
